---------------------------- MODULE Sessions_proofs -------------------------
(***************************************************************************)
(* Theorems about sessions: how a user signs in, and what his sockets, his *)
(* seats and his presence in rooms are after they drop and come back.      *)
(***************************************************************************)
EXTENDS Login, RoomPresence, TLAPS

-----------------------------------------------------------------------------
(***************************************************************************)
(* Logins, for any numbers, codes, accounts, tokens, limits and crashes.   *)
(***************************************************************************)

Code == [id : Otp, attempts : Nat]
Person == [id : Account, password : BOOLEAN]
Bearer == [mobile : Mobile]
Via == {"otp", "password", "firebase"}
Request == [state : {"none", "issued", "answered"}, via : Via,
            account : Account \cup {None}]

CodesTyped ==
    /\ otp \in [Mobile -> Code \cup {None}]
    /\ otpDisk \in [Mobile -> Code \cup {None}]
    /\ age \in [Otp -> {"none", "new", "cooled", "expired"}]
    /\ sending \subseteq Mobile \X Otp
    /\ sent \subseteq Otp
    /\ latest \in [Mobile -> Otp \cup {None}]
    /\ wrong \in [Otp -> Nat]
    /\ used \in [Otp -> Nat]
    /\ crashes \in Nat

\* Where a number's code can turn up.
Names(m, o) ==
    \/ latest[m] = o
    \/ otp[m] # None /\ otp[m].id = o
    \/ otpDisk[m] # None /\ otpDisk[m].id = o
    \/ <<m, o>> \in sending

\* A code was sent to one number, and only issued codes turn up anywhere.
OneNumber ==
    /\ \A m, n \in Mobile, o \in Otp : Names(m, o) /\ Names(n, o) => m = n
    /\ \A m \in Mobile, o \in Otp : Names(m, o) => age[o] # "none"
    /\ \A o \in Otp : age[o] = "none" => o \notin sent /\ used[o] = 0 /\ wrong[o] = 0
    /\ \A m \in Mobile, o \in Otp : <<m, o>> \in sending => o \notin sent

\* What can still be used, now or after a crash, was not used; the counter of
\* the live code misses at most the guesses given back by the crashes so far.
Counted ==
    /\ \A o \in Otp : used[o] <= 1 /\ wrong[o] <= MaxAttempts * (1 + crashes)
    /\ \A m \in Mobile : otp[m] # None =>
         /\ used[otp[m].id] = 0
         /\ otp[m].attempts <= MaxAttempts
         /\ wrong[otp[m].id] <= otp[m].attempts + MaxAttempts * crashes
    /\ \A m \in Mobile : otpDisk[m] # None =>
         used[otpDisk[m].id] = 0 /\ otpDisk[m].attempts <= MaxAttempts

Holds(store, m) ==
    /\ store[m] # None
    /\ store[m].id = latest[m]
    /\ store[m].attempts <= wrong[latest[m]]

\* The newest code of a number, while its SMS is under way or delivered.
Usable(m) ==
    LET o == latest[m] IN
    /\ o # None
    /\ o \in sent \/ <<m, o>> \in sending
    /\ ~Expired(o) /\ used[o] = 0 /\ wrong[o] < MaxAttempts

Kept == \A m \in Mobile : Usable(m) => Holds(otp, m) /\ Holds(otpDisk, m)

CodeInv == CodesTyped /\ OneNumber /\ Counted /\ Kept

PeopleTyped ==
    /\ account \in [Mobile -> Person \cup {None}]
    /\ accountDisk \in [Mobile -> Person \cup {None}]
    /\ token \in [Token -> Bearer \cup {None}]
    /\ tokenDisk \in [Token -> Bearer \cup {None}]
    /\ old \in [Token -> BOOLEAN]
    /\ login \in [Token -> Request]
    /\ handler \in [mobile : Mobile, via : Via] \cup {None}

\* An account in memory is in its file, under the same id.
AccountsSaved ==
    \A m \in Mobile : account[m] # None =>
        accountDisk[m] # None /\ accountDisk[m].id = account[m].id

\* The token of a login is in memory and in its file, and its account too,
\* from the moment it is issued.
Survives(t) ==
    /\ token[t] # None
    /\ tokenDisk[t] = token[t]
    /\ account[token[t].mobile] # None
    /\ account[token[t].mobile].id = login[t].account

SignInInv ==
    /\ PeopleTyped
    /\ AccountsSaved
    /\ \A t \in Token : login[t].state # "none" /\ ~old[t] => Survives(t)

LoginInv == CodeInv /\ SignInInv

-----------------------------------------------------------------------------
(* Codes                                                                   *)

\* Init: no code was issued.
LEMMA CodesInit == LoginInit => CodeInv
<1> SUFFICES ASSUME LoginInit PROVE CodeInv
  OBVIOUS
<1>1. /\ \A m \in Mobile : otp[m] = None /\ otpDisk[m] = None /\ latest[m] = None
      /\ \A o \in Otp : age[o] = "none" /\ wrong[o] = 0 /\ used[o] = 0
      /\ sending = {} /\ sent = {} /\ crashes = 0
  BY DEF LoginInit
<1>2. CodesTyped
  BY <1>1 DEF LoginInit, CodesTyped
<1>3. OneNumber
  BY <1>1, LoginAssumption DEF OneNumber, Names
<1>4. \A o \in Otp : 0 <= MaxAttempts * (1 + 0)
  BY LoginAssumption
<1>5. Counted
  BY <1>1, <1>4 DEF Counted
<1>6. Kept
  BY <1>1 DEF Kept, Usable
<1> QED BY <1>2, <1>3, <1>5, <1>6 DEF CodeInv

\* Codes are left alone by accounts, tokens and the lockout.
LEMMA CodesFrame ==
    ASSUME CodeInv, UNCHANGED <<otp, otpDisk, age, sending, sent, latest,
                                wrong, used, crashes>>
    PROVE  CodeInv'
<1>1. CodesTyped'
  BY DEF CodeInv, CodesTyped
<1>2. OneNumber'
  BY DEF CodeInv, OneNumber, Names
<1>3. Counted'
  BY DEF CodeInv, Counted
<1>4. Kept'
  BY DEF CodeInv, Kept, Usable, Holds, Expired
<1> QED BY <1>1, <1>2, <1>3, <1>4 DEF CodeInv

\* A new code replaces the number's earlier one in memory and in the file.
LEMMA SendKeeps ==
    ASSUME CodeInv, NEW m \in Mobile, NEW o \in Otp, SendOtp(m, o)
    PROVE  CodeInv'
<1> USE DEF CodeInv
<1> DEFINE c == [id |-> o, attempts |-> 0]
<1>1. /\ age[o] = "none"
      /\ otp' = [otp EXCEPT ![m] = c] /\ otpDisk' = otp'
      /\ sending' = sending \cup {<<m, o>>}
      /\ latest' = [latest EXCEPT ![m] = o]
      /\ UNCHANGED <<sent, wrong, used, crashes>>
  BY DEF SendOtp, Issue, SaveOtp
<1>2. age' = [p \in Otp |-> IF p = o THEN "new"
                            ELSE IF p = latest[m] THEN "expired" ELSE age[p]]
  BY DEF SendOtp
<1>3. c \in Code /\ c.id = o /\ c.attempts = 0 /\ c # None
  BY LoginAssumption DEF Code
<1> HIDE DEF c
<1>4. CodesTyped'
  BY <1>1, <1>2, <1>3 DEF CodesTyped
<1>5. /\ otp'[m] = c /\ otpDisk'[m] = c /\ latest'[m] = o
      /\ \A n \in Mobile \ {m} : /\ otp'[n] = otp[n] /\ otpDisk'[n] = otp[n]
                                 /\ latest'[n] = latest[n]
  BY <1>1 DEF CodesTyped
<1>6. used[o] = 0 /\ wrong[o] = 0 /\ o \notin sent
      /\ \A n \in Mobile : ~Names(n, o)
  BY <1>1 DEF OneNumber
<1>7. \A n \in Mobile, p \in Otp : Names(n, p)' => Names(n, p) \/ (n = m /\ p = o)
  BY <1>1, <1>3, <1>5 DEF Names
<1>8. \A p \in Otp : age'[p] = "none" => p # o /\ age[p] = "none"
  BY <1>2 DEF CodesTyped
<1>9. OneNumber'
  <2>1. \A n, k \in Mobile, p \in Otp : Names(n, p)' /\ Names(k, p)' => n = k
    BY <1>6, <1>7 DEF OneNumber
  <2>2. \A n \in Mobile, p \in Otp : Names(n, p)' => age'[p] # "none"
    BY <1>7, <1>8 DEF OneNumber
  <2>3. \A p \in Otp : age'[p] = "none" => p \notin sent' /\ used'[p] = 0 /\ wrong'[p] = 0
    BY <1>1, <1>8 DEF OneNumber
  <2>4. \A n \in Mobile, p \in Otp : <<n, p>> \in sending' => p \notin sent'
    BY <1>1, <1>6 DEF OneNumber
  <2> QED BY <2>1, <2>2, <2>3, <2>4 DEF OneNumber
<1>10. 0 <= 0 + MaxAttempts * crashes /\ 0 <= MaxAttempts
  BY LoginAssumption DEF CodesTyped
<1>11. Counted'
  BY <1>1, <1>3, <1>5, <1>6, <1>10 DEF Counted
<1>12. Kept'
  <2> SUFFICES ASSUME NEW n \in Mobile, Usable(n)'
               PROVE  Holds(otp, n)' /\ Holds(otpDisk, n)'
    BY DEF Kept
  <2>1. CASE n = m
    BY <1>1, <1>3, <1>5, <1>6, <2>1 DEF Holds
  <2>2. CASE n # m
    <3>1. latest[n] # o /\ latest[n] \in Otp
      BY <1>5, <1>6, <2>2 DEF Usable, Names, CodesTyped
    <3>2. latest[n] # latest[m]
      BY <2>2, <3>1 DEF OneNumber, Names
    <3>3. age'[latest[n]] = age[latest[n]]
      BY <1>2, <3>1, <3>2
    <3>4. Usable(n)
      BY <1>1, <1>5, <2>2, <3>1, <3>3 DEF Usable, Expired
    <3>5. Holds(otp, n)
      BY <3>4 DEF Kept
    <3> QED BY <1>1, <1>5, <2>2, <3>5 DEF Holds
  <2> QED BY <2>1, <2>2
<1> QED BY <1>4, <1>9, <1>11, <1>12

\* The SMS is accepted: the code is delivered, to its own number.
LEMMA AcceptedKeeps ==
    ASSUME CodeInv, NEW m \in Mobile, NEW o \in Otp, SmsAccepted(m, o)
    PROVE  CodeInv'
<1> USE DEF CodeInv
<1>1. /\ <<m, o>> \in sending
      /\ sending' = sending \ {<<m, o>>} /\ sent' = sent \cup {o}
      /\ UNCHANGED <<otp, otpDisk, age, latest, wrong, used, crashes>>
  BY DEF SmsAccepted
<1>2. CodesTyped'
  BY <1>1 DEF CodesTyped
<1>3. \A n \in Mobile, p \in Otp : Names(n, p)' => Names(n, p)
  BY <1>1 DEF Names
<1>4. \A n \in Mobile : <<n, o>> \in sending => n = m
  BY <1>1 DEF OneNumber, Names
<1>5. age[o] # "none"
  BY <1>1 DEF OneNumber, Names
<1>6. OneNumber'
  BY <1>1, <1>3, <1>4, <1>5 DEF OneNumber
<1>7. Counted'
  BY <1>1 DEF Counted
<1>8. \A n \in Mobile : Usable(n)' => Usable(n)
  BY <1>1, <1>4 DEF Usable, Expired, OneNumber, Names
<1>9. Kept'
  BY <1>1, <1>8 DEF Kept, Holds
<1> QED BY <1>2, <1>6, <1>7, <1>9

\* The SMS fails: only the code it carried is taken back.
LEMMA FailedKeeps ==
    ASSUME CodeInv, NEW m \in Mobile, NEW o \in Otp, SmsFailed(m, o)
    PROVE  CodeInv'
<1> USE DEF CodeInv
<1>1. /\ <<m, o>> \in sending
      /\ sending' = sending \ {<<m, o>>}
      /\ UNCHANGED <<age, sent, latest, wrong, used, crashes>>
  BY DEF SmsFailed
<1>2. \/ UNCHANGED <<otp, otpDisk>> /\ ~Revokes(m, o)
      \/ Revokes(m, o) /\ otp' = [otp EXCEPT ![m] = None] /\ otpDisk' = otp'
  BY DEF SmsFailed, SaveOtp, Without
<1>3. CodesTyped'
  BY <1>1, <1>2 DEF CodesTyped
<1>4. \A n \in Mobile : /\ otp'[n] = otp[n] \/ (otp'[n] = None /\ n = m /\ Revokes(m, o))
                        /\ \/ otpDisk'[n] = otpDisk[n] /\ ~Revokes(m, o)
                           \/ otpDisk'[n] = otp[n] /\ Revokes(m, o) /\ n # m
                           \/ otpDisk'[n] = None /\ Revokes(m, o) /\ n = m
  BY <1>2 DEF CodesTyped
<1>5. \A n \in Mobile, p \in Otp : Names(n, p)' => Names(n, p)
  BY <1>1, <1>4 DEF Names
<1>6. OneNumber'
  BY <1>1, <1>5 DEF OneNumber
<1>7. Counted'
  BY <1>1, <1>4 DEF Counted
<1>8. Kept'
  <2> SUFFICES ASSUME NEW n \in Mobile, Usable(n)'
               PROVE  Holds(otp, n)' /\ Holds(otpDisk, n)'
    BY DEF Kept
  <2>1. Usable(n)
    BY <1>1 DEF Usable, Expired
  <2>2. ~(n = m /\ latest[n] = o)
    BY <1>1 DEF Usable, OneNumber
  <2>3. Holds(otp, n) /\ Holds(otpDisk, n)
    BY <2>1 DEF Kept
  <2>4. ~(n = m /\ Revokes(m, o))
    BY <2>2, <2>3 DEF Holds, Revokes
  <2> QED BY <1>1, <1>4, <2>3, <2>4 DEF Holds
<1> QED BY <1>3, <1>6, <1>7, <1>8

\* Cooling down or expiring takes nothing away that could be used.
LEMMA AgesKeeps ==
    ASSUME CodeInv, NEW o \in Otp, OtpAges(o)
    PROVE  CodeInv'
<1> USE DEF CodeInv
<1>1. /\ age[o] # "none"
      /\ age' = [age EXCEPT ![o] = IF @ = "new" THEN "cooled" ELSE "expired"]
      /\ UNCHANGED <<otp, otpDisk, sending, sent, latest, wrong, used, crashes>>
  BY DEF OtpAges
<1>2. CodesTyped'
  BY <1>1 DEF CodesTyped
<1>3. \A p \in Otp : /\ age'[p] = "none" <=> age[p] = "none"
                     /\ age[p] = "expired" => age'[p] = "expired"
  BY <1>1 DEF CodesTyped
<1>4. OneNumber'
  BY <1>1, <1>3 DEF OneNumber, Names
<1>5. Counted'
  BY <1>1 DEF Counted
<1>6. \A n \in Mobile : Usable(n)' => Usable(n)
  BY <1>1, <1>3 DEF Usable, Expired, CodesTyped
<1>7. Kept'
  BY <1>1, <1>6 DEF Kept, Holds
<1> QED BY <1>2, <1>4, <1>5, <1>7

\* A code that expired or was guessed at too often is dropped, the file
\* following later.
LEMMA DropKeeps ==
    ASSUME CodeInv, NEW m \in Mobile, otp[m] # None, Spent(m),
           otp' = [otp EXCEPT ![m] = None],
           UNCHANGED <<otpDisk, age, sending, sent, latest, wrong, used, crashes>>
    PROVE  CodeInv'
<1> USE DEF CodeInv
<1>1. CodesTyped'
  BY DEF CodesTyped
<1>2. otp'[m] = None /\ \A n \in Mobile \ {m} : otp'[n] = otp[n]
  BY DEF CodesTyped
<1>3. OneNumber'
  BY <1>2 DEF OneNumber, Names
<1>4. Counted'
  BY <1>2 DEF Counted
<1>5. Kept'
  <2> SUFFICES ASSUME NEW n \in Mobile, Usable(n)'
               PROVE  Holds(otp, n)' /\ Holds(otpDisk, n)'
    BY DEF Kept
  <2>1. Usable(n)
    BY DEF Usable, Expired
  <2>2. Holds(otp, n) /\ Holds(otpDisk, n)
    BY <2>1 DEF Kept
  <2>3. otp[m] \in Code
    BY DEF CodesTyped
  <2>4. latest[n] \in Otp /\ wrong[latest[n]] \in Nat
    BY <2>1 DEF Usable, CodesTyped
  <2>5. n # m
    BY <2>1, <2>2, <2>3, <2>4, LoginAssumption
    DEF Holds, Spent, Usable, Expired, Code
  <2> QED BY <1>2, <2>2, <2>5 DEF Holds
<1> QED BY <1>1, <1>3, <1>4, <1>5

\* A wrong guess counts once in memory; the file may lag behind.
LEMMA RefuseKeeps ==
    ASSUME CodeInv, NEW m \in Mobile, RefuseCode(m)
    PROVE  CodeInv'
<1> USE DEF CodeInv
<1>1. UNCHANGED <<age, sending, sent, latest, used, crashes>>
  BY DEF RefuseCode
<1>2. CASE UNCHANGED <<otp, otpDisk, otpDirty, wrong>>
  BY <1>1, <1>2, CodesFrame
<1>3. CASE /\ otp[m] # None /\ Spent(m)
           /\ SaveOtpLater(Without(m))
           /\ UNCHANGED wrong
  BY <1>1, <1>3, DropKeeps DEF SaveOtpLater, Without
<1>4. CASE /\ otp[m] # None /\ ~Spent(m)
           /\ SaveOtpLater([otp EXCEPT ![m].attempts = @ + 1])
           /\ wrong' = [wrong EXCEPT ![otp[m].id] = @ + 1]
  <2> DEFINE o == otp[m].id
             c == [otp[m] EXCEPT !.attempts = @ + 1]
  <2>1. otp[m] \in Code /\ o \in Otp /\ otp[m].attempts \in Nat
    BY <1>4 DEF CodesTyped, Code
  <2>2. otp' = [otp EXCEPT ![m] = c] /\ otpDisk' = otpDisk
    BY <1>4 DEF SaveOtpLater, CodesTyped
  <2>3. /\ c \in Code /\ c.id = o /\ c.attempts = otp[m].attempts + 1
    BY <2>1 DEF Code
  <2>4. c # None
    BY <2>3, LoginAssumption DEF Code
  <2>5. wrong' = [wrong EXCEPT ![o] = @ + 1]
    BY <1>4
  <2>6. otp[m].attempts < MaxAttempts
    BY <1>4, <2>1, LoginAssumption DEF Spent
  <2>7. Names(m, o)
    BY <1>4 DEF Names
  <2> HIDE DEF c, o
  <2>8. CodesTyped'
    BY <1>1, <2>1, <2>2, <2>3, <2>5 DEF CodesTyped
  <2>9. otp'[m] = c /\ \A n \in Mobile \ {m} : otp'[n] = otp[n]
    BY <2>2 DEF CodesTyped
  <2>10. wrong'[o] = wrong[o] + 1 /\ \A p \in Otp \ {o} : wrong'[p] = wrong[p]
    BY <2>1, <2>5 DEF CodesTyped
  <2>11. \A n \in Mobile, p \in Otp : Names(n, p)' => Names(n, p)
    BY <1>1, <1>4, <2>2, <2>3, <2>9 DEF Names, o
  <2>12. OneNumber'
    <3>1. age[o] # "none"
      BY <2>1, <2>7 DEF OneNumber
    <3> QED BY <1>1, <2>10, <2>11, <3>1 DEF OneNumber
  <2>13. Counted'
    <3>1. MaxAttempts * crashes \in Nat /\ MaxAttempts \in Nat
          /\ MaxAttempts * (1 + crashes) = MaxAttempts * crashes + MaxAttempts
      BY LoginAssumption DEF CodesTyped
    <3> DEFINE given == MaxAttempts * crashes
    <3>2. wrong[o] <= otp[m].attempts + given /\ used[o] = 0
      BY <1>4 DEF Counted, o
    <3>3. wrong[o] \in Nat
      BY <2>1 DEF CodesTyped
    <3>4. wrong[o] + 1 <= otp[m].attempts + 1 + given
          /\ wrong[o] + 1 <= given + MaxAttempts
          /\ otp[m].attempts + 1 <= MaxAttempts
      <4> HIDE DEF given
      <4>1. given \in Nat /\ MaxAttempts \in Nat
        BY <3>1 DEF given
      <4> QED BY <2>1, <2>6, <3>2, <3>3, <4>1
    <3>5. \A p \in Otp : used'[p] <= 1 /\ wrong'[p] <= MaxAttempts * (1 + crashes')
      BY <1>1, <2>10, <3>1, <3>4 DEF Counted
    <3>6. \A n \in Mobile : otp'[n] # None =>
            /\ used'[otp'[n].id] = 0
            /\ otp'[n].attempts <= MaxAttempts
            /\ wrong'[otp'[n].id] <= otp'[n].attempts + MaxAttempts * crashes'
      <4> SUFFICES ASSUME NEW n \in Mobile, otp'[n] # None
                   PROVE  /\ used'[otp'[n].id] = 0
                          /\ otp'[n].attempts <= MaxAttempts
                          /\ wrong'[otp'[n].id] <= otp'[n].attempts + MaxAttempts * crashes'
        OBVIOUS
      <4>1. CASE n = m
        BY <1>1, <2>3, <2>9, <2>10, <3>2, <3>4, <4>1
      <4>2. CASE n # m
        <5>1. otp'[n] = otp[n] /\ otp[n] \in Code
          BY <2>9, <4>2 DEF CodesTyped
        <5>2. otp[n].id \in Otp /\ Names(n, otp[n].id)
          BY <5>1 DEF Names, Code
        <5>3. otp[n].id # o
          BY <2>1, <2>7, <4>2, <5>2 DEF OneNumber
        <5> QED BY <1>1, <2>10, <5>1, <5>2, <5>3 DEF Counted
      <4> QED BY <4>1, <4>2
    <3>7. \A n \in Mobile : otpDisk'[n] # None =>
            used'[otpDisk'[n].id] = 0 /\ otpDisk'[n].attempts <= MaxAttempts
      BY <1>1, <2>2 DEF Counted
    <3> QED BY <3>5, <3>6, <3>7 DEF Counted
  <2>14. Kept'
    <3> SUFFICES ASSUME NEW n \in Mobile, Usable(n)'
                 PROVE  Holds(otp, n)' /\ Holds(otpDisk, n)'
      BY DEF Kept
    <3>1. /\ latest[n] \in Otp /\ latest'[n] = latest[n]
          /\ wrong[latest[n]] \in Nat /\ wrong'[latest[n]] \in Nat
      BY <1>1, <2>8 DEF Usable, CodesTyped
    <3>2. wrong'[latest[n]] >= wrong[latest[n]]
      BY <2>1, <2>10, <3>1
    <3>3. Usable(n)
      BY <1>1, <3>1, <3>2, LoginAssumption DEF Usable, Expired
    <3>4. Holds(otp, n) /\ Holds(otpDisk, n)
      BY <3>3 DEF Kept
    <3>5. otpDisk[n].attempts \in Nat /\ otp[n].attempts \in Nat
      BY <3>4 DEF Holds, CodesTyped, Code
    <3>6. Holds(otpDisk, n)'
      BY <1>1, <2>2, <3>1, <3>2, <3>4, <3>5 DEF Holds
    <3>7. Holds(otp, n)'
      <4>1. CASE n = m
        <5>1. latest[n] = o
          BY <3>4, <4>1 DEF Holds, o
        <5> QED BY <1>1, <2>1, <2>3, <2>4, <2>9, <2>10, <3>1, <3>4, <4>1, <5>1 DEF Holds
      <4>2. CASE n # m
        BY <1>1, <2>9, <3>1, <3>2, <3>4, <3>5, <4>2 DEF Holds
      <4> QED BY <4>1, <4>2
    <3> QED BY <3>6, <3>7
  <2> QED BY <2>8, <2>12, <2>13, <2>14
<1> QED BY <1>2, <1>3, <1>4 DEF RefuseCode

\* The right code leaves memory and the file before it signs anyone in.
LEMMA AcceptKeeps ==
    ASSUME CodeInv, NEW m \in Mobile, AcceptCode(m)
    PROVE  CodeInv'
<1> USE DEF CodeInv
<1> DEFINE o == otp[m].id
<1>1. /\ otp[m] # None
      /\ otp' = [otp EXCEPT ![m] = None] /\ otpDisk' = otp'
      /\ used' = [used EXCEPT ![o] = @ + 1]
      /\ UNCHANGED <<age, sending, sent, latest, wrong, crashes>>
  BY DEF AcceptCode, Consume, SaveOtp, Without
<1>2. otp[m] \in Code /\ o \in Otp /\ Names(m, o)
  BY <1>1 DEF CodesTyped, Code, Names
<1>3. CodesTyped'
  BY <1>1, <1>2 DEF CodesTyped
<1>4. /\ otp'[m] = None /\ otpDisk'[m] = None
      /\ \A n \in Mobile \ {m} : otp'[n] = otp[n] /\ otpDisk'[n] = otp[n]
  BY <1>1 DEF CodesTyped
<1>5. used[o] = 0
  BY <1>1 DEF Counted
<1>6. used'[o] = 1 /\ \A p \in Otp \ {o} : used'[p] = used[p]
  BY <1>1, <1>2, <1>5 DEF CodesTyped
<1> HIDE DEF o
<1>7. \A n \in Mobile, p \in Otp : Names(n, p)' => Names(n, p)
  BY <1>1, <1>4 DEF Names
<1>8. age[o] # "none"
  BY <1>2 DEF OneNumber
<1>9. OneNumber'
  BY <1>1, <1>6, <1>7, <1>8 DEF OneNumber
<1>10. \A n \in Mobile : otp'[n] # None =>
         otp'[n] = otp[n] /\ otp[n].id \in Otp /\ otp[n].id # o
  <2> SUFFICES ASSUME NEW n \in Mobile, otp'[n] # None
               PROVE  otp'[n] = otp[n] /\ otp[n].id \in Otp /\ otp[n].id # o
    OBVIOUS
  <2>1. n # m /\ otp'[n] = otp[n] /\ otp[n] \in Code
    BY <1>4 DEF CodesTyped
  <2>2. otp[n].id \in Otp /\ Names(n, otp[n].id)
    BY <2>1 DEF Code, Names
  <2> QED BY <1>2, <2>1, <2>2 DEF OneNumber
<1>11. Counted'
  BY <1>1, <1>4, <1>6, <1>10 DEF Counted
<1>12. Kept'
  <2> SUFFICES ASSUME NEW n \in Mobile, Usable(n)'
               PROVE  Holds(otp, n)' /\ Holds(otpDisk, n)'
    BY DEF Kept
  <2>1. latest[n] \in Otp /\ latest[n] # o
    BY <1>1, <1>6 DEF Usable, CodesTyped
  <2>2. Usable(n)
    BY <1>1, <1>6, <2>1 DEF Usable, Expired
  <2>3. Holds(otp, n)
    BY <2>2 DEF Kept
  <2>4. n # m
    BY <2>1, <2>3 DEF Holds, o
  <2> QED BY <1>1, <1>4, <2>3, <2>4 DEF Holds
<1> QED BY <1>3, <1>9, <1>11, <1>12

\* The delayed save writes what is in memory.
LEMMA FlushKeeps ==
    ASSUME CodeInv, FlushOtp
    PROVE  CodeInv'
<1> USE DEF CodeInv
<1>1. otp' = otp /\ otpDisk' = otp
      /\ UNCHANGED <<age, sending, sent, latest, wrong, used, crashes>>
  BY DEF FlushOtp, SaveOtp
<1>2. CodesTyped'
  BY <1>1 DEF CodesTyped
<1>3. OneNumber'
  BY <1>1 DEF OneNumber, Names
<1>4. Counted'
  BY <1>1 DEF Counted
<1>5. Kept'
  BY <1>1 DEF Kept, Usable, Holds, Expired
<1> QED BY <1>2, <1>3, <1>4, <1>5

\* A crash brings the file back: no used code, and at most MaxAttempts of
\* the guesses at one are forgotten.
LEMMA CrashKeeps ==
    ASSUME CodeInv, Crash
    PROVE  CodeInv'
<1> USE DEF CodeInv
<1>1. /\ otp' = otpDisk /\ otpDisk' = otpDisk /\ sending' = {}
      /\ crashes' = crashes + 1
      /\ UNCHANGED <<age, sent, latest, wrong, used>>
  BY DEF Crash, SaveOtp
<1>2. CodesTyped'
  BY <1>1 DEF CodesTyped
<1>3. OneNumber'
  BY <1>1 DEF OneNumber, Names
<1>4. /\ MaxAttempts * (1 + crashes) = MaxAttempts * (crashes + 1)
      /\ MaxAttempts * (1 + crashes) <= MaxAttempts * (1 + (crashes + 1))
      /\ MaxAttempts * (1 + crashes) \in Nat
      /\ MaxAttempts * (1 + (crashes + 1)) \in Nat
  <2>1. crashes \in Nat /\ MaxAttempts \in Nat
    BY LoginAssumption DEF CodesTyped
  <2>2. MaxAttempts * (1 + (crashes + 1)) = MaxAttempts * (1 + crashes) + MaxAttempts
    BY <2>1
  <2>3. MaxAttempts * (1 + crashes) = MaxAttempts + MaxAttempts * crashes
        /\ MaxAttempts * crashes \in Nat
    BY <2>1
  <2> QED BY <2>1, <2>2, <2>3
<1>5. Counted'
  <2>1. \A p \in Otp : used'[p] <= 1 /\ wrong'[p] <= MaxAttempts * (1 + crashes')
    BY <1>1, <1>4 DEF Counted, CodesTyped
  <2>2. \A n \in Mobile : otp'[n] # None =>
          /\ used'[otp'[n].id] = 0
          /\ otp'[n].attempts <= MaxAttempts
          /\ wrong'[otp'[n].id] <= otp'[n].attempts + MaxAttempts * crashes'
    <3> SUFFICES ASSUME NEW n \in Mobile, otp'[n] # None
                 PROVE  /\ used'[otp'[n].id] = 0
                        /\ otp'[n].attempts <= MaxAttempts
                        /\ wrong'[otp'[n].id] <= otp'[n].attempts + MaxAttempts * crashes'
      OBVIOUS
    <3> DEFINE d == otpDisk[n]
               given == MaxAttempts * (crashes + 1)
    <3>1. otp'[n] = d /\ d \in Code /\ used[d.id] = 0 /\ d.attempts <= MaxAttempts
      BY <1>1 DEF Counted, CodesTyped
    <3>2. d.id \in Otp /\ d.attempts \in Nat
      BY <3>1 DEF Code
    <3>3. wrong[d.id] \in Nat /\ wrong[d.id] <= MaxAttempts * (1 + crashes)
      BY <3>2 DEF CodesTyped, Counted
    <3>4. wrong[d.id] <= given /\ given \in Nat
      BY <1>4, <3>3
    <3> HIDE DEF given
    <3>5. wrong[d.id] <= d.attempts + given
      BY <3>2, <3>3, <3>4
    <3> QED BY <1>1, <3>1, <3>5 DEF given
  <2>3. \A n \in Mobile : otpDisk'[n] # None =>
          used'[otpDisk'[n].id] = 0 /\ otpDisk'[n].attempts <= MaxAttempts
    BY <1>1 DEF Counted
  <2> QED BY <2>1, <2>2, <2>3 DEF Counted
<1>6. Kept'
  BY <1>1 DEF Kept, Usable, Holds, Expired
<1> QED BY <1>2, <1>3, <1>5, <1>6

\* Every step keeps what is said of the codes.
LEMMA CodesStep ==
    ASSUME CodeInv, [LoginNext]_loginVars
    PROVE  CodeInv'
<1>1. CASE UNCHANGED loginVars
  BY <1>1, CodesFrame DEF loginVars, codes
<1>2. ASSUME NEW m \in Mobile, NEW o \in Otp,
             SendOtp(m, o) \/ SmsAccepted(m, o) \/ SmsFailed(m, o)
      PROVE  CodeInv'
  BY <1>2, SendKeeps, AcceptedKeeps, FailedKeeps
<1>3. ASSUME NEW o \in Otp, OtpAges(o) PROVE CodeInv'
  BY <1>3, AgesKeeps
<1>4. ASSUME NEW m \in Mobile, PurgeExpired(m) PROVE CodeInv'
  BY <1>4, DropKeeps DEF PurgeExpired, SaveOtpLater, Without, Spent
<1>5. ASSUME NEW m \in Mobile, RefuseCode(m) \/ AcceptCode(m) PROVE CodeInv'
  BY <1>5, RefuseKeeps, AcceptKeeps
<1>6. ASSUME NEW m \in Mobile, FirebaseLogin(m) \/ DeleteAccount(m) PROVE CodeInv'
  BY <1>6, CodesFrame DEF FirebaseLogin, DeleteAccount, codes
<1>7. ASSUME NEW m \in Mobile, NEW right \in BOOLEAN, PasswordLogin(m, right)
      PROVE  CodeInv'
  BY <1>7, CodesFrame DEF PasswordLogin, codes
<1>8. ASSUME NEW k \in Kind, NEW m \in Mobile, LockoutEnds(k, m) PROVE CodeInv'
  BY <1>8, CodesFrame DEF LockoutEnds, codes
<1>9. ASSUME NEW u \in Account, CreateAccount(u) PROVE CodeInv'
  BY <1>9, CodesFrame DEF CreateAccount, codes
<1>10. ASSUME NEW t \in Token, \/ IssueToken(t) \/ Answer(t) \/ SessionFails(t)
                               \/ SetPassword(t) \/ Revoke(t) \/ TokenAges(t)
       PROVE  CodeInv'
  BY <1>10, CodesFrame
  DEF IssueToken, Answer, SessionFails, SetPassword, Revoke, TokenAges, codes
<1>11. ASSUME FlushUsers \/ FlushTokens PROVE CodeInv'
  BY <1>11, CodesFrame DEF FlushUsers, FlushTokens, codes
<1> QED BY <1>1, <1>2, <1>3, <1>4, <1>5, <1>6, <1>7, <1>8, <1>9, <1>10, <1>11,
           FlushKeeps, CrashKeeps
        DEF LoginNext, LoginStep

-----------------------------------------------------------------------------
(* Accounts and tokens                                                     *)

\* Init: nobody has an account or a token.
LEMMA SignInInit == LoginInit => SignInInv
<1> SUFFICES ASSUME LoginInit PROVE SignInInv
  OBVIOUS
<1>1. NoLogin \in Request /\ NoLogin.state = "none"
  BY DEF NoLogin, Request, Via
<1>2. PeopleTyped
  BY <1>1 DEF LoginInit, PeopleTyped
<1>3. AccountsSaved
  BY DEF LoginInit, AccountsSaved
<1>4. \A t \in Token : login[t].state = "none"
  BY <1>1 DEF LoginInit
<1> QED BY <1>2, <1>3, <1>4 DEF SignInInv

\* A step that at most starts a login.
LEMMA SignInFrame ==
    ASSUME SignInInv,
           UNCHANGED <<account, accountDisk, token, tokenDisk, old, login>>,
           handler' = handler \/ \E m \in Mobile, via \in Via :
                                     handler' = [mobile |-> m, via |-> via]
    PROVE  SignInInv'
<1>1. PeopleTyped'
  BY DEF SignInInv, PeopleTyped
<1>2. AccountsSaved'
  BY DEF SignInInv, AccountsSaved
<1>3. \A t \in Token : (login[t].state # "none" /\ ~old[t] => Survives(t))'
  BY DEF SignInInv, Survives
<1> QED BY <1>1, <1>2, <1>3 DEF SignInInv

\* A save of the accounts that keeps every id a login relies on.
LEMMA PeopleSaved ==
    ASSUME SignInInv, NEW people_ \in [Mobile -> Person \cup {None}],
           account' = people_, accountDisk' = people_,
           \A m \in Mobile : account[m] # None =>
               people_[m] # None /\ people_[m].id = account[m].id,
           UNCHANGED <<token, tokenDisk, old, login>>,
           handler' \in [mobile : Mobile, via : Via] \cup {None}
    PROVE  SignInInv'
<1>1. PeopleTyped'
  BY DEF SignInInv, PeopleTyped
<1>2. AccountsSaved'
  BY DEF AccountsSaved
<1>3. ASSUME NEW t \in Token, login'[t].state # "none", ~old'[t]
      PROVE  Survives(t)'
  <2>1. Survives(t)
    BY <1>3 DEF SignInInv
  <2>2. token[t].mobile \in Mobile
    BY <2>1 DEF SignInInv, PeopleTyped, Survives, Bearer
  <2> QED BY <2>1, <2>2 DEF Survives
<1> QED BY <1>1, <1>2, <1>3 DEF SignInInv

\* A new account is saved at once, for a number that had none.
LEMMA CreateKeeps ==
    ASSUME SignInInv, NEW u \in Account, CreateAccount(u)
    PROVE  SignInInv'
<1> DEFINE p == [id |-> u, password |-> FALSE]
           q == [account EXCEPT ![handler.mobile] = p]
<1>1. /\ handler # None /\ account[handler.mobile] = None
      /\ account' = q /\ accountDisk' = q
      /\ UNCHANGED <<token, tokenDisk, old, login, handler>>
  BY DEF CreateAccount, Idle, SaveUsers, tokens
<1>2. handler.mobile \in Mobile
      /\ handler' \in [mobile : Mobile, via : Via] \cup {None}
  BY <1>1 DEF SignInInv, PeopleTyped
<1>3. p \in Person
  BY DEF Person
<1> HIDE DEF p
<1>4. q \in [Mobile -> Person \cup {None}]
  BY <1>2, <1>3 DEF SignInInv, PeopleTyped
<1>5. \A m \in Mobile : account[m] # None => q[m] = account[m]
  BY <1>1, <1>2 DEF SignInInv, PeopleTyped
<1> HIDE DEF q
<1> QED BY <1>1, <1>2, <1>4, <1>5, PeopleSaved

\* A password is saved at once and keeps the account's id.
LEMMA PasswordKeeps ==
    ASSUME SignInInv, NEW t \in Token, SetPassword(t)
    PROVE  SignInInv'
<1> DEFINE m == token[t].mobile
           p == [account[m] EXCEPT !.password = TRUE]
           q == [account EXCEPT ![m] = p]
<1>1. /\ token[t] # None /\ account[m] # None
      /\ SaveUsers([account EXCEPT ![m].password = TRUE])
      /\ SignIn(m, "otp")
      /\ UNCHANGED <<token, tokenDisk, old, login>>
  BY DEF SetPassword, tokens
<1>2. m \in Mobile
  BY <1>1 DEF SignInInv, PeopleTyped, Bearer
<1> HIDE DEF m
<1>3. account[m] \in Person
  BY <1>1, <1>2 DEF SignInInv, PeopleTyped
<1>4. p \in Person /\ p.id = account[m].id
  BY <1>3 DEF Person
<1>5. account' = q /\ accountDisk' = q
  BY <1>1, <1>2 DEF SaveUsers, SignInInv, PeopleTyped
<1>6. p # None
  BY <1>4, LoginAssumption DEF Person
<1> HIDE DEF p
<1>7. q \in [Mobile -> Person \cup {None}]
  BY <1>2, <1>4 DEF SignInInv, PeopleTyped
<1>8. \A n \in Mobile : account[n] # None => q[n] # None /\ q[n].id = account[n].id
  BY <1>2, <1>4, <1>6 DEF SignInInv, PeopleTyped
<1>9. handler' \in [mobile : Mobile, via : Via] \cup {None}
  BY <1>1, <1>2 DEF SignIn, Via
<1> HIDE DEF q
<1> QED BY <1>1, <1>5, <1>7, <1>8, <1>9, PeopleSaved

\* A token is stored at once, for an account that is in its file.
LEMMA IssueKeeps ==
    ASSUME SignInInv, NEW t \in Token, IssueToken(t)
    PROVE  SignInInv'
<1> DEFINE m == handler.mobile
           b == [mobile |-> m]
           r == [state |-> IF production THEN "issued" ELSE "answered",
                 via |-> IF production THEN handler.via ELSE "otp",
                 account |-> account[m].id]
<1>1. /\ handler # None /\ account[m] # None
      /\ old' = [old EXCEPT ![t] = FALSE]
      /\ token' = [token EXCEPT ![t] = b] /\ tokenDisk' = token'
      /\ login' = [login EXCEPT ![t] = r]
      /\ handler' = None
      /\ UNCHANGED <<account, accountDisk>>
  BY DEF IssueToken, StoreToken, SaveTokens, Idle, people
<1>2. m \in Mobile /\ handler.via \in Via
  BY <1>1 DEF SignInInv, PeopleTyped
<1>3. account[m] \in Person /\ account[m].id \in Account
  BY <1>1, <1>2 DEF SignInInv, PeopleTyped, Person
<1>4. b \in Bearer /\ b.mobile = m /\ b # None
  BY <1>2, LoginAssumption DEF Bearer
<1>5. r \in Request /\ r.account = account[m].id /\ r.state # "none"
  BY <1>2, <1>3 DEF Request, Via
<1> HIDE DEF b, r, m
<1>6. PeopleTyped'
  BY <1>1, <1>4, <1>5 DEF SignInInv, PeopleTyped
<1>7. AccountsSaved'
  BY <1>1 DEF SignInInv, AccountsSaved
<1>8. ASSUME NEW s \in Token, login'[s].state # "none", ~old'[s]
      PROVE  Survives(s)'
  <2>1. CASE s = t
    <3>1. token'[t] = b /\ tokenDisk'[t] = b /\ login'[t] = r
      BY <1>1 DEF SignInInv, PeopleTyped
    <3> QED BY <1>1, <1>4, <1>5, <2>1, <3>1 DEF Survives
  <2>2. CASE s # t
    <3>1. /\ token'[s] = token[s] /\ tokenDisk'[s] = token[s]
          /\ login'[s] = login[s] /\ old'[s] = old[s]
      BY <1>1, <2>2 DEF SignInInv, PeopleTyped
    <3>2. Survives(s)
      BY <1>8, <3>1 DEF SignInInv
    <3> QED BY <1>1, <3>1, <3>2 DEF Survives
  <2> QED BY <2>1, <2>2
<1> QED BY <1>6, <1>7, <1>8 DEF SignInInv

\* Steps on the tokens of some requests that end, or are answered.
LEMMA TokensKeep ==
    ASSUME SignInInv, PeopleTyped',
           UNCHANGED <<account, accountDisk>>,
           \A t \in Token :
               login'[t].state # "none" /\ ~old'[t] =>
                   /\ login[t].state # "none" /\ ~old[t]
                   /\ token'[t] = token[t]
                   /\ tokenDisk'[t] \in {token[t], tokenDisk[t]}
                   /\ login'[t].account = login[t].account
    PROVE  SignInInv'
<1>1. AccountsSaved'
  BY DEF SignInInv, AccountsSaved
<1>2. ASSUME NEW t \in Token, login'[t].state # "none", ~old'[t]
      PROVE  Survives(t)'
  <2>1. Survives(t)
    BY <1>2 DEF SignInInv
  <2> QED BY <1>2, <2>1 DEF Survives
<1> QED BY <1>1, <1>2 DEF SignInInv

\* The answer to a login, or its failure, moves no token.
LEMMA AnswerKeeps ==
    ASSUME SignInInv, NEW t \in Token, Answer(t) \/ SessionFails(t)
    PROVE  SignInInv'
<1>1. UNCHANGED <<account, accountDisk, token, tokenDisk, old, handler>>
      /\ login[t].state = "issued"
  BY DEF Answer, SessionFails, people
<1>2. login[t] \in Request
  BY DEF SignInInv, PeopleTyped
<1>3. PICK r \in Request : /\ login' = [login EXCEPT ![t] = r]
                           /\ r.state # "none" => r.account = login[t].account
  <2>1. CASE Answer(t)
    <3> DEFINE r == [login[t] EXCEPT !.state = "answered", !.via = "otp"]
    <3>1. login' = [login EXCEPT ![t] = r]
      BY <2>1 DEF Answer, SignInInv, PeopleTyped
    <3>2. r \in Request /\ r.account = login[t].account
      BY <1>2 DEF Request, Via
    <3> QED BY <3>1, <3>2
  <2>2. CASE SessionFails(t)
    <3>1. login' = [login EXCEPT ![t] = NoLogin]
      BY <2>2 DEF SessionFails
    <3>2. NoLogin \in Request /\ NoLogin.state = "none"
      BY DEF NoLogin, Request, Via
    <3> QED BY <3>1, <3>2
  <2> QED BY <2>1, <2>2
<1>4. PeopleTyped'
  BY <1>1, <1>3 DEF SignInInv, PeopleTyped
<1>5. \A s \in Token : login'[s] = IF s = t THEN r ELSE login[s]
  BY <1>3 DEF SignInInv, PeopleTyped
<1> QED BY <1>1, <1>3, <1>4, <1>5, TokensKeep

\* A token that is revoked, or grows old, ends its login.
LEMMA EndKeeps ==
    ASSUME SignInInv, NEW t \in Token, Revoke(t) \/ TokenAges(t)
    PROVE  SignInInv'
<1>1. UNCHANGED <<account, accountDisk, tokenDisk, handler>>
  BY DEF Revoke, TokenAges, people
<1>2. NoLogin \in Request /\ NoLogin.state = "none"
  BY DEF NoLogin, Request, Via
<1>3. CASE Revoke(t)
  <2>1. /\ token' = [token EXCEPT ![t] = None]
        /\ login' = [login EXCEPT ![t] = NoLogin] /\ old' = old
    BY <1>3 DEF Revoke, SaveTokensLater
  <2>2. PeopleTyped'
    BY <1>1, <1>2, <2>1 DEF SignInInv, PeopleTyped
  <2>3. \A s \in Token : IF s = t THEN login'[s] = NoLogin
                         ELSE login'[s] = login[s] /\ token'[s] = token[s]
    BY <2>1 DEF SignInInv, PeopleTyped
  <2> QED BY <1>1, <1>2, <2>1, <2>2, <2>3, TokensKeep
<1>4. CASE TokenAges(t)
  <2>1. UNCHANGED <<token, login>> /\ old' = [old EXCEPT ![t] = TRUE]
    BY <1>4 DEF TokenAges
  <2>2. PeopleTyped'
    BY <1>1, <2>1 DEF SignInInv, PeopleTyped
  <2>3. \A s \in Token : ~old'[s] => ~old[s]
    BY <2>1 DEF SignInInv, PeopleTyped
  <2> QED BY <1>1, <2>1, <2>2, <2>3, TokensKeep
<1> QED BY <1>3, <1>4

\* Deleting an account ends every login of its number first.
LEMMA DeleteKeeps ==
    ASSUME SignInInv, NEW m \in Mobile, DeleteAccount(m)
    PROVE  SignInInv'
<1>1. /\ token' = [t \in Token |-> IF t \in OfMobile(m) THEN None ELSE token[t]]
      /\ login' = [t \in Token |-> IF t \in OfMobile(m) THEN NoLogin ELSE login[t]]
      /\ account' = [account EXCEPT ![m] = None]
      /\ UNCHANGED <<accountDisk, tokenDisk, old, handler>>
  BY DEF DeleteAccount, SaveTokensLater, SaveUsersLater
<1>2. NoLogin \in Request /\ NoLogin.state = "none"
  BY DEF NoLogin, Request, Via
<1>3. PeopleTyped'
  BY <1>1, <1>2 DEF SignInInv, PeopleTyped
<1>4. account'[m] = None /\ \A n \in Mobile \ {m} : account'[n] = account[n]
  BY <1>1 DEF SignInInv, PeopleTyped
<1>5. AccountsSaved'
  BY <1>1, <1>4 DEF SignInInv, AccountsSaved
<1>6. ASSUME NEW t \in Token, login'[t].state # "none", ~old'[t]
      PROVE  Survives(t)'
  <2>1. t \notin OfMobile(m)
    BY <1>1, <1>2, <1>6
  <2>2. login'[t] = login[t] /\ token'[t] = token[t] /\ tokenDisk'[t] = tokenDisk[t]
    BY <1>1, <2>1
  <2>3. Survives(t)
    BY <1>1, <1>6, <2>2 DEF SignInInv
  <2>4. token[t].mobile \in Mobile \ {m}
    BY <2>1, <2>3 DEF Survives, OfMobile, SignInInv, PeopleTyped, Bearer
  <2> QED BY <1>4, <2>2, <2>3, <2>4 DEF Survives
<1> QED BY <1>3, <1>5, <1>6 DEF SignInInv

\* The delayed saves write what is in memory.
LEMMA SavesKeep ==
    ASSUME SignInInv, FlushUsers \/ FlushTokens
    PROVE  SignInInv'
<1>1. CASE FlushUsers
  <2>1. account' = account /\ accountDisk' = account
        /\ UNCHANGED <<token, tokenDisk, old, login, handler>>
    BY <1>1 DEF FlushUsers, SaveUsers, tokens
  <2>2. account \in [Mobile -> Person \cup {None}]
        /\ handler' \in [mobile : Mobile, via : Via] \cup {None}
    BY <2>1 DEF SignInInv, PeopleTyped
  <2> QED BY <2>1, <2>2, PeopleSaved
<1>2. CASE FlushTokens
  <2>1. token' = token /\ tokenDisk' = token
        /\ UNCHANGED <<account, accountDisk, old, login, handler>>
    BY <1>2 DEF FlushTokens, SaveTokens, people
  <2>2. PeopleTyped'
    BY <2>1 DEF SignInInv, PeopleTyped
  <2> QED BY <2>1, <2>2, TokensKeep
<1> QED BY <1>1, <1>2

\* After a crash an answered login finds its account and token in the files.
LEMMA CrashSurvived ==
    ASSUME SignInInv, Crash
    PROVE  SignInInv'
<1>1. /\ account' = accountDisk /\ accountDisk' = accountDisk
      /\ token' = [t \in Token |-> IF old[t] THEN None ELSE tokenDisk[t]]
      /\ login' = [t \in Token |-> IF login[t].state = "issued" THEN NoLogin
                                   ELSE login[t]]
      /\ handler' = None
      /\ UNCHANGED <<tokenDisk, old>>
  BY DEF Crash, SaveUsers
<1>2. NoLogin \in Request /\ NoLogin.state = "none"
  BY DEF NoLogin, Request, Via
<1>3. PeopleTyped'
  BY <1>1, <1>2 DEF SignInInv, PeopleTyped
<1>4. AccountsSaved'
  BY <1>1 DEF AccountsSaved
<1>5. ASSUME NEW t \in Token, login'[t].state # "none", ~old'[t]
      PROVE  Survives(t)'
  <2>1. login'[t] = login[t] /\ token'[t] = tokenDisk[t] /\ tokenDisk'[t] = tokenDisk[t]
    BY <1>1, <1>2, <1>5
  <2>2. Survives(t)
    BY <1>1, <1>5, <2>1 DEF SignInInv
  <2>3. token[t].mobile \in Mobile
    BY <2>2 DEF Survives, SignInInv, PeopleTyped, Bearer
  <2>4. accountDisk[token[t].mobile] # None
        /\ accountDisk[token[t].mobile].id = login[t].account
    BY <2>2, <2>3 DEF Survives, SignInInv, AccountsSaved
  <2> QED BY <1>1, <2>1, <2>2, <2>4 DEF Survives
<1> QED BY <1>3, <1>4, <1>5 DEF SignInInv

\* Every step keeps what is said of accounts, tokens and logins.
LEMMA SignInStep ==
    ASSUME SignInInv, [LoginNext]_loginVars
    PROVE  SignInInv'
<1>1. CASE UNCHANGED loginVars
  BY <1>1, SignInFrame DEF loginVars, people, tokens
<1>2. ASSUME NEW m \in Mobile, NEW o \in Otp,
             SendOtp(m, o) \/ SmsAccepted(m, o) \/ SmsFailed(m, o)
      PROVE  SignInInv'
  BY <1>2, SignInFrame DEF SendOtp, SmsAccepted, SmsFailed, people, tokens
<1>3. ASSUME NEW o \in Otp, OtpAges(o) PROVE SignInInv'
  BY <1>3, SignInFrame DEF OtpAges, people, tokens
<1>4. ASSUME NEW m \in Mobile, PurgeExpired(m) \/ RefuseCode(m) PROVE SignInInv'
  BY <1>4, SignInFrame DEF PurgeExpired, RefuseCode, people, tokens
<1>5. ASSUME NEW m \in Mobile, AcceptCode(m) \/ FirebaseLogin(m) PROVE SignInInv'
  <2>1. UNCHANGED <<people, tokens>>
        /\ (handler' = handler \/ SignIn(m, "otp") \/ SignIn(m, "firebase"))
    BY <1>5 DEF AcceptCode, FirebaseLogin
  <2>2. handler' = handler \/ \E via \in Via : handler' = [mobile |-> m, via |-> via]
    BY <2>1 DEF SignIn, Via
  <2> QED BY <2>1, <2>2, SignInFrame DEF people, tokens
<1>6. ASSUME NEW m \in Mobile, DeleteAccount(m) PROVE SignInInv'
  BY <1>6, DeleteKeeps
<1>7. ASSUME NEW m \in Mobile, NEW right \in BOOLEAN, PasswordLogin(m, right)
      PROVE  SignInInv'
  <2>1. UNCHANGED <<people, tokens>> /\ (handler' = handler \/ SignIn(m, "password"))
    BY <1>7 DEF PasswordLogin
  <2>2. handler' = handler \/ \E via \in Via : handler' = [mobile |-> m, via |-> via]
    BY <2>1 DEF SignIn, Via
  <2> QED BY <2>1, <2>2, SignInFrame DEF people, tokens
<1>8. ASSUME NEW k \in Kind, NEW m \in Mobile, LockoutEnds(k, m) PROVE SignInInv'
  BY <1>8, SignInFrame DEF LockoutEnds, people, tokens
<1>9. ASSUME NEW u \in Account, CreateAccount(u) PROVE SignInInv'
  BY <1>9, CreateKeeps
<1>10. ASSUME NEW t \in Token, \/ IssueToken(t) \/ Answer(t) \/ SessionFails(t)
                               \/ SetPassword(t) \/ Revoke(t) \/ TokenAges(t)
       PROVE  SignInInv'
  BY <1>10, IssueKeeps, AnswerKeeps, PasswordKeeps, EndKeeps
<1>11. ASSUME FlushOtp PROVE SignInInv'
  BY <1>11, SignInFrame DEF FlushOtp, people, tokens
<1> QED BY <1>1, <1>2, <1>3, <1>4, <1>5, <1>6, <1>7, <1>8, <1>9, <1>10, <1>11,
           SavesKeep, CrashSurvived
        DEF LoginNext, LoginStep

-----------------------------------------------------------------------------
\* What the code store, the two files behind it and the accounts and tokens
\* say of each other holds in every reachable state.
THEOREM LoginInvariant == LoginSpec => []LoginInv
<1>1. LoginInit => LoginInv
  BY CodesInit, SignInInit DEF LoginInv
<1>2. LoginInv /\ [LoginNext]_loginVars => LoginInv'
  BY CodesStep, SignInStep DEF LoginInv
<1> QED BY <1>1, <1>2, PTL DEF LoginSpec

\* "OTP sent" is true: no failed send of an earlier code, sweep or restart
\* takes a delivered code away before it expires, is used, replaced or
\* guessed at too often (revokeOtp, purgeExpired, verifyOtp).
THEOREM DeliveredOtpAlwaysWorks == LoginSpec => []DeliveredOtpWorks
<1>1. LoginInv => DeliveredOtpWorks
  <2> SUFFICES ASSUME LoginInv, NEW m \in Mobile,
                      latest[m] # None, latest[m] \in sent, ~Expired(latest[m]),
                      used[latest[m]] = 0, wrong[latest[m]] < MaxAttempts
               PROVE  otp[m] # None /\ otp[m].id = latest[m]
    BY DEF DeliveredOtpWorks
  <2>1. Usable(m)
    BY DEF Usable
  <2> QED BY <2>1 DEF LoginInv, CodeInv, Kept, Holds
<1> QED BY <1>1, LoginInvariant, PTL

\* A code signs in at most once, and a crash gives back at most MaxAttempts
\* guesses at it (verifyOtp's immediate and delayed writes).
THEOREM OtpAlwaysSpentOnce == LoginSpec => []OtpIsSpentOnce
<1>1. LoginInv => OtpIsSpentOnce
  BY DEF LoginInv, CodeInv, Counted, OtpIsSpentOnce
<1> QED BY <1>1, LoginInvariant, PTL

\* The token and the account of an answered login are in memory and in their
\* files until the token ends or the account is deleted (verify-otp,
\* issueToken, saveUsers).
THEOREM LoginsAlwaysSurvive == LoginSpec => []LoginsSurvive
<1>1. LoginInv => LoginsSurvive
  <2> SUFFICES ASSUME LoginInv, NEW t \in Token,
                      login[t].state = "answered", ~old[t],
                      NEW accounts \in {account, accountDisk}
               PROVE  /\ token[t] # None /\ tokenDisk[t] = token[t]
                      /\ accounts[token[t].mobile] # None
                      /\ accounts[token[t].mobile].id = login[t].account
    BY DEF LoginsSurvive
  <2>1. Survives(t)
    BY DEF LoginInv, SignInInv
  <2>2. token[t].mobile \in Mobile
    BY <2>1 DEF Survives, LoginInv, SignInInv, PeopleTyped, Bearer
  <2> QED BY <2>1, <2>2 DEF Survives, LoginInv, SignInInv, AccountsSaved
<1> QED BY <1>1, LoginInvariant, PTL

-----------------------------------------------------------------------------
(***************************************************************************)
(* Rooms, seats and presence, for any users, sockets, rooms and seats.     *)
(* A user may have several sockets open at once.                           *)
(***************************************************************************)

RoomTyped ==
    /\ conn \in [Sock -> {"new", "open", "closed"}]
    /\ as \in [Sock -> User \cup {Null}]
    /\ current \in [Sock -> Room \cup {Null}]
    /\ sub \in [Sock -> SUBSET Room]
    /\ connGen \in [Sock -> Nat]
    /\ view \in [Sock -> Room \cup {Null}]
    /\ checking \subseteq Sock
    /\ primary \in [User -> Sock \cup {Null}]
    /\ gen \in [User -> Nat]
    /\ pend \in [User -> Timer(Room) \cup {Null}]
    /\ presPend \in [User -> Timer({Null}) \cup {Null}]
    /\ timers \subseteq Timer(Room)
    /\ presTimers \subseteq Timer({Null})
    /\ rooms \in [Room -> RoomState \cup {Null}]
    /\ late \subseteq User
    /\ parted \subseteq User

\* A socket speaks for the client that opened it.
SocketOwned(s) ==
    /\ as[s] \in {Null, ClientOf[s]}
    /\ conn[s] = "new" => as[s] = Null /\ s \notin checking

\* A grace timer is that of a socket which spoke for the user, and is closed.
TimerOwned(t) == as[t.sock] = t.user /\ conn[t.sock] = "closed"

\* One timer per socket.
TimersApart ==
    \A t, q \in timers \cup presTimers : t.sock = q.sock => t = q

\* The socket a room lists for a user spoke for that user.
ListedOwned ==
    \A r \in Room : rooms[r] # Null =>
        \A u \in User : rooms[r].online[u] # Null => as[rooms[r].online[u]] = u

\* No two sockets of a user have one generation, the highest is that of his
\* connection, and only his current socket has that one while open.  Unless he
\* is parted, his current socket is closed or forgotten only when no socket
\* that speaks for him is open.
Generations(u) ==
    /\ \A s \in Sock : as[s] = u => connGen[s] <= gen[u]
    /\ \A s, o \in Sock :
          as[s] = u /\ as[o] = u /\ s # o => connGen[o] # connGen[s]
    /\ primary[u] # Null => as[primary[u]] = u /\ connGen[primary[u]] = gen[u]
    /\ \A s \in Sock :
          as[s] = u /\ conn[s] = "open" /\ connGen[s] = gen[u] => primary[u] = s
    /\ u \notin parted /\ (primary[u] # Null => conn[primary[u]] = "closed") =>
          \A s \in Sock : as[s] = u => conn[s] = "closed"

\* A timer of the user's current generation is that of his current socket.
TimerCurrent(t) ==
    /\ connGen[t.sock] = t.gen
    /\ gen[t.user] = t.gen => primary[t.user] = t.sock

PresenceInv ==
    /\ RoomTyped
    /\ \A s \in Sock : SocketOwned(s)
    /\ \A t \in timers \cup presTimers : TimerOwned(t)
    /\ TimersApart
    /\ ListedOwned
    /\ \A u \in User \ late : Generations(u)
    /\ \A t \in timers \cup presTimers : t.user \notin late => TimerCurrent(t)

\* The client of a socket is a user.
LEMMA SocketClients == \A s \in Sock : ClientOf[s] \in User
BY RoomAssumption DEF ClientOf

-----------------------------------------------------------------------------
(* Types                                                                   *)

LEMMA InitTyped == RoomInit => RoomTyped
BY RoomAssumption DEF RoomInit, RoomTyped, RoomState, Place

\* Vacating, dropping and joining keep the shape of a room.
LEMMA RoomShapes ==
    ASSUME NEW rm \in RoomState, NEW u \in User
    PROVE  /\ WithoutUser(rm, u) \in RoomState
           /\ VacatedBy(rm.seats, u) \in [Seat -> Place]
           /\ \A s \in Sock : Dropped(rm, u, s) \in RoomState /\ Joined(rm, u, s) \in RoomState
BY DEF RoomState, WithoutUser, Dropped, Joined, VacatedBy, Place

\* A new seating keeps the shape of a room.
LEMMA SeatsTyped ==
    ASSUME RoomTyped, NEW r \in Room, rooms[r] # Null, NEW seats \in [Seat -> Place],
           SetSeats(r, seats)
    PROVE  RoomTyped'
<1>1. [rooms[r] EXCEPT !.seats = seats] \in RoomState
  BY DEF RoomTyped, RoomState
<1>2. rooms' \in [Room -> RoomState \cup {Null}]
  BY <1>1 DEF RoomTyped, SetSeats
<1> QED
  BY <1>2 DEF RoomTyped, SetSeats, sockVars, presenceVars

\* Binding a socket to its user keeps the types of presence.
LEMMA BindTyped ==
    ASSUME RoomTyped, NEW s \in Sock, NEW u \in User, Bind(s, u)
    PROVE  /\ primary' \in [User -> Sock \cup {Null}]
           /\ gen' \in [User -> Nat]
           /\ connGen' \in [Sock -> Nat]
           /\ parted' \subseteq User
BY DEF RoomTyped, Bind

LEMMA ConnectTyped ==
    ASSUME RoomTyped, NEW s \in Sock,
           Connect(s) \/ Identify(s) \/ IdentifyLater(s) \/ IdentifyDone(s)
    PROVE  RoomTyped'
<1>1. CASE Connect(s)
  BY <1>1 DEF RoomTyped, Connect, presenceVars
<1>2. CASE IdentifyLater(s)
  BY <1>2 DEF RoomTyped, IdentifyLater, presenceVars
<1>3. ASSUME Identified(s)
      PROVE  /\ as' \in [Sock -> User \cup {Null}]
             /\ presTimers' \subseteq Timer({Null})
             /\ presPend' \in [User -> Timer({Null}) \cup {Null}]
             /\ primary' \in [User -> Sock \cup {Null}]
             /\ gen' \in [User -> Nat]
             /\ connGen' \in [Sock -> Nat]
             /\ parted' \subseteq User
             /\ UNCHANGED <<conn, current, sub, view, pend, timers, rooms>>
  <2>1. ClientOf[s] \in User
    BY SocketClients
  <2>2. Bind(s, ClientOf[s])
    BY <1>3 DEF Identified
  <2> QED
    BY <1>3, <2>1, <2>2, BindTyped DEF RoomTyped, Identified
<1>4. CASE Identify(s)
  BY <1>4, <1>3 DEF RoomTyped, Identify
<1>5. CASE IdentifyDone(s)
  <2>1. ClientOf[s] \in User
    BY SocketClients
  <2> QED
    BY <1>5, <1>3, <2>1 DEF RoomTyped, IdentifyDone
<1> QED
  BY <1>1, <1>2, <1>4, <1>5

LEMMA JoinTyped ==
    ASSUME RoomTyped, NEW s \in Sock, NEW r \in Room, JoinRoom(s, r) \/ JoinRefused(s, r)
    PROVE  RoomTyped'
<1> DEFINE u == ClientOf[s]
           left == LeftOld(s, r)
<1>1. u \in User
  BY SocketClients
<1>2. left \in [Room -> RoomState \cup {Null}] /\ left[r] = rooms[r]
  <2>1. CASE current[s] \notin {Null, r} /\ rooms[current[s]] # Null
    <3>1. WithoutUser(rooms[current[s]], u) \in RoomState
      BY <2>1, <1>1, RoomShapes DEF RoomTyped
    <3> QED
      BY <2>1, <3>1 DEF RoomTyped, LeftOld
  <2>2. CASE ~(current[s] \notin {Null, r} /\ rooms[current[s]] # Null)
    BY <2>2 DEF RoomTyped, LeftOld
  <2> QED
    BY <2>1, <2>2
<1>3. CASE JoinRoom(s, r)
  <2>1. rooms[r] # Null /\ Bind(s, u) /\ rooms' = [left EXCEPT ![r] = Joined(left[r], u, s)]
    BY <1>3 DEF JoinRoom
  <2>2. Joined(left[r], u, s) \in RoomState
    BY <2>1, <1>1, <1>2, RoomShapes DEF RoomTyped
  <2>3. rooms' \in [Room -> RoomState \cup {Null}]
    BY <2>1, <2>2, <1>2
  <2>4. /\ primary' \in [User -> Sock \cup {Null}]
        /\ gen' \in [User -> Nat]
        /\ connGen' \in [Sock -> Nat]
        /\ parted' \subseteq User
    BY <2>1, <1>1, BindTyped
  <2>5. /\ as' \in [Sock -> User \cup {Null}]
        /\ current' \in [Sock -> Room \cup {Null}]
        /\ sub' \in [Sock -> SUBSET Room]
        /\ view' \in [Sock -> Room \cup {Null}]
    BY <1>3, <1>1 DEF JoinRoom, RoomTyped
  <2>6. /\ pend' \in [User -> Timer(Room) \cup {Null}]
        /\ presPend' \in [User -> Timer({Null}) \cup {Null}]
        /\ timers' \subseteq Timer(Room)
        /\ presTimers' \subseteq Timer({Null})
    BY <1>3, <1>1 DEF JoinRoom, RoomTyped
  <2> QED
    BY <2>3, <2>4, <2>5, <2>6, <1>3 DEF JoinRoom, RoomTyped
<1>4. CASE JoinRefused(s, r)
  BY <1>4, <1>2 DEF JoinRefused, RoomTyped, presenceVars
<1> QED
  BY <1>3, <1>4

LEMMA LeaveTyped ==
    ASSUME RoomTyped, NEW s \in Sock, LeaveRoom(s) \/ Hear(s)
    PROVE  RoomTyped'
<1>1. CASE LeaveRoom(s)
  <2> DEFINE r == view[s]
  <2>1. r \in Room
    BY <1>1 DEF LeaveRoom, RoomTyped
  <2>2. rooms' \in [Room -> RoomState \cup {Null}]
    <3>1. CASE rooms[r] # Null
      <4>1. WithoutUser(rooms[r], ClientOf[s]) \in RoomState
        BY <3>1, <2>1, RoomShapes, SocketClients DEF RoomTyped
      <4> QED
        BY <4>1, <3>1, <1>1 DEF LeaveRoom, RoomTyped
    <3> QED
      BY <3>1, <1>1 DEF LeaveRoom, RoomTyped
  <2>3. sub' \in [Sock -> SUBSET Room] /\ current' \in [Sock -> Room \cup {Null}]
    BY <1>1 DEF LeaveRoom, RoomTyped
  <2> QED
    BY <2>2, <2>3, <1>1 DEF LeaveRoom, RoomTyped, presenceVars
<1>2. CASE Hear(s)
  BY <1>2 DEF Hear, RoomTyped, presenceVars
<1> QED
  BY <1>1, <1>2

LEMMA SeatTyped ==
    ASSUME RoomTyped, NEW s \in Sock,
           LeaveSeat(s) \/ \E n \in Seat : TakeSeat(s, n)
    PROVE  RoomTyped'
<1> DEFINE r == view[s]
<1>1. as[s] \in User /\ r \in Room /\ rooms[r] # Null /\ rooms[r] \in RoomState
  BY DEF LeaveSeat, TakeSeat, Isn, RoomTyped
<1>2. VacatedBy(rooms[r].seats, as[s]) \in [Seat -> Place]
  BY <1>1, RoomShapes
<1>3. CASE LeaveSeat(s)
  <2>1. SetSeats(r, VacatedBy(rooms[r].seats, as[s]))
    BY <1>3 DEF LeaveSeat
  <2> QED
    BY <2>1, <1>1, <1>2, SeatsTyped
<1>4. ASSUME NEW n \in Seat, TakeSeat(s, n)
      PROVE  RoomTyped'
  <2> DEFINE seats == [VacatedBy(rooms[r].seats, as[s])
                         EXCEPT ![n] = [user |-> as[s], sock |-> s]]
  <2>1. SetSeats(r, seats)
    BY <1>4 DEF TakeSeat
  <2>2. seats \in [Seat -> Place]
    BY <1>1, <1>2 DEF Place
  <2> HIDE DEF seats
  <2> QED
    BY <2>1, <2>2, <1>1, SeatsTyped
<1> QED
  BY <1>3, <1>4

LEMMA HostTyped ==
    ASSUME RoomTyped, NEW r \in Room, HostStep(r)
    PROVE  RoomTyped'
<1>1. rooms[r] # Null /\ rooms[r] \in RoomState
  BY DEF HostStep, LockSeat, MoveSeat, MoveToAudience, Kick, CloseRoom, Hosting, RoomTyped
<1>2. ASSUME NEW n \in Seat, LockSeat(r, n)
      PROVE  RoomTyped'
  <2>1. [rooms[r] EXCEPT !.locked = IF n \in @ THEN @ \ {n} ELSE @ \cup {n}] \in RoomState
    BY <1>1 DEF RoomState
  <2>2. rooms' \in [Room -> RoomState \cup {Null}]
    BY <2>1, <1>2 DEF LockSeat, RoomTyped
  <2> QED
    BY <2>2, <1>2 DEF LockSeat, RoomTyped, sockVars, presenceVars
<1>3. ASSUME NEW n \in Seat, NEW m \in Seat, MoveSeat(r, n, m)
      PROVE  RoomTyped'
  <2> DEFINE seats == [rooms[r].seats EXCEPT ![n] = Null, ![m] = rooms[r].seats[n]]
  <2>1. seats \in [Seat -> Place]
    BY <1>1 DEF RoomState, Place
  <2>2. SetSeats(r, seats)
    BY <1>3 DEF MoveSeat
  <2> HIDE DEF seats
  <2> QED
    BY <2>1, <2>2, <1>1, SeatsTyped
<1>4. ASSUME NEW u \in User, MoveToAudience(r, u)
      PROVE  RoomTyped'
  <2>1. VacatedBy(rooms[r].seats, u) \in [Seat -> Place]
    BY <1>1, RoomShapes
  <2>2. SetSeats(r, VacatedBy(rooms[r].seats, u))
    BY <1>4 DEF MoveToAudience
  <2> QED
    BY <2>1, <2>2, <1>1, SeatsTyped
<1>5. ASSUME NEW u \in User, Kick(r, u)
      PROVE  RoomTyped'
  <2>1. WithoutUser(rooms[r], u) \in RoomState
    BY <1>1, RoomShapes
  <2>2. rooms' \in [Room -> RoomState \cup {Null}]
    BY <2>1, <1>5 DEF Kick, RoomTyped
  <2>3. sub' \in [Sock -> SUBSET Room] /\ current' \in [Sock -> Room \cup {Null}]
    BY <1>5 DEF Kick, RoomTyped
  <2> QED
    BY <2>2, <2>3, <1>5 DEF Kick, RoomTyped, presenceVars
<1>6. CASE CloseRoom(r)
  <2>1. {t.user : t \in {t \in timers : t.room = r}} \subseteq User
    BY DEF RoomTyped, Timer
  <2>2. late' \subseteq User
    BY <1>6, <2>1 DEF CloseRoom, RoomTyped
  <2>3. sub' \in [Sock -> SUBSET Room] /\ current' \in [Sock -> Room \cup {Null}]
    BY <1>6 DEF CloseRoom, RoomTyped
  <2>4. rooms' \in [Room -> RoomState \cup {Null}]
    BY <1>6 DEF CloseRoom, RoomTyped
  <2> QED
    BY <1>6, <2>2, <2>3, <2>4 DEF CloseRoom, RoomTyped, presenceVars
<1> QED
  BY <1>2, <1>3, <1>4, <1>5, <1>6 DEF HostStep

LEMMA EndTyped ==
    ASSUME RoomTyped, \/ TimerStep
                      \/ \E s \in Sock : Disconnect(s)
    PROVE  RoomTyped'
<1>1. ASSUME NEW s \in Sock, Disconnect(s)
      PROVE  RoomTyped'
  <2>1. /\ conn' \in [Sock -> {"new", "open", "closed"}]
        /\ current' \in [Sock -> Room \cup {Null}]
        /\ sub' \in [Sock -> SUBSET Room]
        /\ view' \in [Sock -> Room \cup {Null}]
        /\ parted' \subseteq User
        /\ UNCHANGED <<as, connGen, checking, primary, gen, rooms, late>>
    BY <1>1 DEF Disconnect, Closed, RoomTyped
  <2>2. /\ pend' \in [User -> Timer(Room) \cup {Null}]
        /\ presPend' \in [User -> Timer({Null}) \cup {Null}]
        /\ timers' \subseteq Timer(Room)
        /\ presTimers' \subseteq Timer({Null})
    <3>1. CASE as[s] # Null /\ current[s] # Null
      <4>1. GraceOf(s) \in Timer(Room) /\ as[s] \in User
        BY <3>1 DEF GraceOf, Timer, RoomTyped
      <4>2. RoomGrace(s)
        BY <1>1, <3>1 DEF Disconnect
      <4> QED
        BY <4>1, <4>2 DEF RoomGrace, RoomTyped
    <3>2. CASE as[s] # Null /\ current[s] = Null
      <4>1. GraceOf(s) \in Timer({Null}) /\ as[s] \in User
        BY <3>2 DEF GraceOf, Timer, RoomTyped
      <4>2. PresenceGrace(s)
        BY <1>1, <3>2 DEF Disconnect
      <4> QED
        BY <4>1, <4>2 DEF PresenceGrace, RoomTyped
    <3>3. CASE as[s] = Null
      <4>1. NoGrace(s)
        BY <1>1, <3>3 DEF Disconnect
      <4> QED
        BY <4>1 DEF NoGrace, RoomTyped
    <3> QED
      BY <3>1, <3>2, <3>3
  <2> QED
    BY <2>1, <2>2 DEF RoomTyped
<1>2. ASSUME NEW t \in timers, GraceExpires(t)
      PROVE  RoomTyped'
  <2>1. t.user \in User /\ t.room \in Room /\ t.sock \in Sock
    BY DEF RoomTyped, Timer
  <2>2. rooms' \in [Room -> RoomState \cup {Null}] /\ primary' \in [User -> Sock \cup {Null}]
    <3>1. CASE Stale(t) \/ rooms[t.room] = Null
      BY <3>1, <1>2 DEF GraceExpires, RoomTyped
    <3>2. CASE ~(Stale(t) \/ rooms[t.room] = Null)
      <4>1. Dropped(rooms[t.room], t.user, t.sock) \in RoomState
        BY <3>2, <2>1, RoomShapes DEF RoomTyped
      <4> QED
        BY <3>2, <4>1, <2>1, <1>2 DEF GraceExpires, RoomTyped
    <3> QED
      BY <3>1, <3>2
  <2> QED
    BY <1>2, <2>1, <2>2 DEF GraceExpires, RoomTyped, sockVars
<1>3. ASSUME NEW t \in presTimers, PresenceExpires(t)
      PROVE  RoomTyped'
  <2>1. t.user \in User
    BY DEF RoomTyped, Timer
  <2> QED
    BY <1>3, <2>1 DEF PresenceExpires, RoomTyped, sockVars
<1>4. CASE Sweep
  <2>1. ASSUME NEW r \in Room, rooms[r] # Null
        PROVE  rooms'[r] \in RoomState
    BY <1>4, <2>1 DEF Sweep, RoomTyped, RoomState, Place
  <2>2. rooms' \in [Room -> RoomState \cup {Null}]
    BY <1>4, <2>1 DEF Sweep
  <2> QED
    BY <1>4, <2>2 DEF Sweep, RoomTyped, sockVars, presenceVars
<1> QED
  BY <1>1, <1>2, <1>3, <1>4 DEF TimerStep

\* Every step keeps the types.
LEMMA StepTyped == RoomTyped /\ [RoomNext]_roomVars => RoomTyped'
<1> SUFFICES ASSUME RoomTyped, [RoomNext]_roomVars PROVE RoomTyped'
  OBVIOUS
<1>1. ASSUME NEW s \in Sock, ClientStep(s)
      PROVE  RoomTyped'
  BY <1>1, ConnectTyped, JoinTyped, LeaveTyped, SeatTyped, EndTyped DEF ClientStep
<1>2. ASSUME NEW r \in Room, HostStep(r)
      PROVE  RoomTyped'
  BY <1>2, HostTyped
<1>3. CASE TimerStep
  BY <1>3, EndTyped
<1>4. CASE UNCHANGED roomVars
  BY <1>4 DEF RoomTyped, roomVars, sockVars, presenceVars
<1> QED
  BY <1>1, <1>2, <1>3, <1>4 DEF RoomNext

-----------------------------------------------------------------------------
(* The invariant of presence                                               *)

\* What the invariant reads of sockets, users and timers.
connections ==
    <<conn, as, connGen, checking, primary, gen, timers, presTimers, parted>>

LEMMA InitPresenceInv == RoomInit => PresenceInv
<1> SUFFICES ASSUME RoomInit PROVE PresenceInv
  OBVIOUS
<1>1. RoomTyped
  BY InitTyped
<1>2. /\ \A s \in Sock : as[s] = Null /\ conn[s] = "new" /\ s \notin checking
      /\ \A u \in User : primary[u] = Null
      /\ timers = {} /\ presTimers = {}
      /\ Null \notin User
  BY RoomAssumption DEF RoomInit
<1>3. ListedOwned
  BY DEF RoomInit, ListedOwned
<1>4. ASSUME NEW u \in User PROVE Generations(u)
  BY <1>2 DEF Generations
<1> QED
  BY <1>1, <1>2, <1>3, <1>4 DEF PresenceInv, SocketOwned, TimersApart

\* A step that binds and drops nobody keeps the invariant if it lists nobody.
LEMMA CalmStep ==
    ASSUME PresenceInv, RoomTyped', UNCHANGED connections, late \subseteq late',
           \A r \in Room : rooms'[r] # Null =>
              /\ rooms[r] # Null
              /\ \A u \in User : rooms'[r].online[u] \in {Null, rooms[r].online[u]}
    PROVE  PresenceInv'
<1>1. ListedOwned'
  <2>1. SUFFICES ASSUME NEW r \in Room, rooms'[r] # Null,
                        NEW u \in User, rooms'[r].online[u] # Null
                 PROVE  as'[rooms'[r].online[u]] = u
    BY DEF ListedOwned
  <2>2. rooms[r] # Null /\ rooms'[r].online[u] = rooms[r].online[u]
    BY <2>1
  <2>3. as[rooms[r].online[u]] = u
    BY <2>1, <2>2 DEF PresenceInv, ListedOwned
  <2> QED
    BY <2>2, <2>3 DEF connections
<1>2. \A s \in Sock : SocketOwned(s)'
  BY DEF PresenceInv, SocketOwned, connections
<1>3. \A t \in (timers \cup presTimers)' : TimerOwned(t)'
  BY DEF PresenceInv, TimerOwned, connections
<1>4. TimersApart'
  BY DEF PresenceInv, TimersApart, connections
<1>5. ASSUME NEW u \in User \ late'
      PROVE  Generations(u)'
  <2>1. Generations(u)
    BY DEF PresenceInv
  <2> QED
    BY <2>1 DEF Generations, connections
<1>6. \A t \in (timers \cup presTimers)' : t.user \notin late' => TimerCurrent(t)'
  BY DEF PresenceInv, TimerCurrent, connections
<1> QED
  BY <1>1, <1>2, <1>3, <1>4, <1>5, <1>6 DEF PresenceInv

\* Binding an open socket of a user, or any if he is late, keeps it, and so
\* does cancelling timers.
LEMMA BindStep ==
    ASSUME PresenceInv, NEW s \in Sock, Bind(s, ClientOf[s]), RoomTyped',
           as' = [as EXCEPT ![s] = ClientOf[s]],
           conn' = conn, checking' \subseteq checking,
           timers' \subseteq timers, presTimers' \subseteq presTimers,
           late \subseteq late', conn[s] # "new",
           ClientOf[s] \notin late' => conn[s] = "open",
           ListedOwned'
    PROVE  PresenceInv'
<1> DEFINE u == ClientOf[s]
<1>1. /\ u \in User
      /\ RoomTyped
      /\ Null \notin User \cup Sock
  BY SocketClients, RoomAssumption DEF PresenceInv
<1>2. /\ primary' = [primary EXCEPT ![u] = s]
      /\ gen' = [gen EXCEPT ![u] = IF primary[u] = s THEN gen[u] ELSE gen[u] + 1]
      /\ connGen' = [connGen EXCEPT ![s] = gen'[u]]
      /\ parted' = parted \ {u}
  BY DEF Bind
<1>3. \A o \in Sock : SocketOwned(o)'
  BY <1>1 DEF PresenceInv, SocketOwned, RoomTyped
<1>4. \A o \in Sock : as[o] # Null => as'[o] = as[o]
  BY <1>1 DEF PresenceInv, SocketOwned, RoomTyped
<1>5. \A t \in timers \cup presTimers : t.user \in User /\ t.sock \in Sock /\ t.gen \in Nat
  BY <1>1 DEF RoomTyped, Timer
<1>6. \A t \in timers' \cup presTimers' : TimerOwned(t)'
  <2>1. SUFFICES ASSUME NEW t \in timers' \cup presTimers'
                 PROVE  as'[t.sock] = t.user /\ conn'[t.sock] = "closed"
    BY DEF TimerOwned
  <2>2. as[t.sock] = t.user /\ conn[t.sock] = "closed"
    BY DEF PresenceInv, TimerOwned
  <2>3. t.user \in User /\ t.sock \in Sock
    BY <1>5
  <2>4. as[t.sock] # Null
    BY <2>2, <2>3, <1>1
  <2>5. as'[t.sock] = as[t.sock]
    BY <2>3, <2>4, <1>4
  <2> QED
    BY <2>2, <2>5
<1>7. TimersApart'
  BY DEF PresenceInv, TimersApart
<1>8. ASSUME NEW v \in User \ late', v # u
      PROVE  Generations(v)'
  <2>1. \A o \in Sock : as'[o] = v => o # s /\ as[o] = v /\ connGen'[o] = connGen[o]
    BY <1>8, <1>1, <1>2 DEF RoomTyped
  <2>2. primary'[v] = primary[v] /\ gen'[v] = gen[v] /\ (v \in parted' <=> v \in parted)
    BY <1>8, <1>1, <1>2 DEF RoomTyped
  <2>3. Generations(v)
    BY <1>8 DEF PresenceInv
  <2>4. ASSUME primary[v] # Null
        PROVE  as'[primary[v]] = v /\ connGen'[primary[v]] = connGen[primary[v]]
    <3>1. primary[v] \in Sock /\ as[primary[v]] = v
      <4>1. primary[v] \in Sock
        BY <2>4, <1>1 DEF RoomTyped
      <4>2. as[primary[v]] = v
        BY <2>4, <2>3 DEF Generations
      <4> QED
        BY <4>1, <4>2
    <3>2. primary[v] # s
      BY <3>1, <1>8, <1>1 DEF PresenceInv, SocketOwned
    <3> QED
      BY <3>1, <3>2, <1>2, <1>1 DEF RoomTyped
  <2>5. /\ \A o \in Sock : as'[o] = v => connGen'[o] <= gen'[v]
        /\ \A o, q \in Sock : as'[o] = v /\ as'[q] = v /\ o # q => connGen'[q] # connGen'[o]
        /\ \A o \in Sock : as'[o] = v /\ conn'[o] = "open" /\ connGen'[o] = gen'[v]
                              => primary'[v] = o
    BY <2>1, <2>2, <2>3 DEF Generations
  <2>6. primary'[v] # Null => as'[primary'[v]] = v /\ connGen'[primary'[v]] = gen'[v]
    BY <2>2, <2>3, <2>4 DEF Generations
  <2>7. ASSUME v \notin parted', primary'[v] # Null => conn'[primary'[v]] = "closed",
               NEW o \in Sock, as'[o] = v
        PROVE  conn'[o] = "closed"
    BY <2>1, <2>2, <2>3, <2>7 DEF Generations
  <2> QED
    BY <2>5, <2>6, <2>7 DEF Generations
<1>9. ASSUME u \notin late'
      PROVE  Generations(u)'
  <2>1. conn[s] = "open" /\ Generations(u)
    BY <1>9, <1>1 DEF PresenceInv
  <2>2. /\ primary'[u] = s /\ as'[s] = u /\ connGen'[s] = gen'[u]
        /\ \A o \in Sock : o # s => as'[o] = as[o] /\ connGen'[o] = connGen[o]
        /\ gen[u] \in Nat /\ gen'[u] = IF primary[u] = s THEN gen[u] ELSE gen[u] + 1
        /\ \A o \in Sock : connGen[o] \in Nat /\ connGen'[o] \in Nat
    BY <1>1, <1>2 DEF RoomTyped
  <2>3. ASSUME NEW o \in Sock, o # s, as[o] = u
        PROVE  connGen[o] < gen'[u]
    <3>1. connGen[o] <= gen[u]
      BY <2>1, <2>3 DEF Generations
    <3>2. CASE primary[u] = s
      <4>1. as[s] = u /\ connGen[s] = gen[u]
        BY <3>2, <2>1, <1>1 DEF Generations
      <4>2. connGen[o] # connGen[s]
        BY <4>1, <2>1, <2>3 DEF Generations
      <4> QED
        BY <4>1, <4>2, <3>1, <3>2, <2>2
    <3>3. CASE primary[u] # s
      BY <3>1, <3>3, <2>2
    <3> QED
      BY <3>2, <3>3
  <2>4. gen'[u] \in Nat
    BY <2>2
  <2>5. ASSUME NEW o \in Sock, o # s, as'[o] = u
        PROVE  connGen'[o] < gen'[u] /\ as[o] = u /\ connGen'[o] = connGen[o]
    BY <2>2, <2>3, <2>5
  <2>6. ASSUME NEW o \in Sock, as'[o] = u
        PROVE  connGen'[o] <= gen'[u]
    <3>1. CASE o = s
      BY <3>1, <2>2, <2>4
    <3>2. CASE o # s
      <4>1. connGen'[o] < gen'[u] /\ connGen'[o] \in Nat
        BY <3>2, <2>2, <2>5, <2>6
      <4> QED
        BY <4>1, <2>4
    <3> QED
      BY <3>1, <3>2
  <2>7. ASSUME NEW o \in Sock, NEW q \in Sock, as'[o] = u, as'[q] = u, o # q
        PROVE  connGen'[q] # connGen'[o]
    <3>1. CASE o = s
      <4>1. connGen'[q] < gen'[u] /\ connGen'[q] \in Nat
        BY <3>1, <2>2, <2>5, <2>7
      <4> QED
        BY <4>1, <3>1, <2>2, <2>4
    <3>2. CASE q = s
      <4>1. connGen'[o] < gen'[u] /\ connGen'[o] \in Nat
        BY <3>2, <2>2, <2>5, <2>7
      <4> QED
        BY <4>1, <3>2, <2>2, <2>4
    <3>3. CASE o # s /\ q # s
      BY <3>3, <2>1, <2>5, <2>7 DEF Generations
    <3> QED
      BY <3>1, <3>2, <3>3
  <2>8. ASSUME NEW o \in Sock, as'[o] = u, connGen'[o] = gen'[u], o # s
        PROVE  FALSE
    <3>1. connGen'[o] < gen'[u] /\ connGen'[o] \in Nat
      BY <2>2, <2>5, <2>8
    <3> QED
      BY <3>1, <2>4, <2>8
  <2>9. primary'[u] # Null /\ conn'[primary'[u]] # "closed"
    BY <2>1, <2>2, <1>1
  <2> QED
    BY <2>2, <2>6, <2>7, <2>8, <2>9 DEF Generations
<1>10. ASSUME NEW t \in timers' \cup presTimers', t.user \notin late'
       PROVE  TimerCurrent(t)'
  <2>1. t \in timers \cup presTimers /\ TimerOwned(t) /\ TimerCurrent(t)
    BY <1>10 DEF PresenceInv
  <2>2. t.user \in User /\ t.sock \in Sock /\ t.gen \in Nat /\ Generations(t.user)
    BY <2>1, <1>5, <1>10 DEF PresenceInv
  <2>3. CASE t.user = u
    <3>1. conn[s] = "open" /\ t.sock # s
      BY <2>1, <2>3, <1>10 DEF TimerOwned
    <3>2. connGen'[t.sock] = connGen[t.sock]
      BY <3>1, <2>2, <1>2, <1>1 DEF RoomTyped
    <3>3. t.gen <= gen[u] /\ gen[u] \in Nat
      BY <2>1, <2>2, <2>3, <1>1 DEF TimerOwned, TimerCurrent, Generations, RoomTyped
    <3>4. gen'[u] # t.gen
      <4>1. CASE primary[u] = s
        BY <4>1, <3>1, <2>1, <2>3, <1>1, <1>2 DEF TimerCurrent, RoomTyped
      <4>2. CASE primary[u] # s
        BY <4>2, <3>3, <1>1, <1>2 DEF RoomTyped
      <4> QED
        BY <4>1, <4>2
    <3> QED
      BY <3>2, <3>4, <2>1, <2>3 DEF TimerCurrent
  <2>4. CASE t.user # u
    <3>1. t.sock # s
      <4>1. as[t.sock] \in {Null, ClientOf[t.sock]}
        BY <2>2 DEF PresenceInv, SocketOwned
      <4> QED
        BY <4>1, <2>1, <2>2, <2>4, <1>1 DEF TimerOwned
    <3>2. connGen'[t.sock] = connGen[t.sock] /\ gen'[t.user] = gen[t.user]
             /\ primary'[t.user] = primary[t.user]
      BY <3>1, <2>2, <2>4, <1>1, <1>2 DEF RoomTyped
    <3> QED
      BY <3>2, <2>1 DEF TimerCurrent
  <2> QED
    BY <2>3, <2>4
<1> QED
  BY <1>3, <1>6, <1>7, <1>8, <1>9, <1>10 DEF PresenceInv

LEMMA ConnectKeeps ==
    ASSUME PresenceInv, RoomTyped', NEW s \in Sock,
           Connect(s) \/ Identify(s) \/ IdentifyLater(s) \/ IdentifyDone(s)
    PROVE  PresenceInv'
<1>1. RoomTyped /\ ClientOf[s] \in User /\ Null \notin User \cup Sock
  BY SocketClients, RoomAssumption DEF PresenceInv
<1>2. CASE Connect(s)
  <2>1. /\ conn[s] = "new" /\ conn' = [conn EXCEPT ![s] = "open"]
        /\ as[s] = Null
        /\ UNCHANGED <<as, connGen, checking, primary, gen, timers, presTimers, rooms,
                       late, parted>>
    BY <1>2 DEF Connect, presenceVars, PresenceInv, SocketOwned
  <2>2. \A o \in Sock : SocketOwned(o)'
    BY <2>1, <1>1 DEF PresenceInv, SocketOwned, RoomTyped
  <2>3. \A o \in Sock : conn[o] = "closed" => conn'[o] = "closed"
    BY <2>1, <1>1 DEF RoomTyped
  <2>4. \A t \in timers \cup presTimers : t.sock \in Sock
    BY <1>1 DEF RoomTyped, Timer
  <2>5. \A t \in timers' \cup presTimers' : TimerOwned(t)'
    BY <2>1, <2>3, <2>4 DEF PresenceInv, TimerOwned
  <2>6. TimersApart' /\ ListedOwned'
    BY <2>1 DEF PresenceInv, TimersApart, ListedOwned
  <2>7. ASSUME NEW u \in User \ late
        PROVE  Generations(u)'
    <3>1. Generations(u) /\ as[s] # u
      BY <2>1, <1>1 DEF PresenceInv
    <3>2. \A o \in Sock : as[o] = u => conn'[o] = conn[o]
      BY <3>1, <2>1, <1>1 DEF RoomTyped
    <3>3. primary[u] # Null => as[primary[u]] = u /\ primary[u] \in Sock
      BY <3>1, <1>1 DEF Generations, RoomTyped
    <3>4. primary[u] # Null => conn'[primary[u]] = conn[primary[u]]
      BY <3>2, <3>3
    <3> QED
      BY <3>1, <3>2, <3>4, <2>1 DEF Generations
  <2>8. \A t \in timers \cup presTimers : t.user \notin late => TimerCurrent(t)'
    BY <2>1 DEF PresenceInv, TimerCurrent
  <2> QED
    BY <2>1, <2>2, <2>5, <2>6, <2>7, <2>8 DEF PresenceInv
<1>3. CASE IdentifyLater(s)
  <2>1. /\ conn[s] = "open" /\ checking' = checking \cup {s}
        /\ UNCHANGED <<conn, as, connGen, primary, gen, timers, presTimers, rooms,
                       late, parted>>
    BY <1>3 DEF IdentifyLater, Acts, presenceVars
  <2>2. \A o \in Sock : SocketOwned(o)'
    BY <2>1 DEF PresenceInv, SocketOwned
  <2>3. \A t \in timers' \cup presTimers' : TimerOwned(t)'
    BY <2>1 DEF PresenceInv, TimerOwned
  <2>4. TimersApart' /\ ListedOwned'
    BY <2>1 DEF PresenceInv, TimersApart, ListedOwned
  <2>5. ASSUME NEW u \in User \ late'
        PROVE  Generations(u)'
    <3>1. Generations(u)
      BY <2>1 DEF PresenceInv
    <3> QED
      BY <3>1, <2>1 DEF Generations
  <2>6. \A t \in timers' \cup presTimers' : t.user \notin late' => TimerCurrent(t)'
    BY <2>1 DEF PresenceInv, TimerCurrent
  <2> QED
    BY <2>2, <2>3, <2>4, <2>5, <2>6 DEF PresenceInv
<1>4. ASSUME Identified(s), late \subseteq late'
      PROVE  /\ Bind(s, ClientOf[s]) /\ as' = [as EXCEPT ![s] = ClientOf[s]]
             /\ conn' = conn /\ timers' \subseteq timers /\ presTimers' \subseteq presTimers
             /\ ListedOwned'
  <2>1. \A o \in Sock : as[o] # Null => as'[o] = as[o]
    BY <1>1, <1>4 DEF Identified, PresenceInv, SocketOwned, RoomTyped
  <2>2. ListedOwned'
    <3>1. SUFFICES ASSUME NEW r \in Room, rooms[r] # Null,
                          NEW u \in User, rooms[r].online[u] # Null
                   PROVE  as'[rooms[r].online[u]] = u
      BY <1>4 DEF Identified, ListedOwned
    <3>2. as[rooms[r].online[u]] = u
      BY <3>1 DEF PresenceInv, ListedOwned
    <3>3. rooms[r].online[u] \in Sock
      BY <3>1, <1>1 DEF RoomTyped, RoomState
    <3> QED
      BY <3>2, <3>3, <2>1, <1>1
  <2> QED
    BY <1>4, <2>2 DEF Identified
<1>5. CASE Identify(s)
  <2>1. /\ Identified(s) /\ checking' = checking /\ late' = late
        /\ conn[s] = "open"
    BY <1>5 DEF Identify, Acts
  <2> QED
    BY <2>1, <1>4, BindStep
<1>6. CASE IdentifyDone(s)
  <2>1. /\ Identified(s) /\ checking' \subseteq checking /\ s \in checking
        /\ late \subseteq late'
        /\ conn[s] = "closed" => ClientOf[s] \in late'
    BY <1>6 DEF IdentifyDone
  <2>2. conn[s] # "new"
    BY <2>1 DEF PresenceInv, SocketOwned
  <2>3. conn[s] \in {"open", "closed"}
    BY <2>2, <1>1 DEF RoomTyped
  <2> QED
    BY <2>1, <2>2, <2>3, <1>4, BindStep
<1> QED
  BY <1>2, <1>3, <1>5, <1>6

LEMMA JoinKeeps ==
    ASSUME PresenceInv, RoomTyped', NEW s \in Sock, NEW r \in Room, JoinRoom(s, r)
    PROVE  PresenceInv'
<1> DEFINE u == ClientOf[s]
           left == LeftOld(s, r)
<1>1. RoomTyped /\ u \in User /\ Null \notin User \cup Sock
  BY SocketClients, RoomAssumption DEF PresenceInv
<1>2. /\ rooms[r] # Null /\ rooms' = [left EXCEPT ![r] = Joined(left[r], u, s)]
      /\ as' = [as EXCEPT ![s] = u] /\ Bind(s, u)
      /\ conn' = conn /\ checking' = checking /\ late' = late
      /\ timers' \subseteq timers /\ presTimers' \subseteq presTimers
      /\ conn[s] = "open"
  BY DEF JoinRoom, Acts
<1>3. \A o \in Sock : as[o] # Null => as'[o] = as[o]
  BY <1>1, <1>2 DEF PresenceInv, SocketOwned, RoomTyped
<1>4. /\ left \in [Room -> RoomState \cup {Null}] /\ left[r] = rooms[r]
      /\ \A q \in Room : left[q] # Null =>
            /\ rooms[q] # Null
            /\ \A v \in User : left[q].online[v] \in {Null, rooms[q].online[v]}
  <2>1. CASE current[s] \notin {Null, r} /\ rooms[current[s]] # Null
    <3>1. current[s] \in Room /\ rooms[current[s]] \in RoomState
      BY <2>1, <1>1 DEF RoomTyped
    <3>2. left = [rooms EXCEPT ![current[s]] = WithoutUser(rooms[current[s]], u)]
      BY <2>1 DEF LeftOld
    <3>3. WithoutUser(rooms[current[s]], u) \in RoomState
      BY <3>1, <1>1, RoomShapes
    <3>4. \A v \in User : WithoutUser(rooms[current[s]], u).online[v]
                            \in {Null, rooms[current[s]].online[v]}
      BY <3>1, <1>1 DEF WithoutUser, RoomState
    <3> QED
      BY <2>1, <3>1, <3>2, <3>3, <3>4, <1>1 DEF RoomTyped
  <2>2. CASE ~(current[s] \notin {Null, r} /\ rooms[current[s]] # Null)
    BY <2>2, <1>1 DEF RoomTyped, LeftOld
  <2> QED
    BY <2>1, <2>2
<1>5. ListedOwned'
  <2>1. SUFFICES ASSUME NEW q \in Room, rooms'[q] # Null,
                        NEW v \in User, rooms'[q].online[v] # Null
                 PROVE  as'[rooms'[q].online[v]] = v
    BY DEF ListedOwned
  <2>2. rooms[r] \in RoomState
    BY <1>1, <1>2 DEF RoomTyped
  <2>3. CASE q = r /\ v = u
    <3>1. rooms'[q].online[v] = s
      BY <2>3, <2>2, <1>2, <1>4 DEF Joined, RoomState
    <3> QED
      BY <3>1, <2>3, <1>1, <1>2 DEF RoomTyped
  <2>4. CASE ~(q = r /\ v = u)
    <3>1. rooms[q] # Null /\ rooms'[q].online[v] = rooms[q].online[v]
      <4>1. CASE q = r
        BY <4>1, <2>4, <2>2, <1>2, <1>4, <1>1 DEF Joined, RoomState
      <4>2. CASE q # r
        BY <4>2, <2>1, <1>2, <1>4
      <4> QED
        BY <4>1, <4>2
    <3>2. as[rooms[q].online[v]] = v
      BY <2>1, <3>1 DEF PresenceInv, ListedOwned
    <3>3. rooms[q].online[v] \in Sock
      BY <3>1, <2>1, <1>1 DEF RoomTyped, RoomState
    <3> QED
      BY <3>1, <3>2, <3>3, <1>3, <1>1
  <2> QED
    BY <2>3, <2>4
<1> QED
  BY <1>2, <1>5, BindStep

\* A socket that closes leaves a timer of its generation: the user's current
\* one only if it was his current socket.  If another socket stays open then,
\* he is parted.
LEMMA DisconnectKeeps ==
    ASSUME PresenceInv, RoomTyped', NEW s \in Sock, Disconnect(s)
    PROVE  PresenceInv'
<1> DEFINE u == as[s]
<1>1. RoomTyped /\ Null \notin User \cup Sock \cup Room
  BY RoomAssumption DEF PresenceInv
<1>2. /\ conn[s] = "open" /\ conn' = [conn EXCEPT ![s] = "closed"]
      /\ parted' = parted \cup
           {v \in User : primary[v] = s /\ \E o \in Open(v) \ {s} : as[o] # Null}
      /\ UNCHANGED <<as, connGen, checking, primary, gen, rooms, late>>
  BY DEF Disconnect, Closed
<1>3. /\ \A o \in Sock : conn[o] = "closed" => conn'[o] = "closed"
      /\ \A o \in Sock : conn'[o] = "new" => conn[o] = "new"
      /\ \A o \in Sock : conn'[o] = "open" => conn[o] = "open"
      /\ conn'[s] = "closed"
  BY <1>1, <1>2 DEF RoomTyped
<1>4. /\ timers' \cup presTimers' \subseteq timers \cup presTimers \cup {GraceOf(s)}
      /\ as[s] = Null => timers' \cup presTimers' = timers \cup presTimers
  BY DEF Disconnect, RoomGrace, PresenceGrace, NoGrace
<1>5. \A o \in Sock : SocketOwned(o)'
  BY <1>2, <1>3 DEF PresenceInv, SocketOwned
<1>6. \A t \in timers \cup presTimers :
        t.user \in User /\ t.sock \in Sock /\ t.gen \in Nat
  BY <1>1 DEF RoomTyped, Timer
<1>7. ASSUME NEW t \in timers' \cup presTimers', t \notin timers \cup presTimers
      PROVE  /\ t.sock = s /\ t.user = as[s] /\ t.gen = connGen[s]
             /\ t = GraceOf(s) /\ as[s] \in User
  <2>1. t = GraceOf(s) /\ as[s] \in User
    BY <1>7, <1>4, <1>1 DEF RoomTyped
  <2>2. GraceOf(s).sock = s /\ GraceOf(s).user = as[s] /\ GraceOf(s).gen = connGen[s]
    BY DEF GraceOf
  <2> QED
    BY <2>1, <2>2
<1>8. \A t \in timers' \cup presTimers' : TimerOwned(t)'
  <2>1. SUFFICES ASSUME NEW t \in timers' \cup presTimers'
                 PROVE  as'[t.sock] = t.user /\ conn'[t.sock] = "closed"
    BY DEF TimerOwned
  <2>2. CASE t \in timers \cup presTimers
    BY <2>2, <1>2, <1>3, <1>6 DEF PresenceInv, TimerOwned
  <2>3. CASE t \notin timers \cup presTimers
    BY <2>3, <1>7, <1>2, <1>3
  <2> QED
    BY <2>2, <2>3
<1>9. \A t \in timers \cup presTimers : t.sock # s
  BY <1>2 DEF PresenceInv, TimerOwned
<1>10. TimersApart'
  <2>1. SUFFICES ASSUME NEW t \in timers' \cup presTimers',
                        NEW q \in timers' \cup presTimers', t.sock = q.sock
                 PROVE  t = q
    BY DEF TimersApart
  <2>2. CASE t \in timers \cup presTimers /\ q \in timers \cup presTimers
    BY <2>1, <2>2 DEF PresenceInv, TimersApart
  <2> QED
    BY <2>1, <2>2, <1>7, <1>9
<1>11. ListedOwned'
  BY <1>2 DEF PresenceInv, ListedOwned
<1>12. ASSUME NEW v \in User \ late
       PROVE  Generations(v)'
  <2>1. Generations(v)
    BY DEF PresenceInv
  <2>2. ASSUME v \notin parted', primary[v] # Null => conn'[primary[v]] = "closed",
               NEW o \in Sock, as[o] = v
        PROVE  conn'[o] = "closed"
    <3>1. v \notin parted
      BY <2>2, <1>2
    <3>2. conn[o] # "new" /\ ClientOf[o] = v
      BY <2>2, <1>1 DEF PresenceInv, SocketOwned
    <3>3. CASE primary[v] = s
      <4>1. \A q \in Open(v) \ {s} : as[q] = Null
        BY <2>2, <3>3, <1>2
      <4>2. o \notin Open(v) \ {s}
        BY <4>1, <2>2, <1>1
      <4> QED
        BY <4>2, <3>2, <1>1, <1>2, <1>3 DEF Open, RoomTyped
    <3>4. CASE primary[v] # s
      <4>1. primary[v] # Null => conn[primary[v]] = "closed"
        BY <2>2, <3>4, <1>1, <1>2 DEF RoomTyped
      <4>2. conn[o] = "closed"
        BY <4>1, <3>1, <2>1, <2>2 DEF Generations
      <4> QED
        BY <4>2, <1>3
    <3> QED
      BY <3>3, <3>4
  <2> QED
    BY <2>1, <2>2, <1>2, <1>3 DEF Generations
<1>13. ASSUME NEW t \in timers' \cup presTimers', t.user \notin late
       PROVE  TimerCurrent(t)'
  <2>1. CASE t \in timers \cup presTimers
    <3>1. TimerCurrent(t)
      BY <2>1, <1>13 DEF PresenceInv
    <3> QED
      BY <3>1, <1>2 DEF TimerCurrent
  <2>2. CASE t \notin timers \cup presTimers
    <3>1. /\ as[s] \in User /\ t.sock = s /\ t.user = as[s] /\ t.gen = connGen[s]
      BY <2>2, <1>7
    <3>2. Generations(as[s])
      BY <3>1, <1>13 DEF PresenceInv
    <3>3. gen[as[s]] = connGen[s] => primary[as[s]] = s
      BY <3>2, <1>2 DEF Generations
    <3> QED
      BY <3>1, <3>3, <1>2 DEF TimerCurrent
  <2> QED
    BY <2>1, <2>2
<1> QED
  BY <1>2, <1>5, <1>8, <1>10, <1>11, <1>12, <1>13 DEF PresenceInv

-----------------------------------------------------------------------------
(* A timer that still counts                                               *)

\* A timer of the current generation of a user who was never late is his only
\* one, and unless he is parted all the sockets that spoke for him are closed.
LEMMA CurrentTimerMeansGone ==
    ASSUME PresenceInv, NEW t \in timers \cup presTimers,
           t.user \notin late, gen[t.user] = t.gen
    PROVE  /\ t.user \notin parted =>
                 \A s \in Sock : as[s] = t.user => conn[s] = "closed"
           /\ \A s \in Sock :
                 ~(as[s] = t.user /\ conn[s] = "open" /\ connGen[s] = gen[t.user])
           /\ \A q \in timers \cup presTimers :
                 q.user = t.user /\ gen[q.user] = q.gen => q = t
<1>1. RoomTyped /\ TimerOwned(t) /\ TimerCurrent(t)
  BY DEF PresenceInv
<1>2. t.user \in User
  BY <1>1 DEF RoomTyped, Timer
<1>3. Generations(t.user)
  BY <1>2 DEF PresenceInv
<1>4. primary[t.user] = t.sock /\ conn[t.sock] = "closed"
  BY <1>1 DEF TimerOwned, TimerCurrent
<1>5. ASSUME NEW q \in timers \cup presTimers, q.user = t.user, gen[q.user] = q.gen
      PROVE  q = t
  <2>1. primary[q.user] = q.sock
    BY <1>5 DEF PresenceInv, TimerCurrent
  <2> QED
    BY <2>1, <1>4, <1>5 DEF PresenceInv, TimersApart
<1> QED
  BY <1>3, <1>4, <1>5 DEF Generations

\* A timer that ends takes the presence of nobody but its own socket's user.
LEMMA ExpiryStep ==
    ASSUME PresenceInv, RoomTyped', NEW t \in timers \cup presTimers,
           UNCHANGED <<conn, as, connGen, checking, gen, late, parted>>,
           timers' \cup presTimers' \subseteq timers \cup presTimers,
           t \notin timers' \cup presTimers',
           \/ primary' = primary
           \/ /\ primary' = [primary EXCEPT ![t.user] = Null]
              /\ gen[t.user] = t.gen,
           ListedOwned'
    PROVE  PresenceInv'
<1>1. /\ RoomTyped /\ t.user \in User
      /\ \A q \in timers \cup presTimers : q.user \in User
  BY DEF PresenceInv, RoomTyped, Timer
<1>2. \A s \in Sock : SocketOwned(s)'
  BY DEF PresenceInv, SocketOwned
<1>3. \A q \in timers' \cup presTimers' : TimerOwned(q)'
  BY DEF PresenceInv, TimerOwned
<1>4. TimersApart'
  BY DEF PresenceInv, TimersApart
<1>5. CASE primary' = primary
  <2>1. ASSUME NEW u \in User \ late'
        PROVE  Generations(u)'
    <3>1. Generations(u)
      BY DEF PresenceInv
    <3> QED
      BY <3>1, <1>5 DEF Generations
  <2>2. \A q \in timers' \cup presTimers' : q.user \notin late' => TimerCurrent(q)'
    BY <1>5 DEF PresenceInv, TimerCurrent
  <2> QED
    BY <1>2, <1>3, <1>4, <2>1, <2>2 DEF PresenceInv
<1>6. CASE primary' = [primary EXCEPT ![t.user] = Null] /\ gen[t.user] = t.gen
  <2>1. primary'[t.user] = Null
    BY <1>1, <1>6 DEF RoomTyped
  <2>2. \A u \in User : u # t.user => primary'[u] = primary[u]
    BY <1>1, <1>6 DEF RoomTyped
  <2>3. ASSUME NEW u \in User \ late
        PROVE  Generations(u)'
    <3>1. Generations(u)
      BY DEF PresenceInv
    <3>2. CASE u = t.user
      <4>1. u \notin parted => \A s \in Sock : as[s] = u => conn[s] = "closed"
        BY <3>2, <1>6, CurrentTimerMeansGone
      <4>2. \A s \in Sock : ~(as[s] = u /\ conn[s] = "open" /\ connGen[s] = gen[u])
        BY <3>2, <1>6, CurrentTimerMeansGone
      <4> QED
        BY <3>1, <3>2, <4>1, <4>2, <2>1 DEF Generations
    <3>3. CASE u # t.user
      BY <3>1, <3>3, <2>2 DEF Generations
    <3> QED
      BY <3>2, <3>3
  <2>4. ASSUME NEW q \in timers' \cup presTimers', q.user \notin late
        PROVE  TimerCurrent(q)'
    <3>1. TimerCurrent(q) /\ q \in timers \cup presTimers /\ q # t /\ q.user \in User
      BY <2>4, <1>1 DEF PresenceInv
    <3>2. CASE q.user = t.user
      <4>1. gen[q.user] # q.gen
        BY <3>1, <3>2, <2>4, <1>6, CurrentTimerMeansGone
      <4> QED
        BY <3>1, <4>1 DEF TimerCurrent
    <3>3. CASE q.user # t.user
      BY <3>1, <3>3, <2>2 DEF TimerCurrent
    <3> QED
      BY <3>2, <3>3
  <2> QED
    BY <1>2, <1>3, <1>4, <2>3, <2>4 DEF PresenceInv
<1> QED
  BY <1>5, <1>6

LEMMA TimerKeeps ==
    ASSUME PresenceInv, RoomTyped',
           \/ \E t \in timers : GraceExpires(t)
           \/ \E t \in presTimers : PresenceExpires(t)
    PROVE  PresenceInv'
<1>1. RoomTyped /\ Null \notin Room
  BY RoomAssumption DEF PresenceInv
<1>2. timers \cap presTimers = {}
  BY <1>1 DEF RoomTyped, Timer
<1>3. ASSUME NEW t \in timers, GraceExpires(t)
      PROVE  PresenceInv'
  <2>1. /\ timers' = timers \ {t} /\ presTimers' = presTimers
        /\ UNCHANGED <<conn, as, connGen, checking, gen, late, parted>>
    BY <1>3 DEF GraceExpires, sockVars
  <2>2. t.room \in Room /\ t.user \in User
    BY <1>1 DEF RoomTyped, Timer
  <2>3. CASE Stale(t) \/ rooms[t.room] = Null
    <3>1. primary' = primary /\ rooms' = rooms
      BY <2>3, <1>3 DEF GraceExpires
    <3>2. ListedOwned'
      BY <3>1, <2>1 DEF PresenceInv, ListedOwned
    <3> QED
      BY <3>1, <3>2, <2>1, <1>2, ExpiryStep
  <2>4. CASE ~Stale(t) /\ rooms[t.room] # Null
    <3>1. /\ primary' = [primary EXCEPT ![t.user] = Null]
          /\ gen[t.user] = t.gen
          /\ rooms' = [rooms EXCEPT ![t.room] = Dropped(rooms[t.room], t.user, t.sock)]
      BY <2>4, <1>3 DEF GraceExpires, Stale
    <3>2. rooms[t.room] \in RoomState
      BY <2>4, <2>2, <1>1 DEF RoomTyped
    <3>3. \A u \in User : Dropped(rooms[t.room], t.user, t.sock).online[u]
                            \in {Null, rooms[t.room].online[u]}
      BY <3>2, <2>2 DEF Dropped, RoomState
    <3>4. ListedOwned'
      <4>1. SUFFICES ASSUME NEW r \in Room, rooms'[r] # Null,
                            NEW u \in User, rooms'[r].online[u] # Null
                     PROVE  as[rooms'[r].online[u]] = u
        BY <2>1 DEF ListedOwned
      <4>2. rooms[r] # Null /\ rooms'[r].online[u] = rooms[r].online[u]
        BY <4>1, <3>1, <3>3, <2>4, <2>2, <1>1 DEF RoomTyped
      <4> QED
        BY <4>1, <4>2 DEF PresenceInv, ListedOwned
    <3> QED
      BY <3>1, <3>4, <2>1, <1>2, ExpiryStep
  <2> QED
    BY <2>3, <2>4
<1>4. ASSUME NEW t \in presTimers, PresenceExpires(t)
      PROVE  PresenceInv'
  <2>1. /\ timers' = timers /\ presTimers' = presTimers \ {t} /\ rooms' = rooms
        /\ UNCHANGED <<conn, as, connGen, checking, gen, late, parted>>
        /\ \/ primary' = primary
           \/ /\ primary' = [primary EXCEPT ![t.user] = Null]
              /\ gen[t.user] = t.gen
    BY <1>4 DEF PresenceExpires, sockVars
  <2>2. ListedOwned'
    BY <2>1 DEF PresenceInv, ListedOwned
  <2> QED
    BY <2>1, <2>2, <1>2, ExpiryStep
<1> QED
  BY <1>3, <1>4

\* What a client does that binds and drops nobody.
Calm(s) ==
    \/ LeaveRoom(s) \/ Hear(s) \/ LeaveSeat(s)
    \/ \E n \in Seat : TakeSeat(s, n)
    \/ \E r \in Room : JoinRefused(s, r)

\* Leaving, being refused, sitting, moderating and sweeping bind nobody.
LEMMA CalmActions ==
    ASSUME PresenceInv, RoomTyped',
           \/ \E s \in Sock : Calm(s)
           \/ \E r \in Room : HostStep(r)
           \/ Sweep
           \/ UNCHANGED roomVars
    PROVE  PresenceInv'
<1> DEFINE Unlists == \A r \in Room : rooms'[r] # Null =>
                         /\ rooms[r] # Null
                         /\ \A u \in User : rooms'[r].online[u] \in {Null, rooms[r].online[u]}
<1>1. RoomTyped /\ Null \notin RoomState
  BY RoomAssumption DEF PresenceInv
<1>2. ASSUME NEW r \in Room, rooms[r] # Null, NEW u \in User,
             rooms' = [rooms EXCEPT ![r] = WithoutUser(rooms[r], u)]
      PROVE  Unlists
  <2>1. rooms[r] \in RoomState
    BY <1>1, <1>2 DEF RoomTyped
  <2>2. \A v \in User : WithoutUser(rooms[r], u).online[v] \in {Null, rooms[r].online[v]}
    BY <2>1 DEF WithoutUser, RoomState
  <2> QED
    BY <1>1, <1>2, <2>1, <2>2 DEF RoomTyped
<1>3. ASSUME NEW r \in Room, NEW seats, rooms[r] # Null, SetSeats(r, seats)
      PROVE  UNCHANGED connections /\ late' = late /\ Unlists
  <2>1. rooms[r] \in RoomState
    BY <1>1, <1>3 DEF RoomTyped
  <2>2. \A v \in User : [rooms[r] EXCEPT !.seats = seats].online[v] = rooms[r].online[v]
    BY <2>1 DEF RoomState
  <2>3. rooms' = [rooms EXCEPT ![r] = [rooms[r] EXCEPT !.seats = seats]]
    BY <1>3 DEF SetSeats
  <2>4. Unlists
    BY <1>1, <1>3, <2>1, <2>2, <2>3 DEF RoomTyped
  <2> QED
    BY <1>3, <2>4 DEF SetSeats, connections, sockVars, presenceVars
<1>4. ASSUME NEW s \in Sock, LeaveRoom(s) \/ Hear(s)
      PROVE  UNCHANGED connections /\ late' = late /\ Unlists
  <2>1. UNCHANGED connections /\ late' = late
    BY <1>4 DEF LeaveRoom, Hear, connections, presenceVars
  <2>2. CASE rooms' = rooms
    BY <2>1, <2>2
  <2>3. CASE rooms' # rooms
    <3>1. /\ LeaveRoom(s) /\ view[s] # Null /\ rooms[view[s]] # Null
          /\ rooms' = [rooms EXCEPT ![view[s]] = WithoutUser(rooms[view[s]], ClientOf[s])]
      BY <2>3, <1>4 DEF LeaveRoom, Hear
    <3>2. view[s] \in Room /\ ClientOf[s] \in User
      BY <3>1, <1>1, SocketClients DEF RoomTyped
    <3> QED
      BY <3>1, <3>2, <2>1, <1>2
  <2> QED
    BY <2>1, <2>2, <2>3
<1>5. ASSUME NEW s \in Sock, LeaveSeat(s) \/ \E n \in Seat : TakeSeat(s, n)
      PROVE  UNCHANGED connections /\ late' = late /\ Unlists
  <2>1. view[s] \in Room /\ rooms[view[s]] # Null /\ \E seats : SetSeats(view[s], seats)
    BY <1>5, <1>1 DEF LeaveSeat, TakeSeat, Isn, RoomTyped
  <2> QED
    BY <2>1, <1>3
<1>6. ASSUME NEW s \in Sock, NEW r \in Room, JoinRefused(s, r)
      PROVE  UNCHANGED connections /\ late' = late /\ Unlists
  <2>1. /\ UNCHANGED connections /\ late' = late
        /\ current[s] \notin {Null, r} /\ rooms[current[s]] # Null
        /\ rooms' = [rooms EXCEPT ![current[s]] = WithoutUser(rooms[current[s]], ClientOf[s])]
    BY <1>6 DEF JoinRefused, LeftOld, connections, presenceVars
  <2>2. current[s] \in Room /\ ClientOf[s] \in User
    BY <2>1, <1>1, SocketClients DEF RoomTyped
  <2> QED
    BY <2>1, <2>2, <1>2
<1>7. ASSUME NEW r \in Room, HostStep(r)
      PROVE  UNCHANGED connections /\ late \subseteq late' /\ Unlists
  <2>1. rooms[r] # Null /\ rooms[r] \in RoomState
    BY <1>7, <1>1
    DEF HostStep, LockSeat, MoveSeat, MoveToAudience, Kick, CloseRoom, Hosting, RoomTyped
  <2>2. ASSUME NEW n \in Seat, LockSeat(r, n)
        PROVE  UNCHANGED connections /\ late' = late /\ Unlists
    <3>1. PICK locks : rooms' = [rooms EXCEPT ![r] = [rooms[r] EXCEPT !.locked = locks]]
      BY <2>2 DEF LockSeat
    <3>2. \A v \in User : [rooms[r] EXCEPT !.locked = locks].online[v] = rooms[r].online[v]
      BY <2>1 DEF RoomState
    <3>3. Unlists
      BY <3>1, <3>2, <2>1, <1>1 DEF RoomTyped
    <3> QED
      BY <3>3, <2>2 DEF LockSeat, connections, sockVars, presenceVars
  <2>3. ASSUME \/ \E n, m \in Seat : MoveSeat(r, n, m)
               \/ \E u \in User : MoveToAudience(r, u)
        PROVE  UNCHANGED connections /\ late' = late /\ Unlists
    <3>1. \E seats : SetSeats(r, seats)
      BY <2>3 DEF MoveSeat, MoveToAudience
    <3> QED
      BY <3>1, <2>1, <1>3
  <2>4. ASSUME NEW u \in User, Kick(r, u)
        PROVE  UNCHANGED connections /\ late' = late /\ Unlists
    <3>1. rooms' = [rooms EXCEPT ![r] = WithoutUser(rooms[r], u)]
      BY <2>4 DEF Kick
    <3> QED
      BY <3>1, <2>1, <2>4, <1>2 DEF Kick, connections, presenceVars
  <2>5. CASE CloseRoom(r)
    <3>1. rooms' = [rooms EXCEPT ![r] = Null]
      BY <2>5 DEF CloseRoom
    <3>2. Unlists
      BY <3>1, <1>1 DEF RoomTyped
    <3> QED
      BY <3>2, <2>5 DEF CloseRoom, connections, presenceVars
  <2> QED
    BY <1>7, <2>2, <2>3, <2>4, <2>5 DEF HostStep
<1>8. ASSUME Sweep
      PROVE  UNCHANGED connections /\ late' = late /\ Unlists
  <2>1. ASSUME NEW r \in Room, rooms'[r] # Null
        PROVE  /\ rooms[r] # Null
               /\ \A u \in User : rooms'[r].online[u] \in {Null, rooms[r].online[u]}
    <3>1. rooms[r] # Null /\ rooms[r] \in RoomState
      BY <1>8, <2>1, <1>1 DEF Sweep, RoomTyped
    <3> QED
      BY <1>8, <3>1 DEF Sweep, RoomState
  <2> QED
    BY <1>8, <2>1 DEF Sweep, connections, sockVars, presenceVars
<1>9. ASSUME UNCHANGED roomVars
      PROVE  UNCHANGED connections /\ late' = late /\ Unlists
  BY <1>9 DEF roomVars, connections, sockVars, presenceVars
<1>10. UNCHANGED connections /\ late \subseteq late' /\ Unlists
  <2> HIDE DEF Unlists
  <2> QED
    BY <1>4, <1>5, <1>6, <1>7, <1>8, <1>9 DEF Calm
<1> QED
  BY <1>10, CalmStep

LEMMA StepPresenceInv ==
    ASSUME PresenceInv, [RoomNext]_roomVars
    PROVE  PresenceInv'
<1>1. RoomTyped'
  BY StepTyped DEF PresenceInv
<1>2. ASSUME NEW s \in Sock, ClientStep(s)
      PROVE  PresenceInv'
  <2>1. CASE Connect(s) \/ Identify(s) \/ IdentifyLater(s) \/ IdentifyDone(s)
    BY <1>1, <2>1, ConnectKeeps
  <2>2. CASE \E r \in Room : JoinRoom(s, r)
    BY <1>1, <2>2, JoinKeeps
  <2>3. CASE Disconnect(s)
    BY <1>1, <2>3, DisconnectKeeps
  <2>4. CASE Calm(s)
    BY <1>1, <2>4, CalmActions
  <2> QED
    BY <1>2, <2>1, <2>2, <2>3, <2>4 DEF ClientStep, Calm
<1>3. CASE (\E r \in Room : HostStep(r)) \/ UNCHANGED roomVars
  BY <1>1, <1>3, CalmActions
<1>4. CASE TimerStep
  BY <1>1, <1>4, TimerKeeps, CalmActions DEF TimerStep
<1> QED
  BY <1>2, <1>3, <1>4 DEF RoomNext

\* Types hold whatever devices and late answers do.
THEOREM RoomTypeCorrect == RoomSpec => []RoomTyped
BY InitTyped, StepTyped, PTL DEF RoomSpec

\* The invariant of presence, on any number of devices (bindSocketToUser and
\* the disconnect handler).
THEOREM PresenceInvariant == RoomSpec => []PresenceInv
BY InitPresenceInv, StepPresenceInv, PTL DEF RoomSpec

\* A grace timer takes no seat and no listing away from a connected socket: it
\* frees only the seat its own closed socket took, and it changes the listing
\* only while the user's current socket is that closed one.
LEMMA ExpirySpares ==
    ASSUME PresenceInv, NEW t \in timers, GraceExpires(t), NEW r \in Room, rooms[r] # Null
    PROVE  /\ \A n \in Seat :
                 LET place == rooms[r].seats[n] IN
                 place # Null /\ place # rooms'[r].seats[n]
                   => conn[place.sock] = "closed"
           /\ \A u \in User \ (late \cup parted) :
                 rooms[r].online[u] # Null /\ rooms'[r].online[u] = Null
                   => conn[rooms[r].online[u]] = "closed"
<1>1. RoomTyped /\ TimerOwned(t) /\ rooms[r] \in RoomState
  BY DEF PresenceInv, RoomTyped
<1>2. CASE Stale(t) \/ rooms[t.room] = Null \/ r # t.room
  <2>1. rooms'[r] = rooms[r]
    BY <1>1, <1>2 DEF GraceExpires, RoomTyped
  <2> QED
    BY <2>1
<1>3. CASE ~Stale(t) /\ rooms[t.room] # Null /\ r = t.room
  <2>1. rooms'[r] = Dropped(rooms[r], t.user, t.sock) /\ gen[t.user] = t.gen
    BY <1>1, <1>3 DEF GraceExpires, Stale, RoomTyped
  <2>2. ASSUME NEW n \in Seat, rooms[r].seats[n] # Null,
               rooms[r].seats[n] # rooms'[r].seats[n]
        PROVE  conn[rooms[r].seats[n].sock] = "closed"
    <3>1. rooms[r].seats[n].sock = t.sock
      BY <2>1, <2>2, <1>1 DEF Dropped, RoomState
    <3> QED
      BY <3>1, <1>1 DEF TimerOwned
  <2>3. ASSUME NEW u \in User \ (late \cup parted),
               rooms[r].online[u] # Null, rooms'[r].online[u] = Null
        PROVE  conn[rooms[r].online[u]] = "closed"
    <3>1. u = t.user
      BY <2>1, <2>3, <1>1 DEF Dropped, RoomState
    <3>2. as[rooms[r].online[u]] = u /\ rooms[r].online[u] \in Sock
      BY <2>3, <1>1 DEF PresenceInv, ListedOwned, RoomState
    <3> QED
      BY <3>1, <3>2, <2>1, CurrentTimerMeansGone
  <2> QED
    BY <2>2, <2>3
<1> QED
  BY <1>2, <1>3

\* A user the sweep takes for gone has no socket that speaks for him unless he
\* is parted, and no grace timer of his still counts.
LEMMA SweepSpares ==
    ASSUME PresenceInv, Sweep, NEW u \in User \ late, NEW r \in Room,
           SeatsOf(u, r)' # SeatsOf(u, r)
    PROVE  /\ u \in parted \/ \A s \in Open(u) : as[s] = Null
           /\ \A t \in timers : t.user = u => Stale(t)
<1>1. RoomTyped /\ Null \notin RoomState \cup User
  BY RoomAssumption DEF PresenceInv
<1>2. Ghost(u)
  <2>1. SUFFICES ASSUME ~Ghost(u) PROVE SeatsOf(u, r)' = SeatsOf(u, r)
    OBVIOUS
  <2>2. CASE rooms[r] = Null
    BY <2>2 DEF Sweep, SeatsOf
  <2>3. CASE rooms[r] # Null
    <3>1. rooms[r] \in RoomState
      BY <2>3, <1>1 DEF RoomTyped
    <3>2. rooms'[r] \in RoomState
      BY <2>3, <3>1 DEF Sweep, RoomState, Place
    <3>3. ASSUME NEW n \in Seat
          PROVE  (rooms'[r].seats[n] # Null /\ rooms'[r].seats[n].user = u)
                   <=> (rooms[r].seats[n] # Null /\ rooms[r].seats[n].user = u)
      <4>1. \/ rooms'[r].seats[n] = rooms[r].seats[n]
            \/ /\ rooms'[r].seats[n] = Null
               /\ Ghost(rooms[r].seats[n].user)
        BY <2>3, <3>1 DEF Sweep, RoomState
      <4> QED
        BY <4>1, <2>1
    <3>4. rooms'[r] # Null
      BY <3>2, <1>1
    <3> QED
      BY <3>3, <3>4, <2>3 DEF SeatsOf
  <2> QED
    BY <2>2, <2>3
<1>3. Generations(u) /\ primary[u] = Null
  BY <1>2 DEF PresenceInv, Ghost
<1>4. ASSUME u \notin parted, NEW s \in Open(u)
      PROVE  as[s] = Null
  BY <1>3, <1>4, <1>1 DEF Open, Generations, PresenceInv, SocketOwned
<1>5. ASSUME NEW t \in timers, t.user = u
      PROVE  Stale(t)
  <2>1. TimerCurrent(t) /\ t.sock \in Sock
    BY <1>5, <1>1 DEF PresenceInv, RoomTyped, Timer
  <2> QED
    BY <2>1, <1>3, <1>5, RoomAssumption DEF TimerCurrent, Stale
<1> QED
  BY <1>4, <1>5

\* "A stale disconnect must never free a seat that belongs to that newer
\* session", for any users, sockets and rooms: a timer frees only seats of
\* closed sockets, and unlists only users listed with one, but for those late
\* or parted.
THEOREM NewSessionAlwaysSpared == RoomSpec => NewSessionIsSpared
<1>1. PresenceInv /\ [RoomNext]_roomVars =>
        [(\E t \in timers : GraceExpires(t)) =>
           \A r \in Room : rooms[r] # Null =>
              /\ \A n \in Seat :
                    LET place == rooms[r].seats[n] IN
                    place # Null /\ place # rooms'[r].seats[n]
                      => conn[place.sock] = "closed"
              /\ \A u \in User \ (late \cup parted) :
                    rooms[r].online[u] # Null /\ rooms'[r].online[u] = Null
                      => conn[rooms[r].online[u]] = "closed"]_roomVars
  BY ExpirySpares
<1> QED
  BY <1>1, PresenceInvariant, PTL DEF RoomSpec, NewSessionIsSpared

\* The sweep of ghost seats takes the seat of nobody whose grace period still
\* counts, and of a connected user only if he is parted, for any users,
\* sockets and rooms (isGhostSeat, sweepGhostSeats).
THEOREM OnlyTheGoneAreEverSwept == RoomSpec => OnlyTheGoneAreSwept
<1>1. PresenceInv /\ [RoomNext]_roomVars =>
        [Sweep => \A u \in User \ late, r \in Room :
           SeatsOf(u, r)' # SeatsOf(u, r) =>
              /\ u \in parted \/ \A s \in Open(u) : as[s] = Null
              /\ \A t \in timers : t.user = u => Stale(t)]_roomVars
  BY SweepSpares
<1> QED
  BY <1>1, PresenceInvariant, PTL DEF RoomSpec, OnlyTheGoneAreSwept
=============================================================================
