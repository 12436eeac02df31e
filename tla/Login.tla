------------------------------- MODULE Login -------------------------------
(***************************************************************************)
(* Signing in: the one-time codes of security/otpService.js, the lockout   *)
(* of security/bruteForce.js, the tokens of security/userAuth.js and the   *)
(* routes of server.js that join them.  Each of otpStore.json, users.json  *)
(* and tokens.json is saved at once by some writes and after a delay by    *)
(* others, and the process can die between any two of them; the SMS and    *)
(* the session of the production wallet, where it is enabled, are awaited, *)
(* and everything may happen before their answer.                          *)
(***************************************************************************)
EXTENDS Naturals, FiniteSets

CONSTANTS
    Mobile,      \* numbers people sign in with
    Otp,         \* one-time codes, by requestId
    Account,     \* account ids, by generateUniqueUserId
    Token,       \* session tokens
    None,        \* no code, account, token or running handler
    MaxAttempts, \* OTP_MAX_ATTEMPTS
    Threshold,   \* failures before a lockout
    MaxCrashes,  \* bound on the crashes of a behaviour
    MaxLoad      \* bound on codes issued plus sessions held at a time

ASSUME LoginAssumption ==
    /\ MaxAttempts \in Nat \ {0}
    /\ Threshold \in Nat \ {0}
    /\ MaxCrashes \in Nat
    /\ MaxLoad \in Nat
    /\ None \notin Otp \cup Account
    /\ None \notin [id : Otp, attempts : Nat]
    /\ None \notin [id : Account, password : BOOLEAN]
    /\ None \notin [mobile : Mobile]

VARIABLES
    otp, otpDisk, otpDirty,    \* the live code of a number; the file; a save due
    age, sending, sent,        \* the time of each code; SMS awaited, accepted
    fails, locked,             \* the lockout of each number, memory only
    account, accountDisk, accountDirty,
    token, tokenDisk, tokenDirty, old,
    login,                     \* what became of the request a token answers
    handler,                   \* the handler that has not reached an await
    production,                \* productionWallet.enabled()
    latest, wrong, used, crashes  \* what happened, for the properties

codes   == <<otp, otpDisk, otpDirty, age, sending, sent, latest, wrong, used>>
lockout == <<fails, locked>>
people  == <<account, accountDisk, accountDirty>>
tokens  == <<token, tokenDisk, tokenDirty, old, login>>
loginVars == <<codes, lockout, people, tokens, handler, production, crashes>>

Kind == {"otp", "password"}
\* Tokens are random; one that is nowhere any more stands for a new one.
Spare(t) == token[t] = None /\ tokenDisk[t] = None
\* Nothing else runs before a handler's first await.
Idle == handler = None
Load == Cardinality({o \in Otp : age[o] # "none"})
          + Cardinality({t \in Token : ~Spare(t)})
SignIn(m, via) == /\ \E t \in Token : Spare(t)
                  /\ Load < MaxLoad
                  /\ handler' = [mobile |-> m, via |-> via]
Expired(o) == age[o] = "expired"
-----------------------------------------------------------------------------
(* One-time codes                                                          *)

SaveOtp(store) == otp' = store /\ otpDisk' = store /\ otpDirty' = FALSE
SaveOtpLater(store) == otp' = store /\ otpDirty' = TRUE /\ UNCHANGED otpDisk
Without(m) == [otp EXCEPT ![m] = None]

Issue(m, o) == SaveOtp([otp EXCEPT ![m] = [id |-> o, attempts |-> 0]])

\* POST /api/auth/send-otp up to the SMS, unless a code is cooling down.
SendOtp(m, o) ==
    /\ Idle
    /\ age[o] = "none" /\ Load < MaxLoad
    /\ otp[m] # None => age[otp[m].id] # "new"
    /\ Issue(m, o)
    /\ age' = [p \in Otp |-> IF p = o THEN "new"
                              ELSE IF p = latest[m] THEN "expired" ELSE age[p]]
    /\ sending' = sending \cup {<<m, o>>}
    /\ latest' = [latest EXCEPT ![m] = o]
    /\ UNCHANGED <<sent, wrong, used, lockout, people, tokens, handler,
                   crashes>>

SmsAccepted(m, o) ==
    /\ Idle
    /\ <<m, o>> \in sending
    /\ sending' = sending \ {<<m, o>>}
    /\ sent' = sent \cup {o}
    /\ UNCHANGED <<otp, otpDisk, otpDirty, age, latest, wrong, used, lockout,
                   people, tokens, handler, crashes>>

\* Mutant: the revocation does not ask whose request it is.
RevokesAny(m, o) == otp[m] # None

Revokes(m, o) == otp[m] # None /\ otp[m].id = o

\* The gateway refuses or times out: the code is void.
SmsFailed(m, o) ==
    /\ Idle
    /\ <<m, o>> \in sending
    /\ sending' = sending \ {<<m, o>>}
    /\ IF Revokes(m, o) THEN SaveOtp(Without(m))
                        ELSE UNCHANGED <<otp, otpDisk, otpDirty>>
    /\ UNCHANGED <<age, sent, latest, wrong, used, lockout, people, tokens,
                   handler, crashes>>

\* The resend cooldown ends, then the code expires.
OtpAges(o) ==
    /\ age[o] \in {"new", "cooled"}
    /\ age' = [age EXCEPT ![o] = IF @ = "new" THEN "cooled" ELSE "expired"]
    /\ UNCHANGED <<otp, otpDisk, otpDirty, sending, sent, latest, wrong, used, lockout,
                   people, tokens, handler, crashes>>

PurgeExpired(m) ==
    /\ Idle
    /\ otp[m] # None /\ Expired(otp[m].id)
    /\ SaveOtpLater(Without(m))
    /\ UNCHANGED <<age, sending, sent, latest, wrong, used, lockout, people, tokens,
                   handler, crashes>>
-----------------------------------------------------------------------------
(* Lockout: Threshold failures in a row lock a number for a while          *)

RecordFailure(k, m) ==
    LET n == fails[k][m] + 1 IN
    /\ fails' = [fails EXCEPT ![k][m] = IF n >= Threshold THEN 0 ELSE n]
    /\ locked' = IF n >= Threshold THEN locked \cup {<<k, m>>} ELSE locked

RecordSuccess(k, m) ==
    /\ fails' = [fails EXCEPT ![k][m] = 0]
    /\ locked' = locked \ {<<k, m>>}

LockoutEnds(k, m) ==
    /\ <<k, m>> \in locked
    /\ locked' = locked \ {<<k, m>>}
    /\ UNCHANGED <<fails, codes, people, tokens, handler, crashes>>
-----------------------------------------------------------------------------
(* Verifying a code                                                        *)

\* A code is spent when its number asks for it a last time.
Spent(m) == Expired(otp[m].id) \/ otp[m].attempts >= MaxAttempts

RefuseCode(m) ==
    /\ Idle
    /\ <<"otp", m>> \notin locked
    /\ \/ otp[m] = None /\ UNCHANGED <<otp, otpDisk, otpDirty, wrong>>
       \/ /\ otp[m] # None /\ Spent(m)
          /\ SaveOtpLater(Without(m))
          /\ UNCHANGED wrong
       \/ /\ otp[m] # None /\ ~Spent(m)
          /\ SaveOtpLater([otp EXCEPT ![m].attempts = @ + 1])
          /\ wrong' = [wrong EXCEPT ![otp[m].id] = @ + 1]
    /\ RecordFailure("otp", m)
    /\ UNCHANGED <<age, sending, sent, latest, used, people, tokens, handler, crashes>>

\* Mutant: the used code leaves the file with the next save.
ConsumeLater(m) == SaveOtpLater(Without(m))

Consume(m) == SaveOtp(Without(m))

\* The right code; account, token and answer follow in the same handler,
\* unless the account is banned.
AcceptCode(m) ==
    /\ Idle
    /\ <<"otp", m>> \notin locked
    /\ otp[m] # None /\ ~Spent(m)
    /\ Consume(m)
    /\ used' = [used EXCEPT ![otp[m].id] = @ + 1]
    /\ RecordSuccess("otp", m)
    /\ SignIn(m, "otp") \/ (account[m] # None /\ UNCHANGED handler)
    /\ UNCHANGED <<age, sending, sent, latest, wrong, people, tokens, crashes>>

\* A verified Firebase identity; logins of one identity wait for each other.
FirebaseLogin(m) ==
    /\ Idle
    /\ \A t \in Token : token[t] # None /\ token[t].mobile = m
                          => ~(login[t].state = "issued" /\ login[t].via = "firebase")
    /\ SignIn(m, "firebase")
    /\ UNCHANGED <<codes, lockout, people, tokens, crashes>>

SaveUsersLater(accounts) ==
    account' = accounts /\ accountDirty' = TRUE /\ UNCHANGED accountDisk

SaveUsers(accounts) ==
    account' = accounts /\ accountDisk' = accounts /\ accountDirty' = FALSE

New(u) == /\ \A m \in Mobile, file \in {account, accountDisk} :
                 file[m] # None => file[m].id # u
          /\ \A t \in Token : login[t].account # u

\* A number without account gets one, saved before its token is.
CreateAccount(u) ==
    /\ ~Idle
    /\ account[handler.mobile] = None
    /\ New(u)
    /\ SaveUsers([account EXCEPT ![handler.mobile] = [id |-> u, password |-> FALSE]])
    /\ UNCHANGED <<codes, lockout, tokens, handler, crashes>>
-----------------------------------------------------------------------------
(* Passwords                                                               *)

SetPassword(t) ==
    /\ Idle
    /\ token[t] # None /\ ~old[t]
    /\ LET m == token[t].mobile IN
       /\ account[m] # None /\ ~account[m].password
       /\ SaveUsers([account EXCEPT ![m].password = TRUE])
       /\ SignIn(m, "otp")
    /\ UNCHANGED <<codes, lockout, tokens, crashes>>

\* login-password and login-user-id; both count failures on their own key.
PasswordLogin(m, right) ==
    /\ Idle
    /\ <<"password", m>> \notin locked
    /\ account[m] # None /\ account[m].password
    /\ IF right THEN /\ RecordSuccess("password", m)
                     /\ SignIn(m, "password")
                ELSE /\ RecordFailure("password", m)
                     /\ UNCHANGED handler
    /\ UNCHANGED <<codes, people, tokens, crashes>>
-----------------------------------------------------------------------------
(* Tokens                                                                  *)

SaveTokens(ts) == token' = ts /\ tokenDisk' = ts
SaveTokensLater(ts) == token' = ts /\ tokenDirty' = TRUE

\* Mutant: a new token waits for the delayed save.
StoreTokenLater(ts) == SaveTokensLater(ts) /\ UNCHANGED tokenDisk

\* writeTokensNow leaves a running save timer alone.
StoreToken(ts) == SaveTokens(ts) /\ UNCHANGED tokenDirty

\* The token, saved at once.  With the production wallet its session is awaited
\* before the answer; without it the same handler answers.
IssueToken(t) ==
    /\ ~Idle
    /\ account[handler.mobile] # None
    /\ Spare(t)
    /\ old' = [old EXCEPT ![t] = FALSE]
    /\ StoreToken([token EXCEPT ![t] = [mobile |-> handler.mobile]])
    /\ login' = [login EXCEPT ![t] = [state |-> IF production THEN "issued" ELSE "answered",
                                      via |-> IF production THEN handler.via ELSE "otp",
                                      account |-> account[handler.mobile].id]]
    /\ handler' = None
    /\ UNCHANGED <<codes, lockout, people, crashes>>

NoLogin == [state |-> "none", via |-> "otp", account |-> None]

\* createSession answered.  After a password login its arguments name a
\* variable that does not exist: with the production wallet that request fails,
\* its token issued.
Answer(t) ==
    /\ Idle
    /\ login[t].state = "issued"
    /\ login[t].via # "password"
    /\ login' = [login EXCEPT ![t].state = "answered", ![t].via = "otp"]
    /\ UNCHANGED <<token, tokenDisk, tokenDirty, old, codes, lockout, people,
                   handler, crashes>>

SessionFails(t) ==
    /\ Idle
    /\ login[t].state = "issued"
    /\ login' = [login EXCEPT ![t] = NoLogin]
    /\ UNCHANGED <<token, tokenDisk, tokenDirty, old, codes, lockout, people,
                   handler, crashes>>

\* revokeToken, by a logout or because the token is past its idle or
\* absolute lifetime when it is used or swept.
Revoke(t) ==
    /\ Idle
    /\ token[t] # None
    /\ SaveTokensLater([token EXCEPT ![t] = None])
    /\ login' = [login EXCEPT ![t] = NoLogin]
    /\ UNCHANGED <<tokenDisk, old, codes, lockout, people, handler, crashes>>

TokenAges(t) ==
    /\ token[t] # None
    /\ ~old[t]
    /\ old' = [old EXCEPT ![t] = TRUE]
    /\ UNCHANGED <<token, tokenDisk, tokenDirty, login, codes, lockout, people,
                   handler, crashes>>

OfMobile(m) == {t \in Token : token[t] # None /\ token[t].mobile = m}

\* DELETE /api/account: tokens first, then the account, neither saved at once.
DeleteAccount(m) ==
    /\ Idle
    /\ account[m] # None
    /\ \E t \in OfMobile(m) : ~old[t]
    /\ SaveTokensLater([t \in Token |-> IF t \in OfMobile(m) THEN None
                                                             ELSE token[t]])
    /\ login' = [t \in Token |-> IF t \in OfMobile(m)
                                 THEN NoLogin
                                 ELSE login[t]]
    /\ SaveUsersLater([account EXCEPT ![m] = None])
    /\ UNCHANGED <<tokenDisk, old, codes, lockout, handler, crashes>>
-----------------------------------------------------------------------------
(* Delayed saves, crashes and restarts                                     *)

FlushOtp == /\ Idle /\ otpDirty
            /\ SaveOtp(otp)
            /\ UNCHANGED <<age, sending, sent, latest, wrong, used, lockout, people,
                           tokens, handler, crashes>>

FlushUsers == /\ Idle /\ accountDirty
              /\ SaveUsers(account)
              /\ UNCHANGED <<codes, lockout, tokens, handler, crashes>>

FlushTokens == /\ Idle /\ tokenDirty
               /\ SaveTokens(token)
               /\ tokenDirty' = FALSE
               /\ UNCHANGED <<old, login, codes, lockout, people, handler,
                              crashes>>

\* The files are read again; what was awaited is never answered.
Crash ==
    /\ crashes < MaxCrashes
    /\ crashes' = crashes + 1
    /\ SaveOtp(otpDisk)
    /\ sending' = {}
    /\ fails' = [k \in Kind |-> [m \in Mobile |-> 0]]
    /\ locked' = {}
    /\ SaveUsers(accountDisk)
    /\ token' = [t \in Token |-> IF old[t] THEN None ELSE tokenDisk[t]]
    /\ tokenDirty' = FALSE
    /\ login' = [t \in Token |-> IF login[t].state = "issued"
                                 THEN NoLogin
                                 ELSE login[t]]
    /\ handler' = None
    /\ UNCHANGED <<age, sent, latest, wrong, used, tokenDisk, old>>
-----------------------------------------------------------------------------

LoginInit ==
    /\ otp = [m \in Mobile |-> None] /\ otpDisk = otp /\ otpDirty = FALSE
    /\ age = [o \in Otp |-> "none"] /\ sending = {} /\ sent = {}
    /\ fails = [k \in Kind |-> [m \in Mobile |-> 0]] /\ locked = {}
    /\ account = [m \in Mobile |-> None] /\ accountDisk = account
    /\ accountDirty = FALSE
    /\ token = [t \in Token |-> None] /\ tokenDisk = token
    /\ tokenDirty = FALSE /\ login = [t \in Token |-> NoLogin] /\ old = [t \in Token |-> FALSE]
    /\ handler = None
    /\ latest = [m \in Mobile |-> None]
    /\ wrong = [o \in Otp |-> 0] /\ used = wrong
    /\ crashes = 0 /\ production \in BOOLEAN

LoginStep ==
    \/ \E m \in Mobile, o \in Otp : SendOtp(m, o) \/ SmsAccepted(m, o) \/ SmsFailed(m, o)
    \/ \E o \in Otp : OtpAges(o)
    \/ \E m \in Mobile : \/ PurgeExpired(m) \/ RefuseCode(m) \/ AcceptCode(m)
                         \/ FirebaseLogin(m) \/ DeleteAccount(m)
    \/ \E m \in Mobile, right \in BOOLEAN : PasswordLogin(m, right)
    \/ \E k \in Kind, m \in Mobile : LockoutEnds(k, m)
    \/ \E u \in Account : CreateAccount(u)
    \/ \E t \in Token : \/ IssueToken(t) \/ Answer(t) \/ SessionFails(t)
                        \/ SetPassword(t) \/ Revoke(t) \/ TokenAges(t)
    \/ FlushOtp \/ FlushUsers \/ FlushTokens
    \/ Crash

LoginNext == LoginStep /\ UNCHANGED production

LoginSpec == LoginInit /\ [][LoginNext]_loginVars
-----------------------------------------------------------------------------
(* Properties                                                              *)

\* Who was told "OTP sent" can sign in with that code until it expires, is
\* used, is guessed at too often or is replaced by a newer one: no failed
\* send of an earlier code, no sweep and no restart takes it away.
DeliveredOtpWorks ==
    \A m \in Mobile : LET o == latest[m] IN
        o # None /\ o \in sent /\ ~Expired(o)
          /\ used[o] = 0 /\ wrong[o] < MaxAttempts
        => otp[m] # None /\ otp[m].id = o

\* A code signs in once, whatever is lost in a crash, and the guesses at it
\* are limited; a crash may give back those that were not saved.
OtpIsSpentOnce ==
    \A o \in Otp : /\ used[o] <= 1
                   /\ wrong[o] <= MaxAttempts * (1 + crashes)

\* "Login just succeeded" holds after a crash: the token of every answered
\* login is in memory and in its file, and so is the account it was for,
\* until the token ends or the account is deleted.
LoginsSurvive ==
    Idle => \A t \in Token :
        login[t].state = "answered" /\ ~old[t] =>
            /\ token[t] # None /\ tokenDisk[t] = token[t]
            /\ \A accounts \in {account, accountDisk} :
                 LET a == accounts[token[t].mobile] IN
                 a # None /\ a.id = login[t].account
=============================================================================
