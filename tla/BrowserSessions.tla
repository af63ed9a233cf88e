-------------------------- MODULE BrowserSessions --------------------------
(***************************************************************************)
(* How a browser gets past uiAuthMiddleware (internal/api/auth.go): a      *)
(* challenge and its answer, at most so many in a window of time, make a   *)
(* session; a one-time password lets one request through.  Requests run    *)
(* concurrently; what each does under a lock or in one operation of a      *)
(* sync.Map is one step.  All of this is in memory: the module is about    *)
(* the time between two starts of the server.  One that starts anew has    *)
(* forgotten challenges, sessions, passwords and counted attempts.         *)
(***************************************************************************)
EXTENDS Naturals, FiniteSets

CONSTANTS
  Requests,                           \* requests that run at one time
  MaxTime, MaxNonce, MaxCode,         \* bounds: of the clock, of challenges, of passwords
  NonceLife, OtpLife, SessionLife,    \* how long each is good for
  authRateMaxAttempts, authRateWindow \* verifications one address may try in a window

VARIABLES
  now,
  challenges,   \* challenges made so far
  uiNonces,     \* sync.Map: those not answered, with their time
  uiSessions,   \* sync.Map: the challenge a session was made for, the request, the time
  authAttempts, \* the verifications of the one address that count: times, numbered
  password,     \* a password is set
  activeOTP,    \* the one-time password, if any, and its time: a set of at most one
  codes,        \* one-time passwords made so far
  request,      \* what each request is about
  tried,        \* history: the verifications let through
  passed        \* history: requests let through, and by what

browserVars == <<now, challenges, uiNonces, uiSessions, authAttempts, password, activeOTP, codes,
                 request, tried, passed>>

Idle == [step |-> "idle", with |-> 0]

Init ==
  /\ now = 0 /\ challenges = 0 /\ uiNonces = {} /\ uiSessions = {} /\ authAttempts = {}
  /\ password = TRUE /\ activeOTP = {} /\ codes = 0
  /\ request = [r \in Requests |-> Idle] /\ tried = {} /\ passed = {}

Tick ==
  /\ now < MaxTime /\ now' = now + 1
  /\ UNCHANGED <<challenges, uiNonces, uiSessions, authAttempts, password, activeOTP, codes,
                 request, tried, passed>>

-----------------------------------------------------------------------------
(* Signing in.                                                             *)

GetChallenge ==
  /\ challenges < MaxNonce /\ challenges' = challenges + 1
  /\ uiNonces' = uiNonces \union {[nonce |-> challenges + 1, expires |-> now + NonceLife]}
  /\ UNCHANGED <<now, uiSessions, authAttempts, password, activeOTP, codes, request, tried, passed>>

\* The attempts that count: those within the window.
authRateLimitOK(attempts) == {a \in attempts : a.at + authRateWindow > now}

\* VerifyAuth as far as the limit; one that is refused is not counted.
Attempt(r) ==
  LET recent == authRateLimitOK(authAttempts)
      attempt == [at |-> now, number |-> Cardinality(tried) + 1] IN
  /\ request[r] = Idle
  /\ IF Cardinality(recent) < authRateMaxAttempts
     THEN /\ authAttempts' = recent \union {attempt} /\ tried' = tried \union {attempt}
          /\ \E n \in 1..challenges : request' = [request EXCEPT ![r] = [step |-> "verify", with |-> n]]
     ELSE authAttempts' = recent /\ UNCHANGED <<request, tried>>
  /\ UNCHANGED <<now, challenges, uiNonces, uiSessions, password, activeOTP, codes, passed>>

\* VerifyAuth that loads the challenge and leaves it.
BurnNonce_Kept(n) == uiNonces

\* LoadAndDelete: one request gets the challenge.
BurnNonce(n) == {x \in uiNonces : x.nonce # n}

TakeNonce(r) ==
  LET n == request[r].with
      good == \E x \in uiNonces : x.nonce = n /\ now <= x.expires IN
  /\ request[r].step = "verify"
  /\ uiNonces' = BurnNonce(n)
  /\ request' = [request EXCEPT ![r] = IF good THEN [@ EXCEPT !.step = "answer"] ELSE Idle]
  /\ UNCHANGED <<now, challenges, uiSessions, authAttempts, password, activeOTP, codes, tried, passed>>

\* The answer is right, and a session begins; or it is wrong, or no password is set.
Answer(r) ==
  /\ request[r].step = "answer"
  /\ \/ /\ password
        /\ uiSessions' = uiSessions \union
             {[nonce |-> request[r].with, by |-> r, expires |-> now + SessionLife]}
     \/ UNCHANGED uiSessions
  /\ request' = [request EXCEPT ![r] = Idle]
  /\ UNCHANGED <<now, challenges, uiNonces, authAttempts, password, activeOTP, codes, tried, passed>>

\* SaveServer sets the password or takes it away; sessions stay.
SetPassword ==
  /\ password' = ~password
  /\ UNCHANGED <<now, challenges, uiNonces, uiSessions, authAttempts, activeOTP, codes, request,
                 tried, passed>>

-----------------------------------------------------------------------------
(* Requests for anything else.                                             *)

\* uiAuthMiddleware for a caller who may have the session of an agent: there is no
\* password, or a browser has a session, or an agent has one.
LetIn(agentSession) ==
  \/ ~password
  \/ \E s \in uiSessions : now < s.expires
  \/ agentSession

\* A new one-time password takes the place of the old one.  Agents have their sessions
\* at any time, and a request that a one-time password let through may ask for a new one.
GenerateOTP ==
  /\ \E agentSession \in BOOLEAN : LetIn(agentSession)
  /\ codes < MaxCode /\ codes' = codes + 1
  /\ activeOTP' = {[code |-> codes + 1, expires |-> now + OtpLife]}
  /\ UNCHANGED <<now, challenges, uiNonces, uiSessions, authAttempts, password, request, tried, passed>>

\* isValidUISession drops a session it finds too old.
ExpireSession ==
  /\ password
  /\ \E s \in uiSessions : s.expires <= now /\ uiSessions' = uiSessions \ {s}
  /\ UNCHANGED <<now, challenges, uiNonces, authAttempts, password, activeOTP, codes, request, tried,
                 passed>>

\* A request with a one-time password passes the tests for a password and for sessions.
SendOTP(r) ==
  /\ password /\ request[r] = Idle
  /\ \E c \in 1..codes : request' = [request EXCEPT ![r] = [step |-> "otp", with |-> c]]
  /\ UNCHANGED <<now, challenges, uiNonces, uiSessions, authAttempts, password, activeOTP, codes, tried,
                 passed>>

\* uiAuthMiddleware under otpMu: the code is good, and burned; or it is not.
UseOTP(r) ==
  LET c == request[r].with
      valid == \E o \in activeOTP : o.code = c /\ now < o.expires IN
  /\ request[r].step = "otp"
  /\ request' = [request EXCEPT ![r] = Idle]
  /\ IF valid THEN activeOTP' = {} /\ passed' = passed \union {<<r, c, now>>}
     ELSE UNCHANGED <<activeOTP, passed>>
  /\ UNCHANGED <<now, challenges, uiNonces, uiSessions, authAttempts, password, codes, tried>>

Next ==
  \/ Tick \/ GetChallenge \/ SetPassword \/ GenerateOTP \/ ExpireSession
  \/ \E r \in Requests : Attempt(r) \/ TakeNonce(r) \/ Answer(r) \/ SendOTP(r) \/ UseOTP(r)

Spec == Init /\ [][Next]_browserVars

-----------------------------------------------------------------------------
(* Properties.                                                             *)

\* What the server keeps has the form the code gives it; there is at most one
\* one-time password, and the attempts that count do not outgrow the limit.
TypeOK ==
  /\ now \in 0..MaxTime /\ challenges \in 0..MaxNonce /\ codes \in 0..MaxCode
  /\ uiNonces \subseteq [nonce : 1..challenges, expires : Nat]
  /\ uiSessions \subseteq [nonce : 1..challenges, by : Requests, expires : Nat]
  /\ activeOTP \subseteq [code : {codes}, expires : Nat] /\ Cardinality(activeOTP) <= 1
  /\ password \in BOOLEAN
  /\ authAttempts \subseteq tried /\ Cardinality(authAttempts) <= authRateMaxAttempts
  /\ \A r \in Requests : request[r].step \in {"idle", "verify", "answer", "otp"}

\* A challenge makes one session at most, whatever number of requests answer it at
\* one time (auth.go:155).
OneSessionPerNonce ==
  \A s, t \in uiSessions : s.nonce = t.nonce => s = t

\* No window of time has more verifications than the limit: attempts that were
\* refused do not shorten it, and attempts that grew old do not stretch it
\* (auth.go:27-46).
RateHolds ==
  \A t \in 0..now :
    Cardinality({a \in tried : a.at \in t..(t + authRateWindow - 1)}) <= authRateMaxAttempts

\* A one-time password lets one request through (auth.go:257-266).
OneRequestPerOTP ==
  \A x, y \in passed : x[2] = y[2] => x = y

\* What opens the door once does so once, and guesses at a password are few.
SignInLimited == OneSessionPerNonce /\ OneRequestPerOTP /\ RateHolds
=============================================================================
