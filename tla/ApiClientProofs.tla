--------------------------- MODULE ApiClientProofs ---------------------------
(***************************************************************************)
(* Proofs about ApiClient for any tokens, limits and lifetimes.            *)
(*                                                                         *)
(* TokenOfSession is not inductive: that a request matches the jar rests   *)
(* on the client's token matching it, whenever the last authentication was *)
(* complete.  RenewedInTime rests on the reauth timer running out before   *)
(* the session, from the receipt of its answer on: this is where MaxAnswer *)
(* < Grace is needed.                                                      *)
(*                                                                         *)
(* That the client implements BoundedCalls is the proof that Outstanding,  *)
(* a number made of the tries of the call and of its authentication, goes  *)
(* down at every request and wait.                                         *)
(***************************************************************************)
EXTENDS ApiClient, TLAPS

\* The client's token is the session's, and a request has the client's token.
Tokened ==
  /\ grant # "torn" => token = cookie
  /\ at \in {"get", "getWait"} => header = token

\* The timer runs out before the session.
Timed == grant = "timed" /\ renew >= 0 => renew < left

\* Basic authentication makes no session.
Basic == auth = "basic" => at \notin {"post", "postWait"} /\ grant = "none"

IInv == TypeOK /\ Tokened /\ Timed /\ Basic
-----------------------------------------------------------------------------
LEMMA InitIInv == Init => IInv
<1> SUFFICES ASSUME Init PROVE IInv
  OBVIOUS
<1> USE ClientAssumption DEF Init
<1>1. cancelled \in BOOLEAN /\ up \in BOOLEAN /\ valid \in BOOLEAN /\ connected \in BOOLEAN
  BY Zenon
<1>2. TypeOK
  BY <1>1 DEF TypeOK, Ats, Callers, Grants
<1> QED
  BY <1>2 DEF IInv, Tokened, Timed, Basic

LEMMA LongerType == ASSUME NEW d \in 1..MaxDelay PROVE Longer(d) \in 1..MaxDelay
BY ClientAssumption DEF Longer

LEMMA EndCallIInv ==
  ASSUME IInv, NEW ok \in BOOLEAN, EndCall(ok), UNCHANGED <<auth, sessionVars, envVars>>
  PROVE  IInv'
<1> USE ClientAssumption DEF EndCall, sessionVars, envVars
<1>1. connected' \in BOOLEAN /\ at' \in {"ready", "dead"}
  BY DEF IInv, TypeOK
<1>2. TypeOK'
  BY <1>1 DEF IInv, TypeOK, Ats
<1> QED
  BY <1>1, <1>2 DEF IInv, Tokened, Timed, Basic

LEMMA AuthenticateIInv ==
  ASSUME IInv, auth = "session", NEW caller \in Callers, Authenticate(caller),
         UNCHANGED <<auth, sessionVars, envVars>>
  PROVE  IInv'
BY ClientAssumption
   DEF IInv, TypeOK, Tokened, Timed, Basic, Ats, Authenticate, sessionVars, envVars

\* A try that is made, of a request built with the client's token.
LEMMA TryIInv ==
  ASSUME IInv, Try, UNCHANGED <<auth, sessionVars, envVars>>
  PROVE  IInv'
<1>1. CASE tries < MaxRetries
  <2>1. tries' \in 0..MaxRetries
    BY <1>1, ClientAssumption DEF Try, IInv, TypeOK
  <2> QED
    BY <1>1, <2>1, ClientAssumption
       DEF IInv, TypeOK, Tokened, Timed, Basic, Ats, Try, BuildRequest, sessionVars,
           envVars
<1>2. CASE ~(tries < MaxRetries)
  BY <1>2, EndCallIInv DEF Try
<1> QED
  BY <1>1, <1>2

LEMMA ClientStepIInv == IInv /\ ClientStep => IInv'
<1> SUFFICES ASSUME IInv, ClientStep PROVE IInv'
  OBVIOUS
<1>1. CASE Connect
  <2>1. CASE auth = "session"
    BY <1>1, <2>1, AuthenticateIInv DEF Connect, Callers
  <2>2. CASE auth # "session"
    BY <1>1, <2>2
       DEF Connect, IInv, TypeOK, Tokened, Timed, Basic, Ats, sessionVars, envVars
  <2> QED
    BY <2>1, <2>2
<1>2. CASE Call
  <2>1. CASE Due
    BY <1>2, <2>1, AuthenticateIInv DEF Call, Due, Callers
  <2>2. CASE ~Due
    BY <1>2, <2>2, TryIInv DEF Call
  <2> QED
    BY <2>1, <2>2
<1>3. CASE RetryGet
  <2>1. CASE tries < MaxRetries
    <3>1. delay' \in 1..MaxDelay
      BY <1>3, <2>1, LongerType DEF RetryGet, IInv, TypeOK
    <3>2. tries' \in 0..MaxRetries
      BY <1>3, <2>1, ClientAssumption DEF RetryGet, IInv, TypeOK
    <3> QED
      BY <1>3, <2>1, <3>1, <3>2
         DEF RetryGet, IInv, TypeOK, Tokened, Timed, Basic, Ats, sessionVars, envVars
  <2>2. CASE ~(tries < MaxRetries)
    BY <1>3, <2>2, EndCallIInv DEF RetryGet
  <2> QED
    BY <2>1, <2>2
<1>4. CASE RetryPost
  <2>1. CASE posts < MaxRetries
    <3>1. postDelay' \in 1..MaxDelay
      BY <1>4, <2>1, LongerType DEF RetryPost, IInv, TypeOK
    <3>2. posts' \in 0..MaxRetries
      BY <1>4, <2>1, ClientAssumption DEF RetryPost, IInv, TypeOK
    <3> QED
      BY <1>4, <2>1, <3>1, <3>2
         DEF RetryPost, IInv, TypeOK, Tokened, Timed, Basic, Ats, sessionVars, envVars
  <2>2. CASE ~(posts < MaxRetries)
    BY <1>4, <2>2, EndCallIInv DEF RetryPost
  <2> QED
    BY <2>1, <2>2
<1>5. CASE StopWaiting
  BY <1>5, EndCallIInv DEF StopWaiting
<1> QED
  BY <1>1, <1>2, <1>3, <1>4, <1>5 DEF ClientStep
-----------------------------------------------------------------------------
(* The answers.                                                            *)

LEMMA GetAnswerIInv ==
  IInv /\ (Answered \/ Unauthorized \/ GetFails \/ Refused) => IInv'
<1> SUFFICES ASSUME IInv, Answered \/ Unauthorized \/ GetFails \/ Refused PROVE IInv'
  OBVIOUS
<1>1. CASE Answered
  BY <1>1, EndCallIInv DEF Answered
<1>2. CASE Unauthorized
  <2>1. CASE auth = "basic"
    BY <1>2, <2>1, EndCallIInv DEF Unauthorized
  <2>2. CASE auth # "basic"
    <3>1. auth = "session"
      BY <2>2 DEF IInv, TypeOK, AuthTypes
    <3> QED
      BY <1>2, <2>2, <3>1, AuthenticateIInv DEF Unauthorized, Deny, Callers
  <2> QED
    BY <2>1, <2>2
<1>3. CASE GetFails
  BY <1>3, EndCallIInv DEF GetFails
<1>4. CASE Refused
  BY <1>4 DEF Refused, IInv, TypeOK, Tokened, Timed, Basic, Ats, sessionVars, envVars
<1> QED
  BY <1>1, <1>2, <1>3, <1>4

\* With an answer that came in within the grace, the timer runs out first.
LEMMA RenewalFirst ==
  ASSUME NEW lifetime \in Nat, NEW age \in 0..MaxAnswer, lifetime > Grace
  PROVE  /\ age < lifetime
         /\ Renewal(lifetime) < lifetime - age
BY ClientAssumption DEF Renewal

LEMMA GrantedIInv == IInv /\ Granted => IInv'
<1> SUFFICES ASSUME IInv, Granted PROVE IInv'
  OBVIOUS
<1>1. PICK t \in NewTokens, lifetime \in Lifetimes, age \in 0..MaxAnswer,
           reported \in {TRUE, up} :
        /\ Cookies(t, lifetime, age)
        /\ Keep(t, IF reported THEN lifetime ELSE DefaultLifetime)
        /\ grant' = IF reported /\ lifetime > Grace THEN "timed" ELSE "untimed"
        /\ Authenticated
  BY DEF Granted
<1>2. lifetime \in Nat /\ age \in Nat /\ t \in Tokens \cup {NoToken}
  BY <1>1, ClientAssumption DEF NewTokens
<1>3. token' = t /\ cookie' = t /\ token' \in Tokens \cup {NoToken}
  BY <1>1, <1>2 DEF Keep, Cookies
<1>4. left' \in Nat /\ renew' \in Int
  BY <1>1, <1>2, ClientAssumption DEF Cookies, Keep, Renewal
<1>5. grant' \in Grants /\ grant' # "torn"
  BY <1>1 DEF Grants
<1>6. valid' \in BOOLEAN
  BY <1>1, Zenon DEF Cookies
<1>7. Timed'
  <2>1. CASE reported /\ lifetime > Grace
    BY <1>1, <1>2, <2>1, RenewalFirst DEF Timed, Cookies, Keep
  <2>2. CASE ~(reported /\ lifetime > Grace)
    BY <1>1, <2>2 DEF Timed
  <2> QED
    BY <2>1, <2>2
<1>8. auth = "session" /\ at = "post" /\ UNCHANGED <<auth, up, cancelled>>
  BY DEF Granted, IInv, TypeOK, Basic, AuthTypes, envVars
<1>9. /\ at' \in {"ready", "dead", "get"}
      /\ at' = "get" => header' = token'
      /\ header' \in Tokens \cup {NoToken}
      /\ why' = why /\ connected' \in BOOLEAN
      /\ tries' \in 0..MaxRetries /\ delay' \in 1..MaxDelay
      /\ posts' \in 0..MaxRetries /\ postDelay' \in 1..MaxDelay
  <2>1. CASE why = "connect"
    BY <1>1, <2>1, ClientAssumption DEF Authenticated, IInv, TypeOK
  <2>2. CASE why # "connect" /\ tries < MaxRetries
    <3>1. tries' = tries + 1 /\ tries' \in 0..MaxRetries
      BY <1>1, <2>2, ClientAssumption DEF Authenticated, Try, IInv, TypeOK
    <3> QED
      BY <1>1, <1>3, <2>2, <3>1, ClientAssumption
         DEF Authenticated, Try, BuildRequest, IInv, TypeOK
  <2>3. CASE why # "connect" /\ ~(tries < MaxRetries)
    <3>1. EndCall(FALSE)
      BY <1>1, <2>3 DEF Authenticated, Try
    <3>2. connected' \in BOOLEAN
      BY <3>1 DEF EndCall
    <3> QED
      BY <3>1, <3>2, ClientAssumption DEF EndCall
  <2> QED
    BY <2>1, <2>2, <2>3
<1>10. TypeOK'
  BY <1>3, <1>4, <1>5, <1>6, <1>8, <1>9 DEF IInv, TypeOK, Ats
<1> QED
  BY <1>3, <1>5, <1>7, <1>8, <1>9, <1>10 DEF IInv, Tokened, Basic

LEMMA PostAnswerIInv == IInv /\ (GrantTorn \/ GrantDenied \/ PostFails) => IInv'
<1> SUFFICES ASSUME IInv, GrantTorn \/ GrantDenied \/ PostFails PROVE IInv'
  OBVIOUS
<1>1. CASE GrantTorn
  <2>1. PICK t \in NewTokens, lifetime \in Lifetimes : Cookies(t, lifetime, 0)
    BY <1>1 DEF GrantTorn
  <2>2. lifetime \in Nat /\ cookie' \in Tokens \cup {NoToken} /\ left' \in Nat
    BY <2>1, ClientAssumption DEF NewTokens, Cookies
  <2>3. valid' \in BOOLEAN
    BY <2>1, Zenon DEF Cookies
  <2>4. grant' = "torn" /\ EndCall(FALSE) /\ UNCHANGED <<auth, token, renew, up, cancelled>>
    BY <1>1 DEF GrantTorn, envVars
  <2>5. connected' \in BOOLEAN /\ at' \in {"ready", "dead"}
    BY <2>4 DEF EndCall
  <2>6. auth = "session"
    BY <1>1 DEF GrantTorn, IInv, TypeOK, Basic, AuthTypes
  <2>7. TypeOK'
    BY <2>2, <2>3, <2>4, <2>5, ClientAssumption
       DEF IInv, TypeOK, EndCall, Ats, Grants
  <2> QED
    BY <2>4, <2>5, <2>6, <2>7 DEF IInv, Tokened, Timed, Basic
<1>2. CASE GrantDenied
  BY <1>2, EndCallIInv DEF GrantDenied
<1>3. CASE PostFails
  BY <1>3 DEF PostFails, IInv, TypeOK, Tokened, Timed, Basic, Ats, sessionVars, envVars
<1> QED
  BY <1>1, <1>2, <1>3

LEMMA AroundIInv == IInv /\ (Tick \/ Forget \/ UpDown \/ Cancel) => IInv'
<1> SUFFICES ASSUME IInv, Tick \/ Forget \/ UpDown \/ Cancel PROVE IInv'
  OBVIOUS
<1> USE DEF IInv, TypeOK, Tokened, Timed, Basic, callVars, sessionVars, envVars
<1>1. CASE Tick
  <2>1. left' \in Nat /\ renew' \in Int /\ Timed'
    BY <1>1 DEF Tick
  <2> QED
    BY <1>1, <2>1 DEF Tick
<1>2. CASE Forget
  <2>1. valid' \in BOOLEAN
    BY <1>2, Zenon DEF Forget
  <2> QED
    BY <1>2, <2>1 DEF Forget
<1>3. CASE UpDown
  <2>1. up' \in BOOLEAN
    BY <1>3, Zenon DEF UpDown
  <2> QED
    BY <1>3, <2>1 DEF UpDown
<1>4. CASE Cancel
  <2>1. cancelled' \in BOOLEAN
    BY <1>4, Zenon DEF Cancel
  <2> QED
    BY <1>4, <2>1 DEF Cancel
<1> QED
  BY <1>1, <1>2, <1>3, <1>4

LEMMA NextIInv == IInv /\ [Next]_clientVars => IInv'
<1>1. IInv /\ UNCHANGED clientVars => IInv'
  BY DEF IInv, TypeOK, Tokened, Timed, Basic, clientVars, callVars, sessionVars, envVars
<1> QED
  BY <1>1, ClientStepIInv, GetAnswerIInv, GrantedIInv, PostAnswerIInv, AroundIInv
     DEF Next, Answer, Dead

\* The inductive invariant holds in every reachable state of the client.
THEOREM Invariance == Spec => []IInv
BY InitIInv, NextIInv, PTL DEF Spec
-----------------------------------------------------------------------------
\* Every variable keeps to its range: waits and tries have the configured limits.
THEOREM TypeCorrect == Spec => []TypeOK
BY Invariance, PTL DEF IInv

\* A request carries the token of the session in the jar, unless the last
\* authentication broke off half-way.
THEOREM RequestsMatch == Spec => []TokenOfSession
<1>1. IInv => TokenOfSession
  BY DEF IInv, Tokened, TokenOfSession
<1> QED
  BY <1>1, Invariance, PTL

\* A call on a session with a reported lifetime does not begin after its end.
THEOREM RenewsInTime == Spec => RenewedInTime
<1>1. ASSUME IInv, [Next]_clientVars, at = "ready", at' = "get", grant = "timed"
      PROVE  left > 0
  <2>1. Call
    BY <1>1
       DEF Next, ClientStep, Answer, Dead, Connect, RetryGet, RetryPost, StopWaiting,
           Answered, Unauthorized, GetFails, Refused, Granted, GrantTorn,
           GrantDenied, PostFails, Tick, Forget, UpDown, Cancel, clientVars, callVars,
           Waits
  <2>2. ~Due
    BY <1>1, <2>1 DEF Call, Authenticate
  <2>3. auth = "session"
    BY <1>1 DEF IInv, TypeOK, Basic, AuthTypes
  <2> QED
    BY <1>1, <2>2, <2>3 DEF Due, IInv, TypeOK, Timed
<1>2. IInv /\ [Next]_clientVars
        => [at = "ready" /\ at' = "get" /\ grant = "timed" => left > 0]_clientVars
  BY <1>1
<1> QED
  BY <1>2, Invariance, PTL DEF Spec, RenewedInTime
-----------------------------------------------------------------------------
(* The refinement of BoundedCalls: every step of a call lowers Outstanding. *)

PerTry == 2 * MaxRetries + 2
Budget == MaxRetries * (2 * MaxRetries + 4)

\* What the tries that are left may cost.
TriesLeft == (MaxRetries - tries) * PerTry

LEMMA Cost ==
  ASSUME NEW t \in 0..MaxRetries
  PROVE  /\ (MaxRetries - t) * PerTry \in Nat
         /\ (MaxRetries - t) * PerTry + 2 * MaxRetries <= Budget
         /\ t > 0 => (MaxRetries - (t - 1)) * PerTry = (MaxRetries - t) * PerTry + PerTry
<1> USE ClientAssumption
<1>1. \A x, y \in Nat : x * y \in Nat
  OBVIOUS
<1>2. \A x, y \in Int : (x + 1) * y = x * y + y
  OBVIOUS
<1>3. MaxRetries - t \in Nat /\ PerTry \in Nat /\ t \in Nat
  BY DEF PerTry
<1>4. \A x, y, z \in Nat : (x - y) * z = x * z - y * z
  OBVIOUS
<1>5. MaxRetries * PerTry + 2 * MaxRetries = Budget
  BY DEF PerTry, Budget
<1>6. (MaxRetries - t) * PerTry = MaxRetries * PerTry - t * PerTry
  BY <1>3, <1>4
<1>7. (MaxRetries - t) * PerTry \in Nat /\ t * PerTry \in Nat /\ MaxRetries * PerTry \in Nat
  BY <1>1, <1>3
<1>8. MaxRetries - (t - 1) = (MaxRetries - t) + 1
  BY <1>3
<1>9. (MaxRetries - (t - 1)) * PerTry = (MaxRetries - t) * PerTry + PerTry
  BY <1>2, <1>3, <1>8
<1>10. (MaxRetries - t) * PerTry + 2 * MaxRetries <= Budget
  <2> DEFINE a == (MaxRetries - t) * PerTry
             b == t * PerTry
             c == MaxRetries * PerTry
  <2>1. a \in Nat /\ b \in Nat /\ c \in Nat /\ a = c - b /\ c + 2 * MaxRetries = Budget
    BY <1>5, <1>6, <1>7
  <2> HIDE DEF a, b, c
  <2>2. a + 2 * MaxRetries <= Budget
    BY <2>1
  <2> QED
    BY <2>2 DEF a
<1> QED
  BY <1>7, <1>9, <1>10

\* Outstanding, by where the client is.
ByPlace ==
  /\ at = "get"      => Outstanding = TriesLeft + (2 * MaxRetries + 1)
  /\ at = "getWait"  => Outstanding = TriesLeft + 0
  /\ at = "post"     => Outstanding = TriesLeft + (2 * (MaxRetries - posts) + 1)
  /\ at = "postWait" => Outstanding = TriesLeft + 2 * (MaxRetries - posts)

LEMMA OutstandingAt == ByPlace
<1> DEFINE now == [get      |-> 2 * MaxRetries + 1,
                   getWait  |-> 0,
                   post     |-> 2 * (MaxRetries - posts) + 1,
                   postWait |-> 2 * (MaxRetries - posts)]
<1>1. Outstanding = TriesLeft + now[at]
  BY DEF Outstanding, TriesLeft, PerTry
<1>2. /\ now["get"] = 2 * MaxRetries + 1
      /\ now["getWait"] = 0
      /\ now["post"] = 2 * (MaxRetries - posts) + 1
      /\ now["postWait"] = 2 * (MaxRetries - posts)
  OBVIOUS
<1> HIDE DEF now
<1> QED
  BY <1>1, <1>2 DEF ByPlace

\* No tries are spent between two calls, nor by the authentication of Connect.
Fresh ==
  at \in {"new", "ready"} \/ (at \in {"post", "postWait"} /\ why = "connect")
    => tries = 0

LEMMA NextFresh == Fresh /\ [Next]_clientVars => Fresh'
<1> SUFFICES ASSUME Fresh, [Next]_clientVars PROVE Fresh'
  OBVIOUS
<1> USE DEF Fresh, Try, EndCall
<1>1. CASE ClientStep
  BY <1>1 DEF ClientStep, Connect, Call, Authenticate, RetryGet, RetryPost, StopWaiting
<1>2. CASE Answered \/ Unauthorized \/ GetFails \/ Refused
  BY <1>2 DEF Answered, Unauthorized, Deny, Authenticate, GetFails, Refused
<1>3. CASE Granted
  <2>1. Authenticated
    BY <1>3 DEF Granted
  <2> QED
    BY <1>3, <2>1 DEF Granted, Authenticated
<1>4. CASE GrantTorn \/ GrantDenied \/ PostFails
  BY <1>4 DEF GrantTorn, GrantDenied, PostFails
<1>5. CASE Tick \/ Forget \/ UpDown \/ Cancel \/ Dead \/ UNCHANGED clientVars
  BY <1>5 DEF Tick, Forget, UpDown, Cancel, Dead, clientVars, callVars
<1> QED
  BY <1>1, <1>2, <1>3, <1>4, <1>5 DEF Next, Answer

LEMMA FreshInvariance == Spec => []Fresh
<1>1. Init => Fresh
  BY DEF Init, Fresh
<1> QED
  BY <1>1, NextFresh, PTL DEF Spec

LEMMA OutstandingNext == ByPlace'
BY OutstandingAt, PTL

\* What is left of the budget, in a call that has a request or a wait out.
LEMMA Left ==
  ASSUME IInv
  PROVE  /\ MaxRetries \in Nat /\ tries \in 0..MaxRetries /\ posts \in 0..MaxRetries
         /\ Budget \in Nat /\ TriesLeft \in Nat
         /\ TriesLeft + 2 * MaxRetries <= Budget
         /\ at \in Busy => Outstanding \in Nat
<1>1. MaxRetries \in Nat /\ tries \in 0..MaxRetries /\ posts \in 0..MaxRetries
  BY ClientAssumption DEF IInv, TypeOK
<1>2. TriesLeft \in Nat /\ TriesLeft + 2 * MaxRetries <= Budget
  BY <1>1, Cost DEF TriesLeft
<1>3. \A x, y \in Nat : x * y \in Nat
  OBVIOUS
<1>4. Budget \in Nat
  BY <1>1, <1>3 DEF Budget
<1>5. 2 * (MaxRetries - posts) \in Nat
  BY <1>1
<1> QED
  BY <1>1, <1>2, <1>4, <1>5, OutstandingAt DEF ByPlace, Busy

LEMMA OneLess ==
  ASSUME NEW a, NEW b \in Nat, NEW m \in Nat, a = b + (2 * m + 2)
  PROVE  a - 1 \in Nat \ {0}
OBVIOUS

\* Another try, from wherever it is made.
LEMMA TryCosts ==
  ASSUME IInv, tries < MaxRetries, tries' = tries + 1, at' = "get"
  PROVE  Outstanding' = TriesLeft - 1 /\ TriesLeft - 1 \in Nat \ {0}
<1>1. tries' \in 0..MaxRetries /\ tries' > 0 /\ tries' - 1 = tries
  BY Left
<1>2. TriesLeft' = (MaxRetries - tries') * PerTry
  BY DEF TriesLeft, PerTry
<1>3. TriesLeft = TriesLeft' + PerTry /\ TriesLeft' \in Nat
  BY <1>1, <1>2, Cost DEF TriesLeft
<1>4. Outstanding' = TriesLeft' + (2 * MaxRetries + 1)
  BY OutstandingNext DEF ByPlace
<1>5. PerTry = 2 * MaxRetries + 2 /\ MaxRetries \in Nat \ {0}
  BY ClientAssumption DEF PerTry
<1>6. TriesLeft = TriesLeft' + (2 * MaxRetries + 2)
  BY <1>3, <1>5
<1>7. Outstanding' = TriesLeft - 1
  BY <1>3, <1>4, <1>5, <1>6
<1>8. TriesLeft' \in Nat /\ MaxRetries \in Nat
  BY <1>3, <1>5
<1> QED
  BY <1>6, <1>7, <1>8, OneLess
-----------------------------------------------------------------------------
\* A step that leaves the call alone, and the steps of a call.
LEMMA CallStays ==
  ASSUME UNCHANGED <<at, tries, posts>>
  PROVE  UNCHANGED Calls!callVars
BY DEF Calls!callVars, Busy, Outstanding

LEMMA CallEnds ==
  ASSUME at \in Busy, NEW ok \in BOOLEAN, EndCall(ok)
  PROVE  Calls!End
<1>1. at' \in {"ready", "dead"}
  BY DEF EndCall
<1> QED
  BY <1>1 DEF Calls!End, Busy

LEMMA CallSpends ==
  ASSUME at \in Busy, at' \in Busy, Outstanding \in Nat, Outstanding' \in Nat,
         Outstanding' < Outstanding
  PROVE  Calls!Spend
BY DEF Calls!Spend

LEMMA CallBegins ==
  ASSUME at \in {"new", "ready"}, at' \in Busy, Outstanding' \in 1..Budget
  PROVE  Calls!Begin
BY DEF Calls!Begin, Busy, Budget

\* Authenticate, with the tries that are left.
LEMMA AuthenticateCosts ==
  ASSUME IInv, NEW caller \in Callers, Authenticate(caller)
  PROVE  /\ at' = "post" /\ Outstanding' = TriesLeft + 2 * MaxRetries - 1
         /\ Outstanding' \in Nat \ {0}
<1>1. at' = "post" /\ posts' = 1 /\ tries' = tries
  BY DEF Authenticate
<1>2. TriesLeft' = TriesLeft
  BY <1>1 DEF TriesLeft, PerTry
<1>3. Outstanding' = TriesLeft' + (2 * (MaxRetries - posts') + 1)
  BY <1>1, OutstandingNext DEF ByPlace
<1>4. MaxRetries \in Nat \ {0}
  BY ClientAssumption
<1> QED
  BY <1>1, <1>2, <1>3, <1>4, Left

LEMMA FromReady ==
  ASSUME IInv, Fresh, at \in {"new", "ready"},
         \/ \E caller \in Callers : Authenticate(caller)
         \/ Try
  PROVE  Calls!Begin
<1>1. MaxRetries \in Nat \ {0} /\ tries = 0
  BY ClientAssumption DEF Fresh
<1>2. ASSUME NEW caller \in Callers, Authenticate(caller) PROVE Calls!Begin
  BY <1>1, <1>2, AuthenticateCosts, Left, CallBegins DEF Busy
<1>3. CASE Try
  <2>1. tries < MaxRetries
    BY <1>1
  <2>2. at' = "get" /\ tries' = tries + 1
    BY <1>3, <2>1 DEF Try
  <2> QED
    BY <1>1, <2>1, <2>2, TryCosts, Left, CallBegins DEF Busy
<1> QED
  BY <1>2, <1>3

\* After an authentication: by then the call has been in "post".
LEMMA FromPost ==
  ASSUME IInv, at = "post", Try
  PROVE  Calls!Spend \/ Calls!End
<1>1. CASE tries < MaxRetries
  <2>1. at' = "get" /\ tries' = tries + 1
    BY <1>1 DEF Try
  <2>2. Outstanding = TriesLeft + (2 * (MaxRetries - posts) + 1)
    BY OutstandingAt DEF ByPlace
  <2> QED
    BY <1>1, <2>1, <2>2, TryCosts, Left, CallSpends DEF Busy
<1>2. CASE ~(tries < MaxRetries)
  BY <1>2, CallEnds DEF Try, Busy
<1> QED
  BY <1>1, <1>2

\* A step from a request or wait to another that keeps the tries.
LEMMA SameTry ==
  ASSUME IInv, UNCHANGED tries,
         \/ at = "get" /\ at' = "getWait"
         \/ at = "post" /\ at' = "postWait" /\ UNCHANGED posts
         \/ at = "postWait" /\ at' = "post" /\ posts < MaxRetries /\ posts' = posts + 1
  PROVE  Calls!Spend
<1>1. TriesLeft' = TriesLeft
  BY DEF TriesLeft, PerTry
<1>2. ByPlace /\ ByPlace'
  BY OutstandingAt, OutstandingNext
<1>3. /\ at = "get" /\ at' = "getWait"
      => Outstanding' \in Nat /\ Outstanding' < Outstanding
  BY <1>1, <1>2, Left DEF ByPlace
<1>4. /\ at = "post" /\ at' = "postWait" /\ UNCHANGED posts
      => Outstanding' \in Nat /\ Outstanding' < Outstanding
  BY <1>1, <1>2, Left DEF ByPlace
<1>5. /\ at = "postWait" /\ at' = "post" /\ posts < MaxRetries /\ posts' = posts + 1
      => Outstanding' \in Nat /\ Outstanding' < Outstanding
  BY <1>1, <1>2, Left DEF ByPlace
<1> QED
  BY <1>3, <1>4, <1>5, Left, CallSpends DEF Busy

LEMMA ClientStepCalls ==
  ASSUME IInv, Fresh, ClientStep
  PROVE  [Calls!Next]_(Calls!callVars)
<1> USE DEF Calls!Next
<1>1. CASE Connect
  <2>1. CASE auth = "session"
    BY <1>1, <2>1, FromReady DEF Connect, Callers
  <2>2. CASE auth # "session"
    BY <1>1, <2>2 DEF Connect, Calls!callVars, Busy
  <2> QED
    BY <2>1, <2>2
<1>2. CASE Call
  BY <1>2, FromReady DEF Call, Callers
<1>3. CASE RetryGet
  <2>1. CASE tries < MaxRetries
    <3>1. Outstanding = TriesLeft
      BY <1>3, OutstandingAt, Left DEF ByPlace, RetryGet
    <3> QED
      BY <1>3, <2>1, <3>1, TryCosts, Left, CallSpends DEF RetryGet, Busy
  <2>2. CASE ~(tries < MaxRetries)
    BY <1>3, <2>2, CallEnds DEF RetryGet, Busy
  <2> QED
    BY <2>1, <2>2
<1>4. CASE RetryPost
  BY <1>4, SameTry, CallEnds DEF RetryPost, Busy
<1>5. CASE StopWaiting
  BY <1>5, CallEnds DEF StopWaiting, Waits, Busy
<1> QED
  BY <1>1, <1>2, <1>3, <1>4, <1>5 DEF ClientStep

LEMMA AnswerCalls ==
  ASSUME IInv, Answer
  PROVE  Calls!Spend \/ Calls!End
<1>1. CASE Answered \/ GetFails
  BY <1>1, CallEnds DEF Answered, GetFails, Busy
<1>2. CASE Unauthorized
  <2>1. CASE auth = "basic"
    BY <1>2, <2>1, CallEnds DEF Unauthorized, Busy
  <2>2. CASE auth # "basic"
    <3>1. Outstanding = TriesLeft + (2 * MaxRetries + 1)
      BY <1>2, OutstandingAt DEF ByPlace, Unauthorized
    <3> QED
      BY <1>2, <2>2, <3>1, AuthenticateCosts, Left, CallSpends
         DEF Unauthorized, Deny, Callers, Busy
  <2> QED
    BY <2>1, <2>2
<1>3. CASE Refused \/ PostFails
  BY <1>3, SameTry DEF Refused, PostFails
<1>4. CASE Granted
  <2>1. Authenticated /\ at = "post"
    BY <1>4 DEF Granted
  <2>2. CASE why = "connect"
    BY <2>1, <2>2 DEF Authenticated, Calls!End, Busy
  <2>3. CASE why # "connect"
    BY <2>1, <2>3, FromPost DEF Authenticated
  <2> QED
    BY <2>2, <2>3
<1>5. CASE GrantTorn \/ GrantDenied
  BY <1>5, CallEnds DEF GrantTorn, GrantDenied, Busy
<1> QED
  BY <1>1, <1>2, <1>3, <1>4, <1>5 DEF Answer

LEMMA StepRefines ==
  IInv /\ Fresh /\ [Next]_clientVars => [Calls!Next]_(Calls!callVars)
<1> SUFFICES ASSUME IInv, Fresh, [Next]_clientVars
             PROVE  [Calls!Next]_(Calls!callVars)
  OBVIOUS
<1>1. CASE ClientStep
  BY <1>1, ClientStepCalls
<1>2. CASE Answer
  BY <1>2, AnswerCalls DEF Calls!Next
<1>3. CASE Tick \/ Forget \/ UpDown \/ Cancel \/ Dead \/ UNCHANGED clientVars
  BY <1>3, CallStays DEF Tick, Forget, UpDown, Cancel, Dead, clientVars, callVars
<1> QED
  BY <1>1, <1>2, <1>3 DEF Next

\* The client keeps what BoundedCalls promises of its calls: however tries and
\* authentications nest, a call makes no more requests and waits than its budget.
THEOREM Implementation == Spec => ImplementsCalls
<1>1. Init => Calls!Init
  BY DEF Init, Calls!Init, Busy
<1> QED
  BY <1>1, StepRefines, Invariance, FreshInvariance, PTL
     DEF Spec, ImplementsCalls, Calls!Spec
=============================================================================
