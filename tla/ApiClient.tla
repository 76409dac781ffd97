------------------------------ MODULE ApiClient ------------------------------
(***************************************************************************)
(* The OneFS API client of one collector (isilon_api.go): Connect,         *)
(* Authenticate and restGet, over a cluster that may refuse connections,   *)
(* fail, forget sessions and break off its answers.                        *)
(*                                                                         *)
(* A session is known by its CSRF token.  cookie is the token of the       *)
(* session whose cookies are in the jar, token is csrfToken, header is     *)
(* what the request that is out was built with; NoToken stands for no      *)
(* session, and for one of the old style, without a token.  Times are      *)
(* relative: renew is the time to reauthTime, left the time the session    *)
(* in the jar still lives.                                                 *)
(***************************************************************************)
EXTENDS Integers

CONSTANTS
  Tokens,           \* CSRF tokens
  NoToken,
  MaxRetries,       \* max_retries
  MaxDelay,         \* maxTimeoutSecs
  Grace,            \* the minute's grace of the reauth timer
  DefaultLifetime,  \* assumed of a session that does not report its lifetime
  Lifetimes,        \* the lifetimes a cluster gives its sessions
  MaxAnswer         \* the longest an answer to an authentication is on its way

VARIABLES
  auth,         \* AuthType
  at,           \* where the client is
  why,          \* who called Authenticate last
  connected,    \* Connect has returned
  tries,        \* i of restGet
  delay,        \* retrySecs of restGet
  posts,        \* i of Authenticate
  postDelay,    \* retrySecs of Authenticate
  header,       \* X-CSRF-Token of the request
  token, renew, \* csrfToken and reauthTime
  cookie,       \* the session in the jar,
  left,         \* its life on the cluster,
  valid,        \* whether the cluster still knows it,
  grant,        \* and how it was announced
  up,           \* the cluster works
  cancelled     \* the run context is cancelled

callVars    == <<at, why, connected, tries, delay, posts, postDelay, header>>
sessionVars == <<token, renew, cookie, left, valid, grant>>
envVars     == <<up, cancelled>>
clientVars  == <<auth, callVars, sessionVars, envVars>>

ASSUME ClientAssumption ==
  /\ NoToken \notin Tokens
  /\ MaxRetries \in Nat \ {0}
  /\ MaxDelay \in Nat \ {0}
  /\ Grace \in Nat
  /\ DefaultLifetime \in Nat
  /\ Lifetimes \subseteq Nat
  /\ MaxAnswer \in Nat
  /\ MaxAnswer < Grace

AuthTypes == {"session", "basic"}
Ats       == {"new", "ready", "get", "getWait", "post", "postWait", "dead"}
Callers   == {"connect", "timer", "denied"}

\* With a lifetime above Grace, with another or none, with an answer that broke
\* off, or not at all.
Grants == {"timed", "untimed", "torn", "none"}

\* Mutant: the delay is not clamped.
Longer_NoClamp(d) == 2 * d
Longer(d) == IF 2 * d > MaxDelay THEN MaxDelay ELSE 2 * d
-----------------------------------------------------------------------------
(* The call and its requests.                                              *)

\* restGet returns.  A failure of Connect, or with the run cancelled, ends the
\* collector (main.go:235-239, 265, 297, 308).
EndCall(ok) ==
  /\ at' = IF ok \/ (connected /\ ~cancelled) THEN "ready" ELSE "dead"
  /\ connected' = (connected \/ ok)
  /\ tries' = 0
  /\ delay' = 1
  /\ posts' = 0
  /\ postDelay' = 1
  /\ header' = NoToken
  /\ UNCHANGED why

\* Mutant: the request is built once.
BuildRequest_Once == header' = IF tries = 0 THEN token' ELSE header

\* newGetRequest: the request carries the client's token.
BuildRequest == header' = token'

\* The first, or after an authentication the next, try of restGet.
Try ==
  IF tries < MaxRetries
  THEN /\ BuildRequest
       /\ at' = "get"
       /\ tries' = tries + 1
       /\ posts' = 0
       /\ postDelay' = 1
       /\ UNCHANGED <<why, connected, delay>>
  ELSE EndCall(FALSE)

\* Mutant: a try that was denied does not count.
Deny_NotCounted ==
  /\ at' = "post"
  /\ why' = "denied"
  /\ tries' = tries - 1
  /\ posts' = 1
  /\ postDelay' = 1
  /\ UNCHANGED <<connected, delay, header>>

Authenticate(caller) ==
  /\ at' = "post"
  /\ why' = caller
  /\ posts' = 1
  /\ postDelay' = 1
  /\ UNCHANGED <<connected, tries, delay, header>>

Deny == Authenticate("denied")

\* time.Now().After(c.reauthTime)
Due == auth = "session" /\ renew < 0

Connect ==
  /\ at = "new"
  /\ IF auth = "session"
     THEN Authenticate("connect")
     ELSE at' = "ready" /\ UNCHANGED <<why, connected, tries, delay, posts, postDelay, header>>
  /\ UNCHANGED <<auth, sessionVars, envVars>>

\* GetClusterConfig, GetDataSetInfo, GetPPStats or GetExportPathByID.
Call ==
  /\ at = "ready"
  /\ UNCHANGED <<auth, sessionVars, envVars>>
  /\ IF Due THEN Authenticate("timer") ELSE Try
-----------------------------------------------------------------------------
(* The cluster's answers to a GET.                                         *)

\* The cluster knows the session, and the request has its token.
Admitted == auth = "basic" \/ (valid /\ left > 0 /\ header = cookie)

Answered ==
  /\ at = "get"
  /\ ~cancelled
  /\ Admitted
  /\ EndCall(TRUE)
  /\ UNCHANGED <<auth, sessionVars, envVars>>

\* 401: of a session that is unknown to the node, or in trouble of any sort.
Unauthorized ==
  /\ at = "get"
  /\ ~cancelled
  /\ ~up \/ ~Admitted
  /\ IF auth = "basic" THEN EndCall(FALSE) ELSE Deny
  /\ UNCHANGED <<auth, sessionVars, envVars>>

\* Another status, an error that is not retried or an answer that breaks off;
\* a live session with a token that is not its own may be answered so too.
GetFails ==
  /\ at = "get"
  /\ \/ ~up \/ cancelled
     \/ auth = "session" /\ valid /\ left > 0 /\ header # cookie
  /\ EndCall(FALSE)
  /\ UNCHANGED <<auth, sessionVars, envVars>>

Refused ==
  /\ at = "get"
  /\ ~up
  /\ at' = "getWait"
  /\ UNCHANGED <<why, connected, tries, delay, posts, postDelay, header>>
  /\ UNCHANGED <<auth, sessionVars, envVars>>

\* The wait is over; it is waited after the last try as well.  A timer that fires
\* together with the cancellation has fired before it.
RetryGet ==
  /\ at = "getWait"
  /\ ~cancelled
  /\ IF tries < MaxRetries
     THEN /\ at' = "get"
          /\ tries' = tries + 1
          /\ delay' = Longer(delay)
          /\ UNCHANGED <<why, connected, posts, postDelay, header>>
     ELSE EndCall(FALSE)
  /\ UNCHANGED <<auth, sessionVars, envVars>>
-----------------------------------------------------------------------------
(* Authenticate.                                                           *)

\* Mutant: no grace.
Renewal_NoGrace(lifetime) == lifetime
Renewal(lifetime) == IF lifetime > Grace THEN lifetime - Grace ELSE lifetime

\* A session is new to the client, and has a token or none.
NewTokens == (Tokens \ {cookie, token, header}) \cup {NoToken}

\* The cluster made a session that has lived for a while when its cookies come
\* in.
Cookies(t, lifetime, age) ==
  /\ cookie' = t
  /\ valid' = TRUE
  /\ left' = IF age < lifetime THEN lifetime - age ELSE 0

\* Mutant: only an empty csrfToken is set.
Keep_FirstToken(t, lifetime) ==
  /\ token' = IF token = NoToken THEN t ELSE token
  /\ renew' = Renewal(lifetime)

\* What the client keeps of an answer.
Keep(t, lifetime) ==
  /\ token' = t
  /\ renew' = Renewal(lifetime)

\* Authenticate returns nil to its caller.
Authenticated ==
  IF why = "connect"
  THEN /\ at' = "ready"
       /\ posts' = 0
       /\ postDelay' = 1
       /\ UNCHANGED <<why, connected, tries, delay, header>>
  ELSE Try

Granted ==
  /\ at = "post"
  /\ ~cancelled
  /\ \E t \in NewTokens, lifetime \in Lifetimes, age \in 0..MaxAnswer,
        reported \in {TRUE, up} :
       /\ Cookies(t, lifetime, age)
       /\ Keep(t, IF reported THEN lifetime ELSE DefaultLifetime)
       /\ grant' = IF reported /\ lifetime > Grace THEN "timed" ELSE "untimed"
       /\ Authenticated
  /\ UNCHANGED <<auth, envVars>>

\* 201, but the body does not decode: the jar has the cookies by then.
GrantTorn ==
  /\ at = "post"
  /\ ~up \/ cancelled
  /\ \E t \in NewTokens, lifetime \in Lifetimes : Cookies(t, lifetime, 0)
  /\ grant' = "torn"
  /\ EndCall(FALSE)
  /\ UNCHANGED <<auth, token, renew, envVars>>

\* Any status but 201.
GrantDenied ==
  /\ at = "post"
  /\ ~up
  /\ EndCall(FALSE)
  /\ UNCHANGED <<auth, sessionVars, envVars>>

\* Any error is retried.
PostFails ==
  /\ at = "post"
  /\ ~up \/ cancelled
  /\ at' = "postWait"
  /\ UNCHANGED <<why, connected, tries, delay, posts, postDelay, header>>
  /\ UNCHANGED <<auth, sessionVars, envVars>>

RetryPost ==
  /\ at = "postWait"
  /\ ~cancelled
  /\ IF posts < MaxRetries
     THEN /\ at' = "post"
          /\ posts' = posts + 1
          /\ postDelay' = Longer(postDelay)
          /\ UNCHANGED <<why, connected, tries, delay, header>>
     ELSE EndCall(FALSE)
  /\ UNCHANGED <<auth, sessionVars, envVars>>

\* Mutant: the wait between two authentications does not see the context.
Waits_NotPost == {"getWait"}
Waits == {"getWait", "postWait"}

\* The select of a wait finds the context cancelled: ctx.Err() is returned.
StopWaiting ==
  /\ at \in Waits
  /\ cancelled
  /\ EndCall(FALSE)
  /\ UNCHANGED <<auth, sessionVars, envVars>>
-----------------------------------------------------------------------------
(* Around the client.                                                      *)

Tick ==
  /\ renew >= 0 \/ left > 0
  /\ renew' = IF renew >= 0 THEN renew - 1 ELSE renew
  /\ left' = IF left > 0 THEN left - 1 ELSE left
  /\ UNCHANGED <<auth, callVars, token, cookie, valid, grant, envVars>>

\* The cluster forgets the session, or the name of the cluster now leads to a
\* node that does not know it.
Forget ==
  /\ valid
  /\ valid' = FALSE
  /\ UNCHANGED <<auth, callVars, token, renew, cookie, left, grant, envVars>>

\* The cluster, or the network to it, fails or recovers.
UpDown ==
  /\ up' = ~up
  /\ UNCHANGED <<auth, callVars, sessionVars, cancelled>>

Cancel ==
  /\ cancelled' = TRUE
  /\ UNCHANGED <<auth, callVars, sessionVars, up>>

Init ==
  /\ auth \in AuthTypes
  /\ at = "new"
  /\ why = "connect"
  /\ connected = FALSE
  /\ tries = 0
  /\ delay = 1
  /\ posts = 0
  /\ postDelay = 1
  /\ header = NoToken
  /\ token = NoToken
  /\ renew = -1
  /\ cookie = NoToken
  /\ left = 0
  /\ valid = FALSE
  /\ grant = "none"
  /\ up \in BOOLEAN
  /\ cancelled = FALSE

\* Answers the cluster gives; it may leave a request unanswered, for the client
\* has no timeout.
Answer == Answered \/ Unauthorized \/ GetFails \/ Refused
            \/ Granted \/ GrantTorn \/ GrantDenied \/ PostFails

\* Steps the client takes by itself.
ClientStep == Connect \/ Call \/ RetryGet \/ RetryPost \/ StopWaiting

\* The transport gives a request up when its context is cancelled.
Interrupted == cancelled /\ (GetFails \/ PostFails)

Dead == at = "dead" /\ UNCHANGED clientVars

Next ==
  \/ ClientStep \/ Answer
  \/ Tick \/ Forget \/ UpDown \/ Cancel \/ Dead

Spec == Init /\ [][Next]_clientVars

(* The collector's goroutine and its timers run, time passes, and a request *)
(* whose context is cancelled returns.  A cluster that works for good       *)
(* answers; nothing is assumed of one that does not.                        *)
FairSpec ==
  /\ Spec
  /\ WF_clientVars(ClientStep)
  /\ WF_clientVars(Interrupted)
  /\ WF_clientVars(Tick)
  /\ WF_clientVars(up /\ Answer)
-----------------------------------------------------------------------------
(* Correctness.                                                            *)

\* Every variable keeps to its range: no wait is longer than maxTimeoutSecs, and
\* no call makes more tries than configured (isilon_api.go:213-219, 450-489).
TypeOK ==
  /\ auth \in AuthTypes
  /\ at \in Ats
  /\ why \in Callers
  /\ connected \in BOOLEAN /\ valid \in BOOLEAN
  /\ up \in BOOLEAN /\ cancelled \in BOOLEAN
  /\ tries \in 0..MaxRetries /\ delay \in 1..MaxDelay
  /\ posts \in 0..MaxRetries /\ postDelay \in 1..MaxDelay
  /\ token \in Tokens \cup {NoToken}
  /\ header \in Tokens \cup {NoToken}
  /\ cookie \in Tokens \cup {NoToken}
  /\ renew \in Int
  /\ left \in Nat
  /\ grant \in Grants

\* A request carries the token of the session in the jar, unless the last
\* authentication broke off between its cookies and its body
\* (isilon_api.go:230-263, 467, 515: the jar follows every 201 at once, the
\* client's token only a complete answer, the request only when it is built).
TokenOfSession ==
  at \in {"get", "getWait"} => header = cookie \/ grant = "torn"

\* A call whose session has a reported lifetime, longer than the grace, does not
\* begin on a session that has expired, however late the answer that granted it
\* came in within the grace (isilon_api.go:252-255, 433).
RenewedInTime ==
  [][at = "ready" /\ at' = "get" /\ grant = "timed" => left > 0]_clientVars

Busy == {"get", "getWait", "post", "postWait"}

\* The requests and waits that the call may still make, at most: those of the try
\* or the authentication it is in, and for every try that is left a request, a
\* wait, and an authentication of as many tries.
Outstanding ==
  (MaxRetries - tries) * (2 * MaxRetries + 2) +
    [get      |-> 2 * MaxRetries + 1,
     getWait  |-> 0,
     post     |-> 2 * (MaxRetries - posts) + 1,
     postWait |-> 2 * (MaxRetries - posts)][at]

Calls == INSTANCE BoundedCalls
           WITH phase     <- IF at \in Busy THEN "busy"
                             ELSE IF at = "dead" THEN "over" ELSE "idle",
                budget    <- IF at \in Busy THEN Outstanding ELSE 0,
                MaxBudget <- MaxRetries * (2 * MaxRetries + 4)

\* The client implements BoundedCalls: authentications nest in the tries of a call
\* and lead back to them, and still the number of requests of a call has a limit
\* that the configuration sets (isilon_api.go:199-220, 433-490).
ImplementsCalls == Calls!Spec

\* Every call ends, whatever the cluster does, sessions granted and denied in
\* turn included, unless the cluster never answers a request
\* (isilon_api.go:199-220, 450-490).
CallsEnd ==
  []<>(at \in {"ready", "dead"}) \/ <>[](at = "get") \/ <>[](at = "post")

\* The cancellation of the run ends the collector from every request and wait,
\* also under a cluster that never answers (isilon_api.go:212-216, 481-485).
CancelEnds == cancelled ~> at = "dead"

\* Once the cluster works, calls come to succeed again, whatever state the
\* failures have left the client in: a token that is not its session's, a session
\* the cluster has forgotten, a timer of another session.  Only a session that is
\* lost again and again while a request is out can prevent it, and a cancellation.
Recovers ==
  /\ <>[](up /\ at # "dead")
  /\ <>[][at = "get" /\ at' = "get" => (Admitted => Admitted')]_clientVars
  => []<><<Answered>>_clientVars
=============================================================================
