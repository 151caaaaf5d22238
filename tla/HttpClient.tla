----------------------------- MODULE HttpClient -----------------------------
(***************************************************************************)
(* The provider client that the download threads of a run share.  A thread *)
(* takes the request lock, sleeps until a request is allowed, notes the    *)
(* time of the request and lets go of the lock; only then does it send.    *)
(* An answer that may change is asked for again, after the time the        *)
(* provider names or a growing pause.  Time passes in ticks.               *)
(***************************************************************************)
EXTENDS Naturals, FiniteSets

CONSTANTS
  Threads,
  Interval,      \* min_request_interval_seconds
  Backoff,       \* retry_backoff_seconds
  MaxRetries,
  RetryAfters,   \* the Retry-After times a provider may send
  MaxCalls,      \* bound: the calls of a thread
  NoThread

ASSUME HttpAssumption ==
  /\ Interval \in Nat /\ Backoff \in Nat /\ MaxRetries \in Nat /\ MaxCalls \in Nat
  /\ RetryAfters \subseteq Nat /\ NoThread \notin Threads

VARIABLES
  call,     \* call[t]: where the call is, its attempt, the sleep left
  holder,   \* the thread that holds the request lock
  gap,      \* ticks since the last request was allowed, up to the interval
  owed,     \* history: owed[t], ticks until the provider accepts a retry
  calls     \* calls[t]: calls made

http == <<call, holder, gap, owed, calls>>

Answered == {"returned", "refused", "unavailable"}
Idle == [at |-> "idle", attempt |-> 0, sleep |-> 0]
Minus(m, n) == IF m < n THEN 0 ELSE m - n

\* The first request need not wait.
HttpInit ==
  /\ call = [t \in Threads |-> Idle]
  /\ holder = NoThread /\ gap = Interval
  /\ owed = [t \in Threads |-> 0] /\ calls = [t \in Threads |-> 0]

GetJson(t) ==
  /\ call[t].at \in {"idle"} \cup Answered /\ calls[t] < MaxCalls
  /\ calls' = [calls EXCEPT ![t] = @ + 1]
  /\ call' = [call EXCEPT ![t] = [Idle EXCEPT !.at = "asking"]]
  /\ owed' = [owed EXCEPT ![t] = 0]
  /\ UNCHANGED <<holder, gap>>

\* Variant: The thread sleeps before it takes the lock.
LockLate(t) ==
  /\ call[t].at = "asking"
  /\ call' = [call EXCEPT ![t].at = "pacing", ![t].sleep = Minus(Interval, gap)]
  /\ UNCHANGED <<holder, gap, owed, calls>>

Lock(t) ==
  /\ call[t].at = "asking" /\ holder = NoThread
  /\ holder' = t
  /\ call' = [call EXCEPT ![t].at = "pacing", ![t].sleep = Minus(Interval, gap)]
  /\ UNCHANGED <<gap, owed, calls>>

Allow(t) ==
  /\ call[t].at = "pacing" /\ call[t].sleep = 0
  /\ call' = [call EXCEPT ![t].at = "sent"]
  /\ gap' = 0 /\ holder' = NoThread
  /\ UNCHANGED <<owed, calls>>

Return(t) ==
  /\ call[t].at = "sent"
  /\ call' = [call EXCEPT ![t].at = "returned"]
  /\ UNCHANGED <<holder, gap, owed, calls>>

\* A status below 500 other than 429, or an answer that cannot be read.
Refuse(t) ==
  /\ call[t].at = "sent"
  /\ call' = [call EXCEPT ![t].at = "refused"]
  /\ UNCHANGED <<holder, gap, owed, calls>>

\* The pause before a retry; after is empty, or holds the time the provider named.
Pause(t, after) ==
  IF after = {} THEN Backoff * (call[t].attempt + 1) ELSE CHOOSE s \in after : TRUE

LastAttempt(t) == call[t].attempt >= MaxRetries

\* 429, a server error or no connection.
Fail(t, after) ==
  /\ call[t].at = "sent"
  /\ IF LastAttempt(t)
     THEN call' = [call EXCEPT ![t].at = "unavailable"] /\ UNCHANGED owed
     ELSE /\ call' = [call EXCEPT ![t].at = "backoff", ![t].sleep = Pause(t, after)]
          /\ owed' = [owed EXCEPT ![t] = IF after = {} THEN 0 ELSE CHOOSE s \in after : TRUE]
  /\ UNCHANGED <<holder, gap, calls>>

Retry(t) ==
  /\ call[t].at = "backoff" /\ call[t].sleep = 0
  /\ call' = [call EXCEPT ![t].at = "asking", ![t].attempt = @ + 1]
  /\ UNCHANGED <<holder, gap, owed, calls>>

\* A tick that somebody waits for.
Pass ==
  /\ gap < Interval \/ \E t \in Threads : call[t].sleep > 0
  /\ gap' = IF gap < Interval THEN gap + 1 ELSE gap
  /\ call' = [t \in Threads |-> [call[t] EXCEPT !.sleep = Minus(@, 1)]]
  /\ owed' = [t \in Threads |-> Minus(owed[t], 1)]
  /\ UNCHANGED <<holder, calls>>

Answer(t) ==
  \/ Return(t) \/ Refuse(t) \/ Fail(t, {})
  \/ \E s \in RetryAfters : Fail(t, {s})

Proceed(t) == Lock(t) \/ Allow(t) \/ Answer(t) \/ Retry(t)

HttpNext == Pass \/ \E t \in Threads : GetJson(t) \/ Proceed(t)

\* Time passes, threads are scheduled and a request times out.
HttpFairness == WF_http(Pass) /\ \A t \in Threads : WF_http(Proceed(t))

------------------------------------------------------------------------------
\* Calls and counters keep their shape.
HttpTypeOK ==
  /\ \A t \in Threads :
       /\ call[t].at \in {"idle", "asking", "pacing", "sent", "backoff"} \cup Answered
       /\ call[t].attempt \in 0 .. MaxRetries
  /\ holder \in Threads \cup {NoThread} /\ gap \in 0 .. Interval

\* Requests are allowed at least the interval apart, whichever threads make them,
\* and a thread does not ask again before the time the provider named.
RequestsArePaced ==
  [][\A t \in Threads : call[t].at = "pacing" /\ call'[t].at = "sent" =>
       gap = Interval /\ owed[t] = 0]_http

\* A call is given up as unavailable only after every retry was made.
RetriesAreMade ==
  \A t \in Threads : call[t].at = "unavailable" => call[t].attempt = MaxRetries

\* Every call ends, although a thread may wait for the lock while others sleep.
CallsEnd == \A t \in Threads : call[t].at = "asking" ~> call[t].at \in Answered

\* The client: requests are paced, retries are made, and every call ends.
CallsAreServed == []HttpTypeOK /\ []RetriesAreMade /\ RequestsArePaced /\ CallsEnd
=============================================================================
