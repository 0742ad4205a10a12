---------------------------- MODULE RequestPacing ----------------------------
(***************************************************************************)
(* Outbound requests: retry_async and AsyncRateLimiter (core/retry.py) as  *)
(* ArxivClient (ingestion/arxiv_client/client.py) and PdfDownloader        *)
(* (ingestion/extraction/downloader.py) use them. Callers are tasks of one *)
(* event loop: a step is what a task does between two suspensions.         *)
(*                                                                         *)
(* Time is counted in ticks. The clock appears as the time since the last  *)
(* call, up to the interval (beyond it nothing depends on it), and as the  *)
(* time a sleeping task still has to wait. A task may wake up late.        *)
(***************************************************************************)
EXTENDS Naturals, SequencesExt

CONSTANTS
    Feeds,        \* callers of the arXiv client, which share its rate limiter
    Downloads,    \* callers of the PDF downloader, which has none
    Nobody,       \* owner of a free lock
    Interval,     \* min_interval_seconds, in ticks
    MaxAttempts,  \* max_retries + 1
    BaseDelay,    \* backoff before the first retry, in ticks
    MaxDelay      \* ceiling of the backoff

Callers == Feeds \cup Downloads

ASSUME PacingAssumption ==
    /\ Feeds \cap Downloads = {} /\ Nobody \notin Callers
    /\ Interval \in Nat /\ MaxAttempts \in Nat \ {0}
    /\ BaseDelay \in Nat /\ MaxDelay \in Nat

VARIABLES
    pc,       \* pc[c]: where caller c is
    attempt,  \* attempt[c]: the loop variable of retry_async
    error,    \* error[c]: the failure that c waits to retry after, or "none"
    timer,    \* timer[c]: ticks until the sleep of c is over
    lock,     \* owner of the limiter's lock
    waiters,  \* tasks that wait for the lock, in order
    elapsed,  \* ticks since _last_call, up to Interval; None counts as Interval
    quiet     \* history: ticks since a request to arXiv was sent, up to Interval

limiterVars == <<lock, waiters, elapsed, quiet>>
callVars == <<attempt, error>>
vars == <<pc, callVars, timer, limiterVars>>

Init ==
    /\ pc = [c \in Callers |-> "idle"]
    /\ attempt = [c \in Callers |-> 0]
    /\ error = [c \in Callers |-> "none"]
    /\ timer = [c \in Callers |-> 0]
    /\ lock = Nobody /\ waiters = <<>>
    /\ elapsed = Interval /\ quiet = Interval

Goto(c, step) == pc' = [pc EXCEPT ![c] = step]

-----------------------------------------------------------------------------
(* AsyncRateLimiter.acquire. *)

\* The statement after acquire hands the request to the HTTP client; nothing is
\* awaited in between.
Send(c) == Goto(c, "request") /\ elapsed' = 0 /\ quiet' = 0

Remaining == Interval - elapsed

\* Planted: the lock is released before the sleep.
OwnerWhileAsleepNobody(c) == Nobody

\* The lock is held across the sleep.
OwnerWhileAsleep(c) == c

\* The body of acquire, once c has the lock. With Interval = 0 it never sleeps,
\* like the early return of the code.
Enter(c) ==
    \/ /\ elapsed >= Interval
       /\ Send(c)
       /\ lock' = Nobody
       /\ UNCHANGED timer
    \/ /\ elapsed < Interval
       /\ timer' = [timer EXCEPT ![c] = Remaining]
       /\ lock' = OwnerWhileAsleep(c)
       /\ Goto(c, "sleeping")
       /\ UNCHANGED <<elapsed, quiet>>

\* asyncio.Lock: free, and nobody has been waiting longer.
Free == lock = Nobody /\ waiters = <<>>

Acquire(c) ==
    \/ Free /\ Enter(c) /\ UNCHANGED waiters
    \/ /\ ~Free
       /\ waiters' = Append(waiters, c)
       /\ Goto(c, "waiting")
       /\ UNCHANGED <<timer, lock, elapsed, quiet>>

\* The first waiter is woken when the lock is free.
GetLock(c) ==
    /\ pc[c] = "waiting"
    /\ lock = Nobody /\ Head(waiters) = c
    /\ waiters' = Tail(waiters)
    /\ Enter(c)
    /\ UNCHANGED callVars

WakeUp(c) ==
    /\ pc[c] = "sleeping" /\ timer[c] = 0
    /\ Send(c)
    /\ lock' = Nobody
    /\ UNCHANGED <<callVars, timer, waiters>>

-----------------------------------------------------------------------------
(* retry_async around one request. *)

\* Attempt: _request acquires the limiter first, _fetch has none.
Operation(c) ==
    \/ c \in Feeds /\ Acquire(c)
    \/ c \in Downloads /\ Goto(c, "request") /\ UNCHANGED <<timer, limiterVars>>

\* fetch_page, fetch_by_ids or download is called. (download refuses some URLs
\* before any of this.)
Call(c) ==
    /\ pc[c] = "idle"
    /\ Operation(c)
    /\ UNCHANGED callVars

\* A body, a body that is no feed or PDF, no answer at all, status 429 or 5xx,
\* any other status; a download that is refused for its size or its host.
Answers(c) == {"ok", "unusable", "timeout", "busy", "rejected"} \cup
              (IF c \in Downloads THEN {"refused"} ELSE {})

\* is_retryable of ArxivApiError and of PdfDownloadError with its subclasses: no
\* status code counts as a failure below HTTP.
IsRetryable(a) == a \in {"timeout", "busy", "refused"}

\* compute_backoff before jitter.
Backoff(n) == IF BaseDelay * 2 ^ n < MaxDelay THEN BaseDelay * 2 ^ n ELSE MaxDelay

\* Planted: one attempt more.
HasAttemptsAfterFinal(c) == attempt[c] < MaxAttempts

\* Not the final attempt.
HasAttempts(c) == attempt[c] + 1 < MaxAttempts

\* The call is over, and with it its locals.
Return(c) ==
    /\ Goto(c, "idle")
    /\ attempt' = [attempt EXCEPT ![c] = 0]
    /\ error' = [error EXCEPT ![c] = "none"]
    /\ timer' = [timer EXCEPT ![c] = 0]

\* The request ends. "unusable" is found after the retry loop, "rejected" leaves
\* it wrapped in a type that retry_on does not list.
Answer(c) ==
    /\ pc[c] = "request"
    /\ \E a \in Answers(c) :
         \/ /\ IsRetryable(a) /\ HasAttempts(c)
            /\ Goto(c, "backoff")
            /\ error' = [error EXCEPT ![c] = a]
            /\ \E delay \in 0 .. Backoff(attempt[c]) :
                 timer' = [timer EXCEPT ![c] = delay]
            /\ UNCHANGED attempt
         \/ ~(IsRetryable(a) /\ HasAttempts(c)) /\ Return(c)
    /\ UNCHANGED limiterVars

Retry(c) ==
    /\ pc[c] = "backoff" /\ timer[c] = 0
    /\ attempt' = [attempt EXCEPT ![c] = @ + 1]
    /\ error' = [error EXCEPT ![c] = "none"]
    /\ Operation(c)

\* Planted: a cancelled sleeper keeps the lock.
OwnerAfterCancelSame(c) == lock

\* async with releases the lock of a cancelled sleeper.
OwnerAfterCancel(c) == IF lock = c THEN Nobody ELSE lock

\* Planted: a cancelled waiter stays in the queue.
WaitersAfterCancelSame(c) == waiters

\* A cancelled waiter leaves the queue.
WaitersAfterCancel(c) == RemoveFirst(waiters, c)

\* The task is cancelled.
Cancel(c) ==
    /\ pc[c] # "idle"
    /\ Return(c)
    /\ lock' = OwnerAfterCancel(c)
    /\ waiters' = WaitersAfterCancel(c)
    /\ UNCHANGED <<elapsed, quiet>>

-----------------------------------------------------------------------------

Sooner(n) == IF n > 0 THEN n - 1 ELSE 0
Later(n) == IF n < Interval THEN n + 1 ELSE n

Tick ==
    /\ elapsed' = Later(elapsed)
    /\ quiet' = Later(quiet)
    /\ timer' = [c \in Callers |-> Sooner(timer[c])]
    /\ UNCHANGED <<pc, callVars, lock, waiters>>

Proceed(c) == GetLock(c) \/ WakeUp(c) \/ Answer(c) \/ Retry(c)

Next == Tick \/ \E c \in Callers : Call(c) \/ Proceed(c) \/ Cancel(c)

Spec == Init /\ [][Next]_vars

\* Timers fire, a request ends (it has a timeout), a task that can run runs.
FairSpec ==
    /\ Spec
    /\ WF_vars(Tick)
    /\ \A c \in Callers : WF_vars(Proceed(c))

-----------------------------------------------------------------------------
(* Properties. *)

TypeOK ==
    /\ pc \in [Callers -> {"idle", "waiting", "sleeping", "request", "backoff"}]
    /\ attempt \in [Callers -> 0 .. MaxAttempts - 1]
    /\ error \in [Callers -> {"none", "timeout", "busy", "refused"}]
    /\ timer \in [Callers -> Nat]
    /\ lock \in Feeds \cup {Nobody}
    /\ waiters \in Seq(Feeds)
    /\ elapsed \in 0 .. Interval
    /\ quiet \in 0 .. Interval

\* However many tasks call, retry and are cancelled at the same time, requests
\* to arXiv keep their distance: the promise for which the lock is held across
\* the sleep (core/retry.py, AsyncRateLimiter).
PacingSpec == INSTANCE Pacing
PacedRequests == PacingSpec!Spec

\* The limiter's lock is held by exactly the caller that sleeps in it, through
\* every cancellation: no two callers compute their wait from the same last
\* call, and no lock is left behind by a caller that is gone.
OwnerIsAsleep == \A c \in Callers : (lock = c) = (pc[c] = "sleeping")

\* The queue of the lock holds exactly the callers that wait for it, each once:
\* a cancelled waiter leaves no entry behind that would be woken in its place,
\* and a caller that waits is never without one.
QueueIsExact ==
    /\ IsInjective(waiters)
    /\ ToSet(waiters) = {c \in Callers : pc[c] = "waiting"}

\* The lock and its queue agree with what the callers do, whoever is cancelled
\* and whenever (asyncio.Lock under AsyncRateLimiter.acquire).
LockIsSound == OwnerIsAsleep /\ QueueIsExact

\* Every call ends, in a result, an error or its cancellation: no waiter is
\* forgotten when the task before it, or the owner of the lock, is cancelled.
EveryCallEnds == \A c \in Callers : pc[c] # "idle" ~> pc[c] = "idle"

=============================================================================
