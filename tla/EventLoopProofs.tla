-------------------------- MODULE EventLoopProofs --------------------------
(***************************************************************************)
(* What TLAPS proves of the two components that live in the event loop of  *)
(* an ingestion process. RequestPacing, for any number of callers, any     *)
(* interval and any retry budget: the lock belongs to the caller that      *)
(* sleeps, its queue to those that wait, and the requests to arXiv keep    *)
(* their distance. Extraction, for any number of documents and threads:    *)
(* documents are extracted one after the other, so that whatever waits for *)
(* a thread is the first job of the current document, and the queue is     *)
(* empty while one is rendered or read; and whatever the PDF holds and OCR *)
(* makes of it, the better text is kept.                                   *)
(***************************************************************************)
EXTENDS RequestPacing, Extraction, SequenceLemmas, TLAPS

-----------------------------------------------------------------------------
(* RequestPacing. *)

Steps == {"idle", "waiting", "sleeping", "request", "backoff"}

\* Only tasks of the arXiv client wait for the lock or sleep in it.
Limited(c) == pc[c] \in {"waiting", "sleeping"} => c \in Feeds

\* The sleep of c does not end before the interval has passed.
SleepsLongEnough(c) == pc[c] = "sleeping" => elapsed + timer[c] >= Interval

PacingInv ==
    /\ pc \in [Callers -> Steps]
    /\ timer \in [Callers -> Nat]
    /\ elapsed \in 0 .. Interval
    /\ quiet = elapsed
    /\ lock \in Feeds \cup {Nobody}
    /\ OwnerIsAsleep
    /\ \A c \in Callers : Limited(c) /\ SleepsLongEnough(c)

\* What a step shows of itself outside.
Sends == quiet >= Interval /\ quiet' = 0
Passes == quiet < Interval /\ quiet' = quiet + 1
Visible == Sends \/ Passes \/ quiet' = quiet

LEMMA InitPacingInv == Init => PacingInv
BY PacingAssumption DEF Init, PacingInv, Callers, Steps, OwnerIsAsleep, Limited, SleepsLongEnough

-----------------------------------------------------------------------------
(* Steps of one caller. *)

LEMMA NobodyIsNoCaller == \A c \in Callers : c # Nobody
BY PacingAssumption DEF Callers

\* With the lock free nobody sleeps, so whoever enters is alone.
LEMMA EnterInv ==
    ASSUME PacingInv, NEW c \in Feeds, lock = Nobody, Enter(c)
    PROVE  PacingInv' /\ Visible
<1>1. c \in Callers /\ c # Nobody
  BY NobodyIsNoCaller DEF Callers
<1>2. \A d \in Callers : pc[d] # "sleeping"
  BY NobodyIsNoCaller DEF PacingInv, OwnerIsAsleep
<1>3. CASE elapsed >= Interval /\ Send(c) /\ lock' = Nobody /\ UNCHANGED timer
  <2>1. pc' = [pc EXCEPT ![c] = "request"] /\ elapsed' = 0 /\ quiet' = 0 /\ timer' = timer
    BY <1>3 DEF Send, Goto
  <2>2. pc' \in [Callers -> Steps] /\ \A d \in Callers : pc'[d] # "sleeping"
    BY <1>1, <1>2, <2>1 DEF PacingInv, Steps
  <2>3. \A d \in Callers : pc'[d] = "waiting" => pc[d] = "waiting"
    BY <1>1, <2>1 DEF PacingInv
  <2>4. OwnerIsAsleep'
    BY <1>3, <2>2, NobodyIsNoCaller DEF OwnerIsAsleep
  <2> QED
    BY <1>3, <2>1, <2>2, <2>3, <2>4, PacingAssumption
    DEF PacingInv, Limited, SleepsLongEnough, Visible, Sends
<1>4. CASE /\ elapsed < Interval
           /\ timer' = [timer EXCEPT ![c] = Remaining]
           /\ lock' = OwnerWhileAsleep(c)
           /\ Goto(c, "sleeping")
           /\ UNCHANGED <<elapsed, quiet>>
  <2>1. /\ pc' = [pc EXCEPT ![c] = "sleeping"] /\ lock' = c
        /\ timer' = [timer EXCEPT ![c] = Interval - elapsed]
        /\ elapsed' = elapsed /\ quiet' = quiet
    BY <1>4 DEF Goto, Remaining, OwnerWhileAsleep
  <2>2. elapsed \in Nat /\ Interval \in Nat /\ Interval - elapsed \in Nat
    BY <1>4, PacingAssumption DEF PacingInv
  <2>3. pc' \in [Callers -> Steps] /\ timer' \in [Callers -> Nat]
    BY <1>1, <2>1, <2>2 DEF PacingInv, Steps
  <2>4. pc'[c] = "sleeping" /\ \A d \in Callers \ {c} : pc'[d] = pc[d]
    BY <1>1, <2>1 DEF PacingInv
  <2>5. timer'[c] = Interval - elapsed
    BY <1>1, <2>1 DEF PacingInv
  <2>6. OwnerIsAsleep'
    BY <1>2, <2>1, <2>4 DEF OwnerIsAsleep
  <2>7. \A d \in Callers : (Limited(d) /\ SleepsLongEnough(d))'
    <3> TAKE d \in Callers
    <3>1. CASE d = c
      BY <2>1, <2>2, <2>5, <3>1 DEF Limited, SleepsLongEnough
    <3>2. CASE d # c
      BY <1>2, <2>4, <3>2 DEF PacingInv, Limited, SleepsLongEnough
    <3> QED
      BY <3>1, <3>2
  <2> QED
    BY <2>1, <2>3, <2>6, <2>7 DEF PacingInv, Visible
<1> QED
  BY <1>3, <1>4 DEF Enter

\* A caller that moves between places outside the sleep, and leaves the clock,
\* the lock and the other callers alone.
LEMMA AsideInv ==
    ASSUME PacingInv, NEW c \in Callers, NEW step \in Steps \ {"sleeping"},
           step = "waiting" => c \in Feeds,
           pc[c] # "sleeping", Goto(c, step),
           timer' \in [Callers -> Nat],
           \A d \in Callers \ {c} : timer'[d] = timer[d],
           UNCHANGED <<lock, elapsed, quiet>>
    PROVE  PacingInv' /\ Visible
<1>1. pc' = [pc EXCEPT ![c] = step]
  BY DEF Goto
<1>2. pc' \in [Callers -> Steps]
  BY <1>1 DEF PacingInv
<1>3. pc'[c] = step /\ \A d \in Callers \ {c} : pc'[d] = pc[d]
  BY <1>1 DEF PacingInv
<1>4. OwnerIsAsleep'
  BY <1>3 DEF PacingInv, OwnerIsAsleep
<1>5. \A d \in Callers : (Limited(d) /\ SleepsLongEnough(d))'
  <2> TAKE d \in Callers
  <2>1. CASE d = c
    BY <1>3, <2>1 DEF Limited, SleepsLongEnough
  <2>2. CASE d # c
    BY <1>3, <2>2 DEF PacingInv, Limited, SleepsLongEnough
  <2> QED
    BY <2>1, <2>2
<1> QED
  BY <1>2, <1>4, <1>5 DEF PacingInv, Visible

LEMMA OperationInv ==
    ASSUME PacingInv, NEW c \in Callers, pc[c] # "sleeping", Operation(c)
    PROVE  PacingInv' /\ Visible
<1>1. CASE c \in Feeds /\ Free /\ Enter(c) /\ UNCHANGED waiters
  BY <1>1, EnterInv DEF Free
<1>2. CASE /\ c \in Feeds /\ Goto(c, "waiting")
           /\ UNCHANGED <<timer, lock, elapsed, quiet>>
  <2>1. "waiting" \in Steps \ {"sleeping"} /\ timer' \in [Callers -> Nat]
    BY <1>2 DEF Steps, PacingInv
  <2> QED
    BY <1>2, <2>1, AsideInv
<1>3. CASE c \in Downloads /\ Goto(c, "request") /\ UNCHANGED <<timer, limiterVars>>
  <2>1. "request" \in Steps \ {"sleeping"} /\ timer' \in [Callers -> Nat]
    BY <1>3 DEF Steps, PacingInv
  <2> QED
    BY <1>3, <2>1, AsideInv DEF limiterVars
<1> QED
  BY <1>1, <1>2, <1>3 DEF Operation, Acquire

\* The sleep is over: the interval has passed, whatever delayed the waking.
LEMMA WakeUpInv ==
    ASSUME PacingInv, NEW c \in Callers, WakeUp(c)
    PROVE  PacingInv' /\ Visible
<1>1. /\ pc[c] = "sleeping" /\ timer[c] = 0 /\ lock' = Nobody /\ timer' = timer
      /\ pc' = [pc EXCEPT ![c] = "request"] /\ elapsed' = 0 /\ quiet' = 0
  BY DEF WakeUp, Send, Goto
<1>2. lock = c
  BY <1>1 DEF PacingInv, OwnerIsAsleep
<1>3. pc'[c] = "request" /\ \A d \in Callers \ {c} : pc'[d] = pc[d]
  BY <1>1 DEF PacingInv
<1>4. \A d \in Callers : pc'[d] # "sleeping"
  BY <1>2, <1>3 DEF PacingInv, OwnerIsAsleep
<1>5. pc' \in [Callers -> Steps]
  BY <1>1 DEF PacingInv, Steps
<1>6. OwnerIsAsleep'
  BY <1>1, <1>4, NobodyIsNoCaller DEF OwnerIsAsleep
<1>7. Sends
  BY <1>1, PacingAssumption DEF PacingInv, SleepsLongEnough, Sends
<1>8. \A d \in Callers : (Limited(d) /\ SleepsLongEnough(d))'
  BY <1>3, <1>4 DEF PacingInv, Limited, SleepsLongEnough
<1> QED
  BY <1>1, <1>5, <1>6, <1>7, <1>8, PacingAssumption DEF PacingInv, Visible

\* compute_backoff is only a bound here: a delay is a number of ticks.
LEMMA AnswerInv ==
    ASSUME PacingInv, NEW c \in Callers, Answer(c)
    PROVE  PacingInv' /\ Visible
<1>1. pc[c] = "request" /\ UNCHANGED <<lock, elapsed, quiet>>
  BY DEF Answer, limiterVars
<1>2. PICK step \in {"backoff", "idle"}, delay \in Nat :
        Goto(c, step) /\ timer' = [timer EXCEPT ![c] = delay]
  BY DEF Answer, Return
<1>3. /\ timer' \in [Callers -> Nat]
      /\ \A d \in Callers \ {c} : timer'[d] = timer[d]
  BY <1>2 DEF PacingInv
<1> QED
  BY <1>1, <1>2, <1>3, AsideInv DEF Steps

\* A caller that is cancelled in its sleep takes the lock with it.
LEMMA CancelInv ==
    ASSUME PacingInv, NEW c \in Callers, Cancel(c)
    PROVE  PacingInv' /\ Visible
<1>1. /\ pc' = [pc EXCEPT ![c] = "idle"] /\ timer' = [timer EXCEPT ![c] = 0]
      /\ lock' = (IF lock = c THEN Nobody ELSE lock)
      /\ elapsed' = elapsed /\ quiet' = quiet
  BY DEF Cancel, Return, Goto, OwnerAfterCancel
<1>2. pc' \in [Callers -> Steps] /\ timer' \in [Callers -> Nat]
  BY <1>1 DEF PacingInv, Steps
<1>3. /\ pc'[c] = "idle"
      /\ \A d \in Callers \ {c} : pc'[d] = pc[d] /\ timer'[d] = timer[d]
  BY <1>1 DEF PacingInv
<1>4. OwnerIsAsleep'
  <2>1. \A d \in Callers : (lock' = d) = (lock = d /\ d # c)
    BY <1>1, NobodyIsNoCaller
  <2> QED
    BY <1>3, <2>1 DEF PacingInv, OwnerIsAsleep
<1>5. \A d \in Callers : (Limited(d) /\ SleepsLongEnough(d))'
  <2> TAKE d \in Callers
  <2>1. CASE d = c
    BY <1>3, <2>1 DEF Limited, SleepsLongEnough
  <2>2. CASE d # c
    BY <1>1, <1>3, <2>2 DEF PacingInv, Limited, SleepsLongEnough
  <2> QED
    BY <2>1, <2>2
<1> QED
  BY <1>1, <1>2, <1>4, <1>5 DEF PacingInv, Visible

-----------------------------------------------------------------------------
(* Time. *)

\* A tick takes as much from the sleep as it adds to the time that has passed.
LEMMA TickInv ==
    ASSUME PacingInv, Tick
    PROVE  PacingInv' /\ Visible
<1>1. /\ elapsed' = Later(elapsed) /\ quiet' = Later(quiet) /\ pc' = pc /\ lock' = lock
      /\ timer' = [c \in Callers |-> Sooner(timer[c])]
  BY DEF Tick
<1>2. elapsed \in Nat /\ Interval \in Nat /\ elapsed <= Interval /\ quiet = elapsed
  BY PacingAssumption DEF PacingInv
<1>3. /\ elapsed' \in 0 .. Interval /\ quiet' = elapsed'
      /\ elapsed' = IF elapsed < Interval THEN elapsed + 1 ELSE Interval
  BY <1>1, <1>2 DEF Later
<1>4. timer' \in [Callers -> Nat]
  BY <1>1 DEF PacingInv, Sooner
<1>5. \A c \in Callers : SleepsLongEnough(c)'
  <2> TAKE c \in Callers
  <2>1. timer[c] \in Nat /\ timer'[c] = IF timer[c] > 0 THEN timer[c] - 1 ELSE 0
    BY <1>1 DEF PacingInv, Sooner
  <2>2. pc[c] = "sleeping" => elapsed + timer[c] >= Interval
    BY DEF PacingInv, SleepsLongEnough
  <2> QED
    BY <1>1, <1>2, <1>3, <2>1, <2>2 DEF SleepsLongEnough
<1>6. Visible
  BY <1>1, <1>2 DEF Later, Visible, Passes
<1> QED
  BY <1>1, <1>3, <1>4, <1>5, <1>6 DEF PacingInv, OwnerIsAsleep, Limited

LEMMA NextPacingInv == PacingInv /\ [Next]_vars => PacingInv' /\ Visible
<1> SUFFICES ASSUME PacingInv, [Next]_vars PROVE PacingInv' /\ Visible
  OBVIOUS
<1>1. CASE Tick
  BY <1>1, TickInv
<1>2. ASSUME NEW c \in Callers, Call(c) PROVE PacingInv' /\ Visible
  BY <1>2, OperationInv DEF Call
<1>3. ASSUME NEW c \in Callers, GetLock(c) PROVE PacingInv' /\ Visible
  <2>1. c \in Feeds
    BY <1>3 DEF GetLock, PacingInv, Limited
  <2> QED
    BY <1>3, <2>1, EnterInv DEF GetLock
<1>4. ASSUME NEW c \in Callers, WakeUp(c) PROVE PacingInv' /\ Visible
  BY <1>4, WakeUpInv
<1>5. ASSUME NEW c \in Callers, Answer(c) PROVE PacingInv' /\ Visible
  BY <1>5, AnswerInv
<1>6. ASSUME NEW c \in Callers, Retry(c) PROVE PacingInv' /\ Visible
  BY <1>6, OperationInv DEF Retry
<1>7. ASSUME NEW c \in Callers, Cancel(c) PROVE PacingInv' /\ Visible
  BY <1>7, CancelInv
<1>8. CASE UNCHANGED vars
  BY <1>8 DEF vars, callVars, limiterVars, PacingInv, OwnerIsAsleep, Limited,
      SleepsLongEnough, Visible
<1> QED
  BY <1>1, <1>2, <1>3, <1>4, <1>5, <1>6, <1>7, <1>8 DEF Next, Proceed

-----------------------------------------------------------------------------
(* The interval. *)

\* However many tasks share the limiter, requests to arXiv are never closer
\* than the interval: RequestPacing implements Pacing.
THEOREM RequestsArePaced == Spec => PacedRequests
<1>1. Init => PacingSpec!Init
  BY DEF Init, PacingSpec!Init
<1>2. PacingInv /\ [Next]_vars => [PacingSpec!Next]_quiet
  BY NextPacingInv DEF Visible, Sends, Passes, PacingSpec!Next, PacingSpec!Send, PacingSpec!Pass
<1> QED
  BY <1>1, <1>2, InitPacingInv, NextPacingInv, PTL DEF Spec, PacedRequests, PacingSpec!Spec

-----------------------------------------------------------------------------
(* The queue of the lock, and what a call remembers. *)

\* What TypeOK adds to PacingInv, with what makes it inductive: a waiter has an
\* entry to be found by, and a backoff is entered with an attempt left.
CallInv ==
    /\ waiters \in Seq(Feeds) /\ QueueIsExact
    /\ attempt \in [Callers -> 0 .. MaxAttempts - 1]
    /\ error \in [Callers -> {"none", "timeout", "busy", "refused"}]
    /\ \A c \in Callers : pc[c] = "backoff" => attempt[c] + 1 < MaxAttempts

LEMMA InitCallInv == Init => CallInv
<1> SUFFICES ASSUME Init PROVE CallInv
  OBVIOUS
<1>1. ToSet(<<>>) = {} /\ IsInjective(<<>>) /\ <<>> \in Seq(Feeds)
  BY DEF ToSet, IsInjective
<1> QED
  BY <1>1, PacingAssumption DEF Init, CallInv, QueueIsExact

\* A caller that moves, with the entry it enters, takes or leaves.
LEMMA MoveKeepsQueue ==
    ASSUME PacingInv, CallInv, NEW c \in Callers, NEW v \in Steps, Goto(c, v),
           waiters' \in Seq(Feeds), IsInjective(waiters'),
           ToSet(waiters') = IF v = "waiting" THEN ToSet(waiters) \cup {c}
                                              ELSE ToSet(waiters) \ {c}
    PROVE  QueueIsExact'
<1>1. pc'[c] = v /\ \A d \in Callers \ {c} : pc'[d] = pc[d]
  BY DEF PacingInv, Goto
<1> QED
  BY <1>1 DEF CallInv, QueueIsExact

LEMMA OperationKeepsQueue ==
    ASSUME PacingInv, CallInv, NEW c \in Callers, pc[c] # "waiting", Operation(c)
    PROVE  waiters' \in Seq(Feeds) /\ QueueIsExact'
<1>1. c \notin ToSet(waiters)
  BY DEF CallInv, QueueIsExact
<1>2. CASE \E v \in Steps \ {"waiting"} : Goto(c, v) /\ waiters' = waiters
  BY <1>1, <1>2, MoveKeepsQueue DEF CallInv, QueueIsExact
<1>3. CASE c \in Feeds /\ waiters' = Append(waiters, c) /\ Goto(c, "waiting")
  <2>1. /\ Append(waiters, c) \in Seq(Feeds) /\ IsInjective(Append(waiters, c))
        /\ ToSet(Append(waiters, c)) = ToSet(waiters) \cup {c}
    BY <1>1, <1>3, EntryAdded DEF CallInv, QueueIsExact
  <2> QED
    BY <1>3, <2>1, MoveKeepsQueue DEF Steps
<1> QED
  BY <1>2, <1>3 DEF Operation, Acquire, Enter, Send, Steps, limiterVars

\* Only attempt and error of c change, if they do, and a backoff has an attempt.
LEMMA CallInvFrom ==
    ASSUME PacingInv, CallInv, NEW c \in Callers, NEW v \in Steps, Goto(c, v),
           NEW n \in 0 .. MaxAttempts - 1, attempt' = [attempt EXCEPT ![c] = n],
           NEW e \in {"none", "timeout", "busy", "refused"}, error' = [error EXCEPT ![c] = e],
           v = "backoff" => n + 1 < MaxAttempts,
           waiters' \in Seq(Feeds), QueueIsExact'
    PROVE  CallInv'
<1>1. pc'[c] = v /\ \A d \in Callers \ {c} : pc'[d] = pc[d]
  BY DEF PacingInv, Goto
<1>2. attempt'[c] = n /\ \A d \in Callers \ {c} : attempt'[d] = attempt[d]
  BY DEF CallInv
<1>3. \A d \in Callers : pc'[d] = "backoff" => attempt'[d] + 1 < MaxAttempts
  BY <1>1, <1>2 DEF CallInv
<1> QED
  BY <1>3 DEF CallInv

LEMMA NextCallInv == PacingInv /\ CallInv /\ [Next]_vars => CallInv'
<1> SUFFICES ASSUME PacingInv, CallInv, [Next]_vars PROVE CallInv'
  OBVIOUS
<1>0. MaxAttempts \in Nat \ {0}
  BY PacingAssumption
<1>1. CASE Tick \/ UNCHANGED vars
  BY <1>1 DEF Tick, vars, callVars, limiterVars, CallInv, QueueIsExact
<1>2. ASSUME NEW c \in Callers, Operation(c), Call(c) \/ Retry(c) PROVE CallInv'
  <2>1. waiters' \in Seq(Feeds) /\ QueueIsExact'
    BY <1>2, OperationKeepsQueue DEF Call, Retry
  <2>2. PICK v \in Steps \ {"backoff"} : Goto(c, v)
    BY <1>2 DEF Operation, Acquire, Enter, Send, Steps
  <2>3. CASE Call(c)
    <3>1. attempt' = [attempt EXCEPT ![c] = attempt[c]] /\ error' = [error EXCEPT ![c] = error[c]]
      BY <2>3 DEF Call, callVars, CallInv
    <3> QED
      BY <2>1, <2>2, <3>1, CallInvFrom DEF CallInv
  <2>4. CASE Retry(c)
    <3>1. /\ attempt' = [attempt EXCEPT ![c] = attempt[c] + 1]
          /\ error' = [error EXCEPT ![c] = "none"]
          /\ attempt[c] + 1 \in 0 .. MaxAttempts - 1
      BY <1>0, <2>4 DEF Retry, CallInv
    <3> QED
      BY <2>1, <2>2, <3>1, CallInvFrom
  <2> QED
    BY <1>2, <2>3, <2>4
<1>3. ASSUME NEW c \in Callers, GetLock(c) PROVE CallInv'
  <2>1. PICK v \in Steps \ {"backoff", "waiting"} : Goto(c, v)
    BY <1>3 DEF GetLock, Enter, Send, Steps
  <2>2. pc[c] = "waiting" /\ waiters' = Tail(waiters) /\ Head(waiters) = c
    BY <1>3 DEF GetLock
  <2>3. waiters # <<>>
    BY <2>2 DEF CallInv, QueueIsExact, ToSet
  <2>4. /\ Tail(waiters) \in Seq(Feeds) /\ IsInjective(Tail(waiters))
        /\ ToSet(Tail(waiters)) = ToSet(waiters) \ {c}
    BY <2>2, <2>3, FirstEntryTaken DEF CallInv, QueueIsExact
  <2>5. waiters' \in Seq(Feeds) /\ QueueIsExact'
    BY <2>1, <2>2, <2>4, MoveKeepsQueue
  <2>6. attempt' = [attempt EXCEPT ![c] = attempt[c]] /\ error' = [error EXCEPT ![c] = error[c]]
    BY <1>3 DEF GetLock, callVars, CallInv
  <2> QED
    BY <2>1, <2>5, <2>6, CallInvFrom DEF CallInv
<1>4. ASSUME NEW c \in Callers, WakeUp(c) PROVE CallInv'
  <2>1. Goto(c, "request") /\ pc[c] = "sleeping" /\ waiters' = waiters
    BY <1>4 DEF WakeUp, Send
  <2>2. waiters' \in Seq(Feeds) /\ QueueIsExact'
    BY <2>1, MoveKeepsQueue DEF CallInv, QueueIsExact, Steps
  <2>3. attempt' = [attempt EXCEPT ![c] = attempt[c]] /\ error' = [error EXCEPT ![c] = error[c]]
    BY <1>4 DEF WakeUp, callVars, CallInv
  <2> QED
    BY <2>1, <2>2, <2>3, CallInvFrom DEF CallInv, Steps
<1>5. ASSUME NEW c \in Callers, Answer(c) PROVE CallInv'
  <2>1. pc[c] = "request" /\ waiters' = waiters
    BY <1>5 DEF Answer, limiterVars
  <2>2. PICK v \in {"backoff", "idle"}, n \in 0 .. MaxAttempts - 1,
             e \in {"none", "timeout", "busy", "refused"} :
          /\ Goto(c, v) /\ (v = "backoff" => n + 1 < MaxAttempts)
          /\ attempt' = [attempt EXCEPT ![c] = n] /\ error' = [error EXCEPT ![c] = e]
    <3>1. PICK a \in Answers(c) :
            \/ /\ IsRetryable(a) /\ HasAttempts(c)
               /\ Goto(c, "backoff")
               /\ error' = [error EXCEPT ![c] = a]
               /\ UNCHANGED attempt
            \/ Return(c)
      BY <1>5 DEF Answer
    <3>2. CASE Return(c)
      <4>1. 0 \in 0 .. MaxAttempts - 1
        BY <1>0
      <4> WITNESS "idle" \in {"backoff", "idle"}, 0 \in 0 .. MaxAttempts - 1,
                  "none" \in {"none", "timeout", "busy", "refused"}
      <4> QED
        BY <3>2 DEF Return
    <3>3. CASE /\ IsRetryable(a) /\ HasAttempts(c)
               /\ Goto(c, "backoff")
               /\ error' = [error EXCEPT ![c] = a]
               /\ UNCHANGED attempt
      <4>1. attempt' = [attempt EXCEPT ![c] = attempt[c]] /\ attempt[c] \in 0 .. MaxAttempts - 1
        BY <3>3 DEF CallInv
      <4>2. attempt[c] + 1 < MaxAttempts /\ a \in {"none", "timeout", "busy", "refused"}
        BY <3>3 DEF HasAttempts, IsRetryable
      <4> USE <4>1, <4>2
      <4> WITNESS "backoff" \in {"backoff", "idle"}, attempt[c] \in 0 .. MaxAttempts - 1,
                  a \in {"none", "timeout", "busy", "refused"}
      <4> QED
        BY <3>3
    <3> QED
      BY <3>1, <3>2, <3>3
  <2>3. waiters' \in Seq(Feeds) /\ QueueIsExact'
    BY <2>1, <2>2, MoveKeepsQueue DEF CallInv, QueueIsExact, Steps
  <2> QED
    BY <2>2, <2>3, CallInvFrom DEF Steps
<1>6. ASSUME NEW c \in Callers, Cancel(c) PROVE CallInv'
  <2>1. /\ Goto(c, "idle") /\ waiters' = RemoveFirst(waiters, c)
        /\ attempt' = [attempt EXCEPT ![c] = 0] /\ error' = [error EXCEPT ![c] = "none"]
    BY <1>6 DEF Cancel, Return, WaitersAfterCancel
  <2>2. /\ RemoveFirst(waiters, c) \in Seq(Feeds) /\ IsInjective(RemoveFirst(waiters, c))
        /\ ToSet(RemoveFirst(waiters, c)) = ToSet(waiters) \ {c}
    BY EntryRemoved DEF CallInv, QueueIsExact
  <2>3. waiters' \in Seq(Feeds) /\ QueueIsExact'
    BY <2>1, <2>2, MoveKeepsQueue DEF Steps
  <2>4. "idle" \in Steps /\ 0 \in 0 .. MaxAttempts - 1
    BY <1>0 DEF Steps
  <2> QED
    BY <2>1, <2>3, <2>4, CallInvFrom
<1>7. \A c \in Callers : Call(c) \/ Retry(c) => Operation(c)
  BY DEF Call, Retry
<1> QED
  BY <1>1, <1>2, <1>3, <1>4, <1>5, <1>6, <1>7 DEF Next, Proceed

\* Type correctness: retry_async never counts an attempt beyond its budget, and
\* only callers of the arXiv client own the lock or wait for it.
THEOREM CallsTyped == Spec => []TypeOK
<1>1. PacingInv /\ CallInv => TypeOK
  BY DEF PacingInv, CallInv, TypeOK, Steps
<1> QED
  BY <1>1, InitPacingInv, NextPacingInv, InitCallInv, NextCallInv, PTL DEF Spec

\* Whoever is cancelled, the lock of the limiter belongs to exactly the caller
\* that sleeps in it, and its queue holds exactly the callers that wait: asyncio.Lock
\* never wakes an entry whose task is gone, nor forgets one (AsyncRateLimiter.acquire).
THEOREM LockIsKept == Spec => []LockIsSound
<1>1. PacingInv /\ CallInv => LockIsSound
  BY DEF PacingInv, CallInv, LockIsSound
<1> QED
  BY <1>1, InitPacingInv, NextPacingInv, InitCallInv, NextCallInv, PTL DEF Spec

-----------------------------------------------------------------------------
(* Extraction. *)

Phases == {"waiting", "parsing", "rendering", "reading"} \cup Over

Active(d) == phase[d] \notin Over \cup {"waiting"}

\* At most one document is extracted, and only its parsing waits.
IInv ==
    /\ phase \in [Docs -> Phases]
    /\ \A d, e \in Docs : Active(d) /\ Active(e) => d = e
    /\ queue # <<>> => \E d \in Docs : queue = <<d>> /\ phase[d] = "parsing" /\ d \notin running
    /\ \A d \in running : d \in Docs /\ phase[d] # "waiting"
    /\ TimerMeasuresOcr

LEMMA IInvInit == ASSUME ExtractionInit PROVE IInv
BY DEF ExtractionInit, IInv, Phases, Over, Active, TimerMeasuresOcr

\* No other document is active while d is.
LEMMA OthersRest ==
    ASSUME IInv, NEW d \in Docs, Active(d)
    PROVE  /\ \A e \in Docs \ {d} : phase[e] \in Over \cup {"waiting"}
           /\ queue # <<>> => queue = <<d>> /\ phase[d] = "parsing" /\ d \notin running
BY DEF IInv, Active, Over

\* A step of the active document d that ends its extraction.
LEMMA OverKeepsIInv ==
    ASSUME IInv, NEW d \in Docs, Active(d), queue' = <<>>, running' \subseteq running,
           NEW v \in Over, Set(phase, d, v)
    PROVE  IInv'
<1>1. phase' \in [Docs -> Phases] /\ phase'[d] = v
      /\ \A e \in Docs \ {d} : phase'[e] = phase[e]
  BY DEF IInv, Set, Phases, Over
<1>2. \A e \in Docs : ~Active(e)'
  BY <1>1, OthersRest DEF Active, Over
<1> QED BY <1>1, <1>2 DEF IInv, Active, TimerMeasuresOcr, Over

\* A step of the active document d that submits its next job.
LEMMA NextJobKeepsIInv ==
    ASSUME IInv, NEW d \in Docs, Active(d), d \in running, UNCHANGED pool,
           NEW v \in {"rendering", "reading"}, Set(phase, d, v)
    PROVE  IInv'
<1>1. phase' \in [Docs -> Phases] /\ phase'[d] = v
      /\ \A e \in Docs \ {d} : phase'[e] = phase[e]
  BY DEF IInv, Set, Phases
<1>2. queue' = <<>> /\ running' = running
  BY OthersRest DEF pool
<1>3. \A e \in Docs \ {d} : ~Active(e)'
  BY <1>1, OthersRest DEF Active, Over
<1> QED BY <1>1, <1>2, <1>3 DEF IInv, Active, TimerMeasuresOcr, Over

LEMMA BeginKeepsIInv ==
    ASSUME IInv, NEW d \in Docs, Begin(d)
    PROVE  IInv'
<1>1. phase' \in [Docs -> Phases] /\ phase'[d] = "parsing"
      /\ \A e \in Docs \ {d} : phase'[e] = phase[e]
  BY DEF IInv, Begin, Set, Phases
<1>2. \A e \in Docs : ~Active(e) BY DEF Begin, Idle, Active
<1>3. queue = <<>> BY <1>2 DEF IInv, Active, Over
<1>4. \A e \in Docs \ {d} : ~Active(e)' BY <1>1, <1>2 DEF Active
<1>5. d \notin running BY DEF IInv, Begin
<1>6. \/ queue' = <<>> /\ running' = running \cup {d}
      \/ queue' = <<d>> /\ running' = running
  BY <1>3 DEF Begin, Submitted
<1> QED BY <1>1, <1>4, <1>5, <1>6 DEF IInv, Active, TimerMeasuresOcr, Over

\* A thread whose document is over takes the job of the one that waits.
LEMMA AbandonedKeepsIInv ==
    ASSUME IInv, NEW d \in Docs, AbandonedEnds(d)
    PROVE  IInv'
<1>1. phase' = phase /\ phase[d] \in Over /\ Ended(d) BY DEF AbandonedEnds
<1>2. CASE queue = <<>>
  <2>1. queue' = <<>> /\ running' = running \ {d} BY <1>1, <1>2 DEF Ended
  <2> QED BY <1>1, <2>1 DEF IInv, Active, TimerMeasuresOcr, Over
<1>3. CASE queue # <<>>
  <2>1. PICK e \in Docs : queue = <<e>> /\ phase[e] = "parsing" BY <1>3 DEF IInv
  <2>2. queue' = <<>> /\ running' = (running \ {d}) \cup {e} BY <1>1, <2>1 DEF Ended
  <2> QED BY <1>1, <2>1, <2>2 DEF IInv, Active, TimerMeasuresOcr, Over
<1> QED BY <1>2, <1>3

LEMMA JobKeepsIInv ==
    ASSUME IInv, NEW d \in Docs, JobEnds(d)
    PROVE  IInv'
<1>1. CASE ParseFails(d) \/ RenderFails(d) \/ OcrFails(d) \/ OcrBreaks(d)
           \/ \E p \in Readings : OcrEnds(d, [i \in 1..Seen(d) |-> p])
  <2>1. Active(d) /\ d \in running /\ Ended(d)
        /\ \E v \in Over : Set(phase, d, v)
    BY <1>1 DEF ParseFails, RenderFails, OcrFails, OcrBreaks, OcrEnds, Active, Over, Raise, FallBack,
                AnswerNative, AnswerOcr
  <2>2. queue = <<>> BY <2>1, OthersRest
  <2>3. queue' = <<>> /\ running' \subseteq running BY <2>1, <2>2 DEF Ended
  <2> QED BY <2>1, <2>3, OverKeepsIInv DEF Over
<1>2. CASE RenderEnds(d)
  <2>1. Active(d) /\ d \in running /\ EndedAndSubmitted(d) /\ Set(phase, d, "reading")
    BY <1>2 DEF RenderEnds, Active, Over
  <2>2. UNCHANGED pool BY <2>1, OthersRest DEF EndedAndSubmitted
  <2> QED BY <2>1, <2>2, NextJobKeepsIInv
<1>3. ASSUME NEW pages \in Pdfs, ParseEnds(d, pages) PROVE IInv'
  <2>1. Active(d) /\ d \in running BY <1>3 DEF ParseEnds, Active, Over
  <2>2. queue = <<>> BY <2>1, OthersRest
  <2>3. CASE Set(phase, d, "rendering") /\ EndedAndSubmitted(d)
    <3>1. UNCHANGED pool BY <2>2, <2>3 DEF EndedAndSubmitted
    <3> QED BY <2>1, <2>3, <3>1, NextJobKeepsIInv
  <2>4. CASE Set(phase, d, "answered") /\ Ended(d)
    <3>1. queue' = <<>> /\ running' \subseteq running BY <2>2, <2>4 DEF Ended
    <3> QED BY <2>1, <2>4, <3>1, OverKeepsIInv DEF Over
  <2> QED BY <1>3, <2>3, <2>4 DEF ParseEnds, AnswerNative
<1> QED BY <1>1, <1>2, <1>3, AbandonedKeepsIInv DEF JobEnds

\* The timeout finds the queue empty: its job has a thread and keeps it.
LEMMA TimeoutKeepsIInv ==
    ASSUME IInv, NEW d \in Docs, OcrTimesOut(d)
    PROVE  IInv'
<1>1. Active(d) /\ phase[d] = "reading" BY DEF OcrTimesOut, Active, Over
<1>2. queue = <<>> BY <1>1, OthersRest
<1>3. queue' = <<>> /\ running' = running BY <1>2 DEF OcrTimesOut, Cancelled
<1>4. Set(phase, d, "answered") BY DEF OcrTimesOut, FallBack, AnswerNative
<1> QED BY <1>1, <1>3, <1>4, OverKeepsIInv DEF Over

\* No timer of OCR runs while the document waits for a thread.
THEOREM OcrNeverQueues == ExtractionSpec => []TimerMeasuresOcr
<1>1. ExtractionInit => IInv BY IInvInit
<1>2. IInv /\ [ExtractionNext]_extractionVars => IInv'
  <2> SUFFICES ASSUME IInv, [ExtractionNext]_extractionVars PROVE IInv' OBVIOUS
  <2>1. CASE UNCHANGED extractionVars
    BY <2>1 DEF extractionVars, pool, IInv, Active, TimerMeasuresOcr
  <2>2. ASSUME NEW d \in Docs, Begin(d) \/ JobEnds(d) \/ OcrTimesOut(d) PROVE IInv'
    BY <2>2, BeginKeepsIInv, JobKeepsIInv, TimeoutKeepsIInv
  <2> QED BY <2>1, <2>2 DEF ExtractionNext
<1>3. IInv => TimerMeasuresOcr BY DEF IInv
<1> QED BY <1>1, <1>2, <1>3, PTL DEF ExtractionSpec

-----------------------------------------------------------------------------
(* The texts of Extraction and their scores. *)

\* The measures of the text up to each page.
IsWholeRun(h, pages) ==
    /\ h \in [0 .. Len(pages) -> Measures]
    /\ h[0] = BlankPage /\ Whole(pages) = h[Len(pages)]

LEMMA TotalTyped ==
    ASSUME NEW t \in Measures, NEW p \in Measures
    PROVE  Page(t.chars + p.chars, t.letters + p.letters,
                t.bad + p.bad, t.words + p.words, t.spaces + p.spaces) \in Measures
<1>1. /\ t.chars \in Nat /\ t.letters \in Nat /\ t.bad \in Nat /\ t.words \in Nat
      /\ p.chars \in Nat /\ p.letters \in Nat /\ p.bad \in Nat /\ p.words \in Nat
      /\ t.spaces \in Nat /\ p.spaces \in Nat
  BY DEF Measures
<1>2. /\ t.chars + p.chars \in Nat /\ t.letters + p.letters \in Nat
      /\ t.bad + p.bad \in Nat /\ t.words + p.words \in Nat
      /\ t.spaces + p.spaces \in Nat
  BY <1>1
<1> QED
  BY <1>2 DEF Page, Measures

LEMMA WholeRuns ==
    ASSUME NEW s \in Seq(Measures)
    PROVE  \E h : IsWholeRun(h, s)
<1> DEFINE n == Len(s)
           Op(t, p) == Page(t.chars + p.chars, t.letters + p.letters,
                            t.bad + p.bad, t.words + p.words, t.spaces + p.spaces)
           step == [i \in 1 .. n |-> [t \in Measures |-> Op(t, s[i])]]
           it == CHOOSE f : f = [t \in SUBSET (1 .. n) |->
                                   IF t = {} THEN BlankPage ELSE Op(f[t \ {Max(t)}], s[Max(t)])]
<1>1. n \in Nat /\ DOMAIN s = 1 .. n /\ BlankPage \in Measures
  BY DEF BlankPage, Page, Measures
<1>2. IsStep(step, Measures, n)
      /\ \A i \in 1 .. n, t \in Measures : step[i][t] = Op(t, s[i])
  <2>1. ASSUME NEW i \in 1 .. n, NEW t \in Measures PROVE Op(t, s[i]) \in Measures
    <3>1. s[i] \in Measures
      BY <1>1
    <3> QED
      BY <3>1, TotalTyped
  <2> HIDE DEF Op
  <2> QED
    BY <1>1, <2>1 DEF IsStep
<1>3. \A t \in SUBSET (1 .. n) : t # {} => Max(t) \in 1 .. n /\ t \ {Max(t)} \in SUBSET (1 .. n)
  BY <1>1, MaxOfPositions
<1>4. it = [t \in SUBSET (1 .. n) |->
              IF t = {} THEN BlankPage ELSE Op(it[t \ {Max(t)}], s[Max(t)])]
  <2>1. PICK f : f \in [SUBSET (1 .. n) -> Measures] /\ Iterates(f, step, BlankPage, Measures, n)
    <3> HIDE DEF step, n, Op
    <3> QED
      BY <1>1, <1>2, IterationExists
  <2>2. f = [t \in SUBSET (1 .. n) |->
               IF t = {} THEN BlankPage ELSE Op(f[t \ {Max(t)}], s[Max(t)])]
    <3> HIDE DEF step, n, Op
    <3> QED
      BY <2>1, <1>2, <1>3 DEF Iterates
  <2> QED
    BY <2>2
<1>5. Whole(s) = it[1 .. n]
  BY <1>1 DEF Whole, FoldLeft, MapThenFoldSet
<1> HIDE DEF step, it, n, Op
<1>6. Iterates(it, step, BlankPage, Measures, n)
  BY <1>2, <1>3, <1>4 DEF Iterates
<1>7. PICK h : IsRun(h, step, BlankPage, Measures, n, it[1 .. n])
  BY <1>1, <1>2, <1>6, IterationRuns
<1> QED
  BY <1>5, <1>7 DEF IsRun, n, IsWholeRun

LEMMA WholeTyped ==
    ASSUME NEW pages \in Seq(Measures)
    PROVE  Whole(pages) \in Measures
<1>1. PICK h : IsWholeRun(h, pages)
  BY WholeRuns
<1>2. Len(pages) \in 0 .. Len(pages)
  OBVIOUS
<1> QED
  BY <1>1, <1>2 DEF IsWholeRun

Thousandths == 0 .. 1000

LEMMA ScaledInRange ==
    ASSUME NEW value \in Int, NEW low \in Int, NEW high \in Int
    PROVE  Scaled(value, low, high) \in Thousandths
<1>1. CASE low < value /\ value < high
  <2> DEFINE d == high - low
             a == value - low
  <2>1. a \in Nat /\ d \in Nat \ {0} /\ a <= d
    BY <1>1
  <2>2. Scaled(value, low, high) = (a * 1000) \div d
    BY <1>1 DEF Scaled
  <2> HIDE DEF a, d
  <2>3. (a * 1000) \div d \in 0 .. 1000
    BY <2>1
  <2> QED
    BY <2>2, <2>3 DEF Thousandths
<1> QED
  BY <1>1 DEF Scaled, Thousandths

LEMMA PartsInRange ==
    ASSUME NEW t \in Measures, NEW count \in Nat
    PROVE  /\ Density(t, count) \in Thousandths
           /\ Letters(t) \in Thousandths
           /\ WordShape(t) \in Thousandths
<1>1. t.chars \in Int /\ t.letters \in Int
  BY DEF Measures
<1>2. Density(t, count) \in Thousandths
  <2>1. PICK v \in Int, low \in Int, high \in Int :
          v = t.chars /\ low = 100 * count /\ high = 800 * count
    BY <1>1
  <2>2. Density(t, count) = Scaled(v, low, high)
    BY <2>1 DEF Density
  <2>3. Scaled(v, low, high) \in Thousandths
    BY ScaledInRange
  <2> QED
    BY <2>2, <2>3
<1>3. Letters(t) \in Thousandths
  <2>1. PICK v \in Int, low \in Int, high \in Int :
          v = 100 * t.letters /\ low = 55 * t.chars /\ high = 70 * t.chars
    BY <1>1
  <2>2. Letters(t) = Scaled(v, low, high)
    BY <2>1 DEF Letters
  <2>3. Scaled(v, low, high) \in Thousandths
    BY ScaledInRange
  <2> QED
    BY <2>2, <2>3
<1> QED
  BY <1>2, <1>3 DEF WordShape, Thousandths

\* A score is a share, and a text without characters has none.
LEMMA ScoreInRange ==
    ASSUME NEW pages \in Seq(Measures), NEW count \in Nat
    PROVE  /\ Score(pages, count) \in Nat
           /\ IsBlank(pages) => Score(pages, count) = 0
<1> DEFINE t == Whole(pages)
           structure == 6 * Density(t, count) + 4 * WordShape(t)
           legible == (Letters(t) * structure) \div 1000
<1>1. t \in Measures
  BY WholeTyped
<1>2. Score(pages, count) = IF t.chars = 0 THEN 0
                            ELSE IF Decoded(t) THEN legible ELSE legible \div 4
  BY DEF Score
<1>3. IsBlank(pages) <=> t.chars = 0
  BY DEF IsBlank
<1> HIDE DEF t
<1>4. PICK d \in Thousandths, l \in Thousandths, w \in Thousandths :
        d = Density(t, count) /\ l = Letters(t) /\ w = WordShape(t)
  BY <1>1, PartsInRange
<1>5. legible \in Nat
  <2>1. PICK b \in Nat : b = 6 * d + 4 * w
    BY DEF Thousandths
  <2>2. PICK product \in Nat : product = l * b
    BY SMT DEF Thousandths
  <2>3. product \div 1000 \in Nat
    BY SMT
  <2>4. legible = product \div 1000
    BY <1>4, <2>1, <2>2
  <2> HIDE DEF legible
  <2> QED
    BY <2>3, <2>4
<1> HIDE DEF legible
<1>6. legible \div 4 \in Nat
  BY <1>5, SMT
<1> QED
  BY <1>2, <1>3, <1>5, <1>6

LEMMA EmptyIsBlank == IsBlank(<<>>) /\ Score(<<>>, 0) = 0
<1>1. <<>> \in Seq(Measures) /\ Len(<<>>) = 0
  OBVIOUS
<1>2. PICK h : IsWholeRun(h, <<>>)
  BY <1>1, WholeRuns
<1>3. Whole(<<>>) = BlankPage
  BY <1>1, <1>2 DEF IsWholeRun
<1>4. IsBlank(<<>>)
  BY <1>3 DEF IsBlank, BlankPage, Page
<1> QED
  BY <1>1, <1>4, ScoreInRange

Results == [method : {"unknown", "none", "pymupdf", "ocr"}, text : Seq(Measures)]

\* The texts that there are of a document before it is over: none before it is
\* parsed, and never a reading or an answer.
Texts ==
    /\ phase \in [Docs -> Phases]
    /\ native \in [Docs -> Seq(Measures)] /\ reading \in [Docs -> Seq(Measures)]
    /\ answer \in [Docs -> Results]
    /\ \A d \in Docs :
          /\ phase[d] \notin Over => reading[d] = <<>> /\ answer[d] = NoAnswer
          /\ phase[d] \in {"waiting", "parsing"} => native[d] = <<>>

\* What is kept of a document is as good as its text layer and its reading.
KeepsBest(a, layer, read) ==
    LET best == Score(a.text, Len(a.text))
    IN /\ best >= Score(layer, Len(layer))
       /\ best >= Score(read, Len(read))
       /\ IsBlank(a.text) => a.method # "ocr" /\ IsBlank(layer)

LEMMA TextsInit == ASSUME ExtractionInit PROVE Texts
<1>1. <<>> \in Seq(Measures)
  OBVIOUS
<1>2. NoAnswer \in Results
  BY <1>1 DEF NoAnswer, Results
<1> QED
  BY <1>1, <1>2 DEF ExtractionInit, Texts, Phases

\* The answer with the text layer, of pages or of what was read before.
LEMMA NativeIsBest ==
    ASSUME Texts, NEW d \in Docs, NEW pages \in Seq(Measures), AnswerNative(d, pages)
    PROVE  /\ answer' \in [Docs -> Results] /\ KeepsBest(answer'[d], pages, <<>>)
           /\ phase' \in [Docs -> Phases] /\ phase'[d] = "answered"
           /\ \A e \in Docs \ {d} : phase'[e] = phase[e] /\ answer'[e] = answer[e]
<1> DEFINE a == [method |-> IF IsBlank(pages) THEN "none" ELSE "pymupdf", text |-> pages]
<1>1. a \in Results /\ a.text = pages /\ a.method # "ocr"
  BY DEF Results
<1>2. /\ answer' = [answer EXCEPT ![d] = a]
      /\ phase' = [phase EXCEPT ![d] = "answered"]
  BY DEF AnswerNative, Set
<1> HIDE DEF a
<1>3. /\ answer' \in [Docs -> Results] /\ answer'[d] = a
      /\ phase' \in [Docs -> Phases] /\ phase'[d] = "answered"
      /\ \A e \in Docs \ {d} : phase'[e] = phase[e] /\ answer'[e] = answer[e]
  BY <1>1, <1>2 DEF Texts, Phases, Over
<1>4. PICK n \in Nat : n = Score(pages, Len(pages))
  <2>1. Len(pages) \in Nat
    OBVIOUS
  <2> QED
    BY <2>1, ScoreInRange
<1>5. Len(<<>>) = 0 /\ Score(<<>>, 0) = 0
  BY EmptyIsBlank
<1>6. KeepsBest(a, pages, <<>>)
  BY <1>1, <1>4, <1>5 DEF KeepsBest
<1> QED
  BY <1>3, <1>6

\* The reading is the answer when it helps: it is not blank then.
LEMMA ReadingIsBest ==
    ASSUME Texts, NEW d \in Docs, NEW pages \in Seq(Measures), Helps(d, pages),
           AnswerOcr(d, pages)
    PROVE  /\ answer' \in [Docs -> Results] /\ KeepsBest(answer'[d], native[d], pages)
           /\ phase' \in [Docs -> Phases] /\ phase'[d] = "answered"
           /\ \A e \in Docs \ {d} : phase'[e] = phase[e] /\ answer'[e] = answer[e]
<1> DEFINE a == [method |-> "ocr", text |-> pages]
<1>1. a \in Results /\ a.text = pages
  BY DEF Results
<1>2. /\ answer' = [answer EXCEPT ![d] = a]
      /\ phase' = [phase EXCEPT ![d] = "answered"]
  BY DEF AnswerOcr, Set
<1> HIDE DEF a
<1>3. /\ answer' \in [Docs -> Results] /\ answer'[d] = a
      /\ phase' \in [Docs -> Phases] /\ phase'[d] = "answered"
      /\ \A e \in Docs \ {d} : phase'[e] = phase[e] /\ answer'[e] = answer[e]
  BY <1>1, <1>2 DEF Texts, Phases, Over
<1>4. native[d] \in Seq(Measures) /\ Len(native[d]) \in Nat /\ Len(pages) \in Nat
  BY DEF Texts
<1>5. PICK n \in Nat, m \in Nat :
        n = Score(pages, Len(pages)) /\ m = Score(native[d], Len(native[d]))
  BY <1>4, ScoreInRange
<1>6. n > m
  BY <1>5 DEF Helps
<1>7. ~IsBlank(pages)
  BY <1>4, <1>5, <1>6, ScoreInRange
<1>8. KeepsBest(a, native[d], pages)
  BY <1>1, <1>5, <1>6, <1>7 DEF KeepsBest
<1> QED
  BY <1>3, <1>8

\* The text layer is the answer when the reading does not help.
LEMMA LayerIsBest ==
    ASSUME Texts, NEW d \in Docs, NEW pages \in Seq(Measures), ~Helps(d, pages),
           AnswerNative(d, native[d])
    PROVE  KeepsBest(answer'[d], native[d], pages)
<1>1. native[d] \in Seq(Measures) /\ Len(native[d]) \in Nat /\ Len(pages) \in Nat
  BY DEF Texts
<1>2. KeepsBest(answer'[d], native[d], <<>>)
  <2>1. PICK layer \in Seq(Measures) : layer = native[d]
    BY <1>1
  <2>2. AnswerNative(d, layer)
    BY <2>1 DEF AnswerNative
  <2>3. KeepsBest(answer'[d], layer, <<>>)
    BY <2>2, NativeIsBest
  <2> QED
    BY <2>1, <2>3
<1>3. answer'[d].text = native[d]
  BY DEF AnswerNative, Set, Texts
<1>4. PICK n \in Nat, m \in Nat :
        n = Score(pages, Len(pages)) /\ m = Score(native[d], Len(native[d]))
  BY <1>1, ScoreInRange
<1>5. m >= n
  BY <1>4 DEF Helps
<1> QED
  BY <1>2, <1>3, <1>4, <1>5 DEF KeepsBest

\* A document without an answer loses nothing when it has no text either.
LEMMA NoTextIsBest == KeepsBest(NoAnswer, <<>>, <<>>)
<1>1. PICK n \in Nat : n = Score(<<>>, 0)
  BY EmptyIsBlank
<1>2. NoAnswer.text = <<>> /\ NoAnswer.method # "ocr" /\ Len(<<>>) = 0
  BY DEF NoAnswer
<1> QED
  BY <1>1, <1>2, EmptyIsBlank DEF KeepsBest

\* What a step of the document d does to the texts.
Serves(d) ==
    /\ Texts'
    /\ \A e \in Docs \ {d} : phase'[e] = phase[e]
    /\ phase[d] \notin Over \cup {"rendering"} /\ phase'[d] \in Over \ {"broken"} =>
          KeepsBest(answer'[d], native'[d], reading'[d])

\* A step of d that leaves the answers alone.
LEMMA PhaseServes ==
    ASSUME Texts, NEW d \in Docs, NEW v \in Phases, Set(phase, d, v),
           UNCHANGED <<native, reading, answer>>,
           phase[d] \notin Over, v \in {"waiting", "parsing"} => phase[d] = "waiting",
           v \in Over \ {"broken"} => phase[d] \in {"parsing", "rendering"}
    PROVE  Serves(d)
<1>1. /\ phase' \in [Docs -> Phases] /\ phase'[d] = v
      /\ \A e \in Docs \ {d} : phase'[e] = phase[e]
  BY DEF Texts, Set
<1>2. Texts'
  BY <1>1 DEF Texts
<1>3. ASSUME phase[d] # "rendering", phase'[d] \in Over \ {"broken"}
      PROVE  KeepsBest(answer'[d], native'[d], reading'[d])
  <2>1. answer'[d] = NoAnswer /\ native'[d] = <<>> /\ reading'[d] = <<>>
    BY <1>1, <1>3 DEF Texts
  <2> QED
    BY <2>1, NoTextIsBest
<1> QED
  BY <1>1, <1>2, <1>3 DEF Serves

\* An answer of d that is the best of what was read.
LEMMA AnswerServes ==
    ASSUME Texts, NEW d \in Docs, answer' \in [Docs -> Results],
           phase' \in [Docs -> Phases], phase'[d] = "answered",
           \A e \in Docs \ {d} : phase'[e] = phase[e] /\ answer'[e] = answer[e],
           native' \in [Docs -> Seq(Measures)], reading' \in [Docs -> Seq(Measures)],
           \A e \in Docs \ {d} : native'[e] = native[e] /\ reading'[e] = reading[e],
           KeepsBest(answer'[d], native'[d], reading'[d])
    PROVE  Serves(d)
<1>1. ASSUME NEW e \in Docs
      PROVE  /\ phase'[e] \notin Over => reading'[e] = <<>> /\ answer'[e] = NoAnswer
             /\ phase'[e] \in {"waiting", "parsing"} => native'[e] = <<>>
  BY DEF Texts, Over
<1> QED
  BY <1>1 DEF Serves, Texts

\* The text layer is the answer: there is no reading.
LEMMA FallBackServes ==
    ASSUME Texts, NEW d \in Docs, phase[d] = "reading", FallBack(d),
           UNCHANGED <<native, reading>>
    PROVE  Serves(d)
<1>1. PICK layer \in Seq(Measures) : layer = native[d]
  BY DEF Texts
<1>2. AnswerNative(d, layer)
  BY <1>1 DEF FallBack, AnswerNative
<1>3. /\ answer' \in [Docs -> Results] /\ KeepsBest(answer'[d], layer, <<>>)
      /\ phase' \in [Docs -> Phases] /\ phase'[d] = "answered"
      /\ \A e \in Docs \ {d} : phase'[e] = phase[e] /\ answer'[e] = answer[e]
  BY <1>2, NativeIsBest
<1>4. native' = native /\ reading' = reading /\ native'[d] = layer /\ reading'[d] = <<>>
  BY <1>1 DEF Texts, Over
<1>5. native' \in [Docs -> Seq(Measures)] /\ reading' \in [Docs -> Seq(Measures)]
  BY <1>4 DEF Texts
<1> QED
  BY <1>3, <1>4, <1>5, AnswerServes

LEMMA JobServes ==
    ASSUME Texts, NEW d \in Docs, JobEnds(d)
    PROVE  Serves(d)
<1>1. CASE ParseFails(d) \/ RenderFails(d)
  <2>1. Set(phase, d, "failed") /\ UNCHANGED <<native, reading, answer>>
        /\ phase[d] \in {"parsing", "rendering"}
    BY <1>1 DEF ParseFails, RenderFails, Raise
  <2> QED
    BY <2>1, PhaseServes DEF Phases, Over
<1>2. CASE RenderEnds(d)
  <2>1. Set(phase, d, "reading") /\ UNCHANGED <<native, reading, answer>>
        /\ phase[d] = "rendering"
    BY <1>2 DEF RenderEnds
  <2> QED
    BY <2>1, PhaseServes DEF Phases, Over
<1>3. ASSUME NEW pages \in Pdfs, ParseEnds(d, pages) PROVE Serves(d)
  <2>1. /\ pages \in Seq(Measures) /\ phase[d] = "parsing"
        /\ native' = [native EXCEPT ![d] = pages] /\ reading' = reading
        /\ \/ Set(phase, d, "rendering") /\ answer' = answer
           \/ AnswerNative(d, pages)
    BY <1>3, ExtractionAssumption DEF ParseEnds, Set
  <2>2. /\ native' \in [Docs -> Seq(Measures)] /\ native'[d] = pages /\ reading'[d] = <<>>
        /\ reading' \in [Docs -> Seq(Measures)]
        /\ \A e \in Docs \ {d} : native'[e] = native[e] /\ reading'[e] = reading[e]
    BY <2>1 DEF Texts, Over
  <2>3. CASE Set(phase, d, "rendering") /\ answer' = answer
    <3>1. /\ phase' \in [Docs -> Phases] /\ phase'[d] = "rendering"
          /\ \A e \in Docs \ {d} : phase'[e] = phase[e]
      BY <2>3 DEF Set, Texts, Phases
    <3>2. answer'[d] = NoAnswer
      BY <2>1, <2>3 DEF Texts, Over
    <3>3. Texts'
      BY <2>2, <2>3, <3>1, <3>2 DEF Texts
    <3> QED
      BY <3>1, <3>3 DEF Serves, Over
  <2>4. CASE AnswerNative(d, pages)
    <3>1. /\ answer' \in [Docs -> Results] /\ KeepsBest(answer'[d], pages, <<>>)
          /\ phase' \in [Docs -> Phases] /\ phase'[d] = "answered"
          /\ \A e \in Docs \ {d} : phase'[e] = phase[e] /\ answer'[e] = answer[e]
      BY <2>1, <2>4, NativeIsBest
    <3> QED
      BY <2>2, <3>1, AnswerServes
  <2> QED
    BY <2>1, <2>3, <2>4
<1>4. ASSUME NEW p \in Readings, OcrEnds(d, [i \in 1..Seen(d) |-> p]) PROVE Serves(d)
  <2>1. PICK pages \in Seq(Measures) : pages = [i \in 1..Seen(d) |-> p]
    <3>1. PICK n \in Nat : n = Seen(d)
      BY <1>4, ExtractionAssumption DEF Seen, Texts, ExtractionSettings
    <3>2. p \in Measures /\ [i \in 1..n |-> p] = [i \in 1..Seen(d) |-> p]
      BY <1>4, <3>1, ExtractionAssumption
    <3>3. [i \in 1..n |-> p] \in Seq(Measures)
      BY <3>2
    <3> QED
      BY <3>2, <3>3
  <2>2. /\ phase[d] = "reading" /\ native' = native
        /\ reading' = [reading EXCEPT ![d] = pages]
        /\ \/ Helps(d, pages) /\ AnswerOcr(d, pages)
           \/ ~Helps(d, pages) /\ AnswerNative(d, native[d])
    BY <1>4, <2>1 DEF OcrEnds, Set
  <2>3. /\ reading' \in [Docs -> Seq(Measures)] /\ reading'[d] = pages
        /\ native' \in [Docs -> Seq(Measures)]
        /\ \A e \in Docs \ {d} : native'[e] = native[e] /\ reading'[e] = reading[e]
    BY <2>2 DEF Texts
  <2>4. CASE Helps(d, pages) /\ AnswerOcr(d, pages)
    <3>1. /\ answer' \in [Docs -> Results] /\ KeepsBest(answer'[d], native[d], pages)
          /\ phase' \in [Docs -> Phases] /\ phase'[d] = "answered"
          /\ \A e \in Docs \ {d} : phase'[e] = phase[e] /\ answer'[e] = answer[e]
      BY <2>4, ReadingIsBest
    <3> QED
      BY <2>2, <2>3, <3>1, AnswerServes
  <2>5. CASE ~Helps(d, pages) /\ AnswerNative(d, native[d])
    <3>1. KeepsBest(answer'[d], native[d], pages)
      BY <2>5, LayerIsBest
    <3>2. PICK layer \in Seq(Measures) : layer = native[d]
      BY DEF Texts
    <3>3. AnswerNative(d, layer)
      BY <2>5, <3>2 DEF AnswerNative
    <3>4. /\ answer' \in [Docs -> Results]
          /\ phase' \in [Docs -> Phases] /\ phase'[d] = "answered"
          /\ \A e \in Docs \ {d} : phase'[e] = phase[e] /\ answer'[e] = answer[e]
      BY <3>3, NativeIsBest
    <3> QED
      BY <2>2, <2>3, <3>1, <3>4, AnswerServes
  <2> QED
    BY <2>2, <2>4, <2>5
<1>5. CASE OcrFails(d)
  BY <1>5, FallBackServes DEF OcrFails
<1>6. CASE AbandonedEnds(d)
  BY <1>6 DEF AbandonedEnds, Serves, Texts
<1>7. CASE OcrBreaks(d)
  <2>1. Set(phase, d, "broken") /\ UNCHANGED <<native, reading, answer>>
        /\ phase[d] = "reading"
    BY <1>7 DEF OcrBreaks
  <2> QED
    BY <2>1, PhaseServes DEF Phases, Over
<1> QED
  BY <1>1, <1>2, <1>3, <1>4, <1>5, <1>6, <1>7 DEF JobEnds

\* The text layer becomes the best answer there is when a document is over,
\* whether OCR fails, comes too late, or helps.
THEOREM BestTextIsKept == ExtractionSpec => NothingBetterIsLost
<1>1. ExtractionInit => Texts
  BY TextsInit
<1>2. ASSUME Texts, [ExtractionNext]_extractionVars
      PROVE  /\ Texts'
             /\ \A d \in Docs :
                  phase[d] \notin Over \cup {"rendering"} /\ phase'[d] \in Over \ {"broken"} =>
                      KeepsBest(answer'[d], native'[d], reading'[d])
  <2>1. CASE UNCHANGED extractionVars
    BY <1>2, <2>1 DEF extractionVars, Texts
  <2>2. ASSUME NEW d \in Docs, Begin(d) \/ JobEnds(d) \/ OcrTimesOut(d) PROVE Serves(d)
    <3>1. CASE Begin(d)
      <4>1. Set(phase, d, "parsing") /\ UNCHANGED <<native, reading, answer>>
            /\ phase[d] = "waiting"
        BY <3>1 DEF Begin
      <4> QED
        BY <1>2, <4>1, PhaseServes DEF Phases, Over
    <3>2. CASE OcrTimesOut(d)
      BY <1>2, <3>2, FallBackServes DEF OcrTimesOut
    <3> QED
      BY <1>2, <2>2, <3>1, <3>2, JobServes
  <2>3. CASE \E d \in Docs : Serves(d)
    BY <2>3 DEF Serves
  <2> QED
    BY <1>2, <2>1, <2>2, <2>3 DEF ExtractionNext
<1>3. [\A d \in Docs :
          phase[d] \notin Over \cup {"rendering"} /\ phase'[d] \in Over \ {"broken"} =>
              KeepsBest(answer'[d], native'[d], reading'[d])]_extractionVars
      => [\A d \in Docs :
          phase[d] \notin Over \cup {"rendering"} /\ phase'[d] \in Over \ {"broken"} =>
            LET kept == answer'[d].text
                best == Score(kept, Len(kept))
            IN /\ best >= Score(native'[d], Len(native'[d]))
               /\ best >= Score(reading'[d], Len(reading'[d]))
               /\ IsBlank(kept) => answer'[d].method # "ocr" /\ IsBlank(native'[d])]_extractionVars
  BY DEF KeepsBest
<1> QED
  BY <1>1, <1>2, <1>3, PTL DEF ExtractionSpec, NothingBetterIsLost

=============================================================================
