-------------------------- MODULE ProcessingStatus --------------------------
(***************************************************************************)
(* The retry bookkeeping of one paper version: a row of                    *)
(* document_processing_status and the functions that read and write it     *)
(* (db/models/pipeline.py, db/repositories/pipeline.py).                   *)
(*                                                                         *)
(* The pipeline only ever stores the stages PENDING, INDEXED and FAILED.   *)
(* next_retry_at is kept as what is_due distinguishes: no time set, a time *)
(* in the future ("waiting"), a time that has passed ("elapsed").          *)
(*                                                                         *)
(* In every module, a definition introduced as "Planted:" is a mistake the *)
(* code could have made. No specification uses it; it stands for the       *)
(* definition after it when the strength of a property is tested.          *)
(***************************************************************************)
EXTENDS Naturals

CONSTANT MaxAttempts   \* max_attempts, 3 by default

ASSUME MaxAttemptsAssumption == MaxAttempts \in Nat \ {0}

Stages == {"pending", "indexed", "failed"}

Retries == {"none", "waiting", "elapsed"}

\* The columns the control flow depends on. Error texts and times are left out.
Statuses == [stage : Stages, attempts : Nat, retry : Retries]

\* get_or_create_status on first sight of a paper.
FreshStatus == [stage |-> "pending", attempts |-> 0, retry |-> "none"]

RetriesExhausted(s) == s.attempts >= MaxAttempts

IsSettled(s) == s.stage \in {"indexed", "failed"}

\* Planted: a retry time that was ever set keeps the paper out.
IsDueOnce(s) == s.retry = "none"

IsDue(s) == s.retry # "waiting"

\* Planted: the stage is not consulted.
NeedsWorkInBudget(s) == ~RetriesExhausted(s) /\ IsDue(s)

\* Planted: a paper is retried as long as it is not indexed.
NeedsWorkUntilIndexed(s) == s.stage # "indexed" /\ IsDue(s)

NeedsWork(s) == ~IsSettled(s) /\ ~RetriesExhausted(s) /\ IsDue(s)

(***************************************************************************)
(* Both writers below load the row first and flush it later, and the ORM   *)
(* sends only the columns whose value differs from the loaded one. "seen"  *)
(* is the row as loaded, "row" the row the UPDATE meets: another session   *)
(* may have committed in between (READ COMMITTED, no version column).      *)
(***************************************************************************)

\* A column the session leaves as it loaded it keeps what the row holds now.
Column(row, seen, new) == IF new = seen THEN row ELSE new

\* Planted: the error columns are cleared, the stage is not set.
AdvanceRetryOnly(row, seen) == [row EXCEPT !.retry = Column(@, seen.retry, "none")]

\* advance_stage(status, INDEXED): attempts is not touched.
AdvanceToIndexed(row, seen) ==
    [row EXCEPT !.stage = Column(@, seen.stage, "indexed"),
                !.retry = Column(@, seen.retry, "none")]

\* Planted: the budget is compared before the failure is counted.
ExhaustedBefore(seen) == RetriesExhausted(seen)

\* What record_attempt_failure returns: the budget is spent by this failure.
ExhaustedBy(seen) == seen.attempts + 1 >= MaxAttempts

\* record_attempt_failure: the incremented count is computed from the loaded
\* row; a new retry time always differs from the old one.
RecordAttemptFailure(row, seen) ==
    [row EXCEPT
        !.attempts = seen.attempts + 1,
        !.stage = IF ExhaustedBy(seen) THEN Column(@, seen.stage, "failed") ELSE @,
        !.retry = IF ExhaustedBy(seen) THEN Column(@, seen.retry, "none") ELSE "waiting"]

\* Planted: a letter is written for a failure after the last permitted one.
LettersAfterBudget(seen) == IF RetriesExhausted(seen) THEN 1 ELSE 0

\* Dead letters _record_failure adds for a paper that has a row.
LettersFor(seen) == IF ExhaustedBy(seen) THEN 1 ELSE 0

=============================================================================
