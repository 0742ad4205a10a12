------------------------ MODULE IncrementalSyncProofs ------------------------
(***************************************************************************)
(* What TLAPS proves of IncrementalSync, for every listing, every limit    *)
(* and page size and any number of processes: its type invariant, and that *)
(* the checkpoint never passes an entry the pipeline has not seen and      *)
(* rests on a stored paper. For one incremental process, that backfills do *)
(* not move the checkpoint back; for one process, PaperLifecycle.          *)
(***************************************************************************)
EXTENDS IncrementalSync, FiniteSetTheorems, TLAPS

-----------------------------------------------------------------------------
(* Constants. *)

LEMMA TimesType ==
    /\ Times \subseteq Nat
    /\ 0 \in Times
    /\ \A p \in Papers : UpdatedAt[p] \in Times /\ UpdatedAt[p] # 0
BY SyncAssumption DEF Times

LEMMA LaterIsNotOlder ==
    ASSUME NEW p \in Papers, NEW q \in Papers, p <= q
    PROVE  UpdatedAt[p] <= UpdatedAt[q]
<1>1. p \in Nat /\ q \in Nat /\ UpdatedAt[p] \in Nat
  BY SyncAssumption
<1>2. CASE p = q
  BY <1>1, <1>2
<1>3. CASE p < q
  BY <1>3, SyncAssumption
<1> QED
  BY <1>1, <1>2, <1>3

-----------------------------------------------------------------------------
(* The writers of a status row. *)

LEMMA StatusUpdates ==
    ASSUME NEW s \in Statuses, NEW t \in Statuses
    PROVE  /\ FreshStatus \in Statuses
           /\ AdvanceToIndexed(s, t) \in Statuses
           /\ RecordAttemptFailure(s, t) \in Statuses
           /\ [s EXCEPT !.retry = "elapsed"] \in Statuses
<1>1. FreshStatus \in Statuses
  BY DEF FreshStatus, Statuses, Stages, Retries
<1>2. AdvanceToIndexed(s, t) \in Statuses
  BY DEF AdvanceToIndexed, Column, Statuses, Stages, Retries
<1>3. RecordAttemptFailure(s, t) \in Statuses
  <2>1. t.attempts + 1 \in Nat
    BY DEF Statuses
  <2>2. Column(s.stage, t.stage, "failed") \in Stages /\ s.stage \in Stages
    BY DEF Column, Statuses, Stages
  <2>3. Column(s.retry, t.retry, "none") \in Retries /\ "waiting" \in Retries
    BY DEF Column, Statuses, Retries
  <2> QED
    BY <2>1, <2>2, <2>3 DEF RecordAttemptFailure, Statuses
<1>4. [s EXCEPT !.retry = "elapsed"] \in Statuses
  BY DEF Statuses, Retries
<1> QED
  BY <1>1, <1>2, <1>3, <1>4

-----------------------------------------------------------------------------
(* The answer to a query: a finite sequence of entries without gaps. *)

LEMMA MatchingFinite ==
    ASSUME TypeOK, NEW r \in Runs
    PROVE  /\ Matching(r) \subseteq published
           /\ Matching(r) \subseteq Papers
           /\ IsFiniteSet(Matching(r))
           /\ Cardinality(Matching(r)) \in Nat
<1>1. Matching(r) \subseteq published /\ Matching(r) \subseteq Papers
  BY DEF Matching, TypeOK
<1>2. IsFiniteSet(Matching(r))
  BY <1>1, SyncAssumption, FS_Subset
<1> QED
  BY <1>1, <1>2, FS_CardinalityType

LEMMA OffsetType ==
    ASSUME TypeOK, NEW r \in Runs, NEW p \in Papers
    PROVE  Offset(r, p) \in Nat
<1>1. {q \in Matching(r) : q < p} \subseteq Matching(r)
  OBVIOUS
<1>2. IsFiniteSet({q \in Matching(r) : q < p})
  BY <1>1, MatchingFinite, FS_Subset
<1> QED
  BY <1>2, FS_CardinalityType DEF Offset

LEMMA NextOffsetType ==
    ASSUME TypeOK', NEW r, NEW q
    PROVE  Offset(r, q)' \in Nat
<1>1. {x \in Matching(r)' : x < q} \subseteq Papers
  BY DEF Matching, TypeOK
<1>2. IsFiniteSet({x \in Matching(r)' : x < q})
  BY <1>1, SyncAssumption, FS_Subset
<1> QED
  BY <1>2, FS_CardinalityType DEF Offset

\* Two entries of an answer have different offsets, in the order of the listing.
LEMMA OffsetMonotone ==
    ASSUME TypeOK, NEW r \in Runs, NEW p \in Matching(r), NEW q \in Matching(r), p < q
    PROVE  Offset(r, p) < Offset(r, q)
<1> DEFINE Before(x) == {y \in Matching(r) : y < x}
<1>1. p \in Nat /\ q \in Nat /\ \A y \in Matching(r) : y \in Nat
  BY MatchingFinite, SyncAssumption
<1>2. Before(p) \subseteq Before(q)
  <2> SUFFICES ASSUME NEW y \in Matching(r), y < p
               PROVE  y < q
    OBVIOUS
  <2> QED
    BY <1>1
<1>3. p \in Before(q) /\ p \notin Before(p)
  BY <1>1
<1>4. IsFiniteSet(Before(q))
  BY MatchingFinite, FS_Subset
<1>5. /\ Cardinality(Before(p)) <= Cardinality(Before(q))
      /\ Cardinality(Before(q)) = Cardinality(Before(p)) => Before(q) = Before(p)
  BY <1>2, <1>4, FS_Subset
<1>6. Offset(r, p) = Cardinality(Before(p)) /\ Offset(r, q) = Cardinality(Before(q))
  BY DEF Offset
<1>7. Offset(r, p) \in Nat /\ Offset(r, q) \in Nat
  BY OffsetType, MatchingFinite
<1> QED
  BY <1>3, <1>5, <1>6, <1>7

LEMMA WindowSize ==
    ASSUME NEW a \in Nat, NEW n \in Int
    PROVE  /\ IsFiniteSet(a .. a + n - 1)
           /\ Cardinality(a .. a + n - 1) = IF n > 0 THEN n ELSE 0
<1>1. PICK b \in Int : b = a + n - 1
  OBVIOUS
<1>2. IsFiniteSet(a .. b) /\ Cardinality(a .. b) = IF a > b THEN 0 ELSE b - a + 1
  BY FS_Interval
<1> QED
  BY <1>1, <1>2

\* A page of n entries holds at most n.
LEMMA PageBound ==
    ASSUME TypeOK, NEW r \in Runs, NEW n \in Int
    PROVE  /\ Parsed(r, n) \subseteq Matching(r)
           /\ Cardinality(Parsed(r, n)) \in Nat
           /\ Cardinality(Parsed(r, n)) <= IF n > 0 THEN n ELSE 0
<1> DEFINE start == it[r].start
           window == start .. start + n - 1
           f == [p \in Parsed(r, n) |-> Offset(r, p)]
<1>1. start \in Nat
  BY DEF TypeOK, Iterations
<1>2. Parsed(r, n) \subseteq Matching(r)
  BY DEF Parsed, Entries
<1>3. IsFiniteSet(window) /\ Cardinality(window) = IF n > 0 THEN n ELSE 0
  BY <1>1, WindowSize
<1>4. f \in Injection(Parsed(r, n), window)
  <2>1. ASSUME NEW p \in Parsed(r, n)
        PROVE  Offset(r, p) \in window
    <3>1. Offset(r, p) \in Nat /\ start <= Offset(r, p) /\ Offset(r, p) < start + n
      BY <1>2, OffsetType, MatchingFinite DEF Parsed, Entries
    <3> QED
      BY <1>1, <3>1
  <2>2. ASSUME NEW p \in Parsed(r, n), NEW q \in Parsed(r, n), p # q
        PROVE  Offset(r, p) # Offset(r, q)
    <3>1. p \in Matching(r) /\ q \in Matching(r) /\ p \in Nat /\ q \in Nat
      BY <1>2, MatchingFinite, SyncAssumption
    <3>2. Offset(r, p) \in Nat /\ Offset(r, q) \in Nat
      BY <1>2, OffsetType, MatchingFinite
    <3>3. CASE p < q
      BY <3>1, <3>2, <3>3, OffsetMonotone
    <3>4. CASE q < p
      BY <3>1, <3>2, <3>4, OffsetMonotone
    <3> QED
      BY <2>2, <3>1, <3>3, <3>4
  <2> QED
    BY <2>1, <2>2 DEF Injection, IsInjective
<1>5. IsFiniteSet(Parsed(r, n)) /\ Cardinality(Parsed(r, n)) <= Cardinality(window)
  BY <1>3, <1>4, FS_Injection
<1> QED
  BY <1>2, <1>3, <1>5, FS_CardinalityType

-----------------------------------------------------------------------------
(* Type correctness. *)

LEMMA InitTypeOK == Init => TypeOK
<1> SUFFICES ASSUME Init PROVE TypeOK
  OBVIOUS
<1>1. NoRun \in Iterations
  BY TimesType DEF NoRun, Iterations
<1>2. FreshStatus \in Statuses
  BY DEF FreshStatus, Statuses, Stages, Retries
<1>3. MaxFaults \in Nat
  BY SyncAssumption
<1> QED
  BY <1>1, <1>2, <1>3, TimesType DEF Init, TypeOK

LEMMA FaultType ==
    ASSUME TypeOK, Fault
    PROVE  faults' \in 0 .. MaxFaults
BY SyncAssumption DEF TypeOK, Fault

LEMMA CountFailureType ==
    ASSUME TypeOK, NEW p \in Papers, CountFailure(p)
    PROVE  status' \in [Papers -> Statuses] /\ letters' \in [Papers -> Nat]
<1>1. status[p] \in Statuses /\ letters[p] \in Nat
  BY DEF TypeOK
<1>2. RecordAttemptFailure(status[p], status[p]) \in Statuses
  BY <1>1, StatusUpdates
<1>3. LettersFor(status[p]) \in Nat
  BY DEF LettersFor
<1> QED
  BY <1>1, <1>2, <1>3 DEF TypeOK, CountFailure

LEMMA YieldType ==
    ASSUME TypeOK, NEW r \in Runs, NEW p \in Papers, NEW ok \in BOOLEAN, Yield(r, p, ok)
    PROVE  /\ it' \in [Runs -> Iterations]
           /\ pc' \in [Runs -> {"idle", "open", "page", "paper", "content", "finish", "close"}]
<1> DEFINE rest == it[r].page \ {p}
           yielded == it[r].yielded + 1
           failed == it[r].failed \/ ~ok
           mark == Watermark(it[r].mark, p, ok)
<1>1. it[r] \in Iterations
  BY DEF TypeOK
<1>2. mark \in Times
  BY <1>1, TimesType DEF Watermark, Iterations
<1>3. failed \in BOOLEAN /\ yielded \in Nat /\ rest \subseteq Papers
  BY <1>1 DEF Iterations
<1>4. it' = [it EXCEPT ![r] = [it[r] EXCEPT !.page = rest, !.yielded = yielded,
                                            !.failed = failed, !.mark = mark]]
  BY DEF Yield, TypeOK, Iterations
<1> HIDE DEF rest, yielded, failed, mark
<1>5. [it[r] EXCEPT !.page = rest, !.yielded = yielded,
                    !.failed = failed, !.mark = mark] \in Iterations
  BY <1>1, <1>2, <1>3 DEF Iterations
<1>6. it' \in [Runs -> Iterations]
  BY <1>4, <1>5 DEF TypeOK
<1> QED
  BY <1>6 DEF Yield, Goto, TypeOK

LEMMA TakePageType ==
    ASSUME TypeOK, NEW r \in Runs, NEW n \in Int, TakePage(r, n)
    PROVE  /\ it' \in [Runs -> Iterations]
           /\ pc' \in [Runs -> {"idle", "open", "page", "paper", "content", "finish", "close"}]
<1> DEFINE next == it[r].start + Cardinality(Parsed(r, n))
           more == next < Cardinality(Matching(r))
<1>1. it[r] \in Iterations
  BY DEF TypeOK
<1>2. Parsed(r, n) \subseteq Papers
  BY PageBound, MatchingFinite
<1>3. next \in Nat
  BY <1>1, PageBound DEF Iterations
<1>4. more \in BOOLEAN
  OBVIOUS
<1> HIDE DEF next, more
<1>5. [it[r] EXCEPT !.page = Parsed(r, n), !.start = next, !.more = more] \in Iterations
  BY <1>1, <1>2, <1>3, <1>4 DEF Iterations
<1>6. it' = [it EXCEPT ![r] =
               [it[r] EXCEPT !.page = Parsed(r, n), !.start = next, !.more = more]]
  BY DEF TakePage, TypeOK, Iterations, next, more
<1>7. it' \in [Runs -> Iterations]
  BY <1>5, <1>6 DEF TypeOK
<1> QED
  BY <1>7 DEF TakePage, Goto, TypeOK

LEMMA RequestSizeType ==
    ASSUME TypeOK, NEW r \in Runs
    PROVE  RequestSize(r) \in Int
BY SyncAssumption DEF TypeOK, Iterations, RequestSize

LEMMA ListingTypeOK == TypeOK /\ Listing => TypeOK'
<1> SUFFICES ASSUME TypeOK, Listing PROVE TypeOK'
  OBVIOUS
<1>1. Papers \subseteq Nat
  BY SyncAssumption
<1>2. ASSUME NEW p \in Papers, Publish(p) PROVE TypeOK'
  BY <1>1, <1>2 DEF TypeOK, Publish, Appears, paperVars
<1>3. ASSUME NEW old \in Papers, NEW new \in Papers, Revise(old, new) PROVE TypeOK'
  <2>1. published' \subseteq Papers /\ displaced' \subseteq Papers
    BY <1>3 DEF TypeOK, Revise
  <2>2. ASSUME NEW p \in published' PROVE p <= newest'
    <3>1. newest' = new /\ new > newest /\ newest \in Nat /\ p \in Nat
      BY <1>1, <1>3, <2>1 DEF TypeOK, Revise, Appears
    <3>2. p = new \/ p <= newest
      BY <1>3 DEF TypeOK, Revise
    <3> QED
      BY <1>1, <3>1, <3>2
  <2> QED
    BY <1>3, <2>1, <2>2 DEF TypeOK, Revise, paperVars
<1> QED
  BY <1>2, <1>3 DEF Listing

LEMMA ProcessTypeOK ==
    ASSUME TypeOK, NEW r \in Runs, NEW p \in Papers, Process(r, p)
    PROVE  TypeOK'
<1>1. CASE StorePaper(r, p)
  BY <1>1 DEF TypeOK, StorePaper, Goto, feedVars
<1>2. CASE SkipPaper(r, p)
  BY <1>2, YieldType DEF TypeOK, SkipPaper, paperVars, feedVars
<1>3. CASE IndexPaper(r, p)
  <2>1. status[p] \in Statuses
    BY DEF TypeOK
  <2>2. status' \in [Papers -> Statuses]
    BY <1>3, <2>1, StatusUpdates DEF TypeOK, IndexPaper
  <2> QED
    BY <1>3, <2>2, YieldType DEF TypeOK, IndexPaper, feedVars
<1>4. CASE FailPaper(r, p)
  BY <1>4, CountFailureType, YieldType DEF TypeOK, FailPaper, feedVars
<1>5. CASE FailMetadata(r, p)
  <2>1. status' \in [Papers -> Statuses] /\ letters' \in [Papers -> Nat]
    BY <1>5, CountFailureType DEF FailMetadata, TypeOK
  <2>2. unstored' \subseteq Papers
    BY <1>5 DEF FailMetadata, TypeOK
  <2> QED
    BY <1>5, <2>1, <2>2, YieldType, FaultType DEF TypeOK, FailMetadata, feedVars
<1>6. CASE FailUnrecorded(r, p)
  BY <1>6, YieldType, FaultType DEF TypeOK, FailUnrecorded, feedVars
<1> QED
  BY <1>1, <1>2, <1>3, <1>4, <1>5, <1>6 DEF Process

LEMMA RunTypeOK ==
    ASSUME TypeOK, NEW r \in Runs, Work(r) \/ Disturb(r)
    PROVE  TypeOK'
<1>1. it[r] \in Iterations /\ NoRun \in Iterations
  BY TimesType DEF TypeOK, NoRun, Iterations
<1>2. CASE ReadCheckpoint(r)
  <2>1. [NoRun EXCEPT !.since = IF r \in Backfills THEN 0 ELSE checkpoint] \in Iterations
    BY <1>1, TimesType DEF TypeOK, Iterations
  <2> QED
    BY <1>2, <2>1 DEF TypeOK, ReadCheckpoint, Goto, paperVars, feedVars
<1>3. CASE StartRun(r)
  BY <1>3 DEF TypeOK, StartRun, Goto, paperVars, feedVars
<1>4. CASE FetchPage(r)
  BY <1>4, RequestSizeType, TakePageType DEF TypeOK, FetchPage, TakePage, paperVars, feedVars
<1>5. CASE \E p \in Papers : Process(r, p)
  BY <1>5, ProcessTypeOK
<1>6. CASE LoadCheckpoint(r)
  <2>1. [it[r] EXCEPT !.seen = checkpoint] \in Iterations
    BY <1>1 DEF TypeOK, Iterations
  <2> QED
    BY <1>6, <2>1 DEF TypeOK, LoadCheckpoint, Goto, paperVars, feedVars
<1>7. CASE CloseRun(r)
  <2>1. checkpoint' \in Times
    BY <1>1, <1>7 DEF TypeOK, CloseRun, NewCheckpoint, Iterations
  <2>2. FinalStatus(r) \in {"failed", "partial", "succeeded"}
    BY DEF FinalStatus
  <2>3. runRow' \in [Runs -> {"none", "running", "succeeded", "partial", "failed"}]
    BY <1>7, <2>2 DEF TypeOK, CloseRun
  <2> QED
    BY <1>1, <1>7, <2>1, <2>3 DEF TypeOK, CloseRun, Goto, paperVars, feedVars
<1>8. CASE ShortPage(r)
  <2>1. PICK n \in 0 .. RequestSize(r) - 1 : TakePage(r, n)
    BY <1>8 DEF ShortPage
  <2>2. n \in Int
    BY RequestSizeType
  <2>3. faults' \in 0 .. MaxFaults
    BY <1>8, FaultType DEF ShortPage
  <2> QED
    BY <2>1, <2>2, <2>3, TakePageType DEF TypeOK, TakePage, paperVars, feedVars
<1>9. CASE FeedError(r)
  <2>1. [it[r] EXCEPT !.error = TRUE] \in Iterations
    BY <1>1 DEF Iterations
  <2> QED
    BY <1>9, <2>1, FaultType DEF TypeOK, FeedError, Goto, paperVars, feedVars
<1>10. CASE Cancel(r)
  BY <1>10, FaultType DEF TypeOK, Cancel, Goto, paperVars, feedVars
<1>11. CASE Crash(r)
  BY <1>1, <1>11, FaultType DEF TypeOK, Crash, Goto, paperVars, feedVars
<1> QED
  BY <1>2, <1>3, <1>4, <1>5, <1>6, <1>7, <1>8, <1>9, <1>10, <1>11 DEF Work, Disturb

LEMMA NextTypeOK == TypeOK /\ [Next]_vars => TypeOK'
<1> SUFFICES ASSUME TypeOK, [Next]_vars PROVE TypeOK'
  OBVIOUS
<1>1. CASE Listing
  BY <1>1, ListingTypeOK
<1>2. ASSUME NEW r \in Runs, Work(r) \/ Disturb(r) PROVE TypeOK'
  BY <1>2, RunTypeOK
<1>3. ASSUME NEW p \in Papers, BackoffElapses(p) PROVE TypeOK'
  <2>1. status[p] \in Statuses
    BY DEF TypeOK
  <2>2. status' \in [Papers -> Statuses]
    BY <1>3, <2>1, StatusUpdates DEF TypeOK, BackoffElapses
  <2> QED
    BY <1>3, <2>2 DEF TypeOK, BackoffElapses, feedVars
<1>4. CASE UNCHANGED vars
  BY <1>4 DEF TypeOK, vars
<1> QED
  BY <1>1, <1>2, <1>3, <1>4 DEF Next

\* Every variable keeps its type: in particular the checkpoint is 0 or the
\* timestamp of an entry, whatever the listing, limits and processes are.
THEOREM TypeCorrect == Spec => []TypeOK
<1> QED
  BY InitTypeOK, NextTypeOK, PTL DEF Spec

-----------------------------------------------------------------------------
(***************************************************************************)
(* The inductive invariant behind NothingSkipped. Besides the checkpoint,  *)
(* the bound of every query and the mark of every incremental run have     *)
(* nothing unseen before them; and while a run iterates, what its answer   *)
(* holds before the next page has been handled or is on the current one.   *)
(***************************************************************************)

Known(p) == Traced(p) \/ p \in displaced

\* No entry that appears from now on is older than t.
Reached(t) == t = 0 \/ (newest # 0 /\ t <= UpdatedAt[newest])

Safe(t) == Covered(t) /\ Reached(t)

SinceSafe(r) == Safe(it[r].since)

MarkSafe(r) == Safe(it[r].mark)

\* Run r may still fetch or process papers.
Open(r) == pc[r] \notin {"finish", "close"}

PageSeen(r) == \A p \in it[r].page : p <= newest

\* Papers come in listing order: what precedes a paper of the page is on the
\* page or has been handled.
PageComplete(r) ==
    \A p \in it[r].page : \A q \in published \ Malformed :
        q < p /\ Matches(r, q) => q \in it[r].page \/ Known(q)

\* So has every entry in front of the offset of the next page.
OffsetDone(r) ==
    Open(r) /\ it[r].more =>
        \A q \in published \ Malformed :
            Matches(r, q) /\ Offset(r, q) < it[r].start => q \in it[r].page \/ Known(q)

\* A new entry comes after the next page's first one.
OffsetInside(r) ==
    Open(r) /\ it[r].more /\ it[r].start # 0 => it[r].start < Cardinality(Matching(r))

Between(r) ==
    /\ pc[r] \in {"idle", "open"} => it[r].start = 0
    /\ pc[r] \in {"idle", "open", "page"} => it[r].more /\ it[r].page = {}
    /\ pc[r] = "content" => \A p \in it[r].page : IsNext(r, p) => p \in stored

RunInv(r) ==
    /\ SinceSafe(r) /\ MarkSafe(r)
    /\ PageSeen(r) /\ PageComplete(r)
    /\ OffsetDone(r) /\ OffsetInside(r)
    /\ Between(r)

Incremental == Runs \ Backfills

CheckpointInv == TypeOK /\ Safe(checkpoint) /\ \A r \in Incremental : RunInv(r)

\* What a step of a process does to what all share: the listing stays, and
\* what was known stays known.
Grows ==
    /\ published' = published /\ newest' = newest
    /\ stored \subseteq stored'
    /\ \A p \in Papers : Known(p) => Known(p)'

LEMMA SafeZero == TypeOK => Safe(0)
BY SyncAssumption DEF Safe, Covered, Reached, TypeOK

LEMMA SafeGrows ==
    ASSUME TypeOK, Grows, NEW t, Safe(t)
    PROVE  Safe(t)'
BY DEF Safe, Covered, Reached, Grows, Known, TypeOK

\* A step of another process, or one that only moves run r on.
LEMMA RunKept ==
    ASSUME TypeOK, Grows, NEW r \in Incremental, RunInv(r),
           it'[r].since = it[r].since, it'[r].mark = it[r].mark,
           it'[r].page = it[r].page, it'[r].start = it[r].start,
           it'[r].more = it[r].more, Open(r)' => Open(r), Between(r)'
    PROVE  RunInv(r)'
<1>1. SinceSafe(r)'
  <2>1. PICK t : t = it[r].since
    OBVIOUS
  <2>2. Safe(t)'
    BY <2>1, SafeGrows DEF RunInv, SinceSafe
  <2> QED
    BY <2>1, <2>2 DEF SinceSafe, Safe, Covered, Reached
<1>2. MarkSafe(r)'
  <2>1. PICK t : t = it[r].mark
    OBVIOUS
  <2>2. Safe(t)'
    BY <2>1, SafeGrows DEF RunInv, MarkSafe
  <2> QED
    BY <2>1, <2>2 DEF MarkSafe, Safe, Covered, Reached
<1>3. PageSeen(r)'
  BY DEF RunInv, PageSeen, Grows
<1>4. PageComplete(r)'
  BY DEF RunInv, PageComplete, Grows, Matches, TypeOK
<1>5. Matching(r)' = Matching(r)
  BY DEF Matching, Matches, Grows
<1>6. \A q : Offset(r, q)' = Offset(r, q)
  BY <1>5 DEF Offset
<1>7. OffsetDone(r)'
  BY <1>6 DEF RunInv, OffsetDone, Grows, Matches, TypeOK
<1>8. OffsetInside(r)'
  BY <1>5 DEF RunInv, OffsetInside
<1> QED
  BY <1>1, <1>2, <1>3, <1>4, <1>7, <1>8 DEF RunInv

\* A run that has not fetched anything: before its first page, or over.
LEMMA FreshRun ==
    ASSUME TypeOK, TypeOK', Grows, NEW r \in Incremental, NEW since, Safe(since),
           it'[r] = [NoRun EXCEPT !.since = since], pc'[r] \in {"idle", "open"}
    PROVE  RunInv(r)'
<1>1. /\ it'[r].since = since /\ it'[r].mark = 0 /\ it'[r].start = 0
      /\ it'[r].page = {} /\ it'[r].more = TRUE
  BY DEF NoRun
<1>2. SinceSafe(r)'
  BY <1>1, SafeGrows DEF SinceSafe, Safe, Covered, Reached
<1>3. MarkSafe(r)'
  BY <1>1, SafeZero, SafeGrows DEF MarkSafe, Safe, Covered, Reached
<1>4. PageSeen(r)' /\ PageComplete(r)'
  BY <1>1 DEF PageSeen, PageComplete
<1>5. OffsetDone(r)'
  <2> SUFFICES ASSUME NEW q \in published' \ Malformed, Offset(r, q)' < it'[r].start
               PROVE  FALSE
    BY DEF OffsetDone
  <2>1. Offset(r, q)' \in Nat
    BY NextOffsetType
  <2> QED
    BY <1>1, <2>1
<1>6. OffsetInside(r)'
  BY <1>1 DEF OffsetInside
<1>7. Between(r)'
  BY <1>1 DEF Between
<1> QED
  BY <1>2, <1>3, <1>4, <1>5, <1>6, <1>7 DEF RunInv

\* A paper of the page that is handled in its turn may become the mark.
LEMMA HandledIsSafe ==
    ASSUME TypeOK, NEW r \in Incremental, RunInv(r), NEW p \in Papers, IsNext(r, p)
    PROVE  Safe(UpdatedAt[p])
<1>1. p \in it[r].page /\ \A q \in it[r].page : p <= q
  BY DEF IsNext
<1>2. Papers \subseteq Nat /\ r \notin Backfills
  BY SyncAssumption DEF Incremental
<1>3. Covered(UpdatedAt[p])
  <2> SUFFICES ASSUME NEW q \in published \ Malformed, UpdatedAt[q] < UpdatedAt[p]
               PROVE  Known(q)
    BY DEF Covered, Known
  <2>1. q \in Papers
    BY DEF TypeOK
  <2>2. UpdatedAt[q] \in Nat /\ UpdatedAt[p] \in Nat /\ it[r].since \in Nat
    BY <2>1, TimesType, SyncAssumption DEF TypeOK, Iterations, Incremental
  <2>3. q < p
    BY <1>2, <2>1, <2>2, LaterIsNotOlder
  <2>4. CASE UpdatedAt[q] < it[r].since
    BY <2>4 DEF RunInv, SinceSafe, Safe, Covered, Known
  <2>5. CASE UpdatedAt[q] >= it[r].since
    <3>1. q \in it[r].page \/ Known(q)
      BY <1>1, <1>2, <2>3, <2>5 DEF RunInv, PageComplete, Matches
    <3> QED
      BY <1>1, <1>2, <2>1, <2>3, <3>1
  <2> QED
    BY <2>2, <2>4, <2>5
<1>4. Reached(UpdatedAt[p])
  <2>1. p <= newest
    BY <1>1 DEF RunInv, PageSeen
  <2>2. newest \in Papers
    BY <1>2, <2>1, SyncAssumption DEF TypeOK
  <2>3. newest # 0
    BY <2>2, SyncAssumption
  <2> QED
    BY <2>1, <2>2, <2>3, LaterIsNotOlder DEF Reached
<1> QED
  BY <1>3, <1>4 DEF Safe

LEMMA YieldKept ==
    ASSUME TypeOK, Grows, NEW r \in Incremental, RunInv(r), pc[r] \in {"paper", "content"},
           NEW p \in Papers, NEW ok \in BOOLEAN, IsNext(r, p), Yield(r, p, ok), Known(p)'
    PROVE  RunInv(r)'
<1> DEFINE rest == it[r].page \ {p}
           mark == Watermark(it[r].mark, p, ok)
<1>1. /\ it'[r].since = it[r].since /\ it'[r].start = it[r].start
      /\ it'[r].more = it[r].more /\ it'[r].page = rest /\ it'[r].mark = mark
  BY DEF Yield, TypeOK, Iterations, Incremental
<1>2. /\ pc'[r] \in {"finish", "paper", "page"}
      /\ pc'[r] = "page" => rest = {} /\ it[r].more
  BY DEF Yield, Goto, TypeOK, Incremental
<1>3. SinceSafe(r)'
  <2>1. PICK t : t = it[r].since
    OBVIOUS
  <2>2. Safe(t)'
    BY <2>1, SafeGrows DEF RunInv, SinceSafe
  <2> QED
    BY <1>1, <2>1, <2>2 DEF SinceSafe, Safe, Covered, Reached
<1>4. MarkSafe(r)'
  <2>1. PICK t : t = mark
    OBVIOUS
  <2>2. Safe(t)
    BY <2>1, HandledIsSafe DEF Watermark, RunInv, MarkSafe
  <2>3. Safe(t)'
    BY <2>2, SafeGrows
  <2> QED
    BY <1>1, <2>1, <2>3 DEF MarkSafe, Safe, Covered, Reached
<1>5. PageSeen(r)'
  BY <1>1 DEF RunInv, PageSeen, Grows
<1>6. PageComplete(r)'
  <2> SUFFICES ASSUME NEW x \in rest, NEW q \in published \ Malformed,
                      q < x, Matches(r, q)
               PROVE  q \in rest \/ Known(q)'
    BY <1>1 DEF PageComplete, Grows, Matches
  <2>1. q \in it[r].page \/ Known(q)
    BY DEF RunInv, PageComplete
  <2> QED
    BY <2>1 DEF Grows, TypeOK
<1>7. Matching(r)' = Matching(r)
  BY <1>1 DEF Matching, Matches, Grows
<1>8. OffsetDone(r)'
  <2> SUFFICES ASSUME Open(r)', it[r].more, NEW q \in published \ Malformed,
                      Matches(r, q), Offset(r, q) < it[r].start
               PROVE  q \in rest \/ Known(q)'
    BY <1>1, <1>7 DEF OffsetDone, Grows, Matches, Offset
  <2>1. q \in it[r].page \/ Known(q)
    BY DEF RunInv, OffsetDone, Open
  <2> QED
    BY <2>1 DEF Grows, TypeOK
<1>9. OffsetInside(r)'
  BY <1>1, <1>7 DEF RunInv, OffsetInside, Open
<1>10. Between(r)'
  BY <1>1, <1>2 DEF Between
<1> QED
  BY <1>3, <1>4, <1>5, <1>6, <1>8, <1>9, <1>10 DEF RunInv

LEMMA TakePageKept ==
    ASSUME TypeOK, Grows, NEW r \in Incremental, RunInv(r), NEW n \in Int, TakePage(r, n)
    PROVE  RunInv(r)'
<1> DEFINE page == Parsed(r, n)
           next == it[r].start + Cardinality(page)
<1>1. pc[r] = "page" /\ it[r].more /\ it[r].page = {}
  BY DEF TakePage, RunInv, Between
<1>2. /\ it'[r].since = it[r].since /\ it'[r].mark = it[r].mark
      /\ it'[r].page = page /\ it'[r].start = next
      /\ it'[r].more = (next < Cardinality(Matching(r)))
  BY DEF TakePage, TypeOK, Iterations, Incremental
<1>3. pc'[r] \in {"finish", "paper"}
  BY DEF TakePage, Goto, TypeOK, Incremental
<1>4. /\ page \subseteq Matching(r) /\ Cardinality(page) \in Nat
      /\ Cardinality(page) <= IF n > 0 THEN n ELSE 0
  BY PageBound DEF Incremental
<1>5. /\ Matching(r) \subseteq published /\ Matching(r) \subseteq Papers
      /\ Papers \subseteq Nat /\ it[r].start \in Nat
      /\ \A p \in Papers : Offset(r, p) \in Nat
  BY MatchingFinite, OffsetType, SyncAssumption DEF TypeOK, Iterations, Incremental
<1>6. Matching(r)' = Matching(r)
  BY <1>2 DEF Matching, Matches, Grows
\* The entries in front of the window have been handled.
<1>7. ASSUME NEW q \in published \ Malformed, Matches(r, q), Offset(r, q) < it[r].start + n
      PROVE  q \in page \/ Known(q)
  <2>1. q \in Papers /\ q \in Matching(r)
    BY <1>7 DEF TypeOK, Matching
  <2>2. CASE Offset(r, q) < it[r].start
    BY <1>1, <1>7, <2>2 DEF RunInv, OffsetDone, Open
  <2>3. CASE it[r].start <= Offset(r, q)
    BY <1>7, <2>1, <2>3 DEF Parsed, Entries
  <2>4. Offset(r, q) \in Nat /\ it[r].start \in Nat
    BY <1>5, <2>1
  <2> QED
    BY <2>2, <2>3, <2>4
<1>8. SinceSafe(r)' /\ MarkSafe(r)'
  <2>1. PICK t, u : t = it[r].since /\ u = it[r].mark
    OBVIOUS
  <2>2. Safe(t)' /\ Safe(u)'
    BY <2>1, SafeGrows DEF RunInv, SinceSafe, MarkSafe
  <2> QED
    BY <1>2, <2>1, <2>2 DEF SinceSafe, MarkSafe, Safe, Covered, Reached
<1>9. PageSeen(r)'
  BY <1>2, <1>4, <1>5 DEF PageSeen, Grows, TypeOK
<1>10. PageComplete(r)'
  <2> SUFFICES ASSUME NEW p \in page, NEW q \in published \ Malformed,
                      q < p, Matches(r, q)
               PROVE  q \in page \/ Known(q)'
    BY <1>2 DEF PageComplete, Grows, Matches
  <2>1. p \in Matching(r) /\ q \in Matching(r) /\ q \in Papers
    BY <1>4, <1>5 DEF Matching
  <2>2. Offset(r, q) < Offset(r, p)
    BY <2>1, OffsetMonotone DEF Incremental
  <2>3. Offset(r, p) < it[r].start + n
    BY DEF Parsed, Entries
  <2>4. Offset(r, q) < it[r].start + n
    <3>1. Offset(r, q) \in Nat /\ Offset(r, p) \in Nat /\ it[r].start \in Nat
      BY <1>5, <2>1
    <3> QED
      BY <2>2, <2>3, <3>1
  <2> QED
    BY <1>7, <2>1, <2>4 DEF Grows
<1>11. OffsetDone(r)'
  <2> SUFFICES ASSUME NEW q \in published \ Malformed, Matches(r, q), Offset(r, q) < next
               PROVE  q \in page \/ Known(q)'
    BY <1>2, <1>6 DEF OffsetDone, Grows, Matches, Offset
  <2>1. q \in Papers
    BY DEF TypeOK
  <2>2. CASE n > 0
    <3>1. Offset(r, q) < it[r].start + n
      BY <1>4, <1>5, <2>1, <2>2
    <3> QED
      BY <1>7, <2>1, <3>1 DEF Grows
  <2>3. CASE ~(n > 0)
    <3>1. Offset(r, q) < it[r].start
      BY <1>4, <1>5, <2>1, <2>3
    <3> QED
      BY <1>1, <2>1, <3>1 DEF RunInv, OffsetDone, Open, Grows
  <2> QED
    BY <2>2, <2>3
<1>12. OffsetInside(r)'
  BY <1>2, <1>6 DEF OffsetInside
<1>13. Between(r)'
  BY <1>3 DEF Between
<1> QED
  BY <1>8, <1>9, <1>10, <1>11, <1>12, <1>13 DEF RunInv

-----------------------------------------------------------------------------
(* The listing changes. *)

LEMMA ListingGrows ==
    ASSUME TypeOK, Listing
    PROVE  /\ UNCHANGED <<checkpoint, pc, it, stored>>
           /\ displaced \subseteq displaced'
           /\ \A p \in Papers : Known(p) => Known(p)'
           /\ \E new \in Papers : /\ new > newest /\ newest' = new
                                 /\ new \in published'
                                 /\ published' \subseteq published \cup {new}
BY DEF Listing, Publish, Revise, Appears, Known, Traced, paperVars

LEMMA SafeListing ==
    ASSUME TypeOK, Listing, NEW t \in Times, Safe(t)
    PROVE  Safe(t)'
<1>1. PICK new \in Papers : /\ new > newest /\ newest' = new
                           /\ published' \subseteq published \cup {new}
  BY ListingGrows
<1>2. /\ Papers \subseteq Nat /\ new \in Nat /\ newest \in Nat
      /\ t \in Nat /\ UpdatedAt[new] \in Nat \ {0}
  BY SyncAssumption, TimesType DEF TypeOK
<1>3. t <= UpdatedAt[new]
  <2>1. CASE t = 0
    BY <1>2, <2>1
  <2>2. CASE newest # 0 /\ t <= UpdatedAt[newest]
    <3>1. newest \in Papers /\ UpdatedAt[newest] \in Nat
      BY <2>2, SyncAssumption DEF TypeOK
    <3>2. UpdatedAt[newest] <= UpdatedAt[new]
      BY <1>1, <1>2, <3>1, LaterIsNotOlder
    <3> QED
      BY <1>2, <2>2, <3>1, <3>2
  <2> QED
    BY <2>1, <2>2 DEF Safe, Reached
<1>4. Reached(t)'
  BY <1>1, <1>2, <1>3, SyncAssumption DEF Reached
<1>5. Covered(t)'
  <2> SUFFICES ASSUME NEW q \in published' \ Malformed, UpdatedAt[q] < t
               PROVE  Known(q)'
    BY DEF Covered, Known
  <2>1. q # new
    BY <1>2, <1>3
  <2>2. q \in published /\ q \in Papers
    BY <1>1, <2>1 DEF TypeOK
  <2>3. Known(q)
    BY <2>2 DEF Safe, Covered, Known
  <2> QED
    BY <2>2, <2>3, ListingGrows
<1> QED
  BY <1>4, <1>5 DEF Safe

\* The new entry matches every incremental query, and comes last.
LEMMA NewEntryMatches ==
    ASSUME TypeOK, NEW r \in Incremental, RunInv(r), NEW new \in Papers, new > newest
    PROVE  /\ Matches(r, new)
           /\ new \notin Matching(r)
           /\ \A q \in Matching(r) : q < new
<1>1. Papers \subseteq Nat /\ new \in Nat /\ newest \in Nat /\ r \notin Backfills
  BY SyncAssumption DEF TypeOK, Incremental
<1>2. it[r].since \in Nat /\ UpdatedAt[new] \in Nat
  BY TimesType, SyncAssumption DEF TypeOK, Iterations, Incremental
<1>3. CASE it[r].since = 0
  BY <1>1, <1>2, <1>3, MatchingFinite DEF Matches, Matching, TypeOK, Incremental
<1>4. CASE newest # 0 /\ it[r].since <= UpdatedAt[newest]
  <2>1. newest \in Papers /\ UpdatedAt[newest] \in Nat
    BY <1>4, SyncAssumption DEF TypeOK
  <2>2. UpdatedAt[newest] <= UpdatedAt[new]
    BY <1>1, <2>1, LaterIsNotOlder
  <2>3. it[r].since <= UpdatedAt[new]
    BY <1>2, <1>4, <2>1, <2>2
  <2>4. \A q \in Matching(r) : q \in Nat /\ q <= newest
    BY <1>1 DEF Matching, TypeOK
  <2> QED
    BY <1>1, <1>2, <2>3, <2>4 DEF Matches
<1>5. Reached(it[r].since)
  BY DEF RunInv, SinceSafe, Safe
<1> QED
  BY <1>3, <1>4, <1>5 DEF Reached

\* What does not concern offsets.
LEMMA ListingKeepsPage ==
    ASSUME TypeOK, Listing, NEW r \in Incremental, RunInv(r)
    PROVE  SinceSafe(r)' /\ MarkSafe(r)' /\ PageSeen(r)' /\ PageComplete(r)' /\ Between(r)'
<1>1. it' = it /\ pc' = pc /\ stored' = stored
  BY ListingGrows
<1>2. PICK new \in Papers : /\ new > newest /\ newest' = new
                           /\ published' \subseteq published \cup {new}
  BY ListingGrows
<1>3. Papers \subseteq Nat /\ newest \in Nat /\ it[r].page \subseteq Papers
  BY SyncAssumption DEF TypeOK, Iterations, Incremental
<1>4. SinceSafe(r)' /\ MarkSafe(r)'
  <2>1. PICK t \in Times, u \in Times : t = it[r].since /\ u = it[r].mark
    BY DEF TypeOK, Iterations, Incremental
  <2>2. Safe(t)' /\ Safe(u)'
    BY <2>1, SafeListing DEF RunInv, SinceSafe, MarkSafe
  <2> QED
    BY <1>1, <2>1, <2>2 DEF SinceSafe, MarkSafe, Safe, Covered, Reached
<1>5. PageSeen(r)'
  <2> SUFFICES ASSUME NEW p \in it[r].page PROVE p <= new
    BY <1>1, <1>2 DEF PageSeen
  <2>1. p \in Nat /\ new \in Nat /\ p <= newest
    BY <1>3 DEF RunInv, PageSeen
  <2> QED
    BY <1>2, <1>3, <2>1
<1>6. PageComplete(r)'
  <2> SUFFICES ASSUME NEW p \in it[r].page, NEW q \in published' \ Malformed,
                      q < p, Matches(r, q)
               PROVE  q \in it[r].page \/ Known(q)'
    BY <1>1 DEF PageComplete, Matches
  <2>1. p \in Nat /\ new \in Nat /\ p <= newest
    BY <1>3 DEF RunInv, PageSeen
  <2>2. q # new
    BY <1>2, <1>3, <2>1
  <2>3. q \in published /\ q \in Papers
    BY <1>2, <2>2 DEF TypeOK
  <2>4. q \in it[r].page \/ Known(q)
    BY <2>3 DEF RunInv, PageComplete
  <2> QED
    BY <2>3, <2>4, ListingGrows
<1>7. Between(r)'
  BY <1>1 DEF RunInv, Between, IsNext
<1> QED
  BY <1>4, <1>5, <1>6, <1>7

\* An entry that is added at the end moves no offset.
LEMMA AppendKept ==
    ASSUME TypeOK, Listing, NEW new \in Papers, new > newest, NEW r \in Incremental, RunInv(r),
           published' \subseteq published \cup {new}, Matching(r)' = Matching(r) \cup {new}
    PROVE  OffsetDone(r)' /\ OffsetInside(r)'
<1>1. /\ it' = it /\ pc' = pc
      /\ \A p \in Papers : Known(p) => Known(p)'
  BY ListingGrows
<1>2. Matching(r)' = Matching(r) \cup {new}
  OBVIOUS
<1>3. Papers \subseteq Nat /\ Matching(r) \subseteq Papers /\ it[r].start \in Nat
      /\ IsFiniteSet(Matching(r)) /\ Cardinality(Matching(r)) \in Nat
  BY MatchingFinite, SyncAssumption DEF TypeOK, Iterations, Incremental
<1>4. Cardinality(Matching(r)') = Cardinality(Matching(r)) + 1
  BY <1>1, <1>2, <1>3, NewEntryMatches, FS_AddElement
<1>5. OffsetInside(r)'
  <2> SUFFICES ASSUME Open(r), it[r].more, it[r].start # 0
               PROVE  it[r].start < Cardinality(Matching(r)')
    BY <1>1 DEF OffsetInside, Open
  <2>1. it[r].start < Cardinality(Matching(r))
    BY DEF RunInv, OffsetInside
  <2> QED
    BY <1>3, <1>4, <2>1
<1>6. OffsetDone(r)'
  <2> SUFFICES ASSUME Open(r), it[r].more, NEW q \in published' \ Malformed,
                      Matches(r, q), Offset(r, q)' < it[r].start
               PROVE  q \in it[r].page \/ Known(q)'
    BY <1>1 DEF OffsetDone, Open, Matches
  <2>1. CASE q = new
    <3>1. {x \in Matching(r)' : x < new} = Matching(r)
      BY <1>1, <1>2, <1>3, NewEntryMatches
    <3>2. Offset(r, q)' = Cardinality(Matching(r))
      BY <2>1, <3>1 DEF Offset
    <3>3. it[r].start <= Cardinality(Matching(r))
      BY <1>3 DEF RunInv, OffsetInside
    <3> QED
      BY <1>3, <3>2, <3>3
  <2>2. CASE q # new
    <3>1. q \in published /\ q \in Matching(r) /\ q \in Papers
      BY <1>1, <2>2 DEF Matching, TypeOK
    <3>2. ~(new < q)
      BY <1>1, <1>3, <3>1, NewEntryMatches
    <3>3. {x \in Matching(r)' : x < q} = {x \in Matching(r) : x < q}
      BY <1>2, <3>2
    <3>4. Offset(r, q) < it[r].start
      BY <3>3 DEF Offset
    <3> QED
      BY <1>1, <3>1, <3>4 DEF RunInv, OffsetDone
  <2> QED
    BY <2>1, <2>2
<1> QED
  BY <1>5, <1>6

LEMMA PublishKept ==
    ASSUME TypeOK, NEW new \in Papers, Publish(new), NEW r \in Incremental, RunInv(r)
    PROVE  OffsetDone(r)' /\ OffsetInside(r)'
<1>1. Listing /\ new > newest /\ published' = published \cup {new} /\ it' = it
  BY DEF Listing, Publish, Appears
<1>2. Matching(r)' = Matching(r) \cup {new}
  BY <1>1, NewEntryMatches DEF Matching, Matches
<1> QED
  BY <1>1, <1>2, AppendKept

\* A revision moves the entries after the old one, which is what "displaced"
\* records; the number of matches does not fall.
LEMMA ReviseKept ==
    ASSUME TypeOK, TypeOK', NEW old \in Papers, NEW new \in Papers, Revise(old, new),
           NEW r \in Incremental, RunInv(r)
    PROVE  OffsetDone(r)' /\ OffsetInside(r)'
<1>1. /\ Listing /\ it' = it /\ pc' = pc /\ new > newest
      /\ published' = (published \ {old}) \cup {new} /\ old \in published
      /\ \A p \in Papers : Known(p) => Known(p)'
  BY ListingGrows DEF Listing, Revise, Appears
<1>2. Papers \subseteq Nat /\ Matching(r) \subseteq Papers /\ it[r].start \in Nat
      /\ IsFiniteSet(Matching(r)) /\ Cardinality(Matching(r)) \in Nat
  BY MatchingFinite, SyncAssumption DEF TypeOK, Iterations, Incremental
<1>3. CASE ~Matches(r, old)
  <2>1. Matching(r)' = Matching(r) \cup {new}
    BY <1>1, <1>3, NewEntryMatches DEF Matching, Matches
  <2> QED
    BY <1>1, <2>1, AppendKept
<1>4. CASE it[r].start = 0
  <2>1. OffsetInside(r)'
    BY <1>1, <1>4 DEF OffsetInside
  <2>2. ASSUME NEW q PROVE ~(Offset(r, q)' < it[r].start)
    BY <1>4, NextOffsetType
  <2> QED
    BY <1>1, <2>1, <2>2 DEF OffsetDone
<1>5. CASE Matches(r, old) /\ it[r].start # 0
  <2>1. old \in Matching(r) /\ new \notin Matching(r)
    BY <1>1, <1>5, NewEntryMatches DEF Matching
  <2>2. Matching(r)' = (Matching(r) \ {old}) \cup {new}
    BY <1>1, NewEntryMatches DEF Matching, Matches
  <2>3. /\ IsFiniteSet(Matching(r) \ {old})
        /\ Cardinality(Matching(r) \ {old}) = Cardinality(Matching(r)) - 1
    BY <1>2, <2>1, FS_RemoveElement
  <2>4. Cardinality(Matching(r)') = Cardinality(Matching(r))
    <3>1. Cardinality((Matching(r) \ {old}) \cup {new}) = Cardinality(Matching(r) \ {old}) + 1
      BY <2>1, <2>3, FS_AddElement
    <3> QED
      BY <1>2, <2>2, <2>3, <3>1
  <2>5. OffsetInside(r)'
    BY <1>1, <2>4 DEF RunInv, OffsetInside, Open
  <2>6. OffsetDone(r)'
    <3> SUFFICES ASSUME Open(r), it[r].more, NEW q \in published' \ Malformed,
                        Matches(r, q), Offset(r, q)' < it[r].start
                 PROVE  q \in it[r].page \/ Known(q)'
      BY <1>1 DEF OffsetDone, Open, Matches
    <3>1. CASE q = new
      <4>1. {x \in Matching(r)' : x < new} = Matching(r) \ {old}
        BY <1>1, <1>2, <2>2, NewEntryMatches
      <4>2. Offset(r, q)' = Cardinality(Matching(r)) - 1
        BY <2>3, <3>1, <4>1 DEF Offset
      <4>3. it[r].start < Cardinality(Matching(r))
        BY <1>5 DEF RunInv, OffsetInside
      <4> QED
        BY <1>2, <4>2, <4>3
    <3>2. CASE q # new
      <4>1. q \in published /\ q \in Matching(r) /\ q \in Papers /\ q # old
        BY <1>1, <3>2 DEF Matching, TypeOK
      <4>2. CASE q > old
        <5>1. Iterating(r)
          BY <1>5 DEF RunInv, Between, Open, Iterating, TypeOK, Incremental
        <5>2. it[r].start > 0 /\ r \in Runs
          BY <1>2, <1>5 DEF Incremental
        <5>3. displaced' = displaced \cup {p \in published : p > old}
          BY <1>5, <5>1, <5>2 DEF Revise
        <5> QED
          BY <4>1, <4>2, <5>3 DEF Known
      <4>3. CASE q < old
        <5>1. {x \in Matching(r)' : x < q} = {x \in Matching(r) : x < q}
          BY <1>1, <1>2, <2>2, <4>1, <4>3, NewEntryMatches
        <5>2. Offset(r, q) < it[r].start
          BY <5>1 DEF Offset
        <5> QED
          BY <1>1, <4>1, <5>2 DEF RunInv, OffsetDone
      <4> QED
        BY <1>2, <4>1, <4>2, <4>3
    <3> QED
      BY <3>1, <3>2
  <2> QED
    BY <2>5, <2>6
<1> QED
  BY <1>3, <1>4, <1>5

LEMMA ListingInv ==
    ASSUME CheckpointInv, TypeOK', Listing
    PROVE  CheckpointInv'
<1>1. TypeOK /\ Safe(checkpoint) /\ \A r \in Incremental : RunInv(r)
  BY DEF CheckpointInv
<1>2. Safe(checkpoint)'
  <2>1. PICK t \in Times : t = checkpoint
    BY <1>1 DEF TypeOK
  <2>2. Safe(t)' /\ checkpoint' = checkpoint
    BY <1>1, <2>1, SafeListing, ListingGrows
  <2> QED
    BY <2>1, <2>2 DEF Safe, Covered, Reached
<1>3. ASSUME NEW r \in Incremental PROVE RunInv(r)'
  <2>1. OffsetDone(r)' /\ OffsetInside(r)'
    BY <1>1, PublishKept, ReviseKept DEF Listing
  <2> QED
    BY <1>1, <2>1, ListingKeepsPage DEF RunInv
<1> QED
  BY <1>2, <1>3 DEF CheckpointInv, Incremental

-----------------------------------------------------------------------------
(* A process takes a step. *)

LEMMA ProcessGrows ==
    ASSUME TypeOK, NEW r \in Runs, NEW p \in Papers, Process(r, p)
    PROVE  /\ Grows
           /\ checkpoint' = checkpoint
           /\ \A s \in Runs \ {r} : it'[s] = it[s] /\ pc'[s] = pc[s]
           /\ IsNext(r, p)
           /\ \/ StorePaper(r, p)
              \/ /\ pc[r] \in {"paper", "content"}
                 /\ \E ok \in BOOLEAN : Yield(r, p, ok)
                 /\ pc[r] = "paper" => Known(p)'
                 /\ pc[r] = "content" => Known(p)' \/ p \notin stored
<1>1. CASE StorePaper(r, p)
  BY <1>1 DEF StorePaper, Grows, Known, Traced, feedVars, Goto, TypeOK
<1>2. CASE SkipPaper(r, p)
  BY <1>2 DEF SkipPaper, Grows, Known, Traced, feedVars, paperVars, Yield, Goto, TypeOK
<1>3. CASE IndexPaper(r, p)
  BY <1>3 DEF IndexPaper, Grows, Known, Traced, feedVars, Yield, Goto, TypeOK
<1>4. CASE FailPaper(r, p)
  BY <1>4 DEF FailPaper, Grows, Known, Traced, feedVars, Yield, Goto, TypeOK
<1>5. CASE FailMetadata(r, p)
  BY <1>5 DEF FailMetadata, Grows, Known, Traced, feedVars, Yield, Goto, TypeOK
<1>6. CASE FailUnrecorded(r, p)
  BY <1>6 DEF FailUnrecorded, Grows, Known, Traced, feedVars, Yield, Goto, TypeOK
<1> QED
  BY <1>1, <1>2, <1>3, <1>4, <1>5, <1>6 DEF Process

LEMMA RunGrows ==
    ASSUME TypeOK, NEW r \in Runs, Work(r) \/ Disturb(r)
    PROVE  /\ Grows
           /\ \A s \in Runs \ {r} : it'[s] = it[s] /\ pc'[s] = pc[s]
           /\ checkpoint' = checkpoint \/ CloseRun(r)
<1>1. CASE \E p \in Papers : Process(r, p)
  BY <1>1, ProcessGrows
<1>2. CASE ReadCheckpoint(r) \/ StartRun(r) \/ LoadCheckpoint(r) \/ CloseRun(r)
  BY <1>2 DEF ReadCheckpoint, StartRun, LoadCheckpoint, CloseRun,
              Grows, Known, Traced, paperVars, feedVars, Goto, TypeOK
<1>3. CASE FetchPage(r) \/ ShortPage(r)
  BY <1>3 DEF FetchPage, ShortPage, TakePage,
              Grows, Known, Traced, paperVars, feedVars, Goto, TypeOK
<1>4. CASE FeedError(r) \/ Cancel(r) \/ Crash(r)
  BY <1>4 DEF FeedError, Cancel, Crash,
              Grows, Known, Traced, paperVars, feedVars, Goto, TypeOK
<1> QED
  BY <1>1, <1>2, <1>3, <1>4 DEF Work, Disturb

LEMMA ProcessInv ==
    ASSUME TypeOK, NEW r \in Incremental, RunInv(r), NEW p \in Papers, Process(r, p)
    PROVE  RunInv(r)'
<1>1. Grows /\ IsNext(r, p) /\ r \in Runs
  BY ProcessGrows DEF Incremental
<1>2. CASE StorePaper(r, p)
  <2>1. it' = it /\ pc[r] = "paper" /\ pc'[r] = "content" /\ p \in stored'
    BY <1>1, <1>2 DEF StorePaper, Goto, TypeOK
  <2>2. ASSUME NEW x \in it[r].page, IsNext(r, x) PROVE x = p
    <3>1. x <= p /\ p <= x /\ p \in Nat /\ x \in Nat
      BY <1>1, <2>2, SyncAssumption DEF IsNext, TypeOK, Iterations
    <3> QED
      BY <3>1
  <2>3. Between(r)'
    BY <2>1, <2>2 DEF Between, IsNext
  <2> QED
    BY <1>1, <2>1, <2>3, RunKept DEF Open
<1>3. CASE ~StorePaper(r, p)
  <2>1. pc[r] \in {"paper", "content"}
    BY <1>1, <1>3, ProcessGrows
  <2>2. PICK ok \in BOOLEAN : Yield(r, p, ok)
    BY <1>1, <1>3, ProcessGrows
  <2>3. Known(p)'
    <3>1. CASE pc[r] = "paper"
      BY <1>1, <1>3, <3>1, ProcessGrows
    <3>2. CASE pc[r] = "content"
      <4>1. p \in stored
        BY <1>1, <3>2 DEF RunInv, Between, IsNext
      <4> QED
        BY <1>1, <4>1 DEF Grows, Known, Traced
    <3> QED
      BY <2>1, <3>1, <3>2
  <2> QED
    BY <1>1, <2>1, <2>2, <2>3, YieldKept
<1> QED
  BY <1>2, <1>3

LEMMA RunStepInv ==
    ASSUME TypeOK, TypeOK', Safe(checkpoint), NEW r \in Incremental, RunInv(r),
           Work(r) \/ Disturb(r)
    PROVE  RunInv(r)'
<1>1. Grows /\ r \in Runs /\ r \notin Backfills
  BY RunGrows DEF Incremental
<1>2. CASE ReadCheckpoint(r)
  BY <1>1, <1>2, FreshRun DEF ReadCheckpoint, Goto, TypeOK
<1>3. CASE StartRun(r)
  <2>1. it' = it /\ pc[r] = "open" /\ pc'[r] = "page"
    BY <1>1, <1>3 DEF StartRun, Goto, TypeOK
  <2>2. Between(r)'
    BY <2>1 DEF RunInv, Between
  <2> QED
    BY <1>1, <2>1, <2>2, RunKept DEF Open
<1>4. CASE FetchPage(r)
  BY <1>1, <1>4, RequestSizeType, TakePageKept DEF FetchPage
<1>5. CASE \E p \in Papers : Process(r, p)
  BY <1>5, ProcessInv
<1>6. CASE LoadCheckpoint(r) \/ FeedError(r) \/ Cancel(r)
  <2>1. /\ it'[r].since = it[r].since /\ it'[r].mark = it[r].mark
        /\ it'[r].page = it[r].page /\ it'[r].start = it[r].start
        /\ it'[r].more = it[r].more
    BY <1>1, <1>6 DEF LoadCheckpoint, FeedError, Cancel, TypeOK, Iterations
  <2>2. pc'[r] \in {"finish", "close"}
    BY <1>1, <1>6 DEF LoadCheckpoint, FeedError, Cancel, Goto, TypeOK
  <2>3. Between(r)' /\ ~Open(r)'
    BY <2>2 DEF Between, Open
  <2> QED
    BY <1>1, <2>1, <2>3, RunKept
<1>7. CASE CloseRun(r) \/ Crash(r)
  <2>1. it'[r] = NoRun /\ pc'[r] = "idle"
    BY <1>1, <1>7 DEF CloseRun, Crash, Goto, TypeOK
  <2>2. NoRun = [NoRun EXCEPT !.since = 0]
    BY DEF NoRun
  <2> QED
    BY <1>1, <2>1, <2>2, FreshRun, SafeZero
<1>8. CASE ShortPage(r)
  <2>1. PICK n \in 0 .. RequestSize(r) - 1 : TakePage(r, n)
    BY <1>8 DEF ShortPage
  <2>2. n \in Int
    BY <1>1, RequestSizeType
  <2> QED
    BY <1>1, <2>1, <2>2, TakePageKept
<1> QED
  BY <1>2, <1>3, <1>4, <1>5, <1>6, <1>7, <1>8 DEF Work, Disturb

LEMMA RunStepCheckpoint ==
    ASSUME CheckpointInv, NEW r \in Runs, Work(r) \/ Disturb(r)
    PROVE  Safe(checkpoint)'
<1>1. TypeOK /\ Grows /\ (checkpoint' = checkpoint \/ CloseRun(r))
  BY RunGrows DEF CheckpointInv
<1>2. PICK t : t = checkpoint'
  OBVIOUS
<1>3. Safe(t)
  <2>1. CASE t = checkpoint
    BY <2>1 DEF CheckpointInv
  <2>2. CASE t # checkpoint
    <3>1. t = it[r].mark /\ r \in Incremental
      BY <1>1, <1>2, <2>2 DEF CloseRun, NewCheckpoint, MovesCheckpoint, Advances, Incremental
    <3> QED
      BY <3>1 DEF CheckpointInv, RunInv, MarkSafe
  <2> QED
    BY <2>1, <2>2
<1>4. Safe(t)'
  BY <1>1, <1>3, SafeGrows
<1> QED
  BY <1>2, <1>4 DEF Safe, Covered, Reached

LEMMA RunInvStep ==
    ASSUME CheckpointInv, TypeOK', NEW r \in Runs, Work(r) \/ Disturb(r)
    PROVE  CheckpointInv'
<1>1. TypeOK /\ Safe(checkpoint) /\ \A s \in Incremental : RunInv(s)
  BY DEF CheckpointInv
<1>2. ASSUME NEW s \in Incremental PROVE RunInv(s)'
  <2>1. CASE s = r
    BY <1>1, <2>1, RunStepInv
  <2>2. CASE s # r
    <3>1. it'[s] = it[s] /\ pc'[s] = pc[s] /\ Grows
      BY <1>1, <2>2, RunGrows DEF Incremental
    <3>2. Between(s)'
      BY <1>1, <3>1 DEF RunInv, Between, IsNext, Grows
    <3> QED
      BY <1>1, <3>1, <3>2, RunKept DEF Open
  <2> QED
    BY <2>1, <2>2
<1> QED
  BY <1>2, RunStepCheckpoint DEF CheckpointInv, Incremental

LEMMA InitCheckpointInv == Init => CheckpointInv
<1> SUFFICES ASSUME Init PROVE CheckpointInv
  OBVIOUS
<1>1. TypeOK
  BY InitTypeOK
<1>2. Safe(0)
  BY <1>1, SafeZero
<1>3. Safe(checkpoint)
  BY <1>2 DEF Init
<1>4. ASSUME NEW r \in Incremental PROVE RunInv(r)
  <2>1. it[r] = NoRun /\ pc[r] = "idle" /\ published = {}
    BY DEF Init, Incremental
  <2> QED
    BY <1>2, <2>1 DEF NoRun, RunInv, SinceSafe, MarkSafe, PageSeen, PageComplete,
                      OffsetDone, OffsetInside, Between
<1> QED
  BY <1>1, <1>3, <1>4 DEF CheckpointInv

LEMMA NextCheckpointInv == CheckpointInv /\ [Next]_vars => CheckpointInv'
<1> SUFFICES ASSUME CheckpointInv, [Next]_vars PROVE CheckpointInv'
  OBVIOUS
<1>1. TypeOK'
  BY NextTypeOK DEF CheckpointInv
<1>2. CASE Listing
  BY <1>1, <1>2, ListingInv
<1>3. ASSUME NEW r \in Runs, Work(r) \/ Disturb(r) PROVE CheckpointInv'
  BY <1>1, <1>3, RunInvStep
<1>4. CASE (\E p \in Papers : BackoffElapses(p)) \/ UNCHANGED vars
  <2>1. it' = it /\ pc' = pc /\ stored' = stored /\ checkpoint' = checkpoint /\ Grows
    BY <1>4 DEF BackoffElapses, vars, Grows, Known, Traced, feedVars
  <2>2. ASSUME NEW r \in Incremental PROVE RunInv(r)'
    <3>1. Between(r)'
      BY <2>1 DEF CheckpointInv, RunInv, Between, IsNext
    <3> QED
      BY <2>1, <3>1, RunKept DEF CheckpointInv, Open
  <2>3. Safe(checkpoint)'
    <3>1. PICK t : t = checkpoint
      OBVIOUS
    <3>2. Safe(t)'
      BY <2>1, <3>1, SafeGrows DEF CheckpointInv
    <3> QED
      BY <2>1, <3>1, <3>2 DEF Safe, Covered, Reached
  <2> QED
    BY <1>1, <2>2, <2>3 DEF CheckpointInv, Incremental
<1> QED
  BY <1>2, <1>3, <1>4 DEF Next

\* Whatever crashes, is cancelled, fails or runs at the same time, every entry
\* older than the checkpoint was handed to the pipeline, unless a revision
\* moved it between two pages of a run.
THEOREM CheckpointSkipsNothing == Spec => []NothingSkipped
<1>1. CheckpointInv => NothingSkipped
  BY DEF CheckpointInv, Safe, NothingSkipped
<1> QED
  BY <1>1, InitCheckpointInv, NextCheckpointInv, PTL DEF Spec

-----------------------------------------------------------------------------
(***************************************************************************)
(* What the checkpoint rests on. A mark is taken only from a paper that was*)
(* stored or found stored, for backfills too, and rows are never deleted.  *)
(***************************************************************************)

\* t is the timestamp of a paper that has a row.
Backed(t) == t # 0 => \E p \in stored : UpdatedAt[p] = t

BackedInv ==
    /\ TypeOK
    /\ Backed(checkpoint)
    /\ \A r \in Runs : Backed(it[r].mark)
    /\ \A r \in Runs, p \in Papers : pc[r] = "content" /\ IsNext(r, p) => p \in stored

\* A step of r leaves the other runs and the rows there, and sets the mark of r
\* to nothing, or to what it was, or to the timestamp of a stored paper.
LEMMA MarkSources ==
    ASSUME BackedInv, NEW r \in Runs, Work(r) \/ Disturb(r)
    PROVE  /\ stored \subseteq stored'
           /\ \A s \in Runs \ {r} : it'[s] = it[s] /\ pc'[s] = pc[s]
           /\ \/ it'[r].mark \in {0, it[r].mark}
              \/ \E p \in stored : it'[r].mark = UpdatedAt[p]
           /\ \A p \in Papers : pc'[r] = "content" /\ IsNext(r, p)' => p \in stored'
           /\ checkpoint' \in {checkpoint, it[r].mark}
<1>0. TypeOK /\ it \in [Runs -> Iterations] /\ pc \in [Runs -> {"idle", "open", "page",
        "paper", "content", "finish", "close"}]
  BY DEF BackedInv, TypeOK
<1>1. ASSUME NEW p \in Papers, NEW ok \in BOOLEAN, Yield(r, p, ok), ok => p \in stored
      PROVE  /\ \A s \in Runs \ {r} : it'[s] = it[s] /\ pc'[s] = pc[s]
             /\ \/ it'[r].mark = it[r].mark
                \/ \E q \in stored : it'[r].mark = UpdatedAt[q]
             /\ pc'[r] # "content"
  BY <1>0, <1>1 DEF Yield, Watermark, Goto, Iterations
<1>2. CASE ReadCheckpoint(r)
  BY <1>0, <1>2 DEF ReadCheckpoint, NoRun, Goto, paperVars
<1>3. CASE StartRun(r)
  BY <1>0, <1>3 DEF StartRun, Goto, paperVars
<1>4. CASE FetchPage(r) \/ ShortPage(r)
  <2>1. PICK n : TakePage(r, n)
    BY <1>4 DEF FetchPage, ShortPage
  <2> QED
    BY <1>0, <2>1 DEF TakePage, Goto, paperVars, Iterations
<1>5. ASSUME NEW p \in Papers, Process(r, p)
      PROVE  /\ stored \subseteq stored'
             /\ \A s \in Runs \ {r} : it'[s] = it[s] /\ pc'[s] = pc[s]
             /\ \/ it'[r].mark = it[r].mark
                \/ \E q \in stored : it'[r].mark = UpdatedAt[q]
             /\ \A q \in Papers : pc'[r] = "content" /\ IsNext(r, q)' => q \in stored'
             /\ checkpoint' = checkpoint
  <2>1. CASE StorePaper(r, p)
    <3>1. \A q \in Papers : IsNext(r, q) => q = p
      BY <2>1, SyncAssumption DEF StorePaper, IsNext
    <3> QED
      BY <1>0, <2>1, <3>1 DEF StorePaper, Goto, IsNext
  <2>2. CASE SkipPaper(r, p)
    BY <1>1, <2>2 DEF SkipPaper, paperVars
  <2>3. CASE IndexPaper(r, p)
    <3>1. p \in stored
      BY <2>3 DEF BackedInv, IndexPaper
    <3> QED
      BY <1>1, <2>3, <3>1 DEF IndexPaper
  <2>4. CASE FailPaper(r, p) \/ FailMetadata(r, p) \/ FailUnrecorded(r, p)
    BY <1>1, <2>4 DEF FailPaper, FailMetadata, FailUnrecorded
  <2> QED
    BY <1>5, <2>1, <2>2, <2>3, <2>4 DEF Process
<1>6. CASE FeedError(r) \/ Cancel(r) \/ LoadCheckpoint(r)
  BY <1>0, <1>6 DEF FeedError, Cancel, LoadCheckpoint, Goto, paperVars, Iterations
<1>7. CASE CloseRun(r) \/ Crash(r)
  BY <1>0, <1>7 DEF CloseRun, NewCheckpoint, Crash, NoRun, Goto, paperVars
<1> QED
  BY <1>2, <1>3, <1>4, <1>5, <1>6, <1>7 DEF Work, Disturb

LEMMA NextBackedInv == BackedInv /\ [Next]_vars => BackedInv'
<1> SUFFICES ASSUME BackedInv, [Next]_vars PROVE BackedInv'
  OBVIOUS
<1>1. TypeOK' /\ stored \subseteq Papers
  BY NextTypeOK DEF BackedInv, TypeOK
<1>2. ASSUME NEW r \in Runs, Work(r) \/ Disturb(r) PROVE BackedInv'
  <2>1. \A s \in Runs : Backed(it[s].mark)'
    BY <1>2, MarkSources DEF BackedInv, Backed
  <2>2. Backed(checkpoint)'
    BY <1>2, MarkSources DEF BackedInv, Backed
  <2>3. \A s \in Runs, p \in Papers : pc'[s] = "content" /\ IsNext(s, p)' => p \in stored'
    BY <1>2, MarkSources DEF BackedInv, IsNext
  <2> QED
    BY <1>1, <2>1, <2>2, <2>3 DEF BackedInv
<1>3. CASE Listing \/ (\E p \in Papers : BackoffElapses(p)) \/ UNCHANGED vars
  <2>1. UNCHANGED <<stored, checkpoint, pc, it>>
    BY <1>3 DEF Listing, Publish, Revise, BackoffElapses, vars, paperVars
  <2> QED
    BY <1>1, <2>1 DEF BackedInv, Backed, IsNext
<1> QED
  BY <1>2, <1>3 DEF Next

\* The checkpoint is always the timestamp of a paper that has a row, whichever
\* runs are aborted, cancelled or lose the metadata of a paper.
THEOREM CheckpointRestsOnPaper == Spec => []CheckpointIsBacked
<1>1. Init => BackedInv
  BY InitTypeOK DEF Init, BackedInv, Backed, NoRun
<1>2. BackedInv => CheckpointIsBacked
  BY DEF BackedInv, Backed, CheckpointIsBacked
<1> QED
  BY <1>1, <1>2, NextBackedInv, PTL DEF Spec

-----------------------------------------------------------------------------
(***************************************************************************)
(* Beside a single incremental process nothing moves the checkpoint: what  *)
(* it loaded in its finally block is what it compares its mark with.       *)
(***************************************************************************)

LoadedIsCurrent ==
    TypeOK /\ \A r \in Incremental : pc[r] = "close" => it[r].seen = checkpoint

\* A step of r: who moves the checkpoint, and where it can lead to "close".
LEMMA CheckpointMoves ==
    ASSUME TypeOK, NEW r \in Runs, Work(r) \/ Disturb(r)
    PROVE  /\ \A s \in Runs \ {r} : it'[s] = it[s] /\ pc'[s] = pc[s]
           /\ pc'[r] = "close" => it'[r].seen = checkpoint' /\ checkpoint' = checkpoint
           /\ \/ checkpoint' = checkpoint
              \/ /\ r \in Incremental /\ pc[r] = "close" /\ pc'[r] = "idle"
                 /\ checkpoint' = it[r].mark /\ it[r].mark > it[r].seen
<1>0. it \in [Runs -> Iterations] /\ pc \in [Runs -> {"idle", "open", "page", "paper",
        "content", "finish", "close"}]
  BY DEF TypeOK
<1>1. CASE CloseRun(r)
  BY <1>0, <1>1 DEF CloseRun, NewCheckpoint, MovesCheckpoint, Advances, Incremental, Goto
<1>2. CASE LoadCheckpoint(r)
  BY <1>0, <1>2 DEF LoadCheckpoint, Goto, Iterations
<1>3. CASE ReadCheckpoint(r) \/ StartRun(r) \/ FeedError(r) \/ Cancel(r) \/ Crash(r)
  BY <1>0, <1>3 DEF ReadCheckpoint, StartRun, FeedError, Cancel, Crash, Goto
<1>4. CASE FetchPage(r) \/ ShortPage(r)
  <2>1. PICK n : TakePage(r, n)
    BY <1>4 DEF FetchPage, ShortPage
  <2> QED
    BY <1>0, <2>1 DEF TakePage, Goto
<1>5. ASSUME NEW p \in Papers, Process(r, p)
      PROVE  /\ \A s \in Runs \ {r} : it'[s] = it[s] /\ pc'[s] = pc[s]
             /\ pc'[r] # "close" /\ checkpoint' = checkpoint
  BY <1>0, <1>5 DEF Process, StorePaper, SkipPaper, IndexPaper, FailPaper, FailMetadata,
     FailUnrecorded, Yield, Goto
<1> QED
  BY <1>1, <1>2, <1>3, <1>4, <1>5 DEF Work, Disturb

\* Beside any number of backfills, the checkpoint of a single incremental
\* process never moves back (advance_checkpoint compares with what it loaded).
THEOREM BackfillsNeverRewind ==
    ASSUME \A r, s \in Incremental : r = s
    PROVE  Spec => CheckpointNeverRewinds
<1>1. Init => LoadedIsCurrent
  BY InitTypeOK DEF Init, LoadedIsCurrent, Incremental
<1>2. ASSUME LoadedIsCurrent, [Next]_vars PROVE LoadedIsCurrent' /\ checkpoint' >= checkpoint
  <2>1. TypeOK' /\ checkpoint \in Nat /\ checkpoint' \in Nat
    BY <1>2, NextTypeOK, TimesType DEF LoadedIsCurrent, TypeOK
  <2>2. ASSUME NEW r \in Runs, Work(r) \/ Disturb(r)
        PROVE  LoadedIsCurrent' /\ checkpoint' >= checkpoint
    <3>1. \A s \in Incremental : pc'[s] = "close" => it'[s].seen = checkpoint'
      BY <1>2, <2>2, CheckpointMoves DEF LoadedIsCurrent, Incremental
    <3>2. checkpoint' = checkpoint \/ checkpoint' > checkpoint
      BY <1>2, <2>2, CheckpointMoves DEF LoadedIsCurrent
    <3> QED
      BY <2>1, <3>1, <3>2 DEF LoadedIsCurrent
  <2>3. CASE Listing \/ (\E p \in Papers : BackoffElapses(p)) \/ UNCHANGED vars
    <3>1. UNCHANGED <<checkpoint, pc, it>>
      BY <2>3 DEF Listing, Publish, Revise, BackoffElapses, vars
    <3> QED
      BY <1>2, <2>1, <3>1 DEF LoadedIsCurrent
  <2> QED
    BY <1>2, <2>2, <2>3 DEF Next
<1> QED
  BY <1>1, <1>2, PTL DEF Spec, CheckpointNeverRewinds

-----------------------------------------------------------------------------
(***************************************************************************)
(* The fate of a paper when one process at a time ingests it: between the  *)
(* test of needs_work and the commit its row stays pending.                *)
(***************************************************************************)

FateInv ==
    /\ TypeOK
    /\ \A p \in Papers : p \notin stored => status[p].stage = "pending"
    /\ \A p \in Papers : status[p].stage = "pending" => status[p].attempts < MaxAttempts
    /\ \A r \in Runs, p \in Papers : pc[r] = "content" /\ IsNext(r, p) =>
         p \in stored /\ status[p].stage = "pending"

\* What PaperLifecycle sees of the rows.
StageOf == [p \in Papers |-> IF p \in stored THEN status[p].stage ELSE "absent"]

AttemptsOf == [p \in Papers |-> status[p].attempts]

PendingInBudget ==
    /\ \A p \in Papers : p \notin stored => status[p].stage = "pending"
    /\ \A p \in Papers : status[p].stage = "pending" => status[p].attempts < MaxAttempts

\* A recorded failure is Fail or GiveUp.
LEMMA CountImplements ==
    ASSUME FateInv, NEW p \in Papers, p \in stored, CountFailure(p), stored' = stored
    PROVE  Lifecycle!Next /\ PendingInBudget'
<1> DEFINE n == status[p].attempts
<1>1. /\ status[p] \in Statuses /\ n \in Nat /\ letters \in [Papers -> Nat]
      /\ status[p].stage \in Stages /\ MaxAttempts \in Nat
  BY MaxAttemptsAssumption DEF FateInv, TypeOK, Statuses
<1>2. /\ status'[p] = RecordAttemptFailure(status[p], status[p])
      /\ \A q \in Papers : q # p => status'[q] = status[q]
      /\ letters' = [letters EXCEPT ![p] = @ + LettersFor(status[p])]
  BY DEF CountFailure, FateInv, TypeOK
<1>3. /\ status'[p].attempts = n + 1
      /\ IF n + 1 >= MaxAttempts
         THEN status'[p].stage = "failed" /\ LettersFor(status[p]) = 1
         ELSE status'[p].stage = status[p].stage /\ LettersFor(status[p]) = 0
  BY <1>1, <1>2 DEF RecordAttemptFailure, ExhaustedBy, LettersFor, Column, Statuses
<1>4. PendingInBudget'
  BY <1>1, <1>2, <1>3 DEF FateInv, PendingInBudget
<1>5. /\ AttemptsOf' = [AttemptsOf EXCEPT ![p] = @ + 1] /\ AttemptsOf[p] = n
      /\ StageOf[p] # "absent"
  BY <1>1, <1>2, <1>3 DEF StageOf, AttemptsOf, Stages
<1>6. CASE n + 1 >= MaxAttempts
  <2>1. StageOf' = [StageOf EXCEPT ![p] = "failed"] /\ letters' = [letters EXCEPT ![p] = @ + 1]
    BY <1>2, <1>3, <1>6 DEF StageOf
  <2>2. Lifecycle!GiveUp(p)
    BY <1>5, <1>6, <2>1 DEF Lifecycle!GiveUp, StageOf, AttemptsOf
  <2> QED
    BY <1>4, <2>2 DEF Lifecycle!Next
<1>7. CASE ~(n + 1 >= MaxAttempts)
  <2>1. StageOf' = StageOf /\ letters' = letters
    BY <1>1, <1>2, <1>3, <1>7 DEF StageOf
  <2>2. n + 1 < MaxAttempts
    BY <1>1, <1>7
  <2>3. Lifecycle!Fail(p)
    BY <1>5, <2>1, <2>2 DEF Lifecycle!Fail, StageOf, AttemptsOf
  <2> QED
    BY <1>4, <2>3 DEF Lifecycle!Next
<1> QED
  BY <1>6, <1>7

\* A step of r that goes on with a paper, or does not touch any.
LEMMA ProcessImplements ==
    ASSUME FateInv, NEW r \in Runs, NEW p \in Papers, Process(r, p)
    PROVE  /\ [Lifecycle!Next]_(Lifecycle!vars) /\ PendingInBudget'
           /\ \A q \in Papers : pc'[r] = "content" /\ IsNext(r, q)' =>
                q \in stored' /\ status'[q].stage = "pending"
<1>0. /\ TypeOK /\ status[p] \in Statuses
      /\ pc \in [Runs -> {"idle", "open", "page", "paper", "content", "finish", "close"}]
  BY DEF FateInv, TypeOK
<1>1. ASSUME NEW ok \in BOOLEAN, Yield(r, p, ok) PROVE pc'[r] # "content"
  BY <1>0, <1>1 DEF Yield, Goto
<1>2. CASE StorePaper(r, p)
  <2>1. \A q \in Papers : IsNext(r, q)' => q = p
    BY <1>2, SyncAssumption DEF StorePaper, IsNext
  <2>2. status[p].stage = "pending" /\ stored' = stored \cup {p} /\ UNCHANGED <<status, letters>>
    BY <1>0, <1>2 DEF StorePaper, FateInv, NeedsWork, IsSettled, Statuses, Stages
  <2>3. PendingInBudget'
    BY <2>2 DEF FateInv, PendingInBudget
  <2>4. AttemptsOf' = AttemptsOf
    BY <2>2 DEF AttemptsOf
  <2>5. CASE p \in stored
    <3>1. StageOf' = StageOf
      BY <2>2, <2>5 DEF StageOf
    <3> QED
      BY <2>1, <2>2, <2>3, <2>4, <3>1 DEF Lifecycle!vars, StageOf, AttemptsOf
  <2>6. CASE p \notin stored
    <3>1. StageOf' = [StageOf EXCEPT ![p] = "pending"] /\ StageOf[p] = "absent"
      BY <2>2, <2>6 DEF StageOf
    <3>2. Lifecycle!Register(p)
      BY <2>2, <2>4, <3>1 DEF Lifecycle!Register, StageOf, AttemptsOf
    <3>3. Lifecycle!Next
      BY <3>2 DEF Lifecycle!Next
    <3> QED
      BY <2>1, <2>2, <2>3, <3>3
  <2> QED
    BY <2>5, <2>6
<1>3. CASE SkipPaper(r, p)
  <2>1. UNCHANGED <<stored, status, letters>> /\ pc'[r] # "content"
    BY <1>1, <1>3 DEF SkipPaper, paperVars
  <2> QED
    BY <2>1 DEF FateInv, PendingInBudget, Lifecycle!vars
<1>4. CASE IndexPaper(r, p)
  <2>1. /\ p \in stored /\ status[p].stage = "pending" /\ status[p].attempts < MaxAttempts
        /\ UNCHANGED <<stored, letters>> /\ pc'[r] # "content"
    BY <1>1, <1>4 DEF IndexPaper, FateInv
  <2>2. /\ status'[p].stage = "indexed" /\ status'[p].attempts = status[p].attempts
        /\ \A q \in Papers : q # p => status'[q] = status[q]
    BY <1>0, <1>4, <2>1 DEF IndexPaper, TypeOK, AdvanceToIndexed, Column, Statuses
  <2>3. PendingInBudget'
    BY <2>1, <2>2 DEF FateInv, PendingInBudget
  <2>4. /\ StageOf' = [StageOf EXCEPT ![p] = "indexed"] /\ StageOf[p] = "pending"
        /\ AttemptsOf' = AttemptsOf /\ AttemptsOf[p] < MaxAttempts
    BY <2>1, <2>2 DEF StageOf, AttemptsOf
  <2>5. Lifecycle!Index(p)
    BY <2>1, <2>4 DEF Lifecycle!Index, StageOf, AttemptsOf
  <2>6. Lifecycle!Next
    BY <2>5 DEF Lifecycle!Next
  <2> QED
    BY <2>1, <2>3, <2>6
<1>5. CASE FailPaper(r, p) \/ (FailMetadata(r, p) /\ p \in stored)
  <2>1. p \in stored /\ CountFailure(p) /\ stored' = stored /\ pc'[r] # "content"
    BY <1>1, <1>5 DEF FailPaper, FailMetadata, FateInv
  <2> QED
    BY <2>1, CountImplements
<1>6. CASE (FailMetadata(r, p) /\ p \notin stored) \/ FailUnrecorded(r, p)
  <2>1. UNCHANGED <<stored, status, letters>> /\ pc'[r] # "content"
    BY <1>1, <1>6 DEF FailMetadata, FailUnrecorded
  <2> QED
    BY <2>1 DEF FateInv, PendingInBudget, Lifecycle!vars
<1> QED
  BY <1>2, <1>3, <1>4, <1>5, <1>6 DEF Process

LEMMA RunImplements ==
    ASSUME FateInv, NEW r \in Runs, Work(r) \/ Disturb(r)
    PROVE  /\ [Lifecycle!Next]_(Lifecycle!vars) /\ PendingInBudget'
           /\ \A q \in Papers : pc'[r] = "content" /\ IsNext(r, q)' =>
                q \in stored' /\ status'[q].stage = "pending"
<1>0. pc \in [Runs -> {"idle", "open", "page", "paper", "content", "finish", "close"}]
  BY DEF FateInv, TypeOK
<1>1. CASE \E p \in Papers : Process(r, p)
  BY <1>1, ProcessImplements
<1>2. CASE ~\E p \in Papers : Process(r, p)
  <2>1. CASE FetchPage(r) \/ ShortPage(r)
    <3>1. PICK n : TakePage(r, n)
      BY <2>1 DEF FetchPage, ShortPage
    <3>2. UNCHANGED <<stored, status, letters>> /\ pc'[r] # "content"
      BY <1>0, <3>1 DEF TakePage, Goto, paperVars
    <3> QED
      BY <3>2 DEF FateInv, PendingInBudget, Lifecycle!vars
  <2>2. CASE ~FetchPage(r) /\ ~ShortPage(r)
    <3>1. UNCHANGED <<stored, status, letters>> /\ pc'[r] # "content"
      BY <1>0, <1>2, <2>2 DEF Work, Disturb, ReadCheckpoint, StartRun, LoadCheckpoint, CloseRun,
         FeedError, Cancel, Crash, Goto, paperVars
    <3> QED
      BY <3>1 DEF FateInv, PendingInBudget, Lifecycle!vars
  <2> QED
    BY <2>1, <2>2
<1> QED
  BY <1>1, <1>2

\* A single process keeps the promises of PaperLifecycle, however often its
\* runs are cut short: what it tested is still so when it writes.
THEOREM LifecycleIsKept ==
    ASSUME \A r, s \in Runs : r = s
    PROVE  Spec => LifecycleSpec
<1>1. Init => Lifecycle!Init /\ FateInv
  <2>1. Init => Lifecycle!Init
    BY DEF Init, Lifecycle!Init, FreshStatus
  <2>2. Init => FateInv
    BY InitTypeOK, MaxAttemptsAssumption DEF Init, FateInv, FreshStatus
  <2> QED
    BY <2>1, <2>2
<1>2. ASSUME FateInv, [Next]_vars PROVE FateInv' /\ [Lifecycle!Next]_(Lifecycle!vars)
  <2>0. TypeOK' /\ TypeOK
    BY <1>2, NextTypeOK DEF FateInv
  <2>1. ASSUME NEW r \in Runs, Work(r) \/ Disturb(r)
        PROVE  FateInv' /\ [Lifecycle!Next]_(Lifecycle!vars)
    <3>1. \A s \in Runs, q \in Papers : pc'[s] = "content" /\ IsNext(s, q)' =>
            q \in stored' /\ status'[q].stage = "pending"
      BY <1>2, <2>1, RunImplements DEF IsNext
    <3> QED
      BY <1>2, <2>0, <2>1, <3>1, RunImplements DEF FateInv, PendingInBudget
  <2>2. ASSUME UNCHANGED <<stored, letters, pc, it>>,
               \A p \in Papers : /\ status'[p].stage = status[p].stage
                                 /\ status'[p].attempts = status[p].attempts
        PROVE  FateInv' /\ [Lifecycle!Next]_(Lifecycle!vars)
    BY <1>2, <2>0, <2>2 DEF FateInv, IsNext, Lifecycle!vars
  <2>3. CASE Listing \/ UNCHANGED vars
    BY <2>2, <2>3 DEF Listing, Publish, Revise, vars, paperVars
  <2>4. ASSUME NEW p \in Papers, BackoffElapses(p)
        PROVE  FateInv' /\ [Lifecycle!Next]_(Lifecycle!vars)
    <3>1. \A q \in Papers : /\ status'[q].stage = status[q].stage
                            /\ status'[q].attempts = status[q].attempts
      BY <2>0, <2>4 DEF BackoffElapses, TypeOK, Statuses
    <3> QED
      BY <2>2, <2>4, <3>1 DEF BackoffElapses
  <2> QED
    BY <1>2, <2>1, <2>3, <2>4 DEF Next
<1> QED
  BY <1>1, <1>2, PTL DEF Spec, LifecycleSpec, Lifecycle!Spec

=============================================================================
