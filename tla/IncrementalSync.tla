--------------------------- MODULE IncrementalSync ---------------------------
(***************************************************************************)
(* IngestionPipeline.run with run_incremental and run_backfill             *)
(* (ingestion/pipeline.py), the paging of ArxivClient.iter_papers, and the *)
(* checkpoint an incremental run reads at its start and moves at its end.  *)
(*                                                                         *)
(* A paper here is one entry (arxiv_id, version) of the arXiv listing. Its *)
(* number is its place in the listing, which is sorted by the updated      *)
(* timestamp, oldest first. Processing one paper takes the two             *)
(* transactions of _process_paper as two steps; what several runs do to    *)
(* one paper inside them is the subject of PaperProcessing.                *)
(***************************************************************************)
EXTENDS ProcessingStatus, FiniteSets

CONSTANTS
    Papers,        \* entries, numbered in listing order
    UpdatedAt,     \* UpdatedAt[p]: updated timestamp, in the minutes queries use
    Malformed,     \* entries parse_entry rejects
    Revisable,     \* entries whose paper may be revised
    Runs,          \* ingestion processes
    Backfills,     \* those of Runs that run run_backfill
    Window,        \* the entries a backfill's submission window selects
    PageSize,      \* page size of the client
    Limit,         \* limit of a run
    MaxFaults      \* bound: crashes, cancellations, short pages, feed and database errors

ASSUME SyncAssumption ==
    /\ Papers \subseteq Nat \ {0}
    /\ IsFiniteSet(Papers)
    /\ UpdatedAt \in [Papers -> Nat \ {0}]
    /\ \A p, q \in Papers : p < q => UpdatedAt[p] <= UpdatedAt[q]
    /\ Malformed \subseteq Papers /\ Window \subseteq Papers
    /\ Backfills \subseteq Runs
    /\ PageSize \in Nat \ {0} /\ Limit \in Nat \ {0} /\ MaxFaults \in Nat

VARIABLES
    published,   \* entries the listing shows
    newest,      \* the last entry that appeared, 0 for none
    stored,      \* papers with a row
    status,      \* status[p]: status row of a stored paper
    letters,     \* letters[p]: dead letters naming the row of p
    unstored,    \* papers dead-lettered without a row
    checkpoint,  \* last_updated_at_source, 0 for no checkpoint row
    pc,          \* pc[r]: where process r is
    it,          \* it[r]: the local variables of its run
    runRow,      \* runRow[r]: status of its latest ingestion_runs row
    faults,      \* faults so far
    unrecorded,  \* history: papers whose failure _record_failure failed to store
    displaced    \* history: entries an earlier entry's revision moved between pages

paperVars == <<stored, status, letters, unstored, unrecorded>>
feedVars == <<published, newest, displaced>>
vars == <<published, newest, stored, status, letters, unstored, checkpoint, pc, it,
          runRow, faults, unrecorded, displaced>>

Times == {0} \cup {UpdatedAt[p] : p \in Papers}

\* since: lower bound of the query; start, page, more: iter_papers; yielded:
\* papers handed out; mark: highest_watermark, 0 for None; seen: the
\* checkpoint advance_checkpoint loaded.
Iterations == [since : Times, start : Nat, page : SUBSET Papers, more : BOOLEAN,
               yielded : Nat, mark : Times, failed : BOOLEAN, error : BOOLEAN,
               seen : Times]

NoRun == [since |-> 0, start |-> 0, page |-> {}, more |-> TRUE, yielded |-> 0,
          mark |-> 0, failed |-> FALSE, error |-> FALSE, seen |-> 0]

Init ==
    /\ published = {} /\ newest = 0
    /\ stored = {}
    /\ status = [p \in Papers |-> FreshStatus]
    /\ letters = [p \in Papers |-> 0]
    /\ unstored = {}
    /\ checkpoint = 0
    /\ pc = [r \in Runs |-> "idle"]
    /\ it = [r \in Runs |-> NoRun]
    /\ runRow = [r \in Runs |-> "none"]
    /\ faults = 0
    /\ unrecorded = {} /\ displaced = {}

Goto(r, step) == pc' = [pc EXCEPT ![r] = step]

Fault == faults < MaxFaults /\ faults' = faults + 1

Iterating(r) == pc[r] \in {"page", "paper", "content"}

-----------------------------------------------------------------------------
(* The arXiv listing, an external service. *)

\* What the query of run r matches: ArxivQuery's inclusive lower bound.
Matches(r, p) == IF r \in Backfills THEN p \in Window ELSE UpdatedAt[p] >= it[r].since

Matching(r) == {p \in published : Matches(r, p)}

\* The offset of entry p in the answer to the query of run r.
Offset(r, p) == Cardinality({q \in Matching(r) : q < p})

\* Entries appear in the order of their numbers.
Appears(p) == p > newest /\ \A q \in Papers : q > newest => p <= q

\* A new entry appears at the end of the listing.
Publish(p) ==
    /\ Appears(p)
    /\ published' = published \cup {p}
    /\ newest' = p
    /\ UNCHANGED <<paperVars, displaced, checkpoint, pc, it, runRow, faults>>

\* A revision takes the place of an older entry, at the end of the listing. A
\* run that is between pages finds the entries after it one place earlier.
Revise(old, new) ==
    /\ old \in published \cap Revisable
    /\ Appears(new)
    /\ published' = (published \ {old}) \cup {new}
    /\ newest' = new
    /\ displaced' =
         IF \E r \in Runs : Iterating(r) /\ it[r].start > 0 /\ Matches(r, old)
         THEN displaced \cup {p \in published : p > old}
         ELSE displaced
    /\ UNCHANGED <<paperVars, checkpoint, pc, it, runRow, faults>>

-----------------------------------------------------------------------------
(* Opening a run. *)

\* run_incremental reads its checkpoint in a transaction of its own.
ReadCheckpoint(r) ==
    /\ pc[r] = "idle"
    /\ it' = [it EXCEPT ![r] = [NoRun EXCEPT !.since = IF r \in Backfills THEN 0
                                                       ELSE checkpoint]]
    /\ Goto(r, "open")
    /\ UNCHANGED <<paperVars, feedVars, checkpoint, runRow, faults>>

StartRun(r) ==
    /\ pc[r] = "open"
    /\ runRow' = [runRow EXCEPT ![r] = "running"]
    /\ Goto(r, "page")
    /\ UNCHANGED <<paperVars, feedVars, checkpoint, it, faults>>

-----------------------------------------------------------------------------
(* iter_papers. *)

RequestSize(r) ==
    IF Limit - it[r].yielded < PageSize THEN Limit - it[r].yielded ELSE PageSize

\* The first n entries of the answer from offset "start" on.
Entries(r, n) ==
    {p \in Matching(r) : it[r].start <= Offset(r, p) /\ Offset(r, p) < it[r].start + n}

\* Planted: one entry that cannot be parsed discards its page.
ParsedAllOrNothing(r, n) == IF Entries(r, n) \cap Malformed = {} THEN Entries(r, n) ELSE {}

\* parse_feed drops the entries that cannot be parsed.
Parsed(r, n) == Entries(r, n) \ Malformed

\* What iter_papers makes of a page of n entries: the offset of the next page
\* counts only the papers that were parsed. A page without papers ends the
\* iteration, whatever the reported total.
TakePage(r, n) ==
    LET next == it[r].start + Cardinality(Parsed(r, n)) IN
    /\ pc[r] = "page"
    /\ it' = [it EXCEPT ![r].page = Parsed(r, n), ![r].start = next,
                        ![r].more = next < Cardinality(Matching(r))]
    /\ Goto(r, IF Parsed(r, n) = {} THEN "finish" ELSE "paper")
    /\ UNCHANGED <<paperVars, feedVars, checkpoint, runRow>>

FetchPage(r) == TakePage(r, RequestSize(r)) /\ UNCHANGED faults

\* arXiv returns fewer entries than it has, or none.
ShortPage(r) == Fault /\ \E n \in 0 .. RequestSize(r) - 1 : TakePage(r, n)

\* An error that outlasts the client's retries aborts the run.
FeedError(r) ==
    /\ pc[r] = "page"
    /\ Fault
    /\ it' = [it EXCEPT ![r].error = TRUE]
    /\ Goto(r, "finish")
    /\ UNCHANGED <<paperVars, feedVars, checkpoint, runRow>>

\* Planted: newest first.
IsNewest(r, p) == p \in it[r].page /\ \A q \in it[r].page : q <= p

\* The next paper of the page.
IsNext(r, p) == p \in it[r].page /\ \A q \in it[r].page : p <= q

\* Planted: the mark follows every paper that was fetched.
WatermarkOfFetched(mark, p, succeeded) == IF UpdatedAt[p] > mark THEN UpdatedAt[p] ELSE mark

\* highest_watermark after paper p.
Watermark(mark, p, succeeded) ==
    IF succeeded /\ UpdatedAt[p] > mark THEN UpdatedAt[p] ELSE mark

\* The body of run's loop after _process_paper, and where the generator goes next.
Yield(r, p, succeeded) ==
    LET rest == it[r].page \ {p} IN
    /\ it' = [it EXCEPT
                ![r].page = rest,
                ![r].yielded = @ + 1,
                ![r].failed = @ \/ ~succeeded,
                ![r].mark = Watermark(@, p, succeeded)]
    /\ Goto(r, IF it[r].yielded + 1 >= Limit THEN "finish"
               ELSE IF rest # {} THEN "paper"
               ELSE IF it[r].more THEN "page" ELSE "finish")

-----------------------------------------------------------------------------
(* _process_paper. *)

\* Transaction 1 stores a new paper, or finds that a stored one needs work.
StorePaper(r, p) ==
    /\ pc[r] = "paper"
    /\ IsNext(r, p)
    /\ p \in stored => NeedsWork(status[p])
    /\ stored' = stored \cup {p}
    /\ Goto(r, "content")
    /\ UNCHANGED <<status, letters, unstored, unrecorded, feedVars, checkpoint, it, runRow, faults>>

\* A stored paper that is settled, out of budget or in its backoff window is
\* reported as skipped, which counts as a success.
SkipPaper(r, p) ==
    /\ pc[r] = "paper"
    /\ IsNext(r, p)
    /\ p \in stored /\ ~NeedsWork(status[p])
    /\ Yield(r, p, TRUE)
    /\ UNCHANGED <<paperVars, feedVars, checkpoint, runRow, faults>>

\* Transaction 2 commits.
IndexPaper(r, p) ==
    /\ pc[r] = "content"
    /\ IsNext(r, p)
    /\ status' = [status EXCEPT ![p] = AdvanceToIndexed(@, @)]
    /\ Yield(r, p, TRUE)
    /\ UNCHANGED <<stored, letters, unstored, unrecorded, feedVars, checkpoint, runRow, faults>>

\* _record_failure of a paper that has a row.
CountFailure(p) ==
    /\ status' = [status EXCEPT ![p] = RecordAttemptFailure(@, @)]
    /\ letters' = [letters EXCEPT ![p] = @ + LettersFor(status[p])]

\* Transaction 2 fails.
FailPaper(r, p) ==
    /\ pc[r] = "content"
    /\ IsNext(r, p)
    /\ CountFailure(p)
    /\ Yield(r, p, FALSE)
    /\ UNCHANGED <<stored, unstored, unrecorded, feedVars, checkpoint, runRow, faults>>

\* Transaction 1 fails: on a database error, as nothing else in it can raise.
FailMetadata(r, p) ==
    /\ pc[r] = "paper"
    /\ IsNext(r, p)
    /\ Fault
    /\ IF p \in stored
       THEN CountFailure(p) /\ UNCHANGED unstored
       ELSE unstored' = unstored \cup {p} /\ UNCHANGED <<status, letters>>
    /\ Yield(r, p, FALSE)
    /\ UNCHANGED <<stored, unrecorded, feedVars, checkpoint, runRow>>

\* Either transaction fails and so does _record_failure, which only logs it.
FailUnrecorded(r, p) ==
    /\ pc[r] \in {"paper", "content"}
    /\ IsNext(r, p)
    /\ Fault
    /\ unrecorded' = unrecorded \cup {p}
    /\ Yield(r, p, FALSE)
    /\ UNCHANGED <<stored, status, letters, unstored, feedVars, checkpoint, runRow>>

BackoffElapses(p) ==
    /\ status[p].retry = "waiting"
    /\ status' = [status EXCEPT ![p].retry = "elapsed"]
    /\ UNCHANGED <<stored, letters, unstored, unrecorded, feedVars, checkpoint, pc, it, runRow, faults>>

-----------------------------------------------------------------------------
(* The end of a run: the finally block. *)

\* A cancellation is no Exception: "error" stays None and the finally block runs.
Cancel(r) ==
    /\ Iterating(r)
    /\ Fault
    /\ Goto(r, "finish")
    /\ UNCHANGED <<paperVars, feedVars, checkpoint, it, runRow>>

\* The SELECT of advance_checkpoint.
LoadCheckpoint(r) ==
    /\ pc[r] = "finish"
    /\ it' = [it EXCEPT ![r].seen = checkpoint]
    /\ Goto(r, "close")
    /\ UNCHANGED <<paperVars, feedVars, checkpoint, runRow, faults>>

\* Planted: a backfill moves the checkpoint too.
AdvancesAny(r) == it[r].mark # 0 /\ ~it[r].error

Advances(r) == r \notin Backfills /\ it[r].mark # 0 /\ ~it[r].error

\* advance_checkpoint refuses a mark that is not beyond the one it loaded.
MovesCheckpoint(r) == Advances(r) /\ it[r].mark > it[r].seen

\* Planted: the mark is moved past the minute it was taken from.
NewCheckpointBeyond(r) == it[r].mark + 1

NewCheckpoint(r) == it[r].mark

FinalStatus(r) ==
    IF it[r].error THEN "failed" ELSE IF it[r].failed THEN "partial" ELSE "succeeded"

\* Both processes saw no checkpoint row and the other one inserted it first.
CheckpointConflict(r) == Advances(r) /\ it[r].seen = 0 /\ checkpoint # 0

\* finish_run and advance_checkpoint in one transaction.
CloseRun(r) ==
    /\ pc[r] = "close"
    /\ IF CheckpointConflict(r)
       THEN UNCHANGED <<checkpoint, runRow>>
       ELSE /\ runRow' = [runRow EXCEPT ![r] = FinalStatus(r)]
            /\ checkpoint' = IF MovesCheckpoint(r) THEN NewCheckpoint(r) ELSE checkpoint
    /\ Goto(r, "idle")
    /\ it' = [it EXCEPT ![r] = NoRun]
    /\ UNCHANGED <<paperVars, feedVars, faults>>

\* The process dies, or the transaction of the finally block fails.
Crash(r) ==
    /\ pc[r] # "idle"
    /\ Fault
    /\ Goto(r, "idle")
    /\ it' = [it EXCEPT ![r] = NoRun]
    /\ UNCHANGED <<paperVars, feedVars, checkpoint, runRow>>

-----------------------------------------------------------------------------

Listing ==
    \/ \E p \in Papers : Publish(p)
    \/ \E old, new \in Papers : Revise(old, new)

Process(r, p) ==
    \/ StorePaper(r, p) \/ SkipPaper(r, p) \/ IndexPaper(r, p) \/ FailPaper(r, p)
    \/ FailMetadata(r, p) \/ FailUnrecorded(r, p)

Work(r) ==
    \/ ReadCheckpoint(r) \/ StartRun(r) \/ FetchPage(r)
    \/ \E p \in Papers : Process(r, p)
    \/ LoadCheckpoint(r) \/ CloseRun(r)

Disturb(r) == ShortPage(r) \/ FeedError(r) \/ Cancel(r) \/ Crash(r)

Next ==
    \/ Listing
    \/ \E r \in Runs : Work(r) \/ Disturb(r)
    \/ \E p \in Papers : BackoffElapses(p)

Spec == Init /\ [][Next]_vars

\* A started run goes on, the scheduler starts the next one, clocks advance.
FairSpec ==
    /\ Spec
    /\ \A r \in Runs : WF_vars(Work(r))
    /\ \A p \in Papers : WF_vars(BackoffElapses(p))

-----------------------------------------------------------------------------
(* Properties. *)

TypeOK ==
    /\ published \subseteq Papers
    /\ newest \in {0} \cup Papers
    /\ \A p \in published : p <= newest
    /\ stored \subseteq Papers
    /\ status \in [Papers -> Statuses]
    /\ letters \in [Papers -> Nat]
    /\ unstored \subseteq Papers
    /\ checkpoint \in Times
    /\ pc \in [Runs -> {"idle", "open", "page", "paper", "content", "finish", "close"}]
    /\ it \in [Runs -> Iterations]
    /\ runRow \in [Runs -> {"none", "running", "succeeded", "partial", "failed"}]
    /\ faults \in 0 .. MaxFaults
    /\ unrecorded \subseteq Papers /\ displaced \subseteq Papers

\* The stores, or the log of a failure that could not be stored, know of p.
Traced(p) == p \in stored \cup unstored \cup unrecorded

\* Every entry of the listing older than time t was handed to the pipeline, or
\* moved between two pages of a run by a revision.
Covered(t) ==
    \A p \in published \ Malformed : UpdatedAt[p] < t => Traced(p) \/ p \in displaced

\* An incremental run leaves no entry behind the checkpoint unseen, whatever
\* crashes, cancellations, limits, failed papers and concurrent runs come in
\* between: the reason for the oldest-first order and the inclusive bound.
NothingSkipped == Covered(checkpoint)

\* The checkpoint is the timestamp of a paper that has a row: it never comes
\* from a paper whose metadata was lost, nor from a run that was aborted
\* before it handled a paper.
CheckpointIsBacked ==
    checkpoint # 0 => \E p \in stored : UpdatedAt[p] = checkpoint

\* Every entry that stays in the listing is handed to the pipeline in the end,
\* if a run's limit exceeds the number of entries that share a minute.
EventuallyTraced ==
    \A p \in Papers \ Malformed : p \in published ~> (Traced(p) \/ p \notin published \/ p \in displaced)

\* A single process keeps the promises of PaperLifecycle.
Lifecycle == INSTANCE PaperLifecycle WITH
    stage <- [p \in Papers |-> IF p \in stored THEN status[p].stage ELSE "absent"],
    attempts <- [p \in Papers |-> status[p].attempts],
    letters <- letters

LifecycleSpec == Lifecycle!Spec

\* A backfill beside one incremental process never rewinds the checkpoint.
CheckpointNeverRewinds == [][checkpoint' >= checkpoint]_vars

\* pipeline.py:470: "Advance only now, and only past papers that actually
\* succeeded". What lies behind the checkpoint is INDEXED or given up on: no
\* later incremental run will see it again.
PassedIsSettled ==
    \A p \in published \ Malformed :
        UpdatedAt[p] < checkpoint /\ p \notin displaced => p \in stored /\ IsSettled(status[p])

=============================================================================
