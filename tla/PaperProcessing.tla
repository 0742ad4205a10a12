--------------------------- MODULE PaperProcessing ---------------------------
(***************************************************************************)
(* IngestionPipeline._process_paper (ingestion/pipeline.py): one fetched   *)
(* paper taken through two database transactions with the write to         *)
(* OpenSearch inside the second, and the failure of either recorded in a   *)
(* third. Several runs may handle the same paper at once: nothing in the   *)
(* code excludes it, and what they share is PostgreSQL at READ COMMITTED   *)
(* and one OpenSearch index.                                               *)
(*                                                                         *)
(* A step is what happens between two points where another session can     *)
(* get in: a SELECT whose result is used later, a flush that takes row     *)
(* locks and may meet a unique constraint, a bulk request, a commit.       *)
(***************************************************************************)
EXTENDS ProcessingStatus, FiniteSets

CONSTANTS
    Papers,     \* (arxiv_id, version) pairs
    Runs,       \* concurrent ingestion processes
    MaxChunks,  \* bound: chunks one extraction can yield
    MaxFaults   \* bound: crashes, and database errors outside a content step

ASSUME BoundsAssumption == Papers # {} /\ MaxChunks \in Nat /\ MaxFaults \in Nat

VARIABLES
    papers,    \* papers with a committed row (and so a status row)
    status,    \* status[p]: the committed status row
    texts,     \* papers with a committed document_texts row
    rows,      \* rows[p][i]: the pass that wrote chunk row i of p, 0 for no row
    marked,    \* marked[p]: chunk rows of p whose indexed_at is set
    docs,      \* docs[p][i]: the pass whose chunk i of p OpenSearch holds, 0 for none
    passes,    \* passes[p]: how many passes have written chunk rows of p
    letters,   \* letters[p]: dead letters naming the row of p
    unstored,  \* unstored[p]: dead letters of p written without a paper row
    pc,        \* pc[r]: the step run r takes next
    work,      \* work[r]: what run r holds in memory about its paper
    faults     \* faults so far

db == <<papers, status, texts, rows, marked, letters, unstored>>
vars == <<papers, status, texts, rows, marked, docs, passes, letters, unstored,
          pc, work, faults>>

Indices == 0 .. MaxChunks - 1
NoRows == [i \in Indices |-> 0]

\* The steps of transaction 2, in order.
ContentSteps == {"content", "rows", "index", "status", "commit"}
Steps == {"idle", "metadata", "failure", "record"} \cup ContentSteps

Work == [paper : Papers, known : BOOLEAN, seen : Statuses, hadText : BOOLEAN,
         hadRows : [Indices -> Nat], count : 0 .. MaxChunks, pass : Nat,
         acked : SUBSET Indices]

\* A run between papers: its memory of the last one is gone.
NoWork == [paper |-> CHOOSE p \in Papers : TRUE, known |-> FALSE,
           seen |-> FreshStatus, hadText |-> FALSE, hadRows |-> NoRows,
           count |-> 0, pass |-> 0, acked |-> {}]

Init ==
    /\ papers = {}
    /\ status = [p \in Papers |-> FreshStatus]
    /\ texts = {}
    /\ rows = [p \in Papers |-> NoRows]
    /\ marked = [p \in Papers |-> {}]
    /\ docs = [p \in Papers |-> NoRows]
    /\ passes = [p \in Papers |-> 0]
    /\ letters = [p \in Papers |-> 0]
    /\ unstored = [p \in Papers |-> 0]
    /\ pc = [r \in Runs |-> "idle"]
    /\ work = [r \in Runs |-> NoWork]
    /\ faults = 0

-----------------------------------------------------------------------------

Goto(r, step) == pc' = [pc EXCEPT ![r] = step]

Finish(r) == Goto(r, "idle") /\ work' = [work EXCEPT ![r] = NoWork]

Fault == faults < MaxFaults /\ faults' = faults + 1

\* Run r has flushed text or chunk rows of its paper and not ended the transaction.
Holds(r, p) ==
    /\ pc[r] \in {"index", "status", "commit"}
    /\ work[r].paper = p
    /\ work[r].count > 0 \/ ~work[r].hadText

NoOtherHolder(r) == \A q \in Runs \ {r} : ~Holds(q, work[r].paper)

-----------------------------------------------------------------------------
(* Transaction 1: the paper and its status row. *)

\* The SELECTs of upsert_paper and get_or_create_status.
Fetch(r, p) ==
    /\ pc[r] = "idle"
    /\ Goto(r, "metadata")
    /\ work' = [work EXCEPT ![r] = [NoWork EXCEPT !.paper = p, !.known = p \in papers,
                                                  !.seen = status[p]]]
    /\ UNCHANGED <<db, docs, passes, faults>>

InsertPaper(r) ==
    /\ pc[r] = "metadata"
    /\ ~work[r].known
    /\ work[r].paper \notin papers
    /\ papers' = papers \cup {work[r].paper}
    /\ Goto(r, "content")
    /\ UNCHANGED <<status, texts, rows, marked, docs, passes, letters, unstored, work, faults>>

\* Another run stored the paper after the SELECT: the INSERT breaks the
\* unique constraint on (arxiv_id, version) and the transaction rolls back.
InsertConflict(r) ==
    /\ pc[r] = "metadata"
    /\ ~work[r].known
    /\ work[r].paper \in papers
    /\ Goto(r, "failure")
    /\ UNCHANGED <<db, docs, passes, work, faults>>

SkipPaper(r) ==
    /\ pc[r] = "metadata"
    /\ work[r].known
    /\ ~NeedsWork(work[r].seen)
    /\ Finish(r)
    /\ UNCHANGED <<db, docs, passes, faults>>

RetryPaper(r) ==
    /\ pc[r] = "metadata"
    /\ work[r].known
    /\ NeedsWork(work[r].seen)
    /\ Goto(r, "content")
    /\ UNCHANGED <<db, docs, passes, work, faults>>

MetadataFails(r) ==
    /\ pc[r] = "metadata"
    /\ Fault
    /\ Goto(r, "failure")
    /\ UNCHANGED <<db, docs, passes, work>>

-----------------------------------------------------------------------------
(* Transaction 2: text, chunk rows, OpenSearch, stage. *)

\* Download, extraction and chunking yield n chunks, 0 for an unusable text;
\* then save_document_text and replace_chunks load what is stored.
Extract(r) ==
    /\ pc[r] = "content"
    /\ \E n \in 0 .. MaxChunks :
         work' = [work EXCEPT ![r].count = n,
                              ![r].hadText = work[r].paper \in texts,
                              ![r].hadRows = rows[work[r].paper]]
    /\ Goto(r, "rows")
    /\ UNCHANGED <<db, docs, passes, faults>>

\* replace_chunks deletes the rows it loaded, by their ids.
Survives(r, i) ==
    rows[work[r].paper][i] # 0 /\ rows[work[r].paper][i] # work[r].hadRows[i]

\* Planted: tables without their unique constraints.
RowsConflictNever(r) == FALSE

\* The unique constraints: the flush would insert a text row that exists by
\* now, or a chunk index that another transaction has filled.
RowsConflict(r) ==
    \/ ~work[r].hadText /\ work[r].paper \in texts
    \/ \E i \in Indices : i < work[r].count /\ Survives(r, i)

\* The flushes of save_document_text and replace_chunks wait for a transaction
\* that holds the same rows. A text row that is only updated is not flushed
\* before the stage is.
WriteRows(r) ==
    LET w == work[r] IN
    /\ pc[r] = "rows"
    /\ w.count > 0 \/ ~w.hadText => NoOtherHolder(r)
    /\ IF RowsConflict(r)
       THEN Goto(r, "failure") /\ UNCHANGED <<passes, work>>
       ELSE /\ Goto(r, IF w.count > 0 THEN "index" ELSE "status")
            /\ passes' = [passes EXCEPT ![w.paper] = @ + 1]
            /\ work' = [work EXCEPT ![r].pass = passes[w.paper] + 1]
    /\ UNCHANGED <<db, docs, faults>>

\* Planted: chunks numbered from 0 up to their count.
ChunkIdsOneMore(r) == 0 .. work[r].count

\* The chunks of the documents sent to OpenSearch.
ChunkIds(r) == 0 .. work[r].count - 1

\* Planted: every id that was sent counts as indexed.
AcknowledgesAnything(applied, acked) == TRUE

\* indexed_ids: a document that is not among the failures of the response was
\* applied; one that was applied may be among them (the answer got lost).
Acknowledges(applied, acked) == acked \subseteq applied

\* index_documents: a refused or unreachable write does not raise.
IndexDocuments(r) ==
    LET w == work[r] IN
    /\ pc[r] = "index"
    /\ \E applied, acked \in SUBSET ChunkIds(r) :
         /\ Acknowledges(applied, acked)
         /\ docs' = [docs EXCEPT ![w.paper] =
                       [i \in Indices |-> IF i \in applied THEN w.pass ELSE @[i]]]
         /\ work' = [work EXCEPT ![r].acked = acked]
    /\ Goto(r, "status")
    /\ UNCHANGED <<db, passes, faults>>

\* get_or_create_status, after mark_chunks_indexed.
LoadStatus(r) ==
    /\ pc[r] = "status"
    /\ work' = [work EXCEPT ![r].seen = status[work[r].paper]]
    /\ Goto(r, "commit")
    /\ UNCHANGED <<db, docs, passes, faults>>

\* advance_stage and the commit. An unusable text leaves older chunk rows alone.
CommitContent(r) ==
    LET w == work[r] IN
    /\ pc[r] = "commit"
    /\ NoOtherHolder(r)
    /\ status' = [status EXCEPT ![w.paper] = AdvanceToIndexed(@, w.seen)]
    /\ texts' = texts \cup {w.paper}
    /\ IF w.count > 0
       THEN /\ rows' = [rows EXCEPT ![w.paper] =
                          [i \in Indices |-> IF i < w.count THEN w.pass
                                             ELSE IF Survives(r, i) THEN @[i] ELSE 0]]
            /\ marked' = [marked EXCEPT ![w.paper] =
                            w.acked \cup {i \in @ : i >= w.count /\ Survives(r, i)}]
       ELSE UNCHANGED <<rows, marked>>
    /\ Finish(r)
    /\ UNCHANGED <<papers, docs, passes, letters, unstored, faults>>

\* Any exception of transaction 2: a download, an extraction, an embedding or
\* a statement that fails. The rollback leaves what OpenSearch has applied.
ContentFails(r) ==
    /\ pc[r] \in ContentSteps
    /\ Goto(r, "failure")
    /\ UNCHANGED <<db, docs, passes, work, faults>>

-----------------------------------------------------------------------------
(* _record_failure, in a session of its own. *)

LetterWithoutPaper(r) ==
    /\ pc[r] = "failure"
    /\ work[r].paper \notin papers
    /\ unstored' = [unstored EXCEPT ![work[r].paper] = @ + 1]
    /\ Finish(r)
    /\ UNCHANGED <<papers, status, texts, rows, marked, docs, passes, letters, faults>>

LoadFailedStatus(r) ==
    /\ pc[r] = "failure"
    /\ work[r].paper \in papers
    /\ work' = [work EXCEPT ![r].seen = status[work[r].paper]]
    /\ Goto(r, "record")
    /\ UNCHANGED <<db, docs, passes, faults>>

\* record_attempt_failure and, when the budget is spent, record_dead_letter.
RecordFailure(r) ==
    LET w == work[r] IN
    /\ pc[r] = "record"
    /\ status' = [status EXCEPT ![w.paper] = RecordAttemptFailure(@, w.seen)]
    /\ letters' = [letters EXCEPT ![w.paper] = @ + LettersFor(w.seen)]
    /\ Finish(r)
    /\ UNCHANGED <<papers, texts, rows, marked, docs, passes, unstored, faults>>

\* _record_failure swallows its own errors.
RecordingFails(r) ==
    /\ pc[r] \in {"failure", "record"}
    /\ Fault
    /\ Finish(r)
    /\ UNCHANGED <<db, docs, passes>>

-----------------------------------------------------------------------------

\* The process dies or is cancelled: an open transaction is rolled back.
Crash(r) ==
    /\ pc[r] # "idle"
    /\ Fault
    /\ Finish(r)
    /\ UNCHANGED <<db, docs, passes>>

BackoffElapses(p) ==
    /\ status[p].retry = "waiting"
    /\ status' = [status EXCEPT ![p].retry = "elapsed"]
    /\ UNCHANGED <<papers, texts, rows, marked, docs, passes, letters, unstored, pc, work, faults>>

Store(r) == InsertPaper(r) \/ InsertConflict(r) \/ SkipPaper(r) \/ RetryPaper(r)

Content(r) ==
    Extract(r) \/ WriteRows(r) \/ IndexDocuments(r) \/ LoadStatus(r) \/ CommitContent(r)

Record(r) == LetterWithoutPaper(r) \/ LoadFailedStatus(r) \/ RecordFailure(r)

Disturb(r) == MetadataFails(r) \/ ContentFails(r) \/ RecordingFails(r) \/ Crash(r)

Next ==
    \/ \E r \in Runs : \/ \E p \in Papers : Fetch(r, p)
                       \/ Store(r) \/ Content(r) \/ Record(r) \/ Disturb(r)
    \/ \E p \in Papers : BackoffElapses(p)

Spec == Init /\ [][Next]_vars

(***************************************************************************)
(* A run that has begun a paper goes on with it, clocks advance, and the   *)
(* scheduler keeps starting runs whose query returns every paper: the      *)
(* strong fairness of Fetch is that of a repeated ingestion of one window. *)
(***************************************************************************)
FairSpec ==
    /\ Spec
    /\ \A r \in Runs : WF_vars(Store(r) \/ Content(r) \/ Record(r))
    /\ \A r \in Runs, p \in Papers : SF_vars(Fetch(r, p))
    /\ \A p \in Papers : WF_vars(BackoffElapses(p))

-----------------------------------------------------------------------------
(* Properties. *)

TypeOK ==
    /\ papers \subseteq Papers
    /\ status \in [Papers -> Statuses]
    /\ texts \subseteq papers
    /\ rows \in [Papers -> [Indices -> Nat]]
    /\ marked \in [Papers -> SUBSET Indices]
    /\ docs \in [Papers -> [Indices -> Nat]]
    /\ passes \in [Papers -> Nat]
    /\ letters \in [Papers -> Nat]
    /\ unstored \in [Papers -> Nat]
    /\ pc \in [Runs -> Steps]
    /\ work \in [Runs -> Work]
    /\ faults \in 0 .. MaxFaults

\* A chunk row marked as indexed can be found: OpenSearch holds that chunk of
\* the paper, written by the pass that wrote the row or by a later one. The
\* dual write marks only what the bulk response acknowledged, and the marks
\* appear with the rows they belong to (pipeline.py:376-380).
MarkedIsSearchable ==
    \A p \in Papers : \A i \in marked[p] : rows[p][i] # 0 /\ docs[p][i] >= rows[p][i]

\* With one run at a time the two stores agree exactly on a marked chunk.
MarkedIsCurrent ==
    \A p \in Papers : \A i \in marked[p] : rows[p][i] # 0 /\ docs[p][i] = rows[p][i]

\* The chunk rows of a paper all come from one pass and are numbered from 0
\* without a gap, also when several runs replace them at the same time.
RowsOfOnePass ==
    \A p \in Papers : \A i, j \in Indices :
        j < i /\ rows[p][i] # 0 => rows[p][j] = rows[p][i]

\* No crash, rollback or late failure record leaves a paper with chunk rows
\* that a later run would pick up again: rows become visible in the commit
\* that settles the paper, and nothing unsettles it.
StoredIsSettled ==
    \A p \in Papers : p \in texts => IsSettled(status[p])

\* A paper given up on left a dead letter: stage FAILED and the letter are
\* one transaction, whichever run writes it.
FailedIsLettered ==
    \A p \in Papers : status[p].stage = "failed" => letters[p] > 0

\* Runs that passed the needs_work test before the budget was spent overspend
\* it by at most one failure each; besides these only a database error in
\* transaction 1 adds to a count that needs_work would have stopped.
BudgetOverspend ==
    \A p \in Papers : status[p].attempts <= MaxAttempts - 1 + Cardinality(Runs) + faults

\* What the pipeline says of a settled paper stays true of the stores: with one
\* run at a time nothing touches the rows, the marks or the searchable
\* documents of a paper once it is INDEXED or FAILED.
SettledIsFrozen ==
    [][\A p \in Papers : IsSettled(status[p]) =>
          /\ rows'[p] = rows[p] /\ marked'[p] = marked[p]
          /\ docs'[p] = docs[p] /\ (p \in texts' <=> p \in texts)]_vars

\* One run at a time keeps the promises of PaperLifecycle.
Lifecycle == INSTANCE PaperLifecycle WITH
    stage <- [p \in Papers |-> IF p \in papers THEN status[p].stage ELSE "absent"],
    attempts <- [p \in Papers |-> status[p].attempts],
    letters <- letters

LifecycleSpec == Lifecycle!Spec

\* Every paper of a window that keeps being ingested is INDEXED or FAILED in
\* the end: neither the backoff, nor a failure that could not be recorded, nor
\* a crash can keep it pending for ever.
EventuallySettled == \A p \in Papers : <>[](p \in papers /\ IsSettled(status[p]))

\* enums.py:63 of INDEXED: "Terminal success: chunks are searchable in
\* OpenSearch". The stage is set whatever OpenSearch accepted.
IndexedIsSearchable ==
    \A p \in Papers : status[p].stage = "indexed" =>
        \A i \in Indices : rows[p][i] # 0 => i \in marked[p]

=============================================================================
