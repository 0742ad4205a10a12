------------------------ MODULE PaperProcessingProofs ------------------------
(***************************************************************************)
(* What TLAPS proves of PaperProcessing, for any number of papers, runs,   *)
(* chunks, attempts and faults: its type invariant, and the invariants on  *)
(* the two stores and on the status row that concurrent runs cannot break. *)
(* The last part has what only one run at a time keeps: marks are exact, a *)
(* settled paper is never touched, and PaperLifecycle is implemented. What *)
(* such a run has read stays true until it writes.                         *)
(***************************************************************************)
EXTENDS PaperProcessing, FiniteSetTheorems, TLAPS

-----------------------------------------------------------------------------
(* The writers of a status row, for every row a session may have loaded and *)
(* every row its UPDATE may meet.                                           *)

LEMMA StatusUpdates ==
    ASSUME NEW s \in Statuses, NEW t \in Statuses
    PROVE  /\ FreshStatus \in Statuses
           /\ AdvanceToIndexed(s, t) \in Statuses
           /\ RecordAttemptFailure(s, t) \in Statuses
           /\ [s EXCEPT !.retry = "elapsed"] \in Statuses
<1>1. FreshStatus \in Statuses
  BY DEF FreshStatus, Statuses, Stages, Retries
<1>2. AdvanceToIndexed(s, t) \in Statuses
  BY DEF AdvanceToIndexed, Column, Statuses, Stages, Retries
<1>3. RecordAttemptFailure(s, t) \in Statuses
  <2>1. t.attempts + 1 \in Nat
    BY DEF Statuses
  <2>2. Column(s.stage, t.stage, "failed") \in Stages /\ s.stage \in Stages
    BY DEF Column, Statuses, Stages
  <2>3. Column(s.retry, t.retry, "none") \in Retries /\ "waiting" \in Retries
    BY DEF Column, Statuses, Retries
  <2> QED
    BY <2>1, <2>2, <2>3 DEF RecordAttemptFailure, Statuses
<1>4. [s EXCEPT !.retry = "elapsed"] \in Statuses
  BY DEF Statuses, Retries
<1> QED
  BY <1>1, <1>2, <1>3, <1>4

\* No writer takes a settled row back to PENDING, however old the row it loaded.
LEMMA NothingUnsettles ==
    ASSUME NEW row \in Statuses, NEW seen \in Statuses, IsSettled(row)
    PROVE  /\ IsSettled(AdvanceToIndexed(row, seen))
           /\ IsSettled(RecordAttemptFailure(row, seen))
BY DEF IsSettled, AdvanceToIndexed, RecordAttemptFailure, Column, Statuses

\* advance_stage settles the row, unless the session saw INDEXED in a row that
\* is pending again.
LEMMA AdvanceSettles ==
    ASSUME NEW row \in Statuses, NEW seen \in Statuses, IsSettled(seen) => IsSettled(row)
    PROVE  IsSettled(AdvanceToIndexed(row, seen))
BY DEF IsSettled, AdvanceToIndexed, Column, Statuses

\* Only a failure that writes a dead letter makes a row FAILED.
LEMMA FailedWithLetter ==
    ASSUME NEW row \in Statuses, NEW seen \in Statuses, row.stage # "failed"
    PROVE  /\ AdvanceToIndexed(row, seen).stage # "failed"
           /\ RecordAttemptFailure(row, seen).stage = "failed" => LettersFor(seen) = 1
BY DEF AdvanceToIndexed, RecordAttemptFailure, LettersFor, Column, Statuses

-----------------------------------------------------------------------------
(* Types. *)

\* Transaction 2 is only begun for a paper that has a row: texts \subseteq papers
\* rests on it.
StoredFirst ==
    \A r \in Runs : work[r].known \/ pc[r] \in ContentSteps => work[r].paper \in papers

LEMMA NoWorkType == NoWork \in Work
<1>1. NoRows \in [Indices -> Nat] /\ 0 \in 0 .. MaxChunks
  BY BoundsAssumption DEF NoRows
<1>2. (CHOOSE p \in Papers : TRUE) \in Papers
  BY BoundsAssumption
<1>3. FreshStatus \in Statuses
  BY DEF FreshStatus, Statuses, Stages, Retries
<1> QED
  BY <1>1, <1>2, <1>3 DEF NoWork, Work

LEMMA WorkFields ==
    ASSUME TypeOK, NEW r \in Runs
    PROVE  /\ work[r] \in Work
           /\ work[r].paper \in Papers
           /\ work[r].seen \in Statuses
           /\ work[r].hadRows \in [Indices -> Nat]
           /\ work[r].count \in Nat /\ work[r].count <= MaxChunks
           /\ work[r].pass \in Nat
           /\ work[r].acked \subseteq Indices
BY BoundsAssumption DEF TypeOK, Work

LEMMA InitTypeOK == Init => TypeOK
<1> SUFFICES ASSUME Init PROVE TypeOK
  OBVIOUS
<1>1. FreshStatus \in Statuses
  BY DEF FreshStatus, Statuses, Stages, Retries
<1>2. NoRows \in [Indices -> Nat]
  BY DEF NoRows
<1> QED
  BY <1>1, <1>2, NoWorkType, BoundsAssumption DEF Init, TypeOK, Steps

LEMMA FaultType ==
    ASSUME TypeOK, Fault
    PROVE  faults' \in 0 .. MaxFaults
BY BoundsAssumption DEF TypeOK, Fault

LEMMA FinishType ==
    ASSUME TypeOK, NEW r \in Runs, Finish(r)
    PROVE  pc' \in [Runs -> Steps] /\ work' \in [Runs -> Work]
BY NoWorkType DEF TypeOK, Finish, Goto, Steps

LEMMA GotoType ==
    ASSUME TypeOK, NEW r \in Runs, NEW step \in Steps, Goto(r, step)
    PROVE  pc' \in [Runs -> Steps]
BY DEF TypeOK, Goto

LEMMA StoreTypeOK ==
    ASSUME TypeOK, NEW r \in Runs, Store(r) \/ \E p \in Papers : Fetch(r, p)
    PROVE  TypeOK'
<1> USE DEF db
<1>1. ASSUME NEW p \in Papers, Fetch(r, p) PROVE TypeOK'
  <2> DEFINE known == p \in papers
  <2>1. known \in BOOLEAN /\ status[p] \in Statuses
    BY DEF TypeOK
  <2> HIDE DEF known
  <2>2. [NoWork EXCEPT !.paper = p, !.known = known, !.seen = status[p]] \in Work
    BY <2>1, NoWorkType DEF Work
  <2>3. work' = [work EXCEPT ![r] = [NoWork EXCEPT !.paper = p, !.known = known,
                                                   !.seen = status[p]]]
    BY <1>1 DEF Fetch, known
  <2>4. pc' \in [Runs -> Steps]
    BY <1>1, GotoType DEF Fetch, Steps
  <2> QED
    BY <1>1, <2>2, <2>3, <2>4 DEF TypeOK, Fetch
<1>2. CASE InsertPaper(r)
  <2>1. pc' \in [Runs -> Steps]
    BY <1>2, GotoType DEF InsertPaper, Steps, ContentSteps
  <2> QED
    BY <1>2, <2>1, WorkFields DEF TypeOK, InsertPaper
<1>3. CASE InsertConflict(r)
  <2>1. pc' \in [Runs -> Steps]
    BY <1>3, GotoType DEF InsertConflict, Steps
  <2> QED
    BY <1>3, <2>1 DEF TypeOK, InsertConflict
<1>4. CASE SkipPaper(r)
  BY <1>4, FinishType DEF TypeOK, SkipPaper
<1>5. CASE RetryPaper(r)
  <2>1. pc' \in [Runs -> Steps]
    BY <1>5, GotoType DEF RetryPaper, Steps, ContentSteps
  <2> QED
    BY <1>5, <2>1 DEF TypeOK, RetryPaper
<1> QED
  BY <1>1, <1>2, <1>3, <1>4, <1>5 DEF Store

LEMMA ContentTypeOK ==
    ASSUME TypeOK, StoredFirst, NEW r \in Runs, Content(r)
    PROVE  TypeOK'
<1> USE DEF db
<1> DEFINE p == work[r].paper
<1>1. /\ work[r] \in Work /\ p \in Papers /\ work[r].pass \in Nat
      /\ work[r].count \in Nat /\ work[r].acked \subseteq Indices
  BY WorkFields
<1>2. CASE Extract(r)
  <2> DEFINE hadText == p \in texts
  <2>1. PICK n \in 0 .. MaxChunks :
          work' = [work EXCEPT ![r].count = n, ![r].hadText = hadText, ![r].hadRows = rows[p]]
    BY <1>2 DEF Extract
  <2>2. hadText \in BOOLEAN /\ rows[p] \in [Indices -> Nat]
    BY <1>1 DEF TypeOK
  <2> HIDE DEF hadText
  <2>3. [work[r] EXCEPT !.count = n, !.hadText = hadText, !.hadRows = rows[p]] \in Work
    BY <1>1, <2>2 DEF Work
  <2>4. work' = [work EXCEPT ![r] = [work[r] EXCEPT !.count = n, !.hadText = hadText,
                                                    !.hadRows = rows[p]]]
    BY <2>1 DEF TypeOK, Work
  <2>5. work' \in [Runs -> Work]
    BY <2>3, <2>4 DEF TypeOK
  <2>6. pc' \in [Runs -> Steps]
    BY <1>2, GotoType DEF Extract, Steps, ContentSteps
  <2> QED
    BY <1>2, <2>5, <2>6 DEF TypeOK, Extract
<1>3. CASE WriteRows(r)
  <2>1. passes[p] + 1 \in Nat
    BY <1>1 DEF TypeOK
  <2>2. [work[r] EXCEPT !.pass = passes[p] + 1] \in Work
    BY <1>1, <2>1 DEF Work
  <2>3. passes' \in [Papers -> Nat] /\ work' \in [Runs -> Work]
    BY <1>1, <1>3, <2>1, <2>2 DEF TypeOK, WriteRows
  <2>4. pc' \in [Runs -> Steps]
    BY <1>3, GotoType DEF WriteRows, Steps, ContentSteps
  <2> QED
    BY <1>3, <2>3, <2>4 DEF TypeOK, WriteRows
<1>4. CASE IndexDocuments(r)
  <2>1. PICK applied \in SUBSET ChunkIds(r), acked \in SUBSET ChunkIds(r) :
          /\ docs' = [docs EXCEPT ![p] =
                        [i \in Indices |-> IF i \in applied THEN work[r].pass ELSE docs[p][i]]]
          /\ work' = [work EXCEPT ![r].acked = acked]
    BY <1>1, <1>4 DEF IndexDocuments, TypeOK
  <2>2. ChunkIds(r) \subseteq Indices
    BY <1>1, WorkFields, BoundsAssumption DEF ChunkIds, Indices
  <2>3. [work[r] EXCEPT !.acked = acked] \in Work
    BY <1>1, <2>2 DEF Work
  <2>4. [i \in Indices |-> IF i \in applied THEN work[r].pass ELSE docs[p][i]]
          \in [Indices -> Nat]
    BY <1>1 DEF TypeOK
  <2>5. docs' \in [Papers -> [Indices -> Nat]] /\ work' \in [Runs -> Work]
    BY <1>1, <2>1, <2>3, <2>4 DEF TypeOK
  <2>6. pc' \in [Runs -> Steps]
    BY <1>4, GotoType DEF IndexDocuments, Steps, ContentSteps
  <2> QED
    BY <1>4, <2>5, <2>6 DEF TypeOK, IndexDocuments
<1>5. CASE LoadStatus(r)
  <2>1. [work[r] EXCEPT !.seen = status[p]] \in Work
    BY <1>1 DEF TypeOK, Work
  <2>2. pc' \in [Runs -> Steps]
    BY <1>5, GotoType DEF LoadStatus, Steps, ContentSteps
  <2> QED
    BY <1>5, <2>1, <2>2 DEF TypeOK, LoadStatus
<1>6. CASE CommitContent(r)
  <2>1. AdvanceToIndexed(status[p], work[r].seen) \in Statuses
    BY <1>1, StatusUpdates, WorkFields DEF TypeOK
  <2>2. status' \in [Papers -> Statuses]
    BY <1>6, <2>1 DEF TypeOK, CommitContent
  <2>3. texts' \subseteq papers
    BY <1>6 DEF TypeOK, CommitContent, StoredFirst, ContentSteps
  <2>4. rows' \in [Papers -> [Indices -> Nat]]
    <3>1. [i \in Indices |-> IF i < work[r].count THEN work[r].pass
                             ELSE IF Survives(r, i) THEN rows[p][i] ELSE 0] \in [Indices -> Nat]
      BY <1>1 DEF TypeOK
    <3> QED
      BY <1>1, <1>6, <3>1 DEF TypeOK, CommitContent
  <2>5. marked' \in [Papers -> SUBSET Indices]
    BY <1>1, <1>6 DEF TypeOK, CommitContent
  <2> QED
    BY <1>6, <2>2, <2>3, <2>4, <2>5, FinishType DEF TypeOK, CommitContent
<1> QED
  BY <1>2, <1>3, <1>4, <1>5, <1>6 DEF Content

LEMMA RecordTypeOK ==
    ASSUME TypeOK, NEW r \in Runs, Record(r) \/ Disturb(r)
    PROVE  TypeOK'
<1> USE DEF db
<1> DEFINE p == work[r].paper
<1>1. work[r] \in Work /\ p \in Papers /\ work[r].seen \in Statuses
  BY WorkFields
<1>2. CASE LetterWithoutPaper(r)
  BY <1>1, <1>2, FinishType DEF TypeOK, LetterWithoutPaper
<1>3. CASE LoadFailedStatus(r)
  <2>1. [work[r] EXCEPT !.seen = status[p]] \in Work
    BY <1>1 DEF TypeOK, Work
  <2>2. pc' \in [Runs -> Steps]
    BY <1>3, GotoType DEF LoadFailedStatus, Steps
  <2> QED
    BY <1>3, <2>1, <2>2 DEF TypeOK, LoadFailedStatus
<1>4. CASE RecordFailure(r)
  <2>1. RecordAttemptFailure(status[p], work[r].seen) \in Statuses
    BY <1>1, StatusUpdates DEF TypeOK
  <2>2. letters[p] + LettersFor(work[r].seen) \in Nat
    BY <1>1 DEF TypeOK, LettersFor
  <2>3. status' \in [Papers -> Statuses] /\ letters' \in [Papers -> Nat]
    BY <1>4, <2>1, <2>2 DEF TypeOK, RecordFailure
  <2> QED
    BY <1>4, <2>3, FinishType DEF TypeOK, RecordFailure
<1>5. CASE MetadataFails(r)
  <2>1. pc' \in [Runs -> Steps]
    BY <1>5, GotoType DEF MetadataFails, Steps
  <2> QED
    BY <1>5, <2>1, FaultType DEF TypeOK, MetadataFails
<1>6. CASE ContentFails(r)
  <2>1. pc' \in [Runs -> Steps]
    BY <1>6, GotoType DEF ContentFails, Steps
  <2> QED
    BY <1>6, <2>1 DEF TypeOK, ContentFails
<1>7. CASE RecordingFails(r)
  BY <1>7, FinishType, FaultType DEF TypeOK, RecordingFails
<1>8. CASE Crash(r)
  BY <1>8, FinishType, FaultType DEF TypeOK, Crash
<1> QED
  BY <1>2, <1>3, <1>4, <1>5, <1>6, <1>7, <1>8 DEF Record, Disturb

\* What run r can do next.
StepOf(r) ==
    Store(r) \/ Content(r) \/ Record(r) \/ Disturb(r) \/ \E p \in Papers : Fetch(r, p)

\* A step of run r leaves the memory and the place of every other run alone.
LEMMA OthersKept ==
    ASSUME TypeOK, NEW r \in Runs, NEW q \in Runs \ {r}, StepOf(r)
    PROVE  pc'[q] = pc[q] /\ work'[q] = work[q]
BY DEF TypeOK, StepOf, Store, Content, Record, Disturb, Fetch, InsertPaper, InsertConflict,
       SkipPaper, RetryPaper, MetadataFails, Extract, WriteRows, IndexDocuments, LoadStatus,
       CommitContent, ContentFails, LetterWithoutPaper, LoadFailedStatus, RecordFailure, RecordingFails,
       Crash, Goto, Finish

LEMMA FinishStored ==
    ASSUME TypeOK, NEW r \in Runs, Finish(r)
    PROVE  ~work'[r].known /\ pc'[r] \notin ContentSteps
BY DEF TypeOK, Finish, Goto, NoWork, ContentSteps

LEMMA StoredFirstStep ==
    ASSUME TypeOK, StoredFirst, NEW r \in Runs, StepOf(r)
    PROVE  StoredFirst'
<1> USE DEF db
<1>1. papers \subseteq papers'
  BY DEF StepOf, Store, Content, Record, Disturb, Fetch, InsertPaper, InsertConflict,
         SkipPaper, RetryPaper, MetadataFails, Extract, WriteRows, IndexDocuments, LoadStatus,
         CommitContent, ContentFails, LetterWithoutPaper, LoadFailedStatus, RecordFailure,
         RecordingFails, Crash
<1>2. SUFFICES ASSUME work'[r].known \/ pc'[r] \in ContentSteps
               PROVE  work'[r].paper \in papers'
  BY <1>1, OthersKept DEF StoredFirst
<1>3. work[r] \in Work
  BY WorkFields
<1>4. CASE \E p \in Papers : Fetch(r, p)
  <2>1. PICK p \in Papers : Fetch(r, p)
    BY <1>4
  <2>2. pc'[r] = "metadata"
    BY <2>1 DEF Fetch, Goto, TypeOK
  <2>3. work'[r].paper = p /\ work'[r].known = (p \in papers)
    BY <2>1 DEF Fetch, TypeOK, NoWork
  <2> QED
    BY <1>1, <1>2, <2>2, <2>3 DEF ContentSteps
<1>5. CASE InsertPaper(r)
  BY <1>5 DEF InsertPaper, TypeOK
<1>6. CASE RetryPaper(r)
  BY <1>1, <1>6 DEF RetryPaper, TypeOK, StoredFirst
<1>7. CASE InsertConflict(r) \/ MetadataFails(r) \/ ContentFails(r) \/ LoadFailedStatus(r)
  <2>1. pc'[r] \notin ContentSteps
    BY <1>7 DEF InsertConflict, MetadataFails, ContentFails, LoadFailedStatus, Goto,
                ContentSteps, TypeOK
  <2>2. work'[r].known = work[r].known /\ work'[r].paper = work[r].paper
    BY <1>3, <1>7 DEF InsertConflict, MetadataFails, ContentFails, LoadFailedStatus, TypeOK, Work
  <2> QED
    BY <1>1, <1>2, <2>1, <2>2 DEF StoredFirst
<1>8. CASE Content(r) /\ ~CommitContent(r)
  <2>1. work'[r].paper = work[r].paper
    <3>1. CASE Extract(r)
      BY <1>3, <3>1 DEF Extract, TypeOK, Work
    <3>2. CASE WriteRows(r)
      BY <1>3, <3>2 DEF WriteRows, TypeOK, Work
    <3>3. CASE IndexDocuments(r)
      BY <1>3, <3>3 DEF IndexDocuments, TypeOK, Work
    <3>4. CASE LoadStatus(r)
      BY <1>3, <3>4 DEF LoadStatus, TypeOK, Work
    <3> QED
      BY <1>8, <3>1, <3>2, <3>3, <3>4 DEF Content
  <2>2. pc[r] \in ContentSteps
    BY <1>8 DEF Content, Extract, WriteRows, IndexDocuments, LoadStatus, ContentSteps
  <2> QED
    BY <1>1, <2>1, <2>2 DEF StoredFirst
<1>9. CASE SkipPaper(r) \/ CommitContent(r) \/ LetterWithoutPaper(r) \/ RecordFailure(r)
           \/ RecordingFails(r) \/ Crash(r)
  BY <1>2, <1>9, FinishStored DEF SkipPaper, CommitContent, LetterWithoutPaper, RecordFailure,
                                  RecordingFails, Crash
<1> QED
  BY <1>4, <1>5, <1>6, <1>7, <1>8, <1>9 DEF StepOf, Store, Content, Record, Disturb

LEMMA InitStoredFirst == Init => StoredFirst
BY DEF Init, StoredFirst, NoWork, ContentSteps

LEMMA NextTypeOK == TypeOK /\ StoredFirst /\ [Next]_vars => TypeOK' /\ StoredFirst'
<1> SUFFICES ASSUME TypeOK, StoredFirst, [Next]_vars PROVE TypeOK' /\ StoredFirst'
  OBVIOUS
<1>1. ASSUME NEW r \in Runs, StepOf(r) PROVE TypeOK' /\ StoredFirst'
  BY <1>1, StoreTypeOK, ContentTypeOK, RecordTypeOK, StoredFirstStep DEF StepOf
<1>2. ASSUME NEW p \in Papers, BackoffElapses(p) PROVE TypeOK' /\ StoredFirst'
  <2>1. status[p] \in Statuses
    BY DEF TypeOK
  <2>2. status' \in [Papers -> Statuses]
    BY <1>2, <2>1, StatusUpdates DEF TypeOK, BackoffElapses
  <2> QED
    BY <1>2, <2>2 DEF TypeOK, BackoffElapses, StoredFirst
<1>3. CASE UNCHANGED vars
  BY <1>3 DEF TypeOK, StoredFirst, vars
<1> QED
  BY <1>1, <1>2, <1>3 DEF Next, StepOf

\* Every variable keeps its type, and a text is stored only for a paper that
\* has a row, for any number of runs, papers, chunks and faults.
THEOREM TypeCorrect == Spec => []TypeOK
<1>1. Spec => [](TypeOK /\ StoredFirst)
  BY InitTypeOK, InitStoredFirst, NextTypeOK, PTL DEF Spec
<1> QED
  BY <1>1, PTL

-----------------------------------------------------------------------------
(* The status row: nothing unsettles a paper, nobody gives up without a letter. *)

\* A run that found the paper settled before its commit still finds it so.
SeenStaysSettled ==
    \A r \in Runs :
        pc[r] = "commit" /\ IsSettled(work[r].seen) => IsSettled(status[work[r].paper])

StatusInv ==
    /\ TypeOK /\ StoredFirst
    /\ SeenStaysSettled /\ StoredIsSettled /\ FailedIsLettered

\* The status rows and letters change in two actions of a run.
LEMMA StatusWriters ==
    ASSUME NEW r \in Runs, StepOf(r), ~CommitContent(r), ~RecordFailure(r)
    PROVE  UNCHANGED <<status, texts, letters>>
BY DEF StepOf, Store, Content, Record, Disturb, Fetch, InsertPaper, InsertConflict, SkipPaper,
       RetryPaper, MetadataFails, Extract, WriteRows, IndexDocuments, LoadStatus, ContentFails,
       LetterWithoutPaper, LoadFailedStatus, RecordingFails, Crash, db

LEMMA CommitStatus ==
    ASSUME StatusInv, NEW r \in Runs, CommitContent(r)
    PROVE  /\ \A p \in Papers : IsSettled(status[p]) => IsSettled(status'[p])
           /\ StoredIsSettled' /\ FailedIsLettered'
<1> DEFINE p == work[r].paper
           row == AdvanceToIndexed(status[p], work[r].seen)
<1>1. TypeOK /\ p \in Papers /\ status[p] \in Statuses /\ work[r].seen \in Statuses
  BY WorkFields DEF StatusInv, TypeOK
<1>2. /\ \A q \in Papers : status'[q] = IF q = p THEN row ELSE status[q]
      /\ texts' = texts \cup {p} /\ letters' = letters
  BY <1>1 DEF CommitContent, TypeOK
<1>3. IsSettled(row)
  BY <1>1, AdvanceSettles DEF StatusInv, SeenStaysSettled, CommitContent
<1>4. row.stage = "failed" => status[p].stage = "failed"
  BY <1>1, FailedWithLetter
<1> HIDE DEF row, p
<1>5. StoredIsSettled'
  <2>1. texts' \subseteq Papers
    BY <1>1, <1>2 DEF TypeOK
  <2> QED
    BY <1>2, <1>3, <2>1 DEF StoredIsSettled, StatusInv
<1>6. FailedIsLettered'
  BY <1>1, <1>2, <1>4 DEF FailedIsLettered, StatusInv
<1> QED
  BY <1>2, <1>3, <1>5, <1>6

LEMMA RecordStatus ==
    ASSUME StatusInv, NEW r \in Runs, RecordFailure(r)
    PROVE  /\ \A p \in Papers : IsSettled(status[p]) => IsSettled(status'[p])
           /\ StoredIsSettled' /\ FailedIsLettered'
<1> DEFINE p == work[r].paper
           row == RecordAttemptFailure(status[p], work[r].seen)
           n == LettersFor(work[r].seen)
<1>1. TypeOK /\ p \in Papers /\ status[p] \in Statuses /\ work[r].seen \in Statuses
  BY WorkFields DEF StatusInv, TypeOK
<1>2. /\ \A q \in Papers : status'[q] = IF q = p THEN row ELSE status[q]
      /\ \A q \in Papers : letters'[q] = IF q = p THEN letters[q] + n ELSE letters[q]
      /\ texts' = texts
  BY <1>1 DEF RecordFailure, TypeOK
<1>3. IsSettled(status[p]) => IsSettled(row)
  BY <1>1, NothingUnsettles
<1>4. row.stage = "failed" => status[p].stage = "failed" \/ n = 1
  BY <1>1, FailedWithLetter
<1>5. n \in Nat
  BY DEF LettersFor
<1> HIDE DEF row, p, n
<1>6. StoredIsSettled'
  BY <1>1, <1>2, <1>3 DEF StoredIsSettled, StatusInv, TypeOK
<1>7. FailedIsLettered'
  <2> SUFFICES ASSUME NEW q \in Papers, status'[q].stage = "failed" PROVE letters'[q] > 0
    BY DEF FailedIsLettered
  <2>1. letters[q] \in Nat
    BY <1>1 DEF TypeOK
  <2>2. status[q].stage = "failed" => letters[q] > 0
    BY DEF FailedIsLettered, StatusInv
  <2>3. CASE q = p
    BY <1>2, <1>4, <1>5, <2>1, <2>2, <2>3
  <2>4. CASE q # p
    BY <1>2, <2>2, <2>4
  <2> QED
    BY <2>3, <2>4
<1> QED
  BY <1>2, <1>3, <1>6, <1>7

\* Only LoadStatus brings a run to its commit.
LEMMA CommitIsLoaded ==
    ASSUME TypeOK, NEW r \in Runs, StepOf(r), pc'[r] = "commit"
    PROVE  work'[r].paper = work[r].paper /\ work'[r].seen = status[work[r].paper]
<1>1. LoadStatus(r)
  <2>1. ~Finish(r)
    BY DEF TypeOK, Finish, Goto
  <2> QED
    BY <2>1 DEF TypeOK, StepOf, Store, Content, Record, Disturb, Fetch, InsertPaper,
         InsertConflict, SkipPaper, RetryPaper, MetadataFails, Extract, WriteRows,
         IndexDocuments, CommitContent, ContentFails, LetterWithoutPaper, LoadFailedStatus,
         RecordFailure, RecordingFails, Crash, Goto
<1>2. work[r] \in Work
  BY WorkFields
<1> QED
  BY <1>1, <1>2 DEF LoadStatus, TypeOK, Work

LEMMA StepStatusInv ==
    ASSUME StatusInv, NEW r \in Runs, StepOf(r)
    PROVE  SeenStaysSettled' /\ StoredIsSettled' /\ FailedIsLettered'
<1>1. TypeOK
  BY DEF StatusInv
<1>2. /\ \A p \in Papers : IsSettled(status[p]) => IsSettled(status'[p])
      /\ StoredIsSettled' /\ FailedIsLettered'
  <2>1. CASE CommitContent(r)
    BY <2>1, CommitStatus
  <2>2. CASE RecordFailure(r)
    BY <2>2, RecordStatus
  <2>3. CASE ~CommitContent(r) /\ ~RecordFailure(r)
    BY <2>3, StatusWriters DEF StatusInv, StoredIsSettled, FailedIsLettered
  <2> QED
    BY <2>1, <2>2, <2>3
<1>3. SeenStaysSettled'
  <2> SUFFICES ASSUME NEW q \in Runs, pc'[q] = "commit", IsSettled(work'[q].seen)
               PROVE  IsSettled(status'[work'[q].paper])
    BY DEF SeenStaysSettled, IsSettled
  <2>1. work[q].paper \in Papers /\ work[r].paper \in Papers
    BY <1>1, WorkFields
  <2>2. CASE q = r
    BY <1>1, <1>2, <2>1, <2>2, CommitIsLoaded
  <2>3. CASE q # r
    BY <1>1, <1>2, <2>1, <2>3, OthersKept DEF StatusInv, SeenStaysSettled
  <2> QED
    BY <2>2, <2>3
<1> QED
  BY <1>2, <1>3

LEMMA NextStatusInv == StatusInv /\ [Next]_vars => StatusInv'
<1> SUFFICES ASSUME StatusInv, [Next]_vars PROVE StatusInv'
  OBVIOUS
<1>1. TypeOK' /\ StoredFirst' /\ TypeOK
  BY NextTypeOK DEF StatusInv
<1>2. ASSUME NEW r \in Runs, StepOf(r) PROVE StatusInv'
  BY <1>1, <1>2, StepStatusInv DEF StatusInv
<1>3. ASSUME NEW p \in Papers, BackoffElapses(p) PROVE StatusInv'
  <2>1. \A q \in Papers : status'[q].stage = status[q].stage
    BY <1>1, <1>3 DEF BackoffElapses, TypeOK, Statuses
  <2>2. texts \subseteq Papers /\ \A r \in Runs : work[r].paper \in Papers
    BY <1>1, WorkFields DEF TypeOK
  <2>3. SeenStaysSettled' /\ StoredIsSettled' /\ FailedIsLettered'
    BY <1>3, <2>1, <2>2 DEF BackoffElapses, StatusInv, SeenStaysSettled, StoredIsSettled,
                            FailedIsLettered, IsSettled
  <2> QED
    BY <1>1, <2>3 DEF StatusInv
<1>4. CASE UNCHANGED vars
  BY <1>1, <1>4 DEF vars, StatusInv, SeenStaysSettled, StoredIsSettled, FailedIsLettered,
                    IsSettled
<1> QED
  BY <1>2, <1>3, <1>4 DEF Next, StepOf

LEMMA InitStatusInv == Init => StatusInv
<1> SUFFICES ASSUME Init PROVE StatusInv
  OBVIOUS
<1>1. SeenStaysSettled /\ StoredIsSettled /\ FailedIsLettered
  BY DEF Init, SeenStaysSettled, StoredIsSettled, FailedIsLettered, FreshStatus
<1> QED
  BY <1>1, InitTypeOK, InitStoredFirst DEF StatusInv

\* A paper with a text is INDEXED or FAILED: no failure another run records
\* late, and no rollback, brings a paper whose rows are visible back to work.
THEOREM StoredStaysSettled == Spec => []StoredIsSettled
<1>1. StatusInv => StoredIsSettled
  BY DEF StatusInv
<1> QED
  BY <1>1, InitStatusInv, NextStatusInv, PTL DEF Spec

\* A paper that is FAILED has a dead letter, whichever of several runs spent
\* the budget and in whatever order their commits reach the row.
THEOREM NobodyGivesUpSilently == Spec => []FailedIsLettered
<1>1. StatusInv => FailedIsLettered
  BY DEF StatusInv
<1> QED
  BY <1>1, InitStatusInv, NextStatusInv, PTL DEF Spec

-----------------------------------------------------------------------------
(* The rows, their marks and the documents: what the locks of a flush protect. *)

\* Run r has flushed chunk rows of paper p and holds their locks.
Writes(r, p) ==
    /\ pc[r] \in {"index", "status", "commit"}
    /\ work[r].paper = p
    /\ work[r].count > 0

\* The locks exclude each other.
OneHolder ==
    \A r, q \in Runs, p \in Papers : r # q /\ Holds(r, p) => ~Holds(q, p)

\* Passes are numbered in the order of their flushes.
PassBounds ==
    /\ \A p \in Papers, i \in Indices : rows[p][i] <= passes[p] /\ docs[p][i] <= passes[p]
    /\ \A r \in Runs, i \in Indices : work[r].hadRows[i] <= passes[work[r].paper]

\* The pass of a writer is later than any other that a row, a document or a
\* run's memory of the rows stems from.
WriterIsNewest ==
    \A r \in Runs, p \in Papers : Writes(r, p) =>
        /\ 0 < work[r].pass /\ work[r].pass <= passes[p]
        /\ \A i \in Indices : rows[p][i] < work[r].pass /\ docs[p][i] <= work[r].pass
        /\ \A q \in Runs, i \in Indices :
             work[q].paper = p => work[q].hadRows[i] < work[r].pass

\* The rows of a pass are replaced together: if one row a run has loaded is
\* still there, they all are, and there is no other.
LoadedTogether ==
    \A r \in Runs, i \in Indices :
        work[r].hadRows[i] # 0 /\ work[r].hadRows[i] = rows[work[r].paper][i]
            => work[r].hadRows = rows[work[r].paper]

\* A writer replaces every row there is.
NothingSurvives ==
    \A r \in Runs, i \in Indices : Writes(r, work[r].paper) => ~Survives(r, i)

\* What a writer will mark is what OpenSearch holds of its pass.
AckedIsApplied ==
    \A r \in Runs, p \in Papers : Writes(r, p) /\ pc[r] # "index" =>
        \A i \in work[r].acked : i < work[r].count /\ docs[p][i] = work[r].pass

StoresInv ==
    /\ TypeOK
    /\ OneHolder /\ PassBounds /\ WriterIsNewest /\ LoadedTogether
    /\ NothingSurvives /\ AckedIsApplied
    /\ RowsOfOnePass /\ MarkedIsSearchable

\* What run r remembers of the rows is nothing, or unchanged, or just loaded.
Loads(r) ==
    \/ \A i \in Indices : work'[r].hadRows[i] = 0
    \/ /\ work'[r].paper = work[r].paper
       /\ work'[r].hadRows = work[r].hadRows \/ work'[r].hadRows = rows[work[r].paper]

LEMMA StoresTypes ==
    ASSUME TypeOK
    PROVE  /\ \A p \in Papers, i \in Indices : rows[p][i] \in Nat /\ docs[p][i] \in Nat
           /\ \A p \in Papers : rows[p] \in [Indices -> Nat] /\ marked[p] \subseteq Indices
           /\ \A p \in Papers : passes[p] \in Nat
           /\ \A r \in Runs : /\ work[r].paper \in Papers
                              /\ work[r].pass \in Nat /\ work[r].count \in Nat
                              /\ work[r].hadRows \in [Indices -> Nat]
                              /\ \A i \in Indices : work[r].hadRows[i] \in Nat
                              /\ work[r].acked \subseteq Indices
BY WorkFields DEF TypeOK

LEMMA WriterHolds ==
    ASSUME NEW r \in Runs, NEW p \in Papers, Writes(r, p)
    PROVE  Holds(r, p)
BY DEF Writes, Holds

\* Two runs do not write one paper at the same time.
LEMMA OneWriter ==
    ASSUME OneHolder, NEW r \in Runs, NEW q \in Runs, NEW p \in Papers,
           Writes(r, p), Writes(q, p)
    PROVE  r = q
BY WriterHolds DEF OneHolder

\* A step that leaves the stores alone and after which r writes no paper.
LEMMA QuietKept ==
    ASSUME StoresInv, TypeOK', NEW r \in Runs,
           \A q \in Runs \ {r} : pc'[q] = pc[q] /\ work'[q] = work[q],
           UNCHANGED <<rows, marked, docs, passes>>,
           pc'[r] \notin {"index", "status", "commit"}, Loads(r)
    PROVE  StoresInv'
<1>1. TypeOK
  BY DEF StoresInv
<1>2. \A q \in Runs, p \in Papers :
        /\ Holds(q, p)' => q # r /\ Holds(q, p)
        /\ Writes(q, p)' => q # r /\ Writes(q, p)
  BY DEF Holds, Writes
<1>3. OneHolder'
  BY <1>2 DEF StoresInv, OneHolder
<1>4. \A i \in Indices : work'[r].hadRows[i] <= passes[work'[r].paper]
  BY <1>1, StoresTypes, TypeOK' DEF TypeOK, Work, StoresInv, PassBounds, Loads
<1>5. PassBounds'
  BY <1>4 DEF StoresInv, PassBounds
<1>6. WriterIsNewest'
  <2> SUFFICES ASSUME NEW q \in Runs, NEW p \in Papers, Writes(q, p)'
               PROVE  /\ 0 < work[q].pass /\ work[q].pass <= passes[p]
                      /\ \A i \in Indices : rows[p][i] < work[q].pass /\ docs[p][i] <= work[q].pass
                      /\ \A x \in Runs, i \in Indices :
                           work'[x].paper = p => work'[x].hadRows[i] < work[q].pass
    BY <1>2 DEF WriterIsNewest
  <2>1. /\ 0 < work[q].pass /\ work[q].pass <= passes[p]
        /\ \A i \in Indices : rows[p][i] < work[q].pass /\ docs[p][i] <= work[q].pass
        /\ \A x \in Runs, i \in Indices :
             work[x].paper = p => work[x].hadRows[i] < work[q].pass
    BY <1>2 DEF StoresInv, WriterIsNewest
  <2>2. ASSUME NEW i \in Indices, work'[r].paper = p PROVE work'[r].hadRows[i] < work[q].pass
    BY <2>1, <2>2 DEF Loads
  <2> QED
    BY <2>1, <2>2
<1>7. LoadedTogether'
  <2>1. ASSUME NEW i \in Indices, work'[r].hadRows[i] # 0,
               work'[r].hadRows[i] = rows[work'[r].paper][i]
        PROVE  work'[r].hadRows = rows[work'[r].paper]
    BY <2>1 DEF Loads, StoresInv, LoadedTogether
  <2> QED
    BY <2>1 DEF StoresInv, LoadedTogether
<1>8. NothingSurvives'
  <2> SUFFICES ASSUME NEW q \in Runs, NEW i \in Indices, Writes(q, work[q].paper)'
               PROVE  ~Survives(q, i)'
    BY DEF NothingSurvives, Writes
  <2>1. work'[q].paper \in Papers
    BY TypeOK' DEF TypeOK, Work
  <2>2. q # r /\ work'[q] = work[q] /\ Writes(q, work[q].paper)
    BY <1>2, <2>1 DEF Writes
  <2>3. ~Survives(q, i)
    BY <2>2 DEF StoresInv, NothingSurvives
  <2> QED
    BY <2>2, <2>3 DEF Survives
<1>9. AckedIsApplied'
  BY <1>2 DEF StoresInv, AckedIsApplied
<1>10. RowsOfOnePass' /\ MarkedIsSearchable'
  BY DEF StoresInv, RowsOfOnePass, MarkedIsSearchable
<1> QED
  BY <1>3, <1>5, <1>6, <1>7, <1>8, <1>9, <1>10 DEF StoresInv

\* LoadStatus: the run stays a holder of what it holds.
LEMMA LoadStatusKept ==
    ASSUME StoresInv, TypeOK', NEW r \in Runs, LoadStatus(r)
    PROVE  StoresInv'
<1>1. TypeOK /\ work[r] \in Work
  BY WorkFields DEF StoresInv
<1>2. \A q \in Runs : /\ work'[q].paper = work[q].paper /\ work'[q].count = work[q].count
                      /\ work'[q].hadText = work[q].hadText
                      /\ work'[q].hadRows = work[q].hadRows
                      /\ work'[q].pass = work[q].pass /\ work'[q].acked = work[q].acked
  BY <1>1 DEF LoadStatus, TypeOK, Work
<1>3. /\ \A q \in Runs \ {r} : pc'[q] = pc[q]
      /\ pc[r] = "status" /\ pc'[r] = "commit"
  BY <1>1 DEF LoadStatus, Goto, TypeOK
<1>4. UNCHANGED <<rows, marked, docs, passes>>
  BY DEF LoadStatus, db
<1>5. \A q \in Runs, p \in Papers :
        /\ Holds(q, p)' <=> Holds(q, p)
        /\ Writes(q, p)' <=> Writes(q, p)
        /\ pc'[q] # "index" <=> pc[q] # "index"
  BY <1>2, <1>3 DEF Holds, Writes
<1>6. OneHolder'
  BY <1>5 DEF StoresInv, OneHolder
<1>7. PassBounds'
  BY <1>2, <1>4 DEF StoresInv, PassBounds
<1>8. WriterIsNewest'
  BY <1>2, <1>4, <1>5 DEF StoresInv, WriterIsNewest
<1>9. LoadedTogether'
  BY <1>2, <1>4 DEF StoresInv, LoadedTogether
<1>10. NothingSurvives'
  <2> SUFFICES ASSUME NEW q \in Runs, NEW i \in Indices, Writes(q, work[q].paper)'
               PROVE  ~Survives(q, i)'
    BY DEF NothingSurvives, Writes
  <2>1. Writes(q, work[q].paper)
    BY <1>2, <1>3 DEF Writes
  <2>2. ~Survives(q, i)
    BY <2>1 DEF StoresInv, NothingSurvives
  <2> QED
    BY <1>2, <1>4, <2>2 DEF Survives
<1>11. AckedIsApplied'
  BY <1>2, <1>4, <1>5 DEF StoresInv, AckedIsApplied
<1>12. RowsOfOnePass' /\ MarkedIsSearchable'
  BY <1>4 DEF StoresInv, RowsOfOnePass, MarkedIsSearchable
<1> QED
  BY <1>6, <1>7, <1>8, <1>9, <1>10, <1>11, <1>12 DEF StoresInv

\* A flush that met no conflict leaves no row that the run has not loaded.
LEMMA FlushReplacesAll ==
    ASSUME StoresInv, NEW r \in Runs, work[r].count > 0, ~RowsConflict(r), NEW i \in Indices
    PROVE  ~Survives(r, i)
<1> DEFINE p == work[r].paper
<1>1. TypeOK /\ p \in Papers /\ work[r].count \in Nat
  BY StoresTypes DEF StoresInv
<1>2. SUFFICES ASSUME Survives(r, i) PROVE FALSE
  OBVIOUS
<1>3. i \in Nat /\ 0 \in Indices /\ 0 < work[r].count
  BY <1>1, BoundsAssumption DEF Indices
<1>4. i # 0 /\ rows[p][i] # 0
  BY <1>2, <1>3 DEF RowsConflict, Survives
<1>5. rows[p][0] = rows[p][i]
  BY <1>1, <1>3, <1>4 DEF StoresInv, RowsOfOnePass
<1>6. ~Survives(r, 0)
  BY <1>3 DEF RowsConflict
<1>7. work[r].hadRows[0] = rows[p][0] /\ rows[p][0] # 0
  BY <1>4, <1>5, <1>6 DEF Survives
<1>8. work[r].hadRows = rows[p]
  BY <1>3, <1>7 DEF StoresInv, LoadedTogether
<1> QED
  BY <1>2, <1>8 DEF Survives

\* A flush: the run becomes the writer of its paper, if it has chunks to write.
LEMMA FlushKept ==
    ASSUME StoresInv, TypeOK', NEW r \in Runs, WriteRows(r), ~RowsConflict(r)
    PROVE  StoresInv'
<1> DEFINE p == work[r].paper
           n == passes[p] + 1
<1>1. TypeOK /\ work[r] \in Work /\ p \in Papers
  BY WorkFields DEF StoresInv
<1>2. /\ \A q \in Runs : work'[q].paper = work[q].paper /\ work'[q].count = work[q].count
                         /\ work'[q].hadText = work[q].hadText
                         /\ work'[q].hadRows = work[q].hadRows
                         /\ work'[q].acked = work[q].acked
      /\ work'[r].pass = n /\ \A q \in Runs \ {r} : work'[q].pass = work[q].pass
  <2>1. work' = [work EXCEPT ![r].pass = n]
    BY DEF WriteRows
  <2> HIDE DEF n
  <2>2. work'[r] = [work[r] EXCEPT !.pass = n] /\ \A q \in Runs \ {r} : work'[q] = work[q]
    BY <1>1, <2>1 DEF TypeOK
  <2> QED
    BY <1>1, <2>2 DEF Work
<1>3. /\ \A q \in Runs \ {r} : pc'[q] = pc[q]
      /\ pc[r] = "rows" /\ pc'[r] \in {"index", "status"}
      /\ pc'[r] = "status" <=> ~(work[r].count > 0)
  BY <1>1 DEF WriteRows, Goto, TypeOK
<1>4. /\ UNCHANGED <<rows, marked, docs>>
      /\ \A x \in Papers : passes'[x] = IF x = p THEN n ELSE passes[x]
  BY <1>1 DEF WriteRows, db, TypeOK
<1>5. \A x \in Papers : passes[x] \in Nat /\ passes'[x] \in Nat /\ passes[x] <= passes'[x]
  BY <1>1, <1>4, StoresTypes
<1>6. \A q \in Runs \ {r}, x \in Papers :
        (Holds(q, x)' <=> Holds(q, x)) /\ (Writes(q, x)' <=> Writes(q, x))
  BY <1>2, <1>3 DEF Holds, Writes
<1>7. \A x \in Papers : /\ Holds(r, x)' => x = p /\ (work[r].count > 0 \/ ~work[r].hadText)
                        /\ Writes(r, x)' => x = p /\ work[r].count > 0 /\ pc'[r] = "index"
                        /\ ~Writes(r, x) /\ ~Holds(r, x)
  BY <1>2, <1>3 DEF Holds, Writes
<1>8. (work[r].count > 0 \/ ~work[r].hadText) => \A q \in Runs \ {r} : ~Holds(q, p)
  BY DEF WriteRows, NoOtherHolder
<1>9. OneHolder'
  <2> SUFFICES ASSUME NEW a \in Runs, NEW b \in Runs, NEW x \in Papers, a # b,
                      Holds(a, x)', Holds(b, x)'
               PROVE  FALSE
    BY DEF OneHolder
  <2>1. CASE a = r
    BY <1>6, <1>7, <1>8, <2>1
  <2>2. CASE b = r
    BY <1>6, <1>7, <1>8, <2>2
  <2>3. CASE a # r /\ b # r
    BY <1>6, <2>3 DEF StoresInv, OneHolder
  <2> QED
    BY <2>1, <2>2, <2>3
<1>10. PassBounds'
  <2>1. ASSUME NEW x \in Papers, NEW i \in Indices
        PROVE  rows[x][i] <= passes'[x] /\ docs[x][i] <= passes'[x]
    BY <1>1, <1>5, StoresTypes DEF StoresInv, PassBounds
  <2>2. ASSUME NEW q \in Runs, NEW i \in Indices
        PROVE  work[q].hadRows[i] <= passes'[work[q].paper]
    <3>1. work[q].hadRows[i] <= passes[work[q].paper] /\ work[q].paper \in Papers
          /\ work[q].hadRows[i] \in Nat
      BY <1>1, StoresTypes DEF StoresInv, PassBounds
    <3> QED
      BY <1>5, <3>1
  <2> QED
    BY <1>2, <1>4, <2>1, <2>2 DEF PassBounds
<1>11. WriterIsNewest'
  <2> SUFFICES ASSUME NEW q \in Runs, NEW x \in Papers, Writes(q, x)'
               PROVE  /\ 0 < work'[q].pass /\ work'[q].pass <= passes'[x]
                      /\ \A i \in Indices : rows[x][i] < work'[q].pass /\ docs[x][i] <= work'[q].pass
                      /\ \A y \in Runs, i \in Indices :
                           work[y].paper = x => work[y].hadRows[i] < work'[q].pass
    BY <1>2, <1>4 DEF WriterIsNewest
  <2>1. CASE q = r
    <3>1. x = p /\ work'[q].pass = passes[p] + 1 /\ passes'[x] = passes[p] + 1
      BY <1>2, <1>4, <1>7, <2>1
    <3>2. \A i \in Indices : /\ rows[p][i] <= passes[p] /\ docs[p][i] <= passes[p]
                             /\ rows[p][i] \in Nat /\ docs[p][i] \in Nat
      BY <1>1, StoresTypes DEF StoresInv, PassBounds
    <3>3. \A y \in Runs, i \in Indices :
            /\ work[y].hadRows[i] \in Nat
            /\ work[y].paper = p => work[y].hadRows[i] <= passes[p]
      BY <1>1, StoresTypes DEF StoresInv, PassBounds
    <3>4. passes[p] \in Nat
      BY <1>1, <1>5
    <3> HIDE DEF p
    <3> QED
      BY <3>1, <3>2, <3>3, <3>4
  <2>2. CASE q # r
    <3>1. Writes(q, x) /\ work'[q].pass = work[q].pass /\ work[q].pass \in Nat
      BY <1>1, <1>2, <1>6, <2>2, StoresTypes
    <3>2. work[q].pass <= passes[x] /\ passes[x] <= passes'[x]
      BY <1>5, <3>1 DEF StoresInv, WriterIsNewest
    <3> QED
      BY <1>5, <3>1, <3>2 DEF StoresInv, WriterIsNewest
  <2> QED
    BY <2>1, <2>2
<1>12. LoadedTogether'
  BY <1>2, <1>4 DEF StoresInv, LoadedTogether
<1>13. NothingSurvives'
  <2> SUFFICES ASSUME NEW q \in Runs, NEW i \in Indices, Writes(q, work[q].paper)'
               PROVE  ~Survives(q, i)'
    BY DEF NothingSurvives, Writes
  <2>1. ~Survives(q, i)
    <3>1. CASE q = r
      BY <1>1, <1>2, <1>3, <3>1, FlushReplacesAll DEF Writes
    <3>2. CASE q # r
      BY <1>2, <1>3, <3>2 DEF Writes, StoresInv, NothingSurvives
    <3> QED
      BY <3>1, <3>2
  <2> QED
    BY <1>2, <1>4, <2>1 DEF Survives
<1>14. AckedIsApplied'
  BY <1>2, <1>3, <1>4, <1>6, <1>7 DEF StoresInv, AckedIsApplied
<1>15. RowsOfOnePass' /\ MarkedIsSearchable'
  BY <1>4 DEF StoresInv, RowsOfOnePass, MarkedIsSearchable
<1> QED
  BY <1>9, <1>10, <1>11, <1>12, <1>13, <1>14, <1>15 DEF StoresInv

\* The bulk request: documents of the writer's pass replace older ones.
LEMMA IndexKept ==
    ASSUME StoresInv, TypeOK', NEW r \in Runs, IndexDocuments(r)
    PROVE  StoresInv'
<1> DEFINE p == work[r].paper
           n == work[r].pass
<1>1. TypeOK /\ work[r] \in Work /\ p \in Papers /\ work[r].count \in Nat
  BY WorkFields DEF StoresInv
<1>2. PICK applied \in SUBSET ChunkIds(r), acked \in SUBSET ChunkIds(r) :
        /\ acked \subseteq applied
        /\ docs' = [docs EXCEPT ![p] =
                      [i \in Indices |-> IF i \in applied THEN n ELSE docs[p][i]]]
        /\ work' = [work EXCEPT ![r].acked = acked]
  BY <1>1 DEF IndexDocuments, TypeOK, Acknowledges
<1>3. \A q \in Runs : /\ work'[q].paper = work[q].paper /\ work'[q].count = work[q].count
                      /\ work'[q].hadText = work[q].hadText
                      /\ work'[q].hadRows = work[q].hadRows /\ work'[q].pass = work[q].pass
                      /\ work'[q].acked = IF q = r THEN acked ELSE work[q].acked
  BY <1>1, <1>2 DEF TypeOK, Work
<1>4. /\ \A q \in Runs \ {r} : pc'[q] = pc[q]
      /\ pc[r] = "index" /\ pc'[r] = "status"
  BY <1>1 DEF IndexDocuments, Goto, TypeOK
<1>5. /\ UNCHANGED <<rows, marked, passes>>
      /\ \A x \in Papers, i \in Indices :
           docs'[x][i] = IF x = p /\ i \in applied THEN n ELSE docs[x][i]
  BY <1>1, <1>2 DEF IndexDocuments, db, TypeOK
<1>6. \A q \in Runs, x \in Papers : (Holds(q, x)' <=> Holds(q, x)) /\ (Writes(q, x)' <=> Writes(q, x))
  BY <1>3, <1>4 DEF Holds, Writes
<1>7. ASSUME NEW i \in applied
      PROVE  Writes(r, p) /\ i \in Nat /\ i < work[r].count /\ i \in Indices
  <2>1. i \in Nat /\ i < work[r].count /\ work[r].count <= MaxChunks
    BY <1>1, WorkFields DEF ChunkIds
  <2> QED
    BY <1>1, <1>4, <2>1, BoundsAssumption DEF Writes, Indices
<1>8. Writes(r, p) => /\ 0 < n /\ n <= passes[p]
                      /\ \A i \in Indices : rows[p][i] < n /\ docs[p][i] <= n
  BY <1>1 DEF StoresInv, WriterIsNewest
<1>9. n \in Nat /\ \A x \in Papers, i \in Indices : rows[x][i] \in Nat /\ docs[x][i] \in Nat
  BY <1>1, StoresTypes
<1> HIDE DEF n, p
<1>10. OneHolder'
  BY <1>6 DEF StoresInv, OneHolder
<1>11. PassBounds'
  <2>1. \A x \in Papers, i \in Indices : docs'[x][i] <= passes[x]
    BY <1>5, <1>7, <1>8 DEF StoresInv, PassBounds
  <2> QED
    BY <1>3, <1>5, <2>1 DEF StoresInv, PassBounds
<1>12. WriterIsNewest'
  <2> SUFFICES ASSUME NEW q \in Runs, NEW x \in Papers, Writes(q, x)
               PROVE  /\ 0 < work[q].pass /\ work[q].pass <= passes[x]
                      /\ \A i \in Indices : rows[x][i] < work[q].pass /\ docs'[x][i] <= work[q].pass
                      /\ \A y \in Runs, i \in Indices :
                           work[y].paper = x => work[y].hadRows[i] < work[q].pass
    BY <1>3, <1>5, <1>6 DEF WriterIsNewest
  <2>1. /\ 0 < work[q].pass /\ work[q].pass <= passes[x]
        /\ \A i \in Indices : rows[x][i] < work[q].pass /\ docs[x][i] <= work[q].pass
        /\ \A y \in Runs, i \in Indices :
             work[y].paper = x => work[y].hadRows[i] < work[q].pass
    BY DEF StoresInv, WriterIsNewest
  <2>2. ASSUME NEW i \in Indices PROVE docs'[x][i] <= work[q].pass
    <3>1. CASE x = p /\ i \in applied
      <4>1. q = r
        BY <1>7, <3>1, OneWriter DEF StoresInv
      <4> QED
        BY <1>5, <1>9, <3>1, <4>1 DEF n
    <3>2. CASE ~(x = p /\ i \in applied)
      BY <1>5, <2>1, <3>2
    <3> QED
      BY <3>1, <3>2
  <2> QED
    BY <2>1, <2>2
<1>13. LoadedTogether'
  BY <1>3, <1>5 DEF StoresInv, LoadedTogether
<1>14. NothingSurvives'
  <2> SUFFICES ASSUME NEW q \in Runs, NEW i \in Indices, Writes(q, work[q].paper)'
               PROVE  ~Survives(q, i)'
    BY DEF NothingSurvives, Writes
  <2>1. ~Survives(q, i)
    BY <1>3, <1>4 DEF Writes, StoresInv, NothingSurvives
  <2> QED
    BY <1>3, <1>5, <2>1 DEF Survives
<1>15. AckedIsApplied'
  <2> SUFFICES ASSUME NEW q \in Runs, NEW x \in Papers, Writes(q, x), pc'[q] # "index",
                      NEW i \in work'[q].acked
               PROVE  i < work[q].count /\ docs'[x][i] = work[q].pass
    BY <1>3, <1>6 DEF AckedIsApplied
  <2>1. CASE q = r
    <3>1. i \in applied /\ x = p
      BY <1>2, <1>3, <2>1 DEF Writes, p
    <3> QED
      BY <1>5, <1>7, <2>1, <3>1 DEF n
  <2>2. CASE q # r
    <3>1. i \in work[q].acked /\ pc[q] # "index" /\ i \in Indices
      BY <1>1, <1>3, <1>4, <2>2, StoresTypes
    <3>2. i < work[q].count /\ docs[x][i] = work[q].pass
      BY <3>1 DEF StoresInv, AckedIsApplied
    <3>3. ~(x = p /\ i \in applied)
      BY <1>7, <2>2, OneWriter DEF StoresInv
    <3> QED
      BY <1>5, <3>1, <3>2, <3>3
  <2> QED
    BY <2>1, <2>2
<1>16. MarkedIsSearchable'
  <2> SUFFICES ASSUME NEW x \in Papers, NEW i \in marked[x]
               PROVE  rows[x][i] # 0 /\ docs'[x][i] >= rows[x][i]
    BY <1>5 DEF MarkedIsSearchable
  <2>1. i \in Indices /\ rows[x][i] # 0 /\ docs[x][i] >= rows[x][i]
    BY <1>1, StoresTypes DEF StoresInv, MarkedIsSearchable
  <2> QED
    BY <1>5, <1>7, <1>8, <1>9, <2>1
<1>17. RowsOfOnePass'
  BY <1>5 DEF StoresInv, RowsOfOnePass
<1> QED
  BY <1>10, <1>11, <1>12, <1>13, <1>14, <1>15, <1>16, <1>17 DEF StoresInv

\* The commit of a writer: its rows replace all others and get their marks.
LEMMA CommitKept ==
    ASSUME StoresInv, TypeOK', NEW r \in Runs, CommitContent(r), work[r].count > 0
    PROVE  StoresInv'
<1> DEFINE p == work[r].paper
           n == work[r].pass
           count == work[r].count
<1>1. /\ TypeOK /\ work[r] \in Work /\ p \in Papers
      /\ n \in Nat /\ count \in Nat /\ work[r].acked \subseteq Indices
  BY WorkFields DEF StoresInv
<1>2. Writes(r, p) /\ pc[r] = "commit"
  BY DEF CommitContent, Writes
<1>3. \A i \in Indices : ~Survives(r, i)
  BY <1>2 DEF StoresInv, NothingSurvives
<1>4. /\ UNCHANGED <<docs, passes>>
      /\ \A x \in Papers, i \in Indices :
           rows'[x][i] = IF x = p THEN IF i < count THEN n ELSE 0 ELSE rows[x][i]
      /\ \A x \in Papers \ {p} : rows'[x] = rows[x]
      /\ \A x \in Papers \ {p} : marked'[x] = marked[x]
      /\ \A i \in marked'[p] : i \in work[r].acked
  <2>1. UNCHANGED <<docs, passes>>
    BY DEF CommitContent
  <2>2. rows' = [rows EXCEPT ![p] = [i \in Indices |-> IF i < count THEN n
                                         ELSE IF Survives(r, i) THEN rows[p][i] ELSE 0]]
    BY <1>1 DEF CommitContent, TypeOK
  <2>3. marked' = [marked EXCEPT ![p] =
                     work[r].acked \cup {i \in marked[p] : i >= count /\ Survives(r, i)}]
    BY <1>1 DEF CommitContent, TypeOK
  <2>4. marked[p] \subseteq Indices
    BY <1>1 DEF TypeOK
  <2> HIDE DEF p, n, count
  <2>5. \A x \in Papers, i \in Indices :
          rows'[x][i] = IF x = p THEN IF i < count THEN n ELSE 0 ELSE rows[x][i]
    BY <1>1, <1>3, <2>2 DEF TypeOK
  <2>6. \A i \in marked'[p] : i \in work[r].acked
    BY <1>1, <1>3, <2>3, <2>4 DEF TypeOK
  <2> QED
    BY <1>1, <2>1, <2>2, <2>3, <2>5, <2>6 DEF TypeOK
<1>5. /\ \A q \in Runs \ {r} : pc'[q] = pc[q] /\ work'[q] = work[q]
      /\ pc'[r] = "idle" /\ \A i \in Indices : work'[r].hadRows[i] = 0
  BY <1>1 DEF CommitContent, Finish, Goto, TypeOK, NoWork, NoRows
<1>6. \A q \in Runs, x \in Papers : /\ Holds(q, x)' => q # r /\ Holds(q, x)
                                    /\ Writes(q, x)' => q # r /\ Writes(q, x) /\ x # p
  <2>1. \A q \in Runs, x \in Papers : /\ Holds(q, x)' => q # r /\ Holds(q, x)
                                      /\ Writes(q, x)' => q # r /\ Writes(q, x)
    BY <1>5 DEF Holds, Writes
  <2> QED
    BY <1>1, <1>2, <2>1, OneWriter DEF StoresInv
<1>7. /\ 0 < n /\ n <= passes[p]
      /\ \A q \in Runs, i \in Indices : work[q].paper = p => work[q].hadRows[i] < n
  BY <1>1, <1>2 DEF StoresInv, WriterIsNewest
<1>8. \A i \in work[r].acked : i < count /\ docs[p][i] = n /\ i \in Indices
  BY <1>1, <1>2 DEF StoresInv, AckedIsApplied
<1>9. \A x \in Papers : passes[x] \in Nat
  BY <1>1, StoresTypes
<1> HIDE DEF p, n, count
<1>10. OneHolder'
  BY <1>6 DEF StoresInv, OneHolder
<1>11. PassBounds'
  <2>1. ASSUME NEW x \in Papers, NEW i \in Indices PROVE rows'[x][i] <= passes[x]
    BY <1>1, <1>4, <1>7, <1>9 DEF StoresInv, PassBounds
  <2>2. work'[r].paper \in Papers
    BY TypeOK' DEF TypeOK, Work
  <2> QED
    BY <1>4, <1>5, <1>9, <2>1, <2>2 DEF StoresInv, PassBounds
<1>12. WriterIsNewest'
  <2> SUFFICES ASSUME NEW q \in Runs, NEW x \in Papers, Writes(q, x), q # r, x # p
               PROVE  /\ 0 < work[q].pass /\ work[q].pass <= passes[x]
                      /\ \A i \in Indices : rows'[x][i] < work[q].pass /\ docs[x][i] <= work[q].pass
                      /\ \A y \in Runs, i \in Indices :
                           work'[y].paper = x => work'[y].hadRows[i] < work[q].pass
    BY <1>4, <1>5, <1>6 DEF WriterIsNewest
  <2>1. /\ 0 < work[q].pass /\ work[q].pass <= passes[x]
        /\ \A i \in Indices : rows[x][i] < work[q].pass /\ docs[x][i] <= work[q].pass
        /\ \A y \in Runs, i \in Indices :
             work[y].paper = x => work[y].hadRows[i] < work[q].pass
    BY DEF StoresInv, WriterIsNewest
  <2> QED
    BY <1>4, <1>5, <2>1
<1>13. LoadedTogether'
  <2> SUFFICES ASSUME NEW q \in Runs, NEW i \in Indices, work'[q].hadRows[i] # 0,
                      work'[q].hadRows[i] = rows'[work'[q].paper][i]
               PROVE  work'[q].hadRows = rows'[work'[q].paper]
    BY DEF LoadedTogether
  <2>1. q # r /\ work'[q] = work[q] /\ work[q].paper \in Papers
    BY <1>1, <1>5, StoresTypes
  <2>2. work[q].paper # p
    <3> SUFFICES ASSUME work[q].paper = p PROVE FALSE
      OBVIOUS
    <3>1. work[q].hadRows[i] < n /\ work[q].hadRows[i] \in Nat
      BY <1>1, <1>7, StoresTypes
    <3>2. rows'[p][i] = n \/ rows'[p][i] = 0
      BY <1>1, <1>4
    <3> QED
      BY <1>1, <2>1, <3>1, <3>2
  <2> QED
    BY <1>4, <2>1, <2>2 DEF StoresInv, LoadedTogether
<1>14. NothingSurvives'
  <2> SUFFICES ASSUME NEW q \in Runs, NEW i \in Indices, Writes(q, work[q].paper)'
               PROVE  ~Survives(q, i)'
    BY DEF NothingSurvives, Writes
  <2>1. work'[q].paper \in Papers
    BY TypeOK' DEF TypeOK, Work
  <2>2. q # r /\ work'[q] = work[q]
    BY <1>5 DEF Writes
  <2>3. Writes(q, work[q].paper) /\ work[q].paper # p /\ work[q].paper \in Papers
    BY <1>1, <1>2, <1>5, <2>1, <2>2, OneWriter DEF Writes, StoresInv
  <2>4. ~Survives(q, i)
    BY <2>3 DEF StoresInv, NothingSurvives
  <2> QED
    BY <1>4, <2>2, <2>3, <2>4 DEF Survives
<1>15. AckedIsApplied'
  BY <1>4, <1>5, <1>6 DEF StoresInv, AckedIsApplied
<1>16. RowsOfOnePass'
  <2> SUFFICES ASSUME NEW x \in Papers, NEW i \in Indices, NEW j \in Indices,
                      j < i, rows'[x][i] # 0
               PROVE  rows'[x][j] = rows'[x][i]
    BY DEF RowsOfOnePass
  <2>1. i \in Nat /\ j \in Nat
    BY BoundsAssumption DEF Indices
  <2>2. CASE x = p
    BY <1>1, <1>4, <2>1, <2>2
  <2>3. CASE x # p
    BY <1>4, <2>3 DEF StoresInv, RowsOfOnePass
  <2> QED
    BY <2>2, <2>3
<1>17. MarkedIsSearchable'
  <2> SUFFICES ASSUME NEW x \in Papers, NEW i \in marked'[x]
               PROVE  rows'[x][i] # 0 /\ docs[x][i] >= rows'[x][i]
    BY <1>4 DEF MarkedIsSearchable
  <2>1. CASE x = p
    BY <1>1, <1>4, <1>7, <1>8, <2>1
  <2>2. CASE x # p
    BY <1>4, <2>2 DEF StoresInv, MarkedIsSearchable
  <2> QED
    BY <2>1, <2>2
<1> QED
  BY <1>10, <1>11, <1>12, <1>13, <1>14, <1>15, <1>16, <1>17 DEF StoresInv

LEMMA FinishLoadsNothing ==
    ASSUME TypeOK, NEW r \in Runs, Finish(r)
    PROVE  pc'[r] = "idle" /\ Loads(r)
BY DEF TypeOK, Finish, Goto, Loads, NoWork, NoRows

\* Every other step of a run leaves it without rows of its own.
LEMMA QuietSteps ==
    ASSUME StoresInv, NEW r \in Runs, StepOf(r), ~LoadStatus(r), ~IndexDocuments(r),
           WriteRows(r) => RowsConflict(r), CommitContent(r) => ~(work[r].count > 0)
    PROVE  /\ UNCHANGED <<rows, marked, docs, passes>>
           /\ pc'[r] \notin {"index", "status", "commit"} /\ Loads(r)
<1> USE DEF db
<1>1. TypeOK /\ work[r] \in Work
  BY WorkFields DEF StoresInv
<1>2. CASE \E p \in Papers : Fetch(r, p)
  <2>1. PICK p \in Papers : Fetch(r, p)
    BY <1>2
  <2>2. \A i \in Indices : work'[r].hadRows[i] = 0
    BY <1>1, <2>1 DEF Fetch, TypeOK, NoWork, NoRows
  <2> QED
    BY <1>1, <2>1, <2>2 DEF Fetch, Goto, TypeOK, Loads
<1>3. CASE InsertPaper(r) \/ InsertConflict(r) \/ RetryPaper(r) \/ MetadataFails(r)
           \/ ContentFails(r)
  BY <1>1, <1>3 DEF InsertPaper, InsertConflict, RetryPaper, MetadataFails, ContentFails,
                    Goto, TypeOK, Loads
<1>4. CASE SkipPaper(r) \/ CommitContent(r) \/ LetterWithoutPaper(r) \/ RecordFailure(r)
           \/ RecordingFails(r) \/ Crash(r)
  <2>1. Finish(r)
    BY <1>4 DEF SkipPaper, CommitContent, LetterWithoutPaper, RecordFailure, RecordingFails, Crash
  <2>2. UNCHANGED <<rows, marked, docs, passes>>
    BY <1>4 DEF SkipPaper, CommitContent, LetterWithoutPaper, RecordFailure, RecordingFails, Crash
  <2> QED
    BY <1>1, <2>1, <2>2, FinishLoadsNothing
<1>5. CASE Extract(r)
  <2>1. work'[r].paper = work[r].paper /\ work'[r].hadRows = rows[work[r].paper]
    BY <1>1, <1>5 DEF Extract, TypeOK, Work
  <2> QED
    BY <1>1, <1>5, <2>1 DEF Extract, Goto, TypeOK, Loads
<1>6. CASE WriteRows(r)
  BY <1>1, <1>6 DEF WriteRows, Goto, TypeOK, Loads
<1>7. CASE LoadFailedStatus(r)
  <2>1. work'[r].paper = work[r].paper /\ work'[r].hadRows = work[r].hadRows
    BY <1>1, <1>7 DEF LoadFailedStatus, TypeOK, Work
  <2> QED
    BY <1>1, <1>7, <2>1 DEF LoadFailedStatus, Goto, TypeOK, Loads
<1> QED
  BY <1>2, <1>3, <1>4, <1>5, <1>6, <1>7 DEF StepOf, Store, Content, Record, Disturb

LEMMA NextStoresInv ==
    StoresInv /\ StoredFirst /\ [Next]_vars => StoresInv' /\ StoredFirst'
<1> SUFFICES ASSUME StoresInv, StoredFirst, [Next]_vars PROVE StoresInv' /\ StoredFirst'
  OBVIOUS
<1>1. TypeOK /\ TypeOK' /\ StoredFirst'
  BY NextTypeOK DEF StoresInv
<1>2. ASSUME NEW r \in Runs, StepOf(r) PROVE StoresInv'
  <2>1. CASE LoadStatus(r)
    BY <1>1, <2>1, LoadStatusKept
  <2>2. CASE IndexDocuments(r)
    BY <1>1, <2>2, IndexKept
  <2>3. CASE WriteRows(r) /\ ~RowsConflict(r)
    BY <1>1, <2>3, FlushKept
  <2>4. CASE CommitContent(r) /\ work[r].count > 0
    BY <1>1, <2>4, CommitKept
  <2>5. CASE /\ ~LoadStatus(r) /\ ~IndexDocuments(r)
             /\ WriteRows(r) => RowsConflict(r)
             /\ CommitContent(r) => ~(work[r].count > 0)
    <3>1. \A q \in Runs \ {r} : pc'[q] = pc[q] /\ work'[q] = work[q]
      BY <1>1, <1>2, OthersKept
    <3> QED
      BY <1>1, <1>2, <2>5, <3>1, QuietSteps, QuietKept
  <2> QED
    BY <2>1, <2>2, <2>3, <2>4, <2>5
<1>3. ASSUME UNCHANGED <<rows, marked, docs, passes, pc, work>> PROVE StoresInv'
  BY <1>1, <1>3 DEF StoresInv, OneHolder, PassBounds, WriterIsNewest, LoadedTogether,
     NothingSurvives, AckedIsApplied, RowsOfOnePass, MarkedIsSearchable, Holds, Writes, Survives
<1>4. CASE \E p \in Papers : BackoffElapses(p)
  BY <1>1, <1>3, <1>4 DEF BackoffElapses
<1>5. CASE UNCHANGED vars
  BY <1>1, <1>3, <1>5 DEF vars
<1> QED
  BY <1>1, <1>2, <1>4, <1>5 DEF Next, StepOf

LEMMA InitStoresInv == Init => StoresInv
<1> SUFFICES ASSUME Init PROVE StoresInv
  OBVIOUS
<1>1. \A r \in Runs, p \in Papers : ~Holds(r, p) /\ ~Writes(r, p)
  BY DEF Init, Holds, Writes
<1>2. \A r \in Runs : work[r].paper \in Papers /\ ~Writes(r, work[r].paper)
  BY <1>1, InitTypeOK, WorkFields
<1>3. OneHolder /\ WriterIsNewest /\ NothingSurvives /\ AckedIsApplied
  BY <1>1, <1>2 DEF OneHolder, WriterIsNewest, NothingSurvives, AckedIsApplied
<1>4. PassBounds /\ LoadedTogether
  <2>1. \A r \in Runs, i \in Indices : work[r].hadRows[i] = 0
    BY DEF Init, NoWork, NoRows
  <2>2. \A p \in Papers : /\ passes[p] = 0
                          /\ \A i \in Indices : rows[p][i] = 0 /\ docs[p][i] = 0
    BY DEF Init, NoRows
  <2> QED
    BY <1>2, <2>1, <2>2 DEF PassBounds, LoadedTogether
<1>5. RowsOfOnePass /\ MarkedIsSearchable
  BY DEF Init, RowsOfOnePass, MarkedIsSearchable, NoRows
<1> QED
  BY <1>3, <1>4, <1>5, InitTypeOK DEF StoresInv

\* Whatever runs interleave on a paper, its chunk rows come from one pass and
\* are numbered without a gap: replace_chunks never leaves a mixture.
THEOREM RowsNeverMix == Spec => []RowsOfOnePass
<1>1. Spec => [](StoresInv /\ StoredFirst)
  BY InitStoresInv, InitStoredFirst, NextStoresInv, PTL DEF Spec
<1>2. StoresInv => RowsOfOnePass
  BY DEF StoresInv
<1> QED
  BY <1>1, <1>2, PTL

\* Whatever runs interleave, fail or die, a chunk row whose indexed_at is set
\* is searchable: OpenSearch holds it from the row's pass or from a later one.
THEOREM MarksAreSound == Spec => []MarkedIsSearchable
<1>1. Spec => [](StoresInv /\ StoredFirst)
  BY InitStoresInv, InitStoredFirst, NextStoresInv, PTL DEF Spec
<1>2. StoresInv => MarkedIsSearchable
  BY DEF StoresInv
<1> QED
  BY <1>1, <1>2, PTL

-----------------------------------------------------------------------------
(***************************************************************************)
(* The attempt budget. Every run that has begun to work on a paper may     *)
(* still count one failure; what a row or a run's memory of it holds, and  *)
(* the failures that may come, stay below the bound together.              *)
(***************************************************************************)

\* Run r has begun paper p and may still record a failure of it.
Failing(r, p) ==
    /\ work[r].paper = p
    /\ \/ pc[r] = "metadata" /\ (work[r].known => NeedsWork(work[r].seen))
       \/ pc[r] \in ContentSteps \cup {"failure", "record"}

FailingRuns(p) == {r \in Runs : Failing(r, p)}

Allowed == MaxAttempts - 1 + Cardinality(Runs) + faults

Bounded(p, n) == n + Cardinality(FailingRuns(p)) <= Allowed

\* A paper without a row has never failed.
UnseenIsFresh == \A p \in Papers : p \notin papers => status[p] = FreshStatus

\* A count that has reached the budget belongs to a settled row.
SpentIsSettled == \A p \in Papers : ~IsSettled(status[p]) => status[p].attempts < MaxAttempts

\* What a run that is about to record a failure has loaded.
LoadedInv(r) ==
    pc[r] = "record" =>
        /\ work[r].paper \in papers
        /\ IsSettled(work[r].seen) => IsSettled(status[work[r].paper])
        /\ ~IsSettled(status[work[r].paper]) => work[r].seen.attempts < MaxAttempts
        /\ Bounded(work[r].paper, work[r].seen.attempts)

BudgetInv ==
    /\ StatusInv
    /\ UnseenIsFresh /\ SpentIsSettled
    /\ \A p \in Papers : Bounded(p, status[p].attempts)
    /\ \A r \in Runs : LoadedInv(r)

LEMMA FailingFinite ==
    ASSUME IsFiniteSet(Runs), NEW p
    PROVE  /\ IsFiniteSet(FailingRuns(p)) /\ Cardinality(FailingRuns(p)) \in Nat
           /\ IsFiniteSet(FailingRuns(p)') /\ Cardinality(FailingRuns(p)') \in Nat
           /\ Cardinality(Runs) \in Nat
           /\ Cardinality(FailingRuns(p)) <= Cardinality(Runs)
           /\ Cardinality(FailingRuns(p)') <= Cardinality(Runs)
<1>1. FailingRuns(p) \subseteq Runs /\ FailingRuns(p)' \subseteq Runs
  BY DEF FailingRuns
<1> QED
  BY <1>1, FS_Subset, FS_CardinalityType

\* Who may fail after a step of r: those who could before, and r only after a
\* database error or when it fetched a paper that needs work.
LEMMA FailingAfter ==
    ASSUME BudgetInv, NEW r \in Runs, StepOf(r), NEW p \in Papers
    PROVE  /\ FailingRuns(p)' \subseteq FailingRuns(p) \cup {r}
           /\ \/ FailingRuns(p)' \subseteq FailingRuns(p) /\ faults' >= faults
              \/ faults' = faults + 1
              \/ ~IsSettled(status[p]) /\ status' = status /\ faults' = faults
<1> USE DEF StatusInv, BudgetInv
<1>0. /\ TypeOK /\ work[r] \in Work /\ faults \in Nat
      /\ \A q \in Runs \ {r} : pc'[q] = pc[q] /\ work'[q] = work[q]
  BY WorkFields, OthersKept, BoundsAssumption DEF TypeOK
<1>1. FailingRuns(p)' \subseteq FailingRuns(p) \cup {r}
  BY <1>0 DEF FailingRuns, Failing, ContentSteps
<1>2. (Failing(r, p)' => Failing(r, p)) => FailingRuns(p)' \subseteq FailingRuns(p)
  BY <1>1 DEF FailingRuns
<1>3. ASSUME NEW q \in Papers, Fetch(r, q)
      PROVE  \/ FailingRuns(p)' \subseteq FailingRuns(p) /\ faults' >= faults
             \/ ~IsSettled(status[p]) /\ status' = status /\ faults' = faults
  <2>1. status' = status /\ faults' = faults
    BY <1>3 DEF Fetch, db
  <2>2. work'[r] = [NoWork EXCEPT !.paper = q, !.known = q \in papers, !.seen = status[q]]
    BY <1>0, <1>3 DEF Fetch, TypeOK
  <2>3. work'[r].paper = q /\ work'[r].known = (q \in papers) /\ work'[r].seen = status[q]
        /\ pc'[r] = "metadata"
    BY <1>0, <1>3, <2>2 DEF Fetch, Goto, TypeOK, NoWork
  <2>4. Failing(r, p)' => ~IsSettled(status[p])
    <3> SUFFICES ASSUME Failing(r, p)' PROVE ~IsSettled(status[p])
      OBVIOUS
    <3>1. q = p /\ (p \in papers => NeedsWork(status[p]))
      BY <2>3 DEF Failing, ContentSteps, NeedsWork, IsSettled, RetriesExhausted, IsDue
    <3> QED
      BY <3>1 DEF NeedsWork, UnseenIsFresh, FreshStatus, IsSettled
  <2> QED
    BY <1>0, <1>2, <2>1, <2>4
<1>5. ASSUME Store(r) \/ Content(r) \/ Record(r) \/ ContentFails(r)
      PROVE  FailingRuns(p)' \subseteq FailingRuns(p) /\ faults' = faults
  <2>1. faults' = faults
    BY <1>5 DEF Store, InsertPaper, InsertConflict, SkipPaper, RetryPaper, Content, Extract,
       WriteRows, IndexDocuments, LoadStatus, CommitContent, ContentFails, Record,
       LetterWithoutPaper, LoadFailedStatus, RecordFailure
  <2>2. ASSUME Finish(r) PROVE ~Failing(r, p)'
    BY <1>0, <2>2 DEF Finish, Goto, TypeOK, Failing, ContentSteps
  <2>3. CASE InsertPaper(r) \/ InsertConflict(r) \/ RetryPaper(r)
    <3>1. Failing(r, work[r].paper) /\ work'[r] = work[r]
      BY <2>3 DEF InsertPaper, InsertConflict, RetryPaper, Failing
    <3> QED
      BY <1>2, <2>1, <3>1 DEF Failing
  <2>4. CASE SkipPaper(r) \/ CommitContent(r) \/ LetterWithoutPaper(r) \/ RecordFailure(r)
    BY <1>2, <2>1, <2>2, <2>4 DEF SkipPaper, CommitContent, LetterWithoutPaper, RecordFailure
  <2>5. CASE Extract(r) \/ WriteRows(r) \/ IndexDocuments(r) \/ LoadStatus(r)
             \/ ContentFails(r) \/ LoadFailedStatus(r)
    <3>1. Failing(r, work[r].paper)
      BY <2>5 DEF Extract, WriteRows, IndexDocuments, LoadStatus, ContentFails,
         LoadFailedStatus, Failing, ContentSteps
    <3>2. work'[r].paper = work[r].paper
      <4>1. CASE Extract(r) BY <1>0, <4>1 DEF Extract, TypeOK, Work
      <4>2. CASE WriteRows(r) BY <1>0, <4>2 DEF WriteRows, TypeOK, Work
      <4>3. CASE IndexDocuments(r) BY <1>0, <4>3 DEF IndexDocuments, TypeOK, Work
      <4>4. CASE LoadStatus(r) \/ LoadFailedStatus(r)
        BY <1>0, <4>4 DEF LoadStatus, LoadFailedStatus, TypeOK, Work
      <4>5. CASE ContentFails(r) BY <4>5 DEF ContentFails
      <4> QED BY <2>5, <4>1, <4>2, <4>3, <4>4, <4>5
    <3> QED
      BY <1>2, <2>1, <3>1, <3>2 DEF Failing
  <2> QED
    BY <1>5, <2>1, <2>3, <2>4, <2>5 DEF Store, Content, Record
<1>6. ASSUME RecordingFails(r) \/ Crash(r)
      PROVE  faults' = faults + 1
  BY <1>6 DEF RecordingFails, Crash, Fault
<1>7. ASSUME MetadataFails(r)
      PROVE  faults' = faults + 1
  BY <1>7 DEF MetadataFails, Fault
<1>8. \/ \E q \in Papers : Fetch(r, q)
      \/ MetadataFails(r)
      \/ Store(r) \/ Content(r) \/ Record(r) \/ ContentFails(r)
      \/ RecordingFails(r) \/ Crash(r)
  BY DEF StepOf, Disturb
<1>9. faults' = faults => faults' >= faults
  BY <1>0
<1> QED
  <2> HIDE DEF StatusInv, BudgetInv
  <2>1. CASE \E q \in Papers : Fetch(r, q)
    BY <1>1, <1>3, <2>1
  <2>2. CASE Store(r) \/ Content(r) \/ Record(r) \/ ContentFails(r)
    BY <1>1, <1>5, <1>9, <2>2
  <2>3. CASE MetadataFails(r) \/ RecordingFails(r) \/ Crash(r)
    BY <1>1, <1>6, <1>7, <2>3
  <2> QED
    BY <1>8, <2>1, <2>2, <2>3

\* A count that is not written in this step stays bounded.
LEMMA BoundKept ==
    ASSUME IsFiniteSet(Runs), BudgetInv, NEW r \in Runs, StepOf(r), NEW p \in Papers,
           NEW n \in Nat, Bounded(p, n), ~IsSettled(status[p]) => n < MaxAttempts
    PROVE  Bounded(p, n)'
<1> DEFINE before == Cardinality(FailingRuns(p))
           after == Cardinality(FailingRuns(p)')
<1>1. /\ before \in Nat /\ after \in Nat /\ after <= Cardinality(Runs)
      /\ Cardinality(Runs) \in Nat /\ IsFiniteSet(FailingRuns(p))
  BY FailingFinite
<1>2. faults \in Nat /\ MaxAttempts \in Nat
  BY MaxAttemptsAssumption, BoundsAssumption DEF BudgetInv, StatusInv, TypeOK
<1>3. after <= before + 1
  <2>1. /\ IsFiniteSet(FailingRuns(p) \cup {r})
        /\ Cardinality(FailingRuns(p) \cup {r}) \in {before, before + 1}
    BY <1>1, FS_AddElement
  <2>2. after <= Cardinality(FailingRuns(p) \cup {r})
    BY <2>1, FailingAfter, FS_Subset
  <2> QED
    BY <1>1, <2>1, <2>2
<1>4. n + before <= MaxAttempts - 1 + Cardinality(Runs) + faults
  BY DEF Bounded, Allowed
<1>5. n + after <= MaxAttempts - 1 + Cardinality(Runs) + faults'
  <2>1. CASE FailingRuns(p)' \subseteq FailingRuns(p) /\ faults' >= faults
    <3>1. after <= before
      BY <1>1, <2>1, FS_Subset
    <3>2. faults' \in Nat
      BY NextTypeOK, BoundsAssumption DEF BudgetInv, StatusInv, TypeOK, Next, StepOf
    <3> QED
      BY <1>1, <1>2, <1>4, <2>1, <3>1, <3>2
  <2>2. CASE faults' = faults + 1
    BY <1>1, <1>2, <1>3, <1>4, <2>2
  <2>3. CASE ~IsSettled(status[p]) /\ faults' = faults
    BY <1>1, <1>2, <2>3
  <2> QED
    BY <2>1, <2>2, <2>3, FailingAfter
<1> QED
  BY <1>5 DEF Bounded, Allowed

\* The failure that r records uses up its own place among those that may fail.
LEMMA RecordKeepsBudget ==
    ASSUME IsFiniteSet(Runs), BudgetInv, NEW r \in Runs, RecordFailure(r),
           NEW p \in Papers, p = work[r].paper
    PROVE  /\ status'[p].attempts = work[r].seen.attempts + 1
           /\ Bounded(p, status[p].attempts)'
           /\ ~IsSettled(status'[p]) => status'[p].attempts < MaxAttempts
<1> DEFINE n == work[r].seen.attempts
           before == Cardinality(FailingRuns(p))
           after == Cardinality(FailingRuns(p)')
<1>0. /\ TypeOK /\ StepOf(r) /\ p \in Papers /\ status[p] \in Statuses
      /\ work[r].seen \in Statuses /\ n \in Nat /\ faults' = faults /\ faults \in Nat
      /\ MaxAttempts \in Nat
  BY WorkFields, MaxAttemptsAssumption, BoundsAssumption
  DEF BudgetInv, StatusInv, TypeOK, Statuses, RecordFailure, StepOf, Record
<1>1. status'[p] = RecordAttemptFailure(status[p], work[r].seen)
  BY <1>0 DEF RecordFailure, TypeOK
<1>2. status'[p].attempts = n + 1
  BY <1>0, <1>1 DEF RecordAttemptFailure, Statuses
<1>3. LoadedInv(r) /\ pc[r] = "record"
  BY DEF BudgetInv, RecordFailure
<1>4. ~IsSettled(status'[p]) => n + 1 < MaxAttempts
  BY <1>0, <1>1, <1>3 DEF LoadedInv, RecordAttemptFailure, ExhaustedBy, Column, IsSettled, Statuses
<1>5. /\ before \in Nat /\ after \in Nat /\ IsFiniteSet(FailingRuns(p)) /\ Cardinality(Runs) \in Nat
  BY FailingFinite
<1>6. after <= before - 1
  <2>1. r \in FailingRuns(p)
    BY <1>3 DEF FailingRuns, Failing
  <2>2. pc'[r] = "idle"
    BY <1>0 DEF RecordFailure, Finish, Goto, TypeOK
  <2>3. r \notin FailingRuns(p)'
    BY <2>2 DEF FailingRuns, Failing, ContentSteps
  <2>4. FailingRuns(p)' \subseteq FailingRuns(p) \ {r}
    <3>1. FailingRuns(p)' \subseteq FailingRuns(p) \cup {r}
      BY <1>0, FailingAfter
    <3> QED
      BY <2>3, <3>1
  <2>5. /\ IsFiniteSet(FailingRuns(p) \ {r})
        /\ Cardinality(FailingRuns(p) \ {r}) = before - 1
    BY <1>5, <2>1, FS_RemoveElement
  <2>6. after <= Cardinality(FailingRuns(p) \ {r})
    BY <2>4, <2>5, FS_Subset
  <2> QED
    BY <2>5, <2>6
<1>7. n + before <= MaxAttempts - 1 + Cardinality(Runs) + faults
  BY <1>3 DEF LoadedInv, Bounded, Allowed
<1>8. (n + 1) + after <= MaxAttempts - 1 + Cardinality(Runs) + faults'
  BY <1>0, <1>5, <1>6, <1>7
<1>9. Bounded(p, status[p].attempts)'
  BY <1>2, <1>8 DEF Bounded, Allowed
<1> QED
  BY <1>2, <1>4, <1>9

\* A row changes its count in RecordFailure only, and never becomes unsettled.
LEMMA RowAfter ==
    ASSUME BudgetInv, NEW r \in Runs, StepOf(r), NEW p \in Papers
    PROVE  /\ IsSettled(status[p]) => IsSettled(status'[p])
           /\ \/ RecordFailure(r) /\ p = work[r].paper
              \/ status'[p].attempts = status[p].attempts
           /\ p \notin papers' => p \notin papers /\ status'[p] = status[p]
<1>1. StatusInv /\ TypeOK /\ StoredFirst /\ work[r].paper \in Papers /\ status[p] \in Statuses
  BY WorkFields DEF BudgetInv, StatusInv, TypeOK
<1>2. papers \subseteq papers'
  BY DEF StepOf, Store, Content, Record, Disturb, Fetch, InsertPaper, InsertConflict,
         SkipPaper, RetryPaper, MetadataFails, Extract, WriteRows, IndexDocuments, LoadStatus,
         CommitContent, ContentFails, LetterWithoutPaper, LoadFailedStatus, RecordFailure,
         RecordingFails, Crash, db
<1>3. CASE CommitContent(r)
  <2>1. work[r].paper \in papers
    BY <1>1, <1>3 DEF CommitContent, StoredFirst, ContentSteps
  <2>2. status'[p] = IF p = work[r].paper THEN AdvanceToIndexed(status[p], work[r].seen)
                     ELSE status[p]
    BY <1>1, <1>3 DEF CommitContent, TypeOK
  <2>3. status'[p].attempts = status[p].attempts
    BY <1>1, <2>2 DEF AdvanceToIndexed, Statuses
  <2> QED
    BY <1>1, <1>2, <1>3, <2>1, <2>2, <2>3, CommitStatus
<1>4. CASE RecordFailure(r)
  <2>1. work[r].paper \in papers
    BY <1>4 DEF BudgetInv, LoadedInv, RecordFailure
  <2>2. p # work[r].paper => status'[p] = status[p]
    BY <1>1, <1>4 DEF RecordFailure, TypeOK
  <2> QED
    BY <1>1, <1>2, <1>4, <2>1, <2>2, RecordStatus
<1>5. CASE ~CommitContent(r) /\ ~RecordFailure(r)
  BY <1>2, <1>5, StatusWriters
<1> QED
  BY <1>3, <1>4, <1>5

\* Only LoadFailedStatus brings a run to record a failure.
LEMMA RecordIsLoaded ==
    ASSUME TypeOK, NEW r \in Runs, StepOf(r), pc'[r] = "record"
    PROVE  /\ work'[r].paper = work[r].paper /\ work'[r].seen = status[work[r].paper]
           /\ work[r].paper \in papers /\ papers' = papers /\ status' = status
<1>1. LoadFailedStatus(r)
  <2>1. ~Finish(r)
    BY DEF TypeOK, Finish, Goto
  <2> QED
    BY <2>1 DEF TypeOK, StepOf, Store, Content, Record, Disturb, Fetch, InsertPaper,
         InsertConflict, SkipPaper, RetryPaper, MetadataFails, Extract, WriteRows,
         IndexDocuments, LoadStatus, CommitContent, ContentFails, LetterWithoutPaper,
         RecordFailure, RecordingFails, Crash, Goto
<1>2. work[r] \in Work
  BY WorkFields
<1> QED
  BY <1>1, <1>2 DEF LoadFailedStatus, TypeOK, Work, db

LEMMA StepRows ==
    ASSUME IsFiniteSet(Runs), BudgetInv, NEW r \in Runs, StepOf(r), NEW p \in Papers
    PROVE  /\ p \notin papers' => status'[p] = FreshStatus
           /\ ~IsSettled(status'[p]) => status'[p].attempts < MaxAttempts
           /\ Bounded(p, status[p].attempts)'
<1>1. /\ p \notin papers => status[p] = FreshStatus
      /\ ~IsSettled(status[p]) => status[p].attempts < MaxAttempts
      /\ Bounded(p, status[p].attempts)
  BY DEF BudgetInv, UnseenIsFresh, SpentIsSettled
<1>2. status[p].attempts \in Nat
  BY DEF BudgetInv, StatusInv, TypeOK, Statuses
<1>3. CASE RecordFailure(r) /\ p = work[r].paper
  BY <1>1, <1>3, RowAfter, RecordKeepsBudget
<1>4. CASE status'[p].attempts = status[p].attempts
  <2> DEFINE n == status[p].attempts
  <2>1. n \in Nat /\ Bounded(p, n) /\ (~IsSettled(status[p]) => n < MaxAttempts)
    BY <1>1, <1>2
  <2> HIDE DEF n
  <2>2. n + Cardinality(FailingRuns(p)') <= MaxAttempts - 1 + Cardinality(Runs) + faults'
    <3>1. ASSUME NEW m \in Nat, Bounded(p, m), ~IsSettled(status[p]) => m < MaxAttempts
          PROVE  m + Cardinality(FailingRuns(p)') <= MaxAttempts - 1 + Cardinality(Runs) + faults'
      BY <3>1, BoundKept DEF Bounded, Allowed
    <3> QED
      BY <2>1, <3>1
  <2>3. Bounded(p, status[p].attempts)'
    BY <1>4, <2>2 DEF n, Bounded, Allowed
  <2> QED
    BY <1>1, <1>4, <2>3, RowAfter
<1> QED
  BY <1>3, <1>4, RowAfter

LEMMA StepLoaded ==
    ASSUME IsFiniteSet(Runs), BudgetInv, NEW r \in Runs, StepOf(r), NEW q \in Runs
    PROVE  LoadedInv(q)'
<1>1. TypeOK /\ work[q].paper \in Papers /\ work[q].seen.attempts \in Nat
      /\ work'[q].paper \in Papers
  BY WorkFields, NextTypeOK DEF BudgetInv, StatusInv, Statuses, Next, StepOf, TypeOK, Work
<1>2. PICK p \in Papers : p = work'[q].paper
  BY <1>1
<1>3. SUFFICES ASSUME pc'[q] = "record"
               PROVE  /\ p \in papers'
                      /\ IsSettled(work'[q].seen) => IsSettled(status'[p])
                      /\ ~IsSettled(status'[p]) => work'[q].seen.attempts < MaxAttempts
                      /\ work'[q].seen.attempts + Cardinality(FailingRuns(p)')
                           <= MaxAttempts - 1 + Cardinality(Runs) + faults'
  <2>1. FailingRuns(work[q].paper)' = FailingRuns(p)'
    BY <1>2 DEF FailingRuns, Failing
  <2> QED
    BY <1>2, <2>1 DEF LoadedInv, IsSettled, Bounded, Allowed
<1>4. CASE q = r
  <2>1. /\ p = work[r].paper /\ work'[r].seen = status[p]
        /\ p \in papers /\ papers' = papers /\ status' = status
    BY <1>1, <1>2, <1>3, <1>4, RecordIsLoaded
  <2>2. /\ ~IsSettled(status'[p]) => status'[p].attempts < MaxAttempts
        /\ status'[p].attempts + Cardinality(FailingRuns(p)')
             <= MaxAttempts - 1 + Cardinality(Runs) + faults'
    BY StepRows DEF Bounded, Allowed
  <2> QED
    BY <1>4, <2>1, <2>2
<1>5. CASE q # r
  <2>1. pc'[q] = pc[q] /\ work'[q] = work[q] /\ p = work[q].paper
    BY <1>1, <1>2, <1>5, OthersKept
  <2>2. LoadedInv(q) /\ pc[q] = "record"
    BY <1>3, <2>1 DEF BudgetInv
  <2> DEFINE n == work[q].seen.attempts
  <2>3. /\ p \in papers /\ n \in Nat /\ Bounded(p, n)
        /\ IsSettled(work[q].seen) => IsSettled(status[p])
        /\ ~IsSettled(status[p]) => n < MaxAttempts
    BY <1>1, <2>1, <2>2 DEF LoadedInv
  <2>4. ASSUME NEW m \in Nat, Bounded(p, m), ~IsSettled(status[p]) => m < MaxAttempts
        PROVE  m + Cardinality(FailingRuns(p)') <= MaxAttempts - 1 + Cardinality(Runs) + faults'
    BY <2>4, BoundKept DEF Bounded, Allowed
  <2>5. n + Cardinality(FailingRuns(p)') <= MaxAttempts - 1 + Cardinality(Runs) + faults'
    <3> HIDE DEF n
    <3> QED BY <2>3, <2>4
  <2> QED
    BY <2>1, <2>3, <2>5, RowAfter
<1> QED
  BY <1>4, <1>5

LEMMA ClockKeepsBudget ==
    ASSUME BudgetInv, NEW p \in Papers, BackoffElapses(p)
    PROVE  BudgetInv'
<1>1. StatusInv /\ TypeOK /\ StatusInv'
  BY NextStatusInv DEF BudgetInv, StatusInv, Next
<1>2. /\ \A q \in Papers : /\ status'[q].stage = status[q].stage
                           /\ status'[q].attempts = status[q].attempts
      /\ \A q \in Papers \ {p} : status'[q] = status[q]
      /\ papers' = papers /\ pc' = pc /\ work' = work /\ faults' = faults
  BY <1>1, <1>2 DEF BackoffElapses, TypeOK, Statuses
<1>3. p \in papers
  BY DEF BudgetInv, UnseenIsFresh, BackoffElapses, FreshStatus
<1>4. ASSUME NEW q PROVE FailingRuns(q)' = FailingRuns(q)
  BY <1>2 DEF FailingRuns, Failing, NeedsWork, IsSettled, RetriesExhausted, IsDue
<1>5. UnseenIsFresh' /\ SpentIsSettled'
  BY <1>2, <1>3 DEF BudgetInv, UnseenIsFresh, SpentIsSettled, IsSettled
<1>6. ASSUME NEW q \in Papers PROVE Bounded(q, status[q].attempts)'
  BY <1>2, <1>4 DEF BudgetInv, Bounded, Allowed
<1>7. ASSUME NEW r \in Runs PROVE LoadedInv(r)'
  <2>1. LoadedInv(r) /\ work[r].paper \in Papers
    BY <1>1, WorkFields DEF BudgetInv
  <2>2. FailingRuns(work[r].paper)' = FailingRuns(work[r].paper)
    BY <1>2 DEF FailingRuns, Failing, NeedsWork, IsSettled, RetriesExhausted, IsDue
  <2> QED
    BY <1>2, <2>1, <2>2 DEF LoadedInv, Bounded, Allowed, IsSettled
<1> QED
  BY <1>1, <1>5, <1>6, <1>7 DEF BudgetInv

LEMMA NextBudgetInv ==
    ASSUME IsFiniteSet(Runs), BudgetInv, [Next]_vars
    PROVE  BudgetInv'
<1>1. StatusInv'
  BY NextStatusInv DEF BudgetInv
<1>2. ASSUME NEW r \in Runs, StepOf(r) PROVE BudgetInv'
  BY <1>1, <1>2, StepRows, StepLoaded DEF BudgetInv, UnseenIsFresh, SpentIsSettled, IsSettled
<1>3. CASE UNCHANGED vars
  <2>1. ASSUME NEW q PROVE FailingRuns(q)' = FailingRuns(q)
    BY <1>3 DEF vars, FailingRuns, Failing
  <2>2. UnseenIsFresh' /\ SpentIsSettled'
    BY <1>3 DEF vars, BudgetInv, UnseenIsFresh, SpentIsSettled, IsSettled
  <2>3. ASSUME NEW q \in Papers PROVE Bounded(q, status[q].attempts)'
    BY <1>3, <2>1 DEF vars, BudgetInv, Bounded, Allowed
  <2>4. ASSUME NEW r \in Runs PROVE LoadedInv(r)'
    <3>1. FailingRuns(work[r].paper)' = FailingRuns(work[r].paper)
      BY <1>3 DEF vars, FailingRuns, Failing
    <3> QED
      BY <1>3, <3>1 DEF vars, BudgetInv, LoadedInv, Bounded, Allowed, IsSettled
  <2> QED
    BY <1>1, <2>2, <2>3, <2>4 DEF BudgetInv
<1> QED
  BY <1>2, <1>3, ClockKeepsBudget DEF Next, StepOf

LEMMA InitBudgetInv ==
    ASSUME IsFiniteSet(Runs), Init
    PROVE  BudgetInv
<1>1. StatusInv /\ faults = 0 /\ MaxAttempts \in Nat \ {0}
  BY InitStatusInv, MaxAttemptsAssumption DEF Init
<1>2. ASSUME NEW p \in Papers PROVE Bounded(p, status[p].attempts)
  <2>1. FailingRuns(p) = {}
    BY DEF Init, FailingRuns, Failing, ContentSteps
  <2>2. Cardinality(FailingRuns(p)) = 0
    BY <2>1, FS_EmptySet
  <2>3. status[p].attempts = 0 /\ Cardinality(Runs) \in Nat
    BY FS_CardinalityType DEF Init, FreshStatus
  <2> QED
    BY <1>1, <2>2, <2>3 DEF Bounded, Allowed
<1> QED
  BY <1>1, <1>2 DEF Init, BudgetInv, UnseenIsFresh, SpentIsSettled, LoadedInv, FreshStatus

\* However many runs work on a paper, and however their failures overlap,
\* together they overspend its attempt budget by at most one failure each,
\* besides those of a database error outside the content step.
THEOREM BudgetIsKept ==
    ASSUME IsFiniteSet(Runs)
    PROVE  Spec => []BudgetOverspend
<1>1. Init => BudgetInv
  BY InitBudgetInv
<1>2. BudgetInv /\ [Next]_vars => BudgetInv'
  BY NextBudgetInv
<1>3. BudgetInv => BudgetOverspend
  <2> SUFFICES ASSUME BudgetInv, NEW p \in Papers
               PROVE  status[p].attempts <= MaxAttempts - 1 + Cardinality(Runs) + faults
    BY DEF BudgetOverspend
  <2>1. status[p].attempts \in Nat /\ faults \in Nat /\ MaxAttempts \in Nat
    BY MaxAttemptsAssumption, BoundsAssumption DEF BudgetInv, StatusInv, TypeOK, Statuses
  <2>2. status[p].attempts + Cardinality(FailingRuns(p))
          <= MaxAttempts - 1 + Cardinality(Runs) + faults
    BY DEF BudgetInv, Bounded, Allowed
  <2> QED
    BY <2>1, <2>2, FailingFinite
<1> QED
  BY <1>1, <1>2, <1>3, PTL DEF Spec

-----------------------------------------------------------------------------
(* One run at a time: the inductive invariant. *)

OneRun == \A r, q \in Runs : r = q

SameCount(s, t) == s.stage = t.stage /\ s.attempts = t.attempts

\* What a run has read, or tested, of its paper is still so.
Knows(r) ==
    /\ pc[r] = "metadata" =>
         /\ work[r].known <=> work[r].paper \in papers
         /\ SameCount(work[r].seen, status[work[r].paper])
    /\ pc[r] \in ContentSteps => ~IsSettled(status[work[r].paper])
    /\ pc[r] = "commit" => SameCount(work[r].seen, status[work[r].paper])
    /\ pc[r] = "record" =>
         /\ work[r].paper \in papers
         /\ SameCount(work[r].seen, status[work[r].paper])

UnseenIsPending == \A p \in Papers : p \notin papers => status[p].stage = "pending"

MarkedHasText == \A p \in Papers : p \notin texts => marked[p] = {}

SoloInv ==
    /\ StatusInv /\ StoresInv
    /\ UnseenIsPending /\ SpentIsSettled /\ MarkedHasText /\ MarkedIsCurrent
    /\ \A r \in Runs : Knows(r)

LEMMA InitSoloInv == Init => SoloInv
<1> SUFFICES ASSUME Init PROVE SoloInv
  OBVIOUS
<1>1. UnseenIsPending /\ SpentIsSettled
  BY MaxAttemptsAssumption DEF Init, UnseenIsPending, SpentIsSettled, FreshStatus
<1>2. MarkedHasText /\ MarkedIsCurrent /\ \A r \in Runs : Knows(r)
  BY DEF Init, MarkedHasText, MarkedIsCurrent, Knows, ContentSteps
<1> QED
  BY <1>1, <1>2, InitStatusInv, InitStoresInv DEF SoloInv

-----------------------------------------------------------------------------
(* One lemma for each step that writes, one for all that do not. *)

\* What holds of the stores and the rows is kept by a step that changes neither.
LEMMA StoresUntouched ==
    ASSUME SoloInv, UNCHANGED <<papers, status, texts, rows, marked, docs>>
    PROVE  UnseenIsPending' /\ SpentIsSettled' /\ MarkedHasText' /\ MarkedIsCurrent'
BY DEF SoloInv, UnseenIsPending, SpentIsSettled, MarkedHasText, MarkedIsCurrent, IsSettled

LEMMA ReadStep ==
    ASSUME SoloInv, NEW r \in Runs, StepOf(r), ~InsertPaper(r), ~IndexDocuments(r),
           ~CommitContent(r), ~RecordFailure(r)
    PROVE  UNCHANGED <<papers, status, texts, rows, marked, docs, letters>> /\ Knows(r)'
<1>1. TypeOK /\ work[r] \in Work /\ Knows(r)
  BY WorkFields DEF SoloInv, StatusInv
<1>2. UNCHANGED <<papers, status, texts, rows, marked, docs, letters>>
  BY DEF StepOf, Store, Content, Record, Disturb, Fetch, InsertConflict, SkipPaper,
     RetryPaper, MetadataFails, Extract, WriteRows, LoadStatus, ContentFails,
     LetterWithoutPaper, LoadFailedStatus, RecordingFails, Crash, db
<1>3. CASE \E p \in Papers : Fetch(r, p)
  <2>1. PICK p \in Papers : Fetch(r, p)
    BY <1>3
  <2>2. pc'[r] = "metadata"
    BY <1>1, <2>1 DEF Fetch, Goto, TypeOK
  <2>3. /\ work'[r].paper = p /\ work'[r].seen = status[p]
        /\ work'[r].known <=> p \in papers
    BY <1>1, <2>1 DEF Fetch, TypeOK, NoWork
  <2> QED
    BY <1>2, <2>2, <2>3 DEF Knows, SameCount, ContentSteps
<1>4. CASE InsertConflict(r) \/ MetadataFails(r) \/ ContentFails(r)
  <2>1. pc'[r] = "failure"
    BY <1>1, <1>4 DEF InsertConflict, MetadataFails, ContentFails, Goto, TypeOK
  <2> QED
    BY <1>2, <2>1 DEF Knows, ContentSteps
<1>5. CASE SkipPaper(r) \/ LetterWithoutPaper(r) \/ RecordingFails(r) \/ Crash(r)
  <2>1. pc'[r] = "idle"
    BY <1>1, <1>5, FinishLoadsNothing DEF SkipPaper, LetterWithoutPaper, RecordingFails, Crash
  <2> QED
    BY <1>2, <2>1 DEF Knows, ContentSteps
<1>6. CASE RetryPaper(r)
  <2>1. pc'[r] = "content" /\ work' = work /\ NeedsWork(work[r].seen) /\ pc[r] = "metadata"
    BY <1>1, <1>6 DEF RetryPaper, Goto, TypeOK
  <2>2. ~IsSettled(status[work[r].paper])
    BY <1>1, <2>1 DEF Knows, SameCount, NeedsWork, IsSettled
  <2> QED
    BY <1>2, <2>1, <2>2 DEF Knows, IsSettled
<1>7. CASE Extract(r) \/ WriteRows(r)
  <2>1. pc'[r] \in {"rows", "index", "status", "failure"} /\ pc[r] \in ContentSteps
    BY <1>1, <1>7 DEF Extract, WriteRows, Goto, TypeOK, ContentSteps
  <2>2. work'[r].paper = work[r].paper
    <3>1. CASE Extract(r) BY <1>1, <3>1 DEF Extract, TypeOK, Work
    <3>2. CASE WriteRows(r) BY <1>1, <3>2 DEF WriteRows, TypeOK, Work
    <3> QED BY <1>7, <3>1, <3>2
  <2> QED
    BY <1>1, <1>2, <2>1, <2>2 DEF Knows, IsSettled, ContentSteps
<1>8. CASE LoadStatus(r)
  <2>1. pc'[r] = "commit" /\ pc[r] \in ContentSteps
    BY <1>1, <1>8 DEF LoadStatus, Goto, TypeOK, ContentSteps
  <2>2. work'[r].paper = work[r].paper /\ work'[r].seen = status[work[r].paper]
    BY <1>1, <1>8 DEF LoadStatus, TypeOK, Work
  <2> QED
    BY <1>1, <1>2, <2>1, <2>2 DEF Knows, SameCount, IsSettled
<1>9. CASE LoadFailedStatus(r)
  <2>1. pc'[r] = "record" /\ work[r].paper \in papers
    BY <1>1, <1>9 DEF LoadFailedStatus, Goto, TypeOK
  <2>2. work'[r].paper = work[r].paper /\ work'[r].seen = status[work[r].paper]
    BY <1>1, <1>9 DEF LoadFailedStatus, TypeOK, Work
  <2> QED
    BY <1>2, <2>1, <2>2 DEF Knows, SameCount, ContentSteps
<1> QED
  BY <1>2, <1>3, <1>4, <1>5, <1>6, <1>7, <1>8, <1>9 DEF StepOf, Store, Content, Record, Disturb

\* Until the rows of a paper are visible nothing of it is marked.
LEMMA NothingMarkedYet ==
    ASSUME SoloInv, NEW r \in Runs, pc[r] \in ContentSteps
    PROVE  /\ work[r].paper \in papers /\ work[r].paper \in Papers
           /\ ~IsSettled(status[work[r].paper])
           /\ work[r].paper \notin texts /\ marked[work[r].paper] = {}
<1>1. work[r].paper \in papers /\ work[r].paper \in Papers /\ Knows(r)
  BY WorkFields DEF SoloInv, StatusInv, StoredFirst
<1>2. ~IsSettled(status[work[r].paper])
  BY <1>1 DEF Knows
<1> QED
  BY <1>1, <1>2 DEF SoloInv, StatusInv, StoredIsSettled, MarkedHasText

LEMMA InsertStep ==
    ASSUME SoloInv, NEW r \in Runs, InsertPaper(r)
    PROVE  UnseenIsPending' /\ SpentIsSettled' /\ MarkedHasText' /\ MarkedIsCurrent' /\ Knows(r)'
<1>1. TypeOK /\ work[r].paper \in Papers /\ work[r].paper \notin papers
  BY WorkFields DEF SoloInv, StatusInv, InsertPaper
<1>2. pc'[r] = "content" /\ work' = work /\ status' = status /\ papers \subseteq papers'
  BY <1>1 DEF InsertPaper, Goto, TypeOK
<1>3. status[work[r].paper].stage = "pending"
  BY <1>1 DEF SoloInv, UnseenIsPending
<1>4. Knows(r)'
  BY <1>2, <1>3 DEF Knows, IsSettled
<1> QED
  BY <1>2, <1>4 DEF InsertPaper, SoloInv, UnseenIsPending, SpentIsSettled, MarkedHasText,
     MarkedIsCurrent, IsSettled

LEMMA IndexStep ==
    ASSUME SoloInv, NEW r \in Runs, IndexDocuments(r)
    PROVE  /\ UnseenIsPending' /\ SpentIsSettled' /\ MarkedHasText' /\ MarkedIsCurrent' /\ Knows(r)'
           /\ \A p \in Papers : p # work[r].paper => docs'[p] = docs[p]
<1>1. TypeOK /\ work[r] \in Work /\ Knows(r) /\ pc[r] = "index"
  BY WorkFields DEF SoloInv, StatusInv, IndexDocuments
<1>2. UNCHANGED <<papers, status, texts, rows, marked>>
  BY DEF IndexDocuments, db
<1>3. work[r].paper \in Papers /\ marked[work[r].paper] = {} /\ ~IsSettled(status[work[r].paper])
  BY <1>1, NothingMarkedYet DEF ContentSteps
<1>4. \A p \in Papers : p # work[r].paper => docs'[p] = docs[p]
  BY <1>1 DEF IndexDocuments, TypeOK
<1>5. pc'[r] = "status" /\ work'[r].paper = work[r].paper
  BY <1>1 DEF IndexDocuments, Goto, TypeOK, Work
<1>6. Knows(r)'
  BY <1>2, <1>3, <1>5 DEF Knows, IsSettled
<1>7. MarkedIsCurrent'
  BY <1>2, <1>3, <1>4 DEF SoloInv, MarkedIsCurrent
<1> QED
  BY <1>2, <1>4, <1>6, <1>7 DEF SoloInv, UnseenIsPending, SpentIsSettled, MarkedHasText, IsSettled

LEMMA CommitStep ==
    ASSUME SoloInv, NEW r \in Runs, CommitContent(r)
    PROVE  /\ UnseenIsPending' /\ SpentIsSettled' /\ MarkedHasText' /\ MarkedIsCurrent' /\ Knows(r)'
           /\ status'[work[r].paper].stage = "indexed"
           /\ status'[work[r].paper].attempts = status[work[r].paper].attempts
           /\ \A q \in Papers : q # work[r].paper =>
                /\ status'[q] = status[q] /\ rows'[q] = rows[q] /\ marked'[q] = marked[q]
                /\ q \in texts' <=> q \in texts
<1> DEFINE p == work[r].paper
           w == work[r]
<1>1. /\ TypeOK /\ Knows(r) /\ pc[r] = "commit" /\ p \in Papers /\ p \in papers
      /\ status[p] \in Statuses /\ w.seen \in Statuses /\ ~IsSettled(status[p])
      /\ marked[p] = {}
  BY WorkFields, NothingMarkedYet DEF SoloInv, StatusInv, CommitContent, ContentSteps, TypeOK
<1>2. status'[p] = AdvanceToIndexed(status[p], w.seen)
      /\ \A q \in Papers : q # p => status'[q] = status[q]
  BY <1>1 DEF CommitContent, TypeOK
<1>3. status'[p].stage = "indexed" /\ status'[p].attempts = status[p].attempts
  BY <1>1, <1>2 DEF AdvanceToIndexed, Column, Statuses, Knows, SameCount, IsSettled
<1>4. papers' = papers /\ docs' = docs /\ texts' = texts \cup {p}
  BY DEF CommitContent
<1>5. \A q \in Papers : q # p => rows'[q] = rows[q] /\ marked'[q] = marked[q]
  <2>1. CASE w.count > 0 BY <1>1, <2>1 DEF CommitContent, TypeOK
  <2>2. CASE ~(w.count > 0) BY <2>2 DEF CommitContent
  <2> QED BY <2>1, <2>2
<1>6. \A i \in marked'[p] : rows'[p][i] # 0 /\ docs[p][i] = rows'[p][i]
  <2>1. CASE w.count > 0
    <3>1. marked'[p] = w.acked
      BY <1>1, <2>1 DEF CommitContent, TypeOK
    <3>2. ASSUME NEW i \in w.acked
          PROVE  rows'[p][i] = w.pass /\ docs[p][i] = w.pass /\ w.pass # 0
      <4>1. i \in Indices /\ Writes(r, p)
        BY <1>1, <2>1, WorkFields DEF Writes
      <4>2. i < w.count /\ docs[p][i] = w.pass /\ 0 < w.pass
        BY <1>1, <4>1 DEF SoloInv, StoresInv, AckedIsApplied, WriterIsNewest
      <4> QED
        BY <1>1, <2>1, <4>1, <4>2 DEF CommitContent, TypeOK
    <3> QED
      BY <3>1, <3>2
  <2>2. CASE ~(w.count > 0)
    BY <1>1, <2>2 DEF CommitContent
  <2> QED
    BY <2>1, <2>2
<1>7. Knows(r)'
  <2>1. pc'[r] = "idle"
    BY <1>1, FinishLoadsNothing DEF CommitContent
  <2> QED
    BY <2>1 DEF Knows, ContentSteps
<1> HIDE DEF p, w
<1>8. UnseenIsPending' /\ SpentIsSettled'
  BY <1>1, <1>2, <1>3, <1>4 DEF SoloInv, UnseenIsPending, SpentIsSettled, IsSettled
<1>9. MarkedHasText' /\ MarkedIsCurrent'
  BY <1>1, <1>4, <1>5, <1>6 DEF SoloInv, MarkedHasText, MarkedIsCurrent
<1> QED
  BY <1>2, <1>3, <1>4, <1>5, <1>7, <1>8, <1>9 DEF p

LEMMA RecordStep ==
    ASSUME SoloInv, NEW r \in Runs, RecordFailure(r)
    PROVE  /\ UnseenIsPending' /\ SpentIsSettled' /\ MarkedHasText' /\ MarkedIsCurrent' /\ Knows(r)'
           /\ \A q \in Papers : q # work[r].paper =>
                status'[q] = status[q] /\ letters'[q] = letters[q]
           /\ LET p == work[r].paper IN
              /\ p \in papers /\ status'[p].attempts = status[p].attempts + 1
              /\ IF status[p].attempts + 1 >= MaxAttempts
                 THEN status'[p].stage = "failed" /\ letters'[p] = letters[p] + 1
                 ELSE status'[p].stage = status[p].stage /\ letters'[p] = letters[p]
<1> DEFINE p == work[r].paper
           seen == work[r].seen
<1>1. /\ TypeOK /\ Knows(r) /\ pc[r] = "record" /\ p \in Papers /\ p \in papers
      /\ status[p] \in Statuses /\ seen \in Statuses /\ SameCount(seen, status[p])
      /\ letters[p] \in Nat /\ MaxAttempts \in Nat
  BY WorkFields, MaxAttemptsAssumption DEF SoloInv, StatusInv, RecordFailure, TypeOK, Knows
<1>2. /\ status'[p] = RecordAttemptFailure(status[p], seen)
      /\ letters'[p] = letters[p] + LettersFor(seen)
      /\ \A q \in Papers : q # p => status'[q] = status[q] /\ letters'[q] = letters[q]
  BY <1>1 DEF RecordFailure, TypeOK
<1>3. /\ status'[p].attempts = status[p].attempts + 1
      /\ IF status[p].attempts + 1 >= MaxAttempts
         THEN status'[p].stage = "failed" /\ letters'[p] = letters[p] + 1
         ELSE status'[p].stage = status[p].stage /\ letters'[p] = letters[p]
  BY <1>1, <1>2 DEF RecordAttemptFailure, ExhaustedBy, LettersFor, Column, SameCount, Statuses
<1>4. UNCHANGED <<papers, texts, rows, marked, docs>>
  BY DEF RecordFailure
<1>5. Knows(r)'
  <2>1. pc'[r] = "idle"
    BY <1>1, FinishLoadsNothing DEF RecordFailure
  <2> QED
    BY <2>1 DEF Knows, ContentSteps
<1>6. MarkedHasText' /\ MarkedIsCurrent'
  BY <1>4 DEF SoloInv, MarkedHasText, MarkedIsCurrent
<1> HIDE DEF p, seen
<1>7. UnseenIsPending' /\ SpentIsSettled'
  BY <1>1, <1>2, <1>3, <1>4 DEF SoloInv, UnseenIsPending, SpentIsSettled, IsSettled, Statuses
<1> QED
  BY <1>1, <1>2, <1>3, <1>5, <1>6, <1>7 DEF p

LEMMA ClockStep ==
    ASSUME SoloInv, NEW p \in Papers, BackoffElapses(p)
    PROVE  /\ UnseenIsPending' /\ SpentIsSettled' /\ MarkedHasText' /\ MarkedIsCurrent'
           /\ \A r \in Runs : Knows(r)'
           /\ \A q \in Papers : SameCount(status'[q], status[q])
           /\ UNCHANGED <<papers, texts, rows, marked, docs, letters>>
<1>1. /\ TypeOK /\ \A r \in Runs : work[r].paper \in Papers
      /\ UNCHANGED <<papers, texts, rows, marked, docs, letters, pc, work>>
  BY WorkFields DEF SoloInv, StatusInv, BackoffElapses
<1>2. \A q \in Papers : SameCount(status'[q], status[q])
  BY <1>1 DEF BackoffElapses, TypeOK, Statuses, SameCount
<1>3. \A r \in Runs : Knows(r)'
  BY <1>1, <1>2 DEF SoloInv, Knows, SameCount, IsSettled
<1>4. UnseenIsPending' /\ SpentIsSettled'
  BY <1>1, <1>2 DEF SoloInv, UnseenIsPending, SpentIsSettled, SameCount, IsSettled
<1>5. MarkedHasText' /\ MarkedIsCurrent'
  BY <1>1 DEF SoloInv, MarkedHasText, MarkedIsCurrent
<1> QED
  BY <1>1, <1>2, <1>3, <1>4, <1>5

LEMMA NextSoloInv ==
    ASSUME OneRun, SoloInv, [Next]_vars
    PROVE  SoloInv'
<1>1. StatusInv' /\ StoresInv'
  BY NextStatusInv, NextStoresInv DEF SoloInv, StatusInv
<1>2. ASSUME NEW r \in Runs, StepOf(r) PROVE SoloInv'
  <2>1. UnseenIsPending' /\ SpentIsSettled' /\ MarkedHasText' /\ MarkedIsCurrent' /\ Knows(r)'
    BY <1>2, ReadStep, StoresUntouched, InsertStep, IndexStep, CommitStep, RecordStep
  <2>2. ASSUME NEW q \in Runs PROVE Knows(q)'
    BY <2>1 DEF OneRun
  <2> QED
    BY <1>1, <2>1, <2>2 DEF SoloInv
<1>3. CASE \E p \in Papers : BackoffElapses(p)
  BY <1>1, <1>3, ClockStep DEF SoloInv
<1>4. CASE UNCHANGED vars
  <2>1. \A r \in Runs : Knows(r)'
    BY <1>4 DEF vars, SoloInv, Knows, SameCount, IsSettled
  <2> QED
    BY <1>1, <1>4, <2>1, StoresUntouched DEF vars, SoloInv
<1> QED
  BY <1>2, <1>3, <1>4 DEF Next, StepOf

-----------------------------------------------------------------------------
(* The fate of a paper. *)

\* What PaperLifecycle sees of the rows.
StageOf == [p \in Papers |-> IF p \in papers THEN status[p].stage ELSE "absent"]

AttemptsOf == [p \in Papers |-> status[p].attempts]

LEMMA WriteImplements ==
    ASSUME SoloInv, NEW r \in Runs, InsertPaper(r) \/ CommitContent(r) \/ RecordFailure(r)
    PROVE  Lifecycle!Next
<1>1. TypeOK /\ work[r].paper \in Papers
  BY WorkFields DEF SoloInv, StatusInv
<1>2. PICK p \in Papers : p = work[r].paper
  BY <1>1
<1>3. CASE InsertPaper(r)
  <2>1. /\ p \notin papers /\ papers' = papers \cup {p}
        /\ UNCHANGED <<status, letters>>
    BY <1>2, <1>3 DEF InsertPaper
  <2>2. status[p].stage = "pending"
    BY <1>1, <2>1 DEF SoloInv, UnseenIsPending
  <2>3. StageOf' = [StageOf EXCEPT ![p] = "pending"] /\ StageOf[p] = "absent"
    BY <1>1, <2>1, <2>2 DEF StageOf
  <2>4. AttemptsOf' = AttemptsOf
    BY <2>1 DEF AttemptsOf
  <2>5. Lifecycle!Register(p)
    BY <2>1, <2>3, <2>4 DEF Lifecycle!Register, StageOf, AttemptsOf
  <2> QED
    BY <1>1, <2>5 DEF Lifecycle!Next
<1>4. CASE CommitContent(r)
  <2>1. p \in papers /\ ~IsSettled(status[p]) /\ papers' = papers /\ letters' = letters
    BY <1>2, <1>4, NothingMarkedYet DEF CommitContent, ContentSteps
  <2>2. /\ status[p].stage = "pending" /\ status[p].attempts < MaxAttempts
        /\ status'[p].stage = "indexed" /\ status'[p].attempts = status[p].attempts
        /\ \A q \in Papers : q # p => status'[q] = status[q]
    BY <1>1, <1>2, <1>4, <2>1, CommitStep
    DEF SoloInv, SpentIsSettled, TypeOK, Statuses, Stages, IsSettled
  <2>3. /\ StageOf' = [StageOf EXCEPT ![p] = "indexed"] /\ StageOf[p] = "pending"
        /\ AttemptsOf' = AttemptsOf /\ AttemptsOf[p] < MaxAttempts
    BY <1>1, <2>1, <2>2 DEF StageOf, AttemptsOf
  <2>4. Lifecycle!Index(p)
    BY <2>1, <2>3 DEF Lifecycle!Index, StageOf, AttemptsOf
  <2> QED
    BY <1>1, <2>4 DEF Lifecycle!Next
<1>5. CASE RecordFailure(r)
  <2> DEFINE n == status[p].attempts
  <2>1. /\ p \in papers /\ papers' = papers /\ status'[p].attempts = n + 1
        /\ \A q \in Papers : q # p => status'[q] = status[q] /\ letters'[q] = letters[q]
        /\ IF n + 1 >= MaxAttempts
           THEN status'[p].stage = "failed" /\ letters'[p] = letters[p] + 1
           ELSE status'[p].stage = status[p].stage /\ letters'[p] = letters[p]
    BY <1>1, <1>2, <1>5, RecordStep DEF RecordFailure
  <2>2. /\ n \in Nat /\ letters \in [Papers -> Nat] /\ letters' \in [Papers -> Nat]
        /\ status[p].stage \in Stages
    BY <1>1, <1>5, NextTypeOK
    DEF SoloInv, StatusInv, TypeOK, Statuses, Next, Record
  <2>3. /\ AttemptsOf' = [AttemptsOf EXCEPT ![p] = @ + 1] /\ AttemptsOf[p] = n
        /\ StageOf[p] # "absent"
    BY <1>1, <2>1, <2>2 DEF StageOf, AttemptsOf, Stages
  <2>4. CASE n + 1 >= MaxAttempts
    <3>1. StageOf' = [StageOf EXCEPT ![p] = "failed"] /\ letters' = [letters EXCEPT ![p] = @ + 1]
      BY <1>1, <2>1, <2>2, <2>4 DEF StageOf
    <3>2. Lifecycle!GiveUp(p)
      BY <2>3, <2>4, <3>1 DEF Lifecycle!GiveUp, StageOf, AttemptsOf
    <3> QED
      BY <1>1, <3>2 DEF Lifecycle!Next
  <2>5. CASE ~(n + 1 >= MaxAttempts)
    <3>1. StageOf' = StageOf /\ letters' = letters
      BY <1>1, <2>1, <2>2, <2>5 DEF StageOf
    <3>2. n + 1 < MaxAttempts
      BY <2>2, <2>5, MaxAttemptsAssumption
    <3>3. Lifecycle!Fail(p)
      BY <2>3, <3>1, <3>2 DEF Lifecycle!Fail, StageOf, AttemptsOf
    <3> QED
      BY <1>1, <3>3 DEF Lifecycle!Next
  <2> QED
    BY <2>4, <2>5
<1> QED
  BY <1>3, <1>4, <1>5

LEMMA StepImplements ==
    ASSUME SoloInv, [Next]_vars
    PROVE  [Lifecycle!Next]_(Lifecycle!vars)
<1>1. ASSUME NEW r \in Runs, StepOf(r) PROVE [Lifecycle!Next]_(Lifecycle!vars)
  <2>1. CASE InsertPaper(r) \/ CommitContent(r) \/ RecordFailure(r)
    BY <2>1, WriteImplements
  <2>2. CASE ~InsertPaper(r) /\ ~CommitContent(r) /\ ~RecordFailure(r)
    <3>1. UNCHANGED <<papers, status, letters>>
      BY <1>1, <2>2, ReadStep DEF IndexDocuments, db
    <3> QED
      BY <3>1 DEF Lifecycle!vars
  <2> QED
    BY <2>1, <2>2
<1>2. ASSUME NEW p \in Papers, BackoffElapses(p) PROVE [Lifecycle!Next]_(Lifecycle!vars)
  <2>1. /\ UNCHANGED <<papers, letters>>
        /\ \A q \in Papers : /\ status'[q].stage = status[q].stage
                             /\ status'[q].attempts = status[q].attempts
    BY <1>2, ClockStep DEF SameCount
  <2> QED
    BY <2>1 DEF Lifecycle!vars
<1>3. CASE UNCHANGED vars
  BY <1>3 DEF vars, Lifecycle!vars
<1> QED
  BY <1>1, <1>2, <1>3 DEF Next, StepOf

-----------------------------------------------------------------------------
(* Theorems. *)

\* With one run at a time a marked chunk is in OpenSearch in the very version
\* that its row describes, whatever was rolled back before.
THEOREM MarksAreExact == ASSUME OneRun PROVE Spec => []MarkedIsCurrent
<1>1. SoloInv => MarkedIsCurrent
  BY DEF SoloInv
<1>2. SoloInv /\ [Next]_vars => SoloInv'
  BY NextSoloInv
<1> QED
  BY <1>1, <1>2, InitSoloInv, PTL DEF Spec

\* With one run at a time neither the rows nor the documents of a settled paper
\* ever change: what needs_work tested is still so when the run writes.
THEOREM SettledStaysFrozen == ASSUME OneRun PROVE Spec => SettledIsFrozen
<1> DEFINE Frozen == \A p \in Papers : IsSettled(status[p]) =>
                        /\ rows'[p] = rows[p] /\ marked'[p] = marked[p]
                        /\ docs'[p] = docs[p] /\ (p \in texts' <=> p \in texts)
<1>1. SoloInv /\ [Next]_vars => [Frozen]_vars
  <2> SUFFICES ASSUME SoloInv, [Next]_vars PROVE Frozen
    OBVIOUS
  <2>1. ASSUME NEW r \in Runs, StepOf(r) PROVE Frozen
    <3>1. CASE CommitContent(r)
      <4>1. ~IsSettled(status[work[r].paper]) /\ docs' = docs
        BY <3>1, NothingMarkedYet DEF CommitContent, ContentSteps
      <4> QED
        BY <3>1, <4>1, CommitStep
    <3>2. CASE IndexDocuments(r)
      <4>1. ~IsSettled(status[work[r].paper]) /\ UNCHANGED <<rows, marked, texts>>
        BY <3>2, NothingMarkedYet DEF IndexDocuments, ContentSteps, db
      <4> QED
        BY <3>2, <4>1, IndexStep
    <3>3. CASE InsertPaper(r) \/ RecordFailure(r)
      BY <3>3 DEF InsertPaper, RecordFailure
    <3>4. CASE ~CommitContent(r) /\ ~IndexDocuments(r) /\ ~InsertPaper(r) /\ ~RecordFailure(r)
      BY <2>1, <3>4, ReadStep
    <3> QED
      BY <3>1, <3>2, <3>3, <3>4
  <2>2. CASE \E p \in Papers : BackoffElapses(p)
    BY <2>2 DEF BackoffElapses
  <2>3. CASE UNCHANGED vars
    BY <2>3 DEF vars
  <2> QED
    BY <2>1, <2>2, <2>3 DEF Next, StepOf
<1>2. SoloInv /\ [Next]_vars => SoloInv'
  BY NextSoloInv
<1> QED
  BY <1>1, <1>2, InitSoloInv, PTL DEF Spec, SettledIsFrozen

\* With one run at a time the detailed steps, their rollbacks, faults and late
\* records add up to the life of a paper that PaperLifecycle promises.
THEOREM LifecycleIsKept == ASSUME OneRun PROVE Spec => LifecycleSpec
<1>1. Init => Lifecycle!Init
  BY DEF Init, Lifecycle!Init, FreshStatus
<1>2. SoloInv /\ [Next]_vars => [Lifecycle!Next]_(Lifecycle!vars)
  BY StepImplements
<1>3. SoloInv /\ [Next]_vars => SoloInv'
  BY NextSoloInv
<1> QED
  BY <1>1, <1>2, <1>3, InitSoloInv, PTL DEF Spec, LifecycleSpec, Lifecycle!Spec

=============================================================================
