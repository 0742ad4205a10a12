---------------------------- MODULE PaperVersions ----------------------------
(***************************************************************************)
(* upsert_paper and get_or_create_authors (db/repositories/papers.py):     *)
(* the versions of a paper, the flag on the latest one and the authors,    *)
(* stored by sessions that run at the same time. Each session is one       *)
(* transaction of session_scope at READ COMMITTED; a step is one           *)
(* statement, or one row of the authors' INSERT. get_or_create_status,     *)
(* which the same transaction calls, is part of PaperProcessing.           *)
(***************************************************************************)
EXTENDS Lists

CONSTANTS
    Sessions,   \* concurrent transactions
    Listing,    \* the fetched papers: records [id, version]
    NamesOf,    \* NamesOf[p]: the author names of p, in order
    KeyOf,      \* KeyOf[n]: the normalised name
    NoKey,      \* the normalised name that is empty
    MaxFaults   \* bound: transactions that crash or lose the database

ASSUME VersionsAssumption ==
    /\ Listing # {} /\ \A p \in Listing : p.version \in Nat \ {0}
    /\ \A p \in Listing : NamesOf[p] \in Seq(DOMAIN KeyOf)
    /\ MaxFaults \in Nat

VARIABLES
    rows,     \* papers with a committed row
    latest,   \* those whose is_latest is set
    authors,  \* keys with a committed authors row
    credits,  \* credits[p]: the committed paper_authors of p, in order
    pc,       \* pc[s]: the statement session s executes next
    tx,       \* tx[s]: what s knows of the versions, and the flags it has cleared
    byline,   \* byline[s]: the authors' part of the transaction of s
    faults    \* faults so far

db == <<rows, latest, authors, credits>>
vars == <<db, pc, tx, byline, faults>>

Keys == {KeyOf[n] : n \in DOMAIN KeyOf} \ {NoKey}

\* seen: the stored versions; targets: the rows the UPDATE found; demoted: the
\* rows it changed.
NoTx == [paper |-> CHOOSE p \in Listing : TRUE, seen |-> {}, targets |-> {}, demoted |-> {}]

\* next: the row of the INSERT in turn; adding: the keys inserted so far; credit:
\* the paper_authors of the new version.
NoByline == [next |-> 1, adding |-> {}, credit |-> <<>>]

Init ==
    /\ rows = {} /\ latest = {} /\ authors = {}
    /\ credits = [p \in Listing |-> <<>>]
    /\ pc = [s \in Sessions |-> "idle"]
    /\ tx = [s \in Sessions |-> NoTx]
    /\ byline = [s \in Sessions |-> NoByline]
    /\ faults = 0

Goto(s, step) == pc' = [pc EXCEPT ![s] = step]

VersionsOf(p, papers) == {q \in papers : q.id = p.id}

\* The keys of get_or_create_authors: first mentions in order, empty keys dropped.
AuthorKeys(p) ==
    LET Mention(keys, name) ==
          IF KeyOf[name] \in ToSet(keys) \cup {NoKey} THEN keys ELSE Append(keys, KeyOf[name])
    IN  FoldLeft(Mention, <<>>, NamesOf[p])

-----------------------------------------------------------------------------
(* What a transaction has not committed, and whom a statement waits for. *)

\* Planted: newer than some stored version is enough.
IsNewestOfAny(s) == tx[s].seen = {} \/ \E q \in tx[s].seen : q.version < tx[s].paper.version

\* Planted: only the first version is the newest.
IsNewestWhenFirst(s) == tx[s].seen = {}

IsNewest(s) == \A q \in tx[s].seen : q.version < tx[s].paper.version

\* Planted: the flag moves whatever version arrives.
DemotesAlways(s) == tx[s].seen # {}

\* Planted: the old rows keep their flag until after the INSERT.
DemotesAfterwards(s) == FALSE

Demotes(s) == tx[s].seen # {} /\ IsNewest(s)

Inserted(s) == pc[s] \in {"authors", "credits", "commit"}

\* The UPDATE of s waits for whoever has updated one of its rows.
UpdateBlockers(s) ==
    {q \in Sessions \ {s} : tx[q].demoted \cap tx[s].targets # {}}

\* The INSERT of s waits for whoever may free or take its place in an index:
\* uq_papers_arxiv_id_version or, flagged latest, uq_papers_arxiv_id_latest.
InsertBlockers(s) ==
    {q \in Sessions \ {s} :
        /\ tx[q].paper.id = tx[s].paper.id
        /\ \/ Inserted(q) /\ tx[q].paper = tx[s].paper
           \/ Inserted(q) /\ IsNewest(q) /\ IsNewest(s)
           \/ tx[q].demoted # {} /\ IsNewest(s)}

\* A committed row, and no open transaction that is about to clear its flag.
Conflicts(s) ==
    \/ tx[s].paper \in rows
    \/ /\ IsNewest(s)
       /\ VersionsOf(tx[s].paper, latest) \ UNION {tx[q].demoted : q \in Sessions} # {}

NextKey(s) == AuthorKeys(tx[s].paper)[byline[s].next]

\* ON CONFLICT DO NOTHING waits for whoever is adding the same key.
AuthorBlockers(s) == {q \in Sessions \ {s} : NextKey(s) \in byline[q].adding}

Blockers(s) ==
    CASE pc[s] = "update" -> UpdateBlockers(s)
      [] pc[s] = "insert" -> InsertBlockers(s)
      [] pc[s] = "authors" /\ byline[s].next <= Len(AuthorKeys(tx[s].paper)) -> AuthorBlockers(s)
      [] OTHER -> {}

\* PostgreSQL's deadlock check: everybody in a set that s belongs to waits for
\* somebody in it.
Deadlocked(s) ==
    \E C \in SUBSET Sessions : s \in C /\ \A q \in C : Blockers(q) \cap C # {}

Finish(s) ==
    /\ Goto(s, "idle")
    /\ tx' = [tx EXCEPT ![s] = NoTx]
    /\ byline' = [byline EXCEPT ![s] = NoByline]

RollBack(s) == Finish(s) /\ UNCHANGED db

-----------------------------------------------------------------------------
(* upsert_paper. *)

\* The SELECT of the stored versions of p. A call that finds p itself among them
\* ends at once and writes nothing: it is no step here.
Upsert(s, p) ==
    /\ pc[s] = "idle"
    /\ p \notin rows
    /\ tx' = [tx EXCEPT ![s] = [NoTx EXCEPT !.paper = p, !.seen = VersionsOf(p, rows)]]
    /\ Goto(s, "demote")
    /\ UNCHANGED <<db, byline, faults>>

\* The UPDATE of the flag starts: the rows its snapshot holds.
Demote(s) ==
    /\ pc[s] = "demote" /\ Demotes(s)
    /\ tx' = [tx EXCEPT ![s].targets = VersionsOf(tx[s].paper, latest)]
    /\ Goto(s, "update")
    /\ UNCHANGED <<db, byline, faults>>

\* Its rows are free: those that lost the flag in the meantime are left out.
Update(s) ==
    /\ pc[s] = "update" /\ UpdateBlockers(s) = {}
    /\ tx' = [tx EXCEPT ![s].demoted = tx[s].targets \cap latest, ![s].targets = {}]
    /\ Goto(s, "insert")
    /\ UNCHANGED <<db, byline, faults>>

KeepFlags(s) ==
    /\ pc[s] = "demote" /\ ~Demotes(s)
    /\ Goto(s, "insert")
    /\ UNCHANGED <<db, tx, byline, faults>>

Insert(s) ==
    /\ pc[s] = "insert"
    /\ InsertBlockers(s) = {} /\ ~Conflicts(s)
    /\ Goto(s, "authors")
    /\ UNCHANGED <<db, tx, byline, faults>>

\* IntegrityError: the transaction rolls back and the paper counts as failed.
InsertConflict(s) ==
    /\ pc[s] = "insert" /\ Conflicts(s)
    /\ RollBack(s)
    /\ UNCHANGED faults

-----------------------------------------------------------------------------
(* get_or_create_authors. *)

\* The next row of the INSERT, which does nothing if the key is there.
AddAuthor(s) ==
    /\ pc[s] = "authors" /\ byline[s].next <= Len(AuthorKeys(tx[s].paper))
    /\ AuthorBlockers(s) = {}
    /\ byline' = [byline EXCEPT ![s].next = @ + 1, ![s].adding = @ \cup ({NextKey(s)} \ authors)]
    /\ UNCHANGED <<db, pc, tx, faults>>

AuthorsAdded(s) ==
    /\ pc[s] = "authors" /\ byline[s].next > Len(AuthorKeys(tx[s].paper))
    /\ Goto(s, "credits")
    /\ UNCHANGED <<db, tx, byline, faults>>

\* Planted: the SELECT returns the rows this transaction added.
FoundOfAdded(s) == byline[s].adding

\* The SELECT after the INSERT sees what is committed by now, and its own rows.
Found(s) == authors \cup byline[s].adding

Credit(s) ==
    /\ pc[s] = "credits"
    /\ byline' = [byline EXCEPT ![s].credit = Only(AuthorKeys(tx[s].paper), Found(s))]
    /\ Goto(s, "commit")
    /\ UNCHANGED <<db, tx, faults>>

-----------------------------------------------------------------------------
(* session_scope. *)

Commit(s) ==
    /\ pc[s] = "commit"
    /\ rows' = rows \cup {tx[s].paper}
    /\ latest' = (latest \ tx[s].demoted) \cup (IF IsNewest(s) THEN {tx[s].paper} ELSE {})
    /\ authors' = authors \cup byline[s].adding
    /\ credits' = [credits EXCEPT ![tx[s].paper] = byline[s].credit]
    /\ Finish(s)
    /\ UNCHANGED faults

\* PostgreSQL aborts one transaction of a deadlock.
DeadlockAbort(s) == Deadlocked(s) /\ RollBack(s) /\ UNCHANGED faults

\* The process dies or the connection is lost.
Crash(s) ==
    /\ pc[s] # "idle" /\ faults < MaxFaults
    /\ faults' = faults + 1
    /\ RollBack(s)

Statement(s) ==
    \/ Demote(s) \/ Update(s) \/ KeepFlags(s) \/ Insert(s) \/ InsertConflict(s)
    \/ AddAuthor(s) \/ AuthorsAdded(s) \/ Credit(s) \/ Commit(s) \/ DeadlockAbort(s)

Next == \E s \in Sessions : Statement(s) \/ Crash(s) \/ \E p \in Listing : Upsert(s, p)

Spec == Init /\ [][Next]_vars

\* The database executes statements, its deadlock check among them, and wakes
\* who waits for a key: one that becomes free again and again is had in the end.
\* Nothing makes a session take up a paper.
FairSpec ==
    /\ Spec
    /\ \A s \in Sessions :
        /\ WF_vars(Statement(s))
        /\ \A key \in Keys : SF_vars(AddAuthor(s) /\ NextKey(s) = key)

-----------------------------------------------------------------------------
(* Properties. *)

\* Of every paper that is stored exactly one version is the latest, however the
\* sessions that store its versions interleave (the partial unique index only
\* excludes two).
OneLatest == \A p \in rows : \E q \in latest : VersionsOf(p, latest) = {q}

\* A version above everything stored becomes the latest when it commits, even
\* if other versions were stored since upsert_paper looked.
NewestBecomesLatest ==
    [][\A p \in rows' \ rows :
          (\A q \in VersionsOf(p, rows) : q.version < p.version) => p \in latest']_vars

\* A version takes the flag from a newer one only in a transaction that looked
\* before the newer one was committed.
OnlyStaleDemotes ==
    [][\A q \in latest \ latest', p \in latest' \ latest :
          p.id = q.id /\ p.version < q.version
          => \E s \in Sessions : pc[s] = "commit" /\ tx[s].paper = p /\ q \notin tx[s].seen]_vars

\* Every stored version names its authors: everybody with a name, once, in the
\* order of the first mention, whoever stored the authors' rows.
AuthorsComplete ==
    \A p \in rows :
        LET First(key) == CHOOSE i \in DOMAIN NamesOf[p] :
                            /\ KeyOf[NamesOf[p][i]] = key
                            /\ \A j \in 1 .. i - 1 : KeyOf[NamesOf[p][j]] # key
        IN  /\ ToSet(credits[p]) = {KeyOf[n] : n \in ToSet(NamesOf[p])} \ {NoKey}
            /\ \A i, j \in DOMAIN credits[p] :
                   i < j => First(credits[p][i]) < First(credits[p][j])

\* What a run over a fixed window does and the incremental schedule does not
\* promise: while p is not stored, some session takes it up again and again.
Refetched(p) == SF_vars(\E s \in Sessions : Upsert(s, p))

\* A version that is taken up again and again is stored in the end, whichever
\* other versions are: its attempts do not all fall to a unique constraint or to
\* the deadlock check. Nothing is said of a version that failed once and is not
\* fetched again, as when the checkpoint has passed it.
StoredIfRefetched == \A p \in Listing : Refetched(p) => <>(p \in rows)

=============================================================================
