------------------------- MODULE PaperVersionsProofs -------------------------
(***************************************************************************)
(* What TLAPS proves of PaperVersions, for any number of sessions, papers  *)
(* and versions: every stored paper has exactly one latest version, a new  *)
(* highest version becomes the latest, only a transaction that looked too  *)
(* early takes the flag from a newer one, and every stored paper names all *)
(* its authors.                                                            *)
(***************************************************************************)
EXTENDS PaperVersions, SequenceLemmas, TLAPS

Steps == {"idle", "demote", "update", "insert", "authors", "credits", "commit"}

Tx == [paper : Listing, seen : SUBSET Listing, targets : SUBSET Listing,
       demoted : SUBSET Listing]

FlagTypes ==
    /\ latest \subseteq rows /\ rows \subseteq Listing
    /\ pc \in [Sessions -> Steps]
    /\ tx \in [Sessions -> Tx]

\* What s has read was stored, and what it has cleared is still flagged for
\* everybody else: nobody but s can change it before s ends.
Reads(s) ==
    /\ tx[s].seen \subseteq VersionsOf(tx[s].paper, rows)
    /\ tx[s].targets \subseteq VersionsOf(tx[s].paper, rows)
    /\ tx[s].demoted \subseteq VersionsOf(tx[s].paper, latest)

\* Only a transaction with the newest version clears flags, and not before its
\* UPDATE.
Clears(s) ==
    /\ pc[s] \in {"idle", "demote", "update"} => tx[s].demoted = {}
    /\ pc[s] = "update" => IsNewest(s)
    /\ tx[s].demoted # {} => IsNewest(s)

Takes(s) == Inserted(s) /\ IsNewest(s)

\* Once the flagged row is in the index, no other row keeps the flag.
Replaces(s) == Takes(s) => VersionsOf(tx[s].paper, latest) \subseteq tx[s].demoted

Own(s) == Reads(s) /\ Clears(s) /\ Replaces(s)

\* Two sessions neither clear the same flag nor take it for the same paper.
Apart(s, q) ==
    /\ tx[s].demoted \cap tx[q].demoted = {}
    /\ ~(Takes(s) /\ Takes(q) /\ tx[s].paper.id = tx[q].paper.id)

FlagInv ==
    /\ FlagTypes
    /\ \A s \in Sessions : Own(s)
    /\ \A s, q \in Sessions : s # q => Apart(s, q)
    /\ OneLatest

LEMMA NoTxType == NoTx \in Tx
BY VersionsAssumption DEF NoTx, Tx

LEMMA NoTxFields == NoTx.seen = {} /\ NoTx.targets = {} /\ NoTx.demoted = {}
BY DEF NoTx

LEMMA InitFlagInv == Init => FlagInv
<1> SUFFICES ASSUME Init PROVE FlagInv
  OBVIOUS
<1>1. FlagTypes
  BY NoTxType DEF Init, FlagTypes, Steps
<1>2. \A s \in Sessions : pc[s] = "idle" /\ tx[s] = NoTx
  BY DEF Init
<1>3. \A s \in Sessions : Own(s)
  BY <1>2, NoTxFields DEF Own, Reads, Clears, Replaces, Takes, Inserted
<1>4. \A s, q \in Sessions : s # q => Apart(s, q)
  BY <1>2, NoTxFields DEF Apart, Takes, Inserted
<1> QED
  BY <1>1, <1>3, <1>4 DEF Init, FlagInv, OneLatest

-----------------------------------------------------------------------------
(* Steps that leave the committed rows alone. *)

\* Session s moves, with t for its part of the transaction afterwards.
Moves(s, step, t) ==
    /\ pc' = [pc EXCEPT ![s] = step]
    /\ tx' = [tx EXCEPT ![s] = t]
    /\ UNCHANGED <<rows, latest>>

LEMMA MovesFields ==
    ASSUME FlagInv, NEW s \in Sessions, NEW step \in Steps, NEW t \in Tx, Moves(s, step, t)
    PROVE  /\ FlagTypes'
           /\ pc'[s] = step /\ tx'[s] = t
           /\ \A q \in Sessions \ {s} : pc'[q] = pc[q] /\ tx'[q] = tx[q]
           /\ rows' = rows /\ latest' = latest
BY DEF FlagInv, FlagTypes, Moves

\* It is enough to look at the session that moves.
LEMMA MovesInv ==
    ASSUME FlagInv, NEW s \in Sessions, NEW step \in Steps, NEW t \in Tx, Moves(s, step, t),
           Own(s)', \A q \in Sessions \ {s} : Apart(s, q)'
    PROVE  FlagInv'
<1>1. ASSUME NEW q \in Sessions \ {s} PROVE Own(q)'
  <2>1. pc'[q] = pc[q] /\ tx'[q] = tx[q] /\ rows' = rows /\ latest' = latest
    BY MovesFields
  <2>2. Own(q)
    BY DEF FlagInv
  <2> QED
    BY <2>1, <2>2 DEF Own, Reads, Clears, Replaces, Takes, Inserted, IsNewest, VersionsOf
<1>2. ASSUME NEW q \in Sessions \ {s}, NEW r \in Sessions \ {s}, q # r PROVE Apart(q, r)'
  <2>1. pc'[q] = pc[q] /\ tx'[q] = tx[q] /\ pc'[r] = pc[r] /\ tx'[r] = tx[r]
    BY MovesFields
  <2>2. Apart(q, r)
    BY <1>2 DEF FlagInv
  <2> QED
    BY <2>1, <2>2 DEF Apart, Takes, Inserted, IsNewest
<1>3. \A q \in Sessions \ {s} : Apart(q, s)'
  BY DEF Apart
<1>4. OneLatest'
  BY MovesFields DEF FlagInv, OneLatest, VersionsOf
<1>5. FlagTypes'
  BY MovesFields
<1> QED
  BY <1>1, <1>2, <1>3, <1>4, <1>5 DEF FlagInv

\* The versions that s knows and has changed stay the same, and it is not yet
\* or no longer among those that take the flag.
LEMMA PlainMoveInv ==
    ASSUME FlagInv, NEW s \in Sessions, NEW step \in Steps, NEW t \in Tx, Moves(s, step, t),
           Own(s)', t.demoted = {}, step \notin {"authors", "credits", "commit"}
    PROVE  FlagInv'
<1>1. tx'[s] = t /\ pc'[s] = step
  BY MovesFields
<1>2. \A q \in Sessions \ {s} : Apart(s, q)'
  BY <1>1 DEF Apart, Takes, Inserted
<1> QED
  BY <1>2, MovesInv

LEMMA UpsertInv ==
    ASSUME FlagInv, NEW s \in Sessions, NEW p \in Listing, Upsert(s, p)
    PROVE  FlagInv'
<1> DEFINE t == [NoTx EXCEPT !.paper = p, !.seen = VersionsOf(p, rows)]
<1>1. t \in Tx
  BY NoTxType DEF Tx, FlagInv, FlagTypes, VersionsOf
<1>2. t.paper = p /\ t.seen = VersionsOf(p, rows) /\ t.targets = {} /\ t.demoted = {}
  BY DEF NoTx
<1>3. "demote" \in Steps /\ Moves(s, "demote", t)
  BY DEF Upsert, Moves, Steps, Goto, db
<1> HIDE DEF t
<1>4. Own(s)'
  <2>1. tx'[s] = t /\ pc'[s] = "demote" /\ rows' = rows
    BY <1>1, <1>3, MovesFields
  <2> QED
    BY <1>2, <2>1 DEF Own, Reads, Clears, Replaces, Takes, Inserted, VersionsOf
<1> QED
  BY <1>1, <1>2, <1>3, <1>4, PlainMoveInv

LEMMA DemoteInv ==
    ASSUME FlagInv, NEW s \in Sessions, Demote(s)
    PROVE  FlagInv'
<1> DEFINE t == [tx[s] EXCEPT !.targets = VersionsOf(tx[s].paper, latest)]
<1>1. tx[s] \in Tx /\ latest \subseteq rows /\ rows \subseteq Listing
  BY DEF FlagInv, FlagTypes
<1>2. VersionsOf(tx[s].paper, latest) \subseteq VersionsOf(tx[s].paper, rows)
  BY <1>1 DEF VersionsOf
<1>3. t \in Tx
  BY <1>1 DEF Tx, VersionsOf
<1>4. /\ t.paper = tx[s].paper /\ t.seen = tx[s].seen /\ t.demoted = tx[s].demoted
      /\ t.targets = VersionsOf(tx[s].paper, latest)
  BY <1>1 DEF Tx
<1>5. tx' = [tx EXCEPT ![s] = t]
  BY <1>1 DEF Demote, FlagInv, FlagTypes, Tx
<1> HIDE DEF t
<1>6. "update" \in Steps /\ Moves(s, "update", t)
  BY <1>5 DEF Demote, Moves, Steps, Goto, db
<1>7. pc[s] = "demote" /\ IsNewest(s)
  BY DEF Demote, Demotes
<1>8. Own(s) /\ t.demoted = {}
  BY <1>4, <1>7 DEF FlagInv, Own, Clears
<1>9. Own(s)'
  <2>1. tx'[s] = t /\ pc'[s] = "update" /\ rows' = rows /\ latest' = latest
    BY <1>3, <1>6, MovesFields
  <2>2. IsNewest(s)'
    BY <1>4, <1>7, <2>1 DEF IsNewest
  <2> QED
    BY <1>2, <1>4, <1>8, <2>1, <2>2
    DEF Own, Reads, Clears, Replaces, Takes, Inserted, VersionsOf
<1> QED
  BY <1>3, <1>6, <1>8, <1>9, PlainMoveInv

\* The row lock: no other transaction has cleared what this one clears.
LEMMA UpdateInv ==
    ASSUME FlagInv, NEW s \in Sessions, Update(s)
    PROVE  FlagInv'
<1> DEFINE t == [tx[s] EXCEPT !.demoted = tx[s].targets \cap latest, !.targets = {}]
<1>1. tx[s] \in Tx
  BY DEF FlagInv, FlagTypes
<1>2. t \in Tx
  BY <1>1 DEF Tx
<1>3. /\ t.paper = tx[s].paper /\ t.seen = tx[s].seen /\ t.targets = {}
      /\ t.demoted = tx[s].targets \cap latest
  BY <1>1 DEF Tx
<1>4. tx' = [tx EXCEPT ![s] = t]
  BY <1>1 DEF Update, FlagInv, FlagTypes, Tx
<1> HIDE DEF t
<1>5. "insert" \in Steps /\ Moves(s, "insert", t)
  BY <1>4 DEF Update, Moves, Steps, Goto, db
<1>6. pc[s] = "update" /\ UpdateBlockers(s) = {} /\ Own(s)
  BY DEF Update, FlagInv
<1>7. /\ tx'[s] = t /\ pc'[s] = "insert" /\ rows' = rows /\ latest' = latest
      /\ \A q \in Sessions \ {s} : tx'[q] = tx[q]
  BY <1>2, <1>5, MovesFields
<1>8. Own(s)'
  <2>1. IsNewest(s)'
    BY <1>3, <1>6, <1>7 DEF Own, Clears, IsNewest
  <2>2. Reads(s)'
    BY <1>3, <1>6, <1>7 DEF Own, Reads, VersionsOf
  <2> QED
    BY <1>7, <2>1, <2>2 DEF Own, Clears, Replaces, Takes, Inserted
<1>9. ASSUME NEW q \in Sessions \ {s} PROVE Apart(s, q)'
  <2>1. tx[q].demoted \cap tx[s].targets = {}
    BY <1>6 DEF UpdateBlockers
  <2> QED
    BY <1>3, <1>7, <2>1 DEF Apart, Takes, Inserted
<1> QED
  BY <1>2, <1>5, <1>8, <1>9, MovesInv

LEMMA KeepFlagsInv ==
    ASSUME FlagInv, NEW s \in Sessions, KeepFlags(s)
    PROVE  FlagInv'
<1>1. tx[s] \in Tx /\ tx' = [tx EXCEPT ![s] = tx[s]]
  BY DEF KeepFlags, FlagInv, FlagTypes
<1>2. "insert" \in Steps /\ Moves(s, "insert", tx[s])
  BY <1>1 DEF KeepFlags, Moves, Steps, Goto, db
<1>3. Own(s) /\ tx[s].demoted = {}
  BY DEF KeepFlags, FlagInv, Own, Clears
<1>4. Own(s)'
  <2>1. tx'[s] = tx[s] /\ pc'[s] = "insert" /\ rows' = rows /\ latest' = latest
    BY <1>1, <1>2, MovesFields
  <2> QED
    BY <1>3, <2>1 DEF Own, Reads, Clears, Replaces, Takes, Inserted, VersionsOf
<1> QED
  BY <1>1, <1>2, <1>3, <1>4, PlainMoveInv

\* The unique index: when a flagged row goes in, nobody else holds the flag of
\* this paper or is about to take it.
LEMMA InsertInv ==
    ASSUME FlagInv, NEW s \in Sessions, Insert(s)
    PROVE  FlagInv'
<1>1. tx[s] \in Tx /\ tx' = [tx EXCEPT ![s] = tx[s]]
  BY DEF Insert, FlagInv, FlagTypes
<1>2. "authors" \in Steps /\ Moves(s, "authors", tx[s])
  BY <1>1 DEF Insert, Moves, Steps, Goto, db
<1>3. /\ tx'[s] = tx[s] /\ pc'[s] = "authors" /\ rows' = rows /\ latest' = latest
      /\ \A q \in Sessions \ {s} : tx'[q] = tx[q] /\ pc'[q] = pc[q]
  BY <1>1, <1>2, MovesFields
<1>4. InsertBlockers(s) = {} /\ ~Conflicts(s) /\ Own(s)
  BY DEF Insert, FlagInv
<1>5. IsNewest(s)' = IsNewest(s) /\ \A q \in Sessions \ {s} : Takes(q)' = Takes(q)
  BY <1>3 DEF IsNewest, Takes, Inserted
<1>6. ASSUME IsNewest(s) PROVE VersionsOf(tx[s].paper, latest) \subseteq tx[s].demoted
  <2> SUFFICES ASSUME NEW p \in VersionsOf(tx[s].paper, latest) PROVE p \in tx[s].demoted
    OBVIOUS
  <2>1. PICK q \in Sessions : p \in tx[q].demoted
    BY <1>4, <1>6 DEF Conflicts
  <2>2. p.id = tx[q].paper.id /\ p.id = tx[s].paper.id
    BY <2>1 DEF FlagInv, Own, Reads, VersionsOf
  <2>3. q = s
    BY <1>4, <1>6, <2>1, <2>2 DEF InsertBlockers
  <2> QED
    BY <2>1, <2>3
<1>7. Own(s)'
  BY <1>3, <1>4, <1>5, <1>6 DEF Own, Reads, Clears, Replaces, Takes, VersionsOf
<1>8. ASSUME NEW q \in Sessions \ {s} PROVE Apart(s, q)'
  <2>1. Apart(s, q)
    BY DEF FlagInv
  <2>2. ~(IsNewest(s) /\ Takes(q) /\ tx[s].paper.id = tx[q].paper.id)
    BY <1>4 DEF InsertBlockers, Takes
  <2> QED
    BY <1>3, <1>5, <2>1, <2>2 DEF Apart, Takes
<1> QED
  BY <1>1, <1>2, <1>7, <1>8, MovesInv

\* The statements about the authors do not touch the versions.
LEMMA ByLineInv ==
    ASSUME FlagInv, NEW s \in Sessions, AddAuthor(s) \/ AuthorsAdded(s) \/ Credit(s)
    PROVE  FlagInv'
<1>1. PICK step \in {"authors", "credits", "commit"} :
        pc' = [pc EXCEPT ![s] = step] /\ pc[s] \in {"authors", "credits"}
  <2>1. CASE AddAuthor(s)
    BY <2>1 DEF AddAuthor, FlagInv, FlagTypes
  <2> QED
    BY <2>1 DEF AuthorsAdded, Credit, Goto
<1>2. tx' = tx /\ rows' = rows /\ latest' = latest
  BY DEF AddAuthor, AuthorsAdded, Credit, db
<1>3. tx[s] \in Tx /\ step \in Steps /\ Moves(s, step, tx[s])
  BY <1>1, <1>2 DEF FlagInv, FlagTypes, Steps, Moves
<1>4. /\ pc'[s] = step
      /\ \A q \in Sessions \ {s} : pc'[q] = pc[q]
  BY <1>3, MovesFields
<1>5. \A q \in Sessions : Takes(q)' = Takes(q) /\ IsNewest(q)' = IsNewest(q)
  BY <1>1, <1>2, <1>4 DEF Takes, Inserted, IsNewest
<1>6. Own(s)'
  BY <1>1, <1>2, <1>4, <1>5 DEF FlagInv, Own, Reads, Clears, Replaces, VersionsOf
<1>7. \A q \in Sessions \ {s} : Apart(s, q)'
  BY <1>2, <1>5 DEF FlagInv, Apart
<1> QED
  BY <1>3, <1>6, <1>7, MovesInv

LEMMA RollBackInv ==
    ASSUME FlagInv, NEW s \in Sessions, RollBack(s)
    PROVE  FlagInv'
<1>1. "idle" \in Steps /\ NoTx \in Tx /\ Moves(s, "idle", NoTx)
  BY NoTxType DEF RollBack, Finish, Goto, Steps, Moves, db
<1>2. Own(s)'
  <2>1. tx'[s] = NoTx /\ pc'[s] = "idle"
    BY <1>1, MovesFields
  <2> QED
    BY <2>1, NoTxFields DEF Own, Reads, Clears, Replaces, Takes, Inserted
<1> QED
  BY <1>1, <1>2, NoTxFields, PlainMoveInv

-----------------------------------------------------------------------------
(* The commit. *)

LEMMA CommitFields ==
    ASSUME FlagInv, NEW s \in Sessions, Commit(s)
    PROVE  /\ FlagTypes'
           /\ tx[s].paper \in Listing
           /\ rows' = rows \cup {tx[s].paper}
           /\ latest' = (latest \ tx[s].demoted) \cup (IF IsNewest(s) THEN {tx[s].paper} ELSE {})
           /\ pc'[s] = "idle" /\ tx'[s] = NoTx
           /\ \A q \in Sessions \ {s} : pc'[q] = pc[q] /\ tx'[q] = tx[q]
           /\ Inserted(s)
<1>1. /\ pc' = [pc EXCEPT ![s] = "idle"] /\ tx' = [tx EXCEPT ![s] = NoTx]
      /\ rows' = rows \cup {tx[s].paper}
      /\ latest' = (latest \ tx[s].demoted) \cup (IF IsNewest(s) THEN {tx[s].paper} ELSE {})
      /\ pc[s] = "commit"
  BY DEF Commit, Finish, Goto
<1>2. tx[s] \in Tx /\ pc \in [Sessions -> Steps] /\ tx \in [Sessions -> Tx]
  BY DEF FlagInv, FlagTypes
<1>3. tx[s].paper \in Listing
  BY <1>2 DEF Tx
<1>4. pc' \in [Sessions -> Steps] /\ tx' \in [Sessions -> Tx]
  BY <1>1, <1>2, NoTxType DEF Steps
<1>5. latest' \subseteq rows' /\ rows' \subseteq Listing
  BY <1>1, <1>3 DEF FlagInv, FlagTypes
<1> QED
  BY <1>1, <1>2, <1>3, <1>4, <1>5 DEF FlagTypes, Inserted

\* Among the versions of the paper of s the flag changes hands completely; the
\* flags of other papers stay.
LEMMA CommitLatest ==
    ASSUME FlagInv, NEW s \in Sessions, Commit(s)
    PROVE  /\ IsNewest(s) => VersionsOf(tx[s].paper, latest') = {tx[s].paper}
           /\ ~IsNewest(s) => latest' = latest
           /\ \A p : p.id # tx[s].paper.id => VersionsOf(p, latest') = VersionsOf(p, latest)
<1>1. Own(s) /\ Inserted(s)
  BY CommitFields DEF FlagInv
<1>2. latest' = (latest \ tx[s].demoted) \cup (IF IsNewest(s) THEN {tx[s].paper} ELSE {})
  BY CommitFields
<1>3. tx[s].demoted \subseteq VersionsOf(tx[s].paper, latest)
  BY <1>1 DEF Own, Reads
<1>4. IsNewest(s) => VersionsOf(tx[s].paper, latest) \subseteq tx[s].demoted
  BY <1>1 DEF Own, Replaces, Takes
<1>5. IsNewest(s) => VersionsOf(tx[s].paper, latest') = {tx[s].paper}
  BY <1>2, <1>4 DEF VersionsOf
<1>6. ~IsNewest(s) => latest' = latest
  BY <1>1, <1>2 DEF Own, Clears
<1>7. ASSUME NEW p, p.id # tx[s].paper.id
      PROVE  VersionsOf(p, latest') = VersionsOf(p, latest)
  BY <1>2, <1>3, <1>7 DEF VersionsOf
<1> QED
  BY <1>5, <1>6, <1>7

LEMMA CommitOneLatest ==
    ASSUME FlagInv, NEW s \in Sessions, Commit(s)
    PROVE  OneLatest'
<1> SUFFICES ASSUME NEW p \in rows' PROVE \E q \in latest' : VersionsOf(p, latest') = {q}
  BY DEF OneLatest
<1>1. rows' = rows \cup {tx[s].paper}
  BY CommitFields
<1>2. CASE p.id # tx[s].paper.id
  <2>1. p \in rows /\ VersionsOf(p, latest') = VersionsOf(p, latest)
    BY <1>1, <1>2, CommitLatest
  <2>2. PICK q \in latest : VersionsOf(p, latest) = {q}
    BY <2>1 DEF FlagInv, OneLatest
  <2>3. q \in latest'
    BY <2>1, <2>2 DEF VersionsOf
  <2> QED
    BY <2>1, <2>2, <2>3
<1>3. CASE p.id = tx[s].paper.id /\ IsNewest(s)
  <2>1. VersionsOf(p, latest') = VersionsOf(tx[s].paper, latest')
    BY <1>3 DEF VersionsOf
  <2>2. VersionsOf(tx[s].paper, latest') = {tx[s].paper}
    BY <1>3, CommitLatest
  <2>3. tx[s].paper \in latest'
    BY <1>3, CommitFields
  <2> QED
    BY <2>1, <2>2, <2>3
\* A version that is not the newest was told so by a row that is still there.
<1>4. CASE p.id = tx[s].paper.id /\ ~IsNewest(s)
  <2>1. PICK r \in tx[s].seen : TRUE
    BY <1>4 DEF IsNewest
  <2>2. r \in rows /\ r.id = p.id
    BY <1>4, <2>1 DEF FlagInv, Own, Reads, VersionsOf
  <2>3. PICK q \in latest : VersionsOf(r, latest) = {q}
    BY <2>2 DEF FlagInv, OneLatest
  <2>4. VersionsOf(p, latest') = VersionsOf(r, latest) /\ q \in latest'
    BY <1>4, <2>2, CommitLatest DEF VersionsOf
  <2> QED
    BY <2>3, <2>4
<1> QED
  BY <1>2, <1>3, <1>4

\* What another session has read or cleared survives the commit of s.
LEMMA CommitOthers ==
    ASSUME FlagInv, NEW s \in Sessions, Commit(s), NEW q \in Sessions \ {s}
    PROVE  Own(q)'
<1>1. /\ pc'[q] = pc[q] /\ tx'[q] = tx[q] /\ rows' = rows \cup {tx[s].paper}
      /\ latest' = (latest \ tx[s].demoted) \cup (IF IsNewest(s) THEN {tx[s].paper} ELSE {})
      /\ Inserted(s)
  BY CommitFields
<1>2. Own(q) /\ Apart(s, q)
  BY DEF FlagInv
<1>3. IsNewest(q)' = IsNewest(q) /\ Inserted(q)' = Inserted(q)
  BY <1>1 DEF IsNewest, Inserted
<1>4. Reads(q)'
  BY <1>1, <1>2 DEF Own, Reads, Apart, VersionsOf
<1>5. Replaces(q)'
  <2> SUFFICES ASSUME Takes(q), NEW p \in VersionsOf(tx[q].paper, latest')
               PROVE  p \in tx[q].demoted
    BY <1>1, <1>3 DEF Replaces, Takes
  <2>1. p \in latest' /\ p.id = tx[q].paper.id
    BY DEF VersionsOf
  <2>2. CASE p \in latest
    BY <1>2, <2>1, <2>2 DEF Own, Replaces, VersionsOf
  <2>3. CASE p \notin latest
    <3>1. IsNewest(s) /\ p = tx[s].paper
      BY <1>1, <2>1, <2>3
    <3> QED
      BY <1>1, <1>2, <2>1, <3>1 DEF Apart, Takes
  <2> QED
    BY <2>2, <2>3
<1> QED
  BY <1>1, <1>2, <1>3, <1>4, <1>5 DEF Own, Clears

LEMMA CommitInv ==
    ASSUME FlagInv, NEW s \in Sessions, Commit(s)
    PROVE  FlagInv'
<1>1. FlagTypes' /\ pc'[s] = "idle" /\ tx'[s] = NoTx
  BY CommitFields
<1>2. Own(s)'
  BY <1>1, NoTxFields DEF Own, Reads, Clears, Replaces, Takes, Inserted
<1>3. \A q \in Sessions \ {s} : Own(q)'
  BY CommitOthers
<1>4. ASSUME NEW q \in Sessions, NEW r \in Sessions, q # r PROVE Apart(q, r)'
  <2>1. CASE q = s \/ r = s
    BY <1>1, <2>1, NoTxFields DEF Apart, Takes, Inserted
  <2>2. CASE q # s /\ r # s
    <3>1. pc'[q] = pc[q] /\ tx'[q] = tx[q] /\ pc'[r] = pc[r] /\ tx'[r] = tx[r]
      BY <2>2, CommitFields
    <3>2. Apart(q, r)
      BY <1>4 DEF FlagInv
    <3> QED
      BY <3>1, <3>2 DEF Apart, Takes, Inserted, IsNewest
  <2> QED
    BY <2>1, <2>2
<1>5. OneLatest'
  BY CommitOneLatest
<1> QED
  BY <1>1, <1>2, <1>3, <1>4, <1>5 DEF FlagInv

-----------------------------------------------------------------------------
(* Theorems. *)

\* A step that is no commit leaves the committed rows as they are.
LEMMA NextFlagInv ==
    FlagInv /\ [Next]_vars
    => FlagInv' /\ ((\E s \in Sessions : Commit(s)) \/ (rows' = rows /\ latest' = latest))
<1> SUFFICES ASSUME FlagInv, [Next]_vars
             PROVE  /\ FlagInv'
                    /\ (\E s \in Sessions : Commit(s)) \/ (rows' = rows /\ latest' = latest)
  OBVIOUS
<1>1. CASE UNCHANGED vars
  BY <1>1 DEF vars, db, FlagInv, FlagTypes, Own, Reads, Clears, Replaces, Apart, Takes,
      Inserted, IsNewest, OneLatest, VersionsOf
<1>2. ASSUME NEW s \in Sessions, NEW p \in Listing, Upsert(s, p) PROVE FlagInv' /\ UNCHANGED db
  BY <1>2, UpsertInv DEF Upsert
<1>3. ASSUME NEW s \in Sessions, Demote(s) \/ Update(s) \/ KeepFlags(s) \/ Insert(s)
      PROVE  FlagInv' /\ UNCHANGED db
  BY <1>3, DemoteInv, UpdateInv, KeepFlagsInv, InsertInv
  DEF Demote, Update, KeepFlags, Insert
<1>4. ASSUME NEW s \in Sessions, AddAuthor(s) \/ AuthorsAdded(s) \/ Credit(s)
      PROVE  FlagInv' /\ UNCHANGED db
  BY <1>4, ByLineInv DEF AddAuthor, AuthorsAdded, Credit
<1>5. ASSUME NEW s \in Sessions, InsertConflict(s) \/ DeadlockAbort(s) \/ Crash(s)
      PROVE  FlagInv' /\ UNCHANGED db
  BY <1>5, RollBackInv DEF InsertConflict, DeadlockAbort, Crash, RollBack
<1>6. ASSUME NEW s \in Sessions, Commit(s) PROVE FlagInv'
  BY <1>6, CommitInv
<1> QED
  BY <1>1, <1>2, <1>3, <1>4, <1>5, <1>6 DEF Next, Statement, vars, db

\* In every state every stored paper has exactly one version that is flagged
\* latest (upsert_paper).
THEOREM ExactlyOneLatest == Spec => []OneLatest
<1>1. FlagInv => OneLatest
  BY DEF FlagInv
<1> QED
  BY <1>1, InitFlagInv, NextFlagInv, PTL DEF Spec

\* Whatever was stored since upsert_paper looked, a version above all others
\* is the latest once it is committed.
THEOREM NewestIsFlagged == Spec => NewestBecomesLatest
<1> DEFINE Flagged ==
      \A p \in rows' \ rows :
          (\A q \in VersionsOf(p, rows) : q.version < p.version) => p \in latest'
<1>1. ASSUME FlagInv, [Next]_vars PROVE [Flagged]_vars
  <2> SUFFICES ASSUME NEW p \in rows' \ rows,
                      \A q \in VersionsOf(p, rows) : q.version < p.version
               PROVE  p \in latest'
    OBVIOUS
  <2>1. PICK s \in Sessions : Commit(s)
    BY <1>1, NextFlagInv
  <2>2. p = tx[s].paper
    BY <1>1, <2>1, CommitFields
  <2>3. tx[s].seen \subseteq VersionsOf(p, rows)
    BY <1>1, <2>2 DEF FlagInv, Own, Reads
  <2>4. IsNewest(s)
    BY <2>2, <2>3 DEF IsNewest
  <2> QED
    BY <1>1, <2>1, <2>2, <2>4, CommitFields
<1> QED
  BY <1>1, InitFlagInv, NextFlagInv, PTL DEF Spec, NewestBecomesLatest

\* A version loses the flag to an older one only in a transaction that did not
\* see it.
THEOREM StaleReadsOnly == Spec => OnlyStaleDemotes
<1> DEFINE Stale ==
      \A q \in latest \ latest', p \in latest' \ latest :
          p.id = q.id /\ p.version < q.version
          => \E s \in Sessions : pc[s] = "commit" /\ tx[s].paper = p /\ q \notin tx[s].seen
<1>1. ASSUME FlagInv, [Next]_vars PROVE [Stale]_vars
  <2> SUFFICES ASSUME NEW q \in latest \ latest', NEW p \in latest' \ latest,
                      p.version < q.version
               PROVE  \E s \in Sessions :
                        pc[s] = "commit" /\ tx[s].paper = p /\ q \notin tx[s].seen
    OBVIOUS
  <2>1. PICK s \in Sessions : Commit(s)
    BY <1>1, NextFlagInv
  <2>2. p = tx[s].paper /\ IsNewest(s) /\ pc[s] = "commit"
    BY <1>1, <2>1, CommitFields DEF Commit
  <2>3. p \in Listing /\ q \in Listing
    BY <1>1, <2>1, <2>2, CommitFields DEF FlagInv, FlagTypes
  <2>4. ~(q.version < p.version)
    BY <2>3, VersionsAssumption
  <2>5. q \notin tx[s].seen
    BY <2>2, <2>4 DEF IsNewest
  <2> QED
    BY <2>2, <2>5
<1> QED
  BY <1>1, InitFlagInv, NextFlagInv, PTL DEF Spec, OnlyStaleDemotes

-----------------------------------------------------------------------------
(* get_or_create_authors: the keys of a byline. *)

AllKeys == {KeyOf[n] : n \in DOMAIN KeyOf}

\* The keys after each name.
IsMentionRun(h, p) ==
    /\ h \in [0 .. Len(NamesOf[p]) -> Seq(AllKeys)]
    /\ h[0] = <<>> /\ AuthorKeys(p) = h[Len(NamesOf[p])]
    /\ \A i \in 1 .. Len(NamesOf[p]) :
          h[i] = IF KeyOf[NamesOf[p][i]] \in ToSet(h[i - 1]) \cup {NoKey}
                 THEN h[i - 1] ELSE Append(h[i - 1], KeyOf[NamesOf[p][i]])

LEMMA MentionRuns ==
    ASSUME NEW p \in Listing
    PROVE  \E h : IsMentionRun(h, p)
<1> DEFINE s == NamesOf[p]
           n == Len(s)
           S == Seq(AllKeys)
           Op(keys, name) == IF KeyOf[name] \in ToSet(keys) \cup {NoKey}
                             THEN keys ELSE Append(keys, KeyOf[name])
           step == [i \in 1 .. n |-> [keys \in S |-> Op(keys, s[i])]]
           it == CHOOSE f : f = [t \in SUBSET (1 .. n) |->
                                   IF t = {} THEN <<>> ELSE Op(f[t \ {Max(t)}], s[Max(t)])]
<1>1. n \in Nat /\ DOMAIN s = 1 .. n /\ <<>> \in S /\ \A i \in 1 .. n : s[i] \in DOMAIN KeyOf
  BY VersionsAssumption
<1>2. IsStep(step, S, n) /\ \A i \in 1 .. n, keys \in S : step[i][keys] = Op(keys, s[i])
  <2>1. \A i \in 1 .. n, keys \in S : Op(keys, s[i]) \in S
    BY <1>1 DEF AllKeys
  <2> QED
    BY <2>1 DEF IsStep
<1>3. \A t \in SUBSET (1 .. n) : t # {} => Max(t) \in 1 .. n /\ t \ {Max(t)} \in SUBSET (1 .. n)
  BY <1>1, MaxOfPositions
<1>4. it = [t \in SUBSET (1 .. n) |->
              IF t = {} THEN <<>> ELSE Op(it[t \ {Max(t)}], s[Max(t)])]
  <2>1. PICK f : f \in [SUBSET (1 .. n) -> S] /\ Iterates(f, step, <<>>, S, n)
    <3> HIDE DEF step, n, Op, S
    <3> QED
      BY <1>1, <1>2, IterationExists
  <2>2. f = [t \in SUBSET (1 .. n) |->
               IF t = {} THEN <<>> ELSE Op(f[t \ {Max(t)}], s[Max(t)])]
    <3> HIDE DEF step, n, Op, S
    <3> QED
      BY <2>1, <1>2, <1>3 DEF Iterates
  <2> QED
    BY <2>2
<1>5. AuthorKeys(p) = it[1 .. n]
  BY <1>1 DEF AuthorKeys, FoldLeft, MapThenFoldSet
<1> HIDE DEF step, it, n, Op, S
<1>6. Iterates(it, step, <<>>, S, n)
  BY <1>2, <1>3, <1>4 DEF Iterates
<1>7. PICK h : IsRun(h, step, <<>>, S, n, it[1 .. n])
  BY <1>1, <1>2, <1>6, IterationRuns
<1>8. h \in [0 .. n -> S] /\ \A i \in 1 .. n : h[i] = Op(h[i - 1], s[i])
  <2>1. \A i \in 1 .. n : h[i - 1] \in S
    BY <1>1, <1>7 DEF IsRun
  <2> QED
    BY <1>1, <1>2, <1>7, <2>1 DEF IsRun
<1> QED
  BY <1>5, <1>7, <1>8 DEF IsRun, n, Op, S, IsMentionRun

\* The name at m is the first with this key.
IsFirst(p, key, m) ==
    KeyOf[NamesOf[p][m]] = key /\ \A j \in 1 .. m - 1 : KeyOf[NamesOf[p][j]] # key

\* keys are the keys of the first i names of p, once each, by first mention.
Mentions(keys, p, i) ==
    /\ ToSet(keys) = {KeyOf[NamesOf[p][j]] : j \in 1 .. i} \ {NoKey}
    /\ \A a \in 1 .. Len(keys) : \E m \in 1 .. i : IsFirst(p, keys[a], m)
    /\ \A a, b \in 1 .. Len(keys), m, o \in 1 .. i :
          a < b /\ IsFirst(p, keys[a], m) /\ IsFirst(p, keys[b], o) => m < o

LEMMA MentionsOneMore ==
    ASSUME NEW p \in Listing, NEW i \in 1 .. Len(NamesOf[p]), NEW keys \in Seq(AllKeys),
           Mentions(keys, p, i - 1)
    PROVE  Mentions(IF KeyOf[NamesOf[p][i]] \in ToSet(keys) \cup {NoKey}
                    THEN keys ELSE Append(keys, KeyOf[NamesOf[p][i]]), p, i)
<1> DEFINE new == KeyOf[NamesOf[p][i]]
           all == Append(keys, new)
<1>1. i \in Nat /\ i - 1 \in Nat /\ Len(keys) \in Nat /\ DOMAIN keys = 1 .. Len(keys)
  BY VersionsAssumption
<1>2. \A j \in 1 .. i : j \in 1 .. i - 1 \/ j = i
  BY <1>1
<1>3. {KeyOf[NamesOf[p][j]] : j \in 1 .. i} = {KeyOf[NamesOf[p][j]] : j \in 1 .. i - 1} \cup {new}
  BY <1>1, <1>2
<1> HIDE DEF new
<1>4. CASE new \in ToSet(keys) \cup {NoKey}
  <2>1. ToSet(keys) = {KeyOf[NamesOf[p][j]] : j \in 1 .. i} \ {NoKey}
    BY <1>3, <1>4 DEF Mentions
  <2>2. ASSUME NEW a \in 1 .. Len(keys), NEW m \in 1 .. i, IsFirst(p, keys[a], m)
        PROVE  m \in 1 .. i - 1
    <3>1. PICK o \in 1 .. i - 1 : IsFirst(p, keys[a], o)
      BY DEF Mentions
    <3>2. KeyOf[NamesOf[p][o]] = keys[a]
      BY <3>1 DEF IsFirst
    <3>3. m # i
      BY <1>1, <2>2, <3>2 DEF IsFirst
    <3> QED
      BY <1>2, <3>3
  <2>3. \A a \in 1 .. Len(keys) : \E m \in 1 .. i : IsFirst(p, keys[a], m)
    BY <1>1 DEF Mentions
  <2>4. Mentions(keys, p, i)
    BY <2>1, <2>2, <2>3 DEF Mentions
  <2> QED
    BY <1>4, <2>4 DEF new
<1>5. CASE new \notin ToSet(keys) \cup {NoKey}
  <2>1. /\ Len(all) = Len(keys) + 1 /\ DOMAIN all = 1 .. Len(all) /\ all[Len(all)] = new
        /\ \A a \in 1 .. Len(keys) : all[a] = keys[a]
        /\ \A a \in 1 .. Len(all) : a = Len(all) \/ a \in 1 .. Len(keys)
    BY <1>1
  <2> HIDE DEF all
  <2>2. ToSet(all) = ToSet(keys) \cup {new}
    BY <1>1, <2>1 DEF ToSet
  <2>3. ToSet(all) = {KeyOf[NamesOf[p][j]] : j \in 1 .. i} \ {NoKey}
    BY <1>3, <1>5, <2>2 DEF Mentions
  <2>4. \A j \in 1 .. i - 1 : KeyOf[NamesOf[p][j]] # new
    BY <1>5 DEF Mentions
  <2>5. IsFirst(p, new, i)
    BY <2>4 DEF IsFirst, new
  <2>6. ASSUME NEW m \in 1 .. i, IsFirst(p, new, m) PROVE m = i
    BY <1>2, <2>4, <2>6 DEF IsFirst
  <2>7. ASSUME NEW a \in 1 .. Len(keys), NEW m \in 1 .. i, IsFirst(p, keys[a], m)
        PROVE  m \in 1 .. i - 1
    <3>1. PICK o \in 1 .. i - 1 : IsFirst(p, keys[a], o)
      BY DEF Mentions
    <3>2. KeyOf[NamesOf[p][o]] = keys[a]
      BY <3>1 DEF IsFirst
    <3>3. m # i
      BY <1>1, <2>7, <3>2 DEF IsFirst
    <3> QED
      BY <1>2, <3>3
  <2>8. \A a \in 1 .. Len(all) : \E m \in 1 .. i : IsFirst(p, all[a], m)
    <3> TAKE a \in 1 .. Len(all)
    <3>1. CASE a = Len(all)
      BY <1>1, <2>1, <2>5, <3>1
    <3>2. CASE a \in 1 .. Len(keys)
      BY <1>1, <2>1, <3>2 DEF Mentions
    <3> QED
      BY <2>1, <3>1, <3>2
  <2>9. ASSUME NEW a \in 1 .. Len(all), NEW b \in 1 .. Len(all), a < b,
               NEW m \in 1 .. i, NEW o \in 1 .. i,
               IsFirst(p, all[a], m), IsFirst(p, all[b], o)
        PROVE  m < o
    <3>1. a \in 1 .. Len(keys) /\ all[a] = keys[a]
      BY <1>1, <2>1, <2>9
    <3>2. m \in 1 .. i - 1
      BY <2>7, <2>9, <3>1
    <3>3. CASE b = Len(all)
      <4>1. o = i
        BY <2>1, <2>6, <2>9, <3>3
      <4> QED
        BY <1>1, <3>2, <4>1
    <3>4. CASE b \in 1 .. Len(keys)
      <4>1. all[b] = keys[b] /\ o \in 1 .. i - 1
        BY <2>1, <2>7, <2>9, <3>4
      <4> QED
        BY <2>9, <3>1, <3>2, <3>4, <4>1 DEF Mentions
    <3> QED
      BY <2>1, <3>3, <3>4
  <2>10. Mentions(all, p, i)
    BY <2>3, <2>8, <2>9 DEF Mentions
  <2> QED
    BY <1>5, <2>10 DEF all, new
<1> QED
  BY <1>4, <1>5

\* The keys of a byline are those of its names, once each, by first mention.
LEMMA KeysOfByline ==
    ASSUME NEW p \in Listing
    PROVE  AuthorKeys(p) \in Seq(AllKeys) /\ Mentions(AuthorKeys(p), p, Len(NamesOf[p]))
<1>1. PICK h : IsMentionRun(h, p)
  BY MentionRuns
<1> DEFINE n == Len(NamesOf[p])
           G == {i \in 0 .. n : Mentions(h[i], p, i)}
<1>2. n \in Nat
  BY VersionsAssumption
<1>3. \A i \in 0 .. n : h[i] \in Seq(AllKeys)
  BY <1>1 DEF IsMentionRun
<1>4. 0 \in G
  <2>1. 1 .. 0 = {} /\ Len(<<>>) = 0 /\ ToSet(<<>>) = {} /\ h[0] = <<>>
    BY <1>1 DEF ToSet, IsMentionRun
  <2> QED
    BY <1>2, <2>1 DEF Mentions
<1>5. ASSUME NEW i \in 1 .. n, i - 1 \in G PROVE i \in G
  <2>1. h[i - 1] \in Seq(AllKeys) /\ Mentions(h[i - 1], p, i - 1)
    BY <1>2, <1>3, <1>5
  <2>2. Mentions(h[i], p, i)
    BY <1>1, <2>1, MentionsOneMore DEF IsMentionRun
  <2> QED
    BY <2>2
<1>6. n \in G
  <2> HIDE DEF G
  <2>1. 0 .. n \subseteq G
    BY <1>2, <1>4, <1>5, UpToInduction
  <2> QED
    BY <1>2, <2>1
<1> QED
  BY <1>1, <1>2, <1>3, <1>6 DEF IsMentionRun

-----------------------------------------------------------------------------
(* The authors of the stored papers. *)

\* What s has put into the authors' rows so far is there for it to find.
Gathers(s) ==
    LET keys == AuthorKeys(tx[s].paper)
        there == authors \cup byline[s].adding
    IN  /\ pc[s] \in {"idle", "demote", "update", "insert"} => byline[s] = NoByline
        /\ pc[s] = "authors" =>
              /\ byline[s].next \in Nat \ {0}
              /\ \A i \in 1 .. Len(keys) : i < byline[s].next => keys[i] \in there
        /\ pc[s] \in {"credits", "commit"} => \A i \in 1 .. Len(keys) : keys[i] \in there
        /\ pc[s] = "commit" => byline[s].credit = keys

Bylines == [next : Nat, adding : SUBSET AllKeys, credit : Seq(AllKeys)]

AuthorInv ==
    /\ byline \in [Sessions -> Bylines]
    /\ credits \in [Listing -> Seq(AllKeys)]
    /\ \A s \in Sessions : Gathers(s)
    /\ \A p \in rows : credits[p] = AuthorKeys(p)

LEMMA NoBylineType == NoByline \in Bylines
BY DEF NoByline, Bylines

LEMMA InitAuthorInv == Init => AuthorInv
<1> SUFFICES ASSUME Init PROVE AuthorInv
  OBVIOUS
<1>1. byline \in [Sessions -> Bylines] /\ credits \in [Listing -> Seq(AllKeys)]
  BY NoBylineType DEF Init
<1> QED
  BY <1>1 DEF Init, AuthorInv, Gathers

\* A session that moves on its own: the rows stay, and nobody loses an author.
LEMMA GathersStays ==
    ASSUME AuthorInv, NEW s \in Sessions, pc'[s] = pc[s], tx'[s] = tx[s],
           byline'[s] = byline[s], authors \subseteq authors'
    PROVE  Gathers(s)'
BY DEF AuthorInv, Gathers

LEMMA OwnStep ==
    ASSUME FlagInv, AuthorInv, NEW s \in Sessions, UNCHANGED db,
           NEW step \in Steps, pc' = [pc EXCEPT ![s] = step],
           NEW t \in Tx, tx' = [tx EXCEPT ![s] = t],
           NEW b \in Bylines, byline' = [byline EXCEPT ![s] = b],
           Gathers(s)'
    PROVE  AuthorInv'
<1>1. byline' \in [Sessions -> Bylines] /\ credits' = credits /\ rows' = rows /\ authors' = authors
  BY DEF AuthorInv, db
<1>2. ASSUME NEW q \in Sessions \ {s} PROVE Gathers(q)'
  <2>1. pc'[q] = pc[q] /\ tx'[q] = tx[q] /\ byline'[q] = byline[q]
    BY DEF FlagInv, FlagTypes, AuthorInv
  <2> QED
    BY <1>1, <2>1, GathersStays
<1> QED
  BY <1>1, <1>2 DEF AuthorInv

\* A session that rests without a byline.
LEMMA BlankStep ==
    ASSUME FlagInv, AuthorInv, NEW s \in Sessions, UNCHANGED db,
           NEW step \in {"idle", "demote", "update", "insert"}, pc' = [pc EXCEPT ![s] = step],
           NEW t \in Tx, tx' = [tx EXCEPT ![s] = t],
           byline' = [byline EXCEPT ![s] = NoByline]
    PROVE  AuthorInv'
<1>1. pc'[s] = step /\ byline'[s] = NoByline
  BY DEF FlagInv, FlagTypes, AuthorInv
<1>2. Gathers(s)'
  BY <1>1 DEF Gathers
<1> QED
  BY <1>2, OwnStep, NoBylineType DEF Steps

LEMMA VersionStepAuthors ==
    ASSUME FlagInv, AuthorInv, FlagInv', NEW s \in Sessions,
           \/ Demote(s) \/ Update(s) \/ KeepFlags(s)
           \/ \E p \in Listing : Upsert(s, p)
    PROVE  AuthorInv'
<1>1. UNCHANGED <<db, byline>> /\ pc[s] \in {"idle", "demote", "update"}
  BY DEF Demote, Update, KeepFlags, Upsert
<1>2. PICK step \in {"demote", "update", "insert"} : pc' = [pc EXCEPT ![s] = step]
  BY DEF Demote, Update, KeepFlags, Upsert, Goto
<1>3. tx'[s] \in Tx /\ tx' = [tx EXCEPT ![s] = tx'[s]]
  <2>1. tx' \in [Sessions -> Tx] /\ tx \in [Sessions -> Tx]
    BY DEF FlagInv, FlagTypes
  <2>2. \A q \in Sessions \ {s} : tx'[q] = tx[q]
    BY <2>1 DEF Demote, Update, KeepFlags, Upsert
  <2> QED
    BY <2>1, <2>2
<1>4. byline' = [byline EXCEPT ![s] = NoByline]
  BY <1>1 DEF AuthorInv, Gathers
<1> QED
  BY <1>1, <1>2, <1>3, <1>4, BlankStep

LEMMA InsertAuthors ==
    ASSUME FlagInv, AuthorInv, NEW s \in Sessions, Insert(s)
    PROVE  AuthorInv'
<1>1. /\ pc' = [pc EXCEPT ![s] = "authors"] /\ UNCHANGED <<db, tx, byline>> /\ pc[s] = "insert"
  BY DEF Insert, Goto
<1>2. /\ tx' = [tx EXCEPT ![s] = tx[s]] /\ tx[s] \in Tx /\ pc'[s] = "authors"
      /\ byline' = [byline EXCEPT ![s] = byline[s]] /\ byline[s] = NoByline
      /\ byline[s] \in Bylines /\ byline'[s] = NoByline /\ tx'[s] = tx[s]
  BY <1>1 DEF FlagInv, FlagTypes, AuthorInv, Gathers
<1>3. AuthorKeys(tx[s].paper) \in Seq(AllKeys)
  BY <1>2, KeysOfByline DEF Tx
<1>4. Gathers(s)'
  BY <1>2, <1>3 DEF Gathers, NoByline
<1> QED
  BY <1>1, <1>2, <1>4, OwnStep DEF Steps

LEMMA AddAuthorAuthors ==
    ASSUME FlagInv, AuthorInv, NEW s \in Sessions, AddAuthor(s)
    PROVE  AuthorInv'
<1> DEFINE b == [byline[s] EXCEPT !.next = byline[s].next + 1,
                                  !.adding = byline[s].adding \cup ({NextKey(s)} \ authors)]
           keys == AuthorKeys(tx[s].paper)
<1>1. byline[s] \in Bylines /\ tx[s] \in Tx /\ pc[s] = "authors" /\ byline[s].next <= Len(keys)
  BY DEF AuthorInv, FlagInv, FlagTypes, AddAuthor
<1>2. keys \in Seq(AllKeys) /\ byline[s].next \in Nat \ {0}
  BY <1>1, KeysOfByline DEF Tx, AuthorInv, Gathers
<1>3. NextKey(s) = keys[byline[s].next] /\ NextKey(s) \in AllKeys
  <2> HIDE DEF keys
  <2>1. byline[s].next \in 1 .. Len(keys)
    BY <1>1, <1>2
  <2> QED
    BY <1>2, <2>1 DEF NextKey, keys
<1>4. /\ b \in Bylines /\ b.next = byline[s].next + 1
      /\ b.adding = byline[s].adding \cup ({NextKey(s)} \ authors)
  <2>1. PICK old \in Bylines, key \in AllKeys : old = byline[s] /\ key = NextKey(s)
    BY <1>1, <1>3
  <2>2. old.next + 1 \in Nat /\ old.adding \cup ({key} \ authors) \in SUBSET AllKeys
    BY DEF Bylines
  <2>3. b = [old EXCEPT !.next = old.next + 1, !.adding = old.adding \cup ({key} \ authors)]
    BY <2>1
  <2> HIDE DEF b
  <2> QED
    BY <2>1, <2>2, <2>3 DEF Bylines
<1>5. byline' = [byline EXCEPT ![s] = b]
  BY <1>1 DEF AddAuthor, AuthorInv, Bylines
<1> HIDE DEF b, keys
<1>6. /\ pc' = [pc EXCEPT ![s] = "authors"] /\ tx' = [tx EXCEPT ![s] = tx[s]] /\ UNCHANGED db
      /\ pc'[s] = "authors" /\ tx'[s] = tx[s] /\ byline'[s] = b /\ authors' = authors
  BY <1>1, <1>5 DEF AddAuthor, FlagInv, FlagTypes, AuthorInv, db
<1>7. ASSUME NEW i \in 1 .. Len(keys), i < b.next PROVE keys[i] \in authors \cup b.adding
  <2>1. CASE i = byline[s].next
    BY <1>3, <1>4, <2>1
  <2>2. CASE i < byline[s].next
    <3>1. keys[i] \in authors \cup byline[s].adding
      BY <1>1, <2>2 DEF AuthorInv, Gathers, keys
    <3> QED
      BY <1>4, <3>1
  <2>3. i = byline[s].next \/ i < byline[s].next
    BY <1>2, <1>4, <1>7
  <2> QED
    BY <2>1, <2>2, <2>3
<1>8. Gathers(s)'
  BY <1>2, <1>4, <1>6, <1>7 DEF Gathers, keys
<1> QED
  BY <1>1, <1>4, <1>5, <1>6, <1>8, OwnStep DEF Steps

LEMMA AuthorsAddedAuthors ==
    ASSUME FlagInv, AuthorInv, NEW s \in Sessions, AuthorsAdded(s)
    PROVE  AuthorInv'
<1>1. /\ pc' = [pc EXCEPT ![s] = "credits"] /\ UNCHANGED <<db, tx, byline>> /\ pc[s] = "authors"
      /\ byline[s].next > Len(AuthorKeys(tx[s].paper))
  BY DEF AuthorsAdded, Goto
<1>2. /\ tx' = [tx EXCEPT ![s] = tx[s]] /\ tx[s] \in Tx /\ pc'[s] = "credits"
      /\ byline' = [byline EXCEPT ![s] = byline[s]] /\ byline[s] \in Bylines
      /\ byline'[s] = byline[s] /\ tx'[s] = tx[s] /\ authors' = authors
  BY <1>1 DEF FlagInv, FlagTypes, AuthorInv, db
<1> DEFINE keys == AuthorKeys(tx[s].paper)
<1>3. keys \in Seq(AllKeys)
  BY <1>2, KeysOfByline DEF Tx
<1>4. byline[s].next \in Nat \ {0}
      /\ \A i \in 1 .. Len(keys) : i < byline[s].next => keys[i] \in authors \cup byline[s].adding
  BY <1>1 DEF AuthorInv, Gathers
<1>5. \A i \in 1 .. Len(keys) : keys[i] \in authors \cup byline[s].adding
  <2> HIDE DEF keys
  <2>1. \A i \in 1 .. Len(keys) : i < byline[s].next
    BY <1>1, <1>3, <1>4 DEF keys
  <2> QED
    BY <1>4, <2>1
<1>6. Gathers(s)'
  BY <1>2, <1>5 DEF Gathers
<1> QED
  BY <1>1, <1>2, <1>6, OwnStep DEF Steps

\* Every key is found, whoever committed its row: the credits are complete.
LEMMA CreditAuthors ==
    ASSUME FlagInv, AuthorInv, NEW s \in Sessions, Credit(s)
    PROVE  AuthorInv'
<1> DEFINE keys == AuthorKeys(tx[s].paper)
           b == [byline[s] EXCEPT !.credit = keys]
<1>1. /\ pc' = [pc EXCEPT ![s] = "commit"] /\ UNCHANGED <<db, tx>> /\ pc[s] = "credits"
      /\ byline' = [byline EXCEPT ![s].credit = Only(keys, Found(s))]
  BY DEF Credit, Goto
<1>2. byline[s] \in Bylines /\ tx[s] \in Tx
  BY DEF FlagInv, FlagTypes, AuthorInv
<1>3. keys \in Seq(AllKeys)
  BY <1>2, KeysOfByline DEF Tx
<1>4. \A i \in 1 .. Len(keys) : keys[i] \in Found(s)
  BY <1>1 DEF AuthorInv, Gathers, Found
<1>5. Only(keys, Found(s)) = keys
  <2> HIDE DEF keys
  <2> QED
    BY <1>3, <1>4, OnlyMembers
<1>6. byline' = [byline EXCEPT ![s] = b]
  BY <1>1, <1>2, <1>5 DEF AuthorInv, Bylines
<1>7. b \in Bylines /\ b.credit = keys /\ b.adding = byline[s].adding
  BY <1>2, <1>3 DEF Bylines
<1> HIDE DEF b
<1>8. /\ tx' = [tx EXCEPT ![s] = tx[s]] /\ pc'[s] = "commit"
      /\ byline'[s] = b /\ tx'[s] = tx[s] /\ authors' = authors
  BY <1>1, <1>2, <1>6 DEF FlagInv, FlagTypes, AuthorInv, db
<1>9. Gathers(s)'
  BY <1>4, <1>7, <1>8 DEF Gathers, Found
<1> QED
  BY <1>1, <1>2, <1>6, <1>7, <1>8, <1>9, OwnStep DEF Steps

LEMMA RollBackAuthors ==
    ASSUME FlagInv, AuthorInv, NEW s \in Sessions, RollBack(s)
    PROVE  AuthorInv'
<1>1. /\ pc' = [pc EXCEPT ![s] = "idle"] /\ tx' = [tx EXCEPT ![s] = NoTx]
      /\ byline' = [byline EXCEPT ![s] = NoByline] /\ UNCHANGED db
  BY DEF RollBack, Finish, Goto
<1> QED
  BY <1>1, NoTxType, BlankStep

LEMMA CommitAuthors ==
    ASSUME FlagInv, AuthorInv, NEW s \in Sessions, Commit(s)
    PROVE  AuthorInv'
<1>1. /\ pc[s] = "commit" /\ rows' = rows \cup {tx[s].paper}
      /\ authors' = authors \cup byline[s].adding
      /\ credits' = [credits EXCEPT ![tx[s].paper] = byline[s].credit]
      /\ pc' = [pc EXCEPT ![s] = "idle"] /\ tx' = [tx EXCEPT ![s] = NoTx]
      /\ byline' = [byline EXCEPT ![s] = NoByline]
  BY DEF Commit, Finish, Goto
<1>2. tx[s].paper \in Listing /\ byline[s].credit \in Seq(AllKeys) /\ rows \subseteq Listing
  BY DEF FlagInv, FlagTypes, Tx, AuthorInv, Bylines
<1>3. byline[s].credit = AuthorKeys(tx[s].paper)
  BY <1>1 DEF AuthorInv, Gathers
<1>4. byline' \in [Sessions -> Bylines] /\ credits' \in [Listing -> Seq(AllKeys)]
  BY <1>1, <1>2, NoBylineType DEF AuthorInv
<1>5. \A p \in rows' : credits'[p] = AuthorKeys(p)
  BY <1>1, <1>2, <1>3 DEF AuthorInv
<1>6. ASSUME NEW q \in Sessions PROVE Gathers(q)'
  <2>1. CASE q = s
    <3>1. pc'[s] = "idle" /\ byline'[s] = NoByline
      BY <1>1 DEF FlagInv, FlagTypes, AuthorInv
    <3> QED
      BY <2>1, <3>1 DEF Gathers
  <2>2. CASE q # s
    <3>1. pc'[q] = pc[q] /\ tx'[q] = tx[q] /\ byline'[q] = byline[q]
      BY <1>1, <2>2 DEF FlagInv, FlagTypes, AuthorInv
    <3> QED
      BY <1>1, <3>1, GathersStays
  <2> QED
    BY <2>1, <2>2
<1> QED
  BY <1>4, <1>5, <1>6 DEF AuthorInv

LEMMA NextAuthorInv == FlagInv /\ FlagInv' /\ AuthorInv /\ [Next]_vars => AuthorInv'
<1> SUFFICES ASSUME FlagInv, FlagInv', AuthorInv, [Next]_vars PROVE AuthorInv'
  OBVIOUS
<1>1. CASE UNCHANGED vars
  BY <1>1 DEF vars, db, AuthorInv, Gathers
<1>2. ASSUME NEW s \in Sessions, InsertConflict(s) \/ DeadlockAbort(s) \/ Crash(s)
      PROVE  AuthorInv'
  BY <1>2, RollBackAuthors DEF InsertConflict, DeadlockAbort, Crash
<1> QED
  BY <1>1, <1>2, VersionStepAuthors, InsertAuthors, AddAuthorAuthors, AuthorsAddedAuthors,
     CreditAuthors, CommitAuthors DEF Next, Statement

\* Every stored version names everybody with a name, once, in the order of the
\* first mention, whoever stored the authors' rows (get_or_create_authors).
THEOREM AuthorsAreComplete == Spec => []AuthorsComplete
<1>1. ASSUME FlagInv, AuthorInv PROVE AuthorsComplete
  <2> SUFFICES ASSUME NEW p \in rows
               PROVE
        LET First(key) == CHOOSE i \in DOMAIN NamesOf[p] :
                            /\ KeyOf[NamesOf[p][i]] = key
                            /\ \A j \in 1 .. i - 1 : KeyOf[NamesOf[p][j]] # key
        IN  /\ ToSet(credits[p]) = {KeyOf[n] : n \in ToSet(NamesOf[p])} \ {NoKey}
            /\ \A i, j \in DOMAIN credits[p] :
                   i < j => First(credits[p][i]) < First(credits[p][j])
    BY DEF AuthorsComplete
  <2> DEFINE keys == credits[p]
             First(key) == CHOOSE i \in DOMAIN NamesOf[p] :
                            /\ KeyOf[NamesOf[p][i]] = key
                            /\ \A j \in 1 .. i - 1 : KeyOf[NamesOf[p][j]] # key
  <2>1. p \in Listing /\ keys = AuthorKeys(p)
    BY <1>1 DEF FlagInv, FlagTypes, AuthorInv
  <2>2. /\ keys \in Seq(AllKeys) /\ DOMAIN keys = 1 .. Len(keys)
        /\ Mentions(keys, p, Len(NamesOf[p]))
    BY <2>1, KeysOfByline
  <2>3. DOMAIN NamesOf[p] = 1 .. Len(NamesOf[p])
    BY <2>1, VersionsAssumption
  <2> HIDE DEF keys
  <2>4. ToSet(keys) = {KeyOf[n] : n \in ToSet(NamesOf[p])} \ {NoKey}
    BY <2>2, <2>3 DEF Mentions, ToSet
  <2>5. ASSUME NEW i \in DOMAIN keys
        PROVE  First(keys[i]) \in 1 .. Len(NamesOf[p]) /\ IsFirst(p, keys[i], First(keys[i]))
    <3>1. \E m \in DOMAIN NamesOf[p] :
             /\ KeyOf[NamesOf[p][m]] = keys[i]
             /\ \A j \in 1 .. m - 1 : KeyOf[NamesOf[p][j]] # keys[i]
      BY <2>2, <2>3 DEF Mentions, IsFirst
    <3> QED
      BY <2>3, <3>1 DEF IsFirst
  <2> HIDE DEF First
  <2>6. \A i, j \in DOMAIN keys : i < j => First(keys[i]) < First(keys[j])
    BY <2>2, <2>5 DEF Mentions
  <2> QED
    BY <2>4, <2>6 DEF keys, First
<1> QED
  BY <1>1, InitFlagInv, NextFlagInv, InitAuthorInv, NextAuthorInv, PTL DEF Spec

=============================================================================
