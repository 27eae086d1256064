----------------------------- MODULE ChangeFeed -----------------------------
(***************************************************************************)
(* The server's change feed and the phones that follow it.                 *)
(*                                                                         *)
(* Server: every write to the docs table happens in a transaction that     *)
(* first takes one advisory lock (pgTx.LockWrites), reads the documents it *)
(* decides on (Get), and gives each one it stores the next value of        *)
(* change_version_seq (Put). One transaction may write several documents   *)
(* (ForgetUser, RedeemClaimLink). A rollback loses its rows, never the     *)
(* sequence values it took.                                                *)
(*                                                                         *)
(* Phone: a pull reads one page of rows with version > cursor, merges it   *)
(* into the local store, and only then saves the page's last version as    *)
(* the cursor. The phone may be killed, or lose the answer, at any point.  *)
(* A build that can read more kinds of document (PULL_KINDS_VERSION) asks  *)
(* once more from 0.                                                       *)
(*                                                                         *)
(* A document is its version here: what is in it does not matter to the    *)
(* feed. Every phone is a member of every league (joining and leaving a    *)
(* league change what a pull covers: not in this module).                  *)
(***************************************************************************)
EXTENDS Naturals, FiniteSets

CONSTANTS
    Docs,           \* documents, tombstones included
    OptInDocs,      \* documents of the kinds in optInEntities (group_match)
    Txns,           \* write transactions that may be open at the same time
    Phones,
    PageSize,       \* documents per pull page (500 in the app)
    MaxSeq          \* bound: values taken from change_version_seq

ASSUME ChangeFeedAssumption ==
    /\ IsFiniteSet(Docs)
    /\ OptInDocs \subseteq Docs
    /\ PageSize \in Nat \ {0}
    /\ MaxSeq \in Nat

VARIABLES
    versionOf,      \* docs.version of each committed row, 0 when there is none
    seq,            \* change_version_seq: the last value handed out
    tx,             \* state of each transaction
    loaded,         \* loaded[t]: the documents transaction t has read
    base,           \* base[t][d]: the version of d that t read
    put,            \* put[t][d]: version t gave d, not yet committed; 0 if none
    newBuild,       \* newBuild[p]: the app on p can read the opt-in kinds
    kindsPulled,    \* kindsPulled[p]: pullKindsVersion is up to date on p
    cursor,         \* syncCursor of each phone
    known,          \* known[p][d]: version of p's copy of d, 0 if none
    page            \* page[p]: the answer p's pull is working on

serverVars == <<versionOf, seq, tx, loaded, base, put>>
phoneVars  == <<newBuild, kindsPulled, cursor, known, page>>
vars       == <<serverVars, phoneVars>>

TxStates == {"none", "open", "locked"}
Nothing  == [d \in Docs |-> 0]

\* A page holds the version of each document in it, 0 for the others.
NoPage == [state |-> "none", version |-> Nothing, upTo |-> 0]

-----------------------------------------------------------------------------
(***************************************************************************)
(* Faulty forms of the operations below, each a slip somebody could make.  *)
(* Every property is tried against one of them and must notice it.         *)
(***************************************************************************)

\* The advisory lock does not keep a second writer waiting.
LockWrites_NoWait(t) ==
    /\ tx[t] = "open"
    /\ tx' = [tx EXCEPT ![t] = "locked"]
    /\ UNCHANGED <<versionOf, seq, loaded, base, put, phoneVars>>

\* The document is read before the lock is taken.
Get_BeforeLock(t, d) ==
    /\ tx[t] # "none"
    /\ d \notin loaded[t]
    /\ loaded' = [loaded EXCEPT ![t] = @ \cup {d}]
    /\ base' = [base EXCEPT ![t][d] = versionOf[d]]
    /\ UNCHANGED <<versionOf, seq, tx, put, phoneVars>>

\* The number is computed from the last one instead of taken from the sequence.
Put_NoSequence(t, d) ==
    /\ tx[t] = "locked"
    /\ d \in loaded[t]
    /\ put[t][d] = 0
    /\ seq < MaxSeq
    /\ put' = [put EXCEPT ![t][d] = seq + 1]
    /\ UNCHANGED <<versionOf, seq, tx, loaded, base, phoneVars>>

\* The new build notes that it pulls the new kinds but keeps its cursor.
RestartPullForNewKinds_KeepCursor(p) ==
    /\ newBuild[p]
    /\ ~kindsPulled[p]
    /\ page[p] = NoPage
    /\ kindsPulled' = [kindsPulled EXCEPT ![p] = TRUE]
    /\ UNCHANGED <<serverVars, newBuild, cursor, known, page>>

\* The cursor is saved as soon as the page arrives, before it is merged.
SaveCursor_BeforeMerge(p) ==
    /\ page[p].state # "none"
    /\ cursor' = [cursor EXCEPT ![p] =
                    IF @ >= page[p].upTo THEN @ ELSE page[p].upTo]
    /\ page' = [page EXCEPT ![p] = NoPage]
    /\ UNCHANGED <<serverVars, newBuild, kindsPulled, known>>

-----------------------------------------------------------------------------
(***************************************************************************)
(* Write transactions                                                      *)
(***************************************************************************)

Begin(t) ==
    /\ tx[t] = "none"
    /\ tx' = [tx EXCEPT ![t] = "open"]
    /\ UNCHANGED <<versionOf, seq, loaded, base, put, phoneVars>>

\* pg_advisory_xact_lock: waits until no other transaction holds it.
LockWrites(t) ==
    /\ tx[t] = "open"
    /\ \A u \in Txns : tx[u] # "locked"
    /\ tx' = [tx EXCEPT ![t] = "locked"]
    /\ UNCHANGED <<versionOf, seq, loaded, base, put, phoneVars>>

\* A statement sees the rows committed before it: READ COMMITTED.
Get(t, d) ==
    /\ tx[t] = "locked"
    /\ d \notin loaded[t]
    /\ loaded' = [loaded EXCEPT ![t] = @ \cup {d}]
    /\ base' = [base EXCEPT ![t][d] = versionOf[d]]
    /\ UNCHANGED <<versionOf, seq, tx, put, phoneVars>>

Put(t, d) ==
    /\ tx[t] = "locked"
    /\ d \in loaded[t]
    /\ put[t][d] = 0
    /\ seq < MaxSeq
    /\ seq' = seq + 1
    /\ put' = [put EXCEPT ![t][d] = seq + 1]
    /\ UNCHANGED <<versionOf, tx, loaded, base, phoneVars>>

\* The transaction is over: its lock and its private rows are gone.
EndTx(t) ==
    /\ tx' = [tx EXCEPT ![t] = "none"]
    /\ loaded' = [loaded EXCEPT ![t] = {}]
    /\ base' = [base EXCEPT ![t] = Nothing]
    /\ put' = [put EXCEPT ![t] = Nothing]
    /\ UNCHANGED <<seq, phoneVars>>

\* Every row of the transaction becomes visible at once. A transaction that
\* refused its operation commits without rows.
Commit(t) ==
    /\ tx[t] = "locked"
    /\ versionOf' = [d \in Docs |->
                        IF put[t][d] # 0 THEN put[t][d] ELSE versionOf[d]]
    /\ EndTx(t)

\* An error, a cancelled request or a crashed server.
Rollback(t) ==
    /\ tx[t] \in {"open", "locked"}
    /\ UNCHANGED versionOf
    /\ EndTx(t)

-----------------------------------------------------------------------------
(***************************************************************************)
(* Pulls                                                                   *)
(***************************************************************************)

\* The kinds a phone lists in its pulls.
Asked(p) == IF newBuild[p] THEN Docs ELSE Docs \ OptInDocs

\* Rows of the pull query before LIMIT.
Changed(p) == {d \in Asked(p) : versionOf[d] > cursor[p]}

\* ORDER BY version LIMIT: the PageSize oldest changes.
FirstPage(p) ==
    {d \in Changed(p) :
        Cardinality({e \in Changed(p) : versionOf[e] < versionOf[d]}) < PageSize}

\* pullAll on a build whose PULL_KINDS_VERSION is above the stored one.
RestartPullForNewKinds(p) ==
    /\ newBuild[p]
    /\ ~kindsPulled[p]
    /\ page[p] = NoPage
    /\ cursor' = [cursor EXCEPT ![p] = 0]
    /\ kindsPulled' = [kindsPulled EXCEPT ![p] = TRUE]
    /\ UNCHANGED <<serverVars, newBuild, known, page>>

\* The server answers a pull from one snapshot of the table. The next cursor
\* is the version of the page's last row. (A pull that finds nothing changes
\* nothing: not a step.)
PullPage(p) ==
    /\ page[p] = NoPage
    /\ newBuild[p] => kindsPulled[p]
    /\ \E last \in FirstPage(p) :
          /\ \A d \in FirstPage(p) : versionOf[d] <= versionOf[last]
          /\ page' = [page EXCEPT ![p] =
                [state |-> "received",
                 version |-> [d \in Docs |->
                                IF d \in FirstPage(p) THEN versionOf[d] ELSE 0],
                 upTo |-> versionOf[last]]]
    /\ UNCHANGED <<serverVars, newBuild, kindsPulled, cursor, known>>

ApplyServerDocs(p) ==
    /\ page[p].state = "received"
    /\ known' = [known EXCEPT ![p] =
                    [d \in Docs |-> IF page[p].version[d] # 0
                                    THEN page[p].version[d] ELSE @[d]]]
    /\ page' = [page EXCEPT ![p].state = "applied"]
    /\ UNCHANGED <<serverVars, newBuild, kindsPulled, cursor>>

SaveCursor(p) ==
    /\ page[p].state = "applied"
    /\ cursor' = [cursor EXCEPT ![p] =
                    IF @ >= page[p].upTo THEN @ ELSE page[p].upTo]
    /\ page' = [page EXCEPT ![p] = NoPage]
    /\ UNCHANGED <<serverVars, newBuild, kindsPulled, known>>

\* The answer is lost, or the app is killed before the cursor is saved.
LosePage(p) ==
    /\ page[p] # NoPage
    /\ page' = [page EXCEPT ![p] = NoPage]
    /\ UNCHANGED <<serverVars, newBuild, kindsPulled, cursor, known>>

\* The user installs a build that can read the opt-in kinds and starts it.
InstallNewBuild(p) ==
    /\ ~newBuild[p]
    /\ newBuild' = [newBuild EXCEPT ![p] = TRUE]
    /\ page' = [page EXCEPT ![p] = NoPage]
    /\ UNCHANGED <<serverVars, kindsPulled, cursor, known>>

-----------------------------------------------------------------------------

Init ==
    /\ versionOf = Nothing
    /\ seq = 0
    /\ tx = [t \in Txns |-> "none"]
    /\ loaded = [t \in Txns |-> {}]
    /\ base = [t \in Txns |-> Nothing]
    /\ put = [t \in Txns |-> Nothing]
    /\ newBuild \in [Phones -> BOOLEAN]
    /\ kindsPulled = [p \in Phones |-> FALSE]
    /\ cursor = [p \in Phones |-> 0]
    /\ known = [p \in Phones |-> Nothing]
    /\ page = [p \in Phones |-> NoPage]

TxStep(t) ==
    \/ Begin(t) \/ LockWrites(t) \/ Commit(t) \/ Rollback(t)
    \/ \E d \in Docs : Get(t, d) \/ Put(t, d)

PhoneStep(p) ==
    \/ RestartPullForNewKinds(p) \/ PullPage(p) \/ ApplyServerDocs(p)
    \/ SaveCursor(p) \/ LosePage(p) \/ InstallNewBuild(p)

Next ==
    \/ \E t \in Txns : TxStep(t)
    \/ \E p \in Phones : PhoneStep(p)

Spec == Init /\ [][Next]_vars

\* An open app pulls again every ten seconds (watch.ts), so a pull that can
\* run does. Answers may be lost and the app may be killed again and again,
\* but not every time: strong fairness on the steps that use an answer.
\* Writers and users owe the feed nothing.
PullFairness ==
    \A p \in Phones :
        /\ WF_vars(RestartPullForNewKinds(p))
        /\ WF_vars(PullPage(p))
        /\ SF_vars(ApplyServerDocs(p))
        /\ SF_vars(SaveCursor(p))

FairSpec == Spec /\ PullFairness

-----------------------------------------------------------------------------
(***************************************************************************)
(* Properties                                                              *)
(***************************************************************************)

PageType ==
    [state : {"none", "received", "applied"}, version : [Docs -> Nat], upTo : Nat]

\* Types, and no version anywhere above the sequence that hands them out.
TypeOK ==
    /\ versionOf \in [Docs -> Nat]
    /\ seq \in Nat
    /\ tx \in [Txns -> TxStates]
    /\ loaded \in [Txns -> SUBSET Docs]
    /\ base \in [Txns -> [Docs -> Nat]]
    /\ put \in [Txns -> [Docs -> Nat]]
    /\ newBuild \in [Phones -> BOOLEAN]
    /\ kindsPulled \in [Phones -> BOOLEAN]
    /\ cursor \in [Phones -> Nat]
    /\ known \in [Phones -> [Docs -> Nat]]
    /\ page \in [Phones -> PageType]
    /\ \A d \in Docs : versionOf[d] <= seq
    /\ \A t \in Txns, d \in Docs : put[t][d] <= seq

\* The kinds a phone's cursor speaks for: those of the build that moved it.
Covered(p) == IF kindsPulled[p] THEN Docs ELSE Docs \ OptInDocs

\* "a pull can never skip a slow transaction" (00002_sync.sql): whatever the
\* interleaving of writers, rollbacks, pages and lost answers, a phone holds
\* the current copy of every document whose last change is not above its
\* cursor. Nothing below the cursor is ever sent again, so a document missed
\* here would be missing for good.
NoChangeSkipped ==
    \A p \in Phones : \A d \in Covered(p) :
        versionOf[d] <= cursor[p] => known[p][d] = versionOf[d]

\* "versions become visible in order" (00002_sync.sql): a commit shows only
\* versions above every version readers could already see.
VisibleInOrder ==
    [][\A d \in Docs : versionOf'[d] # versionOf[d] =>
          \A e \in Docs : versionOf[e] < versionOf'[d]]_vars

\* The base-version check of service.go decides on the row it read; the row
\* must still be that one when the decision is committed, or two phones edit
\* "the same item from the same starting point and one would silently erase
\* the other".
DecidedOnCurrent ==
    \A t \in Txns : \A d \in loaded[t] : base[t][d] = versionOf[d]

\* A committed change reaches every phone whose build can read it, although
\* answers get lost, the app is killed, and kinds are added between builds.
ChangeReachesPhone ==
    \A p \in Phones, d \in Docs, v \in 1..MaxSeq :
        (d \in Asked(p) /\ versionOf[d] = v) ~> (known[p][d] >= v)

\* The abstract feed this one implements.
Feed == INSTANCE OrderedFeed WITH
            latest <- versionOf,
            held <- known,
            wanted <- [p \in Phones |-> Covered(p)]

ImplementsOrderedFeed == Feed!Spec

=============================================================================
