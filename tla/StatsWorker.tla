---------------------------- MODULE StatsWorker ----------------------------
(***************************************************************************)
(* Standings are computed by a worker in the background. A write of a      *)
(* league's documents puts the league into stats_dirty in its own          *)
(* transaction; the worker takes some leagues off that queue, loads the    *)
(* documents of each, replaces its standings and, for a city hub, sets the *)
(* public rank of its people one call at a time.                           *)
(*                                                                         *)
(* What standings and ranks were computed from is the number of the last   *)
(* change of the league they saw. The order by marked_at is left out: any  *)
(* leagues of the queue may be taken. There is one worker, as deployed.    *)
(***************************************************************************)
EXTENDS Naturals, FiniteSets, FiniteSetsExt

CONSTANTS
    Leagues,
    Hubs,           \* the leagues that are city hubs
    BatchSize,      \* batchSize
    MaxChanges,     \* bound: changes of a league
    MaxFaults       \* bound: failed steps of the worker, and restarts

ASSUME StatsAssumption ==
    /\ IsFiniteSet(Leagues)
    /\ Hubs \subseteq Leagues
    /\ BatchSize \in Nat \ {0}
    /\ MaxChanges \in Nat
    /\ MaxFaults \in Nat

VARIABLES
    changes,        \* changes[l]: committed changes of l's documents
    writing,        \* the write transaction that holds the lock, in a set
    dirty,          \* stats_dirty
    claimed,        \* leagues of the claimed batch not reached yet
    current,        \* the league being recomputed, in a set
    step,           \* what recompute does next
    loaded,         \* the change the loaded documents include
    standings,      \* standings[l]: the change the standings were made from
    ranks,          \* ranks[l]: the same of the public ranks of a hub
    dropped,        \* leagues whose mark was lost on the way (history)
    faultsOfWorker

statsVars == <<changes, writing, dirty, claimed, current, step, loaded,
               standings, ranks, dropped, faultsOfWorker>>
workerVars == <<claimed, current, step, loaded, standings, ranks>>

StatsTypeOK ==
    /\ changes \in [Leagues -> 0..MaxChanges]
    /\ writing \in SUBSET [league : Leagues, inserted : BOOLEAN]
    /\ Cardinality(writing) <= 1
    /\ dirty \subseteq Leagues
    /\ claimed \subseteq Leagues
    /\ current \subseteq claimed
    /\ Cardinality(current) <= 1
    /\ step \in {"load", "save", "rank"}
    /\ loaded \in 0..MaxChanges
    /\ standings \in [Leagues -> 0..MaxChanges]
    /\ ranks \in [Leagues -> 0..MaxChanges]
    /\ dropped \subseteq Leagues
    /\ faultsOfWorker \in 0..MaxFaults

StatsInit ==
    /\ changes = [l \in Leagues |-> 0]
    /\ writing = {}
    /\ dirty = {}
    /\ claimed = {}
    /\ current = {}
    /\ step = "load"
    /\ loaded = 0
    /\ standings = [l \in Leagues |-> 0]
    /\ ranks = [l \in Leagues |-> 0]
    /\ dropped = {}
    /\ faultsOfWorker = 0

-----------------------------------------------------------------------------
\* Faulty forms of definitions below, each a slip somebody could make.

\* A failed league is logged and forgotten.
BackOnQueue_Never(l) == {}

\* The batch is full or it is not worth a pass.
BatchOf_OnlyFull == kSubset(BatchSize, dirty)

-----------------------------------------------------------------------------
(***************************************************************************)
(* Writers                                                                 *)
(***************************************************************************)

\* Put and MarkDirty of a write. A league that is queued already gets no new
\* row, and the row that is there is not locked.
BeginWrite(l) ==
    /\ writing = {}
    /\ changes[l] < MaxChanges
    /\ writing' = {[league |-> l, inserted |-> l \notin dirty]}
    /\ UNCHANGED <<changes, dirty, workerVars, dropped, faultsOfWorker>>

\* The change and its mark become visible together. The mark is lost when it
\* was the row of an earlier change, taken off the queue in the meantime, and
\* the worker has loaded the documents without this change.
CommitWrite ==
    \E w \in writing :
        /\ changes' = [changes EXCEPT ![w.league] = @ + 1]
        /\ writing' = {}
        /\ dirty' = IF w.inserted THEN dirty \union {w.league} ELSE dirty
        /\ dropped' = IF w.league \in dirty' \union (claimed \ current)
                      THEN dropped \ {w.league}
                      ELSE dropped \union {w.league}
        /\ UNCHANGED <<workerVars, faultsOfWorker>>

AbortWrite ==
    /\ writing # {}
    /\ writing' = {}
    /\ UNCHANGED <<changes, dirty, workerVars, dropped, faultsOfWorker>>

-----------------------------------------------------------------------------
(***************************************************************************)
(* The worker                                                              *)
(***************************************************************************)

BatchOf == kSubset(IF BatchSize < Cardinality(dirty)
                   THEN BatchSize ELSE Cardinality(dirty), dirty)

ClaimDirty ==
    /\ claimed = {}
    /\ dirty # {}
    /\ claimed' \in BatchOf
    /\ dirty' = dirty \ claimed'
    /\ UNCHANGED <<changes, writing, current, step, loaded, standings, ranks,
                   dropped, faultsOfWorker>>

\* The next league of the batch. One that is gone is loaded as empty and its
\* standings are replaced by none, which the model does not tell apart.
Load(l) ==
    /\ l \in claimed
    /\ current = {}
    /\ current' = {l}
    /\ loaded' = changes[l]
    /\ step' = "save"
    /\ UNCHANGED <<changes, writing, dirty, claimed, standings, ranks, dropped,
                   faultsOfWorker>>

\* Replace is one transaction. A league that is no hub is done with it.
Replace ==
    /\ step = "save"
    /\ \E l \in current :
        /\ standings' = [standings EXCEPT ![l] = loaded]
        /\ IF l \in Hubs
           THEN /\ step' = "rank"
                /\ UNCHANGED <<claimed, current>>
           ELSE /\ step' = "load"
                /\ claimed' = claimed \ {l}
                /\ current' = {}
    /\ UNCHANGED <<changes, writing, dirty, loaded, ranks, dropped,
                   faultsOfWorker>>

SetCityRanks ==
    /\ step = "rank"
    /\ \E l \in current :
        /\ ranks' = [ranks EXCEPT ![l] = loaded]
        /\ claimed' = claimed \ {l}
    /\ current' = {}
    /\ step' = "load"
    /\ UNCHANGED <<changes, writing, dirty, loaded, standings, dropped,
                   faultsOfWorker>>

\* What goes back on the queue when the league fails.
BackOnQueue(l) == {l}

EndPass ==
    /\ claimed' = {}
    /\ current' = {}
    /\ step' = "load"
    /\ UNCHANGED <<loaded, standings, ranks>>
    /\ faultsOfWorker < MaxFaults
    /\ faultsOfWorker' = faultsOfWorker + 1

\* A league fails (load, save or a rank): it goes back on the queue and the
\* pass ends. The insert waits for one of the same row by an open write.
Fail(l) ==
    /\ l \in claimed
    /\ current \in {{}, {l}}
    /\ ~ \E w \in writing : w.league = l /\ w.inserted
    /\ dirty' = dirty \union BackOnQueue(l)
    /\ dropped' = (dropped \ {l}) \union ((claimed \ {l}) \ dirty)
    /\ EndPass
    /\ UNCHANGED <<changes, writing>>

\* The process ends, or the league fails and so does putting it back.
Restart ==
    /\ claimed # {}
    /\ dropped' = dropped \union (claimed \ dirty)
    /\ EndPass
    /\ UNCHANGED <<changes, writing, dirty>>

-----------------------------------------------------------------------------
StatsNext ==
    \/ \E l \in Leagues : BeginWrite(l) \/ Load(l) \/ Fail(l)
    \/ CommitWrite
    \/ AbortWrite
    \/ ClaimDirty
    \/ Replace
    \/ SetCityRanks
    \/ Restart

\* The worker runs every three seconds and goes on until the queue is empty.
\* Nobody has to write, and an open write ends one way or the other.
StatsFairness ==
    /\ WF_statsVars(CommitWrite \/ AbortWrite)
    /\ WF_statsVars(ClaimDirty \/ (\E l \in Leagues : Load(l)) \/ Replace
                        \/ SetCityRanks)

StatsSpec == StatsInit /\ [][StatsNext]_statsVars /\ StatsFairness

-----------------------------------------------------------------------------
(***************************************************************************)
(* Properties                                                              *)
(***************************************************************************)

InDate(l) == standings[l] = changes[l] /\ (l \in Hubs => ranks[l] = changes[l])

\* The worker still has to load l, or holds its present documents.
Owed(l) ==
    \/ l \in dirty
    \/ l \in claimed /\ (l \in current => loaded = changes[l])

\* Standings and ranks that miss a change are owed a recomputation that will
\* see it: the mark is in the queue or the worker is on its way. The exceptions
\* are the leagues of "dropped": the rest of a batch whose first league failed,
\* a batch a restart interrupted, a mark that was taken between being found in
\* the queue and the commit of its write (worker.go:199, pgrepo.go:283).
StaleIsOwed == \A l \in Leagues : InDate(l) \/ Owed(l) \/ l \in dropped

\* When writes have ended, every league's standings and ranks come to show all
\* of its changes, unless its mark was lost (worker.go:170-217).
StandingsCatchUp == \A l \in Leagues : <>[](InDate(l) \/ l \in dropped)

============================================================================
