---------------------------- MODULE ServerProofs ----------------------------
(***************************************************************************)
(* Proofs about three parts of the server: what the stats worker owes, for *)
(* any leagues, hubs and size of a batch; what the watchers of a match     *)
(* come to see, for any number of watchers, saves and connections that     *)
(* break; and what a refresh under way may do to a session, for any number *)
(* of refreshes.                                                           *)
(***************************************************************************)
EXTENDS StatsWorker, LiveHub, Sessions, TLAPS

-----------------------------------------------------------------------------
(***************************************************************************)
(* The stats worker                                                        *)
(***************************************************************************)

\* The parts of the type the argument needs. One league at most is current,
\* and it is of the claimed batch.
WorkerTypes ==
    /\ changes \in [Leagues -> Nat]
    /\ standings \in [Leagues -> Nat]
    /\ ranks \in [Leagues -> Nat]
    /\ loaded \in Nat
    /\ dirty \subseteq Leagues
    /\ claimed \subseteq Leagues
    /\ current \subseteq claimed
    /\ \A k, l \in current : k = l
    /\ \A w \in writing : w.league \in Leagues

\* Nothing shows a change that was not made, and what is loaded is no older than
\* what is shown: replacing standings never takes a change away again.
NeverBackwards ==
    /\ \A l \in Leagues : standings[l] <= changes[l] /\ ranks[l] <= changes[l]
    /\ \A l \in current :
        /\ standings[l] <= loaded /\ ranks[l] <= loaded /\ loaded <= changes[l]
        /\ step = "rank" => standings[l] = loaded

OwedInv == WorkerTypes /\ NeverBackwards /\ StaleIsOwed

LEMMA OwedInvInit == StatsInit => OwedInv
BY DEF StatsInit, OwedInv, WorkerTypes, NeverBackwards, StaleIsOwed, InDate, Owed

\* A batch is taken from the queue.
LEMMA BatchFromQueue == ASSUME NEW batch \in BatchOf PROVE batch \subseteq dirty
BY DEF BatchOf, kSubset

\* An in-date league that is current has its present documents loaded.
LEMMA InDateLoaded ==
    ASSUME OwedInv, NEW l \in current, InDate(l)
    PROVE  loaded = changes[l]
BY DEF OwedInv, WorkerTypes, NeverBackwards, InDate

LEMMA CommitKeepsOwed == OwedInv /\ CommitWrite => OwedInv'
<1> SUFFICES ASSUME OwedInv, CommitWrite
             PROVE  OwedInv'
  OBVIOUS
<1> PICK w \in writing :
        /\ changes' = [changes EXCEPT ![w.league] = @ + 1]
        /\ writing' = {}
        /\ dirty' = IF w.inserted THEN dirty \union {w.league} ELSE dirty
        /\ dropped' = IF w.league \in dirty' \union (claimed \ current)
                      THEN dropped \ {w.league}
                      ELSE dropped \union {w.league}
        /\ UNCHANGED <<workerVars, faultsOfWorker>>
  BY DEF CommitWrite
<1>1. /\ UNCHANGED <<claimed, current, step, loaded, standings, ranks>>
      /\ w.league \in Leagues
  BY DEF workerVars, OwedInv, WorkerTypes
<1>2. changes' \in [Leagues -> Nat] /\ \A l \in Leagues : changes[l] <= changes'[l]
  BY <1>1 DEF OwedInv, WorkerTypes
<1>3. WorkerTypes'
  BY <1>1, <1>2 DEF OwedInv, WorkerTypes
<1>4. NeverBackwards'
  BY <1>1, <1>2, <1>3 DEF OwedInv, WorkerTypes, NeverBackwards
<1>5. StaleIsOwed'
  <2> SUFFICES ASSUME NEW l \in Leagues
               PROVE  InDate(l)' \/ Owed(l)' \/ l \in dropped'
    BY DEF StaleIsOwed
  <2>1. CASE l = w.league
    BY <1>1, <2>1 DEF Owed
  <2>2. CASE l # w.league
    <3>1. changes'[l] = changes[l]
      BY <2>2 DEF OwedInv, WorkerTypes
    <3>2. (l \in dropped => l \in dropped') /\ (l \in dirty => l \in dirty')
      BY <2>2
    <3> QED BY <1>1, <3>1, <3>2 DEF OwedInv, StaleIsOwed, InDate, Owed
  <2> QED BY <2>1, <2>2
<1> QED BY <1>3, <1>4, <1>5 DEF OwedInv

LEMMA ClaimKeepsOwed == OwedInv /\ ClaimDirty => OwedInv'
<1> SUFFICES ASSUME OwedInv, ClaimDirty
             PROVE  OwedInv'
  OBVIOUS
<1>1. /\ claimed' \subseteq dirty /\ dirty' = dirty \ claimed'
      /\ current = {} /\ current' = {}
      /\ UNCHANGED <<changes, writing, step, loaded, standings, ranks, dropped>>
  BY BatchFromQueue DEF ClaimDirty, OwedInv, WorkerTypes
<1>2. claimed = {}
  BY DEF ClaimDirty
<1> QED BY <1>1, <1>2 DEF OwedInv, WorkerTypes, NeverBackwards, StaleIsOwed, InDate, Owed

LEMMA LoadKeepsOwed == ASSUME NEW k \in Leagues, OwedInv, Load(k) PROVE OwedInv'
<1>1. /\ k \in claimed /\ current = {} /\ current' = {k}
      /\ loaded' = changes[k] /\ step' = "save"
      /\ UNCHANGED <<changes, writing, dirty, claimed, standings, ranks, dropped>>
  BY DEF Load
<1> QED BY <1>1 DEF OwedInv, WorkerTypes, NeverBackwards, StaleIsOwed, InDate, Owed

\* The current league is done with, its standings and ranks made from what was
\* loaded: it is in date, or what it was owed before it is owed still.
LEMMA DoneKeepsOwed ==
    ASSUME OwedInv, NEW k \in current,
           standings' \in [Leagues -> Nat], ranks' \in [Leagues -> Nat],
           \A l \in Leagues \ {k} : standings'[l] = standings[l] /\ ranks'[l] = ranks[l],
           standings'[k] = loaded, k \in Hubs => ranks'[k] = loaded,
           ranks'[k] \in {ranks[k], loaded},
           claimed' = claimed \ {k}, current' = {},
           UNCHANGED <<changes, writing, dirty, loaded, dropped>>
    PROVE  OwedInv'
<1>1. k \in Leagues /\ current = {k}
  BY DEF OwedInv, WorkerTypes
<1>2. WorkerTypes'
  BY <1>1 DEF OwedInv, WorkerTypes
<1>3. NeverBackwards'
  BY <1>1 DEF OwedInv, WorkerTypes, NeverBackwards
<1>4. StaleIsOwed'
  <2> SUFFICES ASSUME NEW l \in Leagues
               PROVE  InDate(l)' \/ Owed(l)' \/ l \in dropped'
    BY DEF StaleIsOwed
  <2>1. CASE l = k /\ loaded = changes[k]
    BY <1>1, <2>1 DEF InDate
  <2>2. CASE l = k /\ loaded # changes[k]
    <3>1. ~ InDate(k)
      BY <2>2, InDateLoaded
    <3> QED BY <1>1, <2>2, <3>1 DEF OwedInv, StaleIsOwed, Owed
  <2>3. CASE l # k
    BY <1>1, <2>3 DEF OwedInv, StaleIsOwed, InDate, Owed
  <2> QED BY <2>1, <2>2, <2>3
<1> QED BY <1>2, <1>3, <1>4 DEF OwedInv

LEMMA ReplaceKeepsOwed == OwedInv /\ Replace => OwedInv'
<1> SUFFICES ASSUME OwedInv, Replace
             PROVE  OwedInv'
  OBVIOUS
<1> PICK k \in current :
        /\ standings' = [standings EXCEPT ![k] = loaded]
        /\ IF k \in Hubs
           THEN /\ step' = "rank"
                /\ UNCHANGED <<claimed, current>>
           ELSE /\ step' = "load"
                /\ claimed' = claimed \ {k}
                /\ current' = {}
  BY DEF Replace
<1>1. UNCHANGED <<changes, writing, dirty, loaded, ranks, dropped>>
  BY DEF Replace
<1>2. k \in Leagues /\ current = {k} /\ k \in claimed
  BY DEF OwedInv, WorkerTypes
<1>3. /\ standings' \in [Leagues -> Nat] /\ standings'[k] = loaded
      /\ \A l \in Leagues \ {k} : standings'[l] = standings[l]
  BY <1>2 DEF OwedInv, WorkerTypes
<1>4. CASE k \notin Hubs
  BY <1>1, <1>2, <1>3, <1>4, DoneKeepsOwed DEF OwedInv, WorkerTypes
<1>5. CASE k \in Hubs
  <2>1. UNCHANGED <<claimed, current>>
    BY <1>5
  <2>2. WorkerTypes'
    BY <1>1, <1>3, <2>1 DEF OwedInv, WorkerTypes
  <2>3. NeverBackwards'
    BY <1>1, <1>2, <1>3, <2>1 DEF OwedInv, WorkerTypes, NeverBackwards
  <2>4. StaleIsOwed'
    <3> SUFFICES ASSUME NEW l \in Leagues
                 PROVE  InDate(l)' \/ Owed(l)' \/ l \in dropped'
      BY DEF StaleIsOwed
    <3>1. CASE l = k
      <4>1. InDate(k) => loaded = changes[k]
        BY InDateLoaded
      <4> QED BY <1>1, <1>2, <2>1, <3>1, <4>1 DEF OwedInv, StaleIsOwed, Owed
    <3>2. CASE l # k
      BY <1>1, <1>2, <1>3, <2>1, <3>2 DEF OwedInv, StaleIsOwed, InDate, Owed
    <3> QED BY <3>1, <3>2
  <2> QED BY <2>2, <2>3, <2>4 DEF OwedInv
<1> QED BY <1>4, <1>5

LEMMA RanksKeepOwed == OwedInv /\ SetCityRanks => OwedInv'
<1> SUFFICES ASSUME OwedInv, SetCityRanks
             PROVE  OwedInv'
  OBVIOUS
<1> PICK k \in current :
        /\ ranks' = [ranks EXCEPT ![k] = loaded]
        /\ claimed' = claimed \ {k}
  BY DEF SetCityRanks
<1>1. /\ step = "rank" /\ current' = {}
      /\ UNCHANGED <<changes, writing, dirty, loaded, standings, dropped>>
  BY DEF SetCityRanks
<1>2. k \in Leagues /\ standings[k] = loaded
  BY <1>1 DEF OwedInv, WorkerTypes, NeverBackwards
<1>3. /\ ranks' \in [Leagues -> Nat] /\ ranks'[k] = loaded
      /\ \A l \in Leagues \ {k} : ranks'[l] = ranks[l]
  BY <1>2 DEF OwedInv, WorkerTypes
<1> QED BY <1>1, <1>2, <1>3, DoneKeepsOwed DEF OwedInv, WorkerTypes

\* A pass that ends early forgets its batch, but what is still stale of it is
\* in the queue or noted as dropped.
LEMMA EndOfPassKeepsOwed ==
    ASSUME OwedInv, EndPass, UNCHANGED <<changes, writing>>,
           dirty \subseteq dirty', dirty' \subseteq Leagues,
           (dropped \union claimed) \ dirty' \subseteq dropped'
    PROVE  OwedInv'
<1>1. /\ claimed' = {} /\ current' = {} /\ step' = "load"
      /\ UNCHANGED <<loaded, standings, ranks>>
  BY DEF EndPass
<1>2. WorkerTypes'
  BY <1>1 DEF OwedInv, WorkerTypes
<1>3. NeverBackwards'
  BY <1>1 DEF OwedInv, NeverBackwards
<1>4. StaleIsOwed'
  BY <1>1 DEF OwedInv, StaleIsOwed, InDate, Owed
<1> QED BY <1>2, <1>3, <1>4 DEF OwedInv

LEMMA OwedInvStep == OwedInv /\ [StatsNext]_statsVars => OwedInv'
<1> SUFFICES ASSUME OwedInv, [StatsNext]_statsVars
             PROVE  OwedInv'
  OBVIOUS
<1>1. ASSUME NEW l \in Leagues, BeginWrite(l)
      PROVE  OwedInv'
  BY <1>1 DEF BeginWrite, workerVars, OwedInv, WorkerTypes, NeverBackwards,
              StaleIsOwed, InDate, Owed
<1>2. CASE CommitWrite
  BY <1>2, CommitKeepsOwed
<1>3. CASE AbortWrite
  BY <1>3 DEF AbortWrite, workerVars, OwedInv, WorkerTypes, NeverBackwards,
              StaleIsOwed, InDate, Owed
<1>4. CASE ClaimDirty
  BY <1>4, ClaimKeepsOwed
<1>5. ASSUME NEW l \in Leagues, Load(l)
      PROVE  OwedInv'
  BY <1>5, LoadKeepsOwed
<1>6. CASE Replace
  BY <1>6, ReplaceKeepsOwed
<1>7. CASE SetCityRanks
  BY <1>7, RanksKeepOwed
<1>8. ASSUME NEW l \in Leagues, Fail(l)
      PROVE  OwedInv'
  <2>1. /\ EndPass /\ UNCHANGED <<changes, writing>>
        /\ dirty \subseteq dirty' /\ dirty' \subseteq Leagues
        /\ (dropped \union claimed) \ dirty' \subseteq dropped'
    BY <1>8 DEF Fail, BackOnQueue, OwedInv, WorkerTypes
  <2> QED BY <2>1, EndOfPassKeepsOwed
<1>9. CASE Restart
  <2>1. /\ EndPass /\ UNCHANGED <<changes, writing>>
        /\ dirty \subseteq dirty' /\ dirty' \subseteq Leagues
        /\ (dropped \union claimed) \ dirty' \subseteq dropped'
    BY <1>9 DEF Restart, OwedInv, WorkerTypes
  <2> QED BY <2>1, EndOfPassKeepsOwed
<1>10. CASE UNCHANGED statsVars
  BY <1>10 DEF statsVars, OwedInv, WorkerTypes, NeverBackwards, StaleIsOwed,
               InDate, Owed
<1> QED BY <1>1, <1>2, <1>3, <1>4, <1>5, <1>6, <1>7, <1>8, <1>9, <1>10
        DEF StatsNext

\* Standings and ranks that miss a change are owed a recomputation that will see
\* it, or are one of the forgotten ones: the rest of a failed batch, a batch a
\* restart interrupted, a mark taken before its write (worker.go:196-238).
THEOREM StaleOwed == StatsSpec => []StaleIsOwed
<1>1. StatsInit => OwedInv
  BY OwedInvInit
<1>2. OwedInv /\ [StatsNext]_statsVars => OwedInv'
  BY OwedInvStep
<1>3. OwedInv => StaleIsOwed
  BY DEF OwedInv
<1> QED BY <1>1, <1>2, <1>3, PTL DEF StatsSpec

-----------------------------------------------------------------------------
(***************************************************************************)
(* Live watching                                                           *)
(***************************************************************************)

\* What an element of a row of copies is after one is added or taken off.
LEMMA AppendedCopies ==
    ASSUME NEW S, NEW q \in Seq(S), NEW v \in S
    PROVE  Append(q, v) \in Seq(S) /\ Range(Append(q, v)) = Range(q) \union {v}
<1>1. /\ Append(q, v) \in Seq(S) /\ Len(Append(q, v)) = Len(q) + 1
      /\ Append(q, v)[Len(q) + 1] = v
      /\ \A i \in 1..Len(q) : Append(q, v)[i] = q[i]
  OBVIOUS
<1>2. 1..Len(q) + 1 = (1..Len(q)) \union {Len(q) + 1}
  OBVIOUS
<1>3. DOMAIN q = 1..Len(q) /\ DOMAIN Append(q, v) = 1..(Len(q) + 1)
  BY <1>1
<1> QED BY <1>1, <1>2, <1>3 DEF Range

LEMMA TakenCopies ==
    ASSUME NEW S, NEW q \in Seq(S), q # <<>>
    PROVE  /\ Head(q) \in S /\ Tail(q) \in Seq(S)
           /\ Range(q) = {Head(q)} \union Range(Tail(q))
<1>1. /\ Len(q) \in Nat \ {0} /\ Head(q) = q[1] /\ Tail(q) \in Seq(S)
      /\ Len(Tail(q)) = Len(q) - 1
      /\ \A i \in 1..(Len(q) - 1) : Tail(q)[i] = q[i + 1]
  OBVIOUS
<1>2. DOMAIN q = 1..Len(q) /\ DOMAIN Tail(q) = 1..(Len(q) - 1)
  BY <1>1
<1>3. \A j \in 1..Len(q) : j = 1 \/ (j - 1 \in 1..(Len(q) - 1) /\ q[j] = Tail(q)[j - 1])
  BY <1>1
<1>4. q[1] \in S /\ 1 \in DOMAIN q
  BY <1>1, <1>2
<1>5. \A i \in 1..(Len(q) - 1) : i + 1 \in DOMAIN q
  BY <1>1, <1>2
<1>6. Range(q) \subseteq {Head(q)} \union Range(Tail(q))
  <2> SUFFICES ASSUME NEW j \in 1..Len(q)
               PROVE  q[j] \in {Head(q)} \union Range(Tail(q))
    BY <1>2 DEF Range
  <2> QED BY <1>1, <1>2, <1>3 DEF Range
<1>7. {Head(q)} \union Range(Tail(q)) \subseteq Range(q)
  BY <1>1, <1>2, <1>4, <1>5 DEF Range
<1> QED BY <1>1, <1>4, <1>6, <1>7

LEMMA GreaterOfTwo ==
    ASSUME NEW a \in Nat, NEW b \in Nat
    PROVE  Max({a, b}) \in {a, b} /\ Max({a, b}) >= a /\ Max({a, b}) >= b
<1>1. \E x \in {a, b} : \A y \in {a, b} : x >= y
  <2>1. CASE a >= b
    BY <2>1
  <2>2. CASE b >= a
    BY <2>2
  <2> QED BY <2>1, <2>2
<1> QED BY <1>1 DEF Max

\* Every copy under way is one that was saved.
CopiesAreSaved ==
    \A w \in Watchers :
        /\ Range(wire[w]) \subseteq 1..version
        /\ pending[w] <= version /\ pageOf[w] <= version
        /\ pulled[w] <= version /\ shown[w] <= version

\* While the match stands a row is there and no older than the last page, and a
\* page that brought the deletion took the row away.
RowsFollowPages ==
    \A w \in Watchers :
        /\ tomb = 0 => shown[w] # 0 /\ pulled[w] <= shown[w]
        /\ tomb # 0 /\ pulled[w] = tomb => shown[w] = 0 \/ w \in revived

\* Who has been sent the first copy has, or will be sent, one at least as new as
\* any that was published.
PublishedReaches ==
    tomb = 0 /\ ~overtaken =>
        \A w \in Watchers : conn[w] \in {"greeted", "open"} =>
            \A v \in (1..version) \ unpublished :
                \E u \in {pending[w], shown[w]} \union Range(wire[w]) : v <= u

LiveInv == LiveTypeOK /\ CopiesAreSaved /\ RowsFollowPages /\ PublishedReaches

LEMMA LiveInvInit == LiveInit => LiveInv
<1> SUFFICES ASSUME LiveInit
             PROVE  LiveInv
  OBVIOUS
<1>1. <<>> \in Seq(Versions) /\ Range(<<>>) = {}
  BY DEF Range
<1>2. LiveTypeOK
  <2>1. {0, 1} \subseteq Versions /\ "off" \in Stages /\ 1 \in 1..MaxVersion
        /\ 0 \in 0..MaxBreaks /\ 0 \in 0..MaxRetries
    BY LiveHubAssumption DEF Versions, Stages
  <2> QED BY <1>1, <2>1 DEF LiveInit, LiveTypeOK
<1>3. CopiesAreSaved /\ RowsFollowPages /\ PublishedReaches
  BY <1>1 DEF LiveInit, CopiesAreSaved, RowsFollowPages, PublishedReaches
<1> QED BY <1>2, <1>3 DEF LiveInv

LEMMA SaveKeepsLive == LiveInv /\ Save => LiveInv'
<1> SUFFICES ASSUME LiveInv, Save
             PROVE  LiveInv'
  OBVIOUS
<1>1. /\ version \in 1..MaxVersion /\ version' = version + 1 /\ version' \in 1..MaxVersion
      /\ tomb = 0 /\ tomb' \in {0, version'}
      /\ unpublished' = unpublished \union {version'}
      /\ unpublished \subseteq 1..version
      /\ UNCHANGED <<retries, conn, pending, wire, shown, knownVersion, revived, pulled,
                     pageOf, breaks, overtaken>>
  BY LiveHubAssumption
     DEF LiveInv, LiveTypeOK, Save, sockVars, rowVars, pollVars
<1>2. LiveTypeOK'
  BY <1>1 DEF LiveInv, LiveTypeOK
<1>3. \A w \in Watchers : /\ pending[w] \in Nat /\ pageOf[w] \in Nat
                          /\ pulled[w] \in Nat /\ shown[w] \in Nat
  BY DEF LiveInv, LiveTypeOK, Versions
<1>4. CopiesAreSaved'
  BY <1>1, <1>3 DEF LiveInv, CopiesAreSaved
<1>5. RowsFollowPages'
  BY <1>1, <1>3 DEF LiveInv, CopiesAreSaved, RowsFollowPages
<1>6. PublishedReaches'
  <2>1. (1..version') \ unpublished' = (1..version) \ unpublished
    BY <1>1
  <2> QED BY <1>1, <2>1 DEF LiveInv, PublishedReaches
<1> QED BY <1>2, <1>4, <1>5, <1>6 DEF LiveInv

\* A copy that will be published again was no longer owed to anybody.
LEMMA RetryKeepsLive ==
    ASSUME LiveInv, NEW v \in 1..version, Retry(v)
    PROVE  LiveInv'
<1>1. /\ unpublished' = unpublished \union {v} /\ retries' = retries + 1
      /\ retries < MaxRetries /\ unpublished \subseteq 1..version
      /\ UNCHANGED <<version, tomb, conn, pending, wire, shown, knownVersion, revived,
                     pulled, pageOf, breaks, overtaken>>
  BY DEF LiveInv, LiveTypeOK, Retry, sockVars, rowVars, pollVars
<1>2. LiveTypeOK'
  BY <1>1, LiveHubAssumption DEF LiveInv, LiveTypeOK
<1>3. CopiesAreSaved' /\ RowsFollowPages'
  BY <1>1 DEF LiveInv, CopiesAreSaved, RowsFollowPages
<1>4. PublishedReaches'
  BY <1>1 DEF LiveInv, PublishedReaches
<1> QED BY <1>2, <1>3, <1>4 DEF LiveInv

LEMMA PublishKeepsLive ==
    ASSUME LiveInv, NEW v \in unpublished, Publish(v)
    PROVE  LiveInv'
<1>1. /\ version \in 1..MaxVersion /\ v \in 1..version /\ v \in Versions
      /\ unpublished' = unpublished \ {v}
      /\ pending' = [w \in Watchers |-> IF Listening(w) THEN v ELSE pending[w]]
      /\ overtaken' = (overtaken \/ \E u \in (v + 1)..version : u \notin unpublished)
      /\ UNCHANGED <<version, tomb, retries, conn, wire, shown, knownVersion, revived,
                     pulled, pageOf, breaks>>
  BY LiveHubAssumption DEF LiveInv, LiveTypeOK, Versions, Publish, rowVars, pollVars
<1>2. LiveTypeOK'
  BY <1>1 DEF LiveInv, LiveTypeOK
<1>3. CopiesAreSaved'
  BY <1>1 DEF LiveInv, CopiesAreSaved
<1>4. RowsFollowPages'
  BY <1>1 DEF LiveInv, RowsFollowPages
<1>5. PublishedReaches'
  <2> SUFFICES ASSUME ~overtaken', NEW w \in Watchers, conn[w] \in {"greeted", "open"},
                      NEW n \in (1..version) \ unpublished'
               PROVE  n <= pending'[w]
    BY <1>1 DEF PublishedReaches
  <2>1. pending'[w] = v
    BY <1>1 DEF Listening
  <2>2. n = v \/ n \notin unpublished
    BY <1>1
  <2>3. n \notin (v + 1)..version \/ n = v
    BY <1>1, <2>2
  <2> QED BY <1>1, <2>1, <2>3
<1> QED BY <1>2, <1>3, <1>4, <1>5 DEF LiveInv

\* A connection that only moves on or breaks.
LEMMA StageKeepsLive ==
    ASSUME LiveInv, NEW w \in Watchers, NEW stage \in Stages,
           conn' = [conn EXCEPT ![w] = stage],
           UNCHANGED <<hubVars, rowVars, pollVars, overtaken>>,
           breaks' \in 0..MaxBreaks,
           \/ /\ UNCHANGED <<pending, wire>>
              /\ stage \in {"greeted", "open"} => conn[w] = "greeted"
           \/ /\ stage = "off"
              /\ pending' = [pending EXCEPT ![w] = 0]
              /\ wire' = [wire EXCEPT ![w] = <<>>]
    PROVE  LiveInv'
<1>1. /\ version \in 1..MaxVersion
      /\ UNCHANGED <<version, tomb, unpublished, retries, shown, knownVersion, revived, pulled,
                     pageOf, overtaken>>
  BY DEF LiveInv, LiveTypeOK, hubVars, rowVars, pollVars
<1>2. <<>> \in Seq(Versions) /\ Range(<<>>) = {} /\ 0 \in Versions
  BY LiveHubAssumption DEF Range, Versions
<1>3. LiveTypeOK'
  BY <1>1, <1>2 DEF LiveInv, LiveTypeOK
<1>4. \A u \in Watchers : /\ pending'[u] \in {0, pending[u]}
                          /\ Range(wire'[u]) \in {{}, Range(wire[u])}
  BY <1>2 DEF LiveInv, LiveTypeOK
<1>5. CopiesAreSaved'
  BY <1>1, <1>4 DEF LiveInv, CopiesAreSaved
<1>6. RowsFollowPages'
  BY <1>1 DEF LiveInv, RowsFollowPages
<1>7. PublishedReaches'
  <2> SUFFICES ASSUME tomb = 0, ~overtaken, NEW u \in Watchers,
                      conn'[u] \in {"greeted", "open"},
                      NEW n \in (1..version) \ unpublished
               PROVE  \E c \in {pending'[u], shown[u]} \union Range(wire'[u]) : n <= c
    BY <1>1 DEF PublishedReaches
  <2>1. conn[u] \in {"greeted", "open"} /\ pending'[u] = pending[u] /\ wire'[u] = wire[u]
    BY DEF LiveInv, LiveTypeOK
  <2> QED BY <2>1 DEF LiveInv, PublishedReaches
<1> QED BY <1>3, <1>5, <1>6, <1>7 DEF LiveInv

\* A copy is sent, the first one or the one in the channel.
LEMMA SendKeepsLive ==
    ASSUME LiveInv, NEW w \in Watchers, NEW v \in 1..version,
           wire' = [wire EXCEPT ![w] = Append(@, v)],
           UNCHANGED <<hubVars, rowVars, pollVars, breaks, overtaken>>,
           \/ /\ v = version
              /\ conn' = [conn EXCEPT ![w] = "greeted"]
              /\ pending' = pending
           \/ /\ v = pending[w]
              /\ conn' = conn
              /\ pending' = [pending EXCEPT ![w] = 0]
    PROVE  LiveInv'
<1>1. /\ version \in 1..MaxVersion /\ v \in Versions /\ 0 \in Versions
      /\ "greeted" \in Stages /\ pending[w] \in Versions /\ wire[w] \in Seq(Versions)
      /\ UNCHANGED <<version, tomb, unpublished, retries, shown, knownVersion, revived, pulled,
                     pageOf, breaks, overtaken>>
  <2>1. pending[w] \in Versions /\ wire[w] \in Seq(Versions) /\ version \in 1..MaxVersion
    BY DEF LiveInv, LiveTypeOK
  <2> QED BY <2>1, LiveHubAssumption DEF Versions, Stages, hubVars, rowVars, pollVars
<1>2. /\ Append(wire[w], v) \in Seq(Versions)
      /\ Range(Append(wire[w], v)) = Range(wire[w]) \union {v}
  BY <1>1, AppendedCopies
<1>3. LiveTypeOK'
  BY <1>1, <1>2 DEF LiveInv, LiveTypeOK
<1>4. \A u \in Watchers \ {w} : /\ wire'[u] = wire[u] /\ pending'[u] = pending[u]
                                /\ conn'[u] = conn[u]
  BY DEF LiveInv, LiveTypeOK
<1>5. Range(wire'[w]) = Range(wire[w]) \union {v} /\ pending'[w] \in {0, pending[w]}
  BY <1>2 DEF LiveInv, LiveTypeOK
<1>6. CopiesAreSaved'
  BY <1>1, <1>4, <1>5 DEF LiveInv, CopiesAreSaved
<1>7. RowsFollowPages'
  BY <1>1 DEF LiveInv, RowsFollowPages
<1>8. PublishedReaches'
  <2> SUFFICES ASSUME tomb = 0, ~overtaken, NEW u \in Watchers,
                      conn'[u] \in {"greeted", "open"},
                      NEW n \in (1..version) \ unpublished
               PROVE  \E c \in {pending'[u], shown[u]} \union Range(wire'[u]) : n <= c
    BY <1>1 DEF PublishedReaches
  <2>1. CASE u # w
    BY <1>4, <2>1 DEF LiveInv, PublishedReaches
  <2>2. CASE u = w /\ v = version
    <3>1. version \in Range(wire'[u]) /\ n <= version
      BY <1>1, <1>5, <2>2
    <3> QED BY <3>1
  <2>3. CASE u = w /\ v # version
    <3>1. conn[w] \in {"greeted", "open"} /\ v = pending[w]
      BY <2>3
    <3>2. PICK c \in {pending[w], shown[w]} \union Range(wire[w]) : n <= c
      BY <3>1 DEF LiveInv, PublishedReaches
    <3>3. c \in {shown[w]} \union Range(wire'[w])
      BY <1>5, <3>1
    <3> QED BY <2>3, <3>2, <3>3
  <2> QED BY <2>1, <2>2, <2>3
<1> QED BY <1>3, <1>6, <1>7, <1>8 DEF LiveInv

LEMMA MergeKeepsLive ==
    ASSUME LiveInv, NEW w \in Watchers, NEW v \in 1..version, MergeServerCopy(w, v),
           UNCHANGED <<hubVars, conn, pending, breaks, overtaken>>,
           \/ /\ wire[w] # <<>> /\ v = Head(wire[w])
              /\ wire' = [wire EXCEPT ![w] = Tail(@)]
              /\ UNCHANGED pollVars
           \/ /\ wire' = wire
              /\ pulled' = [pulled EXCEPT ![w] = v]
              /\ pageOf' = [pageOf EXCEPT ![w] = 0]
    PROVE  LiveInv'
<1>1. /\ version \in 1..MaxVersion /\ v \in Versions /\ shown[w] \in Nat
      /\ wire[w] \in Seq(Versions) /\ tomb \in {0, version}
      /\ UNCHANGED <<version, tomb, unpublished, retries, conn, pending, breaks, overtaken>>
  <2>1. /\ shown[w] \in Versions /\ wire[w] \in Seq(Versions)
        /\ version \in 1..MaxVersion /\ tomb \in {0, version}
    BY DEF LiveInv, LiveTypeOK
  <2> QED BY <2>1, LiveHubAssumption DEF Versions, hubVars
<1>2. /\ MergedRow(shown[w], v) \in 0..version
      /\ v = tomb => MergedRow(shown[w], v) = 0
      /\ v # tomb => MergedRow(shown[w], v) >= v
      /\ v # tomb => MergedRow(shown[w], v) >= shown[w]
  BY <1>1, GreaterOfTwo DEF MergedRow, LiveInv, CopiesAreSaved
<1>3. /\ shown'[w] = MergedRow(shown[w], v)
      /\ \A u \in Watchers \ {w} : shown'[u] = shown[u]
      /\ shown' \in [Watchers -> Versions] /\ knownVersion' \in [Watchers -> Versions]
  <2>1. MergedRow(shown[w], v) \in Versions
    BY <1>1, <1>2, LiveHubAssumption DEF Versions
  <2> QED BY <1>1, <2>1 DEF MergeServerCopy, LiveInv, LiveTypeOK
<1>4. /\ revived \subseteq revived' /\ revived' \subseteq Watchers
      /\ shown[w] = 0 /\ shown'[w] # 0 => w \in revived'
  BY DEF MergeServerCopy, LiveInv, LiveTypeOK
<1>5. /\ wire' \in [Watchers -> Seq(Versions)]
      /\ \A u \in Watchers \ {w} : wire'[u] = wire[u]
      /\ wire'[w] = wire[w] \/ Range(wire[w]) = {v} \union Range(wire'[w])
  <2>1. CASE wire' = wire
    BY <2>1 DEF LiveInv, LiveTypeOK
  <2>2. CASE wire[w] # <<>> /\ v = Head(wire[w]) /\ wire' = [wire EXCEPT ![w] = Tail(@)]
    <3>1. Tail(wire[w]) \in Seq(Versions) /\ Range(wire[w]) = {v} \union Range(Tail(wire[w]))
      BY <1>1, <2>2, TakenCopies
    <3> QED BY <2>2, <3>1 DEF LiveInv, LiveTypeOK
  <2> QED BY <2>1, <2>2
<1>6. /\ pulled' \in [Watchers -> Versions] /\ pageOf' \in [Watchers -> Versions]
      /\ \A u \in Watchers \ {w} : pulled'[u] = pulled[u] /\ pageOf'[u] = pageOf[u]
      /\ pulled'[w] \in {pulled[w], v} /\ pageOf'[w] \in {pageOf[w], 0}
  <2>1. 0 \in Versions
    BY LiveHubAssumption DEF Versions
  <2> QED BY <1>1, <2>1 DEF LiveInv, LiveTypeOK, pollVars
<1>7. LiveTypeOK'
  BY <1>1, <1>3, <1>4, <1>5, <1>6 DEF LiveInv, LiveTypeOK
<1>8. CopiesAreSaved'
  <2> SUFFICES ASSUME NEW u \in Watchers
               PROVE  /\ Range(wire'[u]) \subseteq 1..version
                      /\ pending[u] <= version /\ pageOf'[u] <= version
                      /\ pulled'[u] <= version /\ shown'[u] <= version
    BY <1>1 DEF CopiesAreSaved
  <2>1. /\ Range(wire[u]) \subseteq 1..version
        /\ pending[u] <= version /\ pageOf[u] <= version
        /\ pulled[u] <= version /\ shown[u] <= version
    BY DEF LiveInv, CopiesAreSaved
  <2>2. CASE u # w
    BY <1>3, <1>5, <1>6, <2>1, <2>2
  <2>3. CASE u = w
    <3>1. Range(wire'[w]) \subseteq 1..version
      BY <1>5, <2>1, <2>3
    <3>2. pageOf'[w] <= version /\ pulled'[w] <= version /\ shown'[w] <= version
      BY <1>1, <1>2, <1>3, <1>6, <2>1, <2>3
    <3> QED BY <2>1, <2>3, <3>1, <3>2
  <2> QED BY <2>2, <2>3
<1>9. RowsFollowPages'
  <2> SUFFICES ASSUME NEW u \in Watchers
               PROVE  /\ tomb = 0 => shown'[u] # 0 /\ pulled'[u] <= shown'[u]
                      /\ tomb # 0 /\ pulled'[u] = tomb => shown'[u] = 0 \/ u \in revived'
    BY <1>1 DEF RowsFollowPages
  <2>1. CASE u # w
    BY <1>3, <1>4, <1>6, <2>1 DEF LiveInv, RowsFollowPages
  <2>2. CASE u = w
    <3>1. pulled[w] \in Nat /\ (tomb = 0 => shown[w] # 0 /\ pulled[w] <= shown[w])
          /\ (tomb # 0 /\ pulled[w] = tomb => shown[w] = 0 \/ w \in revived)
      BY DEF LiveInv, LiveTypeOK, RowsFollowPages, Versions
    <3>2. tomb = 0 => shown'[w] # 0 /\ pulled'[w] <= shown'[w]
      BY <1>1, <1>2, <1>3, <1>6, <3>1
    <3>3. tomb # 0 /\ pulled'[w] = tomb => shown'[w] = 0 \/ w \in revived'
      BY <1>1, <1>2, <1>3, <1>4, <1>6, <3>1
    <3> QED BY <2>2, <3>2, <3>3
  <2> QED BY <2>1, <2>2
<1>10. PublishedReaches'
  <2> SUFFICES ASSUME tomb = 0, ~overtaken, NEW u \in Watchers,
                      conn[u] \in {"greeted", "open"},
                      NEW n \in (1..version) \ unpublished
               PROVE  \E c \in {pending[u], shown'[u]} \union Range(wire'[u]) : n <= c
    BY <1>1 DEF PublishedReaches
  <2>1. PICK c \in {pending[u], shown[u]} \union Range(wire[u]) : n <= c
    BY DEF LiveInv, PublishedReaches
  <2>2. CASE u # w
    BY <1>3, <1>5, <2>1, <2>2
  <2>3. CASE u = w /\ c \in {v, shown[w]}
    <3>1. c <= shown'[u] /\ shown'[u] \in Nat
      BY <1>1, <1>2, <1>3, <2>3
    <3>2. n <= shown'[u]
      BY <1>1, <2>1, <2>3, <3>1
    <3> QED BY <3>2
  <2>4. CASE u = w /\ c \notin {v, shown[w]}
    BY <1>5, <2>1, <2>4
  <2> QED BY <2>2, <2>3, <2>4
<1> QED BY <1>7, <1>8, <1>9, <1>10 DEF LiveInv

LEMMA LiveInvStep == LiveInv /\ [LiveNext]_liveVars => LiveInv'
<1> SUFFICES ASSUME LiveInv, [LiveNext]_liveVars
             PROVE  LiveInv'
  OBVIOUS
<1>1. CASE Save
  BY <1>1, SaveKeepsLive
<1>2. ASSUME NEW v \in unpublished, Publish(v)
      PROVE  LiveInv'
  BY <1>2, PublishKeepsLive
<1>13. ASSUME NEW v \in 1..version, Retry(v)
       PROVE  LiveInv'
  BY <1>13, RetryKeepsLive
<1>3. ASSUME NEW w \in Watchers, Connect(w)
      PROVE  LiveInv'
  <2> DEFINE stage == IF tomb = 0 THEN "authorized" ELSE "final"
  <2>1. /\ stage \in Stages /\ stage \notin {"greeted", "open"}
        /\ conn' = [conn EXCEPT ![w] = stage]
        /\ UNCHANGED <<hubVars, rowVars, pollVars, overtaken, pending, wire>>
        /\ breaks' \in 0..MaxBreaks
    BY <1>3 DEF Connect, Stages, LiveInv, LiveTypeOK
  <2> QED BY <2>1, StageKeepsLive
<1>4. ASSUME NEW w \in Watchers, Subscribe(w)
      PROVE  LiveInv'
  <2> DEFINE stage == IF Cardinality({u \in Watchers : Listening(u)}) < MaxWatchers
                      THEN "subscribed" ELSE "off"
  <2>1. /\ stage \in Stages /\ stage \notin {"greeted", "open"}
        /\ conn' = [conn EXCEPT ![w] = stage]
        /\ UNCHANGED <<hubVars, rowVars, pollVars, overtaken, pending, wire>>
        /\ breaks' \in 0..MaxBreaks
    BY <1>4 DEF Subscribe, Stages, LiveInv, LiveTypeOK
  <2> QED BY <2>1, StageKeepsLive
<1>5. ASSUME NEW w \in Watchers, StartLoop(w)
      PROVE  LiveInv'
  <2>1. /\ "open" \in Stages /\ conn[w] = "greeted"
        /\ conn' = [conn EXCEPT ![w] = "open"]
        /\ UNCHANGED <<hubVars, rowVars, pollVars, overtaken, pending, wire>>
        /\ breaks' \in 0..MaxBreaks
    BY <1>5 DEF StartLoop, Stages, LiveInv, LiveTypeOK
  <2> QED BY <2>1, StageKeepsLive
<1>6. ASSUME NEW w \in Watchers, SendCurrent(w)
      PROVE  LiveInv'
  <2>1. CASE tomb = 0
    <3>1. version \in 1..version
      BY DEF LiveInv, LiveTypeOK
    <3> QED BY <1>6, <2>1, <3>1, SendKeepsLive DEF SendCurrent
  <2>2. CASE tomb # 0
    <3>1. conn' = [conn EXCEPT ![w] = "greeted"] /\ UNCHANGED <<pending, wire>>
      BY <1>6, <2>2 DEF SendCurrent
    <3>2. UNCHANGED <<version, tomb, unpublished, retries, shown, knownVersion, revived, pulled,
                      pageOf, breaks, overtaken>>
      BY <1>6 DEF SendCurrent, hubVars, rowVars, pollVars
    <3>3. LiveTypeOK'
      BY <3>1, <3>2 DEF LiveInv, LiveTypeOK, Stages, Versions
    <3> QED BY <2>2, <3>1, <3>2, <3>3
            DEF LiveInv, CopiesAreSaved, RowsFollowPages, PublishedReaches
  <2> QED BY <2>1, <2>2
<1>12. ASSUME NEW w \in Watchers, SendPending(w)
       PROVE  LiveInv'
  <2>1. pending[w] \in 1..version
    BY <1>12 DEF SendPending, LiveInv, LiveTypeOK, CopiesAreSaved, Versions
  <2> QED BY <1>12, <2>1, SendKeepsLive DEF SendPending
<1>7. ASSUME NEW w \in Watchers, Break(w) \/ StopWatching(w)
      PROVE  LiveInv'
  <2>1. "off" \in Stages /\ breaks' \in 0..MaxBreaks /\ Closed(w, "off")
    BY <1>7, LiveHubAssumption DEF Break, StopWatching, Stages, LiveInv, LiveTypeOK
  <2> QED BY <2>1, StageKeepsLive DEF Closed
<1>8. ASSUME NEW w \in Watchers, ReceiveLive(w)
      PROVE  LiveInv'
  <2>1. Head(wire[w]) \in 1..version
    BY <1>8, TakenCopies DEF ReceiveLive, LiveInv, LiveTypeOK, CopiesAreSaved
  <2> QED BY <1>8, <2>1, MergeKeepsLive DEF ReceiveLive
<1>9. ASSUME NEW w \in Watchers, Poll(w)
      PROVE  LiveInv'
  <2>1. /\ version \in 1..MaxVersion
        /\ pageOf' = [pageOf EXCEPT ![w] = version]
        /\ UNCHANGED <<version, tomb, unpublished, retries, conn, pending, wire, shown,
                       knownVersion, revived, pulled, breaks, overtaken>>
    BY <1>9 DEF Poll, LiveInv, LiveTypeOK, hubVars, sockVars, rowVars
  <2>2. LiveTypeOK' /\ CopiesAreSaved'
    BY <2>1 DEF LiveInv, LiveTypeOK, CopiesAreSaved, Versions
  <2>3. RowsFollowPages' /\ PublishedReaches'
    BY <2>1 DEF LiveInv, RowsFollowPages, PublishedReaches
  <2> QED BY <2>2, <2>3 DEF LiveInv
<1>10. ASSUME NEW w \in Watchers, ApplyPolled(w)
       PROVE  LiveInv'
  <2>1. pageOf[w] \in 1..version
    BY <1>10 DEF ApplyPolled, LiveInv, LiveTypeOK, CopiesAreSaved, Versions
  <2> QED BY <1>10, <2>1, MergeKeepsLive DEF ApplyPolled, sockVars
<1>11. CASE UNCHANGED liveVars
  BY <1>11 DEF LiveInv, LiveTypeOK, CopiesAreSaved, RowsFollowPages, PublishedReaches,
               liveVars, hubVars, sockVars, rowVars, pollVars, Versions, Stages
<1> QED BY <1>1, <1>2, <1>3, <1>4, <1>5, <1>6, <1>7, <1>8, <1>9, <1>10, <1>11, <1>12,
        <1>13 DEF LiveNext

LEMMA LiveInvHolds == LiveSpec => []LiveInv
BY LiveInvInit, LiveInvStep, PTL DEF LiveSpec

\* The newest copy of a match that stands is shown, in the channel or on the way,
\* on every open socket, once every save is published: whatever the number of
\* watchers, saves, retries and breaks (service.go:93, live.go:45).
THEOREM NothingMissed == LiveSpec => []SocketMissesNothing
<1>1. LiveInv => SocketMissesNothing
  <2> SUFFICES ASSUME LiveInv, NEW w \in Watchers, conn[w] = "open", tomb = 0,
                      unpublished = {}, ~overtaken
               PROVE  version \in {pending[w], shown[w]} \union Range(wire[w])
    BY DEF SocketMissesNothing
  <2>1. version \in (1..version) \ unpublished
    BY DEF LiveInv, LiveTypeOK
  <2>2. PICK c \in {pending[w], shown[w]} \union Range(wire[w]) : version <= c
    BY <2>1 DEF LiveInv, PublishedReaches
  <2>3. c <= version /\ c \in Nat
    BY DEF LiveInv, LiveTypeOK, CopiesAreSaved, Versions
  <2> QED BY <2>2, <2>3 DEF LiveInv, LiveTypeOK
<1> QED BY <1>1, LiveInvHolds, PTL

\* A watcher who has pulled up to the last save shows it, or shows a deleted match
\* that an older copy brought back (apply.ts mergeDocs, live.ts:73).
THEOREM PulledIsShown == LiveSpec => []WatchersEndCurrent
<1>1. LiveInv => WatchersEndCurrent
  BY DEF LiveInv, LiveTypeOK, Versions, CopiesAreSaved, RowsFollowPages,
         WatchersEndCurrent, Newest
<1> QED BY <1>1, LiveInvHolds, PTL

-----------------------------------------------------------------------------
(***************************************************************************)
(* Sessions                                                                *)
(***************************************************************************)

AnyRows == [current : Nat, prev : Nat, fresh : BOOLEAN,
            revoked : BOOLEAN, expired : BOOLEAN]

\* The row of the server is a row, without the bounds of the type invariant. The
\* copies refreshes have read need no such claim: one is written over the row only
\* while it has the same secret.
RowsInv == session \in AnyRows /\ secrets \in Nat

LEMMA RowsInvInit == SessionsInit => RowsInv
BY DEF SessionsInit, RowsInv, AnyRows

LEMMA RowsInvStep == RowsInv /\ [SessionsNext]_sessionVars => RowsInv'
<1> SUFFICES ASSUME RowsInv, [SessionsNext]_sessionVars
             PROVE  RowsInv'
  OBVIOUS
<1>1. CASE SendRefresh
  BY <1>1 DEF SendRefresh, RowsInv
<1>2. ASSUME NEW p \in replies, ReceiveReply(p)
      PROVE  RowsInv'
  BY <1>2 DEF ReceiveReply, RowsInv
<1>3. CASE GiveUpRefresh \/ WriteToken \/ RestartApp
  BY <1>3 DEF GiveUpRefresh, WriteToken, RestartApp, exchangeVars, RowsInv
<1>4. CASE SignOut
  BY <1>4 DEF SignOut, exchangeVars, RowsInv, AnyRows
<1>5. ASSUME NEW r \in requests, ReadSession(r)
      PROVE  RowsInv'
  BY <1>5 DEF ReadSession, RowsInv
<1>6. ASSUME NEW r \in requests, FinishRefresh(r)
      PROVE  RowsInv'
  <2>1. CASE session' = Rotated(r) /\ StillAsRead(r) /\ secrets' = secrets + 1
    <3>1. r.row.current \in Nat /\ secrets + 1 \in Nat
      BY <2>1 DEF StillAsRead, RowsInv, AnyRows
    <3>2. session' \in AnyRows
      BY <2>1, <3>1 DEF Rotated, RowsInv, AnyRows
    <3> QED BY <2>1, <3>1, <3>2 DEF RowsInv
  <2>2. CASE UNCHANGED <<session, secrets>>
    BY <2>2 DEF RowsInv
  <2>3. ASSUME NEW ended \in BOOLEAN, secrets' = secrets,
               session' = [session EXCEPT !.revoked = @ \/ ended]
        PROVE  RowsInv'
    <3>1. (session.revoked \/ ended) \in BOOLEAN
      OBVIOUS
    <3> QED BY <2>3, <3>1 DEF RowsInv, AnyRows
  <2> QED BY <1>6, <2>1, <2>2, <2>3 DEF FinishRefresh
<1>7. CASE GraceEnds
  BY <1>7 DEF GraceEnds, exchangeVars, RowsInv, AnyRows
<1>8. CASE Expire
  BY <1>8 DEF Expire, exchangeVars, RowsInv, AnyRows
<1>9. CASE UNCHANGED sessionVars
  BY <1>9 DEF sessionVars, exchangeVars, RowsInv
<1> QED BY <1>1, <1>2, <1>3, <1>4, <1>5, <1>6, <1>7, <1>8, <1>9 DEF SessionsNext

\* No step takes a flag of the row back: the one that writes over the row after
\* a copy of it was read sets the secrets alone.
LEMMA EndedStays ==
    RowsInv /\ [SessionsNext]_sessionVars => (Ended(session) => Ended(session'))
<1> SUFFICES ASSUME RowsInv, [SessionsNext]_sessionVars, Ended(session)
             PROVE  Ended(session')
  OBVIOUS
<1>1. session \in AnyRows
  BY DEF RowsInv
<1>2. CASE SignOut
  BY <1>1, <1>2 DEF SignOut, AnyRows, Ended
<1>3. ASSUME NEW r \in requests, FinishRefresh(r)
      PROVE  Ended(session')
  BY <1>1, <1>3 DEF FinishRefresh, Rotated, AnyRows, Ended
<1>4. CASE GraceEnds \/ Expire
  BY <1>1, <1>4 DEF GraceEnds, Expire, AnyRows, Ended
<1>5. ASSUME UNCHANGED session
      PROVE  Ended(session')
  BY <1>5
<1>6. CASE SendRefresh \/ GiveUpRefresh \/ WriteToken \/ RestartApp
  BY <1>5, <1>6 DEF SendRefresh, GiveUpRefresh, WriteToken, RestartApp
<1>7. ASSUME NEW p \in replies, ReceiveReply(p)
      PROVE  Ended(session')
  BY <1>5, <1>7 DEF ReceiveReply
<1>8. ASSUME NEW r \in requests, ReadSession(r)
      PROVE  Ended(session')
  BY <1>5, <1>8 DEF ReadSession
<1>9. CASE UNCHANGED sessionVars
  BY <1>5, <1>9 DEF sessionVars
<1> QED BY <1>2, <1>3, <1>4, <1>6, <1>7, <1>8, <1>9 DEF SessionsNext

\* A session that was ended stays ended, whatever refreshes were under way when
\* it was (service.go:159, :187, pgrepo.go:107).
THEOREM EndedForGood == SessionsSpec => EndIsFinal
<1>1. SessionsInit => RowsInv
  BY RowsInvInit
<1>2. RowsInv /\ [SessionsNext]_sessionVars => RowsInv'
  BY RowsInvStep
<1>3. RowsInv /\ [SessionsNext]_sessionVars
          => [Ended(session) => Ended(session')]_sessionVars
  BY EndedStays
<1> QED BY <1>1, <1>2, <1>3, PTL DEF SessionsSpec, EndIsFinal

-----------------------------------------------------------------------------
(***************************************************************************)
(* A phone that keeps to its grace window is never signed out.             *)
(***************************************************************************)

\* What holds of every phone: ids of requests and of their answers were given
\* out, and the tokens are numbers.
ExchangeTypes ==
    /\ RowsInv
    /\ sent \in Nat /\ waiting \in Nat /\ waiting <= sent
    /\ token \in Nat /\ onDisk \in Nat
    /\ \A r \in requests :
          /\ r \in [id : Nat \ {0}, secret : Nat, row : AnyRows]
          /\ r.id <= sent
    /\ \A p \in replies :
          /\ p \in [id : Nat \ {0}, secret : Nat, error : BOOLEAN]
          /\ p.id <= sent

\* The row is live and its two secrets are the last two made. A secret that was
\* replaced can only be met within its grace window.
LiveRow(row) ==
    /\ ~ row.revoked /\ ~ row.expired
    /\ row.current = row.prev + 1
    /\ row.fresh => row.prev > 0

\* s is the secret in use, or the one before it within the window.
GoodIn(s, row) == s > 0 /\ (s = row.current \/ (s = row.prev /\ row.fresh))

\* A refresh under way was sent with a secret that was good, and stays harmless
\* when the phone has given it up. The one the phone waits for has its token.
GoodRequest(r) ==
    /\ r.secret > 0 /\ r.secret <= session.current
    /\ r.secret = session.prev => session.fresh
    /\ r.id = waiting => r.secret = token
    /\ r.row # NotRead =>
          /\ LiveRow(r.row)
          /\ r.secret <= r.row.current /\ r.row.current <= session.current
          /\ r.secret = r.row.prev => r.row.fresh

\* An answer the phone waits for has the secret in use, and the phone the one
\* before it.
GoodReply(p) ==
    p.id = waiting /\ ~ p.error => p.secret = session.current /\ token = session.prev

InStep ==
    /\ LiveRow(session) /\ secrets = session.current
    /\ GoodIn(token, session) /\ GoodIn(onDisk, session)
    /\ \A r \in requests : GoodRequest(r)
    /\ \A p \in replies : GoodReply(p)

\* StaysSignedIn alone says nothing of the requests and answers that are still to
\* come, any of which could take the token away.
SignedInInv == ExchangeTypes /\ (signedOut \/ missed \/ InStep)

LEMMA SignedInInvInit == SessionsInit => SignedInInv
BY DEF SessionsInit, SignedInInv, ExchangeTypes, RowsInv, AnyRows, InStep,
       LiveRow, GoodIn, GoodRequest, GoodReply

LEMMA SendKeepsSignedIn == SignedInInv /\ SendRefresh => SignedInInv'
<1> SUFFICES ASSUME SignedInInv, SendRefresh
             PROVE  SignedInInv'
  OBVIOUS
<1> DEFINE new == [id |-> sent + 1, secret |-> token, row |-> NotRead]
<1>1. /\ sent' = sent + 1 /\ waiting' = sent + 1
      /\ requests' = requests \union {new}
      /\ UNCHANGED <<session, secrets, replies, token, onDisk, signedOut, missed>>
  BY DEF SendRefresh
<1>2. NotRead \in AnyRows
  BY DEF NotRead, AnyRows
<1>3. ExchangeTypes'
  BY <1>1, <1>2 DEF SignedInInv, ExchangeTypes, RowsInv
<1>4. ASSUME InStep
      PROVE  InStep'
  <2>1. LiveRow(session)' /\ (secrets = session.current)'
        /\ GoodIn(token, session)' /\ GoodIn(onDisk, session)'
    BY <1>1, <1>4 DEF InStep
  <2>2. \A r \in requests' \ requests : GoodRequest(r)'
    BY <1>1, <1>4 DEF InStep, GoodIn, LiveRow, GoodRequest, SignedInInv,
                      ExchangeTypes, RowsInv, AnyRows
  <2>3. \A r \in requests : GoodRequest(r)'
    BY <1>1, <1>4 DEF InStep, GoodRequest, SignedInInv, ExchangeTypes
  <2>4. \A p \in replies : GoodReply(p)'
    BY <1>1, <1>4 DEF InStep, GoodReply, SignedInInv, ExchangeTypes
  <2> QED BY <1>1, <2>1, <2>2, <2>3, <2>4 DEF InStep
<1> QED BY <1>1, <1>3, <1>4 DEF SignedInInv

LEMMA ReceiveKeepsSignedIn ==
    ASSUME SignedInInv, NEW q \in replies, ReceiveReply(q) PROVE SignedInInv'
<1>1. /\ replies' = replies \ {q}
      /\ UNCHANGED <<session, secrets, requests, sent, signedOut, missed>>
  BY DEF ReceiveReply
<1>2. CASE q.id = waiting
  <2>1. /\ waiting' = 0
        /\ token' = (IF q.error THEN token ELSE q.secret)
        /\ onDisk' = (IF ~ q.error /\ q.secret = Refused THEN 0 ELSE onDisk)
    BY <1>2 DEF ReceiveReply
  <2>2. ExchangeTypes'
    BY <1>1, <2>1 DEF SignedInInv, ExchangeTypes, RowsInv
  <2>3. ASSUME InStep
        PROVE  InStep'
    <3>1. session.current > 0 /\ GoodReply(q)
      BY <2>3 DEF InStep, LiveRow, SignedInInv, ExchangeTypes, RowsInv, AnyRows
    <3>2. onDisk' = onDisk /\ token' \in {token, session.current}
      BY <1>2, <2>1, <3>1 DEF GoodReply, Refused
    <3>3. GoodIn(token', session)
      BY <2>3, <3>1, <3>2 DEF InStep, GoodIn
    <3>4. \A r \in requests : GoodRequest(r)'
      BY <1>1, <2>1, <2>3 DEF InStep, GoodRequest, SignedInInv, ExchangeTypes
    <3>5. \A p \in replies' : GoodReply(p)'
      <4> SUFFICES ASSUME NEW p \in replies, p.id = 0, ~ p.error
                   PROVE  FALSE
        BY <1>1, <2>1 DEF GoodReply
      <4> QED BY DEF SignedInInv, ExchangeTypes
    <3> QED BY <1>1, <2>3, <3>2, <3>3, <3>4, <3>5 DEF InStep, GoodIn
  <2> QED BY <1>1, <2>2, <2>3 DEF SignedInInv
<1>3. CASE q.id # waiting
  <2>1. UNCHANGED <<waiting, token, onDisk>>
    BY <1>3 DEF ReceiveReply, phoneVars
  <2> QED BY <1>1, <2>1 DEF SignedInInv, ExchangeTypes, RowsInv, InStep, GoodIn,
                            GoodRequest, GoodReply
<1> QED BY <1>2, <1>3

\* The phone gives a refresh up, writes its token to disk, or starts again.
LEMMA PhoneKeepsSignedIn ==
    ASSUME SignedInInv, waiting' \in {waiting, 0},
           \/ UNCHANGED <<token, onDisk>>
           \/ waiting' = 0 /\ token' = onDisk /\ onDisk' = onDisk
           \/ waiting' = waiting /\ token' = token /\ onDisk' = token,
           UNCHANGED <<session, secrets, exchangeVars, signedOut, missed>>
    PROVE  SignedInInv'
<1>1. UNCHANGED <<session, secrets, requests, replies, sent, signedOut, missed>>
  BY DEF exchangeVars
<1>2. ExchangeTypes'
  BY <1>1 DEF SignedInInv, ExchangeTypes, RowsInv
<1>3. ASSUME InStep
      PROVE  InStep'
  <2>1. GoodIn(token, session)' /\ GoodIn(onDisk, session)'
    BY <1>1, <1>3 DEF InStep, GoodIn
  <2>2. \A r \in requests : GoodRequest(r)'
    BY <1>1, <1>3 DEF InStep, GoodRequest, SignedInInv, ExchangeTypes
  <2>3. \A p \in replies : GoodReply(p)'
    BY <1>1, <1>3 DEF InStep, GoodReply, SignedInInv, ExchangeTypes
  <2> QED BY <1>1, <1>3, <2>1, <2>2, <2>3 DEF InStep
<1> QED BY <1>1, <1>2, <1>3 DEF SignedInInv

LEMMA ReadKeepsSignedIn ==
    ASSUME SignedInInv, NEW q \in requests, ReadSession(q) PROVE SignedInInv'
<1> DEFINE read == [id |-> q.id, secret |-> q.secret, row |-> session]
<1>1. UNCHANGED <<session, secrets, replies, sent, waiting, token, onDisk,
                  signedOut, missed>>
  BY DEF ReadSession, phoneVars
<1>2. \A r \in requests' : r \in requests \/ r = read
  BY DEF ReadSession, SignedInInv, ExchangeTypes
<1>3. session \in AnyRows
  BY DEF SignedInInv, ExchangeTypes, RowsInv
<1>4. ExchangeTypes'
  BY <1>1, <1>2, <1>3 DEF SignedInInv, ExchangeTypes, RowsInv
<1>5. ASSUME InStep
      PROVE  InStep'
  <2> SUFFICES ASSUME NEW r \in requests'
               PROVE  GoodRequest(r)'
    BY <1>1, <1>5 DEF InStep, GoodIn, GoodReply
  <2>1. CASE r \in requests
    BY <1>1, <1>5, <2>1 DEF InStep, GoodRequest
  <2>2. CASE r = read
    <3>1. GoodRequest(q)
      BY <1>5 DEF InStep
    <3>2. r.id = q.id /\ r.secret = q.secret /\ r.row = session
      BY <2>2
    <3> QED BY <1>1, <1>3, <1>5, <3>1, <3>2 DEF GoodRequest, InStep, AnyRows
  <2> QED BY <1>2, <2>1, <2>2
<1> QED BY <1>1, <1>4, <1>5 DEF SignedInInv

\* Every refresh is answered once, with a new secret, a refusal or an error.
LEMMA Answered ==
    ASSUME NEW q \in requests, FinishRefresh(q)
    PROVE  \E secret \in {0, secrets + 1}, error \in BOOLEAN :
              /\ Answer(q, secret, error)
              /\ ~ Ended(q.row) /\ Accepted(q) => error \/ StillAsRead(q)
<1>1. CASE ~ Ended(q.row) /\ Accepted(q) /\ StillAsRead(q)
  <2>1. Answer(q, secrets + 1, FALSE)
    BY <1>1 DEF FinishRefresh
  <2> QED BY <1>1, <2>1
<1>2. CASE ~ Ended(q.row) /\ Accepted(q) /\ ~ StillAsRead(q)
  <2>1. Answer(q, 0, TRUE)
    BY <1>2 DEF FinishRefresh
  <2> QED BY <2>1
<1>3. CASE ~ (~ Ended(q.row) /\ Accepted(q))
  <2>1. Answer(q, 0, FALSE)
    BY <1>3 DEF FinishRefresh, Refused
  <2> QED BY <1>3, <2>1
<1> QED BY <1>1, <1>2, <1>3

\* A secret is replaced. The phone that does not have the one in use is noted in
\* `missed`; for any other, the window of the one it has begins.
LEMMA RotationKeepsInStep ==
    ASSUME ExchangeTypes, InStep, NEW q \in requests, FinishRefresh(q),
           Accepted(q), StillAsRead(q), ~ Ended(q.row), ~ missed'
    PROVE  InStep'
<1>1. /\ session' = Rotated(q) /\ secrets' = secrets + 1 /\ ~ Behind
      /\ requests' = requests \ {q}
      /\ replies' = replies \union {[id |-> q.id, secret |-> secrets + 1, error |-> FALSE]}
      /\ UNCHANGED <<sent, waiting, token, onDisk, signedOut>>
  BY DEF FinishRefresh, Answer, phoneVars
<1>2. session \in AnyRows /\ session.current > 0
  BY DEF ExchangeTypes, RowsInv, InStep, LiveRow, AnyRows
<1>3. token = session.current /\ onDisk = session.current
  BY <1>1, <1>2 DEF InStep, GoodIn, Behind
<1>4. /\ session' = [session EXCEPT !.current = session.current + 1,
                                    !.prev = session.current, !.fresh = TRUE]
      /\ secrets = session.current
  BY <1>1 DEF Rotated, StillAsRead, InStep
<1>5. /\ session'.current = session.current + 1 /\ session'.prev = session.current
      /\ session'.fresh /\ ~ session'.revoked /\ ~ session'.expired
  BY <1>2, <1>4 DEF AnyRows, InStep, LiveRow
<1>6. LiveRow(session)' /\ (secrets = session.current)'
      /\ GoodIn(token, session)' /\ GoodIn(onDisk, session)'
  BY <1>1, <1>2, <1>3, <1>4, <1>5 DEF LiveRow, GoodIn, AnyRows
<1>7. ASSUME NEW r \in requests
      PROVE  GoodRequest(r)'
  <2>1. GoodRequest(r) /\ r \in [id : Nat \ {0}, secret : Nat, row : AnyRows]
    BY DEF InStep, ExchangeTypes
  <2>2. r.secret <= session'.current /\ (r.row # NotRead => r.row.current <= session'.current)
    BY <1>2, <1>5, <2>1 DEF GoodRequest, AnyRows
  <2> QED BY <1>1, <1>5, <2>1, <2>2 DEF GoodRequest
<1>8. ASSUME NEW p \in replies'
      PROVE  GoodReply(p)'
  <2>1. CASE p \in replies
    <3>1. GoodReply(p)
      BY <2>1 DEF InStep
    <3>2. token # session.prev
      BY <1>2, <1>3 DEF InStep, LiveRow, AnyRows
    <3> QED BY <1>1, <3>1, <3>2 DEF GoodReply
  <2>2. CASE p \notin replies
    <3>1. p.secret = secrets + 1
      BY <1>1, <2>2
    <3> QED BY <1>1, <1>3, <1>4, <1>5, <3>1 DEF GoodReply
  <2> QED BY <2>1, <2>2
<1> QED BY <1>1, <1>6, <1>7, <1>8 DEF InStep

\* A refresh that does not rotate is answered with an error, or is one the phone
\* no longer waits for, and takes nothing away.
LEMMA RefusalKeepsInStep ==
    ASSUME ExchangeTypes, InStep, NEW q \in requests, FinishRefresh(q),
           ~ (~ Ended(q.row) /\ Accepted(q) /\ StillAsRead(q))
    PROVE  InStep'
<1>1. PICK p \in replies' :
        /\ p.id = q.id
        /\ replies' = replies \union {p}
        /\ p.error \/ ~ (~ Ended(q.row) /\ Accepted(q))
  <2>1. PICK secret \in {0, secrets + 1}, error \in BOOLEAN :
          /\ Answer(q, secret, error)
          /\ ~ Ended(q.row) /\ Accepted(q) => error \/ StillAsRead(q)
    BY Answered
  <2> WITNESS [id |-> q.id, secret |-> secret, error |-> error] \in replies'
  <2> QED BY <2>1 DEF Answer
<1>2. /\ requests' = requests \ {q}
      /\ UNCHANGED <<sent, waiting, token, onDisk, signedOut, secrets>>
  BY DEF FinishRefresh, Answer, phoneVars
<1>3. /\ GoodRequest(q) /\ q \in [id : Nat \ {0}, secret : Nat, row : AnyRows]
      /\ q.row # NotRead /\ session \in AnyRows
  BY DEF FinishRefresh, InStep, ExchangeTypes, RowsInv
<1>4. ~ Ended(q.row) /\ (q.secret = q.row.prev => Accepted(q))
  BY <1>3 DEF GoodRequest, LiveRow, Ended, Accepted
<1>5. session' = session
  <2>1. CASE Accepted(q)
    BY <1>4, <2>1 DEF FinishRefresh
  <2>2. CASE ~ Accepted(q)
    <3>1. session' = [session EXCEPT !.revoked =
                        @ \/ (~ Ended(q.row) /\ q.secret = q.row.prev)]
      BY <2>2 DEF FinishRefresh
    <3>2. (~ Ended(q.row) /\ q.secret = q.row.prev) = FALSE
      BY <1>4, <2>2
    <3> QED BY <1>3, <3>1, <3>2 DEF AnyRows
  <2> QED BY <2>1, <2>2
<1>6. q.id = waiting => Accepted(q)
  <2> SUFFICES ASSUME q.id = waiting
               PROVE  Accepted(q)
    OBVIOUS
  <2>1. q.secret \in {session.current, session.prev}
    BY <1>3 DEF GoodRequest, InStep, GoodIn
  <2>2. /\ session.current = session.prev + 1 /\ q.row.current = q.row.prev + 1
        /\ q.secret <= q.row.current /\ q.row.current <= session.current
    BY <1>3 DEF GoodRequest, InStep, LiveRow
  <2>3. q.secret \in {q.row.current, q.row.prev}
    BY <1>3, <2>1, <2>2 DEF AnyRows
  <2> QED BY <1>4, <2>3 DEF Accepted
<1>7. GoodReply(p)'
  BY <1>1, <1>2, <1>4, <1>6 DEF GoodReply
<1> QED BY <1>1, <1>2, <1>5, <1>7 DEF InStep, GoodIn, GoodRequest, GoodReply

LEMMA FinishKeepsSignedIn ==
    ASSUME SignedInInv, NEW q \in requests, FinishRefresh(q) PROVE SignedInInv'
<1>1. RowsInv'
  BY RowsInvStep DEF SignedInInv, ExchangeTypes, SessionsNext
<1>2. /\ requests' \subseteq requests
      /\ UNCHANGED <<sent, waiting, token, onDisk, signedOut>>
      /\ missed => missed'
  BY DEF FinishRefresh, Answer, phoneVars
<1>3. \A p \in replies' \ replies :
        p \in [id : Nat \ {0}, secret : Nat, error : BOOLEAN] /\ p.id = q.id
  <2>1. PICK secret \in {0, secrets + 1}, error \in BOOLEAN : Answer(q, secret, error)
    BY Answered
  <2>2. secret \in Nat /\ q.id \in Nat \ {0}
    BY DEF SignedInInv, ExchangeTypes, RowsInv
  <2> QED BY <2>1, <2>2 DEF Answer
<1>4. ExchangeTypes'
  BY <1>1, <1>2, <1>3 DEF SignedInInv, ExchangeTypes
<1>5. ASSUME InStep, ~ missed'
      PROVE  InStep'
  BY <1>5, RotationKeepsInStep, RefusalKeepsInStep DEF SignedInInv
<1> QED BY <1>2, <1>4, <1>5 DEF SignedInInv

LEMMA SignedInInvStep == SignedInInv /\ [SessionsNext]_sessionVars => SignedInInv'
<1> SUFFICES ASSUME SignedInInv, [SessionsNext]_sessionVars
             PROVE  SignedInInv'
  OBVIOUS
<1>1. CASE SendRefresh
  BY <1>1, SendKeepsSignedIn
<1>2. ASSUME NEW p \in replies, ReceiveReply(p)
      PROVE  SignedInInv'
  BY <1>2, ReceiveKeepsSignedIn
<1>3. CASE GiveUpRefresh
  BY <1>3, PhoneKeepsSignedIn DEF GiveUpRefresh
<1>4. CASE WriteToken
  BY <1>4, PhoneKeepsSignedIn DEF WriteToken
<1>5. CASE RestartApp
  BY <1>5, PhoneKeepsSignedIn DEF RestartApp
<1>6. CASE SignOut
  <2>1. RowsInv'
    BY <1>6, RowsInvStep DEF SignedInInv, ExchangeTypes, SessionsNext
  <2>2. UNCHANGED <<requests, replies, sent, waiting>> /\ token' = 0 /\ onDisk' = 0
    BY <1>6 DEF SignOut, exchangeVars
  <2>3. signedOut'
    BY <1>6 DEF SignOut
  <2> QED BY <2>1, <2>2, <2>3 DEF SignedInInv, ExchangeTypes
<1>7. ASSUME NEW r \in requests, ReadSession(r)
      PROVE  SignedInInv'
  BY <1>7, ReadKeepsSignedIn
<1>8. ASSUME NEW r \in requests, FinishRefresh(r)
      PROVE  SignedInInv'
  BY <1>8, FinishKeepsSignedIn
<1>9. CASE GraceEnds
  <2>1. RowsInv'
    BY <1>9, RowsInvStep DEF SignedInInv, ExchangeTypes, SessionsNext
  <2>2. /\ session' = [session EXCEPT !.fresh = FALSE]
        /\ missed' = (missed \/ Behind)
        /\ UNCHANGED <<secrets, requests, replies, sent, waiting, token, onDisk, signedOut>>
    BY <1>9 DEF GraceEnds, exchangeVars, phoneVars
  <2>3. ExchangeTypes'
    BY <2>1, <2>2 DEF SignedInInv, ExchangeTypes
  <2>4. ASSUME InStep, ~ missed'
        PROVE  InStep'
    <3>1. /\ session \in AnyRows /\ session' \in AnyRows
          /\ session'.current = session.current /\ session'.prev = session.prev
          /\ session'.revoked = session.revoked /\ session'.expired = session.expired
          /\ ~ session'.fresh
      BY <2>2 DEF SignedInInv, ExchangeTypes, RowsInv, AnyRows
    <3>2. token = session.current /\ onDisk = session.current
      BY <2>2, <2>4, <3>1 DEF InStep, GoodIn, Behind, AnyRows
    <3>3. LiveRow(session)' /\ (secrets = session.current)'
          /\ GoodIn(token, session)' /\ GoodIn(onDisk, session)'
      BY <2>2, <2>4, <3>1, <3>2 DEF InStep, LiveRow, GoodIn
    <3>4. ASSUME NEW r \in requests
          PROVE  GoodRequest(r)'
      <4>1. GoodRequest(r) /\ (r.id = waiting \/ r.secret = session.current)
        BY <1>9, <2>4 DEF GraceEnds, InStep
      <4>2. r.secret = session.current \/ r.secret = token
        BY <4>1 DEF GoodRequest
      <4>3. r.secret # session'.prev
        BY <2>4, <3>1, <3>2, <4>2 DEF InStep, LiveRow, AnyRows
      <4> QED BY <2>2, <3>1, <4>1, <4>3 DEF GoodRequest
    <3>5. \A p \in replies : GoodReply(p)'
      BY <2>2, <2>4, <3>1 DEF InStep, GoodReply
    <3> QED BY <2>2, <3>3, <3>4, <3>5 DEF InStep
  <2> QED BY <2>2, <2>3, <2>4 DEF SignedInInv
<1>10. CASE Expire
  <2>1. RowsInv'
    BY <1>10, RowsInvStep DEF SignedInInv, ExchangeTypes, SessionsNext
  <2>2. UNCHANGED <<requests, replies, sent, waiting, token, onDisk>> /\ signedOut'
    BY <1>10 DEF Expire, exchangeVars, phoneVars
  <2> QED BY <2>1, <2>2 DEF SignedInInv, ExchangeTypes
<1>11. CASE UNCHANGED sessionVars
  BY <1>11 DEF sessionVars, exchangeVars, phoneVars, SignedInInv, ExchangeTypes,
               RowsInv, InStep, GoodIn, GoodRequest, GoodReply
<1> QED BY <1>1, <1>2, <1>3, <1>4, <1>5, <1>6, <1>7, <1>8, <1>9, <1>10, <1>11
        DEF SessionsNext

\* A phone loses its session only by signing out, by the session's end, or after
\* it was left with the replaced secret for longer than the grace window or over
\* one more rotation, however many refreshes it gives up, sends again or loses
\* to a restart (service.go:101, client.ts:99).
THEOREM SignedInStays == SessionsSpec => []StaysSignedIn
<1>1. SessionsInit => SignedInInv
  BY SignedInInvInit
<1>2. SignedInInv /\ [SessionsNext]_sessionVars => SignedInInv'
  BY SignedInInvStep
<1>3. SignedInInv => StaysSignedIn
  BY DEF SignedInInv, InStep, GoodIn, ExchangeTypes, StaysSignedIn
<1> QED BY <1>1, <1>2, <1>3, PTL DEF SessionsSpec

=============================================================================
