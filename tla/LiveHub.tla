------------------------------ MODULE LiveHub ------------------------------
(***************************************************************************)
(* Watching a match: the server sends every save of it to the sockets of   *)
(* its watchers, the phone merges each copy like a page of a pull, and the *)
(* poll goes on underneath.                                                *)
(*                                                                         *)
(* One match. A copy of it is its version; the version "tomb", if there is *)
(* one, is the deletion. A push publishes after its commit without a lock, *)
(* so publications may come in another order than the commits, and an      *)
(* operation that is sent again publishes again what it once stored. The   *)
(* scorer is one phone, so a higher version has the later updatedAt. The   *)
(* socket delivers in order or breaks. Who may watch, pings and the text   *)
(* of messages are left out.                                               *)
(***************************************************************************)
EXTENDS Integers, Sequences, FiniteSets, SequencesExt, FiniteSetsExt

CONSTANTS
    Watchers,
    MaxWatchers,    \* sockets per match (maxWatchers)
    MaxVersion,     \* bound: saves of the match
    MaxRetries,     \* bound: operations sent again after they were applied
    MaxBreaks       \* bound: connections that break

ASSUME LiveHubAssumption ==
    /\ IsFiniteSet(Watchers)
    /\ MaxWatchers \in Nat
    /\ MaxVersion \in Nat \ {0}
    /\ MaxRetries \in Nat
    /\ MaxBreaks \in Nat

VARIABLES
    version,        \* version of the stored match
    tomb,           \* the version that is its deletion, 0 if there is none
    unpublished,    \* answered pushes that did not publish yet
    retries,        \* operations sent again so far
    conn,           \* conn[w]: how far the watcher's connection is
    pending,        \* pending[w]: the copy in the watcher's channel, 0 if none
    wire,           \* wire[w]: copies sent over the socket
    shown,          \* shown[w]: the copy in the watcher's store, 0 if no row
    knownVersion,   \* knownVersion[w]: its entry of serverVersions
    pulled,         \* pulled[w]: its syncCursor
    pageOf,         \* pageOf[w]: the answer of a poll under way, 0 if none
    breaks,
    overtaken,      \* some push published after a later one had (history)
    revived         \* watchers whose deleted row came back (history)

hubVars  == <<version, tomb, unpublished, retries>>
sockVars == <<conn, pending, wire>>
rowVars  == <<shown, knownVersion, revived>>
pollVars == <<pulled, pageOf>>
liveVars == <<hubVars, sockVars, rowVars, pollVars, breaks, overtaken>>

Versions == 0..MaxVersion
\* "off": not connected, waiting to (re)connect, or not watching.
Stages == {"off", "authorized", "subscribed", "greeted", "open", "final"}

LiveTypeOK ==
    /\ version \in 1..MaxVersion
    /\ tomb \in {0, version}
    /\ unpublished \subseteq 1..version
    /\ retries \in 0..MaxRetries
    /\ conn \in [Watchers -> Stages]
    /\ pending \in [Watchers -> Versions]
    /\ wire \in [Watchers -> Seq(Versions)]
    /\ shown \in [Watchers -> Versions]
    /\ knownVersion \in [Watchers -> Versions]
    /\ pulled \in [Watchers -> Versions]
    /\ pageOf \in [Watchers -> Versions]
    /\ breaks \in 0..MaxBreaks
    /\ overtaken \in BOOLEAN
    /\ revived \subseteq Watchers

\* Every watcher has pulled the match and has its screen open.
LiveInit ==
    /\ version = 1
    /\ tomb = 0
    /\ unpublished = {}
    /\ retries = 0
    /\ conn = [w \in Watchers |-> "off"]
    /\ pending = [w \in Watchers |-> 0]
    /\ wire = [w \in Watchers |-> <<>>]
    /\ shown = [w \in Watchers |-> 1]
    /\ knownVersion = [w \in Watchers |-> 1]
    /\ pulled = [w \in Watchers |-> 1]
    /\ pageOf = [w \in Watchers |-> 0]
    /\ breaks = 0
    /\ overtaken = FALSE
    /\ revived = {}

-----------------------------------------------------------------------------
\* Faulty forms of definitions below, each a slip somebody could make.

\* The watcher joins the hub once the current copy has been sent.
Listening_FromOpen(w) == conn[w] = "open"

\* The copy that arrives is the truth.
MergedRow_Last(row, v) == IF v = tomb THEN 0 ELSE v

\* Who has a socket needs no poll.
PollDue_OnlyOffline(w) ==
    /\ pageOf[w] = 0
    /\ pulled[w] < version
    /\ conn[w] # "open"

-----------------------------------------------------------------------------
(***************************************************************************)
(* Saves and their publication                                             *)
(***************************************************************************)

Save ==
    /\ tomb = 0
    /\ version < MaxVersion
    /\ version' = version + 1
    /\ tomb' \in {0, version'}
    /\ unpublished' = unpublished \union {version'}
    /\ UNCHANGED <<retries, sockVars, rowVars, pollVars, breaks, overtaken>>

\* The phone missed the answer, or an abandoned request arrives late: the
\* operation gets its first answer again, and its copy is published again.
Retry(v) ==
    /\ retries < MaxRetries
    /\ v \notin unpublished
    /\ retries' = retries + 1
    /\ unpublished' = unpublished \union {v}
    /\ UNCHANGED <<version, tomb, sockVars, rowVars, pollVars, breaks, overtaken>>

\* Subscribed watchers, those whose current copy is not sent yet included.
Listening(w) == conn[w] \in {"subscribed", "greeted", "open"}

\* Publish replaces the copy a slow watcher has not taken yet.
Publish(v) ==
    /\ v \in unpublished
    /\ unpublished' = unpublished \ {v}
    /\ pending' = [w \in Watchers |-> IF Listening(w) THEN v ELSE pending[w]]
    /\ overtaken' = (overtaken \/ \E u \in (v + 1)..version : u \notin unpublished)
    /\ UNCHANGED <<version, tomb, retries, conn, wire, rowVars, pollVars, breaks>>

-----------------------------------------------------------------------------
(***************************************************************************)
(* A socket, on the server and on the phone                                *)
(***************************************************************************)

\* authorize. A match that is gone is refused for good (FINAL_CODES).
Connect(w) ==
    /\ conn[w] = "off"
    /\ shown[w] # 0
    /\ conn' = [conn EXCEPT ![w] = IF tomb = 0 THEN "authorized" ELSE "final"]
    /\ UNCHANGED <<hubVars, pending, wire, rowVars, pollVars, breaks, overtaken>>

\* One too many is turned away and tries again later.
Subscribe(w) ==
    /\ conn[w] = "authorized"
    /\ conn' = [conn EXCEPT ![w] =
            IF Cardinality({u \in Watchers : Listening(u)}) < MaxWatchers
            THEN "subscribed" ELSE "off"]
    /\ UNCHANGED <<hubVars, pending, wire, rowVars, pollVars, breaks, overtaken>>

\* The current copy goes first; a match deleted since is not sent.
SendCurrent(w) ==
    /\ conn[w] = "subscribed"
    /\ conn' = [conn EXCEPT ![w] = "greeted"]
    /\ wire' = IF tomb = 0
               THEN [wire EXCEPT ![w] = Append(@, version)] ELSE wire
    /\ UNCHANGED <<hubVars, pending, rowVars, pollVars, breaks, overtaken>>

\* The loop that hands over what the hub puts into the channel starts.
StartLoop(w) ==
    /\ conn[w] = "greeted"
    /\ conn' = [conn EXCEPT ![w] = "open"]
    /\ UNCHANGED <<hubVars, pending, wire, rowVars, pollVars, breaks, overtaken>>

SendPending(w) ==
    /\ conn[w] = "open"
    /\ pending[w] # 0
    /\ wire' = [wire EXCEPT ![w] = Append(@, pending[w])]
    /\ pending' = [pending EXCEPT ![w] = 0]
    /\ UNCHANGED <<hubVars, conn, rowVars, pollVars, breaks, overtaken>>

Closed(w, stage) ==
    /\ conn' = [conn EXCEPT ![w] = stage]
    /\ pending' = [pending EXCEPT ![w] = 0]
    /\ wire' = [wire EXCEPT ![w] = <<>>]
    /\ UNCHANGED <<hubVars, rowVars, pollVars, overtaken>>

Break(w) ==
    /\ conn[w] \notin {"off", "final"}
    /\ breaks < MaxBreaks
    /\ breaks' = breaks + 1
    /\ Closed(w, "off")

\* The screen notices that the match is gone and stops watching.
StopWatching(w) ==
    /\ shown[w] = 0
    /\ conn[w] \notin {"off", "final"}
    /\ Closed(w, "off")
    /\ UNCHANGED breaks

-----------------------------------------------------------------------------
(***************************************************************************)
(* Merging, live or from a poll                                            *)
(***************************************************************************)

MergedRow(row, v) ==
    IF v = tomb THEN 0 ELSE IF row = 0 THEN v ELSE Max({row, v})

\* applyServerDocs with this copy: the known version follows it, whichever
\* copy is kept.
MergeServerCopy(w, v) ==
    /\ shown' = [shown EXCEPT ![w] = MergedRow(@, v)]
    /\ knownVersion' = [knownVersion EXCEPT ![w] = v]
    /\ revived' = IF shown[w] = 0 /\ shown'[w] # 0
                  THEN revived \union {w} ELSE revived

ReceiveLive(w) ==
    /\ wire[w] # <<>>
    /\ MergeServerCopy(w, Head(wire[w]))
    /\ wire' = [wire EXCEPT ![w] = Tail(@)]
    /\ UNCHANGED <<hubVars, conn, pending, pollVars, breaks, overtaken>>

PollDue(w) ==
    /\ pageOf[w] = 0
    /\ pulled[w] < version

Poll(w) ==
    /\ PollDue(w)
    /\ pageOf' = [pageOf EXCEPT ![w] = version]
    /\ UNCHANGED <<hubVars, sockVars, rowVars, pulled, breaks, overtaken>>

ApplyPolled(w) ==
    /\ pageOf[w] # 0
    /\ MergeServerCopy(w, pageOf[w])
    /\ pulled' = [pulled EXCEPT ![w] = pageOf[w]]
    /\ pageOf' = [pageOf EXCEPT ![w] = 0]
    /\ UNCHANGED <<hubVars, sockVars, breaks, overtaken>>

-----------------------------------------------------------------------------
LiveNext ==
    \/ Save
    \/ \E v \in 1..version : Retry(v)
    \/ \E v \in unpublished : Publish(v)
    \/ \E w \in Watchers :
        \/ Connect(w) \/ Subscribe(w) \/ SendCurrent(w) \/ StartLoop(w)
        \/ SendPending(w) \/ Break(w) \/ StopWatching(w)
        \/ ReceiveLive(w) \/ Poll(w) \/ ApplyPolled(w)

\* The app is open: its timer polls every ten seconds. Nothing else is needed.
LiveFairness == \A w \in Watchers : WF_liveVars(Poll(w) \/ ApplyPolled(w))

LiveSpec == LiveInit /\ [][LiveNext]_liveVars /\ LiveFairness

-----------------------------------------------------------------------------
(***************************************************************************)
(* Properties                                                              *)
(***************************************************************************)

Newest == IF tomb = 0 THEN version ELSE 0

\* The newest copy is on an open socket's way or taken over already: nothing
\* saved between the subscription and the first copy is missed, and a copy
\* replaced in the channel is replaced by a newer one. This needs the pushes to
\* publish in the order of their commits, which the server does not ensure
\* (service.go:93, live.go:45). A match deleted right before the subscription
\* is not announced at all (live.go:161): the poll finds that out.
SocketMissesNothing ==
    \A w \in Watchers :
        conn[w] = "open" /\ tomb = 0 /\ unpublished = {} /\ ~overtaken =>
            version \in {pending[w], shown[w]} \union Range(wire[w])

\* A watcher with nothing on its way shows the newest copy, in whatever order
\* the copies of the socket and of the poll came. The exception is a deleted
\* match: a copy of before the deletion brings the row back, and nothing takes
\* it away again (live.ts:73, apply.ts mergeDocs).
WatchersEndCurrent ==
    \A w \in Watchers :
        wire[w] = <<>> /\ pending[w] = 0 /\ pulled[w] = version =>
            shown[w] = Newest \/ (tomb # 0 /\ w \in revived)

\* Without any help of the socket a watcher comes to show the last copy: "the
\* regular 10 s poll keeps working underneath if this fails" (live.ts:22).
WatchersCatchUp ==
    \A w \in Watchers : <>[](shown[w] = Newest \/ w \in revived)

============================================================================
