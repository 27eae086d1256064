--------------------------- MODULE LeagueHistory ---------------------------
(***************************************************************************)
(* What one phone of a user shows of a league written by others, while the *)
(* user joins and leaves it on this phone and on others. The change feed   *)
(* (see OrderedFeed) brings what is newer than the phone's cursor in the   *)
(* leagues the user belongs to; a league's documents from before the join  *)
(* are older than the cursor, so joining fetches its history apart from    *)
(* the feed and beside it.                                                 *)
(*                                                                         *)
(* One league, a club or a city hub, exists before the user joins it. What *)
(* this phone writes itself is in OfflineSync, the server's rules for      *)
(* joining in Membership. A document written later has a later updatedAt.  *)
(***************************************************************************)
EXTENDS Naturals, Sequences, FiniteSets, FiniteSetsExt

CONSTANTS
    HistDocs,           \* documents of the league besides its own
    PageDocs,           \* documents per page (500)
    MaxPages,           \* pages of one fetch of the history (40)
    MaxHistVersion,     \* bound: writes at the server
    MaxHistFaults,      \* bound: lost answers, kills of the app, sign-outs
    MaxQueued           \* bound: queued joins and leaves

ASSUME HistoryAssumption ==
    /\ IsFiniteSet(HistDocs) /\ HistDocs \intersect {"league", "elsewhere"} = {}
    /\ {PageDocs, MaxPages} \subseteq Nat \ {0}
    /\ {MaxHistVersion, MaxHistFaults, MaxQueued} \subseteq Nat
    /\ MaxHistVersion >= Cardinality(HistDocs) + 2

VARIABLES
    leagueKind,     \* "club" or "city"
    histStored,     \* the server's documents, with those of another league as one
    memberRow,      \* the user has a row in league_members
    cursor,         \* syncCursor
    histCopy,       \* histCopy[d]: the version of d this phone shows, 0 for none
    leagueRow,      \* the user in the memberUids of the phone's copy of the league
    queue,          \* queued joins and leaves of a hub
    feedPage,       \* the page of the feed under way, without what it merged
    visit,          \* the join and the fetch of the history under way
    histFaults,
    histMissed,     \* part of the history was never fetched (history)
    histRevived     \* deleted documents an old page brought back (history)

histServer == <<histStored, memberRow>>
histPhone == <<histCopy, leagueRow, queue>>
historyVars == <<leagueKind, histServer, cursor, histPhone, feedPage, visit, histFaults,
                 histMissed, histRevived>>

LeagueDocs == HistDocs \union {"league"}
Names == LeagueDocs \union {"elsewhere"}

NoPage == [docs |-> <<>>, cursor |-> 0, more |-> FALSE, owed |-> FALSE]
NoVisit == [step |-> "none", page |-> NoPage, since |-> 0, pages |-> 0,
            before |-> "none", owed |-> FALSE]

Copies == [version : 0..MaxHistVersion, state : {"live", "dead", "in", "out"}]
IsPage(p) ==
    /\ DOMAIN p.docs \subseteq Names
    /\ \A n \in DOMAIN p.docs : p.docs[n] \in Copies
    /\ p.cursor \in 0..MaxHistVersion
    /\ {p.more, p.owed} \subseteq BOOLEAN

HistoryTypeOK ==
    /\ leagueKind \in {"club", "city"}
    /\ histStored \in [Names -> Copies]
    /\ memberRow \in BOOLEAN
    /\ cursor \in 0..MaxHistVersion
    /\ histCopy \in [HistDocs -> 0..MaxHistVersion]
    /\ leagueRow \in {"none", "in", "out"}
    /\ queue \in Seq({"join", "leave"}) /\ Len(queue) <= MaxQueued
    /\ IsPage(feedPage)
    /\ visit.step \in {"none", "joined", "fetch", "page"}
    /\ IsPage(visit.page)
    /\ visit.pages \in 0..MaxPages
    /\ histFaults \in 0..MaxHistFaults
    /\ histMissed \in BOOLEAN
    /\ histRevived \subseteq HistDocs

\* The league was there first; the user's latest elsewhere is later than all of it.
FirstVersion == CHOOSE f \in [Names -> 1..Cardinality(Names)] :
    /\ f["league"] = 1 /\ f["elsewhere"] = Cardinality(Names)
    /\ \A n, k \in Names : n # k => f[n] # f[k]

HistoryInit ==
    /\ leagueKind \in {"club", "city"}
    /\ histStored = [n \in Names |-> [version |-> FirstVersion[n],
                                      state |-> IF n = "league" THEN "out" ELSE "live"]]
    /\ memberRow = FALSE
    /\ cursor = 0
    /\ histCopy = [d \in HistDocs |-> 0]
    /\ leagueRow = "none"
    /\ queue = <<>>
    /\ feedPage = NoPage /\ visit = NoVisit
    /\ histFaults = 0
    /\ histMissed = FALSE /\ histRevived = {}

-----------------------------------------------------------------------------
(***************************************************************************)
(* The server                                                              *)
(***************************************************************************)
LastVersion == Max({histStored[n].version : n \in Names})

Put(n, state) ==
    /\ LastVersion < MaxHistVersion
    /\ histStored' = [histStored EXCEPT ![n] = [version |-> LastVersion + 1, state |-> state]]

\* A join before the phone has the history leaves it to be fetched.
AddUser ==
    /\ memberRow' = TRUE
    /\ IF memberRow THEN UNCHANGED <<histStored, histMissed>>
       ELSE Put("league", "in") /\ histMissed' = TRUE

RemoveUser == memberRow' = FALSE /\ Put("league", "out")

\* The feed reads the documents of every league the user has a row in.
Readable == {"elsewhere"} \union (IF memberRow THEN LeagueDocs ELSE {})

\* The documents of names above since, oldest first and at most a page.
PageOf(names, since) ==
    LET newer == {n \in names : histStored[n].version > since}
        older(n) == {k \in newer : histStored[k].version < histStored[n].version}
        taken == {n \in newer : Cardinality(older(n)) < PageDocs}
    IN  [docs |-> [n \in taken |-> histStored[n]],
         cursor |-> Max({since} \union {histStored[n].version : n \in taken}),
         more |-> taken # newer, owed |-> FALSE]

\* Other members write and delete; so does the user in other leagues.
WriteElse(n) ==
    /\ histStored[n].state = "live"
    /\ \/ Put(n, "live")
       \/ n \in HistDocs /\ Put(n, "dead")
    /\ UNCHANGED <<leagueKind, memberRow, cursor, histPhone, feedPage, visit,
                   histFaults, histMissed, histRevived>>

OtherPhoneJoins ==
    /\ ~memberRow /\ AddUser
    /\ UNCHANGED <<leagueKind, cursor, histPhone, feedPage, visit, histFaults,
                   histRevived>>

\* Only a hub is left from a phone, by moving to another city.
OtherPhoneLeaves ==
    /\ leagueKind = "city" /\ memberRow /\ RemoveUser
    /\ UNCHANGED <<leagueKind, cursor, histPhone, feedPage, visit, histFaults,
                   histMissed, histRevived>>

-----------------------------------------------------------------------------
(***************************************************************************)
(* Merging                                                                 *)
(***************************************************************************)

\* A tombstone removes the row, else the later copy stays.
MergedCopy(docs) ==
    [d \in HistDocs |->
        IF d \notin DOMAIN docs THEN histCopy[d]
        ELSE IF docs[d].state = "dead" THEN 0
        ELSE Max({histCopy[d], docs[d].version})]

\* A queued join or leave keeps the phone's own members.
MergedLeague(docs) ==
    IF "league" \in DOMAIN docs /\ queue = <<>> THEN docs["league"].state ELSE leagueRow

ApplyDocs(docs) ==
    /\ histCopy' = MergedCopy(docs)
    /\ leagueRow' = MergedLeague(docs)
    /\ UNCHANGED queue

\* Everything of the league leaves the phone, with what is queued for it.
WithoutLeague ==
    /\ histCopy' = IF leagueRow = "none" THEN histCopy ELSE [d \in HistDocs |-> 0]
    /\ queue' = IF leagueRow = "none" THEN queue ELSE <<>>

Dead(docs) == {d \in DOMAIN docs : docs[d].state = "dead"}

-----------------------------------------------------------------------------
(***************************************************************************)
(* The feed                                                                *)
(***************************************************************************)
Fault == histFaults < MaxHistFaults /\ histFaults' = histFaults + 1

Pull ==
    /\ feedPage = NoPage
    /\ PageOf(Readable, cursor).docs # <<>>
    /\ feedPage' = PageOf(Readable, cursor)
    /\ UNCHANGED <<leagueKind, histServer, cursor, histPhone, visit, histFaults,
                   histMissed, histRevived>>

\* The cursor moves up to the page's, from wherever it is by now.
MovedCursor(page) == Max({cursor, page.cursor})

\* The page is merged first; the cursor follows by an update of its own.
Merged == feedPage.docs = <<>>

ApplyPull ==
    /\ ~ Merged
    /\ ApplyDocs(feedPage.docs)
    /\ feedPage' = [feedPage EXCEPT !.docs = <<>>]
    /\ histRevived' = histRevived \ Dead(feedPage.docs)
    /\ UNCHANGED <<leagueKind, histServer, cursor, visit, histFaults, histMissed>>

MoveCursor ==
    /\ feedPage # NoPage /\ Merged
    /\ cursor' = MovedCursor(feedPage)
    /\ feedPage' = NoPage
    /\ histMissed' = (histMissed \/ feedPage.owed)
    /\ UNCHANGED <<leagueKind, histServer, histPhone, visit, histFaults, histRevived>>

LosePull ==
    /\ ~ Merged /\ Fault
    /\ feedPage' = NoPage
    /\ UNCHANGED <<leagueKind, histServer, cursor, histPhone, visit, histMissed,
                   histRevived>>

\* Sign out and in again: the cursor starts over, so the feed brings all of
\* the history. A page asked for before is still under way; when it comes it
\* moves the cursor, and what was missing stays so.
SignOutAndIn ==
    /\ visit = NoVisit /\ cursor > 0 /\ Fault
    /\ cursor' = 0
    /\ histMissed' = FALSE
    /\ feedPage' = IF feedPage = NoPage THEN NoPage ELSE [feedPage EXCEPT !.owed = histMissed]
    /\ UNCHANGED <<leagueKind, histServer, histPhone, visit, histRevived>>

-----------------------------------------------------------------------------
(***************************************************************************)
(* Joining and the history                                                 *)
(***************************************************************************)

\* A hub is joined again with each choice of its city and each accepted
\* challenge; a club only when this phone does not show the user in it.
MayJoin == visit = NoVisit /\ (leagueKind = "club" => leagueRow # "in")

JoinOnline ==
    /\ MayJoin
    /\ AddUser
    /\ visit' = [NoVisit EXCEPT !.step = "joined", !.before = leagueRow,
                                !.page.docs = [n \in {"league"} |-> histStored'[n]]]
    /\ UNCHANGED <<leagueKind, cursor, histPhone, feedPage, histFaults,
                   histRevived>>

\* The league's document is stored as it came, then the history is fetched.
ReceiveJoined ==
    /\ visit.step = "joined"
    /\ leagueRow' = visit.page.docs["league"].state
    /\ visit' = [visit EXCEPT !.step = "fetch", !.page = NoPage, !.owed = histMissed]
    /\ histMissed' = FALSE
    /\ UNCHANGED <<leagueKind, histServer, cursor, histCopy, queue, feedPage,
                   histFaults, histRevived>>

\* Only what the feed does not bring (faulty).
HistoryPage_FromCursor(since) == PageOf(LeagueDocs, Max({since, cursor}))

\* Whoever joins gets the history from its beginning.
HistoryPage(since) == PageOf(LeagueDocs, since)

FetchHistory ==
    /\ visit.step = "fetch" /\ memberRow
    /\ visit' = [visit EXCEPT !.step = "page", !.page = HistoryPage(visit.since)]
    /\ UNCHANGED <<leagueKind, histServer, cursor, histPhone, feedPage,
                   histFaults, histMissed, histRevived>>

\* The hub's row the screen read before it asked, or a new one, is written
\* over the stored one, unless the fetch ended well.
KeptRow(row) ==
    IF leagueKind = "club" THEN row
    ELSE IF visit.before = "none" THEN "in" ELSE visit.before

\* 403: the user left on another phone; the league is dropped here.
HistoryRefused ==
    /\ visit.step = "fetch" /\ ~memberRow
    /\ WithoutLeague
    /\ leagueRow' = KeptRow("none")
    /\ visit' = NoVisit
    /\ UNCHANGED <<leagueKind, histServer, cursor, feedPage, histFaults,
                   histMissed, histRevived>>

\* Shown again by a page read before their deletion, which the feed is past or
\* has merged.
Outlived(docs) == {d \in HistDocs \intersect DOMAIN docs :
                    /\ docs[d].state = "live" /\ histStored[d].state = "dead"
                    /\ \/ histStored[d].version <= cursor
                       \/ Merged /\ histStored[d].version <= feedPage.cursor}

\* A page of the history may be older than what the feed merged meanwhile:
\* a document deleted since comes back.
ApplyHistory ==
    /\ visit.step = "page"
    /\ ApplyDocs(visit.page.docs)
    /\ LET page == visit.page
           goOn == page.more /\ visit.pages + 1 < MaxPages
       IN  /\ visit' = IF goOn
                       THEN [visit EXCEPT !.step = "fetch", !.page = NoPage,
                                          !.since = page.cursor, !.pages = @ + 1]
                       ELSE NoVisit
           /\ histMissed' = (histMissed \/ (page.more /\ ~goOn /\ visit.owed))
           /\ histRevived' = (histRevived \union Outlived(page.docs)) \ Dead(page.docs)
    /\ UNCHANGED <<leagueKind, histServer, cursor, feedPage, histFaults>>

\* The history failed: logged, and the user is in the league without it.
FailHistory ==
    /\ visit.step \in {"fetch", "page"} /\ Fault
    /\ leagueRow' = KeptRow(leagueRow)
    /\ visit' = NoVisit
    /\ histMissed' = (histMissed \/ visit.owed)
    /\ UNCHANGED <<leagueKind, histServer, cursor, histCopy, queue, feedPage,
                   histRevived>>

\* No answer to the join, although the server did it: a club's shows an error,
\* a hub's is queued.
QueueJoin ==
    /\ leagueRow' = "in"
    /\ Len(queue) < MaxQueued /\ queue' = Append(queue, "join")

FailJoin ==
    /\ visit.step = "joined" /\ Fault
    /\ IF leagueKind = "club" THEN UNCHANGED <<leagueRow, queue>> ELSE QueueJoin
    /\ visit' = NoVisit
    /\ UNCHANGED <<leagueKind, histServer, cursor, histCopy, feedPage,
                   histMissed, histRevived>>

-----------------------------------------------------------------------------
(***************************************************************************)
(* Hubs through the queue                                                  *)
(***************************************************************************)
\* Offline, or the request to join was lost.
JoinOffline ==
    /\ leagueKind = "city" /\ visit = NoVisit
    /\ QueueJoin
    /\ UNCHANGED <<leagueKind, histServer, cursor, histCopy, feedPage, visit,
                   histFaults, histMissed, histRevived>>

LeaveHub ==
    /\ leagueKind = "city" /\ visit = NoVisit /\ leagueRow = "in"
    /\ leagueRow' = "out"
    /\ Len(queue) < MaxQueued /\ queue' = Append(queue, "leave")
    /\ UNCHANGED <<leagueKind, histServer, cursor, histCopy, feedPage, visit,
                   histFaults, histMissed, histRevived>>

\* The server's part of sending the oldest queued join or leave.
Perform ==
    \/ Head(queue) = "join" /\ AddUser
    \/ Head(queue) = "leave" /\ memberRow /\ RemoveUser /\ UNCHANGED histMissed
    \/ Head(queue) = "leave" /\ ~memberRow /\ UNCHANGED <<histServer, histMissed>>

\* The answer is the league's document, except to who was out already. The
\* history is not fetched.
SendQueued ==
    /\ queue # <<>>
    /\ Perform
    /\ leagueRow' = IF Head(queue) = "leave" /\ ~memberRow THEN leagueRow
                    ELSE histStored'["league"].state
    /\ queue' = Tail(queue)
    /\ UNCHANGED <<leagueKind, cursor, histCopy, feedPage, visit, histFaults,
                   histRevived>>

LoseAnswer ==
    /\ queue # <<>> /\ Fault
    /\ Perform
    /\ UNCHANGED <<leagueKind, cursor, histPhone, feedPage, visit, histRevived>>

\* The app is killed: what was under way is forgotten, the store is not.
KillApp ==
    /\ <<feedPage, visit>> # <<NoPage, NoVisit>> /\ Fault
    /\ feedPage' = NoPage /\ visit' = NoVisit
    /\ histMissed' = (histMissed \/ visit.owed)
    /\ UNCHANGED <<leagueKind, histServer, cursor, histPhone, histRevived>>

HistoryNext ==
    \/ \E n \in HistDocs \union {"elsewhere"} : WriteElse(n)
    \/ OtherPhoneJoins \/ OtherPhoneLeaves
    \/ Pull \/ ApplyPull \/ MoveCursor \/ LosePull \/ SignOutAndIn
    \/ JoinOnline \/ ReceiveJoined
    \/ FetchHistory \/ HistoryRefused \/ ApplyHistory \/ FailHistory \/ FailJoin
    \/ JoinOffline \/ LeaveHub \/ SendQueued \/ LoseAnswer \/ KillApp

HistorySpec == HistoryInit /\ [][HistoryNext]_historyVars

-----------------------------------------------------------------------------
\* A member's phone has everything of the league that the feed will not bring
\* any more, in its current copy and without what was deleted: the fetch of
\* the history and the feed, in any order and while others write, leave no
\* gap (pull.ts pullLeague beside pullAll, league.service.ts joinLeague,
\* city-hub.service.ts ensureCityHub). Left out are the phones that never
\* fetched the history (`histMissed`) and the deletions an old page of it undid
\* (`histRevived`).
MembersSeeTheHistory ==
    memberRow /\ visit = NoVisit /\ ~histMissed =>
        \A d \in HistDocs \ histRevived :
            histStored[d].version <= cursor =>
                histCopy[d] = IF histStored[d].state = "dead" THEN 0 ELSE histStored[d].version

=============================================================================
