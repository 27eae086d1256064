---------------------------- MODULE ProfileRank ----------------------------
(***************************************************************************)
(* A public profile and its place on a city's board. The person edits the  *)
(* profile (city, age division) and the stats worker writes the figures    *)
(* the board is sorted by, those of the person's own card in the city's    *)
(* hub. An edit is up to three steps of the server with no transaction     *)
(* around them: it reads the row, saves the new one, and queues a newly    *)
(* entered city. The worker is that of StatsWorker, seen from one person.  *)
(***************************************************************************)
EXTENDS Naturals, FiniteSets

CONSTANTS
    Cities,
    MaxRanks,       \* bound: the figures of a card are 0..MaxRanks
    MaxEdits        \* bound: edits on their way at once

ASSUME ProfileRankAssumption ==
    /\ Cities # {} /\ "none" \notin Cities
    /\ MaxRanks \in Nat /\ MaxEdits \in Nat

\* No row, which no rule tells from a row that is on no board and unranked.
Nobody == [board |-> "none", rank |-> 0, sort |-> 0]

VARIABLES
    profile,    \* city_id of the row, its rank fields, its sort_value
    edits,      \* edits that have read the row
    marks,      \* cities that edits have entered and are still to queue
    hubCards,   \* hubCards[c]: figures of the person's live card in c, in a set
    rankQueue,  \* hubs queued for the worker
    rankBatch,  \* hubs of the claimed batch the worker is not done with
    ranking,    \* the hub it has loaded, with the figures it saw, in a set
    unranked    \* hubs that nobody will rank though their mark was lost, or a
                \* row was put over another in them (history)

profileVars == <<profile, edits, marks, hubCards, rankQueue, rankBatch, ranking, unranked>>
jobVars == <<rankBatch, ranking>>

\* The worker has still to load these hubs.
WillLoad == rankQueue \union (rankBatch \ {j.city : j \in ranking})

Figures == {{}} \union {{f} : f \in 0..MaxRanks}

ProfileRows == [board : Cities \union {"none"}, rank : 0..MaxRanks, sort : 0..MaxRanks]

ProfileTypeOK ==
    /\ profile \in ProfileRows
    /\ edits \subseteq [id : 1..MaxEdits, read : ProfileRows, save : ProfileRows]
    /\ marks \subseteq [id : 1..MaxEdits, city : Cities]
    /\ hubCards \in [Cities -> Figures]
    /\ rankQueue \subseteq Cities /\ rankBatch \subseteq Cities
    /\ ranking \subseteq [city : rankBatch, figures : Figures]
    /\ Cardinality(ranking) <= 1
    /\ unranked \subseteq Cities

ProfileInit ==
    /\ profile = Nobody
    /\ edits = {} /\ marks = {}
    /\ hubCards = [c \in Cities |-> {}]
    /\ rankQueue = {} /\ rankBatch = {} /\ ranking = {} /\ unranked = {}

-----------------------------------------------------------------------------
(***************************************************************************)
(* An edit of the profile                                                  *)
(***************************************************************************)

\* The figures as the phone last saw them (faulty).
RankKept_Sent(current, city, seen) == [rank |-> seen, sort |-> seen]

\* keepServerRank: the figures on record are kept whatever the phone sends, and
\* a row that enters a city is sorted last there.
RankKept(current, city, seen) ==
    [rank |-> current.rank,
     sort |-> IF current.board = city THEN current.sort ELSE 0]

\* An under-18 profile is left off the city's board.
CheckProfile(city, minor, seen) ==
    /\ \E id \in 1..MaxEdits \ {w.id : w \in edits \union marks} :
        LET kept == RankKept(profile, city, seen)
            row == [board |-> IF minor THEN "none" ELSE city,
                    rank |-> kept.rank, sort |-> kept.sort]
        IN  edits' = edits \union {[id |-> id, read |-> profile, save |-> row]}
    /\ UNCHANGED <<profile, marks, hubCards, rankQueue, jobVars, unranked>>

\* A profile that enters a city has still to be queued for its ranking.
EntersCity(w) == w.save.board \notin {"none", w.read.board}

\* A row put over another than the one read may have neither its figures nor a
\* mark.
SaveProfile(w) ==
    /\ profile' = w.save
    /\ unranked' = unranked \union
           (IF w.read = profile THEN {}
            ELSE {w.save.board} \ ({"none"} \union rankQueue \union rankBatch))
    /\ edits' = edits \ {w}
    /\ marks' = marks \union
                    (IF EntersCity(w) THEN {[id |-> w.id, city |-> w.save.board]} ELSE {})
    /\ UNCHANGED <<hubCards, rankQueue, jobVars>>

MarkCity(m) ==
    /\ rankQueue' = rankQueue \union {m.city}
    /\ unranked' = unranked \ {m.city}
    /\ marks' = marks \ {m}
    /\ UNCHANGED <<profile, edits, hubCards, jobVars>>

\* A statement of the edit fails, or the server restarts. The phone sends the
\* edit again, which finds the city on record: a lost mark is not made up for.
EditFails(w) ==
    /\ edits' = edits \ {w}
    /\ UNCHANGED <<profile, marks, hubCards, rankQueue, jobVars, unranked>>

MarkFails(m) ==
    /\ marks' = marks \ {m}
    /\ unranked' = unranked \union ({m.city} \ (rankQueue \union rankBatch))
    /\ UNCHANGED <<profile, edits, hubCards, rankQueue, jobVars>>

-----------------------------------------------------------------------------
(***************************************************************************)
(* The ranking, and the deletion of the account                            *)
(***************************************************************************)

\* The person's card in a hub is made, claimed, left or deleted, or it has other
\* figures. Not every change puts a mark that the worker will see.
CardChanges(c, figures, marked) ==
    /\ figures # hubCards[c]
    /\ hubCards' = [hubCards EXCEPT ![c] = figures]
    /\ rankQueue' = rankQueue \union (IF marked THEN {c} ELSE {})
    /\ unranked' = IF marked THEN unranked \ {c} ELSE unranked \union ({c} \ WillLoad)
    /\ UNCHANGED <<profile, edits, marks, jobVars>>

ClaimHubs(hubs) ==
    /\ rankBatch = {} /\ hubs # {}
    /\ rankBatch' = hubs
    /\ rankQueue' = rankQueue \ hubs
    /\ UNCHANGED <<profile, edits, marks, hubCards, ranking, unranked>>

LoadHub(c) ==
    /\ ranking = {}
    /\ ranking' = {[city |-> c, figures |-> hubCards[c]]}
    /\ UNCHANGED <<profile, edits, marks, hubCards, rankQueue, rankBatch, unranked>>

\* cityRanks speaks of people with a card of their own; SetCityRank is one
\* statement, and only while the profile is in that city.
SetCityRank(j) ==
    /\ profile' = IF j.figures # {} /\ profile.board = j.city
                  THEN [profile EXCEPT !.rank = CHOOSE f \in j.figures : TRUE,
                                       !.sort = CHOOSE f \in j.figures : TRUE]
                  ELSE profile
    /\ ranking' = {} /\ rankBatch' = rankBatch \ {j.city}
    /\ UNCHANGED <<edits, marks, hubCards, rankQueue, unranked>>

\* A hub fails: it goes back on the queue, and the rest of the batch is lost. So
\* is the batch when that fails too, or when the process ends.
HubFails(c) ==
    /\ \A j \in ranking : j.city = c
    /\ rankQueue' = rankQueue \union {c}
    /\ unranked' = (unranked \ {c}) \union ((rankBatch \ {c}) \ rankQueue)
    /\ rankBatch' = {} /\ ranking' = {}
    /\ UNCHANGED <<profile, edits, marks, hubCards>>

WorkerStops ==
    /\ rankBatch # {}
    /\ unranked' = unranked \union (rankBatch \ rankQueue)
    /\ rankBatch' = {} /\ ranking' = {}
    /\ UNCHANGED <<profile, edits, marks, hubCards, rankQueue>>

ForgetProfile ==
    /\ profile' = Nobody
    /\ UNCHANGED <<edits, marks, hubCards, rankQueue, jobVars, unranked>>

ProfileNext ==
    \/ \E city \in Cities, minor \in BOOLEAN, seen \in 0..MaxRanks : CheckProfile(city, minor, seen)
    \/ \E w \in edits : SaveProfile(w) \/ EditFails(w)
    \/ \E m \in marks : MarkCity(m) \/ MarkFails(m)
    \/ \E c \in Cities, figures \in Figures, marked \in BOOLEAN : CardChanges(c, figures, marked)
    \/ \E hubs \in SUBSET rankQueue : ClaimHubs(hubs)
    \/ \E c \in rankBatch : LoadHub(c) \/ HubFails(c)
    \/ \E j \in ranking : SetCityRank(j)
    \/ WorkerStops
    \/ ForgetProfile

ProfileSpec == ProfileInit /\ [][ProfileNext]_profileVars

-----------------------------------------------------------------------------
(***************************************************************************)
(* Properties                                                              *)
(***************************************************************************)

\* The worker has still to rank c, or is about to write its present figures.
RankOwed(c) ==
    \/ c \in rankQueue
    \/ c \in rankBatch /\ \A j \in ranking : j.city = c => j.figures = hubCards[c]
    \/ \E m \in marks : m.city = c

\* A profile on a city's board shows the figures of the person's card there, or
\* the city is owed a ranking that will see the card: whatever a phone sends,
\* wherever the person moves, however old they say they are, and through the
\* failures of the worker. The exceptions are a city without a card of theirs,
\* which nobody ranks, and the hubs of `unranked`, until they are queued again
\* (service.go:84-106, 437-443, worker.go:108-137, 194-235).
BoardRowIsRanked ==
    LET c == profile.board
    IN  \/ c = "none" \/ c \in unranked \/ RankOwed(c)
        \/ hubCards[c] = {}
        \/ hubCards[c] = {profile.rank} /\ profile.rank = profile.sort

============================================================================
