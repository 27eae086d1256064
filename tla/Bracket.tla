------------------------------ MODULE Bracket ------------------------------
(***************************************************************************)
(* A tournament. Its bracket (or table) is stored nowhere: every phone and *)
(* the public page work it out from the fixtures they hold, which are      *)
(* matches tagged with a round and a slot. Phones start fixtures from the  *)
(* bracket they see, offline too; the phone that started a fixture scores  *)
(* it, and edits or reopens its result. A fixture deleted is taken for one *)
(* never started. Rounds and slots are counted from 0, as in the code;     *)
(* positions of sequences from 1.                                          *)
(***************************************************************************)
EXTENDS Integers, SequencesExt

CONSTANTS
    Phones,
    EntrantList,    \* entrants, best first
    Formats,        \* a subset of {"knockout", "round_robin"}
    Results,        \* results a match can end with
    MaxFixtures,    \* bound: fixtures ever started, by format
    MaxScores       \* bound: results entered, edited or reopened, by format

Entrants == ToSet(EntrantList)
NotDecided == ""

ASSUME BracketAssumption ==
    /\ IsInjective(EntrantList) /\ Len(EntrantList) >= 2
    /\ NotDecided \notin Entrants
    /\ Formats # {} /\ Formats \subseteq {"knockout", "round_robin"}
    /\ Results \subseteq [winner : {"a", "b"}, framesA : Nat, framesB : Nat]
    /\ MaxFixtures \in [Formats -> Nat] /\ MaxScores \in [Formats -> Nat]

Unplayed == [winner |-> NotDecided, framesA |-> 0, framesB |-> 0]
Fixtures == [id : Nat, by : Phones, round : Nat, slot : Nat,
             teamA : Entrants, teamB : Entrants, outcome : Results \union {Unplayed}]

VARIABLES
    format,
    held,       \* held[p]: fixtures on a phone, and on the "server"
    started,    \* how many fixtures were started
    scored      \* how often a result changed

bracketVars == <<format, held, started, scored>>

Places == Phones \union {"server"}

BracketTypeOK ==
    /\ format \in Formats
    /\ held \in [Places -> SUBSET Fixtures]
    /\ started \in 0..MaxFixtures[format] /\ scored \in 0..MaxScores[format]

BracketInit ==
    /\ format \in Formats
    /\ held = [p \in Places |-> {}]
    /\ started = 0 /\ scored = 0

-----------------------------------------------------------------------------
(***************************************************************************)
(* What counts for a slot                                                  *)
(***************************************************************************)

IsOver(f) == f.outcome # Unplayed
FixtureWinner(f) ==
    CASE f.outcome.winner = "a" -> f.teamA
      [] f.outcome.winner = "b" -> f.teamB
      [] OTHER -> NotDecided

Between(f, round, slot, a, b) ==
    f.round = round /\ f.slot = slot /\ {f.teamA, f.teamB} = {a, b}

\* Where fixtures between the two players are listed; the first of some places.
PlacesOf(listed, round, slot, a, b) ==
    {i \in DOMAIN listed : Between(listed[i], round, slot, a, b)}
Earliest(indices) == {i \in indices : \A j \in indices : i <= j}

\* The first fixture between the two players, started or finished (faulty).
FixtureFor_First(listed, round, slot, a, b) ==
    {listed[i] : i \in Earliest(PlacesOf(listed, round, slot, a, b))}

\* The fixture that counts, in a set: between exactly these two players, and a
\* finished one before one that is not.
FixtureFor(listed, round, slot, a, b) ==
    LET current == PlacesOf(listed, round, slot, a, b)
        finished == {i \in current : IsOver(listed[i])}
    IN  {listed[i] : i \in Earliest(IF finished # {} THEN finished ELSE current)}

SlotWinner(listed, round, slot, a, b) ==
    LET counts == FixtureFor(listed, round, slot, a, b)
    IN  IF counts = {} THEN NotDecided ELSE FixtureWinner(CHOOSE f \in counts : TRUE)

-----------------------------------------------------------------------------
(***************************************************************************)
(* Knockout                                                                *)
(***************************************************************************)

\* bracketSize: 2^rounds slots are enough for everybody.
KnockoutRounds == CHOOSE r \in 1..Len(EntrantList) :
    /\ 2^r >= Len(EntrantList)
    /\ \A q \in 1..(r - 1) : 2^q < Len(EntrantList)

\* Seed numbers by position: top seeds meet late.
SeedPositions == LET
    positions[r \in 1..KnockoutRounds] ==
        IF r = 1 THEN <<1, 2>>
        ELSE [i \in 1..2^r |->
                LET seed == positions[r - 1][(i + 1) \div 2]
                IN  IF i % 2 = 1 THEN seed ELSE 2^r + 1 - seed]
    IN positions[KnockoutRounds]

\* The entrant in a first-round position, or nobody: a bye.
SeededAt(i) ==
    LET seed == SeedPositions[i]
    IN  IF seed <= Len(EntrantList) THEN EntrantList[seed] ELSE NotDecided

Pairing(a, b, winner) == [a |-> a, b |-> b, winner |-> winner]

\* Knockout: rounds of slots, each fed by the winners of the two before it.
Knockout(listed) == LET
    rounds[r \in 0..(KnockoutRounds - 1)] ==
        [s \in 0..(2^(KnockoutRounds - 1 - r) - 1) |->
            LET a == IF r = 0 THEN SeededAt(2 * s + 1) ELSE rounds[r - 1][2 * s].winner
                b == IF r = 0 THEN SeededAt(2 * s + 2) ELSE rounds[r - 1][2 * s + 1].winner
            IN  Pairing(a, b,
                    CASE r = 0 /\ b = NotDecided -> a
                      [] r = 0 /\ a = NotDecided -> b
                      [] OTHER -> SlotWinner(listed, r, s, a, b))]
    IN rounds

-----------------------------------------------------------------------------
(***************************************************************************)
(* Round robin                                                             *)
(***************************************************************************)

\* Every pair once, in order: the position (from 0) is the fixture's slot.
RoundRobinPairs ==
    SetToSortSeq({p \in (1..Len(EntrantList)) \X (1..Len(EntrantList)) : p[1] < p[2]},
                 LAMBDA p, q : p[1] < q[1] \/ (p[1] = q[1] /\ p[2] < q[2]))

PlayerA(i) == EntrantList[RoundRobinPairs[i][1]]
PlayerB(i) == EntrantList[RoundRobinPairs[i][2]]

\* The finished fixtures that count, one for every pairing decided.
Counted(listed) ==
    {f \in UNION {FixtureFor(listed, 0, i - 1, PlayerA(i), PlayerB(i)) :
                    i \in DOMAIN RoundRobinPairs} : IsOver(f)}

FramesOf(f, p) == CASE f.teamA = p -> f.outcome.framesA [] f.teamB = p -> f.outcome.framesB [] OTHER -> 0
FramesAgainst(f, p) == CASE f.teamA = p -> f.outcome.framesB [] f.teamB = p -> f.outcome.framesA [] OTHER -> 0

FramesSum(f(_), fs) == FoldSet(LAMBDA x, n : n + f(x), 0, fs)

Standing(counted, p) ==
    [points |-> 2 * Cardinality({f \in counted : FixtureWinner(f) = p}),
     framesFor |-> FramesSum(LAMBDA f : FramesOf(f, p), counted),
     framesAgainst |-> FramesSum(LAMBDA f : FramesAgainst(f, p), counted)]

\* The table's order: points, frame difference, frames won, then seed.
Ahead(counted, p, q) ==
    LET s == Standing(counted, p)
        t == Standing(counted, q)
        seed(e) == CHOOSE i \in DOMAIN EntrantList : EntrantList[i] = e
        difference(x) == x.framesFor - x.framesAgainst
    IN  IF s.points # t.points THEN s.points > t.points
        ELSE IF difference(s) # difference(t) THEN difference(s) > difference(t)
        ELSE IF s.framesFor # t.framesFor THEN s.framesFor > t.framesFor
        ELSE seed(p) < seed(q)

RoundRobin(listed) ==
    LET counted == Counted(listed)
    IN  [pairings |-> [i \in DOMAIN RoundRobinPairs |->
                        Pairing(PlayerA(i), PlayerB(i),
                                SlotWinner(listed, 0, i - 1, PlayerA(i), PlayerB(i)))],
         rank |-> [p \in Entrants |-> {q \in Entrants \ {p} : Ahead(counted, q, p)}],
         completed |-> Cardinality(counted) = Len(RoundRobinPairs)]

\* deriveTournament, from the fixtures in the order a place lists them.
Derived(listed) == IF format = "knockout" THEN Knockout(listed) ELSE RoundRobin(listed)

-----------------------------------------------------------------------------
(***************************************************************************)
(* What happens to fixtures                                                *)
(***************************************************************************)

\* The players of a slot as a phone sees them.
SlotPlayers(listed, round, slot) ==
    IF format = "knockout" THEN Knockout(listed)[round][slot]
    ELSE Pairing(PlayerA(slot + 1), PlayerB(slot + 1), NotDecided)

Slots == IF format = "knockout"
         THEN UNION {{r} \X (0..(2^(KnockoutRounds - 1 - r) - 1)) : r \in 0..(KnockoutRounds - 1)}
         ELSE {0} \X (0..(Len(RoundRobinPairs) - 1))

\* The fixture that each slot opens: its matchId, with the frames shown there.
OpenedFrom(listed) ==
    [place \in Slots |->
        LET players == SlotPlayers(listed, place[1], place[2])
        IN  FixtureFor(listed, place[1], place[2], players.a, players.b)]

\* A phone starts the fixture of a slot, unless it sees one already.
StartFixture(p, round, slot) ==
    /\ started < MaxFixtures[format]
    /\ \E listed \in SetToSeqs(held[p]) :
        LET players == SlotPlayers(listed, round, slot)
        IN  /\ players.a # NotDecided /\ players.b # NotDecided
            /\ FixtureFor(listed, round, slot, players.a, players.b) = {}
            /\ held' = [held EXCEPT ![p] = @ \union
                {[id |-> started + 1, by |-> p, round |-> round, slot |-> slot,
                  teamA |-> players.a, teamB |-> players.b, outcome |-> Unplayed]}]
    /\ started' = started + 1
    /\ UNCHANGED <<format, scored>>

\* The result is reached, edited, or reopened.
ScoreFixture(p, f, outcome) ==
    /\ f.by = p /\ f.outcome # outcome
    /\ scored < MaxScores[format]
    /\ held' = [held EXCEPT ![p] = (@ \ {f}) \union {[f EXCEPT !.outcome = outcome]}]
    /\ scored' = scored + 1
    /\ UNCHANGED <<format, started>>

OwnFixtures(place, p) == {f \in held[place] : f.by = p}

\* A sync of the phone up to the server, and down from it: the whole of what it
\* owes and of what it lacks (OfflineSync has the pages and the failures).
SyncUp(p) ==
    /\ held' = [held EXCEPT !["server"] = (@ \ OwnFixtures("server", p)) \union OwnFixtures(p, p)]
    /\ UNCHANGED <<format, started, scored>>

SyncDown(p) ==
    /\ held' = [held EXCEPT ![p] = OwnFixtures(p, p) \union (held["server"] \ OwnFixtures("server", p))]
    /\ UNCHANGED <<format, started, scored>>

BracketNext ==
    \/ \E p \in Phones, place \in Slots : StartFixture(p, place[1], place[2])
    \/ \E p \in Phones : \E f \in held[p] :
        \/ \E outcome \in Results \union {Unplayed} : ScoreFixture(p, f, outcome)
    \/ \E p \in Phones : SyncUp(p) \/ SyncDown(p)

BracketSpec == BracketInit /\ [][BracketNext]_bracketVars

-----------------------------------------------------------------------------
(***************************************************************************)
(* Properties                                                              *)
(***************************************************************************)

\* A slot was played twice to the end, between the same players.
PlayedTwice(fs) ==
    \E f, g \in fs : f.id # g.id /\ IsOver(f) /\ IsOver(g)
                     /\ Between(f, g.round, g.slot, g.teamA, g.teamB)

\* A slot was started twice, and no fixture of it was played to the end.
StartedTwice(fs) ==
    \E f, g \in fs :
        /\ f.id # g.id /\ Between(f, g.round, g.slot, g.teamA, g.teamB)
        /\ \A h \in fs : Between(h, g.round, g.slot, g.teamA, g.teamB) => ~ IsOver(h)

\* Every phone and the public page that hold the same fixtures show the same
\* bracket, table and champion, in whatever order they list them, and open the
\* same match from each slot: with fixtures left over from before an earlier
\* result was edited, and with a slot that two phones started apart. The one
\* listed first counts where a slot was played twice to the end, and is opened
\* where a slot was started twice and not played; the server's query has no
\* order (bracket.go:107-129, pgrepo.go:291).
PlacesAgree ==
    \A fs \in {held[p] : p \in Places} : PlayedTwice(fs) \/
        /\ Cardinality({Derived(listed) : listed \in SetToSeqs(fs)}) = 1
        /\ StartedTwice(fs) \/ Cardinality({OpenedFrom(listed) : listed \in SetToSeqs(fs)}) = 1

============================================================================
