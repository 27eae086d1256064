SPECIFICATION PartsSpec
CONSTANTS
 Leagues = {"h1", "l1"}
 Hubs = {"h1"}
 BatchSize = 2
 MaxChanges = 2
 MaxFaults = 2
 Watchers = {"w1"}
 MaxWatchers = 1
 MaxVersion = 3
 MaxRetries = 1
 MaxBreaks = 1
 MaxRequests = 3
 MaxSaves = 4
 Users = {"u1", "u2"}
 Clubs = {"l1"}
 CityHubs = {"h1"}
 Cards = {"c1", "c2"}
 CardLeague <- MCCardLeague
 NoOne = NoOne
 MaxLinks = 1
 PostsPerDay = 1
 MaxWrites = 2
 Cities = {"c1", "c2"}
 MaxRanks = 1
 MaxEdits = 1
 HistDocs = {"d1", "d2"}
 PageDocs = 2
 MaxPages = 2
 MaxHistVersion = 6
 MaxHistFaults = 1
 MaxQueued = 1
 Accounts = {"u1", "u2"}
 RatedMatches = {1, 2, 3}
 RatedCards = {"k1", "k2"}
 CardOf <- MCCardOf
 PlayedOn <- MCPlayedOn
 Scorer = "u1"
 CreatedOn <- MCCreatedOn
 MaxPairGames = 1
 PairWindow = 2
 NewAccountAge = 2
 Gain <- MCGain
 MaxRatingChanges = 4
 MaxRatingPasses = 2
 Phones = {"p1", "p2"}
 EntrantList <- MCEntrantList
 Formats = {"knockout", "round_robin"}
 Results <- MCResults
 MaxFixtures <- MCMaxFixtures
 MaxScores <- MCMaxScores
INVARIANTS PartsTypeOK StaleIsOwed SocketMissesNothing WatchersEndCurrent StaysSignedIn ConfirmedAsAgreed LeagueRecordsStand CommunityRulesHold BoardRowIsRanked MembersSeeTheHistory PublicRatingStands PlacesAgree
PROPERTIES StandingsCatchUp WatchersCatchUp EndIsFinal CardKeepsItsPerson
CHECK_DEADLOCK FALSE
