SPECIFICATION PhoneSpec
CONSTANTS
 m1 = m1
 m2 = m2
 Ids = {m1, m2}
 Returning = {}
 RemovalsOverlap = FALSE
 RevertsOverlap = FALSE
 DocValue <- TwoDocValues
 RestValue <- TwoRestValues
 MaxUpdates = 5
 MaxFaults = 1
 Matches = {m1, m2}
 BestOf <- MCBestOf
 TeamOf <- MCTeamOf
 FullRack = 15
 Balls = {1, 2}
 Fouls = {4}
 Entries <- MCEntries
 MaxShots = 2
 GroupPlayers = {"g1", "g2", "g3"}
 GroupBestOf = 3
 GroupPots = {1, 5}
 GroupFouls = {4}
 MaxGroupShots = 2
 Racers = {"e1", "e2"}
 Target = 4
 RacePots = {4}
 RaceFouls = {4}
 TypedScores = {4}
 MaxRaceShots = 3
INVARIANTS PhoneTypeOK AlwaysReadable SettledIsSaved NothingLeftBehind ResultFollowsFrames SheetAgrees RemainingIsEnough GroupResultStands PlacesStand
PROPERTIES ImplementsSavedStore
CHECK_DEADLOCK FALSE
