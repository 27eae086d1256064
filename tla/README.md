# A TLA+ model of Snookit

Snookit scores snooker matches on phones. A phone works without a network: it
keeps all data itself, queues what it changes, pushes the queue to a Go server
when it can, and pulls what other phones changed. The server decides who may
write, computes standings in the background and shows matches live. This
directory models that program, checks the model with TLC and proves parts of it
with TLAPS.

The code is under `src/`: the server in `src/backend` (Go, PostgreSQL), the app
in `src/frontend` (TypeScript, React Native).

## The system and its parts

| part | state | operations | what makes it hard |
|---|---|---|---|
| Change feed (`backend/internal/sync/{service,pgrepo,model,handler}.go`) | table `docs` (one row per document with version and tombstone), `change_version_seq`, `applied_ops`, an advisory lock | push (one transaction per operation), pull by version, pull of one league | concurrent transactions, reads without a lock, retries |
| Phone sync runtime (`frontend/src/shared/sync`) | `pendingOps`, `serverVersions`, `syncCursor`, `pullKindsVersion`, the flags `flushing`, `flushAgain`, `pulling` | `scheduleSync`, `flushPending`, `pullChanges`, `applyServerDocs`, rebase of refused writes | every `await` lets saves, answers and pages interleave; timeouts; kills |
| Saving on a phone (`features/match/services`, `shared/utils/serialize-write.ts`) | the rows of the local store | create, shot, settings and take-over, delete | the row and its queued operation are two steps |
| Write policy (`policy.go`) and result confirmation (`confirm.go`) | roles, the stored and the new document | `authorize`, `confirmingOwnResult`, `clearConfirmationsOnChange` | a permission depends on the data, which may be stale on the phone |
| Phone storage (`shared/storage`) | the store in memory, the snapshot of what is on disk, the disk | `updateStore`, `persist`, `loadStore` | overlapping saves, a kill between two writes |
| Membership, city hubs, claim links, account deletion (`membership.go`, `claims.go`, `account.go`) | `league_members`, member lists in league documents, claim links | join, leave, redeem, forget | what a person may see changes while their phone pulls |
| Stats worker (`backend/internal/stats/worker.go`, `public_rating.go`) | `stats_dirty`, standings, `public_ratings` | claim ten, recompute, requeue; the public rating every ten minutes | a failure or a crash after the claim |
| Sessions (`backend/internal/auth`, `shared/api/client.ts`) | refresh token hashes, rotation time | sign in, refresh, log out | parallel refreshes, a lost answer, the grace window |
| Live watching (`backend/internal/live`, `shared/sync/live.ts`) | one pending copy per watcher | publish, subscribe, socket | order of publications, merging beside the poll |
| Matches and frames (`match.service.ts`, `frame-engine.ts`, `table-state.ts`, `visit-breaks.ts`) | a match with its frames, the open frame's shots; everything else is a fold over them | shot, undo, concede, correct, delete, reopen | long sequences of legal corrections; several readings of one shot log |
| Group matches and races (`features/group`, `features/race`) | shots and order (group); totals, places and shots (race) | as above, drop-outs, typed-in scores | a total that is kept apart from the shots it came from |
| Tournament brackets (`bracket.go`, `bracket.ts`) | none, worked out from the fixtures | start, score, edit a fixture | every place works it out from the fixtures it happens to hold |
| Result confirmation (`confirm.go`, `match-confirm.service.ts`) | a field of the match | confirm, edit, clear | the field travels with documents that also change |
| Community (`backend/internal/community`) | challenges, follows, blocks, posts, profiles | checked write, block, rank | check and write are two steps without a transaction |
| Stats and rating computation, push notifications, public pages, screens | | | not modelled, see the end |

How they interact. A save changes the local row, then queues an operation
(`scheduleSync`). A flush pass sends the front of the queue to `/v1/sync/push`;
the server answers each operation applied, conflict or rejected, and the phone
updates its row, `serverVersions` and the queue in separate updates of its
store. Independently a pull asks for everything above `syncCursor` and merges
it. The two paths share `serverVersions`, the rows and the queue without a
lock, and most of what the properties below say is about that. On the server a
push marks the league for the stats worker, and publishes matches to the live
hub after its commit.

### What makes each part correct

* Feed: no pull passes a change by; versions become visible in order; a write
  is decided on the current row; a document of a new kind reaches phones that
  learn to read it.
* Sync runtime: nothing saved on a phone disappears unnoticed; an operation has
  one effect; the server's copy does not go back; a deletion is final; idle
  phones show what the server holds; the queue keeps its order and drains.
* Storage: the disk can be read after a kill at any moment and ends up equal to
  the store in memory, under conditions that the code does not enforce.
* Membership: a member's phone ends up with all of the league, including what is
  older than the join; the document phones get lists the members that permissions are
  decided by; a card never passes from one person to another; deletion leaves
  nothing behind.
* Stats worker: every change of a league is followed by a recomputation that
  saw it; the public rating counts what its rules say and is what profiles show.
* Sessions: a phone that only retries is never signed out; an ended session
  stays ended.
* Live hub: nothing is missed between subscription and first copy; a watcher
  ends with the newest copy in whatever order copies came.
* Matches: the stored result, the post and the champions follow from the frames
  however they were corrected; two readings of a shot log agree; "points
  remaining" is what the balls on can still give.
* Group matches: players are apart by what they potted less their fouls; the
  match is over exactly when nobody else can win it any more. Races: places are
  those of a ranking, and whoever reached the target has one.
* Brackets: places that hold the same fixtures show the same bracket.
* Confirmation: a confirmation on record was given to the result on record.
* Community: an answer stands, a block stops what comes after it, a daily limit
  is passed only by what was checked at once, a profile on a board shows the figures
  of the person's card in that city.

`PROJECT.json` lists the hazards with their lines and the properties that
cover them.

## Modules

| module | what it is |
|---|---|
| `OrderedFeed` | What phones rely on: changes are published one after another; a phone takes over a batch, advances its mark only over what it holds, may fall back to the start. |
| `ChangeFeed` | The feed as it is built: transactions, lock, sequence, pull query with LIMIT, cursor, opt-in kinds. Implements `OrderedFeed`. |
| `ChangeFeedProofs` | Proofs about `ChangeFeed`. |
| `OfflineSync` | Phones, their queues and flush passes, the server's push, conflicts and rebase, pulls, timeouts, kills. |
| `SavedStore` | What the phone's store promises: a start finds one whole store that was handed over to be saved, never a mixture, never an older one than before. |
| `StorePersistence` | The store in memory, the snapshot, the calls to AsyncStorage, the disk. Implements `SavedStore`. |
| `StorePersistenceProofs` | Proofs about `StorePersistence`. |
| `StatsWorker` | The queue of stale leagues, claims, recomputation, failures and restarts of the worker, writes with their marks. |
| `LiveHub` | Watchers of one match: publication, channel, socket, the poll beside it. |
| `Sessions` | One session: refresh as read, decide, conditional write; the phone's token in memory and on disk. |
| `PublicRating` | The public rating worked out from all matches every ten minutes, beside changes of matches, cards, accounts and profiles. |
| `Membership` | Leagues, members, cards, claim links, account deletion on the server. |
| `LeagueHistory` | One phone that joins and leaves a league written by others: the feed, and the fetch of the league's history beside it. |
| `ResultConfirmation` | A finished match between its scorer and its opponent. |
| `MatchFlow` | The life of a league's matches on the scoring phone. |
| `FrameEngine` | The frame on the table as replays of its shots; `Sums` adds up a sequence for it, for `GroupMatch` and for `PublicRating`. |
| `TurnOrder` | Playing order of more than two; used by the next two. |
| `GroupMatch`, `Race` | Matches of three or more, races. |
| `Bracket` | Tournaments worked out from fixtures on several phones and the server. |
| `Community`, `ProfileRank` | Checked writes between two people; a profile and its place on a city's board. |
| `OfflineSyncProofs` | Proofs about `OfflineSync`. |
| `ServerProofs` | Proofs about `StatsWorker`, `LiveHub` and `Sessions`. |
| `ReplayProofs` | Proofs about what is replayed from a list: `FrameEngine`, `GroupMatch` and `PublicRating`. |
| `MembershipProofs`, `CommunityProofs` | Proofs about the modules they are named after; `MembershipProofs` has those about `LeagueHistory` too, `CommunityProofs` those about `ProfileRank`. |
| `ResultProofs` | Proofs about `ResultConfirmation`, `Race`, `MatchFlow` and `Bracket`. |
| `MCChangeFeed`, `MCOfflineSync`, `MCStorePersistence` | Small instances for TLC. |
| `MCPhone` | One instance of what a phone does by itself: `StorePersistence` (from `MCStorePersistence`), `FrameEngine`, `MatchFlow`, `GroupMatch`, `Race`. They share no state, so `part` picks the one that moves. |
| `MCParts` | The same for the server's modules and what phones share: `StatsWorker`, `LiveHub`, `Sessions`, `Membership`, `Community`, `ProfileRank`, `ResultConfirmation`, `LeagueHistory`, `PublicRating`, `Bracket`. |

### ChangeFeed and the code

`tx`, `loaded`, `base`, `put` are the transactions of `InTx`: each starts, takes
the advisory lock (`LockWrites`), reads documents (`Get`), writes some of them
with the next number of the sequence (`Put`) and commits or rolls back. A
sequence number is never given back, so versions have gaps. Push has one
document per transaction; `ForgetUser` and `RedeemClaimLink` write several, so
the model allows any set. Readers take no lock: `PullPage` is one snapshot of
the committed rows, cut after `PageSize` (`pageOf`), `ApplyServerDocs` and
`SaveCursor` are the two store updates of `pullAll`, and `LosePage` is a lost
answer or a kill before the second one. `newBuild` and `kindsPulled` are the
opt-in kinds (`optInEntities`, `PULL_KINDS_VERSION`). A row is its version: two
copies of a document are equal when their versions are. Membership is left out:
the phone is a member of the league throughout.

Left out on purpose: `hasMore` and `MAX_PAGES_PER_PULL` only say when the
next page is asked for; the model may ask at any time.

### OfflineSync and the code

A match is two stamps, the last save of its shots and the last save of its
settings, with the `updatedAt` of the row: this is what `lastWriteWins` and
`resolveMatch` decide on. The number of a save is also the id of its operation.

* A save (`CreateMatch`, `WriteMatch`, `SaveSettings`, `DeleteMatch`) changes the
  row, `Enqueue` puts its operation into `pendingOps` with the coalescing and
  the sorting of `enqueue`. `serializeMatchWrite` allows one save of a phone
  between the two.
* A flush pass is `idle`, `checked` (the flag was seen clear), `ready` (between
  requests) or `sent`. `SendBatch` is one turn of the loop of `flushPending`
  with `takeBatch` and `toPushOp`. `Serve` is one operation in the server
  (`applyOne`, `apply`, `authorize`), `HandleResult` one turn of the loop of
  `pushDocBatch` with the store update it makes (`recordVersion`,
  `replaceWithServerDoc`, `storeRebasedRow`), `Settle` is `settle`.
* `Timeout` ends a pass without its answers (`bumpAttempts`); the rest of the
  request stays in `late` and may be carried out at any later time
  (`ServeLate`) or never.
* `PullPage` and `ApplyServerDocs` are a pull; a page holds all rows above the
  cursor (paging is in `ChangeFeed`).
* `Crash` is a kill: the store stays, everything in memory is gone, and a save
  that was not queued yet never is.

Taken as one step although the code has several: an update of the store with
its save to disk (`StorePersistence` opens it), the store updates of
`settle` (they touch different operations), and reading a row and saving it
(see the hazard at `shot.service.ts:68`). The phones' clocks agree. Who may
score, change settings or delete on a phone, and whose writes the server
accepts, are constants.

### StorePersistence and the code

`updateStore` replaces the store in memory (`UpdateStore`) and saves the
difference to the snapshot (`Diff`, `FirstCall`). A save is one call to
`multiSet`, then one to `multiRemove`, as far as they are needed; `calls` are
those made and not answered, in the order in which AsyncStorage carries them
out. `MultiSet` and `MultiRemove` are a call with the code that awaits it, up to
the next call or `commit` (`Commit`). `FailCall` is a call that throws: `persist`
catches it and records nothing. `LoadFromDisk` and `LoadFails` are a start,
`Kill` the end of a session at any moment, calls under way included.

The snapshot has two halves, and so has the model: `parts` is what each key was
last written as, `refs` the objects last seen. A document is the number of the
update that made the object; what it holds is `DocValue` or `RestValue` of that
number, any function, so two objects may hold the same. `Diff` compares references by
object and keys by value (`SameDoc`, `SameRest`), as the code compares what it
serialized. `array` is the identity of the list of matches, which changes whenever
any match does, while its list of ids may not. All keys that hold one collection each are `rest`, the
two collections with a key per document are one. `normalizeStore`, the order of
the ids and the several attempts to read are left out.

AsyncStorage is external. Assumed: calls take effect one after the other in the
order they were made, each whole or not at all, and a call that fails has no
effect.

Three constants describe the surroundings, and nothing in the code enforces
them. `RemovalsOverlap` is FALSE when an update that removes a match, or a save
that removes keys, only happens while no other save is under way. `Returning`
are the matches that may come back in the session that removed them, as a
rebased row does. `RevertsOverlap` is FALSE when no update gives a part a value that
the snapshot, the disk or a save under way has or had of it, while a newer one of these
has another (`NothingReverts`). That condition is not kept by the app: `pendingOps`
is filled and emptied again, and a key that was written with 1 stays 2 on disk when it is
set to 2 and back to 1 before the first of the two saves is answered
(`local-store.ts:194`, `store-persistence.ts:164`). In the
instance a part takes two values in turn, so it does go back to earlier ones whenever
the saves in between are over. What holds without these conditions, and what does not,
is said with each result.

### StatsWorker and the code

`changes[l]` counts committed writes of a league, `standings[l]` and `ranks[l]`
are the number of the last one they were computed from. `BeginWrite` is `Put`
with `MarkDirty` (`INSERT .. ON CONFLICT DO NOTHING`), `CommitWrite` makes both
visible. `ClaimDirty` deletes a batch from the queue in a statement of its own;
`Load`, `Replace` and `SetCityRanks` are `recompute`; `Fail` is its error path,
which puts that league back and ends the pass; `Restart` a process that ends
after a claim. `dropped` remembers the leagues whose mark was lost on the way,
and why that can happen is said at `StaleIsOwed`: the rest of a failed batch
(`worker.go:207`), a restart after the claim (`:199`), and a row that the worker
takes between a push's no-op `MarkDirty` and that push's commit. A write here is one
of a match, race or player card: league documents put no mark (`affectsStats`,
`service.go:243`), and neither do the tombstones of `ForgetUser`
(`sync/account.go:28`).

### LiveHub and the code

`Save` commits and leaves a publication to make, `Retry` is an operation that is sent
again, gets its stored answer and publishes its copy once more, and `Publish` replaces
the copy in each watcher's channel. `Connect`, `Subscribe`, `SendCurrent` and `StartLoop` are
the steps of the handler, `SendPending` its loop. `ReceiveLive` merges a copy as
`mergeServerCopy` does, `PollDue`, `Poll` and `ApplyPolled` are the watcher's
pull. `overtaken` and `revived` remember the two cases the code leaves open.

### Sessions and the code

A refresh is `SendRefresh`, `ReadSession`, `FinishRefresh` (rotation is an UPDATE
that is conditional on the secret that was read, `StillAsRead`) and
`ReceiveReply`. The phone may give it up, and be killed before `WriteToken`.
`GraceEnds` waits for requests the phone gave up: the server ends a request
after 30 seconds, the grace window is a minute.

### Membership and the code

An action is one transaction of the server; a push of a stale copy is not in it
(`ChangeFeed`). `WithMembers` is the replacement of the phone's member list by
the server's. A claim link is checked in one transaction and stored after it, so
`LoseLink` and an owner in the meantime are possible. `ForgetUser` and
`DeleteAccount` are two transactions with anything in between; `late` remembers
who wrote in between.

### LeagueHistory and the code

The server is the documents of one league, with those of the user's other leagues
as one, and the user's row in `league_members`. `Pull`, `ApplyPull` and `MoveCursor`
are a turn of the loop of `pullAll`; a page in flight may be applied at any later
time, and other steps come between its merge and the cursor's.
`JoinOnline` is the server's half of a join, `ReceiveJoined` the store of its
answer by `replaceWithServerDoc`; `FetchHistory`, `ApplyHistory`, `HistoryRefused`
and `FailHistory` are the loop of `pullLeague` with its ways out, for clubs
(`joinLeague`) and hubs (`ensureCityHub`). `QueueJoin` and `LeaveHub` queue a hub's
join or leave, `SendQueued` is `pushMembership`. Whoever redeems a claim link joins
in the same way. The phone's copy of the league is whether it lists the user;
what the phone writes itself is in `OfflineSync`. `histMissed` and `histRevived`
remember what the code gives no remedy for; each of the steps that set them is
needed in the instance that is checked.

### ResultConfirmation and the code

`DocumentFor` is what a phone sends (the opponent the confirmation alone, laid
over its row; a settings write the settings; else the row), `OnlyConfirms` is
`confirmingOwnResult`, `ClearedOnChange` is `clearConfirmationsOnChange`,
`PushConflict` the rebase. `Reinstall` gives a phone the server's row.

### PublicRating and the code

`RatedGames` is `ratedGame` for every match (walkovers, which are never rated, are
left out), `PublicRatings` the function of that name with its rating in units of
the module's own, from a gain that may be any function of two ratings. A pass is
`RecomputePublic`: `ReadCardOwners`, `ReadGames` with the accounts of that moment,
`ReplacePublicRatings`, one `SetPublicRating` for each row; it may be cut short
anywhere. `ReadProfile` and `SaveReadProfile` are a profile's `Put`, which keeps
the rating of the row it read. An account ends in one step here; its steps are
in `Membership`, `Community` and `ProfileRank`. `cutShort`, `notYetShown`,
`overwritten` and `leftBehind` remember why a profile need not show the table;
without any one of them the property fails in the instance. The rounding of a rating
(`public_rating.go:94`) is left out, so "no more than the base together" is up to half a
point an account.

### Scoring and the code

`MatchFlow` keeps frames as winner and "conceded"; `PersistMatchResult` is the
function of that name with the post and the champions it updates.
`FrameEngine` replays shots (`ReplayOpenFrame`, `VisitBreaks`,
`TableStateFromShots`); its actions are the taps. `UpdateFrameNow` corrects a
finished frame and leaves its shots alone, so reopening it brings back what the shots
gave (`scored` remembers it). `GroupMatch` replays points
with fouls that go below zero paid out to the others (`ApplyFoul`);
`GroupMatchWinner` stops a match early. `Race` keeps totals and places as the code
does (`ApplyTarget`, `PlacesForUnfinished`, `Reopened`). In `Bracket`,
`Knockout` and `RoundRobin` are the two derivations, over the fixtures in the
order in which they are listed; `OpenedFrom` is the match of each slot, with its
frames.

### Community, ProfileRank and the code

Every checked write is `Check..` (reads, rules) and `Save..`; a follow, challenge or post
may be saved long after its check, over whatever is there by then. A post is as old as
its phone says (`createdMillis`), so it counts for the day or not whenever it is sent.
`DeleteChallenge` is the challenger's, answered or not, after which the same id may be put
again as pending. `early` remembers the writes that were checked before a block.

`ProfileRank` is one person's row, their live cards and the worker as far as it concerns
them. `RankKept` is `keepServerRank`, `MarkCity` the mark after the profile's save.
`ClaimHubs`, `LoadHub`, `SetCityRank`, `HubFails` and `WorkerStops` are `RunOnce`: a batch is
claimed, a hub's cards are read, and the figures are set only for a person who has a card
there and whose profile is in that city; a failed or stopped batch loses its marks.
`CardChanges` is every change of a card, with or without a mark the worker will see.
`unranked` remembers the hubs whose mark was lost or in which a row was put over another.

## Runs

All bounds are constants: `MaxSeq`, `PageSize` (feed); `MaxClock` (number of
saves, the first version included), `MaxFaults` (timeouts and kills together),
`MaxAttempts`, `MaxBatch`, `MaxBody` (sync); `MaxUpdates`, `MaxFaults` (calls and
reads that fail; storage). Those of `MCPhone` and `MCParts` are in their cfgs and explained below.

| run | instance | shows |
|---|---|---|
| `change_feed` | 3 documents (one opt-in), 2 transactions, 1 phone, page of 1, 3 numbers | 80,688 states. `NoChangeSkipped`, `VisibleInOrder`, `DecidedOnCurrent`, refinement of `OrderedFeed`, and `ChangeReachesPhone` under fairness. |
| `one_scorer` | 2 phones, 2 matches, 3 saves, 1 fault | 364,918 states. One phone writes, the other watches: `ShownIsOwedOrStored`, `NothingUndone`, `Converges`. |
| `two_passes` | 2 phones, 1 match, 2 saves, 1 fault, two passes on the scorer's phone | 285,599 states. `AppliedOnce` when passes overlap and send the same operations. |
| `shared_editing` | 2 phones write, 2 matches, 3 saves, give-up after 2 attempts | 1,099,235 states. `QueueDiscipline`, `TombstoneFinal`, `QueueLeavesOnlyAnswered` while writes conflict, are refused or are too large. |
| `phone_parts` | the store: 2 matches, 5 updates, 1 fault, kills without bound, removals and returning values do not overlap, no match returns; and four components of scoring, one part moving at a time | 458,367 states. `AlwaysReadable`, `SettledIsSaved`, `NothingLeftBehind`, refinement of `SavedStore`, and the properties of scoring listed below. |
| `parts` | ten components of the server and of what phones share, one moving at a time | 361,652 states. Sixteen properties, each of its component, listed with the states per component below. |
| `settings_undone`, `batch_too_large`, `tap_lost`, `deleted_match_back`, `store_unreadable`, `confirmed_again` | | counterexamples, below |

Why the bounds are enough to be interesting. Two transactions are what it takes
to take numbers and commit in different orders; a page of one makes every batch
of two changes a paging problem. In the sync runs three saves allow a write in
flight, its replacement in the queue and a third one after the answer; the
longest of the hazards, a stale page followed by an own conflict, needs two
saves and a pull. One fault suffices for a late request overtaken by a newer
one. `one_scorer` also holds with one match and four saves, and with one match,
three saves and two faults; `shared_editing` with two passes and two saves.
Five updates of the store allow a first save, two that overlap, one that fails
and one after them; two matches let one be removed while another stays in the
index. Larger instances take longer than the few minutes meant for a run.

In `phone_parts`:

| component | bounds | states | properties |
|---|---|---|---|
| store | as above | 185,000 | `AlwaysReadable`, `SettledIsSaved`, `NothingLeftBehind`, `ImplementsSavedStore` |
| match | matches best of 3 and best of 1 | 8,800 | `ResultFollowsFrames` |
| frame | a pair against one player, red and yellow, fouls of 4, 2 shots, from the start or joined with one red or none | 64,000 | `SheetAgrees`, `RemainingIsEnough` |
| group | 3 players, best of 3, pots of 1 and 5, fouls of 4, two shots in all and at most one of them after the first frame | 174,000 | `GroupResultStands` |
| race | 2 players, target 4, balls and fouls of 4, 3 shots | 26,000 | `PlacesStand` |

In `parts`:

| component | bounds | states | properties |
|---|---|---|---|
| stats | a hub and a club, batch of 2, 2 changes of each, 2 failures | 5,300 | `StaleIsOwed`, `StandingsCatchUp` |
| live | 1 watcher, 2 publications after the first version and 1 operation sent again, a broken socket | 30,000 | `SocketMissesNothing`, `WatchersEndCurrent`, `WatchersCatchUp` |
| sessions | 3 refreshes | 13,000 | `StaysSignedIn`, `EndIsFinal` |
| membership | 2 people, a club, a hub, a card in each, one link a card | 61,000 | `LeagueRecordsStand`, `CardKeepsItsPerson` |
| community | 1 post a day, 2 writes on their way | 15,000 | `CommunityRulesHold` |
| profile | 2 cities, figures 0 and 1, 1 edit on its way | 82,000 | `BoardRowIsRanked` |
| confirmation | 4 saves | 2,300 | `ConfirmedAsAgreed` |
| history | a club or a hub, 2 documents, pages of 2 and at most 2 of them, 2 writes or changes of membership, 1 fault, 1 queued join or leave | 51,000 | `MembersSeeTheHistory` |
| rating | 2 people, 3 matches of theirs, 1 rated game a pair in 2 units of time, 4 changes, 2 passes | 46,000 | `PublicRatingStands` |
| bracket | 2 phones, 3 entrants, both formats, 3 or 2 fixtures and results | 55,000 | `PlacesAgree` |

Two shots of a group frame let a fouler have points to pay with. Two publications, one
of them repeated, let the older replace the newer in a watcher's channel, on its socket
and in its store. Whether a user leaves and rejoins with changes in between is beyond the
two writes of `history`; the theorem about it is for any number.
A failure of one league with another behind it in the batch, a restart, and a
mark that is taken too early all fit into two leagues and two changes. Three
refreshes are a given-up one, its repetition and one after it: a late answer, a
grace window and a second rotation. Two documents beside the
league's own and pages of two make a history two pages long, so that what is
written between them and what the feed brings meanwhile can be in either or both;
with more pages, documents or writes the module holds as well, on its own.
Three matches at the times 1, 2 and 3 with a window of two are the limit and its
end; a second pass can find a rated game gone. Three entrants give a bye and a final whose
players depend on an earlier result. Two cards of different leagues let one
person hold both and another claim either.

Every property is also tried against a faulty form of a definition (marked
"Slip" or in a section "Faulty forms"): the run then finds it violated, so each property
depends on the code it is about.

Deadlock is allowed in the sync runs, `store_unreadable`, `phone_parts` and `parts`: when all saves
are spent and everything is delivered, nothing is left to do.

### Counterexamples

The model disagrees with what the repository says in six places (the traces
are a few steps long; `PROJECT.json` quotes the lines).

1. `settings_undone`: a pull records the server's version for a row whose queued
   write keeps the local copy (`apply.ts:93`). The write is then sent as if it
   were based on that version and undoes the other phone's change.
2. `batch_too_large`: a batch above 1 MB is answered 400 as a whole, and its
   first write is dropped as one the server never accepts.
3. `tap_lost`: after a conflict `rebase` stores a merge of the operation's row
   with the server's, over a newer row of the same phone. With one scorer and
   no failures: a page fetched before a push was answered and merged afterwards
   sets the known version back, and the phone's next save conflicts with its
   own previous one.
4. `deleted_match_back`: a conflict answer handled after a pull brought the
   deletion puts the row back for good.
5. `store_unreadable` (`RemovalsOverlap` TRUE): `commit` takes the list of
   matches of its own store as written, also when `diff` skipped the index
   because an overlapping save had not been recorded yet. Add a match and, before
   that save is answered, remove it together with another change: the index on
   disk keeps it, and the list in memory counts as saved. The next save of
   anything removes the key of the match but not its entry. `readParts` then
   refuses the store at every later start, and the app saves nothing any more.
   Five updates with three overlapping saves lead there without a removal
   before the adding was saved: the answer to an older save, recorded after the
   one that removed a match, puts the old list of ids into the snapshot.

6. `confirmed_again`: `match-confirm.service.ts:10` says that an edited result
   has to be confirmed again. A confirmation that was queued when the result was
   edited conflicts, is rebased onto the edited result and confirms what the
   opponent has never seen. The scorer's phone can also put a cleared
   confirmation back: its copy keeps the old list, and a later settings write of
   that copy does not change the result. `ConfirmedAsAgreed` says that these two
   are the only ways.

Seen while modelling, without a run of their own:

* Stats: `ForgetUser` tombstones owned leagues without marking them, besides the
  lost marks named above.
* Public rating: whoever loses the last rated game (deleted, edited, or the
  opponent's account gone) leaves the table but keeps the rating on the profile,
  since a pass copies the rows it has and clears none (`public_rating.go:122`).
* Live: a push publishes what it was sent, not what was stored; a newer copy can
  be overtaken by an older one; a match deleted between the permission check and
  the subscription is not announced; a late live copy revives a deleted match
  for good.
* Sessions: two tabs of a browser that share a token can end each other's
  session although `service.go:100` means to allow it; a secret older than the
  previous one is refused without revoking; `expires_at` never moves. Signing out keeps
  the queue of pending writes (`auth.service.ts:190`), and the next account on
  that phone sends it.
* Membership: rows of members stay after a league's deletion, and leaving it then
  fails for ever; what is written between `ForgetUser` and the end of the account
  survives it; a link can give a person a second card in a league.
* Joining: a member whose fetch of the history failed or was killed, whose other
  phone joined, or whose hub join went through the queue never gets the older
  documents: `previewInvite` finds the user a member already and only opens the
  league, although `league.service.ts:236` calls a repeated join safe. A page of the
  history read before a document was deleted, and applied after the feed brought
  the deletion, shows that document again for good. A page of the feed asked for
  before signing out moves the reset cursor up again, so the next sign-in does not
  pull "from the start" (`auth.service.ts:191`). When the fetch for a hub fails,
  `ensureCityHub` writes the row it read before, or one of its own, over the
  server's copy it had just stored and means to "keep exactly as it is"
  (`city-hub.service.ts:113`). Coming back to a city whose leave is still queued
  joins it, and then the leave is sent.
* Matches: reopening the last frame of a match that went on after it was decided
  leaves a decided match in progress, and conceding then finishes it for the one
  who conceded; a correction that finishes a match posts nothing. A colour
  logged while a red is on is taken for one after an unlogged red without
  counting that red as gone.
* Races: undoing an older pot of a player whose score was typed in frees a place
  in front of others; saves of a race are not serialized.
* Frames: correcting a frame that was scored by shots and putting it back on the table
  loses the correction, since `updateFrame` leaves the shots (`match.service.ts:580`) and
  `reopenLastFrame` replays them.
* Brackets: two phones can start the same slot; which of two finished
  fixtures counts, or which of two unfinished ones a slot opens, depends on a query
  without an order (`pgrepo.go:291`), although
  `bracket.go:3` says that every phone and the public page agree.
* Community: two answers to a challenge that were checked together are both stored, and
  the second stands; what was checked before a block comes through after it; posts
  checked together pass the daily limit together, deleting one frees its place, and
  posts that were written offline, or whose phone says so, more than a day ago are
  not counted although `service.go:495` speaks of new posts a day. A challenge that
  was answered may be deleted and put again under its id.
* Profiles: a restart between a profile's save and its mark loses the mark, and the
  repeated save does not make it again; so does a restart or a failure of the worker
  after the claim. Who moves to a city without a card in its hub keeps the figures of the
  old city, sorted last, until there is one.

And of the sync: a settings operation is
sent over the phone's current row and overtakes an older queued save, whose
shots then replace newer ones on the server until the next save; a settings
change that is newer than a scorer's unsent save makes the whole server copy win
in `resolveMatch`; a create request that timed out, followed by a delete
answered `not_found`, brings the match back when the server carries it out late.
In the storage, when `multiRemove` fails after `multiSet` wrote the shorter index,
the snapshot keeps the longer one: a match that returns before a save succeeds
finds its index unchanged and is gone at the next start (`phone_parts` with
`Returning` = {m1} violates `SettledIsSaved`), although `persist` says that "the
same parts are retried on the next save"; and a match that was added by the
failed save leaves its key behind when it is removed (why `NothingLeftBehind`
excludes faults). With `RevertsOverlap` = TRUE the same run violates `SettledIsSaved` with
no failure at all: a part is saved as 1, changed to 2, and changed back to 1 before the
save of 2 is answered. The last change finds 1 in the snapshot and does not write the
part; then the save of 2 lands, and the disk has 2 while memory has 1. The next save
mends it, unless the last change wrote another key: its `commit` takes the part's object for
saved, and the disk has 2 until that part changes again. A start before then finds
the 2: an operation in the queue that was sent already, for one.

## Fairness

* Feed: a pull that can run is run (`watch.ts` pulls every ten seconds while the
  app is open), so `PullPage` and the restart for new kinds are weakly fair.
  Answers may be lost and the app killed repeatedly, but not at every attempt:
  strong fairness on merging a page and on saving the cursor. Writers and users
  are not fair.
* Stats worker: it looks at the queue every three seconds and goes on until that
  is empty, so its own steps are weakly fair; an open write transaction ends one
  way or the other. Writes, failures and restarts are not fair and bounded.
* Live: only the poll, which runs every ten seconds while a match is watched.
  Nothing is assumed of the socket.
* Sync: weak fairness on queueing a saved change, on pulls and on the steps of a
  flush pass, the server's share of a request included. All of these are code
  that runs when it can; a timer starts passes and pulls. Saves, timeouts, kills
  and late requests are not fair.

## Proofs

`ChangeFeedProofs` proves about `ChangeFeed`, for all documents, transactions,
phones and page sizes, from `ChangeFeedAssumption` only:

* `TypesHold`: `Spec => []TypeOK`.
* `InvHolds`: the inductive invariant. `NoChangeSkipped` alone is not inductive:
  it needs that a page in flight already accounts for everything up to its last
  version, that the transaction holding the lock writes above every visible
  version (so a commit cannot slip below a cursor or a page), that only one
  transaction holds the lock, and that what it read is current.
* `NothingSkipped`, `DecisionsCurrent`: `NoChangeSkipped` and `DecidedOnCurrent`
  follow from it.
* `InOrder`: the action property `VisibleInOrder`, from the same invariant.
* `FeedImplemented`: `Spec => Feed!Spec`. Each step maps to a step of
  `OrderedFeed` or to none: a commit publishes, merging a page delivers, saving
  the cursor advances, the restart for new kinds widens.

`StorePersistenceProofs` proves about `StorePersistence`, for all matches, updates
and failures, from `StorePersistenceAssumption`:

* `StoreTypesHold`: `Spec => []TypeOK`, whatever the constants.
* `StoreAlwaysReadable`: `Spec => []AlwaysReadable`, from `~RemovalsOverlap`, with
  any matches returning. `AlwaysReadable` is not inductive: a save under way was
  computed against a snapshot that has changed since. `ReadableInv` says what
  still holds of it (`CallFits`): the keys it removes are those the snapshot
  lists now and its store does not, every match of its store has a key in the
  snapshot or is written by it, and it skips the index only if the snapshot's
  is right. With it go that saves under way only add matches, one after the
  other, unless there is just one; that the keys the snapshot knows are on disk
  (`PartsAgree`); and that the list last seen is the one in memory only if the
  index in the snapshot fits it (`ArraysAgree`), which is what
  `store_unreadable` breaks.
* `SettledStoreIsSaved`, `OwnKeysRemoved`: `SettledIsSaved` and `NothingLeftBehind`,
  from `~RemovalsOverlap`, `Returning = {}` and `~RevertsOverlap`, for any `DocValue` and
  `RestValue` (what happens without them is under "Counterexamples"). `SavesInv` adds to `ReadableInv` an order of the numbers:
  the snapshot is never ahead of the disk, the disk not of a save under way, a
  save not of the next one, and that not of memory, for each match that is
  present (`SnapshotBehind`, `CallsInOrder`). A part that a save does not write was
  equal to the snapshot's when the save was computed; as the disk lies between
  the two it is right on the disk then and when the save is answered
  (`Unwritten`). `IndexKept` says when the index on the disk is the snapshot's,
  `Answered` that memory is on the disk, or the last save under way is of it, or
  a save newer than all under way failed.
* `SavedStoreImplemented`: `Spec => Store!Spec` from the same three. `AnyUpdate` is a
  change, `MultiSet` a save, `FailCall` a refused store or nothing, `MultiRemove`
  nothing, `LoadFromDisk` and `LoadFails` a start, `Kill` a stop. The abstract
  save needs that the store is newer than the one saved and that it is found
  whole, which is what `SavesInv` gives.

`OfflineSyncProofs` proves about `OfflineSync`, for all phones, passes, matches,
rights, sizes and bounds, from `OfflineSyncAssumption` (passes may overlap, any
phone may write):

* `SyncTypesHold`, `QueuesHold`, `RetriesChangeNothing`, `DeletedForGood` from the
  inductive invariant `SyncInv`. An answer is handled after queue and server have
  gone on, so the invariant says of every pass what is left of its answers by
  then (`PassStands`): what is still to be sent asks for the operation at its
  place in the batch, an operation answered as applied is remembered, a match
  answered as deleted is still deleted, and each outcome is that of its answer.
  Numbers tie a batch to the queue (`Numbered`): within a phone one number has
  one match and one kind, and a save that is not queued yet has the newest. A
  page holds no version the server has not reached (`PagesStand`).
  `QueuesDisciplined` goes through rebases because they change an operation in
  place. `ServerOnward` is the step of the server behind the two action
  properties.
* `NoWriteLost`: `QueueLeavesOnlyAnswered` step by step from it: `Accounted` is
  proved of every operation and every action that shortens a queue. The
  property speaks of the answer the pass got. What the server holds when the
  answer is handled may be newer or older than that in the model, where a late
  request can be carried out in between.
* `SaveNeverUndone`: `NothingUndone`, where each match has one phone that scores it
  and nobody changes its settings (`OneScorer`; phones that delete, requests that
  come late and overlapping passes are as they may be). The row of a match is then
  given by one number, of the save it stems from: `SoleInv` says that there is a
  history of the saves such that every row, operation, request, page and answer is
  one of it (`RowAt`). The conjuncts that carry the proof are `IsNewest`, that
  nothing newer of a match is under way anywhere while its whole row still waits
  to be sent; `RequestProper`, that a late request either is not based on the
  server's version any more or brings a newer save; and `CarriedOut`, that what the
  server remembers as applied is in its row or deleted. So a conflict never changes
  a row that is sent again (`SettleSole`), and an overtaken request is refused
  (`CarriedOutSole`). Without the hypothesis the property is false, as the run
  `settings_undone` shows.
* `NothingShownIsForgotten`: `ShownIsOwedOrStored` under the same hypothesis, as long as
  no phone gave a write up (`NothingGivenUp`: none refused for good, none out of
  attempts; kills may be). The property speaks of the row a phone shows, but that row may
  have come out of an answer to a write that has left the queue since. So the
  invariant (`ShownInv`) says it of every write in a queue or a batch: what it saved is
  stored, void because the match is deleted, lost, or a newer write or a deletion
  stands for it in the queue (`Safe`), and a deletion is done, lost or still queued
  (`Gone`). That lasts, because a write that leaves a queue is accounted for
  (`Accounted`, from `NoWriteLost`) and what the account says is in the server's row by
  `SoleInv` (`AnsweredDone`, `OwedOnward`). One answer would not be such an account:
  `not_found` to a deletion. It cannot come for a match the server has (`NoneNotFound`),
  therefore the theorem lets nobody delete a match created during the run
  (`OldDeletes`, as in the run `one_scorer`). With two passes on a phone it is false for
  such a match: the deletion may get its `not_found` before the request that
  creates the match is carried out.
* `Only`, the batch and the merge are recursive functions. What they return for
  every sequence is proved by induction over the length, from
  `NatLessThanWellFounded` and the definition of a well-founded order, as
  a statement about sets of numbers (`NatInduct`).

The other proofs hold for all values of the constants, from the assumption of
their module:

* `ServerProofs`, `StaleOwed`: `StaleIsOwed` needs `NeverBackwards`: what is
  shown is no newer than what is loaded, and what is loaded no newer than the
  documents. Without it, saving what was loaded could put a league that was in
  date behind while nothing is owed for it.
* `ServerProofs`, `NothingMissed` and `PulledIsShown`: the invariant adds that
  every copy anywhere is one that was saved (`CopiesAreSaved`), that what a watcher
  shows is at least what it pulled (`RowsFollowPages`), and that a watcher on the
  channel has, or will be sent, at least what was published (`PublishedReaches`).
* `ServerProofs`, `EndedForGood`: the row is well formed, and no step takes one
  of its flags back. `SignedInStays`: `StaysSignedIn` says nothing of what is on its way. The
  invariant (`InStep`) adds, for as long as the phone has not signed out or missed
  its window: the row is live; what memory and keychain hold is the secret in
  use or, within the window, the one before; every request was sent with such a
  secret and what it has read is no newer than the row; and an answer the phone
  waits for carries the secret in use while the phone has the one before, so that
  another rotation would count as missed.
* `ResultProofs`, `ConfirmationsAgreed`: the invariant adds that
  the opponent's phone queues nothing but confirmations, and that a queued one is
  of a result the opponent agreed to, unless it was laid over another.
* `ResultProofs`, `RacePlacesStand`: `Race` keeps totals, so taking a shot back has to
  find the totals from before it. The invariant (`InPlay`) says that some history of
  totals leads through the shots to what is stored, each shot taken by somebody
  short of the target (`Replays`); that places are given once and without a gap
  (`Ranked`), to those who have reached the target and nobody else; and that
  whoever came in later has shot since (`FinishedInOrder`), which is why an undone
  shot can only reopen the last place. At the end (`CompleteRanks`) as many players are
  counted before each place as it says, because "better than" is a weak order. That
  no invariant of this kind holds once a score is typed in is why the property
  excepts `typedIn`.
* `ResultProofs`, `ResultsFollowFrames`: the invariant (`MatchInv`) adds that a match
  in progress has room for another frame, that a new one has no frames, and that
  the order of finishing lists every finished match once. One side at most has the frames
  it takes, because every frame has one winner (`TalliesAddUp`), and a full match has
  a winner (`OutcomeStands`). Every tap that changes a result saves it with
  `PersistMatchResult`, of which `SavedResultStands` is proved once.
* `MembershipProofs`, `RecordsStand`: the invariant adds that members have
  accounts, that what was never created and the hubs have no owner, and that
  whatever is not live has no creator; and it says of everybody whose data was
  erased what the property says of those who are gone. `CardKeepsPerson` follows
  step by step from it.
* `MembershipProofs`, `MembersHaveTheHistory`: the property speaks of moments without
  a visit only. The invariant (`HistoryInv`) says what is due between the steps of
  one: what was written after the user joined, and of the history as much as the
  visit has fetched (`ShownUpToCursor`). A page of the feed has, as it is stored,
  everything due that it will move the cursor past and that the phone does not show
  (`FeedPageCovers`); a page of the history has everything from before the join up
  to its end (`HistoryPageCovers`); and where it will show an old copy again, the feed
  is still to bring the new one (`StaleIsBrought`), or `histRevived` names it. The
  page lemma (`PageHolds`) needs finitely many documents and nothing else of them.
* `CommunityProofs`, `RulesHold`: the invariant (`RulesInv`) adds what the check of every
  write that is still to be saved established, that no two writes have one number, and
  that the posts counted and the posts on their way together exceed the limit by less than
  the number of requests there may be (`FewPosts`). `RowsRanked`: the invariant (`RankInv`) says of every
  edit on its way that what it will save keeps the figures of the row it read (`Kept`), and of
  the worker that the figures it has loaded are the card's, unless the hub is queued again
  or in `unranked` (`LoadedWell`).
* `ResultProofs`, `BracketsAgree`: the invariant (`BracketInv`) says that the number of a
  fixture tells whose it is and that no place holds two versions of one. So, unless a slot was
  played twice to the end, the fixture that counts for it is the same one in every
  listing of what a place holds, and with it every winner, pairing and standing, and the match
  a slot opens unless it was started twice (`SameOpened`); two recursive functions with equal bodies are the same function (`SameDerived`).

`ReplayProofs` is about results that are worked out anew from a list each time. Each such
replay is a recursive function of how many entries it has read. That it is
determined by its first value and its steps, and that it is of the type of its steps, is
proved once (`SameEnd`, `Recurs`, from `NatInduct` as in `OfflineSyncProofs`), likewise what
`SumOf` returns (`SumIs`, `SumRuns`).

* `FrameTypesHold` and `EnoughRemains`: after any log of shots the table is in one of few
  states (`TableStates`): a red or a colour is on while there are reds, the clearance
  begins when there are none. Which points are left is compared in each state
  for every ball that may be potted next (`EnoughRemaining`).
* `ReadingsOfTheSheet`: `SheetAgrees` relates two replays of one log, the score of the frame
  and the breaks that were shown after each shot. Both are followed shot by shot
  (`ReadingsAgreeAlways`): a break under way is the last visit (`BreakShown`), the points are
  those carried over, the breaks and the other side's fouls (`PointsAddUp`), and the greatest
  break shown so far is the greatest made (`ShownIsMade`). The invariant (`FrameInv`) adds that
  every saved frame comes back on the table with the score it was saved with
  (`ComesBack`): the one it was finished with when it has shots, whatever it was corrected to.
* `GroupResults`: for any three players or more. Points are apart by what was potted less what
  was fouled, by induction over the shots (`PlayersApart`). The invariant (`GroupInv`) adds
  that no match was won before its last frame (`WonAtTheEnd`); as the frames that are
  left belong to one player or another, a full match has a winner (`FullMatchIsWon`), and
  a match is over exactly when nobody is caught if one opponent wins all the
  rest (`WonAsPromised`). `Without` and the order of play keep every player in the
  order (`MovedOrder`).
* `RatingsStand`: from `GainsAreNatural` (in the code a gain is
  `publicK * (1 - expected)`, which is not negative). There is an order of the games by
  time, because they are finitely many and no two are at once: the place of a game is the
  number of those up to it (`SomeTimeOrder`). After any number of games in that order, the
  counted ones are within the limit and those left out had met it (`LimitGoesOn`), and
  the sum of all ratings is not above the base (`SumGoesOn`).
* `ProfilesShowRatings`: the part of the last one that is about what people see.
  The invariant (`ProfileRatingInv`) says how far a pass has come: what it is still to copy
  is what the table has, all other profiles show the table already, and whoever is not in
  the table shows nothing. It holds whatever ratings the computation returns.

Only model-checked: `ChangeReachesPhone`, `Converges`, `StandingsCatchUp` and
`WatchersCatchUp`, because liveness is outside the prover's reach; and `PhoneTypeOK` and `PartsTypeOK`, the
type invariants of the parts together. Most of its conjuncts are also part of an inductive
invariant above (`FrameTypeOK`, for one, is a theorem), but not each is stated on its own.

## Not modelled, and the plan

Not modelled:

* Stats and rating computation (`backend/internal/stats`, `shared/utils/stats`):
  floating-point folds, kept equal in Go and TypeScript by shared fixtures. Who
  has to be recomputed, and when, is in `StatsWorker`; the rules of the public
  rating are in `PublicRating`.
* Push notifications and sign-in with outside services: calls whose results no
  state depends on. Public pages: they read only.
* Screens, the design system, generated data (places of India, art, texts), build
  files and configuration: no state that outlives a screen. They are most of the
  lines of the repository.
* Of the phone's side of leagues: what happens when a league is deleted, new invite
  codes, the own card made on joining a hub, leagues kept on one phone.
* Reading a match and saving it are one step of `OfflineSync` (the hazard at
  `shot.service.ts:68`).
* What is left out inside a component is in the notes of `PROJECT.json`.

Done: all modules above, with the proofs above.

1. A module for a save that reads, waits and writes while a pull is merged.
2. The type invariants of `PhoneTypeOK` and `PartsTypeOK` as theorems of their own.
