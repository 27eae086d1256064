-------------------------- MODULE CommunityProofs --------------------------
(***************************************************************************)
(* The rules of the community, for any limit of posts and any number of    *)
(* writes on their way, and the place of a profile on a board.             *)
(***************************************************************************)
EXTENDS Community, ProfileRank, FiniteSetTheorems, TLAPS

\* What the check of a challenge left behind: it is opened, kept, or answered
\* while it is pending.
Checked(w) ==
    w.doc = "challenge" => \/ w.read = "none" /\ w.save = "pending"
                           \/ w.read = w.save
                           \/ w.read = "pending" /\ w.save \in Answers

\* The first answer is remembered exactly while it is the status.
AnswerKept == answered = IF challenge \in Answers THEN challenge ELSE "none"

\* Posts on their way.
PostRequests == Requests({w \in writes : w.doc = "post"})

\* AnswerStands alone is lost by a write that was checked against a status it
\* does not speak of, and the limit by the posts on their way: the invariant adds
\* what every check established, and counts them.
RulesInv ==
    /\ CommunityTypeOK
    /\ \A w \in writes : Checked(w)
    /\ \A v, w \in writes : v.id = w.id => v = w
    /\ AnswerKept
    /\ block => \A w \in writes : SentNew(w) => w.id \in early
    /\ dayPosts + Cardinality(PostRequests) <= PostsPerDay + MaxWrites - 1

\* As many posts are on their way as there are requests, at most.
LEMMA FewPosts ==
    ASSUME writes \subseteq DocWrites
    PROVE  /\ IsFiniteSet(PostRequests)
           /\ Cardinality(PostRequests) \in Nat
           /\ Cardinality(PostRequests) <= MaxWrites
<1>1. PostRequests \subseteq 1..MaxWrites
  BY DEF PostRequests, Requests, DocWrites
<1>2. IsFiniteSet(1..MaxWrites) /\ Cardinality(1..MaxWrites) = MaxWrites
  BY FS_Interval, CommunityAssumption
<1>3. IsFiniteSet(PostRequests) /\ Cardinality(PostRequests) <= MaxWrites
  BY <1>1, <1>2, FS_Subset
<1> QED BY <1>3, FS_CardinalityType

\* It implies the property.
LEMMA RulesInvImplies == RulesInv => CommunityRulesHold
<1> SUFFICES ASSUME RulesInv
             PROVE  CommunityRulesHold
  OBVIOUS
<1>1. AnswerStands
  BY DEF RulesInv, AnswerKept, AnswerStands, Answers
<1>2. dayPosts <= PostsPerDay + MaxWrites - 1
  BY FewPosts, CommunityAssumption DEF RulesInv, CommunityTypeOK
<1> QED BY <1>1, <1>2 DEF RulesInv, CommunityRulesHold

\* Nothing is written at the start.
LEMMA RulesInvInit == CommunityInit => RulesInv
<1> SUFFICES ASSUME CommunityInit
             PROVE  RulesInv
  OBVIOUS
<1>1. CommunityTypeOK
  BY DEF CommunityInit, CommunityTypeOK, Statuses, Requests
<1>2. PostRequests = {}
  BY DEF CommunityInit, PostRequests, Requests
<1>3. Cardinality(PostRequests) = 0
  BY <1>2, FS_EmptySet
<1> QED BY <1>1, <1>3, CommunityAssumption DEF CommunityInit, RulesInv, AnswerKept, Answers

\* A write that passed its check joins those on their way: `fresh` says that it
\* is of its type and not new to somebody who has blocked, and a post that there
\* was room for it.
LEMMA CheckKeepsRules ==
    ASSUME NEW doc, NEW read, NEW save, RulesInv, Check(doc, read, save),
           \A id \in 1..MaxWrites :
               LET fresh == [id |-> id, doc |-> doc, read |-> read, save |-> save]
               IN  fresh \in DocWrites /\ Checked(fresh) /\ (block => ~ SentNew(fresh)),
           doc = "post" => dayPosts < PostsPerDay
    PROVE  RulesInv'
<1>1. PICK id \in 1..MaxWrites \ Requests(writes) :
          writes' = writes \union {[id |-> id, doc |-> doc, read |-> read, save |-> save]}
  BY DEF Check
<1> DEFINE fresh == [id |-> id, doc |-> doc, read |-> read, save |-> save]
<1>2. fresh \in DocWrites /\ Checked(fresh) /\ (block => ~ SentNew(fresh))
  BY <1>1
<1>3. UNCHANGED <<challenge, follow, block, dayPosts, answered, early>>
  BY DEF Check
<1>4. /\ fresh.id = id /\ fresh.doc = doc
      /\ id \in 1..MaxWrites /\ \A w \in writes : w.id # id
  BY <1>1 DEF Requests
<1>5. writes' = writes \union {fresh}
  BY <1>1
<1> HIDE DEF fresh
<1>6. CommunityTypeOK'
  BY <1>2, <1>3, <1>5 DEF RulesInv, CommunityTypeOK, Requests
<1>7. /\ \A w \in writes' : Checked(w)
      /\ \A v, w \in writes' : v.id = w.id => v = w
  BY <1>2, <1>4, <1>5 DEF RulesInv
<1>8. AnswerKept'
  BY <1>3 DEF RulesInv, AnswerKept
<1>9. block' => \A w \in writes' : SentNew(w) => w.id \in early'
  BY <1>2, <1>3, <1>5 DEF RulesInv
<1>10. dayPosts' + Cardinality(PostRequests') <= PostsPerDay + MaxWrites - 1
  <2>1. Cardinality(PostRequests') \in Nat /\ Cardinality(PostRequests') <= MaxWrites
    <3>1. writes' \subseteq DocWrites
      BY <1>6 DEF CommunityTypeOK
    <3>2. PostRequests' \subseteq 1..MaxWrites
      BY <3>1 DEF PostRequests, Requests, DocWrites
    <3>3. IsFiniteSet(1..MaxWrites) /\ Cardinality(1..MaxWrites) = MaxWrites
      BY FS_Interval, CommunityAssumption
    <3>4. IsFiniteSet(PostRequests') /\ Cardinality(PostRequests') <= MaxWrites
      BY <3>2, <3>3, FS_Subset
    <3> QED BY <3>4, FS_CardinalityType
  <2>2. CASE doc = "post"
    BY <1>3, <2>1, <2>2, CommunityAssumption DEF RulesInv, CommunityTypeOK
  <2>3. CASE doc # "post"
    <3>1. PostRequests' = PostRequests
      BY <1>4, <1>5, <2>3 DEF PostRequests, Requests
    <3> QED BY <1>3, <3>1 DEF RulesInv
  <2> QED BY <2>2, <2>3
<1> QED BY <1>6, <1>7, <1>8, <1>9, <1>10 DEF RulesInv

\* A write that ends leaves the others as they were, and room for one post more
\* if it was one.
LEMMA EndKeepsRules ==
    ASSUME RulesInv, NEW w \in writes, Ends(w), block' = block
    PROVE  /\ writes' \subseteq DocWrites /\ early' \subseteq Requests(writes')
           /\ \A v \in writes' : Checked(v)
           /\ \A v, u \in writes' : v.id = u.id => v = u
           /\ block' => \A v \in writes' : SentNew(v) => v.id \in early'
           /\ Cardinality(PostRequests') \in Nat
           /\ Cardinality(PostRequests') + (IF w.doc = "post" THEN 1 ELSE 0)
                  <= Cardinality(PostRequests)
<1>1. writes' = writes \ {w} /\ early' = early \ {w.id}
  BY DEF Ends
<1>2. writes' \subseteq DocWrites /\ early' \subseteq Requests(writes')
  BY <1>1 DEF RulesInv, CommunityTypeOK, Requests
<1>3. /\ \A v \in writes' : Checked(v)
      /\ \A v, u \in writes' : v.id = u.id => v = u
  BY <1>1 DEF RulesInv
<1>4. block' => \A v \in writes' : SentNew(v) => v.id \in early'
  BY <1>1 DEF RulesInv
<1>5. IsFiniteSet(PostRequests) /\ Cardinality(PostRequests) \in Nat
  BY FewPosts DEF RulesInv, CommunityTypeOK
<1>6. CASE w.doc = "post"
  <2>1. PostRequests' = PostRequests \ {w.id} /\ w.id \in PostRequests
    BY <1>1, <1>6 DEF RulesInv, PostRequests, Requests
  <2>2. Cardinality(PostRequests') = Cardinality(PostRequests) - 1
    BY <1>5, <2>1, FS_RemoveElement
  <2>3. IsFiniteSet(PostRequests')
    BY <1>5, <2>1, FS_Subset
  <2>4. Cardinality(PostRequests') \in Nat
    BY <2>3, FS_CardinalityType
  <2> QED BY <1>2, <1>3, <1>4, <1>5, <1>6, <2>2, <2>4
<1>7. CASE w.doc # "post"
  <2>1. PostRequests' = PostRequests
    BY <1>1, <1>7 DEF PostRequests, Requests
  <2> QED BY <1>2, <1>3, <1>4, <1>5, <1>7, <2>1
<1> QED BY <1>6, <1>7

\* Every step keeps it: a write that is saved onto the copy it was checked
\* against does what its check allowed, any other one starts afresh.
LEMMA RulesInvStep == RulesInv /\ [CommunityNext]_communityVars => RulesInv'
<1> SUFFICES ASSUME RulesInv, [CommunityNext]_communityVars
             PROVE  RulesInv'
  OBVIOUS
<1> USE CommunityAssumption
<1>1. ASSUME NEW user \in {"a", "b"}, NEW status \in Statuses \ {"none"},
             CheckChallenge(user, status)
      PROVE  RulesInv'
  <2>1. Check("challenge", challenge, status)
    BY <1>1 DEF CheckChallenge
  <2> DEFINE fresh(id) == [id |-> id, doc |-> "challenge", read |-> challenge, save |-> status]
  <2>2. \A id \in 1..MaxWrites : fresh(id) \in DocWrites
    BY DEF DocWrites, RulesInv, CommunityTypeOK
  <2>3. \A id \in 1..MaxWrites : Checked(fresh(id)) /\ (block => ~ SentNew(fresh(id)))
    BY <1>1 DEF CheckChallenge, MaySetStatus, Checked, SentNew, Answers
  <2> QED BY <2>1, <2>2, <2>3, CheckKeepsRules
<1>2. CASE CheckFollow
  <2>1. Check("follow", follow, TRUE)
    BY <1>2 DEF CheckFollow
  <2> DEFINE fresh(id) == [id |-> id, doc |-> "follow", read |-> follow, save |-> TRUE]
  <2>2. \A id \in 1..MaxWrites : fresh(id) \in DocWrites
    BY DEF DocWrites, RulesInv, CommunityTypeOK
  <2>3. \A id \in 1..MaxWrites : Checked(fresh(id)) /\ (block => ~ SentNew(fresh(id)))
    BY <1>2 DEF CheckFollow, Checked, SentNew
  <2> QED BY <2>1, <2>2, <2>3, CheckKeepsRules
<1>3. ASSUME NEW dated \in {"today", "earlier"}, CheckPost(dated)
      PROVE  RulesInv'
  <2>1. dayPosts < PostsPerDay /\ Check("post", "none", dated)
    BY <1>3 DEF CheckPost
  <2> DEFINE fresh(id) == [id |-> id, doc |-> "post", read |-> "none", save |-> dated]
  <2>2. \A id \in 1..MaxWrites : fresh(id) \in DocWrites
    BY DEF DocWrites
  <2>3. \A id \in 1..MaxWrites : Checked(fresh(id)) /\ (block => ~ SentNew(fresh(id)))
    BY DEF Checked, SentNew
  <2> QED BY <2>1, <2>2, <2>3, CheckKeepsRules
<1>4. ASSUME NEW w \in writes, SaveChallenge(w)
      PROVE  RulesInv'
  <2>1. w.save \in Statuses /\ Checked(w) /\ w.doc = "challenge"
    BY <1>4 DEF SaveChallenge, RulesInv, CommunityTypeOK, DocWrites
  <2>2. Ends(w) /\ challenge' = w.save /\ UNCHANGED <<follow, block, dayPosts>>
    BY <1>4 DEF SaveChallenge
  <2>3. AnswerKept'
    BY <1>4, <2>1 DEF SaveChallenge, AnswerKept, RulesInv, Checked, Answers
  <2>4. answered' \in {"none"} \union Answers
    BY <2>3 DEF AnswerKept
  <2> QED BY <2>1, <2>2, <2>3, <2>4, EndKeepsRules, FewPosts DEF RulesInv, CommunityTypeOK
<1>5. ASSUME NEW w \in writes, SaveFollow(w)
      PROVE  RulesInv'
  <2>1. /\ Ends(w) /\ follow' = TRUE /\ w.doc = "follow"
        /\ UNCHANGED <<challenge, block, dayPosts, answered>>
    BY <1>5 DEF SaveFollow
  <2>2. AnswerKept'
    BY <2>1 DEF AnswerKept, RulesInv
  <2> QED BY <2>1, <2>2, EndKeepsRules, FewPosts DEF RulesInv, CommunityTypeOK
<1>6. ASSUME NEW w \in writes, SavePost(w)
      PROVE  RulesInv'
  <2>1. /\ Ends(w) /\ dayPosts' \in {dayPosts, dayPosts + 1} /\ w.doc = "post"
        /\ UNCHANGED <<challenge, follow, block, answered>>
    BY <1>6 DEF SavePost
  <2>2. AnswerKept'
    BY <2>1 DEF AnswerKept, RulesInv
  <2> QED BY <2>1, <2>2, EndKeepsRules, FewPosts DEF RulesInv, CommunityTypeOK
<1>7. ASSUME NEW w \in writes, WriteLost(w)
      PROVE  RulesInv'
  <2>1. Ends(w) /\ UNCHANGED <<challenge, follow, block, dayPosts, answered>>
    BY <1>7 DEF WriteLost
  <2>2. AnswerKept'
    BY <2>1 DEF AnswerKept, RulesInv
  <2> QED BY <2>1, <2>2, EndKeepsRules, FewPosts DEF RulesInv, CommunityTypeOK
<1>8. ASSUME NEW on \in BOOLEAN, SetBlock(on)
      PROVE  RulesInv'
  <2>1. PostRequests' = PostRequests
    BY <1>8 DEF SetBlock, PostRequests
  <2> QED BY <1>8, <2>1 DEF SetBlock, RulesInv, CommunityTypeOK, Requests, AnswerKept
<1>9. CASE Unfollow
  <2>1. PostRequests' = PostRequests
    BY <1>9 DEF Unfollow, PostRequests
  <2> QED BY <1>9, <2>1 DEF Unfollow, RulesInv, CommunityTypeOK, AnswerKept
<1>10. CASE DeleteChallenge
  <2>1. PostRequests' = PostRequests
    BY <1>10 DEF DeleteChallenge, PostRequests
  <2> QED BY <1>10, <2>1
          DEF DeleteChallenge, RulesInv, CommunityTypeOK, AnswerKept, Statuses, Answers
<1>11. CASE PostGone
  <2>1. PostRequests' = PostRequests
    BY <1>11 DEF PostGone, PostRequests
  <2> QED BY <1>11, <2>1, FewPosts DEF PostGone, RulesInv, CommunityTypeOK, AnswerKept
<1>12. CASE ForgetAuthor
  <2>1. PostRequests' = PostRequests
    BY <1>12 DEF ForgetAuthor, PostRequests
  <2>2. dayPosts' + Cardinality(PostRequests') <= PostsPerDay + MaxWrites - 1
    BY <1>12, <2>1, FewPosts DEF ForgetAuthor, RulesInv, CommunityTypeOK
  <2>3. CommunityTypeOK' /\ AnswerKept'
    BY <1>12 DEF ForgetAuthor, RulesInv, CommunityTypeOK, AnswerKept, Statuses, Answers
  <2> QED BY <1>12, <2>2, <2>3 DEF ForgetAuthor, RulesInv
<1>13. CASE UNCHANGED communityVars
  <2>1. PostRequests' = PostRequests
    BY <1>13 DEF communityVars, PostRequests
  <2> QED BY <1>13, <2>1 DEF communityVars, RulesInv, CommunityTypeOK, AnswerKept
<1> QED
  BY <1>1, <1>2, <1>3, <1>4, <1>5, <1>6, <1>7, <1>8, <1>9, <1>10, <1>11, <1>12, <1>13
     DEF CommunityNext

\* The answer to a challenge stands until the challenge is deleted or a write
\* that was checked before it lands; of what is new, only what was on its way
\* when the block was set may still reach who set it; and the posts dated within
\* a day pass the limit by no more than the requests at once less one: whatever
\* the limit, and however many requests there are (service.go:75-140, 200-364,
\* 497-535).
THEOREM RulesHold == CommunitySpec => []CommunityRulesHold
<1>1. CommunityInit => RulesInv
  BY RulesInvInit
<1>2. RulesInv /\ [CommunityNext]_communityVars => RulesInv'
  BY RulesInvStep
<1>3. RulesInv => CommunityRulesHold
  BY RulesInvImplies
<1> QED BY <1>1, <1>2, <1>3, PTL DEF CommunitySpec

-----------------------------------------------------------------------------
(***************************************************************************)
(* The place of a profile on its city's board, for any cities, any figures *)
(* and any number of edits on their way.                                   *)
(***************************************************************************)

\* What the check of an edit kept: the figures of the row it read, except that a
\* row which enters a city is sorted last.
Kept(w) ==
    /\ w.read \in ProfileRows /\ w.save \in ProfileRows
    /\ w.save.rank = w.read.rank
    /\ w.save.board # "none" /\ w.read.board = w.save.board => w.save.sort = w.read.sort

\* The figures that the worker has loaded for a hub are the card's, or the hub
\* is queued or will not be ranked.
LoadedWell(j) == j.figures = hubCards[j.city] \/ j.city \in rankQueue \union unranked

\* BoardRowIsRanked says nothing of the rows that edits are about to save, nor of
\* the figures that the worker is about to write.
RankInv ==
    /\ profile \in ProfileRows
    /\ hubCards \in [Cities -> Figures]
    /\ \A w \in edits : Kept(w)
    /\ \A m \in marks : m.city \in Cities
    /\ rankQueue \subseteq Cities /\ rankBatch \subseteq Cities
    /\ \A j \in ranking : j.city \in rankBatch /\ j.figures \in Figures /\ LoadedWell(j)
    /\ BoardRowIsRanked

LEMMA RankInvInit == ProfileInit => RankInv
<1> SUFFICES ASSUME ProfileInit
             PROVE  RankInv
  OBVIOUS
<1>1. Nobody \in ProfileRows /\ Nobody.board = "none"
  BY ProfileRankAssumption DEF Nobody, ProfileRows
<1>2. hubCards \in [Cities -> Figures]
  BY DEF ProfileInit, Figures
<1> QED BY <1>1, <1>2 DEF ProfileInit, RankInv, BoardRowIsRanked

\* A row that is saved over the one it was read from keeps its figures, or enters
\* a city and leaves a mark; one put over another is in a hub that will be ranked
\* or is among the unranked.
LEMMA SaveKeepsRank == ASSUME RankInv, NEW w \in edits, SaveProfile(w) PROVE RankInv'
<1>1. /\ profile' = w.save /\ edits' = edits \ {w}
      /\ UNCHANGED <<hubCards, rankQueue, rankBatch, ranking>>
      /\ Kept(w)
  BY DEF SaveProfile, RankInv, jobVars
<1>2. /\ unranked' = unranked \union
             (IF w.read = profile THEN {}
              ELSE {w.save.board} \ ({"none"} \union rankQueue \union rankBatch))
      /\ marks' = marks \union
             (IF EntersCity(w) THEN {[id |-> w.id, city |-> w.save.board]} ELSE {})
  BY DEF SaveProfile
<1>3. \A m \in marks' : m.city \in Cities
  BY <1>1, <1>2 DEF RankInv, EntersCity, Kept, ProfileRows
<1>4. \A j \in ranking' : j.city \in rankBatch' /\ j.figures \in Figures /\ LoadedWell(j)'
  BY <1>1, <1>2 DEF RankInv, LoadedWell
<1>5. BoardRowIsRanked'
  <2> DEFINE c == w.save.board
  <2> SUFFICES ASSUME c # "none", c \notin unranked', ~ RankOwed(c)'
               PROVE  \/ hubCards[c] = {}
                      \/ hubCards[c] = {w.save.rank} /\ w.save.rank = w.save.sort
    BY <1>1 DEF BoardRowIsRanked
  <2>1. c \notin rankQueue /\ c \notin unranked /\ ~ RankOwed(c)
    BY <1>1, <1>2 DEF RankOwed
  <2>2. c \notin rankBatch
    BY <2>1 DEF RankOwed, RankInv, LoadedWell
  <2>3. w.read = profile
    BY <1>2, <2>1, <2>2
  <2>4. ~ EntersCity(w)
    <3>1. EntersCity(w) => [id |-> w.id, city |-> c] \in marks'
      BY <1>2
    <3> QED BY <3>1 DEF RankOwed
  <2>5. profile.board = c /\ w.save.rank = profile.rank /\ w.save.sort = profile.sort
    BY <1>1, <2>3, <2>4 DEF EntersCity, Kept
  <2> QED BY <2>1, <2>5 DEF RankInv, BoardRowIsRanked
<1> QED BY <1>1, <1>3, <1>4, <1>5 DEF RankInv, Kept

\* The worker writes what it loaded, for a person with a card in the hub.
LEMMA RankingKeepsRank == ASSUME RankInv, NEW j \in ranking, SetCityRank(j) PROVE RankInv'
<1>1. /\ ranking' = {} /\ rankBatch' = rankBatch \ {j.city}
      /\ UNCHANGED <<hubCards, edits, marks, rankQueue, unranked>>
  BY DEF SetCityRank
<1>2. j.city \in rankBatch /\ j.figures \in Figures /\ LoadedWell(j)
  BY DEF RankInv
<1>3. CASE j.figures # {} /\ profile.board = j.city
  <2>1. PICK f \in 0..MaxRanks : j.figures = {f}
    BY <1>2, <1>3 DEF Figures
  <2>2. (CHOOSE g \in j.figures : TRUE) = f
    BY <2>1
  <2>3. profile' = [profile EXCEPT !.rank = f, !.sort = f]
    BY <1>3, <2>2 DEF SetCityRank
  <2>4. /\ profile' \in ProfileRows
        /\ profile'.board = j.city /\ profile'.rank = f /\ profile'.sort = f
    BY <1>3, <2>3 DEF RankInv, ProfileRows
  <2>5. BoardRowIsRanked'
    BY <1>1, <1>2, <2>1, <2>4 DEF BoardRowIsRanked, RankOwed, LoadedWell
  <2> QED BY <1>1, <2>4, <2>5 DEF RankInv, Kept
<1>4. CASE ~ (j.figures # {} /\ profile.board = j.city)
  <2>1. profile' = profile
    BY <1>4 DEF SetCityRank
  <2>2. BoardRowIsRanked'
    <3>1. CASE profile.board = j.city
      <4>1. j.figures = {}
        BY <1>4, <3>1
      <4> QED BY <1>1, <1>2, <2>1, <3>1, <4>1 DEF BoardRowIsRanked, RankOwed, LoadedWell
    <3>2. CASE profile.board # j.city
      BY <1>1, <2>1, <3>2 DEF RankInv, BoardRowIsRanked, RankOwed
    <3> QED BY <3>1, <3>2
  <2> QED BY <1>1, <2>1, <2>2 DEF RankInv, Kept
<1> QED BY <1>3, <1>4

LEMMA RankInvStep == RankInv /\ [ProfileNext]_profileVars => RankInv'
<1> SUFFICES ASSUME RankInv, [ProfileNext]_profileVars
             PROVE  RankInv'
  OBVIOUS
<1>1. ASSUME NEW city \in Cities, NEW minor \in BOOLEAN, NEW seen \in 0..MaxRanks,
             CheckProfile(city, minor, seen)
      PROVE  RankInv'
  <2> DEFINE kept == RankKept(profile, city, seen)
             row == [board |-> IF minor THEN "none" ELSE city,
                     rank |-> kept.rank, sort |-> kept.sort]
             edit(id) == [id |-> id, read |-> profile, save |-> row]
  <2>1. PICK id : edits' = edits \union {edit(id)}
    BY <1>1 DEF CheckProfile
  <2>2. UNCHANGED <<profile, marks, hubCards, rankQueue, rankBatch, ranking, unranked>>
    BY <1>1 DEF CheckProfile, jobVars
  <2>3. /\ kept.rank = profile.rank /\ kept.sort \in 0..MaxRanks
        /\ profile.board = city => kept.sort = profile.sort
    BY ProfileRankAssumption DEF RankKept, RankInv, ProfileRows
  <2> HIDE DEF kept
  <2>4. Kept(edit(id))
    BY <2>3 DEF Kept, RankInv, ProfileRows
  <2> HIDE DEF edit
  <2> QED BY <2>1, <2>2, <2>4 DEF RankInv, Kept, LoadedWell, BoardRowIsRanked, RankOwed
<1>2. ASSUME NEW w \in edits, SaveProfile(w)
      PROVE  RankInv'
  BY <1>2, SaveKeepsRank
<1>3. ASSUME NEW w \in edits, EditFails(w)
      PROVE  RankInv'
  BY <1>3 DEF EditFails, jobVars, RankInv, Kept, LoadedWell, BoardRowIsRanked, RankOwed
<1>4. ASSUME NEW m \in marks, MarkCity(m)
      PROVE  RankInv'
  BY <1>4 DEF MarkCity, jobVars, RankInv, Kept, LoadedWell, BoardRowIsRanked, RankOwed
<1>5. ASSUME NEW m \in marks, MarkFails(m)
      PROVE  RankInv'
  BY <1>5 DEF MarkFails, jobVars, RankInv, Kept, LoadedWell, BoardRowIsRanked, RankOwed
<1>6. ASSUME NEW c \in Cities, NEW figures \in Figures, NEW marked \in BOOLEAN,
             CardChanges(c, figures, marked)
      PROVE  RankInv'
  <2>1. /\ hubCards' \in [Cities -> Figures] /\ hubCards'[c] = figures
        /\ \A d \in Cities \ {c} : hubCards'[d] = hubCards[d]
        /\ UNCHANGED <<profile, edits, marks, rankBatch, ranking>>
    BY <1>6 DEF CardChanges, jobVars, RankInv
  <2>2. /\ rankQueue \subseteq rankQueue'
        /\ unranked \ {c} \subseteq unranked' /\ unranked' \subseteq unranked \union {c}
        /\ rankQueue' \subseteq rankQueue \union {c}
        /\ c \in rankQueue' \union unranked' \union (rankBatch \ {j.city : j \in ranking})
    BY <1>6 DEF CardChanges, WillLoad
  <2>3. \A j \in ranking' : j.city \in rankBatch' /\ j.figures \in Figures /\ LoadedWell(j)'
    <3> TAKE j \in ranking'
    <3>1. j \in ranking /\ j.city \in rankBatch /\ j.figures \in Figures /\ LoadedWell(j)
      BY <2>1 DEF RankInv
    <3>2. CASE j.city = c
      BY <2>1, <2>2, <3>1, <3>2 DEF LoadedWell
    <3>3. CASE j.city # c
      <4>1. j.city \in rankQueue \union unranked => j.city \in rankQueue' \union unranked'
        BY <2>2, <3>3
      <4>2. hubCards'[j.city] = hubCards[j.city]
        BY <1>6, <3>3 DEF CardChanges, RankInv
      <4> QED BY <2>1, <3>1, <4>1, <4>2 DEF LoadedWell
    <3> QED BY <3>2, <3>3
  <2>4. BoardRowIsRanked'
    <3>1. CASE profile.board = c
      BY <2>1, <2>2, <3>1 DEF BoardRowIsRanked, RankOwed
    <3>2. CASE profile.board \in Cities \ {c}
      BY <2>1, <2>2, <3>2 DEF RankInv, BoardRowIsRanked, RankOwed
    <3>3. CASE profile.board = "none"
      BY <2>1, <3>3 DEF BoardRowIsRanked
    <3> QED BY <3>1, <3>2, <3>3 DEF RankInv, ProfileRows
  <2>5. rankQueue' \subseteq Cities /\ rankBatch' \subseteq Cities
    BY <2>1, <2>2 DEF RankInv
  <2> QED BY <2>1, <2>3, <2>4, <2>5 DEF RankInv, Kept
<1>7. ASSUME NEW hubs \in SUBSET rankQueue, ClaimHubs(hubs)
      PROVE  RankInv'
  BY <1>7 DEF ClaimHubs, RankInv, Kept, LoadedWell, BoardRowIsRanked, RankOwed
<1>8. ASSUME NEW c \in rankBatch, LoadHub(c)
      PROVE  RankInv'
  <2>1. /\ ranking = {} /\ ranking' = {[city |-> c, figures |-> hubCards[c]]}
        /\ UNCHANGED <<profile, edits, marks, hubCards, rankQueue, rankBatch, unranked>>
    BY <1>8 DEF LoadHub
  <2>2. hubCards[c] \in Figures
    BY DEF RankInv
  <2>3. BoardRowIsRanked'
    BY <2>1 DEF RankInv, BoardRowIsRanked, RankOwed
  <2> QED BY <2>1, <2>2, <2>3 DEF RankInv, Kept, LoadedWell
<1>9. ASSUME NEW c \in rankBatch, HubFails(c)
      PROVE  RankInv'
  BY <1>9 DEF HubFails, RankInv, Kept, LoadedWell, BoardRowIsRanked, RankOwed
<1>10. ASSUME NEW j \in ranking, SetCityRank(j)
       PROVE  RankInv'
  BY <1>10, RankingKeepsRank
<1>11. CASE WorkerStops
  BY <1>11 DEF WorkerStops, RankInv, Kept, LoadedWell, BoardRowIsRanked, RankOwed
<1>12. CASE ForgetProfile
  <2>1. Nobody \in ProfileRows /\ Nobody.board = "none"
    BY ProfileRankAssumption DEF Nobody, ProfileRows
  <2> QED BY <1>12, <2>1
          DEF ForgetProfile, jobVars, RankInv, Kept, LoadedWell, BoardRowIsRanked
<1>13. CASE UNCHANGED profileVars
  BY <1>13 DEF profileVars, jobVars, RankInv, Kept, LoadedWell, BoardRowIsRanked, RankOwed
<1> QED
  BY <1>1, <1>2, <1>3, <1>4, <1>5, <1>6, <1>7, <1>8, <1>9, <1>10, <1>11, <1>12, <1>13
     DEF ProfileNext

\* A profile on a city's board shows the figures of the person's card there, or
\* the city is owed a ranking that will see the card, unless they have no card
\* there or the hub is among the `unranked`: whatever cities, figures and edits
\* there are (service.go:84-106, 437-443, worker.go:108-137, 194-235).
THEOREM RowsRanked == ProfileSpec => []BoardRowIsRanked
<1>1. ProfileInit => RankInv
  BY RankInvInit
<1>2. RankInv /\ [ProfileNext]_profileVars => RankInv'
  BY RankInvStep
<1>3. RankInv => BoardRowIsRanked
  BY DEF RankInv
<1> QED BY <1>1, <1>2, <1>3, PTL DEF ProfileSpec

=============================================================================
