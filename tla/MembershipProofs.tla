-------------------------- MODULE MembershipProofs --------------------------
(***************************************************************************)
(* What the records of leagues, members and cards say of each other, for   *)
(* any users, leagues, cards and number of claim links; and what a phone   *)
(* of a member shows of a league, for any documents and sizes of a page.   *)
(***************************************************************************)
EXTENDS Membership, LeagueHistory, FiniteSetTheorems, FunctionTheorems,
        NaturalsInduction, WellFoundedInduction, TLAPS

Roles == {"none", "member", "owner"}
Owners(l) == {u \in Users : roles[l][u] = "owner"}

LeagueTypes ==
    /\ accounts \subseteq Users
    /\ roles \in [AllLeagues -> [Users -> Roles]]
    /\ leagueDoc \in [AllLeagues -> [state : States,
                                     createdByUid : Users \union {NoOne},
                                     memberUids : SUBSET Users]]

\* The records of one league. One that is not live has no creator any more, and
\* what was never created and the hubs have no owner: the first push of a club
\* would otherwise make a second one.
LeagueStands(l) ==
    /\ Members(roles, l) \subseteq accounts
    /\ Live(l) => /\ leagueDoc[l].memberUids \intersect accounts = Members(roles, l)
                  /\ Owners(l) = {leagueDoc[l].createdByUid} \intersect accounts
    /\ ~ Live(l) => leagueDoc[l].createdByUid = NoOne
    /\ leagueDoc[l].state = "none" => Owners(l) = {}
    /\ l \in CityHubs => Owners(l) = {} /\ leagueDoc[l].createdByUid = NoOne

LeagueInv == LeagueTypes /\ \A l \in AllLeagues : LeagueStands(l)

\* A card that is not live is nobody's.
CardInv ==
    /\ cards \in [Cards -> [state : States, authUid : Users \union {NoOne}]]
    /\ \A c \in Cards : cards[c].state # "live" => cards[c].authUid = NoOne

\* Nothing is left of u, or u has written again.
ErasedOf(u) ==
    /\ \A l \in AllLeagues : leagueDoc[l].createdByUid # u
    /\ \A c \in Cards : cards[c].authUid # u

\* Data is erased before the account goes: what LeagueRecordsStand says of
\* accounts that are gone has to hold of those that are about to.
ErasedInv ==
    /\ Users \ accounts \subseteq forgotten
    /\ \A u \in (forgotten \ late) \intersect Users : ErasedOf(u)

RecordsInv == LeagueInv /\ CardInv /\ ErasedInv

LEMMA RecordsInvInit == MembershipInit => RecordsInv
<1> SUFFICES ASSUME MembershipInit
             PROVE  RecordsInv
  OBVIOUS
<1>1. LeagueInv
  BY DEF MembershipInit, LeagueInv, LeagueTypes, LeagueStands, Roles, States,
         Owners, Members, Live
<1>2. CardInv /\ ErasedInv
  BY DEF MembershipInit, CardInv, ErasedInv, States
<1> QED BY <1>1, <1>2 DEF RecordsInv

-----------------------------------------------------------------------------
\* A league is written: its list is made from its rows.
LEMMA PutKeepsLeagues ==
    ASSUME LeagueInv, NEW l \in AllLeagues, NEW by \in Users \union {NoOne}, NEW sent,
           accounts' = accounts, roles' \in [AllLeagues -> [Users -> Roles]],
           \A k \in AllLeagues \ {l} : roles'[k] = roles[k],
           Members(roles', l) \subseteq accounts,
           Owners(l)' = {by} \intersect accounts,
           l \in CityHubs => Owners(l)' = {} /\ by = NoOne,
           PutLeague(roles', l, by, sent)
    PROVE  LeagueInv'
<1> DEFINE row == [state |-> "live", createdByUid |-> by,
                   memberUids |-> Members(roles', l)]
<1>1. leagueDoc' = [leagueDoc EXCEPT ![l] = row]
  BY DEF PutLeague, WithMembers
<1>2. Members(roles', l) \subseteq Users
  BY DEF Members
<1>3. row \in [state : States, createdByUid : Users \union {NoOne},
               memberUids : SUBSET Users]
  BY <1>2 DEF States
<1> HIDE DEF row
<1>4. LeagueTypes'
  BY <1>1, <1>3 DEF LeagueInv, LeagueTypes
<1>5. ASSUME NEW k \in AllLeagues, k # l
      PROVE  LeagueStands(k)'
  <2>1. leagueDoc'[k] = leagueDoc[k] /\ roles'[k] = roles[k]
    BY <1>1, <1>5 DEF LeagueInv, LeagueTypes
  <2> QED BY <2>1 DEF LeagueInv, LeagueStands, Live, Members, Owners
<1>6. LeagueStands(l)'
  <2>1. leagueDoc'[l] = row
    BY <1>1 DEF LeagueInv, LeagueTypes
  <2>2. /\ leagueDoc'[l].state = "live" /\ leagueDoc'[l].createdByUid = by
        /\ leagueDoc'[l].memberUids = Members(roles', l)
    BY <2>1 DEF row
  <2> QED BY <2>2 DEF LeagueStands, Live, Members
<1> QED BY <1>4, <1>5, <1>6 DEF LeagueInv

\* Somebody joins. A club has to be live, a hub is made by the first one.
LEMMA AddKeepsLeagues ==
    ASSUME LeagueInv, NEW u \in Users, NEW l \in AllLeagues, AddMember(u, l),
           Live(l) \/ l \in CityHubs, accounts' = accounts
    PROVE  LeagueInv' /\ \A k \in AllLeagues :
                            leagueDoc'[k].createdByUid = leagueDoc[k].createdByUid
<1>1. CASE Live(l) /\ IsMember(u, l)
  BY <1>1 DEF AddMember, LeagueInv, LeagueTypes, LeagueStands, Live, Members, Owners
<1>2. CASE ~ (Live(l) /\ IsMember(u, l))
  <2> DEFINE by == leagueDoc[l].createdByUid
  <2>1. /\ u \in accounts
        /\ roles' = IF IsMember(u, l) THEN roles ELSE WithRole(u, l, "member")
        /\ PutLeague(roles', l, by, {})
    BY <1>2 DEF AddMember
  <2>2. /\ roles' \in [AllLeagues -> [Users -> Roles]]
        /\ \A k \in AllLeagues \ {l} : roles'[k] = roles[k]
        /\ \A v \in Users \ {u} : roles'[l][v] = roles[l][v]
        /\ roles'[l][u] \in {roles[l][u], "member"}
        /\ roles[l][u] # "none" => roles'[l][u] = roles[l][u]
    BY <2>1 DEF WithRole, IsMember, LeagueInv, LeagueTypes, Roles
  <2>3. Owners(l)' = Owners(l)
    BY <2>2 DEF Owners
  <2>4. Members(roles', l) \subseteq accounts
    BY <2>1, <2>2 DEF Members, LeagueInv, LeagueStands
  <2>5. by \in Users \union {NoOne} /\ Owners(l) = {by} \intersect accounts
    BY MembershipAssumption DEF LeagueInv, LeagueTypes, LeagueStands
  <2>6. l \in CityHubs => Owners(l)' = {} /\ by = NoOne
    BY <2>3 DEF LeagueInv, LeagueStands
  <2>7. LeagueInv'
    BY <2>1, <2>2, <2>3, <2>4, <2>5, <2>6, PutKeepsLeagues
  <2> QED BY <2>1, <2>7 DEF PutLeague, LeagueInv, LeagueTypes
<1> QED BY <1>1, <1>2

\* u writes a card as somebody's it may be: nobody's, u's or whose it was.
LEMMA SetCardKeepsCards ==
    ASSUME CardInv, NEW c \in Cards, NEW state \in {"live", "deleted"},
           NEW by \in Users \union {NoOne}, SetCard(c, state, by),
           state = "live" \/ by = NoOne
    PROVE  /\ CardInv'
           /\ \A d \in Cards : cards'[d].authUid \in {cards[d].authUid, by}
BY DEF CardInv, SetCard, States

\* Whoever was erased stays so while others write, and u's own writes are noted.
LEMMA WriteKeepsErased ==
    ASSUME ErasedInv, NEW u \in Users, UNCHANGED <<accounts, forgotten>>, Writes(u),
           \A l \in AllLeagues : leagueDoc'[l].createdByUid
                                    \in {leagueDoc[l].createdByUid, NoOne, u},
           \A c \in Cards : cards'[c].authUid \in {cards[c].authUid, NoOne, u}
    PROVE  ErasedInv'
<1> SUFFICES ASSUME NEW v \in (forgotten' \ late') \intersect Users
             PROVE  ErasedOf(v)'
  BY DEF ErasedInv
<1>1. v \in forgotten \ late /\ v # u /\ v # NoOne
  BY MembershipAssumption DEF Writes
<1> QED BY <1>1 DEF ErasedInv, ErasedOf

LEMMA OthersKeepErased ==
    ASSUME ErasedInv, UNCHANGED <<accounts, forgotten, late>>,
           \A l \in AllLeagues : leagueDoc'[l].createdByUid
                                    \in {leagueDoc[l].createdByUid, NoOne},
           \A c \in Cards : cards'[c].authUid \in {cards[c].authUid, NoOne}
    PROVE  ErasedInv'
BY MembershipAssumption DEF ErasedInv, ErasedOf

-----------------------------------------------------------------------------
LEMMA CreateLeagueKeeps ==
    ASSUME RecordsInv, NEW u \in Users, NEW l \in AllLeagues, CreateLeague(u, l)
    PROVE  RecordsInv'
<1>1. /\ u \in accounts /\ l \in Clubs /\ leagueDoc[l].state = "none"
      /\ roles' = WithRole(u, l, "owner") /\ PutLeague(roles', l, u, {u})
      /\ Writes(u) /\ UNCHANGED <<accounts, cards, links, forgotten>>
  BY DEF CreateLeague
<1>2. /\ roles' \in [AllLeagues -> [Users -> Roles]]
      /\ \A k \in AllLeagues \ {l} : roles'[k] = roles[k]
      /\ \A v \in Users \ {u} : roles'[l][v] = roles[l][v]
      /\ roles'[l][u] = "owner"
  BY <1>1 DEF WithRole, RecordsInv, LeagueInv, LeagueTypes, Roles
<1>3. Owners(l)' = {u}
  BY <1>1, <1>2 DEF Owners, RecordsInv, LeagueInv, LeagueStands
<1>4. Members(roles', l) \subseteq accounts
  BY <1>1, <1>2 DEF Members, RecordsInv, LeagueInv, LeagueStands
<1>5. l \notin CityHubs
  BY <1>1, MembershipAssumption
<1>6. LeagueInv'
  BY <1>1, <1>2, <1>3, <1>4, <1>5, PutKeepsLeagues DEF RecordsInv
<1>7. ErasedInv'
  <2>1. \A k \in AllLeagues : leagueDoc'[k].createdByUid \in {leagueDoc[k].createdByUid, u}
    BY <1>1 DEF PutLeague, RecordsInv, LeagueInv, LeagueTypes
  <2> QED BY <1>1, <2>1, WriteKeepsErased DEF RecordsInv
<1> QED BY <1>1, <1>6, <1>7 DEF RecordsInv, CardInv

LEMMA SaveLeagueKeeps ==
    ASSUME RecordsInv, NEW u \in Users, NEW l \in AllLeagues, NEW sent,
           SaveLeague(u, l, sent)
    PROVE  RecordsInv'
<1> DEFINE by == leagueDoc[l].createdByUid
<1>1. /\ Live(l) /\ PutLeague(roles, l, by, sent)
      /\ UNCHANGED <<accounts, roles, cards, forgotten, late>>
  BY DEF SaveLeague
<1>2. /\ by \in Users \union {NoOne} /\ Owners(l)' = {by} \intersect accounts
      /\ Members(roles', l) \subseteq accounts
      /\ roles' \in [AllLeagues -> [Users -> Roles]]
      /\ l \in CityHubs => Owners(l)' = {} /\ by = NoOne
  BY <1>1 DEF RecordsInv, LeagueInv, LeagueTypes, LeagueStands, Owners
<1>3. LeagueInv'
  BY <1>1, <1>2, PutKeepsLeagues DEF RecordsInv
<1>4. \A k \in AllLeagues : leagueDoc'[k].createdByUid = leagueDoc[k].createdByUid
  BY <1>1 DEF PutLeague, RecordsInv, LeagueInv, LeagueTypes
<1>5. ErasedInv'
  BY <1>1, <1>4, OthersKeepErased DEF RecordsInv
<1> QED BY <1>1, <1>3, <1>5 DEF RecordsInv, CardInv

LEMMA DeleteLeagueKeeps ==
    ASSUME RecordsInv, NEW u \in Users, NEW l \in AllLeagues, DeleteLeague(u, l)
    PROVE  RecordsInv'
<1>1. /\ l \in Clubs /\ leagueDoc' = [leagueDoc EXCEPT ![l] = Tombstone]
      /\ UNCHANGED <<accounts, roles, cards, forgotten, late>>
  BY DEF DeleteLeague
<1>2. l \notin CityHubs
  BY <1>1, MembershipAssumption
<1>3. Tombstone \in [state : States, createdByUid : Users \union {NoOne},
                     memberUids : SUBSET Users]
  BY DEF Tombstone, States
<1>4. LeagueTypes'
  BY <1>1, <1>3 DEF RecordsInv, LeagueInv, LeagueTypes
<1>5. \A k \in AllLeagues : LeagueStands(k)'
  BY <1>1, <1>2 DEF RecordsInv, LeagueInv, LeagueTypes, LeagueStands, Tombstone,
                    Live, Members, Owners
<1>6. ErasedInv'
  <2>1. \A k \in AllLeagues : leagueDoc'[k].createdByUid
                                 \in {leagueDoc[k].createdByUid, NoOne}
    BY <1>1 DEF Tombstone, RecordsInv, LeagueInv, LeagueTypes
  <2> QED BY <1>1, <2>1, OthersKeepErased DEF RecordsInv
<1> QED BY <1>1, <1>4, <1>5, <1>6 DEF RecordsInv, LeagueInv, CardInv

LEMMA JoinKeeps ==
    ASSUME RecordsInv, NEW u \in Users, NEW l \in AllLeagues, Join(u, l)
    PROVE  RecordsInv'
<1>1. /\ Live(l) \/ l \in CityHubs
      /\ AddMember(u, l) /\ UNCHANGED <<accounts, cards, forgotten, late>>
  BY DEF Join
<1>2. LeagueInv' /\ \A k \in AllLeagues :
                       leagueDoc'[k].createdByUid = leagueDoc[k].createdByUid
  BY <1>1, AddKeepsLeagues DEF RecordsInv
<1>3. ErasedInv'
  BY <1>1, <1>2, OthersKeepErased DEF RecordsInv
<1> QED BY <1>1, <1>2, <1>3 DEF RecordsInv, CardInv

LEMMA LeaveKeeps ==
    ASSUME RecordsInv, NEW u \in Users, NEW l \in AllLeagues, Leave(u, l)
    PROVE  RecordsInv'
<1> DEFINE by == leagueDoc[l].createdByUid
<1>1. /\ roles[l][u] = "member" /\ Live(l)
      /\ roles' = WithRole(u, l, "none") /\ PutLeague(roles', l, by, {})
      /\ UNCHANGED <<accounts, cards, forgotten, late>>
  BY DEF Leave
<1>2. /\ roles' \in [AllLeagues -> [Users -> Roles]]
      /\ \A k \in AllLeagues \ {l} : roles'[k] = roles[k]
      /\ \A v \in Users \ {u} : roles'[l][v] = roles[l][v]
      /\ roles'[l][u] = "none"
  BY <1>1 DEF WithRole, RecordsInv, LeagueInv, LeagueTypes, Roles
<1>3. Owners(l)' = Owners(l) /\ Members(roles', l) \subseteq accounts
  BY <1>1, <1>2 DEF Owners, Members, RecordsInv, LeagueInv, LeagueStands
<1>4. /\ by \in Users \union {NoOne} /\ Owners(l) = {by} \intersect accounts
      /\ l \in CityHubs => Owners(l) = {} /\ by = NoOne
  BY <1>1 DEF RecordsInv, LeagueInv, LeagueTypes, LeagueStands
<1>5. LeagueInv'
  BY <1>1, <1>2, <1>3, <1>4, PutKeepsLeagues DEF RecordsInv
<1>6. \A k \in AllLeagues : leagueDoc'[k].createdByUid = leagueDoc[k].createdByUid
  BY <1>1 DEF PutLeague, RecordsInv, LeagueInv, LeagueTypes
<1>7. ErasedInv'
  BY <1>1, <1>6, OthersKeepErased DEF RecordsInv
<1> QED BY <1>1, <1>5, <1>7 DEF RecordsInv, CardInv

-----------------------------------------------------------------------------
\* A push of a card, new or not, by a member.
LEMMA PushCardKeeps ==
    ASSUME RecordsInv, NEW u \in Users, NEW c \in Cards, NEW by \in Users \union {NoOne},
           by \in {NoOne, u, cards[c].authUid}, SetCard(c, "live", by), Writes(u),
           UNCHANGED <<accounts, roles, leagueDoc, links, forgotten>>
    PROVE  RecordsInv'
<1>1. LeagueInv'
  BY DEF RecordsInv, LeagueInv, LeagueTypes, LeagueStands, Live, Members, Owners
<1>2. CardInv' /\ \A d \in Cards : cards'[d].authUid \in {cards[d].authUid, NoOne, u}
  BY DEF SetCard, RecordsInv, CardInv, States
<1>3. ErasedInv'
  BY <1>2, WriteKeepsErased DEF RecordsInv
<1> QED BY <1>1, <1>2, <1>3 DEF RecordsInv

LEMMA DeleteCardKeeps ==
    ASSUME RecordsInv, NEW u \in Users, NEW c \in Cards, DeleteCard(u, c)
    PROVE  RecordsInv'
<1>1. /\ SetCard(c, "deleted", NoOne)
      /\ UNCHANGED <<accounts, roles, leagueDoc, forgotten, late>>
  BY DEF DeleteCard
<1>2. LeagueInv'
  BY <1>1 DEF RecordsInv, LeagueInv, LeagueTypes, LeagueStands, Live, Members, Owners
<1>3. CardInv' /\ \A d \in Cards : cards'[d].authUid \in {cards[d].authUid, NoOne}
  BY <1>1, SetCardKeepsCards DEF RecordsInv
<1>4. ErasedInv'
  BY <1>1, <1>3, OthersKeepErased DEF RecordsInv
<1> QED BY <1>2, <1>3, <1>4 DEF RecordsInv

LEMMA RedeemKeeps ==
    ASSUME RecordsInv, NEW u \in Users, NEW c \in Cards, RedeemClaimLink(u, c)
    PROVE  RecordsInv'
<1> DEFINE l == CardLeague[c]
<1>1. /\ Live(l) /\ AddMember(u, l) /\ SetCard(c, "live", u) /\ Writes(u)
      /\ UNCHANGED <<accounts, forgotten>>
  BY DEF RedeemClaimLink
<1>2. l \in AllLeagues
  BY MembershipAssumption
<1>3. LeagueInv' /\ \A k \in AllLeagues :
                       leagueDoc'[k].createdByUid = leagueDoc[k].createdByUid
  BY <1>1, <1>2, AddKeepsLeagues DEF RecordsInv
<1>4. CardInv' /\ \A d \in Cards : cards'[d].authUid \in {cards[d].authUid, u}
  BY <1>1, SetCardKeepsCards DEF RecordsInv
<1>5. ErasedInv'
  BY <1>1, <1>3, <1>4, WriteKeepsErased DEF RecordsInv
<1> QED BY <1>3, <1>4, <1>5 DEF RecordsInv

\* Leagues and cards of u go in one step, so that nothing of u is left.
LEMMA ForgetKeeps ==
    ASSUME RecordsInv, NEW u \in Users, ForgetUser(u)
    PROVE  RecordsInv'
<1> DEFINE owned == {l \in AllLeagues : roles[l][u] = "owner"}
<1>1. /\ u \in accounts /\ UNCHANGED <<accounts, roles>>
      /\ forgotten' = forgotten \union {u} /\ late' = late \ {u}
      /\ leagueDoc' = [l \in AllLeagues |->
            IF l \in owned /\ Live(l) THEN Tombstone ELSE leagueDoc[l]]
      /\ cards' = [c \in Cards |->
            CASE cards[c].state = "live" /\ CardLeague[c] \in owned ->
                    [state |-> "deleted", authUid |-> NoOne]
              [] cards[c].state = "live" /\ CardLeague[c] \notin owned
                                         /\ cards[c].authUid = u ->
                    [state |-> "live", authUid |-> NoOne]
              [] OTHER -> cards[c]]
  BY DEF ForgetUser
<1>2. \A l \in AllLeagues :
        leagueDoc'[l] = IF l \in owned /\ Live(l) THEN Tombstone ELSE leagueDoc[l]
  BY <1>1
<1>3. \A c \in Cards :
        \/ /\ cards'[c] = cards[c]
           /\ cards[c].authUid # u \/ cards[c].state # "live"
        \/ cards'[c] = [state |-> "deleted", authUid |-> NoOne]
        \/ cards'[c] = [state |-> "live", authUid |-> NoOne]
  BY <1>1
<1>4. Tombstone \in [state : States, createdByUid : Users \union {NoOne},
                     memberUids : SUBSET Users]
  BY DEF Tombstone, States
<1>5. LeagueTypes'
  <2>1. leagueDoc' \in [AllLeagues -> [state : States,
                                       createdByUid : Users \union {NoOne},
                                       memberUids : SUBSET Users]]
    BY <1>1, <1>4 DEF RecordsInv, LeagueInv, LeagueTypes
  <2> QED BY <1>1, <2>1 DEF RecordsInv, LeagueInv, LeagueTypes
<1>6. \A l \in AllLeagues : LeagueStands(l)'
  BY <1>1, <1>2 DEF RecordsInv, LeagueInv, LeagueTypes, LeagueStands, Tombstone,
                    Live, Members, Owners
<1>7. CardInv'
  <2>1. \A c \in Cards : cards'[c] \in [state : States, authUid : Users \union {NoOne}]
    BY <1>3 DEF RecordsInv, CardInv, States
  <2>2. cards' \in [Cards -> [state : States, authUid : Users \union {NoOne}]]
    BY <1>1, <2>1
  <2> QED BY <1>3, <2>2 DEF RecordsInv, CardInv
<1>8. ErasedOf(u)'
  <2>1. ASSUME NEW l \in AllLeagues
        PROVE  leagueDoc'[l].createdByUid # u
    <3>1. leagueDoc[l].createdByUid = u => l \in owned /\ Live(l)
      BY <1>1, MembershipAssumption DEF RecordsInv, LeagueInv, LeagueStands, Owners
    <3> QED BY <1>2, <3>1, MembershipAssumption DEF Tombstone
  <2>2. \A c \in Cards : cards'[c].authUid # u
    BY <1>3, MembershipAssumption DEF RecordsInv, CardInv
  <2> QED BY <2>1, <2>2 DEF ErasedOf
<1>9. ASSUME NEW v \in (forgotten \ late) \intersect Users
      PROVE  ErasedOf(v)'
  <2>1. ErasedOf(v) /\ v # NoOne
    BY MembershipAssumption DEF RecordsInv, ErasedInv
  <2> QED BY <1>2, <1>3, <2>1 DEF ErasedOf, Tombstone
<1>10. ErasedInv'
  BY <1>1, <1>8, <1>9 DEF RecordsInv, ErasedInv
<1> QED BY <1>5, <1>6, <1>7, <1>10 DEF RecordsInv, LeagueInv

LEMMA DeleteAccountKeeps ==
    ASSUME RecordsInv, NEW u \in Users, DeleteAccount(u)
    PROVE  RecordsInv'
<1>1. /\ u \in forgotten /\ accounts' = accounts \ {u}
      /\ roles' = [l \in AllLeagues |-> [roles[l] EXCEPT ![u] = "none"]]
      /\ UNCHANGED <<leagueDoc, cards, forgotten, late>>
  BY DEF DeleteAccount
<1>2. /\ roles' \in [AllLeagues -> [Users -> Roles]]
      /\ \A l \in AllLeagues : /\ roles'[l][u] = "none"
                               /\ \A v \in Users \ {u} : roles'[l][v] = roles[l][v]
  BY <1>1 DEF RecordsInv, LeagueInv, LeagueTypes, Roles
<1>3. \A l \in AllLeagues : /\ Members(roles', l) = Members(roles, l) \ {u}
                            /\ Owners(l)' = Owners(l) \ {u}
  BY <1>2 DEF Members, Owners
<1>4. LeagueTypes'
  BY <1>1, <1>2 DEF RecordsInv, LeagueInv, LeagueTypes
<1>5. ASSUME NEW l \in AllLeagues
      PROVE  LeagueStands(l)'
  <2>1. LeagueStands(l) /\ Live(l)' = Live(l)
    BY <1>1 DEF RecordsInv, LeagueInv, Live
  <2> QED BY <1>1, <1>3, <2>1 DEF LeagueStands
<1>6. ErasedInv'
  BY <1>1 DEF RecordsInv, ErasedInv, ErasedOf
<1> QED BY <1>1, <1>4, <1>5, <1>6 DEF RecordsInv, LeagueInv, CardInv

-----------------------------------------------------------------------------
LEMMA RecordsInvStep == RecordsInv /\ [MembershipNext]_membershipVars => RecordsInv'
<1> SUFFICES ASSUME RecordsInv, [MembershipNext]_membershipVars
             PROVE  RecordsInv'
  OBVIOUS
<1>1. ASSUME NEW u \in Users, NEW l \in AllLeagues,
             \/ CreateLeague(u, l) \/ DeleteLeague(u, l)
             \/ Join(u, l) \/ Leave(u, l)
             \/ \E sent \in SUBSET Users : SaveLeague(u, l, sent)
      PROVE  RecordsInv'
  BY <1>1, CreateLeagueKeeps, DeleteLeagueKeeps, JoinKeeps, LeaveKeeps, SaveLeagueKeeps
<1>2. ASSUME NEW u \in Users, NEW c \in Cards, NEW by \in Users \union {NoOne},
             CreateCard(u, c, by) \/ SaveCard(u, c, by)
      PROVE  RecordsInv'
  <2>1. /\ by \in {NoOne, u, cards[c].authUid} /\ SetCard(c, "live", by) /\ Writes(u)
        /\ UNCHANGED <<accounts, roles, leagueDoc, links, forgotten>>
    BY <1>2 DEF CreateCard, SaveCard
  <2> QED BY <2>1, PushCardKeeps
<1>3. ASSUME NEW u \in Users, NEW c \in Cards, DeleteCard(u, c)
      PROVE  RecordsInv'
  BY <1>3, DeleteCardKeeps
<1>4. ASSUME NEW u \in Users, NEW c \in Cards, RedeemClaimLink(u, c)
      PROVE  RecordsInv'
  BY <1>4, RedeemKeeps
<1>5. ASSUME NEW u \in Users, NEW c \in Cards, CreateClaimLink(u, c) \/ LoseLink(c)
      PROVE  UNCHANGED <<accounts, roles, leagueDoc, cards, forgotten, late>>
  BY <1>5 DEF CreateClaimLink, LoseLink
<1>6. ASSUME UNCHANGED <<accounts, roles, leagueDoc, cards, forgotten, late>>
      PROVE  RecordsInv'
  BY <1>6 DEF RecordsInv, LeagueInv, LeagueTypes, LeagueStands, CardInv,
              ErasedInv, ErasedOf, Live, Members, Owners
<1>7. ASSUME NEW u \in Users, ForgetUser(u) \/ DeleteAccount(u)
      PROVE  RecordsInv'
  BY <1>7, ForgetKeeps, DeleteAccountKeeps
<1>8. CASE UNCHANGED membershipVars
  BY <1>6, <1>8 DEF membershipVars
<1> QED BY <1>1, <1>2, <1>3, <1>4, <1>5, <1>6, <1>7, <1>8 DEF MembershipNext

LEMMA RecordsInvImplies == RecordsInv => LeagueRecordsStand
<1> SUFFICES ASSUME RecordsInv
             PROVE  LeagueRecordsStand
  OBVIOUS
<1>1. \A l \in AllLeagues : Live(l) =>
        /\ leagueDoc[l].memberUids \intersect accounts = Members(roles, l)
        /\ {u \in Users : roles[l][u] = "owner"} =
               {leagueDoc[l].createdByUid} \intersect accounts
  BY DEF RecordsInv, LeagueInv, LeagueStands, Owners
<1>2. \A u \in Users \ (accounts \union late) : ErasedOf(u)
  BY DEF RecordsInv, ErasedInv
<1> QED BY <1>1, <1>2 DEF LeagueRecordsStand, ErasedOf

\* The document of a league lists the members permissions are decided by, its
\* creator is its owner, and nothing is left of who is gone, except what they
\* wrote between the erasing and the end of their account (account.go:42).
THEOREM RecordsStand == MembershipSpec => []LeagueRecordsStand
<1>1. MembershipInit => RecordsInv
  BY RecordsInvInit
<1>2. RecordsInv /\ [MembershipNext]_membershipVars => RecordsInv'
  BY RecordsInvStep
<1> QED BY <1>1, <1>2, RecordsInvImplies, PTL DEF MembershipSpec

-----------------------------------------------------------------------------
KeepsPerson(c) ==
    cards[c].authUid # NoOne =>
        \/ cards'[c].authUid = cards[c].authUid
        \/ cards'[c].state = "deleted"
        \/ cards'[c].authUid = NoOne /\ cards[c].authUid \in forgotten'

LEMMA PersonKept ==
    ASSUME RecordsInv, [MembershipNext]_membershipVars, NEW c \in Cards
    PROVE  KeepsPerson(c)
<1>1. cards \in [Cards -> [state : States, authUid : Users \union {NoOne}]]
  BY DEF RecordsInv, CardInv
<1>2. ASSUME cards' = cards
      PROVE  KeepsPerson(c)
  BY <1>2 DEF KeepsPerson
<1>3. ASSUME NEW u \in Users, NEW l \in AllLeagues,
             \/ CreateLeague(u, l) \/ DeleteLeague(u, l)
             \/ Join(u, l) \/ Leave(u, l)
             \/ \E sent \in SUBSET Users : SaveLeague(u, l, sent)
      PROVE  KeepsPerson(c)
  BY <1>2, <1>3 DEF CreateLeague, DeleteLeague, Join, Leave, SaveLeague
<1>4. ASSUME NEW u \in Users, NEW d \in Cards, NEW by \in Users \union {NoOne},
             CreateCard(u, d, by) \/ SaveCard(u, d, by)
      PROVE  KeepsPerson(c)
  <2>1. SetCard(d, "live", by) /\ (by = cards[d].authUid \/ cards[d].authUid = NoOne)
    BY <1>4 DEF CreateCard, SaveCard, RecordsInv, CardInv
  <2> QED BY <1>1, <2>1 DEF SetCard, KeepsPerson
<1>5. ASSUME NEW u \in Users, NEW d \in Cards, DeleteCard(u, d)
      PROVE  KeepsPerson(c)
  BY <1>1, <1>5 DEF DeleteCard, SetCard, KeepsPerson
<1>6. ASSUME NEW u \in Users, NEW d \in Cards, RedeemClaimLink(u, d)
      PROVE  KeepsPerson(c)
  <2>1. SetCard(d, "live", u) /\ cards[d].authUid \in {NoOne, u}
    BY <1>6 DEF RedeemClaimLink, MayRedeem
  <2> QED BY <1>1, <2>1 DEF SetCard, KeepsPerson
<1>7. ASSUME NEW u \in Users, NEW d \in Cards, CreateClaimLink(u, d) \/ LoseLink(d)
      PROVE  KeepsPerson(c)
  BY <1>2, <1>7 DEF CreateClaimLink, LoseLink
<1>8. ASSUME NEW u \in Users, ForgetUser(u)
      PROVE  KeepsPerson(c)
  <2>1. /\ forgotten' = forgotten \union {u}
        /\ \/ cards'[c] = cards[c]
           \/ cards'[c] = [state |-> "deleted", authUid |-> NoOne]
           \/ cards[c].authUid = u /\ cards'[c] = [state |-> "live", authUid |-> NoOne]
    BY <1>8 DEF ForgetUser
  <2> QED BY <2>1 DEF KeepsPerson
<1>9. ASSUME NEW u \in Users, DeleteAccount(u)
       PROVE  KeepsPerson(c)
  BY <1>2, <1>9 DEF DeleteAccount
<1>10. CASE UNCHANGED membershipVars
  BY <1>2, <1>10 DEF membershipVars
<1> QED BY <1>3, <1>4, <1>5, <1>6, <1>7, <1>8, <1>9, <1>10 DEF MembershipNext

\* A card never passes from one person to another, or away from a person who is
\* not deleting the account, however two people claim it (claims.go:129,
\* policy.go:202).
THEOREM CardKeepsPerson == MembershipSpec => CardKeepsItsPerson
<1>1. MembershipInit => RecordsInv
  BY RecordsInvInit
<1>2. RecordsInv /\ [MembershipNext]_membershipVars => RecordsInv'
  BY RecordsInvStep
<1>3. RecordsInv /\ [MembershipNext]_membershipVars
        => [\A c \in Cards : cards[c].authUid # NoOne =>
               \/ cards'[c].authUid = cards[c].authUid
               \/ cards'[c].state = "deleted"
               \/ cards'[c].authUid = NoOne /\ cards[c].authUid \in forgotten'
           ]_membershipVars
  BY PersonKept DEF KeepsPerson
<1> QED BY <1>1, <1>2, <1>3, PTL DEF MembershipSpec, CardKeepsItsPerson

-----------------------------------------------------------------------------
(***************************************************************************)
(* The history of a league on a member's phone                             *)
(***************************************************************************)

\* A bounded set of numbers has a greatest one.
LEMMA GreatestOf ==
    ASSUME NEW b \in Nat, NEW S \in SUBSET (0..b), S # {}
    PROVE  Max(S) \in S /\ \A s \in S : Max(S) >= s
<1> DEFINE R == OpToRel(<, Nat)
           T == {b - s : s \in S}
<1>1. IsWellFoundedOn(R, Nat)
  BY NatLessThanWellFounded, Zenon
<1>2. \A x, y \in Nat : <<x, y>> \in R <=> x < y
  BY DEF OpToRel
<1> HIDE DEF R
<1>3. T \subseteq Nat /\ T # {}
  <2>1. \A s \in S : s \in 0..b
    OBVIOUS
  <2>2. \A s \in 0..b : b - s \in Nat
    OBVIOUS
  <2> QED BY <2>1, <2>2
<1>4. PICK t \in T : \A y \in T : ~ (<<y, t>> \in R)
  BY <1>1, <1>3, WFMin, Zenon
<1>5. PICK m \in S : t = b - m
  OBVIOUS
<1>6. \A s \in S : m >= s
  <2> SUFFICES ASSUME NEW s \in S, s > m PROVE FALSE
    BY <1>5
  <2>1. b - s \in T /\ b - s < t /\ b - s \in Nat /\ t \in Nat
    BY <1>5
  <2> QED BY <2>1, <1>4, <1>2
<1> QED BY <1>6 DEF Max

LEMMA MaxOfTwo ==
    ASSUME NEW a \in Nat, NEW b \in Nat
    PROVE  Max({a, b}) = IF a >= b THEN a ELSE b
<1> DEFINE m == IF a >= b THEN a ELSE b
<1>1. m \in {a, b} /\ \A y \in {a, b} : m >= y
  OBVIOUS
<1>2. \A x \in {a, b} : (\A y \in {a, b} : x >= y) => x = m
  OBVIOUS
<1> HIDE DEF m
<1>3. (CHOOSE x \in {a, b} : \A y \in {a, b} : x >= y) = m
  BY <1>1, <1>2
<1> QED BY <1>3 DEF Max, m

-----------------------------------------------------------------------------
DocStates == {"live", "dead", "in", "out"}
DocCopies == [version : 1..MaxHistVersion, state : DocStates]
PageRecords == [docs : UNION {[S -> DocCopies] : S \in SUBSET Names},
                cursor : 0..MaxHistVersion, more : BOOLEAN, owed : BOOLEAN]
LeagueRows == DocStates \union {"none"}
VisitRecords == [step : {"none", "joined", "fetch", "page"}, page : PageRecords,
                 since : 0..MaxHistVersion, pages : Nat, before : LeagueRows, owed : BOOLEAN]

HistoryTypes ==
    /\ histStored \in [Names -> DocCopies]
    /\ \A d \in HistDocs : histStored[d].state \in {"live", "dead"}
    /\ memberRow \in BOOLEAN /\ histMissed \in BOOLEAN
    /\ cursor \in 0..MaxHistVersion
    /\ histCopy \in [HistDocs -> 0..MaxHistVersion]
    /\ leagueRow \in LeagueRows
    /\ feedPage \in PageRecords
    /\ visit \in VisitRecords

LEMMA HistoryConstants ==
    /\ MaxHistVersion \in Nat /\ MaxHistVersion >= 1
    /\ IsFiniteSet(Names) /\ HistDocs \subseteq Names /\ LeagueDocs \subseteq Names
    /\ "league" \in LeagueDocs /\ HistDocs \subseteq LeagueDocs
    /\ "league" \notin HistDocs /\ "elsewhere" \notin HistDocs
    /\ PageDocs \in Nat
<1>1. IsFiniteSet(LeagueDocs) /\ IsFiniteSet(Names)
  BY FS_AddElement, HistoryAssumption DEF LeagueDocs, Names
<1>2. Cardinality(HistDocs) \in Nat
  BY HistoryAssumption, FS_CardinalityType
<1> QED BY <1>1, <1>2, HistoryAssumption DEF LeagueDocs, Names

LEMMA LastIsLast ==
    ASSUME histStored \in [Names -> DocCopies]
    PROVE  /\ LastVersion \in 1..MaxHistVersion
           /\ \A n \in Names : histStored[n].version <= LastVersion
           /\ \E n \in Names : histStored[n].version = LastVersion
<1> DEFINE S == {histStored[n].version : n \in Names}
<1>1. S \subseteq 1..MaxHistVersion /\ S \subseteq 0..MaxHistVersion /\ S # {}
  BY HistoryConstants DEF DocCopies
<1>2. LastVersion = Max(S)
  BY DEF LastVersion
<1> HIDE DEF S
<1>3. Max(S) \in S /\ \A s \in S : Max(S) >= s
  BY <1>1, GreatestOf, HistoryConstants
<1>4. \A n \in Names : Max(S) >= histStored[n].version
  BY <1>3 DEF S
<1>5. \E n \in Names : histStored[n].version = Max(S)
  BY <1>3 DEF S
<1> QED BY <1>1, <1>2, <1>3, <1>4, <1>5 DEF DocCopies

\* What a write at the server changes.
LEMMA PutChanges ==
    ASSUME histStored \in [Names -> DocCopies], NEW n \in Names, NEW st \in DocStates, Put(n, st)
    PROVE  /\ histStored' \in [Names -> DocCopies]
           /\ histStored'[n] = [version |-> LastVersion + 1, state |-> st]
           /\ \A k \in Names \ {n} : histStored'[k] = histStored[k]
           /\ LastVersion' = LastVersion + 1
           /\ LastVersion \in Nat
<1>1. LastVersion \in 1..MaxHistVersion /\ LastVersion < MaxHistVersion
      /\ \A k \in Names : histStored[k].version <= LastVersion
  BY LastIsLast DEF Put
<1>2. [version |-> LastVersion + 1, state |-> st] \in DocCopies
  BY <1>1, HistoryConstants DEF DocCopies
<1>3. /\ histStored' \in [Names -> DocCopies]
      /\ histStored'[n] = [version |-> LastVersion + 1, state |-> st]
      /\ \A k \in Names \ {n} : histStored'[k] = histStored[k]
  BY <1>2 DEF Put
<1> DEFINE S == {histStored'[k].version : k \in Names}
<1>4. S \subseteq 0..MaxHistVersion /\ S # {} /\ LastVersion + 1 \in S
      /\ \A s \in S : s <= LastVersion + 1
  BY <1>1, <1>3, HistoryConstants DEF DocCopies
<1>5. LastVersion' = Max(S)
  BY DEF LastVersion
<1> HIDE DEF S
<1>6. Max(S) \in S /\ \A s \in S : Max(S) >= s
  BY <1>4, GreatestOf, HistoryConstants
<1>7. Max(S) = LastVersion + 1
  <2>1. Max(S) \in 0..MaxHistVersion /\ Max(S) <= LastVersion + 1 /\ Max(S) >= LastVersion + 1
    BY <1>4, <1>6
  <2> QED BY <2>1, <1>1, HistoryConstants
<1> QED BY <1>1, <1>3, <1>5, <1>7

\* A page has every document up to its cursor, or every one when it is the last.
LEMMA PageHolds ==
    ASSUME histStored \in [Names -> DocCopies], NEW names \in SUBSET Names,
           NEW since \in 0..MaxHistVersion
    PROVE  LET p == PageOf(names, since)
           IN  /\ p \in PageRecords /\ ~ p.owed
               /\ since <= p.cursor /\ (p.cursor <= since \/ p.cursor <= LastVersion)
               /\ \A n \in DOMAIN p.docs : /\ n \in names
                                           /\ p.docs[n] = histStored[n]
                                           /\ histStored[n].version <= p.cursor
               /\ \A n \in names :
                    /\ since < histStored[n].version
                    /\ histStored[n].version <= p.cursor \/ ~ p.more
                    => n \in DOMAIN p.docs
<1> DEFINE newer == {n \in names : histStored[n].version > since}
           older(n) == {k \in newer : histStored[k].version < histStored[n].version}
           taken == {n \in newer : Cardinality(older(n)) < PageDocs}
           C == {since} \union {histStored[n].version : n \in taken}
           p == PageOf(names, since)
<1>1. p = [docs |-> [n \in taken |-> histStored[n]], cursor |-> Max(C),
           more |-> taken # newer, owed |-> FALSE]
  BY DEF PageOf
<1> HIDE DEF p
<1>2. taken \subseteq newer /\ newer \subseteq names /\ names \subseteq Names
  OBVIOUS
<1>3. \A n \in Names : histStored[n].version \in 1..MaxHistVersion
  BY DEF DocCopies
<1>4. C \subseteq 0..MaxHistVersion /\ C # {}
  <2>1. \A n \in taken : histStored[n].version \in 0..MaxHistVersion
    BY <1>2, <1>3, HistoryConstants
  <2> HIDE DEF taken
  <2> QED BY <2>1
<1>5. \A n \in newer, k \in taken :
         histStored[n].version <= histStored[k].version => n \in taken
  <2> SUFFICES ASSUME NEW n \in newer, NEW k \in taken,
                      histStored[n].version <= histStored[k].version
               PROVE  n \in taken
    OBVIOUS
  <2>1. older(n) \subseteq older(k)
    BY <1>2, <1>3
  <2>2. IsFiniteSet(older(k))
    BY <1>2, FS_Subset, HistoryConstants
  <2>3. Cardinality(older(n)) <= Cardinality(older(k)) /\ Cardinality(older(k)) \in Nat
        /\ Cardinality(older(n)) \in Nat
    BY <2>1, <2>2, FS_Subset, FS_CardinalityType
  <2> QED BY <2>3, HistoryConstants
<1> HIDE DEF taken
<1>6. [n \in taken |-> histStored[n]] \in UNION {[S -> DocCopies] : S \in SUBSET Names}
  <2>1. taken \in SUBSET Names
    BY <1>2
  <2>2. [n \in taken |-> histStored[n]] \in [taken -> DocCopies]
    BY <2>1
  <2> QED BY <2>1, <2>2
<1>7. Max(C) \in C /\ \A c \in C : Max(C) >= c
  <2> HIDE DEF C
  <2> QED BY <1>4, GreatestOf, HistoryConstants
<1>8. Max(C) \in 0..MaxHistVersion /\ since <= Max(C)
  BY <1>4, <1>7
<1>9. p \in PageRecords /\ ~ p.owed /\ p.docs = [n \in taken |-> histStored[n]] /\ p.cursor = Max(C)
      /\ (p.more <=> taken # newer)
  BY <1>1, <1>6, <1>8 DEF PageRecords
<1>10. Max(C) = since \/ \E k \in taken : Max(C) = histStored[k].version
  BY <1>7
<1>11. p.cursor <= since \/ p.cursor <= LastVersion
  BY <1>2, <1>9, <1>10, LastIsLast
<1>12. \A n \in taken : histStored[n].version <= Max(C)
  BY <1>2, <1>3, <1>7, <1>8
<1>13. \A n \in DOMAIN p.docs : /\ n \in names
                                /\ p.docs[n] = histStored[n]
                                /\ histStored[n].version <= p.cursor
  BY <1>2, <1>9, <1>12
<1>14. ASSUME NEW n \in names, since < histStored[n].version,
              histStored[n].version <= p.cursor \/ ~ p.more
       PROVE  n \in DOMAIN p.docs
  <2>1. n \in newer
    BY <1>14, <1>3
  <2>2. CASE ~ p.more
    BY <2>1, <2>2, <1>9
  <2>3. CASE histStored[n].version <= p.cursor
    <3>1. Max(C) # since
      BY <2>3, <1>14, <1>9, <1>3, <1>8
    <3>2. PICK k \in taken : Max(C) = histStored[k].version
      BY <3>1, <1>10
    <3> QED BY <3>2, <2>1, <2>3, <1>5, <1>9
  <2> QED BY <1>14, <2>2, <2>3
<1> QED BY <1>8, <1>9, <1>11, <1>13, <1>14 DEF p
-----------------------------------------------------------------------------
\* The row of league_members is as old as the league's document.
Joined == histStored["league"].version
Holds(page, d) == d \in DOMAIN page.docs /\ page.docs[d] = histStored[d]
Current(d) == histCopy[d] = IF histStored[d].state = "dead" THEN 0 ELSE histStored[d].version

\* What the feed brings, and of the history what is not missing or still to be fetched.
Due(d) == \/ Joined < histStored[d].version
          \/ /\ ~ histMissed
             /\ ~ visit.owed \/ histStored[d].version <= visit.since

\* What a page has is as old as the page or older, and what is deleted stays deleted.
NotNewer(page) == \A d \in HistDocs \intersect DOMAIN page.docs :
    /\ page.docs[d].state \in {"live", "dead"}
    /\ page.docs[d].version <= histStored[d].version
    /\ page.docs[d].state = "dead" => page.docs[d] = histStored[d]

NothingNewer ==
    /\ cursor <= LastVersion /\ feedPage.cursor <= LastVersion
    /\ visit.page.cursor <= LastVersion /\ visit.since <= LastVersion
    /\ \A d \in HistDocs : histCopy[d] <= histStored[d].version
    /\ NotNewer(feedPage) /\ NotNewer(visit.page)
    /\ \A d \in HistDocs \intersect DOMAIN feedPage.docs :
          Holds(feedPage, d) \/ feedPage.cursor < histStored[d].version

StepsInOrder ==
    /\ feedPage # NoPage => cursor <= feedPage.cursor
    /\ feedPage.owed => cursor = 0
    /\ visit.step \in {"none", "joined"} => ~ visit.owed /\ visit.since = 0
    /\ visit.step = "none" => visit = NoVisit
    /\ visit.step = "joined" => "league" \in DOMAIN visit.page.docs

\* What the property says, between two steps of a visit too.
ShownUpToCursor == memberRow =>
    \A d \in HistDocs \ histRevived :
        histStored[d].version <= cursor /\ Due(d) => Current(d)

\* What the page under way will move the cursor past.
FeedPageCovers == memberRow /\ feedPage # NoPage =>
    \A d \in HistDocs \ histRevived :
        /\ histStored[d].version <= feedPage.cursor
        /\ \/ Joined < histStored[d].version
           \/ ~ feedPage.owed /\ Due(d)
        => Current(d) \/ Holds(feedPage, d)

\* What the page under way has to have, of what was there when the user joined.
OnPage(d) ==
    /\ histStored[d].version <= Joined
    /\ \/ d \in DOMAIN visit.page.docs
       \/ /\ visit.since < histStored[d].version
          /\ histStored[d].version <= visit.page.cursor \/ ~ visit.page.more
HistoryPageCovers == visit.step = "page" /\ memberRow /\ ~ histMissed =>
    \A d \in HistDocs : OnPage(d) => Holds(visit.page, d)

\* A copy that the page of the history will make stale is put right by the feed.
StaleIsBrought == visit.step = "page" /\ memberRow /\ ~ Merged =>
    \A d \in HistDocs \intersect DOMAIN visit.page.docs :
        /\ Joined < histStored[d].version /\ cursor < histStored[d].version
        /\ histStored[d].version <= feedPage.cursor
        => Holds(visit.page, d) \/ Holds(feedPage, d)

HistoryInv ==
    /\ HistoryTypes /\ NothingNewer /\ StepsInOrder /\ ShownUpToCursor
    /\ FeedPageCovers /\ HistoryPageCovers /\ StaleIsBrought

LEMMA NoneTypes == /\ NoPage \in PageRecords /\ DOMAIN NoPage.docs = {} /\ NoPage.cursor = 0
                   /\ ~ NoPage.owed
                   /\ NoVisit \in VisitRecords /\ NoVisit.page = NoPage /\ NoVisit.step = "none"
                   /\ ~ NoVisit.owed /\ NoVisit.since = 0
<1> USE HistoryConstants
<1>1. NoPage \in PageRecords /\ DOMAIN NoPage.docs = {} /\ NoPage.cursor = 0 /\ ~ NoPage.owed
  <2>1. <<>> \in [{} -> DocCopies] /\ {} \in SUBSET Names
    OBVIOUS
  <2>2. <<>> \in UNION {[S -> DocCopies] : S \in SUBSET Names}
    BY <2>1
  <2>3. DOMAIN <<>> = {} /\ 0 \in 0..MaxHistVersion
    OBVIOUS
  <2> QED BY <2>2, <2>3 DEF NoPage, PageRecords
<1> QED BY <1>1 DEF NoVisit, VisitRecords, LeagueRows

LEMMA HistoryInvInit == HistoryInit => HistoryInv
<1> SUFFICES ASSUME HistoryInit
             PROVE  HistoryInv
  OBVIOUS
<1> USE HistoryConstants
<1>1. FirstVersion \in [Names -> 1..MaxHistVersion]
  <2> DEFINE k == Cardinality(HistDocs)
             All == 1..Cardinality(Names)
             Good(f) == /\ f["league"] = 1 /\ f["elsewhere"] = Cardinality(Names)
                        /\ \A n, m \in Names : n # m => f[n] # f[m]
  <2>1. k \in Nat /\ ExistsBijection(1..k, HistDocs)
    BY HistoryAssumption, FS_CardinalityType
  <2>2. Cardinality(Names) = k + 2
    <3>1. IsFiniteSet(LeagueDocs) /\ Cardinality(LeagueDocs) = k + 1
      BY HistoryAssumption, FS_AddElement DEF LeagueDocs
    <3>2. "elsewhere" \notin LeagueDocs
      BY DEF LeagueDocs
    <3> QED BY <3>1, <3>2, <2>1, FS_AddElement DEF Names
  <2>3. PICK g \in Bijection(1..k, HistDocs) : TRUE
    BY <2>1 DEF ExistsBijection
  <2>4. /\ \A d \in HistDocs : \E i \in 1..k : g[i] = d
        /\ \A i \in 1..k : g[i] \in HistDocs
    BY DEF Bijection, Injection, Surjection
  <2> DEFINE at(d) == CHOOSE i \in 1..k : g[i] = d
  <2>5. \A d \in HistDocs : at(d) \in 1..k /\ g[at(d)] = d
    BY <2>4
  <2> DEFINE f == [n \in Names |-> IF n = "league" THEN 1
                                   ELSE IF n = "elsewhere" THEN k + 2 ELSE at(n) + 1]
  <2> HIDE DEF at
  <2>6. \A n \in Names : n \in HistDocs \/ n = "league" \/ n = "elsewhere"
    BY DEF Names, LeagueDocs
  <2>7. f \in [Names -> All]
    BY <2>1, <2>2, <2>5, <2>6
  <2>8. "league" \in Names /\ "elsewhere" \in Names
    BY DEF Names, LeagueDocs
  <2>9. \A n, m \in Names : n # m => f[n] # f[m]
    <3> SUFFICES ASSUME NEW n \in Names, NEW m \in Names, f[n] = f[m]
                 PROVE  n = m
      OBVIOUS
    <3>1. \A x \in HistDocs : f[x] = at(x) + 1 /\ f[x] # 1 /\ f[x] # k + 2
      BY <2>1, <2>5
    <3>2. f["league"] = 1 /\ f["elsewhere"] = k + 2 /\ k + 2 # 1
      BY <2>1, <2>8
    <3>3. CASE n \in HistDocs /\ m \in HistDocs
      <4>1. at(n) + 1 = at(m) + 1
        BY <3>1, <3>3
      <4>2. at(n) = at(m)
        BY <4>1, <2>5, <3>3
      <4> QED BY <4>2, <2>5, <3>3
    <3> HIDE DEF f
    <3> QED BY <3>1, <3>2, <3>3, <2>6
  <2>10. Good(f)
    BY <2>1, <2>2, <2>8, <2>9
  <2> HIDE DEF f
  <2>11. \E x \in [Names -> All] : Good(x)
    BY <2>7, <2>10
  <2>12. FirstVersion = CHOOSE x \in [Names -> All] : Good(x)
    BY DEF FirstVersion
  <2>13. FirstVersion \in [Names -> All]
    <3> HIDE DEF Good, All
    <3> QED BY <2>11, <2>12
  <2>14. All \subseteq 1..MaxHistVersion
    BY <2>1, <2>2, HistoryAssumption
  <2> QED BY <2>13, <2>14
<1>2. histStored \in [Names -> DocCopies]
  BY <1>1 DEF HistoryInit, DocCopies, DocStates
<1>3. NoPage \in PageRecords /\ DOMAIN NoPage.docs = {} /\ NoPage.cursor = 0 /\ ~ NoPage.owed
  BY NoneTypes
<1>4. NoVisit \in VisitRecords /\ NoVisit.page = NoPage /\ NoVisit.step = "none" /\ ~ NoVisit.owed
      /\ NoVisit.since = 0
  BY NoneTypes
<1>5. HistoryTypes
  <2>0. \A d \in HistDocs : histStored[d].state \in {"live", "dead"}
    BY DEF HistoryInit
  <2>1. cursor = 0 /\ 0 \in 0..MaxHistVersion /\ histCopy = [d \in HistDocs |-> 0]
    BY DEF HistoryInit
  <2>2. histCopy \in [HistDocs -> 0..MaxHistVersion]
    BY <2>1
  <2>3. leagueRow \in LeagueRows /\ feedPage \in PageRecords /\ visit \in VisitRecords
    BY <1>3, <1>4 DEF HistoryInit, LeagueRows
  <2> QED BY <1>2, <2>0, <2>1, <2>2, <2>3 DEF HistoryInit, HistoryTypes
<1>6. LastVersion \in Nat /\ \A n \in Names : histStored[n].version \in Nat
  BY <1>2, LastIsLast DEF DocCopies
<1>7. NothingNewer
  BY <1>3, <1>4, <1>6 DEF HistoryInit, NothingNewer, NotNewer
<1>8. StepsInOrder
  BY <1>3, <1>4 DEF HistoryInit, StepsInOrder
<1> QED BY <1>4, <1>5, <1>7, <1>8
     DEF HistoryInit, HistoryInv, ShownUpToCursor, FeedPageCovers, HistoryPageCovers,
         StaleIsBrought

-----------------------------------------------------------------------------
\* A write to a document of the league, or to one of another league.
LEMMA WriteKeeps ==
    ASSUME HistoryInv, NEW n \in HistDocs \union {"elsewhere"}, WriteElse(n)
    PROVE  HistoryInv'
<1> USE HistoryConstants DEF HistoryInv
<1>1. n \in Names /\ n # "league" /\ histStored[n].state = "live"
  BY DEF WriteElse, Names
<1>2. PICK st \in {"live", "dead"} : Put(n, st)
  BY DEF WriteElse
<1>3. /\ UNCHANGED <<memberRow, cursor, histPhone, feedPage, visit, histMissed, histRevived>>
      /\ UNCHANGED <<histCopy, leagueRow>>
  BY DEF WriteElse, histPhone
<1>4. /\ histStored' \in [Names -> DocCopies]
      /\ histStored'[n] = [version |-> LastVersion + 1, state |-> st]
      /\ \A k \in Names \ {n} : histStored'[k] = histStored[k]
      /\ LastVersion' = LastVersion + 1 /\ LastVersion \in Nat
      /\ \A k \in Names : histStored[k].version <= LastVersion /\ histStored[k].version \in Nat
  <2>1. histStored \in [Names -> DocCopies] /\ st \in DocStates
    BY DEF HistoryTypes, DocStates
  <2>2. \A k \in Names : histStored[k].version <= LastVersion /\ histStored[k].version \in Nat
    BY <2>1, LastIsLast DEF DocCopies
  <2> QED BY <1>1, <1>2, <2>1, <2>2, PutChanges
<1>5. HistoryTypes'
  <2>1. \A d \in HistDocs : histStored'[d].state \in {"live", "dead"}
    BY <1>4 DEF HistoryTypes
  <2> QED BY <1>3, <1>4, <2>1 DEF HistoryTypes
<1>6. Joined' = Joined /\ Joined <= LastVersion /\ Joined \in Nat
  BY <1>1, <1>4 DEF Joined, LeagueDocs, Names
<1>7. /\ cursor \in Nat /\ feedPage.cursor \in Nat /\ visit.page.cursor \in Nat
      /\ cursor <= LastVersion /\ feedPage.cursor <= LastVersion /\ visit.page.cursor <= LastVersion
      /\ visit.page \in PageRecords /\ visit.since \in Nat /\ visit.since <= LastVersion
      /\ \A d \in HistDocs : histCopy[d] \in Nat /\ histCopy[d] <= LastVersion
  <2>1. \A d \in HistDocs : histCopy[d] <= histStored[d].version /\ histCopy[d] \in Nat
    BY DEF NothingNewer, HistoryTypes
  <2> QED BY <1>4, <2>1 DEF NothingNewer, HistoryTypes, PageRecords, VisitRecords
<1>8. /\ \A d \in DOMAIN feedPage.docs : feedPage.docs[d] \in DocCopies
      /\ \A d \in DOMAIN visit.page.docs : visit.page.docs[d] \in DocCopies
  BY <1>7 DEF HistoryTypes, PageRecords
<1>9. NotNewer(feedPage)' /\ NotNewer(visit.page)'
  <2>1. NotNewer(feedPage) /\ NotNewer(visit.page)
    BY DEF NothingNewer
  <2>2. \A d \in HistDocs : d # n => histStored'[d] = histStored[d]
    BY <1>4
  <2>3. n \in HistDocs => /\ histStored'[n].version = LastVersion + 1
                          /\ histStored[n].version <= LastVersion
    BY <1>1, <1>4
  <2>4. ASSUME NEW p \in {feedPage, visit.page}, NEW d \in HistDocs \intersect DOMAIN p.docs
        PROVE  /\ p.docs[d].state \in {"live", "dead"}
               /\ p.docs[d].version <= histStored'[d].version
               /\ p.docs[d].state = "dead" => p.docs[d] = histStored'[d]
    <3>1. /\ p.docs[d].state \in {"live", "dead"}
          /\ p.docs[d].version <= histStored[d].version /\ p.docs[d] \in DocCopies
          /\ p.docs[d].state = "dead" => p.docs[d] = histStored[d]
      BY <2>1, <2>4, <1>8 DEF NotNewer
    <3>2. CASE d # n
      BY <3>1, <3>2, <2>2
    <3>3. CASE d = n
      BY <3>1, <3>3, <2>3, <1>1, <1>4 DEF DocCopies
    <3> QED BY <3>2, <3>3
  <2> QED BY <2>4, <1>3 DEF NotNewer
<1>10. \A d \in HistDocs : \/ histStored'[d] = histStored[d]
                           \/ d = n /\ histStored'[d].version = LastVersion + 1
  BY <1>1, <1>4
<1>11. NothingNewer'
  <2>1. \A d \in HistDocs : histCopy[d] <= histStored[d].version
    BY DEF NothingNewer
  <2>2. \A d \in HistDocs : histCopy[d] <= histStored'[d].version
    BY <2>1, <1>7, <1>10, <1>4
  <2>3. \A d \in HistDocs \intersect DOMAIN feedPage.docs :
          feedPage.docs[d] = histStored'[d] \/ feedPage.cursor < histStored'[d].version
    BY <1>7, <1>10, <1>4 DEF NothingNewer, Holds
  <2>4. cursor <= LastVersion + 1 /\ feedPage.cursor <= LastVersion + 1
        /\ visit.page.cursor <= LastVersion + 1 /\ visit.since <= LastVersion + 1
    BY <1>7, <1>4
  <2> QED BY <1>3, <1>4, <1>9, <2>2, <2>3, <2>4 DEF NothingNewer, Holds
<1>12. StepsInOrder'
  BY <1>3 DEF StepsInOrder
<1>13. ShownUpToCursor'
  BY <1>3, <1>4, <1>6, <1>7, <1>10 DEF ShownUpToCursor, Due, Current
<1>14. FeedPageCovers'
  BY <1>3, <1>4, <1>6, <1>7, <1>10 DEF FeedPageCovers, Due, Current, Holds
<1>15. HistoryPageCovers'
  BY <1>3, <1>4, <1>6, <1>7, <1>10 DEF HistoryPageCovers, OnPage, Holds
<1>16. StaleIsBrought'
  BY <1>3, <1>4, <1>6, <1>7, <1>10 DEF StaleIsBrought, Merged, Holds
<1> QED BY <1>5, <1>11, <1>12, <1>13, <1>14, <1>15, <1>16

\* The user joins, which leaves the history to be fetched, or leaves.
LEMMA MovingKeeps ==
    ASSUME HistoryInv, AddUser \/ (RemoveUser /\ UNCHANGED histMissed),
           UNCHANGED <<cursor, histCopy, feedPage, histRevived>>,
           leagueRow' \in LeagueRows,
           \/ UNCHANGED visit
           \/ /\ visit = NoVisit /\ visit' \in VisitRecords /\ visit'.step = "joined"
              /\ visit'.page.cursor = 0 /\ DOMAIN visit'.page.docs = {"league"}
              /\ ~ visit'.owed /\ visit'.since = 0
    PROVE  HistoryInv'
<1> USE HistoryConstants DEF HistoryInv
<1>1. CASE UNCHANGED <<histStored, memberRow, histMissed>>
  <2>1. HistoryTypes'
    BY <1>1 DEF HistoryTypes
  <2>2. LastVersion' = LastVersion /\ Joined' = Joined
    BY <1>1 DEF LastVersion, Joined
  <2>3. CASE UNCHANGED visit
    BY <1>1, <2>1, <2>2, <2>3
       DEF NothingNewer, NotNewer, StepsInOrder, ShownUpToCursor, FeedPageCovers,
           HistoryPageCovers, StaleIsBrought, Merged, OnPage, Due, Current, Holds
  <2>4. CASE visit = NoVisit
    <3>1. NotNewer(visit.page)' /\ visit'.page.cursor <= LastVersion
      BY <2>4, NoneTypes, LastIsLast, HistoryAssumption DEF NotNewer, HistoryTypes
    <3>2. NothingNewer'
      BY <1>1, <2>2, <3>1 DEF NothingNewer, NotNewer, Holds
    <3>3. StepsInOrder'
      BY <1>1, <2>4 DEF StepsInOrder
    <3>4. visit'.step # "page"
      BY <2>4, NoneTypes
    <3>5. \A d \in HistDocs : Due(d)' => Due(d)
      BY <1>1, <2>2, <2>4, NoneTypes DEF Due
    <3> QED BY <1>1, <2>1, <2>2, <3>2, <3>3, <3>4, <3>5
         DEF ShownUpToCursor, FeedPageCovers, HistoryPageCovers, StaleIsBrought, Current, Holds
  <2> QED BY <2>3, <2>4
<1>2. CASE ~ UNCHANGED <<histStored, memberRow, histMissed>>
  <2>1. PICK st \in {"in", "out"} : Put("league", st)
    BY <1>2 DEF AddUser, RemoveUser
  <2>2. memberRow' \in BOOLEAN /\ (memberRow' => histMissed') /\ histMissed' \in BOOLEAN
    BY <1>2 DEF AddUser, RemoveUser, HistoryTypes
  <2>3. "league" \in Names /\ st \in DocStates
    BY DEF DocStates
  <2>4. /\ histStored' \in [Names -> DocCopies]
        /\ histStored'["league"].version = LastVersion + 1
        /\ \A d \in HistDocs : histStored'[d] = histStored[d]
        /\ LastVersion' = LastVersion + 1 /\ LastVersion \in Nat
        /\ \A k \in Names : histStored[k].version <= LastVersion /\ histStored[k].version \in Nat
    <3>1. histStored \in [Names -> DocCopies]
      BY DEF HistoryTypes
    <3>2. /\ histStored' \in [Names -> DocCopies]
          /\ histStored'["league"] = [version |-> LastVersion + 1, state |-> st]
          /\ \A k \in Names \ {"league"} : histStored'[k] = histStored[k]
          /\ LastVersion' = LastVersion + 1 /\ LastVersion \in Nat
      BY <2>1, <2>3, <3>1, PutChanges
    <3>3. \A k \in Names : histStored[k].version <= LastVersion /\ histStored[k].version \in Nat
      BY <3>1, LastIsLast DEF DocCopies
    <3> QED BY <3>2, <3>3
  <2>5. visit' \in VisitRecords
    BY DEF HistoryTypes
  <2>6. HistoryTypes'
    BY <2>2, <2>4, <2>5 DEF HistoryTypes
  <2>7. \A d \in HistDocs : Joined' > histStored'[d].version /\ histStored'[d].version \in Nat
                            /\ Joined' \in Nat
    BY <2>4 DEF Joined
  <2>8. NothingNewer'
    <3>1. NotNewer(visit.page)' /\ visit'.page.cursor <= LastVersion /\ visit'.page.cursor \in Nat
      <4>1. CASE UNCHANGED visit
        BY <4>1, <2>4 DEF NotNewer, NothingNewer, HistoryTypes, VisitRecords, PageRecords
      <4>2. CASE visit'.page.cursor = 0 /\ DOMAIN visit'.page.docs = {"league"}
        BY <4>2, <2>4 DEF NotNewer
      <4> QED BY <4>1, <4>2
    <3>2. NotNewer(feedPage)' /\ cursor \in Nat /\ feedPage.cursor \in Nat
      BY <2>4 DEF NotNewer, NothingNewer, HistoryTypes, PageRecords
    <3>3. visit'.since <= LastVersion /\ visit'.since \in Nat
      BY <2>4, NoneTypes DEF NothingNewer, HistoryTypes, VisitRecords
    <3>4. /\ cursor <= LastVersion + 1 /\ feedPage.cursor <= LastVersion + 1
          /\ visit'.page.cursor <= LastVersion + 1 /\ visit'.since <= LastVersion + 1
      BY <2>4, <3>1, <3>2, <3>3 DEF NothingNewer
    <3> QED BY <2>4, <3>1, <3>2, <3>4 DEF NothingNewer, Holds
  <2>9. StepsInOrder'
    BY NoneTypes DEF StepsInOrder
  <2>10. \A d \in HistDocs : ~ (memberRow' /\ Due(d)') /\ ~ (Joined' < histStored'[d].version)
    BY <2>2, <2>7 DEF Due
  <2> QED BY <2>2, <2>6, <2>8, <2>9, <2>10
       DEF ShownUpToCursor, FeedPageCovers, HistoryPageCovers, StaleIsBrought
<1> QED BY <1>1, <1>2

\* Steps of the phone that bring no document.
LEMMA NothingBrought ==
    ASSUME HistoryInv, HistoryTypes',
           UNCHANGED <<histStored, memberRow, cursor, histCopy, histRevived>>,
           UNCHANGED feedPage \/ feedPage' = NoPage,
           \/ UNCHANGED <<visit, histMissed>>
           \/ /\ visit'.step # "page" /\ visit'.page = NoPage
              /\ visit'.step = "none" => visit' = NoVisit
              /\ visit'.step # "joined"
              /\ \A d \in HistDocs : Due(d)' => Due(d)
              /\ visit'.since \in {0, visit.since}
    PROVE  HistoryInv'
<1> USE HistoryConstants DEF HistoryInv
<1>1. LastVersion' = LastVersion /\ Joined' = Joined /\ LastVersion \in Nat
  BY LastIsLast DEF LastVersion, Joined, HistoryTypes
<1>2. \A d \in HistDocs : Due(d)' => Due(d)
  <2>1. CASE UNCHANGED <<visit, histMissed>>
    BY <2>1, <1>1 DEF Due
  <2> QED BY <2>1
<1>3. NotNewer(feedPage)' /\ NotNewer(visit.page)' /\ visit'.page.cursor <= LastVersion
      /\ feedPage'.cursor <= LastVersion
  BY <1>1, NoneTypes DEF NotNewer, NothingNewer
<1>4. NothingNewer'
  BY <1>1, <1>3, NoneTypes DEF NothingNewer, Holds
<1>5. StepsInOrder'
  BY NoneTypes DEF StepsInOrder
<1>6. ShownUpToCursor' /\ FeedPageCovers'
  BY <1>1, <1>2 DEF ShownUpToCursor, FeedPageCovers, Current, Holds
<1>7. HistoryPageCovers'
  BY <1>1 DEF HistoryPageCovers, OnPage, Holds
<1>8. StaleIsBrought'
  <2>1. feedPage' = NoPage => Merged'
    BY DEF Merged, NoPage
  <2>2. UNCHANGED feedPage => (Merged' <=> Merged)
    BY DEF Merged
  <2> QED BY <1>1, <2>1, <2>2 DEF StaleIsBrought, Holds
<1> QED BY <1>4, <1>5, <1>6, <1>7, <1>8

\* What a page has as it is stored is what the phone shows after it.
LEMMA MergedAre ==
    ASSUME HistoryInv, NEW page \in PageRecords, NotNewer(page)
    PROVE  /\ MergedCopy(page.docs) \in [HistDocs -> 0..MaxHistVersion]
           /\ MergedLeague(page.docs) \in LeagueRows
           /\ \A d \in HistDocs :
                /\ MergedCopy(page.docs)[d] <= histStored[d].version
                /\ d \notin DOMAIN page.docs => MergedCopy(page.docs)[d] = histCopy[d]
                /\ Holds(page, d) => MergedCopy(page.docs)[d] =
                     IF histStored[d].state = "dead" THEN 0 ELSE histStored[d].version
                /\ /\ Current(d) /\ d \in DOMAIN page.docs /\ ~ Holds(page, d)
                   /\ histStored[d].state # "dead"
                   => MergedCopy(page.docs)[d] = histCopy[d]
<1> USE HistoryConstants DEF HistoryInv
<1>1. histStored \in [Names -> DocCopies] /\ histCopy \in [HistDocs -> 0..MaxHistVersion]
  BY DEF HistoryTypes
<1>2. \A d \in DOMAIN page.docs : page.docs[d] \in DocCopies
  BY DEF PageRecords
<1>3. \A d \in HistDocs : histCopy[d] \in 0..MaxHistVersion /\ histCopy[d] <= histStored[d].version
                          /\ histStored[d].version \in 1..MaxHistVersion
  BY <1>1 DEF NothingNewer, DocCopies
<1>4. \A d \in HistDocs :
        MergedCopy(page.docs)[d] = IF d \notin DOMAIN page.docs THEN histCopy[d]
                                   ELSE IF page.docs[d].state = "dead" THEN 0
                                   ELSE Max({histCopy[d], page.docs[d].version})
  BY DEF MergedCopy
<1>5. \A d \in HistDocs : d \in DOMAIN page.docs =>
        Max({histCopy[d], page.docs[d].version}) =
            IF histCopy[d] >= page.docs[d].version THEN histCopy[d] ELSE page.docs[d].version
  BY <1>2, <1>3, MaxOfTwo DEF DocCopies
<1>6. \A d \in HistDocs : MergedCopy(page.docs)[d] \in 0..MaxHistVersion
  <2> SUFFICES ASSUME NEW d \in HistDocs
               PROVE  MergedCopy(page.docs)[d] \in 0..MaxHistVersion
    OBVIOUS
  <2>1. d \in DOMAIN page.docs => page.docs[d].version \in 0..MaxHistVersion
    BY <1>2 DEF DocCopies
  <2>2. histCopy[d] \in 0..MaxHistVersion /\ 0 \in 0..MaxHistVersion
    BY <1>3
  <2>3. \/ MergedCopy(page.docs)[d] = histCopy[d]
        \/ MergedCopy(page.docs)[d] = 0
        \/ d \in DOMAIN page.docs /\ MergedCopy(page.docs)[d] = page.docs[d].version
    <3>1. CASE d \notin DOMAIN page.docs
      BY <3>1, <1>4
    <3>2. CASE d \in DOMAIN page.docs
      BY <3>2, <1>4, <1>5
    <3> QED BY <3>1, <3>2
  <2> QED BY <2>1, <2>2, <2>3
<1>7. MergedCopy(page.docs) \in [HistDocs -> 0..MaxHistVersion]
  BY <1>6 DEF MergedCopy
<1>8. MergedLeague(page.docs) \in LeagueRows
  BY <1>2 DEF MergedLeague, HistoryTypes, LeagueRows, DocCopies
<1>9. ASSUME NEW d \in HistDocs
      PROVE  /\ MergedCopy(page.docs)[d] <= histStored[d].version
             /\ d \notin DOMAIN page.docs => MergedCopy(page.docs)[d] = histCopy[d]
             /\ Holds(page, d) => MergedCopy(page.docs)[d] =
                     IF histStored[d].state = "dead" THEN 0 ELSE histStored[d].version
             /\ /\ Current(d) /\ d \in DOMAIN page.docs /\ ~ Holds(page, d)
                /\ histStored[d].state # "dead"
                => MergedCopy(page.docs)[d] = histCopy[d]
  <2>1. CASE d \notin DOMAIN page.docs
    BY <1>3, <1>4, <2>1 DEF Holds
  <2>2. CASE d \in DOMAIN page.docs
    <3>1. /\ page.docs[d].version <= histStored[d].version /\ page.docs[d].version \in Nat
          /\ page.docs[d].state = "dead" => page.docs[d] = histStored[d]
      BY <2>2, <1>2 DEF NotNewer, DocCopies
    <3>2. histCopy[d] \in Nat /\ histCopy[d] <= histStored[d].version
          /\ histStored[d].version \in Nat
      BY <1>3
    <3>3. MergedCopy(page.docs)[d] = IF page.docs[d].state = "dead" THEN 0
                                     ELSE IF histCopy[d] >= page.docs[d].version THEN histCopy[d]
                                     ELSE page.docs[d].version
      BY <2>2, <1>4, <1>5
    <3>4. Holds(page, d) => MergedCopy(page.docs)[d] =
                     IF histStored[d].state = "dead" THEN 0 ELSE histStored[d].version
      BY <3>1, <3>2, <3>3 DEF Holds
    <3>5. MergedCopy(page.docs)[d] <= histStored[d].version
      BY <3>1, <3>2, <3>3
    <3>6. Current(d) /\ ~ Holds(page, d) /\ histStored[d].state # "dead"
          => MergedCopy(page.docs)[d] = histCopy[d]
      BY <2>2, <3>1, <3>2, <3>3 DEF Holds, Current
    <3> QED BY <2>2, <3>4, <3>5, <3>6
  <2> QED BY <2>1, <2>2
<1> QED BY <1>7, <1>8, <1>9

\* What a page leaves out was shown before it.
LEMMA PullKeeps ==
    ASSUME HistoryInv, Pull
    PROVE  HistoryInv'
<1> USE HistoryConstants DEF HistoryInv
<1> DEFINE p == PageOf(Readable, cursor)
<1>1. /\ feedPage = NoPage /\ feedPage' = p
      /\ UNCHANGED <<histStored, memberRow, cursor, histCopy, leagueRow, visit, histMissed,
                     histRevived>>
  BY DEF Pull, histServer, histPhone
<1>2. Readable \in SUBSET Names /\ (memberRow => HistDocs \subseteq Readable)
  BY DEF Readable, Names
<1>3. histStored \in [Names -> DocCopies] /\ cursor \in 0..MaxHistVersion
  BY DEF HistoryTypes
<1>4. /\ p \in PageRecords /\ ~ p.owed
      /\ cursor <= p.cursor /\ (p.cursor <= cursor \/ p.cursor <= LastVersion)
      /\ \A d \in DOMAIN p.docs : d \in Readable /\ p.docs[d] = histStored[d]
                                  /\ histStored[d].version <= p.cursor
      /\ \A d \in Readable : /\ cursor < histStored[d].version
                             /\ histStored[d].version <= p.cursor \/ ~ p.more
                             => d \in DOMAIN p.docs
  <2>1. LET q == PageOf(Readable, cursor)
        IN  /\ q \in PageRecords /\ ~ q.owed
            /\ cursor <= q.cursor /\ (q.cursor <= cursor \/ q.cursor <= LastVersion)
            /\ \A n \in DOMAIN q.docs : /\ n \in Readable
                                        /\ q.docs[n] = histStored[n]
                                        /\ histStored[n].version <= q.cursor
            /\ \A n \in Readable :
                 /\ cursor < histStored[n].version
                 /\ histStored[n].version <= q.cursor \/ ~ q.more
                 => n \in DOMAIN q.docs
    BY <1>2, <1>3, PageHolds
  <2> QED BY <2>1
<1> HIDE DEF p
<1>5. LastVersion' = LastVersion /\ Joined' = Joined /\ LastVersion \in Nat
  BY <1>1, <1>3, LastIsLast DEF LastVersion, Joined
<1>6. HistoryTypes'
  BY <1>1, <1>4 DEF HistoryTypes
<1>7. NothingNewer'
  <2>1. p.cursor <= LastVersion /\ p.cursor \in Nat
    BY <1>3, <1>4, <1>5 DEF NothingNewer, PageRecords
  <2>2. NotNewer(feedPage)' /\ NotNewer(visit.page)'
    <3>1. NotNewer(visit.page)
      BY DEF NothingNewer
    <3>2. \A d \in HistDocs : histStored[d].version \in Nat
      BY <1>3 DEF DocCopies
    <3>3. \A d \in HistDocs : histStored[d].state \in {"live", "dead"}
      BY DEF HistoryTypes
    <3> QED BY <1>1, <1>4, <3>1, <3>2, <3>3 DEF NotNewer
  <2> QED BY <1>1, <1>4, <1>5, <2>1, <2>2 DEF NothingNewer, Holds
<1>8. StepsInOrder'
  BY <1>1, <1>4 DEF StepsInOrder
<1>9. ShownUpToCursor'
  BY <1>1, <1>5 DEF ShownUpToCursor, Due, Current
<1>10. \A d \in HistDocs : memberRow /\ cursor < histStored[d].version
                           /\ histStored[d].version <= p.cursor => Holds(p, d)
  BY <1>2, <1>4 DEF Holds
<1>11. \A d \in HistDocs : histStored[d].version \in Nat
  BY <1>3 DEF DocCopies
<1>12. FeedPageCovers'
  <2> SUFFICES ASSUME memberRow, NEW d \in HistDocs \ histRevived,
                      histStored[d].version <= p.cursor, Due(d)
               PROVE  Current(d) \/ Holds(p, d)
    BY <1>1, <1>5 DEF FeedPageCovers, Due, Current, Holds
  <2>1. CASE histStored[d].version <= cursor
    BY <2>1 DEF ShownUpToCursor
  <2> QED BY <2>1, <1>3, <1>10, <1>11
<1>13. HistoryPageCovers'
  BY <1>1, <1>5 DEF HistoryPageCovers, OnPage, Holds
<1>14. StaleIsBrought'
  BY <1>1, <1>5, <1>10 DEF StaleIsBrought, Merged, Holds
<1> QED BY <1>6, <1>7, <1>8, <1>9, <1>12, <1>13, <1>14

\* A document changed since the page was read is newer than the cursor it brings.
LEMMA ApplyPullKeeps ==
    ASSUME HistoryInv, ApplyPull
    PROVE  HistoryInv'
<1> USE HistoryConstants DEF HistoryInv
<1>1. /\ feedPage.docs # <<>> /\ feedPage' = [feedPage EXCEPT !.docs = <<>>]
      /\ UNCHANGED <<histStored, memberRow, cursor, visit, histMissed>>
      /\ histCopy' = MergedCopy(feedPage.docs) /\ leagueRow' = MergedLeague(feedPage.docs)
      /\ histRevived' = histRevived \ Dead(feedPage.docs)
  BY DEF ApplyPull, ApplyDocs, Merged, histServer
<1>2. feedPage \in PageRecords /\ NotNewer(feedPage) /\ feedPage.cursor \in 0..MaxHistVersion
      /\ feedPage # NoPage
      /\ cursor \in 0..MaxHistVersion /\ cursor <= feedPage.cursor /\ feedPage.owed \in BOOLEAN
  BY <1>1 DEF HistoryTypes, NothingNewer, StepsInOrder, PageRecords, NoPage
<1>3. /\ feedPage' \in PageRecords /\ DOMAIN feedPage'.docs = {}
      /\ feedPage'.cursor = feedPage.cursor /\ feedPage'.owed = feedPage.owed
      /\ feedPage'.docs = <<>>
  <2>1. NoPage.docs = <<>>
    BY DEF NoPage
  <2>2. <<>> \in UNION {[S -> DocCopies] : S \in SUBSET Names} /\ DOMAIN <<>> = {}
    BY <2>1, NoneTypes DEF PageRecords
  <2> QED BY <1>1, <1>2, <2>2 DEF PageRecords
<1>4. /\ histCopy' \in [HistDocs -> 0..MaxHistVersion] /\ leagueRow' \in LeagueRows
      /\ \A d \in HistDocs :
                /\ histCopy'[d] <= histStored[d].version
                /\ d \notin DOMAIN feedPage.docs => histCopy'[d] = histCopy[d]
                /\ Holds(feedPage, d) => histCopy'[d] =
                     IF histStored[d].state = "dead" THEN 0 ELSE histStored[d].version
  BY <1>1, <1>2, MergedAre
<1>5. LastVersion' = LastVersion /\ Joined' = Joined /\ LastVersion \in Nat
  BY <1>1, LastIsLast DEF LastVersion, Joined, HistoryTypes
<1>6. HistoryTypes'
  BY <1>1, <1>3, <1>4 DEF HistoryTypes
<1>7. NothingNewer'
  <2>1. NotNewer(feedPage)' /\ NotNewer(visit.page)'
    BY <1>1, <1>3 DEF NotNewer, NothingNewer
  <2> QED BY <1>1, <1>3, <1>4, <1>5, <2>1 DEF NothingNewer
<1>8. StepsInOrder'
  BY <1>1, <1>2, <1>3 DEF StepsInOrder
<1>9. \A d \in HistDocs : histStored[d].version \in Nat /\ Joined \in Nat
  BY DEF HistoryTypes, DocCopies, Joined, Names, LeagueDocs
<1>10. ASSUME memberRow, NEW d \in HistDocs \ histRevived',
              histStored[d].version <= feedPage.cursor,
              d \notin histRevived => Current(d) \/ Holds(feedPage, d)
       PROVE  Current(d)'
  <2>1. CASE Holds(feedPage, d)
    BY <2>1, <1>1, <1>4 DEF Current
  <2>2. CASE d \in DOMAIN feedPage.docs /\ ~ Holds(feedPage, d)
    BY <2>2, <1>2, <1>9, <1>10 DEF NothingNewer
  <2>3. CASE d \notin DOMAIN feedPage.docs
    <3>1. d \notin histRevived
      BY <2>3, <1>1, <1>10 DEF Dead
    <3>2. Current(d)
      BY <3>1, <2>3, <1>10 DEF Holds
    <3> QED BY <3>2, <2>3, <1>1, <1>4 DEF Current
  <2> QED BY <2>1, <2>2, <2>3
<1>11. ShownUpToCursor'
  <2> SUFFICES ASSUME memberRow, NEW d \in HistDocs \ histRevived',
                      histStored[d].version <= cursor, Due(d)
               PROVE  Current(d)'
    BY <1>1, <1>5 DEF ShownUpToCursor, Due
  <2>1. histStored[d].version <= feedPage.cursor
    BY <1>2, <1>9
  <2>2. d \notin histRevived => Current(d)
    BY DEF ShownUpToCursor
  <2> QED BY <2>1, <2>2, <1>10
<1>12. FeedPageCovers'
  <2> SUFFICES ASSUME memberRow, NEW d \in HistDocs \ histRevived',
                      histStored[d].version <= feedPage.cursor,
                      \/ Joined < histStored[d].version
                      \/ ~ feedPage.owed /\ Due(d)
               PROVE  Current(d)'
    BY <1>1, <1>3, <1>5 DEF FeedPageCovers, Due
  <2>1. d \notin histRevived => Current(d) \/ Holds(feedPage, d)
    BY <1>2 DEF FeedPageCovers
  <2> QED BY <2>1, <1>10
<1>13. StaleIsBrought'
  BY <1>3 DEF StaleIsBrought, Merged
<1>14. HistoryPageCovers'
  BY <1>1, <1>5 DEF HistoryPageCovers, OnPage, Holds
<1> QED BY <1>6, <1>7, <1>8, <1>11, <1>12, <1>13, <1>14

\* What the cursor moves past has been merged.
LEMMA MoveCursorKeeps ==
    ASSUME HistoryInv, MoveCursor
    PROVE  HistoryInv'
<1> USE HistoryConstants DEF HistoryInv
<1>1. /\ feedPage # NoPage /\ feedPage' = NoPage /\ feedPage.docs = <<>>
      /\ UNCHANGED <<histStored, memberRow, visit, histCopy, leagueRow, histRevived>>
      /\ cursor' = Max({cursor, feedPage.cursor})
      /\ histMissed' = (histMissed \/ feedPage.owed)
  BY DEF MoveCursor, MovedCursor, Merged, histServer, histPhone
<1>2. feedPage \in PageRecords /\ feedPage.cursor \in 0..MaxHistVersion
      /\ cursor \in 0..MaxHistVersion /\ cursor <= feedPage.cursor
      /\ feedPage.owed \in BOOLEAN /\ histMissed \in BOOLEAN
  BY <1>1 DEF HistoryTypes, StepsInOrder, PageRecords
<1>3. cursor' = feedPage.cursor
  BY <1>1, <1>2, MaxOfTwo
<1>4. \A d : ~ Holds(feedPage, d)
  <2>1. DOMAIN <<>> = {}
    OBVIOUS
  <2> QED BY <1>1, <2>1 DEF Holds
<1>5. LastVersion' = LastVersion /\ Joined' = Joined /\ LastVersion \in Nat
  BY <1>1, LastIsLast DEF LastVersion, Joined, HistoryTypes
<1>6. HistoryTypes'
  BY <1>1, <1>2, <1>3, NoneTypes DEF HistoryTypes
<1>7. NothingNewer'
  <2>1. NotNewer(feedPage)' /\ NotNewer(visit.page)'
    BY <1>1, NoneTypes DEF NotNewer, NothingNewer
  <2>2. cursor' <= LastVersion /\ feedPage'.cursor <= LastVersion
    <3>1. cursor' = feedPage.cursor /\ feedPage'.cursor = 0
      BY <1>1, <1>3, NoneTypes
    <3> QED BY <1>5, <3>1 DEF NothingNewer
  <2> QED BY <1>1, <1>5, <2>1, <2>2, NoneTypes DEF NothingNewer
<1>8. StepsInOrder'
  BY <1>1, NoneTypes DEF StepsInOrder
<1>9. ShownUpToCursor'
  <2> SUFFICES ASSUME memberRow, NEW d \in HistDocs \ histRevived,
                      histStored[d].version <= feedPage.cursor, Due(d)'
               PROVE  Current(d)
    BY <1>1, <1>3 DEF ShownUpToCursor, Current
  <2>1. \/ Joined < histStored[d].version
        \/ ~ feedPage.owed /\ Due(d)
    BY <1>1, <1>2, <1>5 DEF Due
  <2> QED BY <2>1, <1>1, <1>4 DEF FeedPageCovers
<1>10. FeedPageCovers'
  BY <1>1 DEF FeedPageCovers
<1>11. StaleIsBrought'
  <2>1. NoPage.docs = <<>>
    BY DEF NoPage
  <2> QED BY <1>1, <2>1 DEF StaleIsBrought, Merged
<1>12. HistoryPageCovers'
  BY <1>1, <1>5 DEF HistoryPageCovers, OnPage, Holds
<1> QED BY <1>6, <1>7, <1>8, <1>9, <1>10, <1>11, <1>12

\* The page of the feed under way was asked for before.
LEMMA SignOutKeeps ==
    ASSUME HistoryInv, SignOutAndIn
    PROVE  HistoryInv'
<1> USE HistoryConstants DEF HistoryInv
<1>1. /\ visit = NoVisit /\ cursor > 0 /\ cursor' = 0 /\ histMissed' = FALSE
      /\ feedPage' = IF feedPage = NoPage THEN NoPage ELSE [feedPage EXCEPT !.owed = histMissed]
      /\ UNCHANGED <<histStored, memberRow, histCopy, leagueRow, visit, histRevived>>
  BY DEF SignOutAndIn, histServer, histPhone
<1>2. feedPage \in PageRecords /\ histMissed \in BOOLEAN /\ cursor \in Nat
      /\ \A d \in HistDocs : histStored[d].version \in 1..MaxHistVersion
  BY DEF HistoryTypes, DocCopies
<1>3. /\ feedPage' \in PageRecords
      /\ feedPage'.docs = feedPage.docs /\ feedPage'.cursor = feedPage.cursor
      /\ feedPage # NoPage => (feedPage'.owed <=> histMissed)
      /\ feedPage = NoPage => feedPage' = NoPage
      /\ feedPage.cursor \in Nat
  BY <1>1, <1>2 DEF PageRecords
<1>4. LastVersion' = LastVersion /\ Joined' = Joined /\ LastVersion \in Nat
  BY <1>1, LastIsLast DEF LastVersion, Joined, HistoryTypes
<1>5. HistoryTypes'
  <2>1. 0 \in 0..MaxHistVersion
    OBVIOUS
  <2>2. cursor' \in 0..MaxHistVersion
    BY <1>1, <2>1
  <2>3. histMissed' \in BOOLEAN
    BY <1>1
  <2> QED BY <2>2, <2>3, <1>1, <1>3 DEF HistoryTypes
<1>6. NothingNewer'
  <2>1. NotNewer(feedPage)' /\ NotNewer(visit.page)'
    BY <1>1, <1>3 DEF NotNewer, NothingNewer
  <2> QED BY <1>1, <1>3, <1>4, <2>1 DEF NothingNewer, Holds
<1>7. StepsInOrder'
  BY <1>1, <1>3, NoneTypes DEF StepsInOrder
<1>8. ShownUpToCursor'
  BY <1>1, <1>2 DEF ShownUpToCursor
<1>9. FeedPageCovers'
  <2> SUFFICES ASSUME memberRow, feedPage' # NoPage, NEW d \in HistDocs \ histRevived,
                      histStored[d].version <= feedPage.cursor,
                      \/ Joined < histStored[d].version
                      \/ ~ feedPage'.owed /\ Due(d)'
               PROVE  Current(d) \/ Holds(feedPage, d)
    BY <1>1, <1>3, <1>4 DEF FeedPageCovers, Current, Holds
  <2>1. feedPage # NoPage /\ ~ feedPage.owed
    BY <1>1, <1>2, <1>3 DEF StepsInOrder
  <2>2. Joined < histStored[d].version \/ Due(d)
    BY <1>3, <2>1, <1>1, NoneTypes DEF Due
  <2> QED BY <2>1, <2>2 DEF FeedPageCovers
<1>10. HistoryPageCovers' /\ StaleIsBrought'
  BY <1>1, NoneTypes DEF HistoryPageCovers, StaleIsBrought
<1> QED BY <1>5, <1>6, <1>7, <1>8, <1>9, <1>10

\* What the feed has not brought when the page is read is in the page.
LEMMA FetchHistoryKeeps ==
    ASSUME HistoryInv, FetchHistory
    PROVE  HistoryInv'
<1> USE HistoryConstants DEF HistoryInv
<1> DEFINE p == PageOf(LeagueDocs, visit.since)
<1>1. /\ visit.step = "fetch" /\ memberRow
      /\ visit' = [visit EXCEPT !.step = "page", !.page = p]
      /\ UNCHANGED <<histStored, memberRow, cursor, histCopy, leagueRow, feedPage, histMissed,
                     histRevived>>
  BY DEF FetchHistory, HistoryPage, histServer, histPhone
<1>2. /\ histStored \in [Names -> DocCopies]
      /\ visit \in VisitRecords /\ visit.since \in 0..MaxHistVersion
  BY DEF HistoryTypes, VisitRecords
<1>3. LET q == PageOf(LeagueDocs, visit.since)
      IN  /\ q \in PageRecords /\ ~ q.owed
          /\ visit.since <= q.cursor /\ (q.cursor <= visit.since \/ q.cursor <= LastVersion)
          /\ \A n \in DOMAIN q.docs : /\ n \in LeagueDocs
                                      /\ q.docs[n] = histStored[n]
                                      /\ histStored[n].version <= q.cursor
          /\ \A n \in LeagueDocs :
               /\ visit.since < histStored[n].version
               /\ histStored[n].version <= q.cursor \/ ~ q.more
               => n \in DOMAIN q.docs
  BY <1>2, PageHolds
<1>4. /\ p \in PageRecords
      /\ visit.since <= p.cursor /\ (p.cursor <= visit.since \/ p.cursor <= LastVersion)
      /\ \A d \in DOMAIN p.docs : p.docs[d] = histStored[d]
      /\ \A d \in HistDocs : /\ visit.since < histStored[d].version
                             /\ histStored[d].version <= p.cursor \/ ~ p.more
                             => d \in DOMAIN p.docs
  BY <1>3
<1> HIDE DEF p
<1>5. /\ visit' \in VisitRecords /\ visit'.page = p /\ visit'.step = "page"
      /\ visit'.since = visit.since /\ visit'.owed = visit.owed
  BY <1>1, <1>2, <1>4 DEF VisitRecords
<1>6. LastVersion' = LastVersion /\ Joined' = Joined /\ LastVersion \in Nat
  BY <1>1, <1>2, LastIsLast DEF LastVersion, Joined
<1>7. HistoryTypes'
  BY <1>1, <1>5 DEF HistoryTypes
<1>8. NothingNewer'
  <2>1. p.cursor <= LastVersion
    BY <1>2, <1>4, <1>6 DEF NothingNewer, PageRecords
  <2>2. NotNewer(visit.page)' /\ NotNewer(feedPage)'
    <3>1. \A d \in HistDocs : histStored[d].version \in Nat
      BY <1>2 DEF DocCopies
    <3>2. \A d \in HistDocs : histStored[d].state \in {"live", "dead"}
      BY DEF HistoryTypes
    <3> QED BY <1>1, <1>4, <1>5, <3>1, <3>2 DEF NotNewer, NothingNewer
  <2> QED BY <1>1, <1>5, <1>6, <2>1, <2>2 DEF NothingNewer, Holds
<1>9. StepsInOrder'
  BY <1>1, <1>5 DEF StepsInOrder
<1>10. ShownUpToCursor'
  BY <1>1, <1>5, <1>6 DEF ShownUpToCursor, Due, Current
<1>11. FeedPageCovers'
  BY <1>1, <1>5, <1>6 DEF FeedPageCovers, Due, Current, Holds
<1>12. HistoryPageCovers'
  <2> SUFFICES ASSUME NEW d \in HistDocs, OnPage(d)'
               PROVE  Holds(visit.page, d)'
    BY DEF HistoryPageCovers
  <2>1. d \in DOMAIN p.docs
    BY <1>1, <1>4, <1>5 DEF OnPage
  <2> QED BY <2>1, <1>1, <1>4, <1>5 DEF Holds
<1>13. StaleIsBrought'
  BY <1>1, <1>4, <1>5 DEF StaleIsBrought, Merged, Holds
<1> QED BY <1>7, <1>8, <1>9, <1>10, <1>11, <1>12, <1>13

\* Who is no member has nothing to miss.
LEMMA HistoryRefusedKeeps ==
    ASSUME HistoryInv, HistoryRefused
    PROVE  HistoryInv'
<1> USE HistoryConstants DEF HistoryInv
<1>1. /\ visit' = NoVisit /\ memberRow = FALSE
      /\ UNCHANGED <<histStored, memberRow, cursor, feedPage, histMissed, histRevived>>
      /\ histCopy' \in {histCopy, [d \in HistDocs |-> 0]}
      /\ leagueRow' \in {"none", "in", visit.before}
  BY DEF HistoryRefused, histServer, WithoutLeague, KeptRow
<1>2. LastVersion' = LastVersion /\ LastVersion \in Nat
      /\ \A d \in HistDocs : histStored[d].version \in Nat
  BY <1>1, LastIsLast DEF LastVersion, HistoryTypes, DocCopies
<1>3. histCopy' \in [HistDocs -> 0..MaxHistVersion]
      /\ \A d \in HistDocs : histCopy'[d] <= histStored[d].version
  <2>1. CASE histCopy' = histCopy
    BY <2>1 DEF HistoryTypes, NothingNewer
  <2>2. CASE histCopy' = [d \in HistDocs |-> 0]
    BY <2>2, <1>2
  <2> QED BY <1>1, <2>1, <2>2
<1>4. leagueRow' \in LeagueRows
  BY <1>1 DEF HistoryTypes, VisitRecords, LeagueRows, DocStates
<1>5. HistoryTypes'
  BY <1>1, <1>3, <1>4, NoneTypes DEF HistoryTypes
<1>6. NothingNewer'
  <2>1. NotNewer(visit.page)' /\ NotNewer(feedPage)'
    BY <1>1, NoneTypes DEF NotNewer, NothingNewer
  <2> QED BY <1>1, <1>2, <1>3, <2>1, NoneTypes DEF NothingNewer, Holds
<1>7. StepsInOrder'
  BY <1>1, NoneTypes DEF StepsInOrder
<1> QED BY <1>1, <1>5, <1>6, <1>7
     DEF ShownUpToCursor, FeedPageCovers, HistoryPageCovers, StaleIsBrought

\* An older page shows again only what was deleted since, which the feed brings or
\* `histRevived` names.
LEMMA ApplyHistoryKeeps ==
    ASSUME HistoryInv, ApplyHistory
    PROVE  HistoryInv'
<1> USE HistoryConstants DEF HistoryInv
<1> DEFINE page == visit.page
           goOn == page.more /\ visit.pages + 1 < MaxPages
<1>1. /\ visit.step = "page"
      /\ histCopy' = MergedCopy(page.docs) /\ leagueRow' = MergedLeague(page.docs)
      /\ visit' = IF goOn THEN [visit EXCEPT !.step = "fetch", !.page = NoPage,
                                             !.since = page.cursor, !.pages = @ + 1]
                  ELSE NoVisit
      /\ histMissed' = (histMissed \/ (page.more /\ ~ goOn /\ visit.owed))
      /\ histRevived' = (histRevived \union Outlived(page.docs)) \ Dead(page.docs)
      /\ UNCHANGED <<histStored, memberRow, cursor, feedPage>>
  BY DEF ApplyHistory, ApplyDocs, histServer
<1>2. /\ visit \in VisitRecords /\ page \in PageRecords /\ NotNewer(page)
      /\ page.cursor \in 0..MaxHistVersion
      /\ page.more \in BOOLEAN /\ visit.owed \in BOOLEAN /\ histMissed \in BOOLEAN
      /\ visit.since \in Nat /\ page.cursor <= LastVersion
  BY <1>1 DEF HistoryTypes, NothingNewer, VisitRecords, PageRecords
<1>3. /\ histCopy' \in [HistDocs -> 0..MaxHistVersion] /\ leagueRow' \in LeagueRows
      /\ \A d \in HistDocs :
                /\ histCopy'[d] <= histStored[d].version
                /\ d \notin DOMAIN page.docs => histCopy'[d] = histCopy[d]
                /\ Holds(page, d) => histCopy'[d] =
                     IF histStored[d].state = "dead" THEN 0 ELSE histStored[d].version
                /\ /\ Current(d) /\ d \in DOMAIN page.docs /\ ~ Holds(page, d)
                   /\ histStored[d].state # "dead"
                   => histCopy'[d] = histCopy[d]
  BY <1>1, <1>2, MergedAre
<1>4. \/ /\ goOn /\ visit' \in VisitRecords /\ visit'.step = "fetch" /\ visit'.page = NoPage
         /\ visit'.since = page.cursor /\ visit'.owed = visit.owed
      \/ ~ goOn /\ visit' = NoVisit
  <2>1. CASE goOn
    <3>1. visit.pages + 1 \in Nat
      BY <1>2 DEF VisitRecords
    <3> QED BY <2>1, <3>1, <1>1, <1>2, NoneTypes DEF VisitRecords
  <2>2. CASE ~ goOn
    BY <2>2, <1>1
  <2> QED BY <2>1, <2>2
<1> HIDE DEF goOn
<1>5. LastVersion' = LastVersion /\ Joined' = Joined /\ LastVersion \in Nat /\ Joined \in Nat
      /\ \A d \in HistDocs : histStored[d].version \in Nat /\ histStored[d].version >= 1
  BY <1>1, LastIsLast DEF LastVersion, Joined, HistoryTypes, DocCopies, LeagueDocs, Names
<1>6. HistoryTypes'
  <2>1. visit' \in VisitRecords
    BY <1>4, NoneTypes
  <2>2. histMissed' \in BOOLEAN
    BY <1>1
  <2> QED BY <1>1, <1>3, <2>1, <2>2 DEF HistoryTypes
<1>7. visit'.page = NoPage /\ visit'.step # "page" /\ visit'.step # "joined"
  BY <1>4, NoneTypes
<1>8. NothingNewer'
  <2>1. NotNewer(visit.page)' /\ NotNewer(feedPage)'
    BY <1>1, <1>7, NoneTypes DEF NotNewer, NothingNewer
  <2> QED BY <1>1, <1>3, <1>5, <1>7, <2>1, NoneTypes DEF NothingNewer, Holds
<1>9. StepsInOrder'
  BY <1>1, <1>4, NoneTypes DEF StepsInOrder
<1>11. ASSUME memberRow, NEW d \in HistDocs, Due(d)'
       PROVE  Due(d) \/ Holds(page, d)
  <2> DEFINE v == histStored[d].version
  <2>1. CASE Joined < v
    BY <2>1 DEF Due
  <2>2. CASE ~ (Joined < v)
    <3>1. ~ histMissed' /\ (~ visit'.owed \/ v <= visit'.since)
      BY <2>2, <1>1, <1>5, <1>11, Zenon DEF Due
    <3>2. ~ histMissed /\ ~ (page.more /\ ~ goOn /\ visit.owed)
      BY <3>1, <1>1
    <3>3. CASE ~ visit.owed \/ v <= visit.since
      BY <3>2, <3>3 DEF Due
    <3>4. CASE visit.owed /\ ~ (v <= visit.since)
      <4>1. v <= page.cursor \/ ~ page.more
        BY <3>1, <3>2, <3>4, <1>4
      <4>2. v <= Joined /\ visit.since < v
        BY <2>2, <3>4, <1>2, <1>5
      <4>3. OnPage(d)
        BY <4>1, <4>2 DEF OnPage
      <4> QED BY <4>3, <3>2, <1>1, <1>11 DEF HistoryPageCovers
    <3> QED BY <3>3, <3>4
  <2> QED BY <2>1, <2>2
<1>12. ASSUME memberRow, NEW d \in HistDocs, Due(d)', Current(d), ~ Current(d)'
       PROVE  /\ d \in DOMAIN page.docs /\ ~ Holds(page, d) /\ Joined < histStored[d].version
              /\ page.docs[d].state # "dead" /\ histStored[d].state = "dead"
  <2>1. ~ Holds(page, d)
    BY <1>1, <1>3, <1>12 DEF Current
  <2>2. d \in DOMAIN page.docs /\ histStored[d].state = "dead"
    BY <2>1, <1>1, <1>3, <1>12 DEF Current
  <2>3. page.docs[d].state # "dead"
    BY <2>1, <2>2, <1>2 DEF NotNewer, Holds
  <2>4. Joined < histStored[d].version
    <3> SUFFICES ASSUME histStored[d].version <= Joined
                 PROVE  FALSE
      BY <1>5
    <3>0. ~ (Joined < histStored[d].version)
      BY <1>5
    <3>1. ~ histMissed
      BY <3>0, <1>1, <1>5, <1>12, Zenon DEF Due
    <3> QED BY <3>1, <2>1, <2>2, <1>1, <1>12 DEF HistoryPageCovers, OnPage
  <2> QED BY <2>1, <2>2, <2>3, <2>4
<1>13. \A d \in HistDocs \ histRevived' : /\ d \in histRevived => Holds(page, d)
                                          /\ d \in DOMAIN page.docs /\ page.docs[d].state = "live"
                                             /\ histStored[d].state = "dead"
                                             => /\ ~ (histStored[d].version <= cursor)
                                                /\ Merged => ~ (histStored[d].version
                                                                  <= feedPage.cursor)
  <2>1. \A d \in HistDocs : d \in Dead(page.docs) => Holds(page, d)
    BY <1>2 DEF Dead, NotNewer, Holds
  <2> QED BY <2>1, <1>1, <1>2 DEF Outlived, Dead
<1>14. ShownUpToCursor'
  <2> SUFFICES ASSUME memberRow, NEW d \in HistDocs \ histRevived',
                      histStored[d].version <= cursor, Due(d)', ~ Current(d)'
               PROVE  FALSE
    BY <1>1 DEF ShownUpToCursor
  <2>1. ~ Holds(page, d)
    BY <1>1, <1>3 DEF Current
  <2>2. Current(d)
    BY <2>1, <1>11, <1>13 DEF ShownUpToCursor
  <2> QED BY <2>2, <1>2, <1>12, <1>13 DEF NotNewer
<1>15. FeedPageCovers'
  <2> SUFFICES ASSUME memberRow, feedPage # NoPage, NEW d \in HistDocs \ histRevived',
                      histStored[d].version <= feedPage.cursor,
                      \/ Joined < histStored[d].version
                      \/ ~ feedPage.owed /\ Due(d)',
                      ~ Current(d)', ~ Holds(feedPage, d)
               PROVE  FALSE
    BY <1>1, <1>5 DEF FeedPageCovers, Holds
  <2>1. ~ Holds(page, d)
    BY <1>1, <1>3 DEF Current
  <2>2. Due(d)'
    BY <1>5, <1>1 DEF Due
  <2>3. Current(d)
    BY <2>1, <1>11, <1>13 DEF FeedPageCovers
  <2>4. /\ d \in DOMAIN page.docs /\ Joined < histStored[d].version
        /\ page.docs[d].state # "dead" /\ histStored[d].state = "dead"
    BY <2>2, <2>3, <1>12
  <2>5. cursor < histStored[d].version /\ ~ Merged
    <3>1. page.docs[d].state = "live"
      BY <2>4, <1>2 DEF NotNewer
    <3>2. ~ (histStored[d].version <= cursor) /\ ~ Merged
      BY <3>1, <2>4, <1>13
    <3>3. histStored[d].version \in Nat /\ cursor \in Nat
      BY <1>5 DEF HistoryTypes
    <3> QED BY <3>2, <3>3
  <2> QED BY <2>1, <2>4, <2>5, <1>1 DEF StaleIsBrought
<1> QED BY <1>6, <1>7, <1>8, <1>9, <1>14, <1>15
     DEF HistoryPageCovers, StaleIsBrought

LEMMA HistoryInvStep == HistoryInv /\ [HistoryNext]_historyVars => HistoryInv'
<1> SUFFICES ASSUME HistoryInv, [HistoryNext]_historyVars
             PROVE  HistoryInv'
  OBVIOUS
<1> USE HistoryConstants
<1>1. CASE \E n \in HistDocs \union {"elsewhere"} : WriteElse(n)
  BY <1>1, WriteKeeps
<1>2. CASE OtherPhoneJoins \/ OtherPhoneLeaves
  <2>1. /\ AddUser \/ (RemoveUser /\ UNCHANGED histMissed)
        /\ UNCHANGED <<cursor, histCopy, feedPage, histRevived>>
        /\ UNCHANGED <<leagueRow, visit>>
    <3>1. CASE OtherPhoneJoins
      <4>1. AddUser
        BY <3>1, Zenon DEF OtherPhoneJoins
      <4>2. UNCHANGED <<cursor, histCopy, feedPage, histRevived>> /\ UNCHANGED <<leagueRow, visit>>
        BY <3>1 DEF OtherPhoneJoins, histPhone
      <4> QED BY <4>1, <4>2, Zenon
    <3>2. CASE OtherPhoneLeaves
      BY <3>2 DEF OtherPhoneLeaves, histPhone
    <3> QED BY <1>2, <3>1, <3>2
  <2>2. leagueRow' \in LeagueRows
    BY <2>1 DEF HistoryInv, HistoryTypes
  <2> QED BY <2>1, <2>2, MovingKeeps
<1>3. CASE Pull
  BY <1>3, PullKeeps
<1>4. CASE ApplyPull \/ MoveCursor
  BY <1>4, ApplyPullKeeps, MoveCursorKeeps
<1>5. CASE LosePull
  <2>1. /\ feedPage' = NoPage
        /\ UNCHANGED <<histStored, memberRow, cursor, histCopy, histRevived>>
        /\ UNCHANGED <<visit, histMissed>> /\ UNCHANGED leagueRow
    BY <1>5 DEF LosePull, histServer, histPhone
  <2>2. HistoryTypes'
    BY <2>1, NoneTypes DEF HistoryInv, HistoryTypes
  <2> QED BY <2>1, <2>2, NothingBrought
<1>6. CASE SignOutAndIn
  BY <1>6, SignOutKeeps
<1>7. CASE JoinOnline
  <2> DEFINE page == [NoPage EXCEPT !.docs = [n \in {"league"} |-> histStored'[n]]]
  <2>1. /\ AddUser /\ visit = NoVisit
        /\ UNCHANGED <<cursor, histCopy, feedPage, histRevived>> /\ UNCHANGED leagueRow
        /\ visit' = [NoVisit EXCEPT !.step = "joined", !.before = leagueRow,
                          !.page.docs = [n \in {"league"} |-> histStored'[n]]]
    BY <1>7 DEF JoinOnline, MayJoin, histPhone
  <2>2. histStored' \in [Names -> DocCopies]
    <3>1. CASE memberRow
      BY <2>1, <3>1 DEF AddUser, HistoryInv, HistoryTypes
    <3>2. CASE ~ memberRow
      BY <2>1, <3>2, PutChanges DEF AddUser, HistoryInv, HistoryTypes, DocStates, Names
    <3> QED BY <3>1, <3>2
  <2>3. [n \in {"league"} |-> histStored'[n]] \in UNION {[S -> DocCopies] : S \in SUBSET Names}
    <3>1. {"league"} \in SUBSET Names
      BY DEF Names
    <3>2. [n \in {"league"} |-> histStored'[n]] \in [{"league"} -> DocCopies]
      BY <2>2, <3>1
    <3> QED BY <3>1, <3>2
  <2>4. page \in PageRecords /\ DOMAIN page.docs = {"league"} /\ page.cursor = 0
    BY <2>3, NoneTypes DEF PageRecords
  <2>5. leagueRow \in LeagueRows
    BY DEF HistoryInv, HistoryTypes
  <2>6. visit' = [NoVisit EXCEPT !.step = "joined", !.before = leagueRow, !.page = page]
    BY <2>1, NoneTypes DEF VisitRecords, PageRecords
  <2> HIDE DEF page
  <2>7. /\ visit' \in VisitRecords /\ visit'.step = "joined" /\ visit'.page = page
        /\ ~ visit'.owed /\ visit'.since = 0
    BY <2>4, <2>5, <2>6, NoneTypes DEF VisitRecords
  <2>8. leagueRow' \in LeagueRows
    BY <2>1, <2>5
  <2>9. /\ visit = NoVisit /\ visit' \in VisitRecords /\ visit'.step = "joined"
        /\ visit'.page.cursor = 0 /\ DOMAIN visit'.page.docs = {"league"}
        /\ ~ visit'.owed /\ visit'.since = 0
    BY <2>1, <2>4, <2>7
  <2>10. /\ AddUser \/ (RemoveUser /\ UNCHANGED histMissed)
         /\ UNCHANGED <<cursor, histCopy, feedPage, histRevived>>
    BY <2>1, Zenon
  <2> QED BY <2>8, <2>9, <2>10, MovingKeeps
<1>8. CASE ReceiveJoined
  <2>1. /\ visit.step = "joined" /\ leagueRow' = visit.page.docs["league"].state
        /\ visit' = [visit EXCEPT !.step = "fetch", !.page = NoPage, !.owed = histMissed]
        /\ histMissed' = FALSE
        /\ UNCHANGED <<histStored, memberRow, cursor, histCopy, histRevived>>
        /\ UNCHANGED feedPage
    BY <1>8 DEF ReceiveJoined, histServer
  <2>2. visit \in VisitRecords /\ ~ visit.owed /\ visit.since = 0 /\ histMissed \in BOOLEAN
        /\ "league" \in DOMAIN visit.page.docs
    BY <2>1 DEF HistoryInv, HistoryTypes, StepsInOrder
  <2>3. /\ visit' \in VisitRecords /\ visit'.step = "fetch" /\ visit'.page = NoPage
        /\ (visit'.owed <=> histMissed) /\ visit'.since = 0
    BY <2>1, <2>2, NoneTypes DEF VisitRecords
  <2>4. leagueRow' \in LeagueRows
    <3>1. visit.page.docs \in UNION {[S -> DocCopies] : S \in SUBSET Names}
      BY <2>2 DEF VisitRecords, PageRecords
    <3> QED BY <2>1, <2>2, <3>1 DEF DocCopies, LeagueRows
  <2>5. HistoryTypes'
    BY <2>1, <2>3, <2>4 DEF HistoryInv, HistoryTypes
  <2>6. \A d \in HistDocs : histStored[d].version \in Nat /\ ~ (histStored[d].version <= 0)
    BY DEF HistoryInv, HistoryTypes, DocCopies
  <2>7. \A d \in HistDocs : Due(d)' => Due(d)
    BY <2>1, <2>2, <2>3, <2>6, Zenon DEF Due, Joined
  <2> QED BY <2>1, <2>2, <2>3, <2>5, <2>7, NothingBrought
<1>9. CASE FetchHistory
  BY <1>9, FetchHistoryKeeps
<1>10. CASE HistoryRefused
  BY <1>10, HistoryRefusedKeeps
<1>11. CASE ApplyHistory
  BY <1>11, ApplyHistoryKeeps
<1>12. CASE FailHistory \/ FailJoin \/ KillApp
  <2>1. /\ visit' = NoVisit
        /\ UNCHANGED <<histStored, memberRow, cursor, histCopy, histRevived>>
        /\ UNCHANGED feedPage \/ feedPage' = NoPage
        /\ leagueRow' \in {leagueRow, "in", visit.before}
        /\ \/ histMissed' = (histMissed \/ visit.owed)
           \/ visit.step = "joined" /\ histMissed' = histMissed
    <3>1. CASE FailHistory
      <4>1. histMissed' = (histMissed \/ visit.owed)
        BY <3>1, Zenon DEF FailHistory
      <4>2. /\ visit' = NoVisit
            /\ UNCHANGED <<histStored, memberRow, cursor, histCopy, histRevived>>
            /\ UNCHANGED feedPage
        BY <3>1 DEF FailHistory, histServer
      <4>3. leagueRow' \in {leagueRow, "in", visit.before}
        BY <3>1 DEF FailHistory, KeptRow
      <4> QED BY <4>1, <4>2, <4>3, Zenon
    <3>2. CASE FailJoin
      BY <3>2 DEF FailJoin, QueueJoin, histServer
    <3>3. CASE KillApp
      <4>1. histMissed' = (histMissed \/ visit.owed)
        BY <3>3, Zenon DEF KillApp
      <4>2. /\ visit' = NoVisit /\ feedPage' = NoPage
            /\ leagueRow' \in {leagueRow, "in", visit.before}
            /\ UNCHANGED <<histStored, memberRow, cursor, histCopy, histRevived>>
        BY <3>3 DEF KillApp, histServer, histPhone
      <4> QED BY <4>1, <4>2, Zenon
    <3> QED BY <1>12, <3>1, <3>2, <3>3
  <2>2. /\ visit \in VisitRecords /\ histMissed \in BOOLEAN /\ leagueRow \in LeagueRows
        /\ visit.step = "joined" => ~ visit.owed
    BY DEF HistoryInv, HistoryTypes, StepsInOrder
  <2>3. leagueRow' \in LeagueRows
    BY <2>1, <2>2 DEF VisitRecords, LeagueRows, DocStates
  <2>4. histMissed' \in BOOLEAN /\ (histMissed' <=> histMissed \/ visit.owed)
    <3>1. CASE histMissed' = (histMissed \/ visit.owed)
      BY <3>1
    <3>2. CASE visit.step = "joined" /\ histMissed' = histMissed
      BY <3>2, <2>2
    <3> QED BY <2>1, <3>1, <3>2
  <2>5. HistoryTypes'
    BY <2>1, <2>3, <2>4, NoneTypes DEF HistoryInv, HistoryTypes
  <2>6. \A d \in HistDocs : Due(d)' => Due(d)
    BY <2>1, <2>4, Zenon DEF Due, Joined
  <2> QED BY <2>1, <2>5, <2>6, NoneTypes, NothingBrought
<1>13. CASE JoinOffline \/ LeaveHub
  <2>1. /\ leagueRow' \in {"in", "out"}
        /\ UNCHANGED <<histStored, memberRow, cursor, histCopy, histRevived>>
        /\ UNCHANGED feedPage /\ UNCHANGED <<visit, histMissed>>
    BY <1>13 DEF JoinOffline, LeaveHub, QueueJoin, histServer
  <2>2. HistoryTypes'
    BY <2>1 DEF HistoryInv, HistoryTypes, LeagueRows, DocStates
  <2> QED BY <2>1, <2>2, NothingBrought
<1>14. CASE SendQueued \/ LoseAnswer
  <2>1. /\ Perform /\ UNCHANGED <<cursor, histCopy, feedPage, histRevived>> /\ UNCHANGED visit
        /\ leagueRow' \in {leagueRow, histStored'["league"].state}
    BY <1>14 DEF SendQueued, LoseAnswer, histPhone
  <2>2. leagueRow \in LeagueRows /\ histStored \in [Names -> DocCopies]
    BY DEF HistoryInv, HistoryTypes
  <2>3. CASE AddUser \/ (RemoveUser /\ UNCHANGED histMissed)
    <3>1. histStored' \in [Names -> DocCopies]
      BY <2>2, <2>3, PutChanges DEF AddUser, RemoveUser, DocStates, Names
    <3>2. leagueRow' \in LeagueRows
      BY <2>1, <2>2, <3>1 DEF DocCopies, LeagueRows, Names
    <3> QED BY <2>1, <2>3, <3>2, MovingKeeps
  <2>4. CASE UNCHANGED <<histServer, histMissed>>
    <3>1. UNCHANGED <<histStored, memberRow>> /\ UNCHANGED histMissed
      BY <2>4 DEF histServer
    <3>2. leagueRow' \in LeagueRows
      BY <2>1, <2>2, <3>1 DEF DocCopies, LeagueRows, Names
    <3>3. HistoryTypes'
      BY <2>1, <3>1, <3>2 DEF HistoryInv, HistoryTypes
    <3> QED BY <2>1, <3>1, <3>3, NothingBrought
  <2>5. \/ AddUser \/ (RemoveUser /\ UNCHANGED histMissed)
        \/ UNCHANGED <<histServer, histMissed>>
    <3>1. CASE Head(queue) = "join" /\ AddUser
      BY <3>1, Zenon
    <3>2. CASE Head(queue) = "leave" /\ memberRow /\ RemoveUser /\ UNCHANGED histMissed
      BY <3>2, Zenon
    <3>3. CASE Head(queue) = "leave" /\ ~memberRow /\ UNCHANGED <<histServer, histMissed>>
      BY <3>3, Zenon
    <3> QED BY <2>1, <3>1, <3>2, <3>3, Zenon DEF Perform
  <2> QED BY <2>3, <2>4, <2>5
<1>15. CASE UNCHANGED historyVars
  <2>1. /\ UNCHANGED <<histStored, memberRow, cursor, histCopy, histRevived>>
        /\ UNCHANGED feedPage /\ UNCHANGED <<visit, histMissed>> /\ UNCHANGED leagueRow
    BY <1>15 DEF historyVars, histServer, histPhone
  <2>2. HistoryTypes'
    BY <2>1 DEF HistoryInv, HistoryTypes
  <2> QED BY <2>1, <2>2, NothingBrought
<1> QED BY <1>1, <1>2, <1>3, <1>4, <1>5, <1>6, <1>7, <1>8, <1>9, <1>10, <1>11, <1>12, <1>13,
           <1>14, <1>15 DEF HistoryNext

\* Whatever others write, whenever the user joins and leaves, on this phone or on
\* another, and however the pages of the feed and of the history fall between:
\* a member's phone shows everything of the league the feed will not bring any
\* more, as it is stored (pull.ts pullLeague beside pullAll).
THEOREM MembersHaveTheHistory == HistorySpec => []MembersSeeTheHistory
<1>1. HistoryInv => MembersSeeTheHistory
  <2> SUFFICES ASSUME HistoryInv, memberRow, visit = NoVisit, ~ histMissed,
                      NEW d \in HistDocs \ histRevived, histStored[d].version <= cursor
               PROVE  Current(d)
    BY DEF MembersSeeTheHistory, Current
  <2>1. Due(d)
    BY NoneTypes DEF Due
  <2> QED BY <2>1 DEF HistoryInv, ShownUpToCursor
<1> QED BY <1>1, HistoryInvInit, HistoryInvStep, PTL DEF HistorySpec

=============================================================================
