---------------------------- MODULE Membership -----------------------------
(***************************************************************************)
(* Who belongs to a league and whose a player card is, as the server keeps *)
(* it: the rows of league_members decide, the league document lists them   *)
(* for the phones. People create, join and leave leagues, claim cards by   *)
(* themselves or through a link, and delete their accounts, which first    *)
(* erases their league data and then, in a later transaction, the user.    *)
(*                                                                         *)
(* Every action is one transaction under the write lock, except that a     *)
(* claim link is checked in one and stored after it. A push is one whose   *)
(* base version is the current one (see ChangeFeed). The id of a league or *)
(* card that was deleted is not used again.                                *)
(***************************************************************************)
EXTENDS Naturals, FiniteSets

CONSTANTS
    Users,
    Clubs, CityHubs,    \* ids of the two kinds of leagues
    Cards,
    CardLeague,         \* CardLeague[c]: the league of card c
    NoOne,              \* the owner of a guest card and the creator of a hub
    MaxLinks            \* bound: claim links of a card

AllLeagues == Clubs \union CityHubs

ASSUME MembershipAssumption ==
    /\ NoOne \notin Users
    /\ Clubs \intersect CityHubs = {}
    /\ CardLeague \in [Cards -> AllLeagues]
    /\ MaxLinks \in Nat

VARIABLES
    accounts,       \* the rows of users
    roles,          \* roles[l][u]: league_members
    leagueDoc,      \* the league documents
    cards,          \* the player documents
    links,          \* links[c]: claim links not used yet, made so far
    forgotten,      \* whose deletion has passed ForgetUser
    late            \* who wrote in their own name after that (history)

membershipVars == <<accounts, roles, leagueDoc, cards, links, forgotten, late>>

States == {"none", "live", "deleted"}

MembershipTypeOK ==
    /\ accounts \subseteq Users
    /\ roles \in [AllLeagues -> [Users -> {"none", "member", "owner"}]]
    /\ leagueDoc \in [AllLeagues -> [state : States,
                                     createdByUid : Users \union {NoOne},
                                     memberUids : SUBSET Users]]
    /\ cards \in [Cards -> [state : States, authUid : Users \union {NoOne}]]
    /\ links \in [Cards -> [unused : 0..MaxLinks, made : 0..MaxLinks]]
    /\ forgotten \subseteq Users
    /\ late \subseteq forgotten

MembershipInit ==
    /\ accounts = Users
    /\ roles = [l \in AllLeagues |-> [u \in Users |-> "none"]]
    /\ leagueDoc = [l \in AllLeagues |->
          [state |-> "none", createdByUid |-> NoOne, memberUids |-> {}]]
    /\ cards = [c \in Cards |-> [state |-> "none", authUid |-> NoOne]]
    /\ links = [c \in Cards |-> [unused |-> 0, made |-> 0]]
    /\ forgotten = {}
    /\ late = {}

-----------------------------------------------------------------------------
Live(l) == leagueDoc[l].state = "live"
IsMember(u, l) == roles[l][u] # "none"
Members(rs, l) == {u \in Users : rs[l][u] # "none"}

\* The list is taken from the phone (faulty).
WithMembers_AsSent(rs, l, sent) == sent

\* Whatever list a phone sends is replaced by the server's own.
WithMembers(rs, l, sent) == Members(rs, l)

\* A write in one's own name; one after ForgetUser is not erased any more.
Writes(u) == late' = late \union ({u} \intersect forgotten)

PutLeague(rs, l, createdBy, sent) ==
    leagueDoc' = [leagueDoc EXCEPT ![l] =
        [state |-> "live", createdByUid |-> createdBy,
         memberUids |-> WithMembers(rs, l, sent)]]

WithRole(u, l, role) == [roles EXCEPT ![l][u] = role]

-----------------------------------------------------------------------------
(***************************************************************************)
(* Leagues                                                                 *)
(***************************************************************************)

\* The owner's row is made with the first push of a club league.
CreateLeague(u, l) ==
    /\ u \in accounts
    /\ l \in Clubs /\ leagueDoc[l].state = "none"
    /\ roles' = WithRole(u, l, "owner")
    /\ PutLeague(roles', l, u, {u})
    /\ Writes(u)
    /\ UNCHANGED <<accounts, cards, links, forgotten>>

\* A push of league fields by a member, over whatever list the phone has.
SaveLeague(u, l, sent) ==
    /\ Live(l) /\ IsMember(u, l)
    /\ PutLeague(roles, l, leagueDoc[l].createdByUid, sent)
    /\ UNCHANGED <<accounts, roles, cards, links, forgotten, late>>

\* A tombstone has no data. The rows of its members stay.
Tombstone == [state |-> "deleted", createdByUid |-> NoOne, memberUids |-> {}]

DeleteLeague(u, l) ==
    /\ Live(l) /\ l \in Clubs
    /\ roles[l][u] = "owner"
    /\ leagueDoc' = [leagueDoc EXCEPT ![l] = Tombstone]
    /\ UNCHANGED <<accounts, roles, cards, links, forgotten, late>>

\* addMember: who is in already changes nothing. A user who has been removed
\* cannot be inserted.
AddMember(u, l) ==
    IF Live(l) /\ IsMember(u, l) THEN UNCHANGED <<roles, leagueDoc>>
    ELSE /\ u \in accounts
         /\ roles' = IF IsMember(u, l) THEN roles ELSE WithRole(u, l, "member")
         /\ PutLeague(roles', l, leagueDoc[l].createdByUid, {})

\* A club by its invite code, a hub by its city: the first one makes it.
Join(u, l) ==
    /\ Live(l) \/ l \in CityHubs
    /\ AddMember(u, l)
    /\ UNCHANGED <<accounts, cards, links, forgotten, late>>

\* Of a deleted league the data cannot be decoded, and the leave fails.
Leave(u, l) ==
    /\ roles[l][u] = "member"
    /\ Live(l)
    /\ roles' = WithRole(u, l, "none")
    /\ PutLeague(roles', l, leagueDoc[l].createdByUid, {})
    /\ UNCHANGED <<accounts, cards, links, forgotten, late>>

-----------------------------------------------------------------------------
(***************************************************************************)
(* Cards and claim links                                                   *)
(***************************************************************************)

SetCard(c, state, authUid) ==
    cards' = [cards EXCEPT ![c] = [state |-> state, authUid |-> authUid]]

\* A guest card or one's own. Whether the league still exists is not asked.
CreateCard(u, c, authUid) ==
    /\ cards[c].state = "none"
    /\ IsMember(u, CardLeague[c])
    /\ authUid \in {NoOne, u}
    /\ SetCard(c, "live", authUid)
    /\ Writes(u)
    /\ UNCHANGED <<accounts, roles, leagueDoc, links, forgotten>>

\* "That's me": the one change of owner a push can make.
SaveCard(u, c, authUid) ==
    /\ cards[c].state = "live"
    /\ IsMember(u, CardLeague[c])
    /\ \/ authUid = cards[c].authUid
       \/ cards[c].authUid = NoOne /\ authUid = u
    /\ SetCard(c, "live", authUid)
    /\ Writes(u)
    /\ UNCHANGED <<accounts, roles, leagueDoc, links, forgotten>>

DeleteCard(u, c) ==
    /\ cards[c].state = "live"
    /\ roles[CardLeague[c]][u] = "owner"
    /\ SetCard(c, "deleted", NoOne)
    /\ UNCHANGED <<accounts, roles, leagueDoc, links, forgotten, late>>

CreateClaimLink(u, c) ==
    /\ cards[c] = [state |-> "live", authUid |-> NoOne]
    /\ IsMember(u, CardLeague[c])
    /\ links[c].made < MaxLinks
    /\ links' = [links EXCEPT ![c].unused = @ + 1, ![c].made = @ + 1]
    /\ UNCHANGED <<accounts, roles, leagueDoc, cards, forgotten, late>>

\* The card was free when the link was made, and that is enough (faulty).
MayRedeem_Always(u, c) == TRUE

MayRedeem(u, c) == cards[c].authUid \in {NoOne, u}

\* The card, the membership and the used mark, or none of them.
RedeemClaimLink(u, c) ==
    LET l == CardLeague[c]
    IN  /\ links[c].unused > 0
        /\ cards[c].state = "live"
        /\ MayRedeem(u, c)
        /\ Live(l)
        /\ AddMember(u, l)
        /\ SetCard(c, "live", u)
        /\ Writes(u)
        /\ links' = [links EXCEPT ![c].unused = @ - 1]
        /\ UNCHANGED <<accounts, forgotten>>

\* Seven days have passed, or the maker of the link is gone.
LoseLink(c) ==
    /\ links[c].unused > 0
    /\ links' = [links EXCEPT ![c].unused = @ - 1]
    /\ UNCHANGED <<accounts, roles, leagueDoc, cards, forgotten, late>>

-----------------------------------------------------------------------------
(***************************************************************************)
(* Deletion of an account. What follows ForgetUser may fail: the user is   *)
(* still there then, goes on as before, and may ask for it again.          *)
(***************************************************************************)

\* The owned leagues with everything in them become tombstones, the cards in
\* other leagues nobody's.
ForgetUser(u) ==
    LET owned == {l \in AllLeagues : roles[l][u] = "owner"}
    IN  /\ u \in accounts
        /\ leagueDoc' = [l \in AllLeagues |->
              IF l \in owned /\ Live(l) THEN Tombstone ELSE leagueDoc[l]]
        /\ cards' = [c \in Cards |->
              CASE cards[c].state = "live" /\ CardLeague[c] \in owned ->
                      [state |-> "deleted", authUid |-> NoOne]
                [] cards[c].state = "live" /\ CardLeague[c] \notin owned
                                           /\ cards[c].authUid = u ->
                      [state |-> "live", authUid |-> NoOne]
                [] OTHER -> cards[c]]
        /\ forgotten' = forgotten \union {u}
        /\ late' = late \ {u}
        /\ UNCHANGED <<accounts, roles, links>>

\* The row of the user goes, and with it those of its memberships. A league
\* document lists the user until it is written next.
DeleteAccount(u) ==
    /\ u \in accounts \intersect forgotten
    /\ accounts' = accounts \ {u}
    /\ roles' = [l \in AllLeagues |-> [roles[l] EXCEPT ![u] = "none"]]
    /\ UNCHANGED <<leagueDoc, cards, links, forgotten, late>>

-----------------------------------------------------------------------------
MembershipNext ==
    \E u \in Users :
        \/ \E l \in AllLeagues :
              \/ CreateLeague(u, l) \/ DeleteLeague(u, l)
              \/ Join(u, l) \/ Leave(u, l)
              \/ \E sent \in SUBSET Users : SaveLeague(u, l, sent)
        \/ \E c \in Cards :
              \/ \E authUid \in Users \union {NoOne} :
                    CreateCard(u, c, authUid) \/ SaveCard(u, c, authUid)
              \/ DeleteCard(u, c) \/ CreateClaimLink(u, c)
              \/ RedeemClaimLink(u, c) \/ LoseLink(c)
        \/ ForgetUser(u) \/ DeleteAccount(u)

MembershipSpec == MembershipInit /\ [][MembershipNext]_membershipVars

-----------------------------------------------------------------------------
(***************************************************************************)
(* Properties                                                              *)
(***************************************************************************)

\* What phones are told of a league is what permissions are decided by: its
\* document lists its members and, until it is written next, accounts that are
\* gone; its owner is its creator, and a hub has none. Nothing is left of who
\* is gone: no league of theirs, no card, except what they wrote between the
\* erasing of their data and the end of their account (account.go:42).
LeagueRecordsStand ==
    /\ \A l \in AllLeagues : Live(l) =>
           /\ leagueDoc[l].memberUids \intersect accounts = Members(roles, l)
           /\ {u \in Users : roles[l][u] = "owner"} =
                  {leagueDoc[l].createdByUid} \intersect accounts
    /\ \A u \in Users \ (accounts \union late) :
           /\ \A l \in AllLeagues : leagueDoc[l].createdByUid # u
           /\ \A c \in Cards : cards[c].authUid # u

\* A card never passes from one person to another, or away from a person who
\* is not deleting the account, whichever way two people claim it: by links,
\* by pushes, or one by each (claims.go:129, policy.go:202).
CardKeepsItsPerson ==
    [][\A c \in Cards : cards[c].authUid # NoOne =>
           \/ cards'[c].authUid = cards[c].authUid
           \/ cards'[c].state = "deleted"
           \/ cards'[c].authUid = NoOne /\ cards[c].authUid \in forgotten'
      ]_membershipVars

============================================================================
