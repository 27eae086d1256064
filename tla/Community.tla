----------------------------- MODULE Community -----------------------------
(***************************************************************************)
(* What the author "a" sends towards "b": a challenge, a follow, posts of  *)
(* one kind; "b" answers the challenge and blocks "a". A write is two      *)
(* steps of the server with no transaction around them: it reads what it   *)
(* needs and checks the rules, then it saves, over whatever is there then. *)
(***************************************************************************)
EXTENDS Naturals, FiniteSets

CONSTANTS
    PostsPerDay,    \* postsPerDay
    MaxWrites       \* bound: writes on their way at once

ASSUME CommunityAssumption == PostsPerDay \in Nat \ {0} /\ MaxWrites \in Nat \ {0}

Answers == {"accepted", "declined", "cancelled"}
Statuses == {"none", "pending"} \union Answers

VARIABLES
    challenge,  \* status of a's challenge to b
    follow,     \* a follows b
    block,      \* b has blocked a
    dayPosts,   \* a's posts dated within the last day
    writes,     \* writes that passed their check
    answered,   \* the answer to the challenge that is there (history)
    early       \* the writes on their way when the block was set (history)

communityVars == <<challenge, follow, block, dayPosts, writes, answered, early>>

\* A write: its request, the document, the copy it was checked against, and
\* what it saves. Of a post that is the day its phone put on it.
DocWrites ==
    [id : 1..MaxWrites, doc : {"challenge"}, read : Statuses, save : Statuses]
        \union [id : 1..MaxWrites, doc : {"follow"}, read : BOOLEAN, save : {TRUE}]
        \union [id : 1..MaxWrites, doc : {"post"}, read : {"none"},
                save : {"today", "earlier"}]

Requests(ws) == {w.id : w \in ws}

CommunityTypeOK ==
    /\ challenge \in Statuses /\ answered \in {"none"} \union Answers
    /\ follow \in BOOLEAN /\ block \in BOOLEAN
    /\ dayPosts \in Nat
    /\ writes \subseteq DocWrites
    /\ early \subseteq Requests(writes)

CommunityInit ==
    /\ challenge = "none" /\ answered = "none"
    /\ follow = FALSE /\ block = FALSE
    /\ dayPosts = 0
    /\ writes = {} /\ early = {}

-----------------------------------------------------------------------------
(***************************************************************************)
(* Reading and checking                                                    *)
(***************************************************************************)

\* Requests are numbered by the first number that is free.
Check(doc, read, save) ==
    /\ \E id \in 1..MaxWrites \ Requests(writes) :
        /\ \A other \in 1..MaxWrites \ Requests(writes) : id <= other
        /\ writes' = writes \union {[id |-> id, doc |-> doc, read |-> read, save |-> save]}
    /\ UNCHANGED <<challenge, follow, block, dayPosts, answered, early>>

\* indexChallenge: the challenged answers and the challenger cancels, both only
\* while it is pending; a write that keeps the status changes nothing.
MaySetStatus(user, before, after) ==
    \/ before = after
    \/ /\ before = "pending"
       /\ after \in IF user = "a" THEN {"cancelled"} ELSE {"accepted", "declined"}

CheckChallenge(user, status) ==
    /\ IF challenge = "none" THEN user = "a" /\ status = "pending" /\ ~ block
       ELSE MaySetStatus(user, challenge, status)
    /\ Check("challenge", challenge, status)

\* A follow that is there may be sent again, whatever was blocked since.
CheckFollow == /\ follow \/ ~ block
               /\ Check("follow", follow, TRUE)

\* The limit is compared as if this post were counted already (faulty).
CheckPost_OneMore(dated) == dayPosts <= PostsPerDay /\ Check("post", "none", dated)

\* checkCanPost counts the posts by the date their phone put on them.
CheckPost(dated) == dayPosts < PostsPerDay /\ Check("post", "none", dated)

-----------------------------------------------------------------------------
(***************************************************************************)
(* Saving                                                                  *)
(***************************************************************************)

Ends(w) ==
    /\ writes' = writes \ {w}
    /\ early' = early \ {w.id}

\* A write that was checked against another status puts its own in its place.
SaveChallenge(w) ==
    /\ w.doc = "challenge"
    /\ challenge' = w.save
    /\ answered' = CASE w.read = challenge /\ answered # "none" -> answered
                     [] OTHER -> IF w.save \in Answers THEN w.save ELSE "none"
    /\ Ends(w)
    /\ UNCHANGED <<follow, block, dayPosts>>

SaveFollow(w) ==
    /\ w.doc = "follow"
    /\ follow' = TRUE
    /\ Ends(w)
    /\ UNCHANGED <<challenge, block, dayPosts, answered>>

\* createdMillis: a date ahead of the server's is today, an old one is kept.
SavePost(w) ==
    /\ w.doc = "post"
    /\ dayPosts' = IF w.save = "today" THEN dayPosts + 1 ELSE dayPosts
    /\ Ends(w)
    /\ UNCHANGED <<challenge, follow, block, answered>>

\* The server stops between the two steps of a write.
WriteLost(w) ==
    /\ Ends(w)
    /\ UNCHANGED <<challenge, follow, block, dayPosts, answered>>

-----------------------------------------------------------------------------
(***************************************************************************)
(* Blocking and deleting                                                   *)
(***************************************************************************)

SetBlock(on) ==
    /\ block # on
    /\ block' = on
    /\ early' = IF on THEN Requests(writes) ELSE {}
    /\ UNCHANGED <<challenge, follow, dayPosts, writes, answered>>

Unfollow ==
    /\ follow' = FALSE
    /\ UNCHANGED <<challenge, block, dayPosts, writes, answered, early>>

\* The challenger takes the challenge away, answered or not.
DeleteChallenge ==
    /\ challenge' = "none" /\ answered' = "none"
    /\ UNCHANGED <<follow, block, dayPosts, writes, early>>

\* A post of the day is deleted, or is a day old.
PostGone ==
    /\ dayPosts > 0
    /\ dayPosts' = dayPosts - 1
    /\ UNCHANGED <<challenge, follow, block, writes, answered, early>>

\* An account is deleted: every row that is the person's or about them goes.
ForgetAuthor ==
    /\ challenge' = "none" /\ answered' = "none"
    /\ follow' = FALSE /\ block' = FALSE
    /\ dayPosts' = 0
    /\ UNCHANGED <<writes, early>>

CommunityNext ==
    \/ \E user \in {"a", "b"}, status \in Statuses \ {"none"} : CheckChallenge(user, status)
    \/ CheckFollow
    \/ \E dated \in {"today", "earlier"} : CheckPost(dated)
    \/ \E w \in writes : SaveChallenge(w) \/ SaveFollow(w) \/ SavePost(w) \/ WriteLost(w)
    \/ \E on \in BOOLEAN : SetBlock(on)
    \/ Unfollow \/ DeleteChallenge \/ PostGone
    \/ ForgetAuthor

CommunitySpec == CommunityInit /\ [][CommunityNext]_communityVars

-----------------------------------------------------------------------------
(***************************************************************************)
(* Properties                                                              *)
(***************************************************************************)

\* The first answer to a challenge is the one that stands, until the challenge
\* is deleted or a write that was checked before it lands.
AnswerStands == answered # "none" => challenge = answered

SentNew(w) ==
    \/ w.doc = "challenge" /\ w.read = "none"
    \/ w.doc = "follow" /\ ~ w.read

\* What is left of the community's rules when checks and saves interleave, with
\* deletions between them: an answer stands as above; whatever new of a's may
\* still reach b after a block was checked before it; and however many writes
\* are checked before the first of them lands, the posts dated within a day are
\* over the limit by no more than those on their way at once less one
\* (service.go:75-140, 200-364, 497-535).
CommunityRulesHold ==
    /\ AnswerStands
    /\ block => \A w \in writes : SentNew(w) => w.id \in early
    /\ dayPosts <= PostsPerDay + MaxWrites - 1

============================================================================
