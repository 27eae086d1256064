-------------------------- MODULE ChangeFeedProofs --------------------------
(***************************************************************************)
(* For any number of documents, writers and phones and any page size:      *)
(* ChangeFeed keeps its types, never lets a phone skip a change, decides   *)
(* every write on current rows, shows versions in order, and implements    *)
(* OrderedFeed.                                                            *)
(*                                                                         *)
(* NoChangeSkipped is not inductive: it says nothing of the versions a     *)
(* writer holds but has not committed, nor of the page a phone is working  *)
(* on. FeedInv adds both: an uncommitted version is above everything any   *)
(* phone has asked or been told, because its writer holds the lock since   *)
(* before it took the number; and a page has every change up to its last   *)
(* version that still is the current one.                                  *)
(***************************************************************************)
EXTENDS ChangeFeed, FiniteSetTheorems, TLAPS

\* At most one transaction is past LockWrites, and only that one has read or
\* written anything.
OneWriter ==
    /\ \A t, u \in Txns : tx[t] = "locked" /\ tx[u] = "locked" => t = u
    /\ \A t \in Txns : tx[t] # "locked" =>
          loaded[t] = {} /\ \A d \in Docs : put[t][d] = 0

\* Cursors and pages never get ahead of the sequence.
NotAhead ==
    \A p \in Phones : cursor[p] <= seq /\ page[p].upTo <= seq

\* A version that is not committed yet is above all that phones know of.
PendingAbove ==
    \A t \in Txns, d \in Docs : put[t][d] # 0 =>
        /\ \A e \in Docs : versionOf[e] < put[t][d]
        /\ \A p \in Phones : cursor[p] < put[t][d] /\ page[p].upTo < put[t][d]

\* Only the new build pulls the opt-in kinds, and no phone holds a copy newer
\* than the server's.
PhonesHoldPublished ==
    \A p \in Phones :
        /\ kindsPulled[p] => newBuild[p]
        /\ \A d \in Docs : known[p][d] <= versionOf[d]

\* A page in hand has everything up to upTo that is still current.
PageSound(p) ==
    page[p] # NoPage =>
        /\ page[p].state # "none"
        /\ newBuild[p] => kindsPulled[p]
        /\ cursor[p] < page[p].upTo
        /\ \E d \in Docs : page[p].upTo <= versionOf[d]
        /\ \A d \in Docs : page[p].version[d] # 0 =>
              /\ d \in Covered(p)
              /\ cursor[p] < page[p].version[d]
              /\ known[p][d] <= page[p].version[d]
              /\ page[p].version[d] <= versionOf[d]
              /\ page[p].state = "applied" => known[p][d] = page[p].version[d]
        /\ \A d \in Covered(p) :
              versionOf[d] <= page[p].upTo =>
                  versionOf[d] <= cursor[p] \/ page[p].version[d] = versionOf[d]

PagesSound == \A p \in Phones : PageSound(p)

FeedInv ==
    /\ TypeOK
    /\ OneWriter
    /\ DecidedOnCurrent
    /\ NotAhead
    /\ PendingAbove
    /\ PhonesHoldPublished
    /\ PagesSound
    /\ NoChangeSkipped

-----------------------------------------------------------------------------
(***************************************************************************)
(* Types                                                                   *)
(***************************************************************************)

\* Every step keeps the types, and every version stays at or below the
\* sequence it was taken from.
LEMMA TypeInductive == TypeOK /\ [Next]_vars => TypeOK'
<1> SUFFICES ASSUME TypeOK, [Next]_vars PROVE TypeOK'
  OBVIOUS
<1> USE DEF TypeOK, PageType, TxStates, Nothing, NoPage
<1>1. ASSUME NEW t \in Txns, Begin(t) PROVE TypeOK'
  BY <1>1 DEF Begin, phoneVars
<1>2. ASSUME NEW t \in Txns, LockWrites(t) PROVE TypeOK'
  BY <1>2 DEF LockWrites, phoneVars
<1>3. ASSUME NEW t \in Txns, NEW d \in Docs, Get(t, d) PROVE TypeOK'
  BY <1>3 DEF Get, phoneVars
<1>4. ASSUME NEW t \in Txns, NEW d \in Docs, Put(t, d) PROVE TypeOK'
  BY <1>4 DEF Put, phoneVars
<1>5. ASSUME NEW t \in Txns, Commit(t) PROVE TypeOK'
  BY <1>5 DEF Commit, EndTx, phoneVars
<1>6. ASSUME NEW t \in Txns, Rollback(t) PROVE TypeOK'
  BY <1>6 DEF Rollback, EndTx, phoneVars
<1>7. ASSUME NEW p \in Phones, RestartPullForNewKinds(p) PROVE TypeOK'
  BY <1>7 DEF RestartPullForNewKinds, serverVars
<1>8. ASSUME NEW p \in Phones, PullPage(p) PROVE TypeOK'
  <2>1. PICK last \in FirstPage(p) :
          page' = [page EXCEPT ![p] =
            [state |-> "received",
             version |-> [d \in Docs |->
                            IF d \in FirstPage(p) THEN versionOf[d] ELSE 0],
             upTo |-> versionOf[last]]]
    BY <1>8 DEF PullPage
  <2>2. last \in Docs
    BY DEF FirstPage, Changed, Asked
  <2> QED BY <1>8, <2>1, <2>2 DEF PullPage, serverVars
<1>9. ASSUME NEW p \in Phones, ApplyServerDocs(p) PROVE TypeOK'
  BY <1>9 DEF ApplyServerDocs, serverVars
<1>10. ASSUME NEW p \in Phones, SaveCursor(p) PROVE TypeOK'
  BY <1>10 DEF SaveCursor, serverVars
<1>11. ASSUME NEW p \in Phones, LosePage(p) PROVE TypeOK'
  BY <1>11 DEF LosePage, serverVars
<1>12. ASSUME NEW p \in Phones, InstallNewBuild(p) PROVE TypeOK'
  BY <1>12 DEF InstallNewBuild, serverVars
<1>13. CASE UNCHANGED vars
  BY <1>13 DEF vars, serverVars, phoneVars
<1> QED
  BY <1>1, <1>2, <1>3, <1>4, <1>5, <1>6, <1>7, <1>8, <1>9, <1>10, <1>11,
     <1>12, <1>13
  DEF Next, TxStep, PhoneStep

\* The types of all variables hold in every reachable state.
THEOREM TypesHold == Spec => []TypeOK
<1>1. Init => TypeOK
  BY DEF Init, TypeOK, PageType, TxStates, Nothing, NoPage
<1> QED
  BY <1>1, TypeInductive, PTL DEF Spec

-----------------------------------------------------------------------------
(***************************************************************************)
(* The invariant                                                           *)
(***************************************************************************)

\* LIMIT cuts a page at a version: a change at or below the version of some
\* row in the page is itself in the page.
LEMMA PageIsPrefix ==
    ASSUME TypeOK, NEW p \in Phones, NEW last \in FirstPage(p),
           NEW d \in Changed(p), versionOf[d] <= versionOf[last]
    PROVE  d \in FirstPage(p)
<1> DEFINE Below(e) == {f \in Changed(p) : versionOf[f] < versionOf[e]}
<1>1. Changed(p) \subseteq Docs /\ last \in Changed(p)
  BY DEF FirstPage, Changed, Asked
<1>2. IsFiniteSet(Below(last))
  BY <1>1, ChangeFeedAssumption, FS_Subset
<1>3. Below(d) \subseteq Below(last)
  BY <1>1 DEF TypeOK
<1>4. /\ Cardinality(Below(d)) <= Cardinality(Below(last))
      /\ Cardinality(Below(d)) \in Nat
      /\ Cardinality(Below(last)) \in Nat
  <2>1. IsFiniteSet(Below(d))
    BY <1>2, <1>3, FS_Subset
  <2> QED BY <1>2, <1>3, <2>1, FS_Subset, FS_CardinalityType
<1>5. Cardinality(Below(last)) < PageSize
  BY DEF FirstPage
<1>6. Cardinality(Below(d)) < PageSize
  BY <1>4, <1>5, ChangeFeedAssumption
<1> QED BY <1>6 DEF FirstPage

\* The initial state satisfies the invariant: nothing is written or pulled.
LEMMA InitInv == Init => FeedInv
<1> SUFFICES ASSUME Init PROVE FeedInv
  OBVIOUS
<1>1. TypeOK
  BY DEF Init, TypeOK, PageType, TxStates, Nothing, NoPage
<1> QED
  BY <1>1 DEF Init, FeedInv, OneWriter, DecidedOnCurrent, NotAhead,
     PendingAbove, PhonesHoldPublished, PagesSound, PageSound,
     NoChangeSkipped, Covered, Nothing, NoPage

\* A step that changes neither the committed rows nor any phone keeps what the
\* invariant says of phones and pages.
LEMMA PhonesUntouched ==
    ASSUME FeedInv, UNCHANGED <<versionOf, phoneVars>>
    PROVE  PhonesHoldPublished' /\ PagesSound' /\ NoChangeSkipped'
BY DEF FeedInv, phoneVars, PhonesHoldPublished, PagesSound, PageSound,
       NoChangeSkipped, Covered, NoPage, Nothing

\* The steps of a write transaction keep the invariant.
LEMMA TxStepKeepsInv ==
    ASSUME FeedInv, TypeOK', NEW t \in Txns, TxStep(t)
    PROVE  FeedInv'
<1> USE DEF FeedInv
<1>1. CASE Begin(t)
  <2>1. PhonesHoldPublished' /\ PagesSound' /\ NoChangeSkipped'
    BY <1>1, PhonesUntouched DEF Begin
  <2>2. OneWriter'
    BY <1>1 DEF Begin, OneWriter, TypeOK
  <2>3. DecidedOnCurrent' /\ NotAhead' /\ PendingAbove'
    BY <1>1 DEF Begin, DecidedOnCurrent, NotAhead, PendingAbove, phoneVars
  <2> QED BY <2>1, <2>2, <2>3
<1>2. CASE LockWrites(t)
  <2>1. PhonesHoldPublished' /\ PagesSound' /\ NoChangeSkipped'
    BY <1>2, PhonesUntouched DEF LockWrites
  <2>2. OneWriter'
    BY <1>2 DEF LockWrites, OneWriter, TypeOK
  <2>3. DecidedOnCurrent' /\ NotAhead' /\ PendingAbove'
    BY <1>2 DEF LockWrites, DecidedOnCurrent, NotAhead, PendingAbove, phoneVars
  <2> QED BY <2>1, <2>2, <2>3
<1>3. ASSUME NEW d \in Docs, Get(t, d) PROVE FeedInv'
  <2>1. PhonesHoldPublished' /\ PagesSound' /\ NoChangeSkipped'
    BY <1>3, PhonesUntouched DEF Get
  <2>2. OneWriter'
    BY <1>3 DEF Get, OneWriter, TypeOK
  <2>3. DecidedOnCurrent'
    BY <1>3 DEF Get, DecidedOnCurrent, TypeOK
  <2>4. NotAhead' /\ PendingAbove'
    BY <1>3 DEF Get, NotAhead, PendingAbove, phoneVars
  <2> QED BY <2>1, <2>2, <2>3, <2>4
<1>4. ASSUME NEW d \in Docs, Put(t, d) PROVE FeedInv'
  <2>1. PhonesHoldPublished' /\ PagesSound' /\ NoChangeSkipped'
    BY <1>4, PhonesUntouched DEF Put
  <2>2. OneWriter' /\ DecidedOnCurrent'
    BY <1>4 DEF Put, OneWriter, DecidedOnCurrent, TypeOK
  <2>3. NotAhead'
    BY <1>4 DEF Put, NotAhead, TypeOK, PageType, phoneVars
  <2>4. PendingAbove'
    BY <1>4 DEF Put, PendingAbove, NotAhead, TypeOK, PageType, phoneVars
  <2> QED BY <2>1, <2>2, <2>3, <2>4
<1>5. CASE Commit(t)
  <2>1. /\ \A d \in Docs : versionOf'[d] =
             IF put[t][d] # 0 THEN put[t][d] ELSE versionOf[d]
        /\ \A u \in Txns \ {t} : loaded[u] = {} /\ \A d \in Docs : put[u][d] = 0
        /\ UNCHANGED <<seq, phoneVars>>
    BY <1>5 DEF Commit, EndTx, OneWriter
  <2>2. \A u \in Txns : loaded'[u] = {} /\ \A d \in Docs : put'[u][d] = 0
    BY <1>5, <2>1 DEF Commit, EndTx, TypeOK, Nothing
  <2>3. OneWriter' /\ DecidedOnCurrent' /\ PendingAbove'
    BY <1>5, <2>2 DEF Commit, EndTx, OneWriter, DecidedOnCurrent,
       PendingAbove, TypeOK
  <2>4. NotAhead'
    BY <2>1 DEF NotAhead, phoneVars
  <2>5. /\ \A d \in Docs : versionOf[d] <= versionOf'[d]
        /\ \A d \in Docs, p \in Phones : versionOf'[d] # versionOf[d] =>
              cursor[p] < versionOf'[d] /\ page[p].upTo < versionOf'[d]
    <3>1. ASSUME NEW d \in Docs, put[t][d] # 0
          PROVE  /\ versionOf[d] < versionOf'[d]
                 /\ \A p \in Phones : cursor[p] < versionOf'[d]
                                      /\ page[p].upTo < versionOf'[d]
      BY <2>1, <3>1 DEF PendingAbove
    <3>2. ASSUME NEW d \in Docs, put[t][d] = 0
          PROVE  versionOf'[d] = versionOf[d]
      BY <2>1, <3>2
    <3>3. \A d \in Docs : versionOf[d] \in Nat /\ versionOf'[d] \in Nat
      BY DEF TypeOK
    <3> QED BY <3>1, <3>2, <3>3
  <2>6. PhonesHoldPublished'
    BY <2>1, <2>5 DEF PhonesHoldPublished, phoneVars, TypeOK
  <2>7. NoChangeSkipped'
    <3> SUFFICES ASSUME NEW p \in Phones, NEW d \in Covered(p),
                        versionOf'[d] <= cursor[p]
                 PROVE  known[p][d] = versionOf'[d]
      BY <2>1 DEF NoChangeSkipped, Covered, phoneVars
    <3>1. d \in Docs /\ versionOf'[d] \in Nat /\ cursor[p] \in Nat
      BY DEF Covered, TypeOK
    <3>2. versionOf'[d] = versionOf[d]
      BY <2>5, <3>1
    <3> QED BY <3>2 DEF NoChangeSkipped
  <2>8. PagesSound'
    <3> SUFFICES ASSUME NEW p \in Phones, page[p] # NoPage
                 PROVE  PageSound(p)'
      BY <2>1 DEF PagesSound, PageSound, phoneVars, NoPage, Nothing
    <3>1. PageSound(p)
      BY DEF PagesSound
    <3>2. UNCHANGED <<newBuild, kindsPulled, cursor, known, page>>
      BY <2>1 DEF phoneVars
    <3>3. /\ page[p].upTo \in Nat /\ page[p].version \in [Docs -> Nat]
          /\ \A d \in Docs : versionOf[d] \in Nat /\ versionOf'[d] \in Nat
      BY DEF TypeOK, PageType
    <3>4. \E d \in Docs : page[p].upTo <= versionOf'[d]
      BY <2>5, <3>1, <3>3 DEF PageSound
    <3>5. \A d \in Docs : page[p].version[d] # 0 =>
             page[p].version[d] <= versionOf'[d]
      BY <2>5, <3>1, <3>3 DEF PageSound
    <3>6. \A d \in Covered(p) : versionOf'[d] <= page[p].upTo =>
             versionOf'[d] = versionOf[d]
      BY <2>5, <3>3 DEF Covered
    <3>7. \A d \in Covered(p) : versionOf'[d] <= page[p].upTo =>
             versionOf'[d] <= cursor[p] \/ page[p].version[d] = versionOf'[d]
      BY <3>1, <3>6 DEF PageSound
    <3> QED BY <3>1, <3>2, <3>4, <3>5, <3>7 DEF PageSound, Covered
  <2> QED BY <2>3, <2>4, <2>6, <2>7, <2>8
<1>6. CASE Rollback(t)
  <2>1. PhonesHoldPublished' /\ PagesSound' /\ NoChangeSkipped'
    BY <1>6, PhonesUntouched DEF Rollback, EndTx
  <2>2. OneWriter' /\ DecidedOnCurrent' /\ PendingAbove'
    BY <1>6 DEF Rollback, EndTx, OneWriter, DecidedOnCurrent, PendingAbove,
       TypeOK, Nothing, phoneVars
  <2>3. NotAhead'
    BY <1>6 DEF Rollback, EndTx, NotAhead, phoneVars
  <2> QED BY <2>1, <2>2, <2>3
<1> QED BY <1>1, <1>2, <1>3, <1>4, <1>5, <1>6 DEF TxStep

\* Cursors and page ends are numbers.
LEMMA PhoneNumbers ==
    ASSUME TypeOK, NEW p \in Phones
    PROVE  cursor[p] \in Nat /\ page[p].upTo \in Nat /\ page[p] \in PageType
BY DEF TypeOK, PageType

\* A phone's step leaves everything the invariant says of writers alone, as
\* long as no phone gets ahead of what is published.
LEMMA WritersUntouched ==
    ASSUME FeedInv, UNCHANGED serverVars, TypeOK',
           \A p \in Phones :
              /\ cursor'[p] <= cursor[p] \/ cursor'[p] <= page[p].upTo
              /\ \/ page'[p].upTo <= page[p].upTo
                 \/ \E d \in Docs : page'[p].upTo <= versionOf[d]
    PROVE  OneWriter' /\ DecidedOnCurrent' /\ NotAhead' /\ PendingAbove'
<1> USE DEF FeedInv
<1>1. OneWriter' /\ DecidedOnCurrent'
  BY DEF OneWriter, DecidedOnCurrent, serverVars
<1>2. \A p \in Phones : /\ cursor[p] \in Nat /\ cursor'[p] \in Nat
                        /\ page[p].upTo \in Nat /\ page'[p].upTo \in Nat
  BY DEF TypeOK, PageType
<1>3. NotAhead'
  <2>1. seq \in Nat /\ seq' = seq /\ \A d \in Docs : versionOf[d] \in Nat /\ versionOf[d] <= seq
    BY DEF TypeOK, serverVars
  <2>2. \A p \in Phones : cursor[p] <= seq /\ page[p].upTo <= seq
    BY DEF NotAhead
  <2> QED BY <1>2, <2>1, <2>2 DEF NotAhead
<1>4. PendingAbove'
  <2> SUFFICES ASSUME NEW t \in Txns, NEW d \in Docs, put[t][d] # 0,
                      NEW p \in Phones
               PROVE  cursor'[p] < put[t][d] /\ page'[p].upTo < put[t][d]
    BY DEF PendingAbove, serverVars
  <2>1. /\ \A e \in Docs : versionOf[e] < put[t][d]
        /\ cursor[p] < put[t][d] /\ page[p].upTo < put[t][d]
    BY DEF PendingAbove
  <2>2. put[t][d] \in Nat /\ \A e \in Docs : versionOf[e] \in Nat
    BY DEF TypeOK
  <2> QED BY <1>2, <2>1, <2>2
<1> QED BY <1>1, <1>3, <1>4

\* NoPage, and so every idle phone's page, is at 0.
LEMMA IdlePage ==
    ASSUME TypeOK, NEW p \in Phones, page[p] = NoPage
    PROVE  /\ page[p].upTo = 0
           /\ page[p].state = "none"
           /\ \A d \in Docs : page[p].version[d] = 0
BY DEF NoPage, Nothing

\* The steps of a phone keep the invariant.
LEMMA PhoneStepKeepsInv ==
    ASSUME FeedInv, TypeOK', NEW p \in Phones, PhoneStep(p)
    PROVE  FeedInv'
<1> USE DEF FeedInv
<1>1. CASE RestartPullForNewKinds(p)
  <2>1. OneWriter' /\ DecidedOnCurrent' /\ NotAhead' /\ PendingAbove'
    <3>1. UNCHANGED serverVars /\ UNCHANGED page
          /\ \A q \in Phones : cursor'[q] <= cursor[q]
      BY <1>1 DEF RestartPullForNewKinds, TypeOK
    <3> QED BY <3>1, WritersUntouched DEF TypeOK, PageType
  <2>2. PhonesHoldPublished'
    BY <1>1 DEF RestartPullForNewKinds, PhonesHoldPublished, TypeOK, serverVars
  <2>3. PagesSound'
    <3>1. page[p] = NoPage /\ UNCHANGED page
      BY <1>1 DEF RestartPullForNewKinds
    <3>2. ASSUME NEW q \in Phones, q # p PROVE PageSound(q)'
      BY <1>1, <3>2 DEF RestartPullForNewKinds, PagesSound, PageSound, TypeOK,
         Covered, serverVars, NoPage, Nothing
    <3>3. PageSound(p)'
      BY <3>1 DEF PageSound, NoPage, Nothing
    <3> QED BY <3>2, <3>3 DEF PagesSound
  <2>4. NoChangeSkipped'
    <3>1. ASSUME NEW q \in Phones, q # p, NEW d \in Covered(q)',
                 versionOf'[d] <= cursor'[q]
          PROVE  known'[q][d] = versionOf'[d]
      BY <1>1, <3>1 DEF RestartPullForNewKinds, NoChangeSkipped, Covered,
         TypeOK, serverVars
    <3>2. ASSUME NEW d \in Docs, versionOf'[d] <= cursor'[p]
          PROVE  known'[p][d] = versionOf'[d]
      BY <1>1, <3>2 DEF RestartPullForNewKinds, PhonesHoldPublished, TypeOK,
         serverVars
    <3> QED BY <3>1, <3>2 DEF NoChangeSkipped, Covered
  <2> QED BY <2>1, <2>2, <2>3, <2>4
<1>2. CASE PullPage(p)
  <2>1. PICK last \in FirstPage(p) :
          /\ \A d \in FirstPage(p) : versionOf[d] <= versionOf[last]
          /\ page' = [page EXCEPT ![p] =
               [state |-> "received",
                version |-> [d \in Docs |->
                               IF d \in FirstPage(p) THEN versionOf[d] ELSE 0],
                upTo |-> versionOf[last]]]
    BY <1>2 DEF PullPage
  <2>2. /\ UNCHANGED <<serverVars, newBuild, kindsPulled, cursor, known>>
        /\ newBuild[p] => kindsPulled[p]
    BY <1>2 DEF PullPage
  <2>3. /\ page'[p].upTo = versionOf[last]
        /\ page'[p].state = "received"
        /\ \A d \in Docs : page'[p].version[d] =
                            IF d \in FirstPage(p) THEN versionOf[d] ELSE 0
        /\ \A q \in Phones \ {p} : page'[q] = page[q]
    BY <2>1 DEF TypeOK
  <2>4. FirstPage(p) \subseteq Changed(p) /\ Asked(p) = Covered(p)
    BY <2>2 DEF FirstPage, Asked, Covered, PhonesHoldPublished
  <2>5. last \in Docs /\ cursor[p] < versionOf[last]
    BY <2>4 DEF Changed, Asked
  <2>6. OneWriter' /\ DecidedOnCurrent' /\ NotAhead' /\ PendingAbove'
    <3>1. \A q \in Phones :
             /\ cursor'[q] <= cursor[q]
             /\ page'[q].upTo <= page[q].upTo
                \/ \E d \in Docs : page'[q].upTo <= versionOf[d]
      <4> TAKE q \in Phones
      <4>1. cursor[q] <= cursor[q] /\ page[q].upTo <= page[q].upTo
        BY PhoneNumbers
      <4>2. versionOf[last] <= versionOf[last]
        BY <2>5 DEF TypeOK
      <4> QED BY <2>2, <2>3, <2>5, <4>1, <4>2
    <3> QED BY <2>2, <3>1, WritersUntouched
  <2>7. PhonesHoldPublished' /\ NoChangeSkipped'
    BY <2>2 DEF PhonesHoldPublished, NoChangeSkipped, Covered, serverVars
  <2>8. ASSUME NEW q \in Phones, q # p PROVE PageSound(q)'
    BY <2>2, <2>3, <2>8 DEF PagesSound, PageSound, Covered, serverVars
  <2>9. PageSound(p)'
    <3>1. \A d \in Docs : page'[p].version[d] # 0 =>
             d \in Covered(p) /\ cursor[p] < versionOf[d]
             /\ page'[p].version[d] = versionOf[d]
      BY <2>3, <2>4 DEF Changed
    <3>2. \A d \in Docs : known[p][d] <= versionOf[d]
      BY DEF PhonesHoldPublished
    <3>3. ASSUME NEW d \in Covered(p), versionOf[d] <= versionOf[last]
          PROVE  versionOf[d] <= cursor[p] \/ page'[p].version[d] = versionOf[d]
      <4>1. d \in Docs
        BY DEF Covered
      <4>2. CASE versionOf[d] <= cursor[p]
        BY <4>2
      <4>3. CASE ~(versionOf[d] <= cursor[p])
        <5>1. d \in Changed(p)
          BY <2>4, <4>1, <4>3 DEF Changed, TypeOK
        <5> QED BY <2>3, <3>3, <4>1, <5>1, PageIsPrefix
      <4> QED BY <4>2, <4>3
    <3>4. \A d \in Docs : versionOf[d] \in Nat
      BY DEF TypeOK
    <3> QED BY <2>2, <2>3, <2>5, <3>1, <3>2, <3>3, <3>4
            DEF PageSound, Covered, serverVars
  <2> QED BY <2>6, <2>7, <2>8, <2>9 DEF PagesSound
<1>3. CASE ApplyServerDocs(p)
  <2>1. /\ UNCHANGED <<serverVars, newBuild, kindsPulled, cursor>>
        /\ page[p].state = "received" /\ page[p] # NoPage
        /\ \A d \in Docs : known'[p][d] =
              IF page[p].version[d] # 0 THEN page[p].version[d] ELSE known[p][d]
        /\ \A q \in Phones \ {p} : known'[q] = known[q] /\ page'[q] = page[q]
        /\ page'[p].upTo = page[p].upTo /\ page'[p].version = page[p].version
        /\ page'[p].state = "applied"
    BY <1>3 DEF ApplyServerDocs, TypeOK, PageType, NoPage
  <2>2. PageSound(p)
    BY DEF PagesSound
  <2>3. OneWriter' /\ DecidedOnCurrent' /\ NotAhead' /\ PendingAbove'
    <3>1. \A q \in Phones : cursor'[q] <= cursor[q] /\ page'[q].upTo <= page[q].upTo
      <4> TAKE q \in Phones
      <4>1. cursor[q] <= cursor[q] /\ page[q].upTo <= page[q].upTo
        BY PhoneNumbers
      <4> QED BY <2>1, <4>1
    <3> QED BY <2>1, <3>1, WritersUntouched
  <2>4. PhonesHoldPublished'
    BY <2>1, <2>2 DEF PhonesHoldPublished, PageSound, serverVars
  <2>5. ASSUME NEW q \in Phones, q # p PROVE PageSound(q)'
    BY <2>1, <2>5 DEF PagesSound, PageSound, Covered, serverVars
  <2>6. PageSound(p)'
    BY <2>1, <2>2 DEF PageSound, Covered, serverVars, TypeOK, PageType
  <2>7. NoChangeSkipped'
    <3>1. ASSUME NEW q \in Phones, q # p, NEW d \in Covered(q)',
                 versionOf'[d] <= cursor'[q]
          PROVE  known'[q][d] = versionOf'[d]
      BY <2>1, <3>1 DEF NoChangeSkipped, Covered, serverVars
    <3>2. ASSUME NEW d \in Covered(p)', versionOf'[d] <= cursor'[p]
          PROVE  known'[p][d] = versionOf'[d]
      <4>1. d \in Docs /\ d \in Covered(p) /\ versionOf[d] <= cursor[p]
        BY <2>1, <3>2 DEF Covered, serverVars
      <4>2. page[p].version[d] = 0
        BY <2>1, <2>2, <4>1 DEF PageSound, TypeOK, PageType
      <4> QED BY <2>1, <4>1, <4>2 DEF NoChangeSkipped, serverVars
    <3> QED BY <3>1, <3>2 DEF NoChangeSkipped
  <2> QED BY <2>3, <2>4, <2>5, <2>6, <2>7 DEF PagesSound
<1>4. CASE SaveCursor(p)
  <2>1. /\ UNCHANGED <<serverVars, newBuild, kindsPulled, known>>
        /\ page[p].state = "applied" /\ page[p] # NoPage
        /\ page'[p] = NoPage
        /\ cursor'[p] = IF cursor[p] >= page[p].upTo THEN cursor[p]
                                                    ELSE page[p].upTo
        /\ \A q \in Phones \ {p} : cursor'[q] = cursor[q] /\ page'[q] = page[q]
    BY <1>4 DEF SaveCursor, TypeOK, NoPage
  <2>2. PageSound(p) /\ cursor'[p] = page[p].upTo
    BY <2>1 DEF PagesSound, PageSound, TypeOK, PageType
  <2>3. OneWriter' /\ DecidedOnCurrent' /\ NotAhead' /\ PendingAbove'
    <3>1. \A q \in Phones :
             /\ cursor'[q] <= cursor[q] \/ cursor'[q] <= page[q].upTo
             /\ page'[q].upTo <= page[q].upTo
      BY <2>1, <2>2 DEF TypeOK, PageType, NoPage
    <3> QED BY <2>1, <3>1, WritersUntouched
  <2>4. PhonesHoldPublished'
    BY <2>1 DEF PhonesHoldPublished, serverVars
  <2>5. PagesSound'
    BY <2>1 DEF PagesSound, PageSound, Covered, serverVars
  <2>6. NoChangeSkipped'
    <3>1. ASSUME NEW q \in Phones, q # p, NEW d \in Covered(q)',
                 versionOf'[d] <= cursor'[q]
          PROVE  known'[q][d] = versionOf'[d]
      BY <2>1, <3>1 DEF NoChangeSkipped, Covered, serverVars
    <3>2. ASSUME NEW d \in Covered(p)', versionOf'[d] <= cursor'[p]
          PROVE  known'[p][d] = versionOf'[d]
      <4>1. d \in Docs /\ d \in Covered(p) /\ versionOf[d] <= page[p].upTo
        BY <2>1, <2>2, <3>2 DEF Covered, serverVars
      <4>2. CASE versionOf[d] <= cursor[p]
        BY <2>1, <4>1, <4>2 DEF NoChangeSkipped, serverVars
      <4>3. CASE ~(versionOf[d] <= cursor[p])
        <5>1. page[p].version[d] = versionOf[d]
          BY <2>1, <2>2, <4>1, <4>3 DEF PageSound
        <5>2. versionOf[d] # 0
          BY <4>1, <4>3 DEF TypeOK
        <5> QED BY <2>1, <2>2, <4>1, <5>1, <5>2 DEF PageSound, serverVars
      <4> QED BY <4>2, <4>3
    <3> QED BY <3>1, <3>2 DEF NoChangeSkipped
  <2> QED BY <2>3, <2>4, <2>5, <2>6
<1>5. CASE LosePage(p)
  <2>1. /\ UNCHANGED <<serverVars, newBuild, kindsPulled, cursor, known>>
        /\ page'[p] = NoPage
        /\ \A q \in Phones \ {p} : page'[q] = page[q]
    BY <1>5 DEF LosePage, TypeOK
  <2>2. OneWriter' /\ DecidedOnCurrent' /\ NotAhead' /\ PendingAbove'
    <3>1. \A q \in Phones : cursor'[q] <= cursor[q] /\ page'[q].upTo <= page[q].upTo
      <4> TAKE q \in Phones
      <4>1. cursor[q] <= cursor[q] /\ page[q].upTo <= page[q].upTo /\ page[q].upTo >= 0
        BY PhoneNumbers
      <4> QED BY <2>1, <4>1 DEF NoPage
    <3> QED BY <2>1, <3>1, WritersUntouched
  <2>3. PhonesHoldPublished' /\ NoChangeSkipped'
    BY <2>1 DEF PhonesHoldPublished, NoChangeSkipped, Covered, serverVars
  <2>4. PagesSound'
    BY <2>1 DEF PagesSound, PageSound, Covered, serverVars
  <2> QED BY <2>2, <2>3, <2>4
<1>6. CASE InstallNewBuild(p)
  <2>1. /\ UNCHANGED <<serverVars, kindsPulled, cursor, known>>
        /\ page'[p] = NoPage /\ newBuild'[p] = TRUE
        /\ \A q \in Phones \ {p} : page'[q] = page[q] /\ newBuild'[q] = newBuild[q]
    BY <1>6 DEF InstallNewBuild, TypeOK
  <2>2. OneWriter' /\ DecidedOnCurrent' /\ NotAhead' /\ PendingAbove'
    <3>1. \A q \in Phones : cursor'[q] <= cursor[q] /\ page'[q].upTo <= page[q].upTo
      <4> TAKE q \in Phones
      <4>1. cursor[q] <= cursor[q] /\ page[q].upTo <= page[q].upTo /\ page[q].upTo >= 0
        BY PhoneNumbers
      <4> QED BY <2>1, <4>1 DEF NoPage
    <3> QED BY <2>1, <3>1, WritersUntouched
  <2>3. PhonesHoldPublished' /\ NoChangeSkipped'
    BY <2>1 DEF PhonesHoldPublished, NoChangeSkipped, Covered, serverVars
  <2>4. PagesSound'
    BY <2>1 DEF PagesSound, PageSound, Covered, serverVars
  <2> QED BY <2>2, <2>3, <2>4
<1> QED BY <1>1, <1>2, <1>3, <1>4, <1>5, <1>6 DEF PhoneStep

\* Every step keeps the invariant.
LEMMA FeedInvInductive == FeedInv /\ [Next]_vars => FeedInv'
<1> SUFFICES ASSUME FeedInv, [Next]_vars PROVE FeedInv'
  OBVIOUS
<1>1. TypeOK'
  BY TypeInductive DEF FeedInv
<1>2. CASE UNCHANGED vars
  <2>1. OneWriter' /\ DecidedOnCurrent' /\ NotAhead' /\ PendingAbove'
    BY <1>2 DEF vars, serverVars, phoneVars, FeedInv, OneWriter,
       DecidedOnCurrent, NotAhead, PendingAbove
  <2>2. PhonesHoldPublished' /\ PagesSound' /\ NoChangeSkipped'
    BY <1>2, PhonesUntouched DEF vars, serverVars
  <2> QED BY <1>1, <2>1, <2>2 DEF FeedInv
<1> QED
  BY <1>1, <1>2, TxStepKeepsInv, PhoneStepKeepsInv DEF Next

\* FeedInv holds in every reachable state.
THEOREM InvHolds == Spec => []FeedInv
BY InitInv, FeedInvInductive, PTL DEF Spec

\* No pull ever skips a change: a phone holds the current copy of everything
\* its cursor is past (service.go, pgrepo.go, pull.ts together).
THEOREM NothingSkipped == Spec => []NoChangeSkipped
<1>1. FeedInv => NoChangeSkipped
  BY DEF FeedInv
<1> QED BY <1>1, InvHolds, PTL

\* What a transaction read is still current when it commits, so a base-version
\* check that passed cannot be wrong by then (service.go, apply).
THEOREM DecisionsCurrent == Spec => []DecidedOnCurrent
<1>1. FeedInv => DecidedOnCurrent
  BY DEF FeedInv
<1> QED BY <1>1, InvHolds, PTL

\* One step shows versions in order.
LEMMA StepInOrder ==
    ASSUME FeedInv, [Next]_vars
    PROVE  \A d \in Docs : versionOf'[d] # versionOf[d] =>
              \A e \in Docs : versionOf[e] < versionOf'[d]
<1>1. ASSUME NEW t \in Txns, Commit(t)
      PROVE  \A d \in Docs : versionOf'[d] # versionOf[d] =>
                \A e \in Docs : versionOf[e] < versionOf'[d]
  BY <1>1 DEF Commit, FeedInv, PendingAbove
<1>2. ASSUME NEW t \in Txns, TxStep(t), ~Commit(t) PROVE UNCHANGED versionOf
  BY <1>2 DEF TxStep, Begin, LockWrites, Get, Put, Rollback
<1>3. ASSUME NEW p \in Phones, PhoneStep(p) PROVE UNCHANGED versionOf
  BY <1>3 DEF PhoneStep, RestartPullForNewKinds, PullPage, ApplyServerDocs,
     SaveCursor, LosePage, InstallNewBuild, serverVars
<1>4. UNCHANGED vars => UNCHANGED versionOf
  BY DEF vars, serverVars
<1> QED BY <1>1, <1>2, <1>3, <1>4 DEF Next

\* Versions become visible in the order of their numbers, although they are
\* handed out inside transactions of any length (00002_sync.sql).
THEOREM InOrder == Spec => VisibleInOrder
<1>1. FeedInv /\ [Next]_vars =>
        [\A d \in Docs : versionOf'[d] # versionOf[d] =>
            \A e \in Docs : versionOf[e] < versionOf'[d]]_vars
  BY StepInOrder
<1> QED BY <1>1, InvHolds, PTL DEF Spec, VisibleInOrder

-----------------------------------------------------------------------------
(***************************************************************************)
(* Refinement                                                              *)
(***************************************************************************)

Wanted == [p \in Phones |-> Covered(p)]

\* The initial states are those of the abstract feed.
LEMMA RefinesInit == Init => Feed!Init
BY DEF Init, Feed!Init, Nothing, Covered

\* A write transaction publishes when it commits, and is invisible before.
LEMMA TxRefines ==
    ASSUME FeedInv, FeedInv', NEW t \in Txns, TxStep(t)
    PROVE  Feed!Publish
<1>1. \A d \in Docs : versionOf'[d] # versionOf[d] =>
         /\ \A e \in Docs : versionOf[e] < versionOf'[d]
         /\ \A p \in Phones : cursor[p] < versionOf'[d]
  <2>1. CASE Commit(t)
    BY <2>1 DEF Commit, FeedInv, PendingAbove
  <2>2. CASE ~Commit(t)
    BY <2>2 DEF TxStep, Begin, LockWrites, Get, Put, Rollback
  <2> QED BY <2>1, <2>2
<1>2. UNCHANGED phoneVars
  BY DEF TxStep, Begin, LockWrites, Get, Put, Commit, Rollback, EndTx
<1>3. versionOf' \in [Docs -> Nat]
  BY DEF FeedInv, TypeOK
<1>4. UNCHANGED <<cursor, known, Wanted>>
  BY <1>2 DEF phoneVars, Wanted, Covered
<1> QED BY <1>1, <1>3, <1>4 DEF Feed!Publish, Wanted

\* A phone's step delivers, advances, widens, or cannot be seen.
LEMMA PhoneRefines ==
    ASSUME FeedInv, FeedInv', NEW p \in Phones, PhoneStep(p)
    PROVE  \/ Feed!Deliver(p) \/ Feed!Advance(p) \/ Feed!Widen(p)
           \/ UNCHANGED Feed!feedVars
<1>1. CASE RestartPullForNewKinds(p)
  <2>1. Wanted' \in [Phones -> SUBSET Docs]
    BY DEF Wanted, Covered
  <2>2. \A q \in Phones \ {p} : Wanted'[q] = Wanted[q]
    BY <1>1 DEF RestartPullForNewKinds, Wanted, Covered, FeedInv, TypeOK
  <2>3. Wanted[p] \subseteq Wanted'[p]
    BY <1>1 DEF RestartPullForNewKinds, Wanted, Covered, FeedInv, TypeOK
  <2>4. Feed!Widen(p)
    BY <1>1, <2>1, <2>2, <2>3
    DEF RestartPullForNewKinds, Feed!Widen, Wanted, serverVars
  <2> QED BY <2>4
<1>2. CASE PullPage(p) \/ LosePage(p) \/ InstallNewBuild(p)
  <2>1. UNCHANGED <<versionOf, cursor, known, kindsPulled>>
    BY <1>2 DEF PullPage, LosePage, InstallNewBuild, serverVars
  <2> QED BY <2>1 DEF Feed!feedVars, Covered
<1>3. CASE ApplyServerDocs(p)
  <2>1. /\ UNCHANGED <<versionOf, cursor, kindsPulled>>
        /\ page[p].state = "received" /\ page[p] # NoPage
        /\ \A d \in Docs : known'[p][d] =
              IF page[p].version[d] # 0 THEN page[p].version[d] ELSE known[p][d]
        /\ \A q \in Phones \ {p} : known'[q] = known[q]
    BY <1>3 DEF ApplyServerDocs, serverVars, FeedInv, TypeOK, NoPage
  <2>2. PageSound(p)
    BY DEF FeedInv, PagesSound
  <2>3. known' \in [Phones -> [Docs -> Nat]]
    BY DEF FeedInv, TypeOK
  <2>4. \A d \in Docs : known'[p][d] # known[p][d] =>
           /\ d \in Covered(p)
           /\ known[p][d] < known'[p][d]
           /\ known'[p][d] <= versionOf[d]
    <3> SUFFICES ASSUME NEW d \in Docs, known'[p][d] # known[p][d]
                 PROVE  /\ d \in Covered(p)
                        /\ known[p][d] < known'[p][d]
                        /\ known'[p][d] <= versionOf[d]
      OBVIOUS
    <3>1. page[p].version[d] # 0 /\ known'[p][d] = page[p].version[d]
      BY <2>1
    <3>2. /\ d \in Covered(p)
          /\ known[p][d] <= page[p].version[d]
          /\ page[p].version[d] <= versionOf[d]
      BY <2>1, <2>2, <3>1 DEF PageSound
    <3>3. known[p][d] \in Nat /\ known'[p][d] \in Nat
      BY <2>3 DEF FeedInv, TypeOK
    <3> QED BY <3>1, <3>2, <3>3
  <2>5. UNCHANGED Wanted
    BY <2>1 DEF Wanted, Covered
  <2>6. Feed!Deliver(p)
    BY <2>1, <2>3, <2>4, <2>5 DEF Feed!Deliver, Wanted
  <2> QED BY <2>6
<1>4. CASE SaveCursor(p)
  <2>1. /\ UNCHANGED <<versionOf, known, kindsPulled>>
        /\ page[p] # NoPage /\ page[p].state = "applied"
        /\ cursor'[p] = IF cursor[p] >= page[p].upTo THEN cursor[p]
                                                    ELSE page[p].upTo
        /\ \A q \in Phones \ {p} : cursor'[q] = cursor[q]
    BY <1>4 DEF SaveCursor, serverVars, FeedInv, TypeOK, NoPage
  <2>2. PageSound(p) /\ cursor[p] \in Nat /\ page[p].upTo \in Nat
    BY PhoneNumbers DEF FeedInv, PagesSound
  <2>3. cursor'[p] = page[p].upTo /\ cursor[p] < page[p].upTo
    BY <2>1, <2>2 DEF PageSound
  <2>4. \E d \in Docs : cursor'[p] <= versionOf[d]
    BY <2>1, <2>2, <2>3 DEF PageSound
  <2>5. cursor' \in [Phones -> Nat]
    BY DEF FeedInv, TypeOK
  <2>6. \A d \in Covered(p) :
           versionOf[d] <= cursor'[p] => known[p][d] = versionOf[d]
    BY <2>1 DEF FeedInv, NoChangeSkipped, Covered
  <2>7. UNCHANGED Wanted
    BY <2>1 DEF Wanted, Covered
  <2>8. Feed!Advance(p)
    BY <2>1, <2>3, <2>4, <2>5, <2>6, <2>7 DEF Feed!Advance, Wanted
  <2> QED BY <2>8
<1> QED BY <1>1, <1>2, <1>3, <1>4 DEF PhoneStep

\* The server and the pull loop implement the ordered feed: what a phone is
\* promised holds whatever the page size and the number of writers.
THEOREM FeedImplemented == Spec => ImplementsOrderedFeed
<1>1. FeedInv /\ FeedInv' /\ [Next]_vars => [Feed!Next]_Feed!feedVars
  <2> SUFFICES ASSUME FeedInv, FeedInv', [Next]_vars
               PROVE  Feed!Next \/ UNCHANGED Feed!feedVars
    OBVIOUS
  <2>1. CASE UNCHANGED vars
    BY <2>1 DEF vars, serverVars, phoneVars, Feed!feedVars, Covered
  <2>2. CASE \E t \in Txns : TxStep(t)
    BY <2>2, TxRefines DEF Feed!Next
  <2>3. CASE \E p \in Phones : PhoneStep(p)
    BY <2>3, PhoneRefines DEF Feed!Next
  <2> QED BY <2>1, <2>2, <2>3 DEF Next
<1> QED
  BY <1>1, RefinesInit, InvHolds, PTL DEF Spec, ImplementsOrderedFeed, Feed!Spec

=============================================================================
