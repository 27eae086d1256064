---------------------------- MODULE OrderedFeed ----------------------------
(***************************************************************************)
(* What the change feed promises a phone, without saying how: every change *)
(* gets a number, a phone keeps one number (its cursor), and whatever      *)
(* changed at or below the cursor is on the phone in its current form.     *)
(* ChangeFeed is the server and the pull loop that keep this promise.      *)
(*                                                                         *)
(* The actions relate a state to its successor without enumerating the     *)
(* successors: this module is a PROPERTY of ChangeFeed, never run alone.   *)
(***************************************************************************)
EXTENDS Naturals

CONSTANTS
    Docs,       \* the documents of the leagues the phones belong to
    Phones

VARIABLES
    latest,     \* latest[d]: number of d's last published change, 0 if none
    cursor,     \* cursor[p]: the number phone p asks for changes after
    held,       \* held[p][d]: number of the copy of d that p holds, 0 if none
    wanted      \* wanted[p]: documents of the kinds p's pulls cover

feedVars == <<latest, cursor, held, wanted>>

-----------------------------------------------------------------------------

Init ==
    /\ latest = [d \in Docs |-> 0]
    /\ cursor = [p \in Phones |-> 0]
    /\ held = [p \in Phones |-> [d \in Docs |-> 0]]
    /\ wanted \in [Phones -> SUBSET Docs]

\* Some documents change together. Every new number is above all the numbers
\* published before and above every cursor, so no phone is already past it.
Publish ==
    /\ latest' \in [Docs -> Nat]
    /\ \A d \in Docs : latest'[d] # latest[d] =>
          /\ \A e \in Docs : latest[e] < latest'[d]
          /\ \A p \in Phones : cursor[p] < latest'[d]
    /\ UNCHANGED <<cursor, held, wanted>>

\* A phone receives newer copies of documents, each one that was published.
Deliver(p) ==
    /\ held' \in [Phones -> [Docs -> Nat]]
    /\ \A q \in Phones \ {p} : held'[q] = held[q]
    /\ \A d \in Docs : held'[p][d] # held[p][d] =>
          /\ d \in wanted[p]
          /\ held[p][d] < held'[p][d]
          /\ held'[p][d] <= latest[d]
    /\ UNCHANGED <<latest, cursor, wanted>>

\* A phone moves its cursor up to a number below which it misses nothing.
Advance(p) ==
    /\ cursor' \in [Phones -> Nat]
    /\ \A q \in Phones \ {p} : cursor'[q] = cursor[q]
    /\ cursor[p] < cursor'[p]
    /\ \E d \in Docs : cursor'[p] <= latest[d]
    /\ \A d \in wanted[p] :
          latest[d] <= cursor'[p] => held[p][d] = latest[d]
    /\ UNCHANGED <<latest, held, wanted>>

\* A phone that learns to read more kinds of document starts again from 0.
Widen(p) ==
    /\ wanted' \in [Phones -> SUBSET Docs]
    /\ \A q \in Phones \ {p} : wanted'[q] = wanted[q]
    /\ wanted[p] \subseteq wanted'[p]
    /\ cursor' = [cursor EXCEPT ![p] = 0]
    /\ UNCHANGED <<latest, held>>

Next ==
    \/ Publish
    \/ \E p \in Phones : Deliver(p) \/ Advance(p) \/ Widen(p)

Spec == Init /\ [][Next]_feedVars

=============================================================================
