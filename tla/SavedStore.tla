----------------------------- MODULE SavedStore -----------------------------
(***************************************************************************)
(* What the phone's local store promises: the app shows a store, hands it  *)
(* over to be saved after every change, and a start of the app finds one   *)
(* whole store that was handed over, never a mixture of two, never an      *)
(* older one than an earlier start would have found. When the saved store  *)
(* cannot be read the app runs on a blank one and saves nothing.           *)
(* StorePersistence is the code that keeps this promise.                   *)
(*                                                                         *)
(* Stores are numbered in the order in which the app showed them (at).     *)
(***************************************************************************)
EXTENDS Naturals

CONSTANT Ids        \* matches, each saved under a key of its own

VARIABLES
    session,        \* "off", "running", or "safe": running, saving nothing
    shown,          \* the store the app shows
    pending,        \* the stores handed over and not yet saved
    saved           \* the store the next start will find

storeVars == <<session, shown, pending, saved>>

\* docs and rest are what the matches and the rest hold: 0 for a match that is
\* not in the store, and for the rest before anything changed it.
Stores == [at : Nat, docs : [Ids -> Nat], rest : Nat]
Blank  == [at |-> 0, docs |-> [d \in Ids |-> 0], rest |-> 0]

-----------------------------------------------------------------------------

Init ==
    /\ session = "off"
    /\ shown = Blank
    /\ pending = {}
    /\ saved = Blank

Start ==
    /\ session = "off"
    /\ \/ session' = "running" /\ shown' = saved
       \/ session' = "safe" /\ shown' = Blank
    /\ UNCHANGED <<pending, saved>>

\* The app shows a new store, and hands it over unless it saves nothing.
Change ==
    /\ session # "off"
    /\ shown' \in Stores
    /\ shown.at < shown'.at
    /\ \/ UNCHANGED pending
       \/ session = "running" /\ pending' = pending \cup {shown'}
    /\ UNCHANGED <<session, saved>>

\* A store handed over later than the saved one takes its place.
Save(s) ==
    /\ s \in pending
    /\ saved.at < s.at
    /\ saved' = s
    /\ pending' = pending \ {s}
    /\ UNCHANGED <<session, shown>>

\* Storage refuses a store: the saved one stays as it is.
Fail(s) ==
    /\ s \in pending
    /\ pending' = pending \ {s}
    /\ UNCHANGED <<session, shown, saved>>

\* The app is killed: what was not saved is gone.
Stop ==
    /\ session' = "off"
    /\ pending' = {}
    /\ shown' = Blank
    /\ UNCHANGED saved

Next ==
    \/ Start \/ Change \/ Stop
    \/ \E s \in pending : Save(s) \/ Fail(s)

Spec == Init /\ [][Next]_storeVars

=============================================================================
