--------------------------- MODULE MCOfflineSync ---------------------------
(***************************************************************************)
(* Small instances of OfflineSync. m1 is the match both phones start with; *)
(* m2 is created during the run.                                           *)
(***************************************************************************)
EXTENDS OfflineSync

CONSTANTS p1, p2, m1, m2

\* Who scores, changes settings, deletes, or may write which match. In the
\* normal use one phone does all of it ("One phone scores a match at a time",
\* README.md) and the other one watches.
OnlyP1 == [d \in Docs |-> {p1}]
Nobody == [d \in Docs |-> {}]
P1AtM1 == [d \in Docs |-> IF d = m1 THEN {p1} ELSE {}]
P2AtM1 == [d \in Docs |-> IF d = m1 THEN {p2} ELSE {}]

\* Both phones score m1, before and after a take-over. p2 scores m2 as well,
\* in a league it has been removed from: the server refuses those writes.
BothAtM1   == [d \in Docs |-> IF d = m1 THEN {p1, p2} ELSE {p2}]
BothEditM1 == [d \in Docs |-> IF d = m1 THEN {p1, p2} ELSE {}]

OnePass   == [p \in {p1, p2} |-> {1}]
TwoAtP1   == [p \in {p1, p2} |-> IF p = p1 THEN {1, 2} ELSE {1}]

\* KB of a write in a request. A document may have 512 KB (maxDocBytes), plus
\* the rest of the operation; two of them are above the 1024 KB of a request.
Small == [d \in Docs |-> 1]
Large == [d \in Docs |-> 513]

============================================================================
