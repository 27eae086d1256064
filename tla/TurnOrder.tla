------------------------------ MODULE TurnOrder ------------------------------
(***************************************************************************)
(* The playing order of games with more than two players: a cycle in which *)
(* players who are out are skipped and keep their seat.                    *)
(***************************************************************************)
EXTENDS Naturals, Sequences, FiniteSets, SequencesExt, FiniteSetsExt

Seat(order, p) == CHOOSE i \in DOMAIN order : order[i] = p

\* Seats between p and q, going round; the whole round from p back to p.
Distance(order, p, q) ==
    LET d == (Seat(order, q) + Len(order) - Seat(order, p)) % Len(order)
    IN  IF d = 0 THEN Len(order) ELSE d

\* The next of the active players after p, in a set: p alone when nobody else
\* is active, nobody when nobody is.
NextInTurn(order, active, p) ==
    {q \in active : \A r \in active :
         Distance(order, p, q) <= Distance(order, p, r)}

Passed(left, q, p) == IF q = p THEN left ELSE Append(left, q)

\* left[n] is what is left of the first n.
Without(order, p) == LET
    left[n \in 0..Len(order)] ==
        IF n = 0 THEN <<>> ELSE Passed(left[n - 1], order[n], p)
    IN left[Len(order)]

MovePlayerAfter(order, previous, p) ==
    IF previous = p THEN order
    ELSE InsertAt(Without(order, p), Seat(Without(order, p), previous) + 1, p)

=============================================================================
