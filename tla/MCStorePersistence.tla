------------------------- MODULE MCStorePersistence -------------------------
(***************************************************************************)
(* Small instances of StorePersistence: two matches and the other keys.    *)
(***************************************************************************)
EXTENDS StorePersistence

CONSTANTS m1, m2

\* A match has one of two values, the rest its first value again and again:
\* undone by one update, or only by the next but one.
TwoDocValues(d, n) == IF n = 0 THEN 0 ELSE IF d = m1 THEN 1 + (n % 2) ELSE 1 + ((n \div 2) % 2)
TwoRestValues(n)   == n % 2

=============================================================================
