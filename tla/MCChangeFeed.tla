---------------------------- MODULE MCChangeFeed ----------------------------
(***************************************************************************)
(* ChangeFeed for TLC: two writers race over two documents of the first    *)
(* kinds and one of a kind added later, one phone follows page by page.    *)
(* Phones share nothing but the table they read, so one is enough.         *)
(***************************************************************************)
EXTENDS ChangeFeed

CONSTANTS m1, m2, g1, t1, t2, p1

MCDocs      == {m1, m2, g1}
MCOptInDocs == {g1}
MCTxns      == {t1, t2}
MCPhones    == {p1}

=============================================================================
