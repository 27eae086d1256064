------------------------- MODULE ResultConfirmation -------------------------
(***************************************************************************)
(* A finished match counts for the public rating once the opponent has     *)
(* confirmed its result. The confirmation is a field of the match, so it   *)
(* travels with the document: the opponent's phone sends that field alone, *)
(* the scorer's phone sends whole matches or settings laid over its copy,  *)
(* the server clears the field when the result changed.                    *)
(*                                                                         *)
(* One finished match, its scorer and its opponent. A result is the number *)
(* of the save that made it, "upd" is updatedAt. A phone has one write     *)
(* queued at a time, and a write and its answer are one step: what happens *)
(* between them is in OfflineSync.                                         *)
(***************************************************************************)
EXTENDS Naturals

CONSTANTS
    MaxSaves        \* bound: saves of the scorer, the result itself included

ASSUME ConfirmationAssumption == MaxSaves \in Nat \ {0}

VARIABLES
    saves,          \* saves so far
    stored,         \* the server's row
    storedVersion,
    copy,           \* copy[p]: p's row
    seen,           \* seen[p]: the version p's writes are based on
    write,          \* write[p]: p's queued write
    agreed,         \* results the opponent tapped "confirm" on (history)
    relaid,         \* a confirmation was laid over a newer row (history)
    putBack         \* the scorer stored a confirmation the server had cleared,
                    \* from a copy that still had it (history)

confirmVars == <<saves, stored, storedVersion, copy, seen, write, agreed,
                 relaid, putBack>>

People == {"scorer", "opponent"}
Saves  == 0..MaxSaves
MatchRows == [result : Saves, confirmed : BOOLEAN, upd : Saves]
Kinds == {"none", "result", "settings", "confirm"}
MatchWrites == [kind : Kinds, row : MatchRows]
FinishedRow == [result |-> 1, confirmed |-> FALSE, upd |-> 1]
NoWrite     == [kind |-> "none", row |-> FinishedRow]

ConfirmationTypeOK ==
    /\ saves \in Saves
    /\ stored \in MatchRows
    /\ storedVersion \in Nat
    /\ copy \in [People -> MatchRows]
    /\ seen \in [People -> Nat]
    /\ write \in [People -> MatchWrites]
    /\ agreed \subseteq Saves
    /\ relaid \in BOOLEAN
    /\ putBack \in BOOLEAN

ConfirmationInit ==
    /\ saves = 1
    /\ stored = FinishedRow
    /\ storedVersion = 1
    /\ copy = [p \in People |-> FinishedRow]
    /\ seen = [p \in People |-> 1]
    /\ write = [p \in People |-> NoWrite]
    /\ agreed = {}
    /\ relaid = FALSE
    /\ putBack = FALSE

-----------------------------------------------------------------------------
\* Faulty forms of definitions below, each a slip somebody could make.

\* The confirmations are the phone's business.
ClearedOnChange_Never(row) == row

-----------------------------------------------------------------------------
(***************************************************************************)
(* Saves on a phone                                                        *)
(***************************************************************************)

SaveOn(p, kind, row) ==
    /\ write[p] = NoWrite
    /\ copy' = [copy EXCEPT ![p] = row]
    /\ write' = [write EXCEPT ![p] = [kind |-> kind, row |-> row]]
    /\ UNCHANGED <<stored, storedVersion, seen, relaid, putBack>>

\* A frame is corrected: the whole match is sent.
EditResult ==
    /\ saves < MaxSaves
    /\ saves' = saves + 1
    /\ SaveOn("scorer", "result", [result |-> saves', upd |-> saves',
                                   confirmed |-> copy["scorer"].confirmed])
    /\ UNCHANGED agreed

\* Settings of the match (who may score): only those fields are sent.
ChangeSettings ==
    /\ saves < MaxSaves
    /\ saves' = saves + 1
    /\ SaveOn("scorer", "settings", [copy["scorer"] EXCEPT !.upd = saves'])
    /\ UNCHANGED agreed

\* confirmResult leaves updatedAt as it is.
ConfirmResult ==
    /\ ~ copy["opponent"].confirmed
    /\ SaveOn("opponent", "confirm", [copy["opponent"] EXCEPT !.confirmed = TRUE])
    /\ agreed' = agreed \union {copy["opponent"].result}
    /\ UNCHANGED saves

-----------------------------------------------------------------------------
(***************************************************************************)
(* A write reaches the server                                              *)
(***************************************************************************)

\* documentFor: a whole match as it was saved, single fields over the copy the
\* phone has now.
DocumentFor(p) ==
    CASE write[p].kind = "confirm"  -> [copy[p] EXCEPT !.confirmed = TRUE]
      [] write[p].kind = "settings" -> [copy[p] EXCEPT !.upd = write[p].row.upd]
      [] OTHER                      -> write[p].row

\* clearConfirmationsOnChange.
ClearedOnChange(row) ==
    IF row.result # stored.result THEN [row EXCEPT !.confirmed = FALSE] ELSE row

\* confirmingOwnResult: nothing but the confirmation is new.
OnlyConfirms(row) ==
    ~ stored.confirmed /\ row = [stored EXCEPT !.confirmed = TRUE, !.upd = row.upd]

\* A write based on the server's version. Who confirms may do nothing else; a
\* refused write is dropped and stays on the phone.
PushApplied(p) ==
    LET row == DocumentFor(p)
    IN  /\ write[p] # NoWrite
        /\ seen[p] = storedVersion
        /\ IF p = "scorer" \/ OnlyConfirms(row)
           THEN /\ stored' = ClearedOnChange(row)
                /\ storedVersion' = storedVersion + 1
                /\ putBack' = (putBack \/ (p = "scorer" /\ stored'.confirmed
                                                      /\ ~ stored.confirmed))
           ELSE UNCHANGED <<stored, storedVersion, putBack>>
        /\ seen' = [seen EXCEPT ![p] = storedVersion']
        /\ write' = [write EXCEPT ![p] = NoWrite]
        /\ UNCHANGED <<saves, copy, agreed, relaid>>

\* rebase: single fields are laid over the server's row; a whole match keeps
\* its place, being the newer one (the scorer alone saves it).
Relaid(w, own) ==
    CASE w.kind = "confirm"  -> [stored EXCEPT !.confirmed = TRUE]
      [] w.kind = "settings" -> [stored EXCEPT !.upd = w.row.upd]
      [] OTHER               -> own

PushConflict(p) ==
    /\ write[p] # NoWrite
    /\ seen[p] # storedVersion
    /\ copy' = [copy EXCEPT ![p] = Relaid(write[p], write[p].row)]
    /\ seen' = [seen EXCEPT ![p] = storedVersion]
    /\ relaid' = (relaid \/ (write[p].kind = "confirm"
                               /\ copy[p].result # stored.result))
    /\ UNCHANGED <<saves, stored, storedVersion, write, agreed, putBack>>

-----------------------------------------------------------------------------
\* A pull keeps the copy while a write of it is queued, and unless the server's
\* is newer by updatedAt. The version is taken over in any case.
PullRow(p) ==
    /\ seen[p] # storedVersion
    /\ seen' = [seen EXCEPT ![p] = storedVersion]
    /\ copy' = [copy EXCEPT ![p] =
            IF write[p] = NoWrite /\ stored.upd > @.upd THEN stored ELSE @]
    /\ UNCHANGED <<saves, stored, storedVersion, write, agreed, relaid, putBack>>

\* The app on another phone, or installed again: it holds what the server has.
Reinstall(p) ==
    /\ write[p] = NoWrite
    /\ copy[p] # stored
    /\ copy' = [copy EXCEPT ![p] = stored]
    /\ seen' = [seen EXCEPT ![p] = storedVersion]
    /\ UNCHANGED <<saves, stored, storedVersion, write, agreed, relaid, putBack>>

ConfirmationNext ==
    \/ EditResult \/ ChangeSettings \/ ConfirmResult
    \/ \E p \in People :
        PushApplied(p) \/ PushConflict(p) \/ PullRow(p) \/ Reinstall(p)

ConfirmationSpec == ConfirmationInit /\ [][ConfirmationNext]_confirmVars

-----------------------------------------------------------------------------
(***************************************************************************)
(* Properties                                                              *)
(***************************************************************************)

\* "Changing the result later clears all confirmations (the server does this,
\* so an edited result has to be confirmed again)", match-confirm.service.ts:10:
\* a stored confirmation is one the opponent gave to the stored result.
EditedResultConfirmedAgain == stored.confirmed => stored.result \in agreed

\* The same with its two exceptions: a queued confirmation whose write met a
\* newer result (push.ts rebase), and a settings write from a copy of the
\* scorer that still had the confirmation the server cleared (confirm.go:63).
ConfirmedAsAgreed == EditedResultConfirmedAgain \/ relaid \/ putBack

=============================================================================
