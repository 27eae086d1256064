---------------------------- MODULE OfflineSync ----------------------------
(***************************************************************************)
(* Offline-first editing: phones change their own copy of a document,      *)
(* queue the change, push the queue to the server in batches and pull what *)
(* other phones changed.                                                   *)
(*                                                                         *)
(* A save changes the phone's row first and is queued a moment later       *)
(* (scheduleSync). A flush pass sends the front of the queue in one        *)
(* request. The server handles the operations of a request one by one,     *)
(* each in a transaction of its own: it remembers the ones it applied and  *)
(* refuses one that is not based on its current version. The phone then    *)
(* handles the answers one store update at a time, so saves, pulls and a   *)
(* kill of the app fall in between. A request may time out on the phone    *)
(* and still be carried out by the server, then or later.                  *)
(*                                                                         *)
(* What a match contains is two stamps: of the last save of its shots and  *)
(* of the last save of its settings. Saves are numbered by one clock for   *)
(* all phones (nowIso(): the phones' clocks are assumed to agree) and the  *)
(* number of a save is also the id of its queued operation.                *)
(*                                                                         *)
(* Left out: leagues and their members (every phone here is a member of    *)
(* the league), writes that do not go through /v1/sync/push, the live      *)
(* socket, uploadLocalOnlyLeagues, and paging (see ChangeFeed): a page     *)
(* holds everything above the cursor. flushAgain only starts a pass that   *)
(* StartPass may start anyway.                                             *)
(***************************************************************************)
EXTENDS Naturals, Sequences, Functions

CONSTANTS
    Phones,
    Docs,           \* ids of matches
    Shared,         \* the match that exists, and every phone holds, at first
    Scorers,        \* Scorers[d]: phones whose app lets the user save shots
    Settlers,       \* Settlers[d]: phones that change settings, or take over
    Deleters,       \* Deleters[d]: phones that may delete (creator, owner)
    Editors,        \* Editors[d]: phones whose writes the server allows
    Size,           \* Size[d]: bytes of a write of d in a request
    MaxBody,        \* bytes the server reads of a request (maxBodyBytes)
    MaxBatch,       \* writes per request (MAX_BATCH)
    MaxAttempts,    \* MAX_ATTEMPTS
    Passes,         \* Passes[p]: flush passes p may have running at once
    MaxClock,       \* bound: saves, the initial one included
    MaxFaults       \* bound: timeouts and kills

ASSUME OfflineSyncAssumption ==
    /\ Docs # {}
    /\ Shared \subseteq Docs
    /\ \A d, e \in Shared : d = e        \* at most one: versions are unique
    /\ Scorers \in [Docs -> SUBSET Phones]
    /\ Settlers \in [Docs -> SUBSET Phones]
    /\ Deleters \in [Docs -> SUBSET Phones]
    /\ Editors \in [Docs -> SUBSET Phones]
    /\ Size \in [Docs -> Nat]
    /\ MaxBody \in Nat
    /\ MaxBatch \in Nat \ {0}
    /\ MaxAttempts \in Nat \ {0}
    /\ MaxClock \in Nat \ {0}
    /\ MaxFaults \in Nat

VARIABLES
    clock,          \* number of the last save of any phone
    faults,         \* timeouts and kills so far
    born,           \* match ids handed out (createId)
    server,         \* server[d]: the docs row of d
    seq,            \* change_version_seq
    applied,        \* applied[i]: version operation i got, 0 if not applied
    late,           \* rests of requests whose phone no longer waits
    local,          \* local[p][d]: p's copy of d
    unqueued,       \* unqueued[p]: the operation of a save in scheduleSync
    queue,          \* pendingOps of each phone
    known,          \* serverVersions of each phone, 0 for undefined
    cursor,         \* syncCursor of each phone
    page,           \* page[p]: the answer p's pull is working on
    flushing,       \* the flag of flushPending on each phone
    pass,           \* pass[p][k]: the k-th flush pass of p
    dropped         \* operations a phone gave up, with the reason (history)

serverVars == <<server, seq, applied, late>>
pushVars   == <<queue, flushing, pass, dropped>>
vars == <<clock, faults, born, serverVars, local, unqueued, known, cursor,
          page, pushVars>>

-----------------------------------------------------------------------------
(***************************************************************************)
(* Rows, operations, requests                                              *)
(***************************************************************************)

\* shots, set: the saves whose shots and settings the row holds;
\* upd: updatedAt. Every save sets updatedAt, so 0 stands for "no row".
NoRow    == [shots |-> 0, set |-> 0, upd |-> 0]
FirstRow == [shots |-> 1, set |-> 1, upd |-> 1]

NoOp == [id |-> 0, doc |-> CHOOSE d \in Docs : TRUE, kind |-> "full",
         row |-> NoRow, attempts |-> 0]

NoDoc   == [version |-> 0, deleted |-> FALSE, row |-> NoRow]
NoPage  == [d \in Docs |-> NoDoc]
IdlePass ==
    [state |-> "idle", batch |-> <<>>, todo |-> <<>>, results |-> <<>>,
     outcomes |-> <<>>]

OnPhone(p, d)  == local[p][d] # NoRow
DocsOf(q)      == {q[i].doc : i \in DOMAIN q}
IdsOf(q)       == {q[i].id : i \in DOMAIN q}

\* Those of the operations ops that are in q, in q's order (filter). A
\* recursive function and not SelectSeq, so that it can be reasoned about.
Only(q, ops) ==
    LET Filtered[n \in 0..Len(q)] ==
            IF n = 0 THEN <<>>
            ELSE IF q[n] \in ops THEN Append(Filtered[n - 1], q[n])
            ELSE Filtered[n - 1]
    IN  Filtered[Len(q)]

-----------------------------------------------------------------------------
(***************************************************************************)
(* Faulty forms of definitions below, each a slip somebody could make.     *)
(* Every property is tried against one of them and must notice it.         *)
(***************************************************************************)

\* A document that is queued already needs no second place in the queue.
Enqueued_KeepsFirst(q, op) ==
    IF op.doc \in DocsOf(q) THEN q ELSE Append(q, op)

\* A new write replaces every queued one of its document and goes to the end.
Enqueued_AtEnd(q, op) ==
    Append(Only(q, {other \in Range(q) : other.doc # op.doc}), op)

\* An answered write takes every queued write of its document along.
Removed_ByDoc(q, ops) ==
    Only(q, {op \in Range(q) : \A other \in ops : op.doc # other.doc})

\* A row that the server holds as deleted is skipped like one it never had.
Merged_MissesTombstone(mine, doc, pending) ==
    CASE doc.deleted \/ pending -> mine
      [] OTHER                  -> doc.row

\* The flag is cleared after the last write only, not when a request fails.
Finally_FlagLeftSet(p, k) ==
    /\ pass' = [pass EXCEPT ![p][k] = IdlePass]
    /\ flushing' = [flushing EXCEPT ![p] = queue[p] # <<>>]

\* The deleted row is not looked at before the write is allowed.
Refusal_MissesTombstone(p, req) ==
    IF server[req.doc].version = 0 /\ req.delete THEN "not_found"
    ELSE IF p \in Editors[req.doc] /\ (req.delete => p \in Deleters[req.doc])
    THEN "none" ELSE "forbidden"

\* Only a base from the future is taken for a conflict.
Based_OrOlder(req) == req.base <= server[req.doc].version

\* The result of an operation is saved but not looked up when it comes again.
Apply_Again(req, answer) ==
    IF answer.status = "applied"
    THEN /\ server' = [server EXCEPT ![req.doc] = answer.doc]
         /\ seq' = seq + 1
         /\ applied' = [applied EXCEPT ![req.id] = seq + 1]
    ELSE UNCHANGED <<server, seq, applied>>

\* A refused operation ends the request: the rest gets no answer.
Answered_StopsAtRefusal(this, answer) ==
    [this EXCEPT !.todo = IF answer.status = "applied" THEN Tail(@) ELSE <<>>,
                 !.results = Append(@, answer)]

\* The server's row wins every conflict.
Rebase_ServerWins(op, cur) ==
    [status |-> "resolved", row |-> cur.row, keep |-> FALSE]

-----------------------------------------------------------------------------
(***************************************************************************)
(* The queue, merging, and what is sent                                    *)
(***************************************************************************)

\* syncPriority of match operations; the queue is sorted by it, then by time.
Before(op, next) == op.kind = "delete" \/ next.kind # "delete"

\* enqueue: a full write replaces a queued full write of its document, a
\* delete everything queued for it. The queue is sorted and the new operation
\* is its latest, so it goes behind those of its own priority.
Enqueued(q, op) ==
    LET kept == Only(q, {other \in Range(q) :
                          \/ other.doc # op.doc
                          \/ op.kind = "fields"
                          \/ op.kind = "full" /\ other.kind # "full"})
        first == {other \in Range(kept) : Before(other, op)}
    IN  Only(kept, first) \o <<op>> \o Only(kept, Range(kept) \ first)

\* removePending
Removed(q, ops) ==
    Only(q, {op \in Range(q) : \A other \in ops : op.id # other.id})

\* takeBatch: from the front, as long as every document is a different one.
BatchLength(q) ==
    CHOOSE n \in 0..Len(q) :
        /\ n <= MaxBatch
        /\ \A i, j \in 1..n : q[i].doc = q[j].doc => i = j
        /\ \/ n \in {Len(q), MaxBatch}
           \/ q[n + 1].doc \in {q[i].doc : i \in 1..n}

Batch(q) == SubSeq(q, 1, BatchLength(q))

BodySize(ops) ==
    SumFunction([i \in DOMAIN ops |->
                    IF ops[i].kind = "delete" THEN 0 ELSE Size[ops[i].doc]])

\* lastWriteWins and resolveMatch: the newer row, with the newer settings;
\* a row with a queued write keeps its own shots.
LastWriteWins(mine, theirs, pending) ==
    IF ~pending /\ theirs.upd > mine.upd THEN theirs ELSE mine

ResolveMatch(mine, theirs, pending) ==
    [LastWriteWins(mine, theirs, pending) EXCEPT
        !.set = IF theirs.set > mine.set THEN theirs.set ELSE mine.set]

\* A field-only write: its settings and its time over another row.
Patched(row, op) == [row EXCEPT !.set = op.row.set, !.upd = op.row.upd]

\* mergeById, and the removal of rows deleted on the server.
Merged(mine, doc, pending) ==
    CASE doc.deleted                      -> NoRow
      [] ~doc.deleted /\ mine # NoRow     -> ResolveMatch(mine, doc.row, pending)
      [] ~doc.deleted /\ mine = NoRow     -> IF pending THEN NoRow ELSE doc.row

\* toPushOp and documentFor: what phone p sends for a queued operation.
PushOp(p, op) ==
    [id |-> op.id, doc |-> op.doc, delete |-> op.kind = "delete",
     base |-> known[p][op.doc],
     row |-> IF op.kind = "fields" /\ OnPhone(p, op.doc)
             THEN Patched(local[p][op.doc], op)
             ELSE op.row]

-----------------------------------------------------------------------------
(***************************************************************************)
(* Saves on a phone                                                        *)
(***************************************************************************)

\* The row changes first; the operation is queued after the row is on disk.
\* serializeMatchWrite lets one save at a time get this far.
Save(p, d, kind, row) ==
    /\ unqueued[p] = NoOp
    /\ clock < MaxClock
    /\ clock' = clock + 1
    /\ local' = [local EXCEPT ![p][d] = row]
    /\ unqueued' = [unqueued EXCEPT ![p] =
                      [id |-> clock + 1, doc |-> d, kind |-> kind, row |-> row,
                       attempts |-> 0]]
    /\ UNCHANGED <<faults, serverVars, known, cursor, page, pushVars>>

\* Whoever creates a match is its first scorer.
CreateMatch(p, d) ==
    /\ p \in Scorers[d]
    /\ d \notin born
    /\ born' = born \cup {d}
    /\ Save(p, d, "full", [shots |-> clock + 1, set |-> clock + 1, upd |-> clock + 1])

WriteMatch(p, d) ==
    /\ p \in Scorers[d]
    /\ OnPhone(p, d)
    /\ Save(p, d, "full", [local[p][d] EXCEPT !.shots = clock + 1, !.upd = clock + 1])
    /\ UNCHANGED born

SaveSettings(p, d) ==
    /\ p \in Settlers[d]
    /\ OnPhone(p, d)
    /\ Save(p, d, "fields", [local[p][d] EXCEPT !.set = clock + 1, !.upd = clock + 1])
    /\ UNCHANGED born

DeleteMatch(p, d) ==
    /\ p \in Deleters[d]
    /\ OnPhone(p, d)
    /\ Save(p, d, "delete", NoRow)
    /\ UNCHANGED born

Enqueue(p) ==
    /\ unqueued[p] # NoOp
    /\ queue' = [queue EXCEPT ![p] = Enqueued(@, unqueued[p])]
    /\ unqueued' = [unqueued EXCEPT ![p] = NoOp]
    /\ UNCHANGED <<clock, faults, born, serverVars, local, known, cursor, page,
                   flushing, pass, dropped>>

-----------------------------------------------------------------------------
(***************************************************************************)
(* Flush passes                                                            *)
(***************************************************************************)

\* flushPending looks at the flag, then waits for the store before it sets it.
StartPass(p, k) ==
    /\ pass[p][k].state = "idle"
    /\ ~flushing[p]
    /\ queue[p] # <<>>
    /\ pass' = [pass EXCEPT ![p][k].state = "checked"]
    /\ UNCHANGED <<clock, faults, born, serverVars, local, unqueued, known,
                   cursor, page, queue, flushing, dropped>>

\* One turn of the loop: the front of the queue goes into one request, each
\* operation based on the version this phone knows of now.
SendBatch(p, k) ==
    LET batch == Batch(queue[p]) IN
    /\ pass[p][k].state \in {"checked", "ready"}
    /\ queue[p] # <<>>
    /\ BodySize(batch) <= MaxBody
    /\ pass' = [pass EXCEPT ![p][k] =
                  [IdlePass EXCEPT
                      !.state = "sent", !.batch = batch,
                      !.todo = [i \in DOMAIN batch |-> PushOp(p, batch[i])]]]
    /\ flushing' = [flushing EXCEPT ![p] = TRUE]
    /\ UNCHANGED <<clock, faults, born, serverVars, local, unqueued, known,
                   cursor, page, queue, dropped>>

\* DecodeJSON reads at most maxBodyBytes: the server answers bad_request, and
\* the phone drops the first write of the batch as one it never accepts.
SendTooLargeBatch(p, k) ==
    LET batch == Batch(queue[p]) IN
    /\ pass[p][k].state \in {"checked", "ready"}
    /\ queue[p] # <<>>
    /\ BodySize(batch) > MaxBody
    /\ queue' = [queue EXCEPT ![p] = Removed(@, {batch[1]})]
    /\ dropped' = dropped \cup {[op |-> batch[1], why |-> "body"]}
    /\ pass' = [pass EXCEPT ![p][k].state = "ready"]
    /\ flushing' = [flushing EXCEPT ![p] = TRUE]
    /\ UNCHANGED <<clock, faults, born, serverVars, local, unqueued, known,
                   cursor, page>>

\* However a pass ends, it clears the flag.
Finally(p, k) ==
    /\ pass' = [pass EXCEPT ![p][k] = IdlePass]
    /\ flushing' = [flushing EXCEPT ![p] = FALSE]

\* Nothing left to send.
EndPass(p, k) ==
    /\ pass[p][k].state \in {"checked", "ready"}
    /\ queue[p] = <<>>
    /\ Finally(p, k)
    /\ UNCHANGED <<clock, faults, born, serverVars, local, unqueued, known,
                   cursor, page, queue, dropped>>

-----------------------------------------------------------------------------
(***************************************************************************)
(* The server: one operation of a request                                  *)
(***************************************************************************)

\* What the server refuses outright: deleting what never was, writing what was
\* deleted, and writes it does not allow this phone.
Refusal(p, req) ==
    LET cur == server[req.doc] IN
    CASE cur.version = 0 /\ req.delete -> "not_found"
      [] cur.deleted                   -> "deleted"
      [] OTHER ->
            IF p \in Editors[req.doc] /\ (req.delete => p \in Deleters[req.doc])
            THEN "none" ELSE "forbidden"

\* The phone has seen the version it changes.
Based(req) == req.base = server[req.doc].version

\* applyOne and apply: the answer to operation req of phone p, with the row
\* now stored. An operation applied before gets its first answer again.
Answer(p, req) ==
    LET Result(status, doc) == [status |-> status, doc |-> doc]
        cur == server[req.doc]
        refusal == Refusal(p, req)
    IN  IF applied[req.id] # 0
        THEN Result("applied", [cur EXCEPT !.version = applied[req.id]])
        ELSE IF refusal # "none" THEN Result(refusal, cur)
        ELSE IF ~Based(req)      THEN Result("conflict", cur)
        ELSE Result("applied",
                    [version |-> seq + 1, deleted |-> req.delete,
                     row |-> IF req.delete THEN NoRow ELSE req.row])

\* The transaction of operation req: stores the document unless it was
\* refused, or was applied before.
Apply(req, answer) ==
    IF answer.status = "applied" /\ applied[req.id] = 0
    THEN /\ server' = [server EXCEPT ![req.doc] = answer.doc]
         /\ seq' = seq + 1
         /\ applied' = [applied EXCEPT ![req.id] = seq + 1]
    ELSE UNCHANGED <<server, seq, applied>>

\* One answer more for a request.
Answered(this, answer) ==
    [this EXCEPT !.todo = Tail(@), !.results = Append(@, answer)]

\* Push works through a request in order.
Serve(p, k) ==
    LET req == Head(pass[p][k].todo)
        answer == Answer(p, req)
    IN  /\ pass[p][k].state = "sent"
        /\ pass[p][k].todo # <<>>
        /\ Apply(req, answer)
        /\ pass' = [pass EXCEPT ![p][k] = Answered(@, answer)]
        /\ UNCHANGED <<clock, faults, born, late, local, unqueued, known, cursor,
                       page, queue, flushing, dropped>>

\* The rest of a request nobody waits for any more.
ServeLate(request) ==
    /\ request \in late
    /\ LET req == Head(request.todo)
       IN  Apply(req, Answer(request.phone, req))
    /\ late' = (late \ {request}) \cup
                 (IF Len(request.todo) = 1 THEN {}
                  ELSE {[request EXCEPT !.todo = Tail(@)]})
    /\ UNCHANGED <<clock, faults, born, local, unqueued, known, cursor, page,
                   pushVars>>

-----------------------------------------------------------------------------
(***************************************************************************)
(* Answers                                                                 *)
(***************************************************************************)

\* rebase: what a conflict with the server's row cur makes of an operation.
\* "resolved" takes the server's row; "retry" sends again, with a merged row
\* when the operation is a full write.
Rebase(op, cur) ==
    LET merged == ResolveMatch(op.row, cur.row, FALSE)
        Outcome(status, row, keep) == [status |-> status, row |-> row, keep |-> keep]
    IN  CASE op.kind = "delete" \/ cur.version = 0 -> Outcome("retry", op.row, TRUE)
          [] op.kind = "fields" /\ cur.version # 0 ->
                Outcome("retry", Patched(cur.row, op), FALSE)
          [] op.kind = "full" /\ cur.version # 0 ->
                Outcome(IF merged = cur.row THEN "resolved" ELSE "retry", merged, FALSE)

\* outcomeOf. keep: the phone's row stays as it is.
OutcomeOf(op, result) ==
    LET Outcome(status) == [status |-> status, row |-> op.row, keep |-> TRUE]
    IN  CASE result.status = "applied"  -> Outcome("applied")
          [] result.status = "conflict" -> Rebase(op, result.doc)
          [] result.status = "deleted"  -> Outcome("resolved")
          [] result.status = "not_found" -> Outcome("resolved")
          [] result.status = "forbidden" -> Outcome("rejected")

\* pushDocBatch: the next answer, with its update of the store (recordVersion,
\* replaceWithServerDoc or storeRebasedRow).
HandleResult(p, k) ==
    LET this == pass[p][k]
        i == Len(this.outcomes) + 1
        op == this.batch[i]
        result == this.results[i]
        outcome == OutcomeOf(op, result)
    IN  /\ this.state = "sent"
        /\ this.todo = <<>>
        /\ i <= Len(this.results)
        /\ pass' = [pass EXCEPT ![p][k].outcomes = Append(@, outcome)]
        /\ known' = IF result.status \in {"applied", "conflict"}
                    THEN [known EXCEPT ![p][op.doc] = result.doc.version]
                    ELSE known
        /\ local' = IF outcome.keep THEN local
                    ELSE [local EXCEPT ![p][op.doc] = outcome.row]
        /\ UNCHANGED <<clock, faults, born, serverVars, unqueued, cursor, page,
                       queue, flushing, dropped>>

\* settle: answered operations leave the queue, one that must be sent again
\* stays with its merged row, unless it has been tried MaxAttempts times.
Settle(p, k) ==
    LET this == pass[p][k]
        Positions(test(_, _)) ==
            {i \in DOMAIN this.batch : test(this.batch[i], this.outcomes[i])}
        GivenUp(op, o) == o.status = "retry" /\ op.attempts + 1 >= MaxAttempts
        Rejected(op, o) == o.status = "rejected"
        Leaves(op, o) == o.status # "retry" \/ GivenUp(op, o)
        done == {this.batch[i] : i \in Positions(Leaves)}
        Again(op) ==
            LET at == {i \in DOMAIN this.batch : this.batch[i].id = op.id}
            IN  IF at = {} THEN op
                ELSE [op EXCEPT
                        !.attempts = @ + 1,
                        !.row = IF op.kind = "full"
                                THEN this.outcomes[CHOOSE i \in at : TRUE].row
                                ELSE @]
        staying == Removed(queue[p], done)
    IN  /\ this.state = "sent"
        /\ this.batch # <<>>
        /\ Len(this.outcomes) = Len(this.batch)
        /\ queue' = [queue EXCEPT ![p] = [i \in DOMAIN staying |-> Again(staying[i])]]
        /\ dropped' = dropped
              \cup {[op |-> this.batch[i], why |-> "rejected"] : i \in Positions(Rejected)}
              \cup {[op |-> this.batch[i], why |-> "attempts"] : i \in Positions(GivenUp)}
        /\ pass' = [pass EXCEPT ![p][k] = [IdlePass EXCEPT !.state = "ready"]]
        /\ UNCHANGED <<clock, faults, born, serverVars, local, unqueued, known,
                       cursor, page, flushing>>

\* bumpAttempts
Tried(op) == [op EXCEPT !.attempts = @ + 1]

\* No answer in time, or a server error: one more attempt of the first write,
\* and the pass is over. The server may go on with the request.
Timeout(p, k) ==
    LET this == pass[p][k] IN
    /\ faults < MaxFaults
    /\ this.state = "sent"
    /\ this.outcomes = <<>>
    /\ faults' = faults + 1
    /\ late' = late \cup (IF this.todo = <<>> THEN {}
                          ELSE {[phone |-> p, todo |-> this.todo]})
    /\ queue' = [queue EXCEPT ![p] =
                   [i \in DOMAIN @ |->
                      IF @[i].id = this.batch[1].id
                      THEN Tried(@[i]) ELSE @[i]]]
    /\ Finally(p, k)
    /\ UNCHANGED <<clock, born, server, seq, applied, local, unqueued, known,
                   cursor, page, dropped>>

-----------------------------------------------------------------------------
(***************************************************************************)
(* Pulls, and a killed app                                                 *)
(***************************************************************************)

\* The server's answer to a pull: the rows above the cursor.
PullPage(p) ==
    /\ page[p] = NoPage
    /\ \E d \in Docs : server[d].version > cursor[p]
    /\ page' = [page EXCEPT ![p] =
                  [d \in Docs |-> IF server[d].version > cursor[p]
                                  THEN server[d] ELSE NoDoc]]
    /\ UNCHANGED <<clock, faults, born, serverVars, local, unqueued, known,
                   cursor, pushVars>>

\* applyServerDocs and the new cursor. Every version of the page is recorded,
\* also of a row whose queued write keeps this phone's copy.
ApplyServerDocs(p) ==
    LET got == {d \in Docs : page[p][d].version # 0}
        last == CHOOSE v \in {page[p][d].version : d \in got} :
                    \A d \in got : page[p][d].version <= v
        Pending(d) == d \in DocsOf(queue[p])
        kept == {op \in Range(queue[p]) : ~page[p][op.doc].deleted}
    IN  /\ page[p] # NoPage
        /\ known' = [known EXCEPT ![p] =
                       [d \in Docs |-> IF d \in got THEN page[p][d].version ELSE @[d]]]
        /\ local' = [local EXCEPT ![p] =
                       [d \in Docs |-> IF d \in got
                                       THEN Merged(@[d], page[p][d], Pending(d))
                                       ELSE @[d]]]
        /\ queue' = [queue EXCEPT ![p] = Only(@, kept)]
        /\ cursor' = [cursor EXCEPT ![p] = IF @ >= last THEN @ ELSE last]
        /\ page' = [page EXCEPT ![p] = NoPage]
        /\ UNCHANGED <<clock, faults, born, serverVars, unqueued, flushing, pass,
                       dropped>>

\* The app is killed and started again: what is on disk stays. A save that was
\* not queued yet never will be.
Crash(p) ==
    /\ faults < MaxFaults
    /\ faults' = faults + 1
    /\ late' = late \cup
          {[phone |-> p, todo |-> pass[p][k].todo] :
              k \in {n \in Passes[p] : pass[p][n].todo # <<>>}}
    /\ dropped' = dropped \cup
          (IF unqueued[p] = NoOp THEN {} ELSE {[op |-> unqueued[p], why |-> "killed"]})
    /\ unqueued' = [unqueued EXCEPT ![p] = NoOp]
    /\ pass' = [pass EXCEPT ![p] = [k \in Passes[p] |-> IdlePass]]
    /\ flushing' = [flushing EXCEPT ![p] = FALSE]
    /\ page' = [page EXCEPT ![p] = NoPage]
    /\ UNCHANGED <<clock, born, server, seq, applied, local, known, cursor, queue>>

-----------------------------------------------------------------------------

\* The shared match got version 1 and every phone has pulled it.
Init ==
    /\ clock = 1
    /\ faults = 0
    /\ born = Shared
    /\ server = [d \in Docs |-> IF d \in Shared
                                THEN [version |-> 1, deleted |-> FALSE, row |-> FirstRow]
                                ELSE NoDoc]
    /\ seq = 1
    /\ applied = [i \in 1..MaxClock |-> 0]
    /\ late = {}
    /\ local = [p \in Phones |-> [d \in Docs |-> IF d \in Shared THEN FirstRow ELSE NoRow]]
    /\ unqueued = [p \in Phones |-> NoOp]
    /\ queue = [p \in Phones |-> <<>>]
    /\ known = [p \in Phones |-> [d \in Docs |-> IF d \in Shared THEN 1 ELSE 0]]
    /\ cursor = [p \in Phones |-> 1]
    /\ page = [p \in Phones |-> NoPage]
    /\ flushing = [p \in Phones |-> FALSE]
    /\ pass = [p \in Phones |-> [k \in Passes[p] |-> IdlePass]]
    /\ dropped = {}

UserStep(p) ==
    \E d \in Docs :
        CreateMatch(p, d) \/ WriteMatch(p, d) \/ SaveSettings(p, d) \/ DeleteMatch(p, d)

PassStep(p, k) ==
    \/ StartPass(p, k) \/ SendBatch(p, k) \/ SendTooLargeBatch(p, k)
    \/ EndPass(p, k) \/ Serve(p, k) \/ HandleResult(p, k) \/ Settle(p, k)

PullStep(p) == PullPage(p) \/ ApplyServerDocs(p)

Next ==
    \/ \E p \in Phones :
          \/ UserStep(p) \/ Enqueue(p) \/ PullStep(p) \/ Crash(p)
          \/ \E k \in Passes[p] : PassStep(p, k) \/ Timeout(p, k)
    \/ \E request \in late : ServeLate(request)

Spec == Init /\ [][Next]_vars

\* The code's own steps go on: an open app flushes and pulls every ten seconds
\* (watch.ts), awaited calls return, and the server works through the requests
\* it got. Users need not save, and nothing makes the network fail.
Fairness ==
    /\ \A p \in Phones :
          /\ WF_vars(Enqueue(p))
          /\ WF_vars(PullStep(p))
          /\ \A k \in Passes[p] : WF_vars(PassStep(p, k))

FairSpec == Spec /\ Fairness

-----------------------------------------------------------------------------
(***************************************************************************)
(* Properties                                                              *)
(***************************************************************************)

Stamps == 0..MaxClock
Rows   == [shots : Stamps, set : Stamps, upd : Stamps]
Ops    == [id : Stamps, doc : Docs, kind : {"full", "fields", "delete"},
           row : Rows, attempts : Nat]
Requests == [id : Stamps, doc : Docs, delete : BOOLEAN, base : Nat, row : Rows]
ServerDocs == [version : Nat, deleted : BOOLEAN, row : Rows]
Results == [status : {"applied", "conflict", "deleted", "not_found", "forbidden"},
            doc : ServerDocs]
Outcomes == [status : {"applied", "resolved", "retry", "rejected"}, row : Rows,
             keep : BOOLEAN]
PassType == [state : {"idle", "checked", "ready", "sent"}, batch : Seq(Ops),
             todo : Seq(Requests), results : Seq(Results), outcomes : Seq(Outcomes)]

\* Types, no version above the sequence, and a request in flight whose answers
\* line up with its operations.
TypeOK ==
    /\ clock \in 1..MaxClock
    /\ faults \in 0..MaxFaults
    /\ born \subseteq Docs
    /\ server \in [Docs -> ServerDocs]
    /\ seq \in Nat
    /\ applied \in [1..MaxClock -> 0..seq]
    /\ late \subseteq [phone : Phones, todo : Seq(Requests) \ {<<>>}]
    /\ local \in [Phones -> [Docs -> Rows]]
    /\ unqueued \in [Phones -> Ops]
    /\ queue \in [Phones -> Seq(Ops)]
    /\ known \in [Phones -> [Docs -> 0..seq]]
    /\ cursor \in [Phones -> 0..seq]
    /\ page \in [Phones -> [Docs -> ServerDocs]]
    /\ flushing \in [Phones -> BOOLEAN]
    /\ pass = [p \in Phones |-> [k \in Passes[p] |-> pass[p][k]]]
    /\ \A p \in Phones : \A k \in Passes[p] : pass[p][k] \in PassType
    /\ \A d \in Docs : server[d].version <= seq
    /\ \A p \in Phones : \A k \in Passes[p] :
          pass[p][k].state = "sent" =>
              Len(pass[p][k].todo) + Len(pass[p][k].results) = Len(pass[p][k].batch)

\* A write a phone still owes the server.
Owed(p, d) == {op \in Range(queue[p]) \cup {unqueued[p]} : op # NoOp /\ op.doc = d}

\* Nothing is on its way to or from phone p, and it has pulled everything.
Quiet(p) ==
    /\ unqueued[p] = NoOp
    /\ queue[p] = <<>>
    /\ \A k \in Passes[p] : pass[p][k].state # "sent"
    /\ page[p] = NoPage
    /\ cursor[p] = seq

\* A kill took a save of d before it was queued.
Torn(d) == \E x \in dropped : x.why = "killed" /\ x.op.doc = d

\* Where one phone writes a match, what its row holds beyond the server's copy
\* waits in its queue: no answer, merge or retry makes a save disappear. Only a
\* kill between a save and its queueing leaves a change nobody will ever send.
ShownIsOwedOrStored ==
    \A p \in Phones, d \in Docs :
        /\ local[p][d].upd > server[d].row.upd /\ ~server[d].deleted
              => \/ \E op \in Owed(p, d) :
                       op.row.upd >= local[p][d].upd \/ op.kind = "delete"
                 \/ Torn(d)
        /\ local[p][d] = NoRow /\ known[p][d] # 0 /\ ~server[d].deleted
              => \/ \E op \in Owed(p, d) : op.kind = "delete"
                 \/ Torn(d)

\* The phones that only watch match d.
Watches(p, d) == p \notin Scorers[d] \cup Settlers[d] \cup Deleters[d]

\* "Each write reads the latest copy from the store" (serialize-write.ts): the
\* row of a match on the one phone that writes it never goes back to an older
\* save, for the next tap would be made on top of that one.
ScorersRowKept ==
    [][\A p \in Phones, d \in Docs :
          Scorers[d] = {p} /\ Settlers[d] \subseteq {p} /\ local'[p][d] # NoRow =>
              local'[p][d].shots >= local[p][d].shots]_vars

\* "so a scorer's save and a settings change made on another phone never undo
\* each other" (merge.ts): the server's copy never goes back to older shots or
\* older settings. A late request, a repeated one or a stale queue may not do
\* it either.
NothingUndone ==
    [][\A d \in Docs :
          ~server'[d].deleted =>
              /\ server'[d].row.shots >= server[d].row.shots
              /\ server'[d].row.set >= server[d].row.set]_vars

\* In the end every queue is empty and everybody who watches a match sees the
\* server's copy.
Converges ==
    <>[](\A p \in Phones :
            Quiet(p) /\ \A d \in Docs : Watches(p, d) => local[p][d] = server[d].row)

\* "A retry of an operation that already succeeded gets the original answer"
\* (service.go): an operation sent again after a lost answer, by another pass
\* or with a request that comes late, never has a second effect.
AppliedOnce ==
    [][\A i \in 1..MaxClock : applied[i] # 0 => applied'[i] = applied[i]]_vars

\* A deleted match stays deleted on the server, whatever is still queued,
\* merged or under way for it on any phone.
TombstoneFinal ==
    [][\A d \in Docs : server[d].deleted => server'[d] = server[d]]_vars

\* "keeping at most one full write per document ... a delete replaces
\* everything queued for that document" (schedule.ts): and the order of the
\* queue holds through merges and retries, which change operations in place.
QueueDiscipline ==
    \A p \in Phones : \A i, j \in DOMAIN queue[p] :
        i < j =>
            /\ Before(queue[p][i], queue[p][j])
            /\ queue[p][i].kind = queue[p][j].kind => queue[p][i].id < queue[p][j].id
            /\ queue[p][i].doc = queue[p][j].doc =>
                  /\ queue[p][j].kind # "delete"
                  /\ ~(queue[p][i].kind = "full" /\ queue[p][j].kind = "full")

\* The server's last word on operation op in a pass of phone p: it had no row to
\* delete, or a row at least as new as the one sent.
AnsweredToPass(p, op) ==
    \E k \in Passes[p] : \E i \in DOMAIN pass[p][k].results :
        LET sent == pass[p][k].batch[i]
            result == pass[p][k].results[i]
        IN  /\ sent.id = op.id
            /\ \/ op.kind = "delete" /\ result.status = "not_found"
               \/ /\ op.kind = "full" /\ result.status = "conflict"
                  /\ result.doc.row.upd >= sent.row.upd

\* An operation leaves a queue only when the server applied it, a newer save of
\* the same phone replaced it, the match is deleted, the server answered that
\* there is nothing to delete or that it holds a newer row, or the phone gave
\* it up and said so. What the server held then it may have replaced since.
QueueLeavesOnlyAnswered ==
    [][\A p \in Phones : \A op \in Range(queue[p]) :
          \/ op.id \in IdsOf(queue'[p])
          \/ applied[op.id] # 0
          \/ \E other \in Range(queue'[p]) : other.doc = op.doc /\ other.id > op.id
          \/ server[op.doc].deleted
          \/ AnsweredToPass(p, op)
          \/ \E x \in dropped' : x.op.id = op.id]_vars

\* "The server will never accept this write: drop it" (schedule.ts): a write
\* dropped because the server refused the request is one the server refuses on
\* its own as well.
OnlyHopelessWritesDropped ==
    \A x \in dropped : x.why = "body" => Size[x.op.doc] > MaxBody

\* "the delete is synced so it disappears on every device"
\* (match-admin.service.ts).
DisappearsEverywhere ==
    \A p \in Phones : Quiet(p) =>
        \A d \in Docs : server[d].deleted => ~OnPhone(p, d)

=============================================================================
