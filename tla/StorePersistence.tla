-------------------------- MODULE StorePersistence --------------------------
(***************************************************************************)
(* The local store of the phone (local-store.ts, store-persistence.ts).    *)
(*                                                                         *)
(* updateStore replaces the store in memory and saves the difference to a  *)
(* snapshot of what is on disk: one multiSet with the changed keys, then   *)
(* one multiRemove with the keys of removed matches, and only then the     *)
(* snapshot is brought up to date. Both calls are awaited, and nothing     *)
(* keeps another updateStore from running meanwhile: it compares with the  *)
(* snapshot as it is then. The app may be killed at any moment, a call may *)
(* fail, and a store that cannot be read puts the session in read-only     *)
(* mode.                                                                   *)
(*                                                                         *)
(* AsyncStorage is external: it carries out calls one after the other in   *)
(* the order they were made, each one whole or not at all. A call and the  *)
(* continuation of the code that awaits it are one step: later calls are   *)
(* computed from memory and the snapshot, never from the disk.             *)
(*                                                                         *)
(* An object is the number of the update that made it, and what it holds   *)
(* is given by DocValue and RestValue: several updates may give a part the *)
(* same value, so a part may go back to one it had (a queue filled and     *)
(* emptied, a match opened and closed). Keys and the snapshot are compared *)
(* by value, references by object. The matches stand for both collections  *)
(* with a key per document, rest for all the keys that hold one collection *)
(* each; the meta key, built anew for every save and so compared by value  *)
(* each time, is such a part of which every update makes a new object.     *)
(* Before the first save of all there are no keys (known is FALSE), and    *)
(* that save writes all but the matches'.                                  *)
(***************************************************************************)
EXTENDS Naturals, Sequences, FiniteSets

CONSTANTS
    Ids,            \* matches
    Returning,      \* matches that may come back in the session that removed them
    RemovalsOverlap,\* whether a save that removes keys may overlap other saves
    RevertsOverlap, \* whether a part may go back to a value while the disk or a
                    \* save under way has it otherwise
    DocValue(_, _), \* what the object that an update made of a match holds
    RestValue(_),   \* what the object that an update made of the rest holds
    MaxUpdates,     \* bound: updates of the store
    MaxFaults       \* bound: calls to AsyncStorage that fail

ASSUME StorePersistenceAssumption ==
    /\ IsFiniteSet(Ids)
    /\ Returning \subseteq Ids
    /\ RemovalsOverlap \in BOOLEAN
    /\ RevertsOverlap \in BOOLEAN
    /\ MaxUpdates \in Nat
    /\ MaxFaults \in Nat
    /\ \A d \in Ids, n \in 0..MaxUpdates :
          DocValue(d, n) \in Nat /\ (DocValue(d, n) = 0 <=> n = 0)
    /\ RestValue(0) = 0 /\ \A n \in 0..MaxUpdates : RestValue(n) \in Nat

VARIABLES
    running,        \* the app is up and has loaded the store
    readOnly,       \* the store could not be read: nothing is written
    memory,         \* the store in memory
    parts,          \* PersistedSnapshot.parts: what each key was last written as
    refs,           \* PersistedSnapshot.refs: the objects seen by the last commit
    calls,          \* calls made to AsyncStorage and not answered
    disk,           \* what the keys hold
    updates,        \* updates made so far
    faults,         \* calls that failed so far
    savedAt,        \* history: number of the store that disk holds
    failed,         \* history: the newest save that failed, 0 once a newer succeeds
    gone,           \* history: matches removed in this session
    leftOver        \* history: keys of unlisted matches found at the start

appVars  == <<running, readOnly, memory, parts, refs, calls>>
diskVars == <<disk, savedAt>>
vars     == <<appVars, diskVars, updates, faults, failed, gone, leftOver>>

NoDocs == [d \in Ids |-> 0]

\* array is the identity of the array of matches: the update that made it.
emptyStore == [at |-> 0, docs |-> NoDocs, array |-> 0, rest |-> 0]
NoParts    == [known |-> FALSE, docs |-> NoDocs, index |-> {}, rest |-> 0]
NoRefs     == [docs |-> NoDocs, array |-> 0, rest |-> 0]

Present(docs) == {d \in Ids : docs[d] # 0}

\* What the objects hold, 0 for a match that is not there.
DocValues(docs) == [d \in Ids |-> DocValue(d, docs[d])]

SameDoc(d, m, n) == DocValue(d, m) = DocValue(d, n)
SameRest(m, n)   == RestValue(m) = RestValue(n)

-----------------------------------------------------------------------------
(***************************************************************************)
(* The snapshot of what is on disk                                         *)
(***************************************************************************)

\* Slip: the list of ids counts as unchanged while it is as long as before.
Diff_IndexByLength(next) ==
    [rest |-> ~parts.known \/ (refs.rest # next.rest /\ ~SameRest(parts.rest, next.rest)),
     index |-> \/ ~parts.known
               \/ Cardinality(parts.index) # Cardinality(Present(next.docs)),
     docs |-> {d \in Present(next.docs) : ~SameDoc(d, parts.docs[d], next.docs[d])},
     removes |-> {d \in Ids : parts.docs[d] # 0 /\ next.docs[d] = 0}]

\* What has to be written and removed for next. A part whose object is the
\* one of the last commit is skipped, any other is compared by value.
Diff(next) ==
    [rest |-> ~parts.known \/ (refs.rest # next.rest /\ ~SameRest(parts.rest, next.rest)),
     index |-> \/ ~parts.known
               \/ refs.array # next.array /\ parts.index # Present(next.docs),
     docs |-> {d \in Present(next.docs) :
                  /\ refs.docs[d] # next.docs[d] \/ parts.docs[d] = 0
                  /\ ~SameDoc(d, parts.docs[d], next.docs[d])},
     removes |-> {d \in Ids : parts.docs[d] # 0 /\ next.docs[d] = 0}]

\* Keys with the values they have in next where a write says so.
Written(keys, next, changes) ==
    [known |-> keys.known \/ changes.rest,
     docs |-> [d \in Ids |->
                  IF d \in changes.docs THEN next.docs[d] ELSE keys.docs[d]],
     index |-> IF changes.index THEN Present(next.docs) ELSE keys.index,
     rest |-> IF changes.rest THEN next.rest ELSE keys.rest]

\* Keys without those of removed matches.
Removed(keys, changes) ==
    [keys EXCEPT !.docs = [d \in Ids |->
        IF d \in changes.removes THEN 0 ELSE keys.docs[d]]]

\* Record a save that succeeded. The references are those of the store that
\* was saved, also for the parts that were not written.
Commit(call) ==
    /\ parts' = Removed(Written(parts, call.next, call.changes), call.changes)
    /\ refs' = [docs |-> [d \in Ids |->
                            IF call.next.docs[d] # 0 THEN call.next.docs[d]
                            ELSE IF d \in call.changes.removes THEN 0
                            ELSE refs.docs[d]],
                array |-> call.next.array,
                rest |-> call.next.rest]
    /\ failed' = IF call.next.at > failed THEN 0 ELSE failed

-----------------------------------------------------------------------------
(***************************************************************************)
(* Saving                                                                  *)
(***************************************************************************)

\* writeParts makes the first of its calls: multiSet, or multiRemove when
\* there is nothing to write; persist makes none when nothing changed.
FirstCall(next, changes) ==
    LET call(op) == <<[op |-> op, next |-> next, changes |-> changes]>>
    IN  IF changes.rest \/ changes.index \/ changes.docs # {} THEN call("set")
        ELSE IF changes.removes # {} THEN call("remove")
        ELSE <<>>

\* Slip: a store that could not be read is saved over.
Persist_ReadOnlyToo(next) ==
    calls' = calls \o FirstCall(next, Diff(next))

Persist(next) ==
    calls' = IF readOnly THEN calls ELSE calls \o FirstCall(next, Diff(next))

\* The objects of a match, and of the rest, that the snapshot, the disk and the
\* saves under way have.
DocCopies(d) == {parts.docs[d], disk.docs[d]} \cup {calls[i].next.docs[d] : i \in DOMAIN calls}
RestCopies   == {parts.rest, disk.rest} \cup {calls[i].next.rest : i \in DOMAIN calls}

\* No part of next has the value of a copy of which there is a newer copy with
\* another value: next would be taken for saved, and then not be.
NothingReverts(next) ==
    /\ \A d \in Present(next.docs) : \A m, n \in DocCopies(d) :
          m <= n /\ SameDoc(d, m, next.docs[d]) => SameDoc(d, n, next.docs[d])
    /\ \A m, n \in RestCopies :
          m <= n /\ SameRest(m, next.rest) => SameRest(n, next.rest)

\* Which matches may come back, and whether saves with removals, and values that
\* return, overlap, is up to the constants; nothing in the code rules any out.
MayStart(next) ==
    /\ RevertsOverlap \/ readOnly \/ NothingReverts(next)
    /\ \A d \in Present(next.docs) : d \notin gone \/ d \in Returning
    /\ \/ RemovalsOverlap
       \/ calls = <<>>
       \/ /\ Present(memory.docs) \subseteq Present(next.docs)
          /\ Diff(next).removes = {}
          /\ \A i \in DOMAIN calls : calls[i].changes.removes = {}

\* A mutator changes, adds and removes any of the matches, and the rest. One
\* that returns equal data ends there (hasChanged).
UpdateStore(docs, rest) ==
    /\ running
    /\ updates < MaxUpdates
    /\ \/ DocValues(docs) # DocValues(memory.docs)
       \/ ~SameRest(rest, memory.rest)
    /\ updates' = updates + 1
    /\ memory' = [at |-> updates', docs |-> docs, rest |-> rest,
                  array |-> IF docs = memory.docs THEN memory.array ELSE updates']
    /\ MayStart(memory')
    /\ Persist(memory')
    /\ gone' = gone \cup (Present(memory.docs) \ Present(docs))
    /\ UNCHANGED <<running, readOnly, parts, refs, diskVars, faults, failed, leftOver>>

AnyUpdate ==
    \E docs \in [Ids -> 0..(updates + 1)], rest \in {memory.rest, updates + 1} :
        /\ \A d \in Ids : docs[d] \in {memory.docs[d], 0, updates + 1}
        /\ UpdateStore(docs, rest)

\* Slip: keys are removed only by a save that writes nothing.
MultiSet_RemovesNothing ==
    /\ calls # <<>> /\ Head(calls).op = "set"
    /\ LET call == Head(calls)
       IN  /\ disk' = Written(disk, call.next, call.changes)
           /\ savedAt' = call.next.at
           /\ Commit(call)
           /\ calls' = Tail(calls)
    /\ UNCHANGED <<running, readOnly, memory, updates, faults, gone, leftOver>>

\* multiSet is done: writeParts goes on to multiRemove, or the save is over.
MultiSet ==
    /\ calls # <<>> /\ Head(calls).op = "set"
    /\ LET call == Head(calls)
       IN  /\ disk' = Written(disk, call.next, call.changes)
           /\ savedAt' = call.next.at
           /\ IF call.changes.removes = {}
              THEN Commit(call) /\ calls' = Tail(calls)
              ELSE /\ calls' = Append(Tail(calls), [call EXCEPT !.op = "remove"])
                   /\ UNCHANGED <<parts, refs, failed>>
    /\ UNCHANGED <<running, readOnly, memory, updates, faults, gone, leftOver>>

\* multiRemove is done, and with it the save.
MultiRemove ==
    /\ calls # <<>> /\ Head(calls).op = "remove"
    /\ LET call == Head(calls)
       IN  disk' = Removed(disk, call.changes) /\ Commit(call)
    /\ calls' = Tail(calls)
    /\ UNCHANGED <<running, readOnly, memory, savedAt, updates, faults, gone, leftOver>>

\* Slip: the save is recorded whether it succeeded or not.
FailCall_Commits ==
    /\ calls # <<>>
    /\ faults < MaxFaults
    /\ faults' = faults + 1
    /\ Commit(Head(calls))
    /\ calls' = Tail(calls)
    /\ UNCHANGED <<running, readOnly, memory, diskVars, updates, gone, leftOver>>

\* A call fails: the rest of the save is not attempted, nothing is recorded.
FailCall ==
    /\ calls # <<>>
    /\ faults < MaxFaults
    /\ faults' = faults + 1
    /\ failed' = IF Head(calls).next.at > failed THEN Head(calls).next.at ELSE failed
    /\ calls' = Tail(calls)
    /\ UNCHANGED <<running, readOnly, memory, parts, refs, diskVars, updates,
                   gone, leftOver>>

-----------------------------------------------------------------------------
(***************************************************************************)
(* Starting and stopping                                                   *)
(***************************************************************************)

\* Every match the index lists has its key: readParts refuses anything else.
Readable == \A d \in disk.index : disk.docs[d] # 0

\* The matches a start finds: those the index lists.
ReadDocs == [d \in Ids |-> IF d \in disk.index THEN disk.docs[d] ELSE 0]

Unlisted == {d \in Ids : disk.docs[d] # 0 /\ d \notin disk.index}

\* The store is read and the snapshot seeded from it; where nothing was ever
\* saved both stay empty.
LoadFromDisk ==
    /\ ~running
    /\ Readable
    /\ running' = TRUE
    /\ memory' = [at |-> savedAt, docs |-> ReadDocs, array |-> savedAt,
                  rest |-> disk.rest]
    /\ parts' = [disk EXCEPT !.docs = ReadDocs]
    /\ refs' = [docs |-> ReadDocs, array |-> savedAt, rest |-> disk.rest]
    /\ gone' = {}
    /\ leftOver' = Unlisted
    /\ UNCHANGED <<readOnly, calls, diskVars, updates, faults, failed>>

\* Both attempts to read fail: the app works on an empty store in memory.
LoadFails ==
    /\ ~running
    /\ \/ ~Readable /\ UNCHANGED faults
       \/ faults < MaxFaults /\ faults' = faults + 1
    /\ running' = TRUE
    /\ readOnly' = TRUE
    /\ UNCHANGED <<memory, parts, refs, calls, diskVars, updates, failed, gone,
                   leftOver>>

\* The app is killed: memory, the snapshot and the calls under way are gone.
Kill ==
    /\ running
    /\ running' = FALSE
    /\ readOnly' = FALSE
    /\ memory' = emptyStore
    /\ parts' = NoParts
    /\ refs' = NoRefs
    /\ calls' = <<>>
    /\ failed' = 0
    /\ gone' = {}
    /\ leftOver' = {}
    /\ UNCHANGED <<diskVars, updates, faults>>

Init ==
    /\ running = FALSE
    /\ readOnly = FALSE
    /\ memory = emptyStore
    /\ parts = NoParts
    /\ refs = NoRefs
    /\ calls = <<>>
    /\ disk = NoParts
    /\ updates = 0
    /\ faults = 0
    /\ savedAt = 0
    /\ failed = 0
    /\ gone = {}
    /\ leftOver = {}

Next ==
    \/ AnyUpdate \/ MultiSet \/ MultiRemove \/ FailCall
    \/ LoadFromDisk \/ LoadFails \/ Kill

Spec == Init /\ [][Next]_vars

-----------------------------------------------------------------------------
(***************************************************************************)
(* Properties                                                              *)
(***************************************************************************)

Objects   == 0..MaxUpdates
StoreType == [at : Nat, docs : [Ids -> Objects], array : Nat, rest : Objects]
KeysType  ==
    [known : BOOLEAN, docs : [Ids -> Objects], index : SUBSET Ids, rest : Objects]
RefsType  == [docs : [Ids -> Objects], array : Nat, rest : Objects]
CallType  ==
    [op : {"set", "remove"}, next : StoreType,
     changes : [rest : BOOLEAN, index : BOOLEAN, docs : SUBSET Ids,
                removes : SUBSET Ids]]

\* Types; nothing is numbered above the updates made; a read-only session
\* has no call under way.
TypeOK ==
    /\ running \in BOOLEAN /\ readOnly \in BOOLEAN
    /\ memory \in StoreType /\ memory.at <= updates
    /\ parts \in KeysType
    /\ refs \in RefsType
    /\ calls \in Seq(CallType)
    /\ disk \in KeysType
    /\ updates \in Nat /\ faults \in Nat
    /\ savedAt \in 0..updates /\ failed \in 0..updates
    /\ gone \subseteq Ids /\ leftOver \subseteq Ids
    /\ readOnly => calls = <<>>

\* "The index names a document that isn't on disk: the store is inconsistent,
\* never guess" (readParts): the app is read-only from then on. Its own saves
\* never lead there, however they overlap, fail, or are cut short by a kill.
AlwaysReadable == Readable

\* All saves are answered, and none failed after the last that succeeded.
Settled == running /\ ~readOnly /\ calls = <<>> /\ failed = 0

\* "Not committed, so the same parts are retried on the next save" (persist):
\* once the saves have settled a start would find exactly the store in
\* memory. The snapshot never hides a change that is not on disk, also when
\* an earlier save failed half way. Where RevertsOverlap this is not so: a part
\* put back to the snapshot's value while another is being saved is skipped.
SettledIsSaved ==
    Settled => <<DocValues(ReadDocs), disk.index, RestValue(disk.rest)>>
             = <<DocValues(memory.docs), Present(memory.docs), RestValue(memory.rest)>>

\* "removes the key of a deleted match" (local-store.test.ts): once the saves
\* have settled no key of a removed match remains, but for those a killed
\* session left; otherwise the phone fills up with shot logs nobody can see.
\* Where a multiRemove failed this is not so: a match that was added by that
\* save is not in the snapshot, and its own removal leaves its key.
NothingLeftBehind == Settled /\ faults = 0 => Unlisted \subseteq leftOver

\* Every save reaches the disk whole and in order, although it is computed
\* against a snapshot that overlapping saves leave behind the disk; and after
\* a failed read nothing is saved.
Store == INSTANCE SavedStore WITH
    session <- IF ~running THEN "off" ELSE IF readOnly THEN "safe" ELSE "running",
    shown <- [at |-> memory.at, docs |-> DocValues(memory.docs),
              rest |-> RestValue(memory.rest)],
    pending <- {[at |-> calls[i].next.at, docs |-> DocValues(calls[i].next.docs),
                 rest |-> RestValue(calls[i].next.rest)] :
                   i \in {j \in DOMAIN calls : calls[j].op = "set"}},
    saved <- [at |-> savedAt, docs |-> DocValues(ReadDocs), rest |-> RestValue(disk.rest)]

ImplementsSavedStore == Store!Spec

=============================================================================
