----------------------- MODULE StorePersistenceProofs -----------------------
(***************************************************************************)
(* Proofs about StorePersistence, for every number of matches, updates and *)
(* failures: its types; that a start can always read the store, as long as *)
(* saves that remove keys do not overlap other saves; and, where a removed *)
(* match does not come back in the same session either, and no part goes   *)
(* back to a value while the disk or a save under way has it otherwise,    *)
(* that settled saves are on the disk, that no key is left behind, and     *)
(* that the saves keep the promise of SavedStore. Without these three      *)
(* provisions the code breaks its promises.                                *)
(*                                                                         *)
(* ReadableInv is the invariant that makes the store readable: it compares *)
(* every save under way with the snapshot as it is by then. SavesInv adds  *)
(* the order of the objects: snapshot <= disk <= saves under way <= memory *)
(* for each match that is present, and that no part goes back to a value   *)
(* on this way (Steady). A part that a save leaves out, because the        *)
(* snapshot has its value, is then squeezed between two equal values, and  *)
(* the disk has that value too.                                            *)
(***************************************************************************)
EXTENDS StorePersistence, SequenceTheorems, TLAPS

\* No call outlives its session, and none saves a store that was never shown.
TypeInv ==
    /\ TypeOK
    /\ updates <= MaxUpdates
    /\ ~running => calls = <<>> /\ ~readOnly
    /\ \A i \in DOMAIN calls : calls[i].next.at <= updates

\* The snapshot lists the matches it has a key for, and those keys exist.
PartsAgree ==
    /\ Present(parts.docs) = parts.index
    /\ \A d \in Ids : parts.docs[d] # 0 => disk.docs[d] # 0

\* The array of the last commit is the one in memory only when the index in
\* the snapshot is that of memory.
ArraysAgree ==
    /\ refs.array <= updates
    /\ memory.array <= updates
    /\ refs.array = memory.array => parts.index = Present(memory.docs)

\* A save under way, compared with the snapshot as it is now, not as it was
\* when the save began.
CallFits(c) ==
    /\ c.changes.docs \subseteq Present(c.next.docs)
    /\ c.changes.removes = parts.index \ Present(c.next.docs)
    /\ Present(c.next.docs) \subseteq c.changes.docs \cup parts.index
    /\ ~c.changes.index => parts.index = Present(c.next.docs)
    /\ c.op = "remove" =>
          c.changes.removes # {} /\ disk.index = Present(c.next.docs)
    /\ c.next.array <= updates
    /\ c.next.array = memory.array => c.next.docs = memory.docs
    /\ Present(c.next.docs) \subseteq Present(memory.docs)

CallsFit == \A i \in DOMAIN calls : CallFits(calls[i])

\* Saves under way add matches one after the other; one that removes is alone.
CallsAscend ==
    \A i, j \in DOMAIN calls :
        i < j => Present(calls[i].next.docs) \subseteq Present(calls[j].next.docs)

RemovalsAlone ==
    \A i \in DOMAIN calls : calls[i].changes.removes # {} => Len(calls) = 1

ReadableInv ==
    /\ TypeInv
    /\ AlwaysReadable
    /\ PartsAgree
    /\ ArraysAgree
    /\ CallsFit
    /\ CallsAscend
    /\ RemovalsAlone

-----------------------------------------------------------------------------
(***************************************************************************)
(* What the operators return                                               *)
(***************************************************************************)

ChangesType ==
    [rest : BOOLEAN, index : BOOLEAN, docs : SUBSET Ids, removes : SUBSET Ids]

\* Objects are numbers.
LEMMA ObjectNumbers ==
    /\ Objects \subseteq Nat /\ 0 \in Objects
    /\ \A n \in Nat : n <= MaxUpdates => 0..n \subseteq Objects
BY StorePersistenceAssumption DEF Objects

\* A match that is there holds something.
LEMMA AbsentDiffers ==
    ASSUME NEW d \in Ids, NEW n \in Objects, n # 0
    PROVE  ~SameDoc(d, 0, n) /\ ~SameDoc(d, n, 0)
BY ObjectNumbers, StorePersistenceAssumption DEF SameDoc, Objects

\* The difference of a store to the snapshot is a set of changes.
LEMMA DiffType ==
    ASSUME NEW next \in StoreType
    PROVE  Diff(next) \in ChangesType
BY DEF Diff, ChangesType, Present

\* A save makes no call, or one call for its store and its changes.
LEMMA FirstCallCases ==
    ASSUME NEW next \in StoreType, NEW changes \in ChangesType
    PROVE  \/ FirstCall(next, changes) = <<>>
           \/ \E op \in {"set", "remove"} :
                 /\ FirstCall(next, changes) =
                       <<[op |-> op, next |-> next, changes |-> changes]>>
                 /\ op = "remove" =>
                       changes.removes # {} /\ ~changes.index /\ changes.docs = {}
BY DEF FirstCall, ChangesType

\* Writing and removing keys gives keys again.
LEMMA KeysWritten ==
    ASSUME NEW keys \in KeysType, NEW c \in CallType
    PROVE  /\ Written(keys, c.next, c.changes) \in KeysType
           /\ Removed(Written(keys, c.next, c.changes), c.changes) \in KeysType
           /\ Removed(keys, c.changes) \in KeysType
BY ObjectNumbers DEF KeysType, CallType, StoreType, Written, Removed, Present

\* The head of the calls is a call, and what is left are calls.
LEMMA HeadIsCall ==
    ASSUME calls \in Seq(CallType), calls # <<>>
    PROVE  /\ Head(calls) \in CallType
           /\ Head(calls) = calls[1]
           /\ 1 \in DOMAIN calls
           /\ Tail(calls) \in Seq(CallType)
           /\ Len(Tail(calls)) = Len(calls) - 1
           /\ \A i \in DOMAIN Tail(calls) :
                 i + 1 \in DOMAIN calls /\ Tail(calls)[i] = calls[i + 1]
OBVIOUS

\* The calls after an update: those before it, and at most one more, for the
\* store that is now in memory.
LEMMA UpdateCases ==
    ASSUME TypeInv, AnyUpdate
    PROVE  /\ memory' \in StoreType
           /\ memory'.at = updates + 1 /\ updates' = updates + 1
           /\ \/ calls' = calls
              \/ /\ ~readOnly
                 /\ \E op \in {"set", "remove"} :
                       LET c == [op |-> op, next |-> memory',
                                 changes |-> Diff(memory')]
                       IN  /\ c \in CallType
                           /\ calls' = Append(calls, c)
                           /\ op = "remove" => /\ c.changes.removes # {}
                                               /\ ~c.changes.index
                                               /\ c.changes.docs = {}
<1>1. PICK docs \in [Ids -> 0..(updates + 1)],
           rest \in {memory.rest, updates + 1} : UpdateStore(docs, rest)
  BY DEF AnyUpdate
<1>2. memory' \in StoreType /\ memory'.at = updates + 1 /\ updates' = updates + 1
  <2>1. updates + 1 \in Nat /\ updates + 1 <= MaxUpdates /\ updates' = updates + 1
    BY <1>1, StorePersistenceAssumption DEF UpdateStore, TypeInv, TypeOK
  <2>2. docs \in [Ids -> Objects] /\ rest \in Objects
    <3>1. 0..(updates + 1) \subseteq Objects /\ updates + 1 \in Objects
      BY <2>1, ObjectNumbers
    <3>2. memory.rest \in Objects
      BY DEF TypeInv, TypeOK, StoreType
    <3> QED BY <3>1, <3>2
  <2>3. memory.array \in Nat
    BY DEF TypeInv, TypeOK, StoreType
  <2> QED BY <1>1, <2>1, <2>2, <2>3 DEF UpdateStore, StoreType
<1>3. Diff(memory') \in ChangesType
  BY <1>2, DiffType
<1>4. CASE readOnly
  BY <1>1, <1>2, <1>4 DEF UpdateStore, Persist
<1>5. CASE ~readOnly
  <2>1. calls' = calls \o FirstCall(memory', Diff(memory'))
    BY <1>1, <1>5 DEF UpdateStore, Persist
  <2>2. CASE FirstCall(memory', Diff(memory')) = <<>>
    BY <1>2, <2>1, <2>2 DEF TypeInv, TypeOK
  <2>3. ASSUME NEW op \in {"set", "remove"},
               FirstCall(memory', Diff(memory')) =
                  <<[op |-> op, next |-> memory', changes |-> Diff(memory')]>>
        PROVE  /\ [op |-> op, next |-> memory', changes |-> Diff(memory')] \in CallType
               /\ calls' = Append(calls, [op |-> op, next |-> memory',
                                          changes |-> Diff(memory')])
    <3>1. [op |-> op, next |-> memory', changes |-> Diff(memory')] \in CallType
      BY <1>2, <1>3 DEF CallType, ChangesType
    <3>2. QED
      BY <2>1, <2>3, <3>1 DEF TypeInv, TypeOK
  <2>4. QED
    BY <1>2, <1>3, <1>5, <2>2, <2>3, FirstCallCases
<1>6. QED
  BY <1>4, <1>5

-----------------------------------------------------------------------------
(***************************************************************************)
(* Types                                                                   *)
(***************************************************************************)

LEMMA BlankTypes ==
    /\ emptyStore \in StoreType /\ emptyStore.at = 0
    /\ NoParts \in KeysType
    /\ NoRefs \in RefsType
    /\ <<>> \in Seq(CallType) /\ DOMAIN <<>> = {}
BY ObjectNumbers DEF emptyStore, NoParts, NoRefs, NoDocs, StoreType, KeysType, RefsType

LEMMA CommitTypes ==
    ASSUME TypeInv, NEW c \in CallType, c.next.at <= updates, Commit(c)
    PROVE  /\ parts' \in KeysType
           /\ refs' \in RefsType
           /\ failed' \in 0..updates
<1>1. parts' \in KeysType
  BY KeysWritten DEF TypeInv, TypeOK, Commit
<1>2. c.next \in StoreType
  BY DEF CallType
<1>3. refs' \in RefsType
  BY <1>2, ObjectNumbers DEF TypeInv, TypeOK, Commit, StoreType, RefsType
<1>4. failed' \in 0..updates
  BY <1>2 DEF TypeInv, TypeOK, Commit, StoreType
<1>5. QED
  BY <1>1, <1>3, <1>4

LEMMA TypeStep ==
    ASSUME TypeInv, [Next]_vars
    PROVE  TypeInv'
<1> USE DEF TypeInv, TypeOK
<1>1. CASE AnyUpdate
  <2>1. /\ memory' \in StoreType /\ memory'.at = updates + 1
        /\ updates' = updates + 1
    BY <1>1, UpdateCases
  <2>2. /\ UNCHANGED <<running, readOnly, parts, refs, disk, savedAt, faults,
                       failed, leftOver>>
        /\ gone' \subseteq Ids /\ running /\ updates < MaxUpdates
    BY <1>1 DEF AnyUpdate, UpdateStore, diskVars, Present
  <2>3. /\ calls' \in Seq(CallType)
        /\ \A i \in DOMAIN calls' : calls'[i].next.at <= updates'
        /\ readOnly => calls' = <<>>
    <3>1. CASE calls' = calls
      <4>1. ASSUME NEW i \in DOMAIN calls PROVE calls[i].next.at \in Nat
        <5>1. calls[i] \in CallType
          OBVIOUS
        <5>2. QED
          BY <5>1 DEF CallType, StoreType
      <4>2. QED
        BY <2>1, <3>1, <4>1
    <3>2. ASSUME ~readOnly, NEW c \in CallType, c.next = memory',
                 calls' = Append(calls, c)
          PROVE  <2>3
      <4>1. calls' \in Seq(CallType)
        BY <3>2
      <4>2. ASSUME NEW i \in DOMAIN calls' PROVE calls'[i].next.at <= updates'
        <5>1. CASE i \in DOMAIN calls
          <6>1. calls[i] \in CallType /\ calls'[i] = calls[i] /\ calls[i].next.at <= updates
            BY <3>2, <5>1
          <6>2. calls[i].next.at \in Nat
            BY <6>1 DEF CallType, StoreType
          <6>3. QED
            BY <2>1, <6>1, <6>2
        <5>2. CASE i = Len(calls) + 1
          BY <2>1, <3>2, <5>2
        <5>3. QED
          BY <3>2, <4>2, <5>1, <5>2
      <4>3. QED
        BY <3>2, <4>1, <4>2
    <3>3. CASE readOnly
      BY <1>1, <3>1, <3>3, UpdateCases
    <3>4. CASE ~readOnly /\ calls' # calls
      BY <1>1, <3>2, <3>4, UpdateCases
    <3>5. QED
      BY <3>1, <3>3, <3>4
  <2>4. QED
    BY <2>1, <2>2, <2>3, StorePersistenceAssumption
<1>2. CASE MultiSet
  <2>1. Head(calls) \in CallType /\ Head(calls).next.at <= updates
    BY <1>2, HeadIsCall DEF MultiSet
  <2>2. savedAt' \in 0..updates /\ disk' \in KeysType
    <3>1. Head(calls).next.at \in Nat
      BY <2>1 DEF CallType, StoreType
    <3>2. /\ savedAt' = Head(calls).next.at
          /\ disk' = Written(disk, Head(calls).next, Head(calls).changes)
      BY <1>2 DEF MultiSet
    <3>3. disk' \in KeysType
      BY <2>1, <3>2, KeysWritten
    <3>4. QED
      BY <2>1, <3>1, <3>2, <3>3
  <2>3. CASE Head(calls).changes.removes = {}
    <3>1. Commit(Head(calls)) /\ calls' = Tail(calls)
      BY <1>2, <2>3 DEF MultiSet
    <3>2. QED
      BY <1>2, <2>1, <2>2, <3>1, CommitTypes, HeadIsCall DEF MultiSet
  <2>4. CASE Head(calls).changes.removes # {}
    <3>1. /\ calls' = Append(Tail(calls), [Head(calls) EXCEPT !.op = "remove"])
          /\ UNCHANGED <<parts, refs, failed>>
      BY <1>2, <2>4 DEF MultiSet
    <3>2. /\ [Head(calls) EXCEPT !.op = "remove"] \in CallType
          /\ [Head(calls) EXCEPT !.op = "remove"].next = Head(calls).next
      BY <2>1 DEF CallType
    <3>3. /\ calls' \in Seq(CallType)
          /\ \A i \in DOMAIN calls' : calls'[i].next.at <= updates
      <4>1. calls # <<>>
        BY <1>2 DEF MultiSet
      <4>2. calls' \in Seq(CallType)
        BY <3>1, <3>2, <4>1, HeadIsCall
      <4>3. ASSUME NEW i \in DOMAIN calls' PROVE calls'[i].next.at <= updates
        <5>1. CASE i \in DOMAIN Tail(calls)
          BY <3>1, <3>2, <4>1, <5>1, HeadIsCall
        <5>2. CASE i = Len(Tail(calls)) + 1
          BY <2>1, <3>1, <3>2, <4>1, <5>2, HeadIsCall
        <5>3. QED
          BY <3>1, <3>2, <4>1, <4>3, <5>1, <5>2, HeadIsCall
      <4>4. QED
        BY <4>2, <4>3
    <3>4. QED
      BY <1>2, <2>2, <3>1, <3>3 DEF MultiSet
  <2>5. QED
    BY <2>3, <2>4
<1>3. CASE MultiRemove
  <2>1. Head(calls) \in CallType /\ Head(calls).next.at <= updates
    BY <1>3, HeadIsCall DEF MultiRemove
  <2>2. disk' \in KeysType
    <3>1. disk' = Removed(disk, Head(calls).changes)
      BY <1>3 DEF MultiRemove
    <3>2. QED
      BY <2>1, <3>1, KeysWritten
  <2>3. QED
    BY <1>3, <2>1, <2>2, CommitTypes, HeadIsCall DEF MultiRemove
<1>4. CASE FailCall
  <2>1. Head(calls) \in CallType /\ Head(calls).next.at <= updates
    BY <1>4, HeadIsCall DEF FailCall
  <2>2. QED
    BY <1>4, <2>1, HeadIsCall DEF FailCall, diskVars, CallType, StoreType
<1>5. CASE LoadFromDisk
  <2>1. ReadDocs \in [Ids -> Objects]
    BY ObjectNumbers DEF KeysType, ReadDocs
  <2>2. [disk EXCEPT !.docs = ReadDocs] \in KeysType
    BY <2>1 DEF KeysType
  <2>3. parts' \in KeysType
    BY <1>5, <2>2 DEF LoadFromDisk
  <2>4. /\ memory' \in StoreType /\ memory'.at <= updates'
        /\ refs' \in RefsType
    BY <1>5, <2>1 DEF LoadFromDisk, diskVars, StoreType, KeysType, RefsType
  <2>5. QED
    BY <1>5, <2>3, <2>4 DEF LoadFromDisk, diskVars, Unlisted
<1>6. CASE LoadFails
  BY <1>6 DEF LoadFails, diskVars
<1>7. CASE Kill
  <2>1. calls' \in Seq(CallType) /\ DOMAIN calls' = {} /\ calls' = <<>>
    BY <1>7, BlankTypes DEF Kill
  <2>2. QED
    <3>1. /\ running' = FALSE /\ readOnly' = FALSE /\ memory' = emptyStore
          /\ parts' = NoParts /\ refs' = NoRefs /\ failed' = 0
          /\ gone' = {} /\ leftOver' = {}
          /\ UNCHANGED <<disk, savedAt, updates, faults>>
      BY <1>7 DEF Kill, diskVars
    <3>2. memory' \in StoreType /\ memory'.at <= updates'
      BY <3>1, BlankTypes
    <3>3. failed' \in 0..updates'
      BY <3>1
    <3>4. parts' \in KeysType /\ refs' \in RefsType
      BY <3>1, BlankTypes
    <3>5. QED
      BY <2>1, <3>1, <3>2, <3>3, <3>4
<1>8. CASE UNCHANGED vars
  BY <1>8 DEF vars, appVars, diskVars
<1>9. QED
  BY <1>1, <1>2, <1>3, <1>4, <1>5, <1>6, <1>7, <1>8 DEF Next

LEMMA TypeInit == Init => TypeInv
<1> SUFFICES ASSUME Init PROVE TypeInv
  OBVIOUS
<1>1. calls \in Seq(CallType) /\ DOMAIN calls = {} /\ calls = <<>>
  BY BlankTypes DEF Init
<1>2. TypeOK
  <2>1. memory \in StoreType /\ memory.at <= updates
    BY BlankTypes DEF Init
  <2>2. /\ parts \in KeysType /\ disk \in KeysType
        /\ refs \in RefsType
    BY BlankTypes DEF Init
  <2>3. savedAt \in 0..updates /\ failed \in 0..updates
    BY DEF Init
  <2>4. QED
    BY <1>1, <2>1, <2>2, <2>3 DEF Init, TypeOK
<1>3. QED
  BY <1>1, <1>2, StorePersistenceAssumption DEF Init, TypeInv

\* Types hold in every run, whatever overlaps: in particular no save is under
\* way when the store could not be read.
THEOREM StoreTypesHold == Spec => []TypeOK
<1>1. TypeInv => TypeOK
  BY DEF TypeInv
<1>2. QED
  BY <1>1, TypeInit, TypeStep, PTL DEF Spec

-----------------------------------------------------------------------------
(***************************************************************************)
(* A start can always read the store                                       *)
(***************************************************************************)

\* A save that fits leaves a snapshot that lists, and has, just its matches.
LEMMA CommitAgrees ==
    ASSUME TypeInv, PartsAgree, NEW c \in CallType, CallFits(c), Commit(c)
    PROVE  /\ parts'.index = Present(c.next.docs)
           /\ Present(parts'.docs) = Present(c.next.docs)
           /\ refs'.array = c.next.array
<1>1. /\ parts \in KeysType /\ c.next \in StoreType
      /\ parts' = Removed(Written(parts, c.next, c.changes), c.changes)
      /\ refs'.array = c.next.array
  BY DEF TypeInv, TypeOK, CallType, Commit
<1>2. /\ parts'.index = IF c.changes.index THEN Present(c.next.docs) ELSE parts.index
      /\ parts'.docs = [d \in Ids |->
            IF d \in c.changes.removes THEN 0
            ELSE IF d \in c.changes.docs THEN c.next.docs[d] ELSE parts.docs[d]]
  BY <1>1 DEF Removed, Written, KeysType, StoreType
<1>3. ASSUME NEW d \in Ids
      PROVE  parts'.docs[d] # 0 <=> d \in Present(c.next.docs)
  BY <1>2, <1>3 DEF CallFits, PartsAgree, Present
<1>4. QED
  <2>1. Present(parts'.docs) = Present(c.next.docs)
    BY <1>3 DEF Present
  <2>2. parts'.index = Present(c.next.docs)
    BY <1>2 DEF CallFits
  <2>3. QED
    BY <1>1, <2>1, <2>2

\* After multiSet every match the new index lists, and every key there was
\* before, has a value.
LEMMA SetKeepsKeys ==
    ASSUME TypeInv, AlwaysReadable, PartsAgree, NEW c \in CallType, CallFits(c),
           disk' = Written(disk, c.next, c.changes)
    PROVE  /\ \A d \in Ids : disk.docs[d] # 0 => disk'.docs[d] # 0
           /\ \A d \in Present(c.next.docs) : disk'.docs[d] # 0
           /\ AlwaysReadable'
           /\ disk'.index = IF c.changes.index THEN Present(c.next.docs) ELSE disk.index
<1>1. disk \in KeysType /\ c.next \in StoreType
  BY DEF TypeInv, TypeOK, CallType
<1>2. /\ disk'.index = IF c.changes.index THEN Present(c.next.docs) ELSE disk.index
      /\ disk'.docs = [d \in Ids |->
            IF d \in c.changes.docs THEN c.next.docs[d] ELSE disk.docs[d]]
  BY <1>1 DEF Written, KeysType, StoreType
<1>3. \A d \in Ids : disk.docs[d] # 0 => disk'.docs[d] # 0
  BY <1>2 DEF CallFits, Present
<1>4. \A d \in Present(c.next.docs) : disk'.docs[d] # 0
  BY <1>2 DEF CallFits, PartsAgree, Present
<1>5. disk.index \subseteq Ids
  BY <1>1 DEF KeysType
<1>6. QED
  BY <1>2, <1>3, <1>4, <1>5 DEF AlwaysReadable, Readable

\* The save of an update fits.
LEMMA NewCallFits ==
    ASSUME TypeInv, PartsAgree, ArraysAgree', UNCHANGED <<parts, refs>>,
           NEW c \in CallType, c.next = memory', c.changes = Diff(memory'),
           c.op = "remove" => c.changes.removes # {} /\ ~c.changes.index
    PROVE  CallFits(c)'
<1>1. /\ c.changes.docs = {d \in Present(c.next.docs) :
                  /\ refs.docs[d] # c.next.docs[d] \/ parts.docs[d] = 0
                  /\ ~SameDoc(d, parts.docs[d], c.next.docs[d])}
      /\ c.changes.removes = {d \in Ids : parts.docs[d] # 0 /\ c.next.docs[d] = 0}
      /\ ~c.changes.index =>
            refs.array = c.next.array \/ parts.index = Present(c.next.docs)
  <2>1. c.changes = Diff(c.next)
    OBVIOUS
  <2>2. QED
    BY ONLY <2>1 DEF Diff
<1>2. parts.index \subseteq Ids
  BY DEF TypeInv, TypeOK, KeysType
<1>3. c.changes.removes = parts.index \ Present(c.next.docs)
  BY <1>1 DEF PartsAgree, Present
<1>4. Present(c.next.docs) \subseteq c.changes.docs \cup parts.index
  <2> SUFFICES ASSUME NEW d \in Present(c.next.docs), parts.docs[d] = 0
               PROVE  d \in c.changes.docs
    BY <1>1 DEF PartsAgree, Present
  <2>1. d \in Ids /\ c.next.docs[d] \in Objects /\ c.next.docs[d] # 0
    BY DEF Present, CallType, StoreType
  <2>2. ~SameDoc(d, 0, c.next.docs[d])
    BY <2>1, AbsentDiffers
  <2> QED BY <1>1, <2>2
<1>5. ~c.changes.index => parts.index = Present(c.next.docs)
  BY <1>1 DEF ArraysAgree
<1>6. c.changes.docs \subseteq Present(c.next.docs)
  BY <1>1
<1>7. c.next.array <= updates'
  BY DEF ArraysAgree
<1>8. c.op # "remove"
  BY <1>3, <1>5
<1>9. QED
  BY <1>3, <1>4, <1>5, <1>6, <1>7, <1>8 DEF CallFits

\* What an update does besides saving, where removals are alone: the array in
\* memory is the old one only with the old matches, and while saves are under
\* way an update neither removes a match nor has a key to remove.
LEMMA UpdateAlone ==
    ASSUME ~RemovalsOverlap, TypeInv, AnyUpdate
    PROVE  /\ UNCHANGED <<parts, refs, disk>>
           /\ \/ memory'.array = memory.array /\ memory'.docs = memory.docs
              \/ memory'.array = updates + 1
           /\ \/ calls = <<>>
              \/ /\ Present(memory.docs) \subseteq Present(memory'.docs)
                 /\ Diff(memory').removes = {}
                 /\ \A i \in DOMAIN calls : calls[i].changes.removes = {}
<1>1. PICK docs \in [Ids -> 0..(updates + 1)],
           rest \in {memory.rest, updates + 1} : UpdateStore(docs, rest)
  BY DEF AnyUpdate
<1>2. /\ memory' = [at |-> updates', docs |-> docs, rest |-> rest,
                    array |-> IF docs = memory.docs THEN memory.array ELSE updates']
      /\ updates' = updates + 1
      /\ MayStart(memory')
      /\ UNCHANGED <<parts, refs, diskVars>>
  BY <1>1 DEF UpdateStore
<1>3. /\ memory'.docs = docs
      /\ memory'.array = IF docs = memory.docs THEN memory.array ELSE updates + 1
  BY <1>2
<1>4. QED
  BY <1>2, <1>3 DEF MayStart, diskVars

LEMMA ReadableUpdate ==
    ASSUME ~RemovalsOverlap, ReadableInv, TypeInv', AnyUpdate
    PROVE  ReadableInv'
<1> USE DEF ReadableInv
<1>1. /\ UNCHANGED <<parts, refs, disk>> /\ updates' = updates + 1
      /\ memory' \in StoreType /\ memory \in StoreType
      /\ calls \in Seq(CallType) /\ updates \in Nat
  BY UpdateAlone, UpdateCases DEF TypeInv, TypeOK
<1>2. refs.array \in Nat /\ memory.array \in Nat /\ memory'.array \in Nat
  BY <1>1 DEF StoreType, RefsType, TypeInv, TypeOK
<1>3. AlwaysReadable' /\ PartsAgree'
  BY <1>1 DEF AlwaysReadable, Readable, PartsAgree
<1>4. ArraysAgree'
  BY <1>1, <1>2, UpdateAlone DEF ArraysAgree
<1>5. ASSUME NEW i \in DOMAIN calls, NEW c \in CallType, c = calls[i]
      PROVE  CallFits(c)'
  <2>1. CallFits(c) /\ c.next.array \in Nat
    BY <1>5 DEF CallsFit, CallType, StoreType
  <2>2. calls # <<>>
    BY <1>1, <1>5
  <2>3. QED
    BY <1>1, <1>2, <2>1, <2>2, UpdateAlone DEF CallFits
<1>6. \A i \in DOMAIN calls : calls[i] \in CallType
  BY <1>1
<1>7. CASE calls' = calls
  <2>1. CallsFit'
    BY <1>1, <1>5, <1>7 DEF CallsFit
  <2>2. QED
    BY <1>3, <1>4, <1>7, <2>1 DEF CallsAscend, RemovalsAlone
<1>8. ASSUME NEW c \in CallType, c.next = memory', c.changes = Diff(memory'),
             c.op = "remove" => c.changes.removes # {} /\ ~c.changes.index,
             calls' = Append(calls, c)
      PROVE  ReadableInv'
  <2>1. CallFits(c)'
    BY <1>1, <1>4, <1>8, NewCallFits
  <2>2. /\ DOMAIN calls' = DOMAIN calls \cup {Len(calls) + 1}
        /\ Len(calls') = Len(calls) + 1 /\ Len(calls) \in Nat
        /\ DOMAIN calls = 1..Len(calls)
        /\ \A i \in DOMAIN calls : calls'[i] = calls[i]
        /\ calls'[Len(calls) + 1] = c
    BY <1>1, <1>8
  <2>3. CallsFit'
    <3>1. ASSUME NEW i \in DOMAIN calls', NEW d \in CallType, d = calls'[i]
          PROVE  CallFits(d)'
      BY <1>5, <1>8, <2>1, <2>2, <3>1
    <3>2. \A i \in DOMAIN calls' : calls'[i] \in CallType
      BY <1>8, <1>6, <2>2
    <3>3. QED
      BY <3>1, <3>2 DEF CallsFit
  <2>4. CallsAscend'
    <3>1. ASSUME NEW i \in DOMAIN calls
          PROVE  Present(calls[i].next.docs) \subseteq Present(c.next.docs)
      <4>1. Present(calls[i].next.docs) \subseteq Present(memory.docs)
        BY DEF CallsFit, CallFits
      <4>2. calls # <<>>
        BY <1>1
      <4>3. QED
        BY <1>8, <4>1, <4>2, UpdateAlone
    <3>2. ASSUME NEW i \in DOMAIN calls', NEW j \in DOMAIN calls', i < j
          PROVE  Present(calls'[i].next.docs) \subseteq Present(calls'[j].next.docs)
      <4>1. i \in DOMAIN calls
        BY <2>2, <3>2
      <4>2. CASE j \in DOMAIN calls
        BY <2>2, <3>2, <4>1, <4>2 DEF CallsAscend
      <4>3. CASE j = Len(calls) + 1
        BY <2>2, <3>1, <4>1, <4>3
      <4>4. QED
        BY <2>2, <4>2, <4>3
    <3>3. QED
      BY <3>2 DEF CallsAscend
  <2>5. RemovalsAlone'
    <3>1. CASE calls = <<>>
      BY <2>2, <3>1 DEF RemovalsAlone
    <3>2. CASE calls # <<>>
      BY <1>8, <2>2, <3>2, UpdateAlone DEF RemovalsAlone
    <3>3. QED
      BY <3>1, <3>2
  <2>6. QED
    BY <1>3, <1>4, <2>3, <2>4, <2>5
<1>9. QED
  BY <1>7, <1>8, UpdateCases

\* Where no save removes anything, the saves that are left fit the snapshot of
\* the one that is done: each of them lists all its matches.
LEMMA RestFits ==
    ASSUME ReadableInv, calls # <<>>, Head(calls).changes.removes = {},
           Commit(Head(calls)), UNCHANGED <<memory, updates>>,
           calls' = Tail(calls)
    PROVE  CallsFit' /\ CallsAscend' /\ RemovalsAlone'
<1> USE DEF ReadableInv
<1>1. calls \in Seq(CallType)
  BY DEF TypeInv, TypeOK
<1>2. PICK c \in CallType : c = Head(calls) /\ c = calls[1] /\ CallFits(c)
  BY <1>1, HeadIsCall DEF CallsFit
<1>3. /\ parts'.index = Present(c.next.docs)
      /\ parts.index \subseteq Present(c.next.docs)
  BY <1>2, CommitAgrees DEF CallFits
<1>4. ASSUME NEW i \in DOMAIN Tail(calls), NEW d \in CallType, d = Tail(calls)[i]
      PROVE  CallFits(d)'
  <2>1. i + 1 \in DOMAIN calls /\ d = calls[i + 1] /\ 1 < i + 1 /\ 1 < Len(calls)
    BY <1>1, <1>4
  <2>2. CallFits(d) /\ d.changes.removes = {}
    BY <2>1 DEF CallsFit, RemovalsAlone
  <2>3. Present(c.next.docs) \subseteq Present(d.next.docs)
    <3>1. 1 \in DOMAIN calls /\ i + 1 \in DOMAIN calls /\ 1 < i + 1
      BY <1>1, <2>1, HeadIsCall
    <3>2. Present(calls[1].next.docs) \subseteq Present(calls[i + 1].next.docs)
      BY <3>1 DEF CallsAscend
    <3>3. QED
      BY <1>2, <2>1, <3>2
  <2>4. /\ parts.index \subseteq parts'.index
        /\ parts'.index \subseteq Present(d.next.docs)
    BY <1>3, <2>3
  <2>5. /\ Present(d.next.docs) \subseteq d.changes.docs \cup parts.index
        /\ ~d.changes.index => parts.index = Present(d.next.docs)
    BY <2>2 DEF CallFits
  <2>6. /\ Present(d.next.docs) \subseteq d.changes.docs \cup parts'.index
        /\ ~d.changes.index => parts'.index = Present(d.next.docs)
    BY <2>4, <2>5
  <2>7. d.changes.removes = parts'.index \ Present(d.next.docs)
    BY <2>2, <2>4
  <2>8. memory' = memory /\ updates' = updates
    OBVIOUS
  <2>9. QED
    BY <2>2, <2>6, <2>7, <2>8 DEF CallFits
<1>5. \A i \in DOMAIN Tail(calls) : Tail(calls)[i] \in CallType
  BY <1>1, HeadIsCall
<1>6. CallsFit'
  BY <1>4, <1>5 DEF CallsFit
<1>7. CallsAscend'
  <2>1. ASSUME NEW i \in DOMAIN Tail(calls), NEW j \in DOMAIN Tail(calls), i < j
        PROVE  Present(Tail(calls)[i].next.docs)
                  \subseteq Present(Tail(calls)[j].next.docs)
    <3>1. /\ i + 1 \in DOMAIN calls /\ Tail(calls)[i] = calls[i + 1]
          /\ j + 1 \in DOMAIN calls /\ Tail(calls)[j] = calls[j + 1]
          /\ i + 1 < j + 1
      BY <1>1, <2>1
    <3>2. QED
      BY <3>1 DEF CallsAscend
  <2>2. QED
    BY <2>1 DEF CallsAscend
<1>8. RemovalsAlone'
  <2>1. ASSUME NEW i \in DOMAIN Tail(calls)
        PROVE  Tail(calls)[i].changes.removes = {}
    <3>1. i + 1 \in DOMAIN calls /\ Tail(calls)[i] = calls[i + 1] /\ 1 < Len(calls)
      BY <1>1
    <3>2. QED
      BY <3>1 DEF RemovalsAlone
  <2>2. QED
    BY <2>1 DEF RemovalsAlone
<1>9. QED
  BY <1>6, <1>7, <1>8

\* The snapshot after a save agrees with a disk that has all keys the snapshot
\* has, and with the array the save had.
LEMMA SnapshotAgrees ==
    ASSUME TypeInv, PartsAgree, ArraysAgree, NEW c \in CallType, CallFits(c),
           Commit(c), UNCHANGED <<memory, updates>>,
           \A d \in Present(c.next.docs) : disk'.docs[d] # 0
    PROVE  PartsAgree' /\ ArraysAgree'
<1>1. /\ parts'.index = Present(c.next.docs)
      /\ Present(parts'.docs) = Present(c.next.docs)
      /\ refs'.array = c.next.array
  BY CommitAgrees
<1>2. PartsAgree'
  BY <1>1 DEF PartsAgree, Present
<1>3. ArraysAgree'
  BY <1>1 DEF ArraysAgree, CallFits
<1>4. QED
  BY <1>2, <1>3

LEMMA ReadableSet ==
    ASSUME ReadableInv, TypeInv', MultiSet
    PROVE  ReadableInv'
<1> USE DEF ReadableInv
<1>1. calls \in Seq(CallType) /\ calls # <<>>
  BY DEF TypeInv, TypeOK, MultiSet
<1>2. PICK c \in CallType : c = Head(calls) /\ CallFits(c)
  BY <1>1, HeadIsCall DEF CallsFit
<1>3. disk' = Written(disk, c.next, c.changes) /\ UNCHANGED <<memory, updates>>
  BY <1>2 DEF MultiSet
<1>4. /\ \A d \in Ids : disk.docs[d] # 0 => disk'.docs[d] # 0
      /\ \A d \in Present(c.next.docs) : disk'.docs[d] # 0
      /\ AlwaysReadable'
      /\ disk'.index = IF c.changes.index THEN Present(c.next.docs) ELSE disk.index
  BY <1>2, <1>3, SetKeepsKeys
<1>5. CASE c.changes.removes = {}
  <2>1. Commit(c) /\ calls' = Tail(calls)
    BY <1>2, <1>5 DEF MultiSet
  <2>2. PartsAgree' /\ ArraysAgree'
    BY <1>2, <1>3, <1>4, <2>1, SnapshotAgrees
  <2>3. CallsFit' /\ CallsAscend' /\ RemovalsAlone'
    BY <1>1, <1>2, <1>3, <1>5, <2>1, RestFits
  <2>4. QED
    BY <1>4, <2>2, <2>3
<1>6. CASE c.changes.removes # {}
  <2>1. PICK d \in CallType : d = [c EXCEPT !.op = "remove"]
    BY DEF CallType
  <2>2. d.op = "remove" /\ d.next = c.next /\ d.changes = c.changes
    BY <2>1 DEF CallType
  <2>3. calls' = Append(<<>>, d) /\ UNCHANGED <<parts, refs>>
    <3>1. Len(calls) = 1
      BY <1>1, <1>2, <1>6, HeadIsCall DEF RemovalsAlone
    <3>2. Tail(calls) = <<>>
      BY <1>1, <3>1
    <3>3. /\ calls' = Append(Tail(calls), [Head(calls) EXCEPT !.op = "remove"])
          /\ UNCHANGED <<parts, refs>>
      <4>1. Head(calls).changes.removes # {}
        BY <1>2, <1>6
      <4>2. QED
        BY <4>1 DEF MultiSet
    <3>4. QED
      BY <1>2, <2>1, <3>2, <3>3
  <2>4. PartsAgree' /\ ArraysAgree'
    BY <1>3, <1>4, <2>3 DEF PartsAgree, ArraysAgree
  <2>5. disk'.index = Present(d.next.docs)
    BY <1>2, <1>4, <1>6, <2>2 DEF CallFits
  <2>6. CallFits(d)'
    BY <1>2, <1>3, <1>6, <2>2, <2>3, <2>5 DEF CallFits
  <2>7. Len(calls') = 1 /\ DOMAIN calls' = {1} /\ calls'[1] = d
    BY <2>3
  <2>8. CallsFit'
    BY <2>6, <2>7 DEF CallsFit
  <2>9. CallsAscend' /\ RemovalsAlone'
    BY <2>7 DEF CallsAscend, RemovalsAlone
  <2>10. QED
    BY <1>4, <2>4, <2>8, <2>9
<1>7. QED
  BY <1>5, <1>6

LEMMA ReadableRemove ==
    ASSUME ReadableInv, TypeInv', MultiRemove
    PROVE  ReadableInv'
<1> USE DEF ReadableInv
<1>1. calls \in Seq(CallType) /\ calls # <<>> /\ disk \in KeysType
  BY DEF TypeInv, TypeOK, MultiRemove
<1>2. PICK c \in CallType : c = Head(calls) /\ CallFits(c)
  BY <1>1, HeadIsCall DEF CallsFit
<1>3. /\ disk' = Removed(disk, c.changes) /\ Commit(c) /\ calls' = Tail(calls)
      /\ UNCHANGED <<memory, updates>> /\ c.op = "remove"
  BY <1>2 DEF MultiRemove
<1>4. calls' = <<>>
  <2>1. Len(calls) = 1
    BY <1>1, <1>2, <1>3, HeadIsCall DEF RemovalsAlone, CallFits
  <2>2. QED
    BY <1>1, <1>3, <2>1
<1>5. /\ disk'.index = disk.index
      /\ disk'.docs = [d \in Ids |-> IF d \in c.changes.removes THEN 0 ELSE disk.docs[d]]
  BY <1>1, <1>3 DEF Removed, KeysType
<1>6. /\ disk.index = Present(c.next.docs)
      /\ c.changes.removes \cap Present(c.next.docs) = {}
      /\ disk.index \subseteq Ids
  BY <1>1, <1>2, <1>3 DEF CallFits, KeysType
<1>7. \A d \in Present(c.next.docs) : disk'.docs[d] # 0
  BY <1>5, <1>6 DEF AlwaysReadable, Readable
<1>8. AlwaysReadable'
  BY <1>5, <1>6, <1>7 DEF AlwaysReadable, Readable
<1>9. PartsAgree' /\ ArraysAgree'
  BY <1>2, <1>3, <1>7, SnapshotAgrees
<1>10. CallsFit' /\ CallsAscend' /\ RemovalsAlone'
  <2>1. DOMAIN calls' = {}
    BY <1>4
  <2>2. QED
    BY <2>1 DEF CallsFit, CallsAscend, RemovalsAlone
<1>11. QED
  BY <1>8, <1>9, <1>10

LEMMA ReadableFail ==
    ASSUME ReadableInv, TypeInv', FailCall
    PROVE  ReadableInv'
<1> USE DEF ReadableInv
<1>1. calls \in Seq(CallType) /\ calls # <<>>
  BY DEF TypeInv, TypeOK, FailCall
<1>2. /\ calls' = Tail(calls)
      /\ UNCHANGED <<memory, parts, refs, disk, updates>>
  BY DEF FailCall, diskVars
<1>3. AlwaysReadable' /\ PartsAgree' /\ ArraysAgree'
  BY <1>2 DEF AlwaysReadable, Readable, PartsAgree, ArraysAgree
<1>4. /\ Len(calls') = Len(calls) - 1 /\ Len(calls) \in Nat
      /\ \A i \in DOMAIN calls' :
            /\ i \in Nat /\ i + 1 \in DOMAIN calls
            /\ calls'[i] = calls[i + 1] /\ calls'[i] \in CallType
  BY <1>1, <1>2, HeadIsCall
<1>5. CallsFit'
  <2>1. ASSUME NEW i \in DOMAIN calls', NEW d \in CallType, d = calls'[i]
        PROVE  CallFits(d)'
    <3>1. CallFits(d)
      BY <1>4, <2>1 DEF CallsFit
    <3>2. QED
      BY <1>2, <3>1 DEF CallFits
  <2>2. QED
    BY <1>4, <2>1 DEF CallsFit
<1>6. CallsAscend'
  <2>1. ASSUME NEW i \in DOMAIN calls', NEW j \in DOMAIN calls', i < j
        PROVE  Present(calls'[i].next.docs) \subseteq Present(calls'[j].next.docs)
    <3>1. /\ i + 1 \in DOMAIN calls /\ calls'[i] = calls[i + 1]
          /\ j + 1 \in DOMAIN calls /\ calls'[j] = calls[j + 1]
          /\ i + 1 < j + 1
      BY <1>4, <2>1
    <3>2. QED
      BY <3>1 DEF CallsAscend
  <2>2. QED
    BY <2>1 DEF CallsAscend
<1>7. RemovalsAlone'
  <2>1. ASSUME NEW i \in DOMAIN calls' PROVE calls'[i].changes.removes = {}
    <3>1. 1 < Len(calls)
      BY <1>1, <1>2, <2>1
    <3>2. QED
      BY <1>4, <2>1, <3>1 DEF RemovalsAlone
  <2>2. QED
    BY <2>1 DEF RemovalsAlone
<1>8. QED
  BY <1>3, <1>5, <1>6, <1>7

\* Where no save is under way only the snapshot and the disk matter.
LEMMA NoCalls ==
    ASSUME calls = <<>>
    PROVE  CallsFit /\ CallsAscend /\ RemovalsAlone
<1>1. DOMAIN calls = {}
  OBVIOUS
<1>2. QED
  BY <1>1 DEF CallsFit, CallsAscend, RemovalsAlone

LEMMA ReadableStartStop ==
    ASSUME ReadableInv, TypeInv', LoadFromDisk \/ LoadFails \/ Kill
    PROVE  ReadableInv'
<1> USE DEF ReadableInv
<1>1. calls' = <<>>
  BY DEF TypeInv, LoadFromDisk, LoadFails, Kill
<1>2. CallsFit' /\ CallsAscend' /\ RemovalsAlone'
  <2>1. DOMAIN calls' = {}
    BY <1>1
  <2>2. QED
    BY <2>1 DEF CallsFit, CallsAscend, RemovalsAlone
<1>3. disk' = disk /\ updates' = updates
  BY DEF LoadFromDisk, LoadFails, Kill, diskVars
<1>4. AlwaysReadable'
  BY <1>3 DEF AlwaysReadable, Readable
<1>5. CASE LoadFromDisk
  <2>1. /\ memory'.array = savedAt /\ memory'.docs = ReadDocs
        /\ parts'.docs = ReadDocs /\ parts'.index = disk.index
        /\ refs'.array = savedAt
    BY <1>5 DEF LoadFromDisk
  <2>2. disk.index \subseteq Ids /\ savedAt <= updates
    BY DEF TypeInv, TypeOK, KeysType
  <2>3. Present(ReadDocs) = disk.index
    BY <2>2 DEF Present, ReadDocs, AlwaysReadable, Readable
  <2>4. \A d \in Ids : ReadDocs[d] # 0 => disk.docs[d] # 0
    BY DEF ReadDocs
  <2>5. QED
    BY <1>2, <1>3, <1>4, <2>1, <2>2, <2>3, <2>4 DEF PartsAgree, ArraysAgree
<1>6. CASE LoadFails
  BY <1>2, <1>3, <1>4, <1>6 DEF LoadFails, PartsAgree, ArraysAgree
<1>7. CASE Kill
  <2>1. memory' = emptyStore /\ parts' = NoParts /\ refs' = NoRefs
    BY <1>7 DEF Kill
  <2>2. Present(NoDocs) = {} /\ \A d \in Ids : NoDocs[d] = 0
    BY DEF Present, NoDocs
  <2>3. updates \in Nat
    BY DEF TypeInv, TypeOK
  <2>4. QED
    BY <1>2, <1>3, <1>4, <2>1, <2>2, <2>3
    DEF PartsAgree, ArraysAgree, emptyStore, NoParts, NoRefs
<1>8. QED
  BY <1>5, <1>6, <1>7

LEMMA ReadableInit == Init => ReadableInv
<1> SUFFICES ASSUME Init PROVE ReadableInv
  OBVIOUS
<1>1. /\ memory = emptyStore /\ parts = NoParts /\ refs = NoRefs /\ disk = NoParts
      /\ updates = 0 /\ calls = <<>>
  BY DEF Init
<1>2. Present(NoDocs) = {} /\ \A d \in Ids : NoDocs[d] = 0
  BY DEF Present, NoDocs
<1>3. AlwaysReadable /\ PartsAgree /\ ArraysAgree
  BY <1>1, <1>2
  DEF AlwaysReadable, Readable, PartsAgree, ArraysAgree, emptyStore, NoParts, NoRefs
<1>4. QED
  BY <1>1, <1>3, TypeInit, NoCalls DEF ReadableInv

LEMMA ReadableStep ==
    ASSUME ~RemovalsOverlap, ReadableInv, [Next]_vars
    PROVE  ReadableInv'
<1>1. TypeInv'
  BY TypeStep DEF ReadableInv
<1>2. CASE UNCHANGED vars
  BY <1>1, <1>2
  DEF vars, appVars, diskVars, ReadableInv, AlwaysReadable, Readable,
      PartsAgree, ArraysAgree, CallsFit, CallFits, CallsAscend, RemovalsAlone
<1>3. QED
  BY <1>1, <1>2, ReadableUpdate, ReadableSet, ReadableRemove, ReadableFail,
     ReadableStartStop DEF Next

\* However saves overlap, fail, or are cut short by a kill, a start finds a
\* store it can read, provided that saves that remove keys overlap no others.
THEOREM StoreAlwaysReadable ==
    ASSUME ~RemovalsOverlap
    PROVE  Spec => []AlwaysReadable
<1>1. ReadableInv => AlwaysReadable
  BY DEF ReadableInv
<1>2. QED
  BY <1>1, ReadableInit, ReadableStep, PTL DEF Spec

-----------------------------------------------------------------------------
(***************************************************************************)
(* Every save reaches the disk whole, in order, and is not forgotten       *)
(***************************************************************************)

\* The session writes what it shows.
Saving == running /\ ~readOnly

\* What one part holds of the matches of a store, and of the rest, is no newer.
Older(from, to) ==
    /\ \A d \in Present(to.docs) : from.docs[d] <= to.docs[d]
    /\ from.rest <= to.rest

Bounded(s) == s.rest <= updates /\ \A d \in Ids : s.docs[d] <= updates

NumbersBounded ==
    /\ Bounded(disk) /\ Bounded(memory)
    /\ \A i \in DOMAIN calls : Bounded(calls[i].next)

\* The snapshot is never ahead of the disk.
SnapshotBehind ==
    /\ parts.rest <= disk.rest
    /\ \A d \in Ids : parts.docs[d] <= disk.docs[d]

\* The objects of the last commit hold what the snapshot has.
RefsAgree ==
    /\ SameRest(refs.rest, parts.rest)
    /\ \A d \in Ids : parts.docs[d] # 0 => SameDoc(d, refs.docs[d], parts.docs[d])

\* From the snapshot over the disk and the saves under way to memory no part
\* goes back to a value once it has another.
DocChain(d) == DocCopies(d) \cup {memory.docs[d]}
RestChain   == RestCopies \cup {memory.rest}

Steady ==
    /\ \A d \in Ids : \A k, m, n \in DocChain(d) :
          k <= m /\ m <= n /\ SameDoc(d, k, n) => SameDoc(d, m, n)
    /\ \A k, m, n \in RestChain :
          k <= m /\ m <= n /\ SameRest(k, n) => SameRest(m, n)

\* From the disk over the saves under way to memory everything gets newer.
CallsInOrder ==
    /\ Saving => Older(disk, memory) /\ savedAt <= memory.at
    /\ \A i \in DOMAIN calls :
        /\ Older(disk, calls[i].next) /\ Older(calls[i].next, memory)
        /\ calls[i].next.at <= memory.at /\ calls[i].next.at > 0
        /\ calls[i].op = "set" => savedAt < calls[i].next.at
    /\ \A i, j \in DOMAIN calls :
        i < j => Older(calls[i].next, calls[j].next) /\ calls[i].next.at < calls[j].next.at

\* The snapshot has, also by now, what a save does not write.
Unwritten ==
    \A i \in DOMAIN calls :
        /\ \A d \in Present(calls[i].next.docs) \ calls[i].changes.docs :
              SameDoc(d, parts.docs[d], calls[i].next.docs[d])
        /\ ~calls[i].changes.rest => SameRest(parts.rest, calls[i].next.rest)

\* The index on the disk is that of the snapshot, or the snapshot lists a match
\* that is gone: the next save will write the index.
IndexKept ==
    /\ ~running => memory = emptyStore
    /\ Saving =>
        /\ Present(memory.docs) \cap gone = {}
        /\ parts.index \subseteq Present(memory.docs) \union gone
        /\ disk.index = parts.index \/ parts.index \cap gone # {}

\* A start would find what store s holds.
OnDisk(s) ==
    /\ DocValues(ReadDocs) = DocValues(s.docs)
    /\ disk.index = Present(s.docs)
    /\ SameRest(disk.rest, s.rest)

\* What a save writes is on the disk.
Landed(c) ==
    /\ \A d \in c.changes.docs : disk.docs[d] = c.next.docs[d]
    /\ c.changes.rest => disk.rest = c.next.rest

\* A save that removes is that of memory, and its keys go last.
RemovalsLast ==
    \A i \in DOMAIN calls :
        /\ calls[i].changes.removes # {} => calls[i].next = memory
        /\ calls[i].op = "remove" => OnDisk(memory) /\ Landed(calls[i])

\* Memory is on the disk, or the last save under way is for it, or a save that
\* is newer than all under way failed.
Answered ==
    Saving =>
        \/ OnDisk(memory)
        \/ /\ calls # <<>>
           /\ calls[Len(calls)].next.docs = memory.docs
           /\ calls[Len(calls)].next.rest = memory.rest
        \/ failed # 0 /\ \A i \in DOMAIN calls : calls[i].next.at < failed

Removing == calls # <<>> /\ calls[1].op = "remove"

\* Where no call ever failed the snapshot knows every key but those of a killed
\* session.
KeysKnown ==
    Saving /\ faults = 0 =>
        /\ ~Removing => disk.index = parts.index
        /\ \A d \in Ids : disk.docs[d] # 0 =>
              d \in parts.index \union leftOver \/ (Removing /\ d \in Present(memory.docs))

OrderInv ==
    /\ NumbersBounded /\ SnapshotBehind /\ CallsInOrder
    /\ RefsAgree /\ Unwritten /\ (Saving => Steady)

SavesInv ==
    ReadableInv /\ OrderInv /\ IndexKept /\ RemovalsLast /\ Answered /\ KeysKnown

\* What an update does, where removals are alone and removed matches stay away.
LEMMA UpdateFacts ==
    ASSUME ~RemovalsOverlap, ~RevertsOverlap, Returning = {}, TypeInv, AnyUpdate
    PROVE  /\ running
           /\ UNCHANGED <<running, readOnly, parts, refs, disk, savedAt, faults, failed, leftOver>>
           /\ memory'.rest \in {memory.rest, updates + 1}
           /\ \A d \in Ids : memory'.docs[d] \in {memory.docs[d], 0, updates + 1}
           /\ Present(memory'.docs) \cap gone = {}
           /\ gone' = gone \union (Present(memory.docs) \ Present(memory'.docs))
           /\ ~readOnly => NothingReverts(memory')
<1>1. PICK docs \in [Ids -> 0..(updates + 1)], rest \in {memory.rest, updates + 1} :
          /\ \A d \in Ids : docs[d] \in {memory.docs[d], 0, updates + 1}
          /\ UpdateStore(docs, rest)
  BY DEF AnyUpdate
<1>2. /\ memory' = [at |-> updates', docs |-> docs, rest |-> rest,
                    array |-> IF docs = memory.docs THEN memory.array ELSE updates']
      /\ running /\ MayStart(memory')
      /\ gone' = gone \union (Present(memory.docs) \ Present(docs))
      /\ UNCHANGED <<running, readOnly, parts, refs, diskVars, faults, failed, leftOver>>
  BY <1>1 DEF UpdateStore
<1>3. memory'.docs = docs /\ memory'.rest = rest
  BY <1>2
<1>4. Present(memory'.docs) \cap gone = {} /\ (~readOnly => NothingReverts(memory'))
  BY <1>2 DEF MayStart
<1> QED BY <1>1, <1>2, <1>3, <1>4 DEF diskVars

\* An update makes a save, or there is nothing to save.
LEMMA SaveCases ==
    ASSUME TypeInv, AnyUpdate, ~readOnly
    PROVE  \/ /\ calls' = calls
              /\ ~Diff(memory').rest /\ ~Diff(memory').index
              /\ Diff(memory').docs = {} /\ Diff(memory').removes = {}
           \/ \E c \in CallType :
                /\ c.next = memory' /\ c.changes = Diff(memory')
                /\ c.op = "remove" => c.changes.removes # {} /\ ~c.changes.index
                /\ calls' = Append(calls, c)
<1>1. memory' \in StoreType
  BY UpdateCases
<1>2. PICK x \in ChangesType : x = Diff(memory')
  BY <1>1, DiffType
<1>3. calls' = calls \o FirstCall(memory', x)
  BY <1>2 DEF AnyUpdate, UpdateStore, Persist
<1>4. calls \in Seq(CallType)
  BY DEF TypeInv, TypeOK
<1>5. CASE x.rest \/ x.index \/ x.docs # {}
  <2>1. PICK c : c = [op |-> "set", next |-> memory', changes |-> x]
    OBVIOUS
  <2>2. c \in CallType /\ FirstCall(memory', x) = <<c>>
    BY <1>1, <1>2, <1>5, <2>1 DEF CallType, ChangesType, FirstCall
  <2>3. calls' = Append(calls, c)
    BY <1>3, <1>4, <2>2
  <2> QED BY <1>2, <2>1, <2>2, <2>3
<1>6. CASE ~ (x.rest \/ x.index \/ x.docs # {}) /\ x.removes # {}
  <2>1. PICK c : c = [op |-> "remove", next |-> memory', changes |-> x]
    OBVIOUS
  <2>2. c \in CallType /\ FirstCall(memory', x) = <<c>>
    BY <1>1, <1>2, <1>6, <2>1 DEF CallType, ChangesType, FirstCall
  <2>3. calls' = Append(calls, c)
    BY <1>3, <1>4, <2>2
  <2> QED BY <1>2, <1>6, <2>1, <2>2, <2>3
<1>7. CASE ~ (x.rest \/ x.index \/ x.docs # {}) /\ x.removes = {}
  <2>1. FirstCall(memory', x) = <<>>
    BY <1>7 DEF FirstCall
  <2>2. calls' = calls
    BY <1>3, <1>4, <2>1
  <2> QED BY <1>2, <1>7, <2>2
<1> QED BY <1>5, <1>6, <1>7

\* The numbers, and the calls, that the arithmetic is about.
LEMMA StoreNumbers ==
    ASSUME TypeInv
    PROVE  /\ updates \in Nat /\ savedAt \in 0..updates /\ failed \in 0..updates
           /\ memory \in StoreType /\ memory.at <= updates
           /\ disk.docs \in [Ids -> Objects] /\ disk.rest \in Objects /\ disk.index \subseteq Ids
           /\ parts.docs \in [Ids -> Objects] /\ parts.rest \in Objects
           /\ parts.index \subseteq Ids
           /\ refs.docs \in [Ids -> Objects] /\ refs.rest \in Objects
           /\ disk.docs \in [Ids -> Nat] /\ disk.rest \in Nat
           /\ parts.docs \in [Ids -> Nat] /\ parts.rest \in Nat
           /\ calls \in Seq(CallType) /\ DOMAIN calls = 1..Len(calls) /\ Len(calls) \in Nat
           /\ \A i \in DOMAIN calls : /\ calls[i] \in CallType
                                      /\ calls[i].next \in StoreType
                                      /\ calls[i].next.at <= updates
           /\ calls # <<>> => Saving
<1>1. calls \in Seq(CallType)
  BY DEF TypeInv, TypeOK
<1>2. DOMAIN calls = 1..Len(calls) /\ Len(calls) \in Nat
      /\ \A i \in DOMAIN calls : calls[i] \in CallType
  BY <1>1
<1>3. \A i \in DOMAIN calls : calls[i].next \in StoreType
  BY <1>2 DEF CallType
<1>4. /\ disk.docs \in [Ids -> Objects] /\ disk.rest \in Objects
      /\ parts.docs \in [Ids -> Objects] /\ parts.rest \in Objects
      /\ refs.docs \in [Ids -> Objects] /\ refs.rest \in Objects
  BY DEF TypeInv, TypeOK, KeysType, RefsType
<1>5. /\ disk.docs \in [Ids -> Nat] /\ disk.rest \in Nat
      /\ parts.docs \in [Ids -> Nat] /\ parts.rest \in Nat
  BY <1>4, ObjectNumbers
<1> QED BY <1>1, <1>2, <1>3, <1>4, <1>5 DEF TypeInv, TypeOK, KeysType, Saving

LEMMA StoreFields ==
    ASSUME NEW s \in StoreType
    PROVE  /\ s.docs \in [Ids -> Objects] /\ s.rest \in Objects /\ s.at \in Nat
           /\ s.docs \in [Ids -> Nat] /\ s.rest \in Nat
BY ObjectNumbers DEF StoreType

\* What is older than memory is older than the store an update makes of it.
LEMMA OlderThanNew ==
    ASSUME ~RemovalsOverlap, ~RevertsOverlap, Returning = {}, TypeInv, AnyUpdate,
           NEW s, s.docs \in [Ids -> Nat], s.rest \in Nat,
           Bounded(s), Older(s, memory)
    PROVE  Older(s, memory')
<1>1. /\ memory'.rest \in {memory.rest, updates + 1}
      /\ \A d \in Ids : memory'.docs[d] \in {memory.docs[d], 0, updates + 1}
  BY UpdateFacts
<1>2. updates \in Nat
  BY StoreNumbers
<1>3. s.rest <= memory'.rest
  BY <1>1, <1>2 DEF Bounded, Older
<1>4. ASSUME NEW d \in Present(memory'.docs)
      PROVE  s.docs[d] <= memory'.docs[d]
  <2>1. d \in Ids /\ memory'.docs[d] # 0
    BY DEF Present
  <2>2. s.docs[d] \in Nat /\ s.docs[d] <= updates
    BY <2>1 DEF Bounded
  <2>3. CASE memory'.docs[d] = updates + 1
    BY <1>2, <2>2, <2>3
  <2>4. CASE memory'.docs[d] = memory.docs[d]
    BY <2>1, <2>4 DEF Older, Present
  <2> QED BY <1>1, <2>1, <2>3, <2>4
<1> QED BY <1>3, <1>4 DEF Older

\* The snapshot has what the new store has where nothing says otherwise.
LEMMA NewUnwritten ==
    ASSUME TypeInv, RefsAgree, memory' \in StoreType
    PROVE  /\ \A d \in Present(memory'.docs) \ Diff(memory').docs :
                 SameDoc(d, parts.docs[d], memory'.docs[d])
           /\ ~Diff(memory').rest => SameRest(parts.rest, memory'.rest)
<1> PICK m \in StoreType : m = memory'
  OBVIOUS
<1>1. /\ Diff(m).rest <=> ~parts.known \/ (refs.rest # m.rest /\ ~SameRest(parts.rest, m.rest))
      /\ Diff(m).docs = {d \in Present(m.docs) :
                  /\ refs.docs[d] # m.docs[d] \/ parts.docs[d] = 0
                  /\ ~SameDoc(d, parts.docs[d], m.docs[d])}
  BY DEF Diff
<1>2. ASSUME NEW d \in Present(m.docs) \ Diff(m).docs
      PROVE  SameDoc(d, parts.docs[d], m.docs[d])
  <2>1. \/ refs.docs[d] = m.docs[d] /\ parts.docs[d] # 0
        \/ SameDoc(d, parts.docs[d], m.docs[d])
    BY <1>1
  <2>2. d \in Ids
    BY DEF Present
  <2> QED BY <2>1, <2>2 DEF RefsAgree, SameDoc
<1>3. ASSUME ~Diff(m).rest
      PROVE  SameRest(parts.rest, m.rest)
  BY <1>1, <1>3 DEF RefsAgree, SameRest
<1> QED BY <1>2, <1>3

\* The copies of a match and of the rest are numbers no greater than updates.
LEMMA CopiesBounded ==
    ASSUME TypeInv, NumbersBounded, SnapshotBehind
    PROVE  /\ \A d \in Ids : \A n \in DocCopies(d) : n \in Nat /\ n <= updates
           /\ \A n \in RestCopies : n \in Nat /\ n <= updates
           /\ \A d \in Ids : memory.docs[d] \in Nat
           /\ memory.rest \in Nat
<1>1. /\ updates \in Nat
      /\ disk.docs \in [Ids -> Nat] /\ disk.rest \in Nat
      /\ parts.docs \in [Ids -> Nat] /\ parts.rest \in Nat
      /\ memory \in StoreType
      /\ \A i \in DOMAIN calls : calls[i].next \in StoreType
  BY StoreNumbers
<1>2. \A i \in DOMAIN calls : calls[i].next.docs \in [Ids -> Nat] /\ calls[i].next.rest \in Nat
  BY <1>1, StoreFields
<1>3. memory.docs \in [Ids -> Nat] /\ memory.rest \in Nat
  BY <1>1, StoreFields
<1>4. ASSUME NEW d \in Ids, NEW n \in DocCopies(d)
      PROVE  n \in Nat /\ n <= updates
  <2>1. /\ disk.docs[d] \in Nat /\ parts.docs[d] \in Nat
        /\ disk.docs[d] <= updates /\ parts.docs[d] <= disk.docs[d]
    BY <1>1 DEF NumbersBounded, Bounded, SnapshotBehind
  <2>2. \A i \in DOMAIN calls : calls[i].next.docs[d] \in Nat /\ calls[i].next.docs[d] <= updates
    BY <1>2 DEF NumbersBounded, Bounded
  <2> QED BY <1>1, <2>1, <2>2 DEF DocCopies
<1>5. ASSUME NEW n \in RestCopies
      PROVE  n \in Nat /\ n <= updates
  <2>1. disk.rest <= updates /\ parts.rest <= disk.rest
    BY DEF NumbersBounded, Bounded, SnapshotBehind
  <2>2. \A i \in DOMAIN calls : calls[i].next.rest \in Nat /\ calls[i].next.rest <= updates
    BY <1>2 DEF NumbersBounded, Bounded
  <2> QED BY <1>1, <2>1, <2>2 DEF RestCopies
<1> QED BY <1>3, <1>4, <1>5

\* An update adds one object to the chain of a part, newer than the others, or
\* none; it does not have the value of one that another value follows.
LEMMA SteadyUpdate ==
    ASSUME TypeInv, NumbersBounded, SnapshotBehind, Steady, NothingReverts(memory'),
           memory'.rest \in {memory.rest, updates + 1},
           \A d \in Ids : memory'.docs[d] \in {memory.docs[d], 0, updates + 1},
           \A d \in Ids : DocChain(d)' \subseteq DocCopies(d) \cup {memory'.docs[d]},
           RestChain' \subseteq RestCopies \cup {memory'.rest}
    PROVE  Steady'
<1>1. /\ \A d \in Ids : \A n \in DocCopies(d) : n \in Nat /\ n <= updates
      /\ \A n \in RestCopies : n \in Nat /\ n <= updates
      /\ \A d \in Ids : memory.docs[d] \in Nat
      /\ memory.rest \in Nat /\ updates \in Nat
  BY CopiesBounded, StoreNumbers
<1>2. ASSUME NEW d \in Ids, NEW k \in DocChain(d)', NEW m \in DocChain(d)',
             NEW n \in DocChain(d)', k <= m, m <= n, SameDoc(d, k, n)
      PROVE  SameDoc(d, m, n)
  <2> DEFINE z == memory'.docs[d]
  <2>1. /\ k \in DocCopies(d) \cup {z} /\ m \in DocCopies(d) \cup {z}
        /\ n \in DocCopies(d) \cup {z}
    BY <1>2
  <2>2. z \in {memory.docs[d], 0, updates + 1} /\ z \in Nat
    BY <1>1
  <2>3. /\ k \in Nat /\ m \in Nat /\ n \in Nat
        /\ \A x \in DocCopies(d) : x \in Nat /\ x <= updates
    BY <1>1, <2>1, <2>2
  <2>4. CASE n \in DocCopies(d)
    <3>1. k \in DocChain(d) \cup {0} /\ m \in DocChain(d) \cup {0}
      BY <1>1, <1>2, <2>1, <2>2, <2>3, <2>4 DEF DocChain
    <3>2. CASE m = 0
      <4>1. k = m
        BY <1>2, <2>3, <3>2
      <4> QED BY <1>2, <4>1
    <3>3. CASE m # 0 /\ k = 0
      <4>1. CASE k \in DocChain(d)
        BY <1>2, <2>4, <3>1, <3>3, <4>1 DEF Steady, DocChain
      <4>2. CASE k = z
        <5>1. n \in Objects /\ n # 0
          <6>1. n \in Nat /\ n <= updates /\ updates <= MaxUpdates /\ MaxUpdates \in Nat
            BY <2>3, <2>4, StorePersistenceAssumption DEF TypeInv
          <6> QED BY <1>1, <1>2, <2>3, <3>3, <6>1 DEF Objects
        <5> QED BY <1>2, <3>3, <5>1, AbsentDiffers
      <4> QED BY <2>1, <4>1, <4>2 DEF DocChain
    <3>4. CASE m # 0 /\ k # 0
      BY <1>2, <2>4, <3>1, <3>4 DEF Steady, DocChain
    <3> QED BY <3>2, <3>3, <3>4
  <2>5. CASE n = z
    <3>1. CASE m = z
      BY <2>5, <3>1 DEF SameDoc
    <3>2. CASE z = 0
      <4>1. m = z
        BY <1>2, <2>3, <2>5, <3>2
      <4> QED BY <3>1, <4>1
    <3>3. CASE m # z /\ z # 0
      <4>1. d \in Present(memory'.docs)
        BY <3>3 DEF Present
      <4>2. m \in DocCopies(d) /\ k \in DocCopies(d)
        BY <1>2, <2>1, <2>3, <2>5, <3>3
      <4>3. \A x, y \in DocCopies(d) : x <= y /\ SameDoc(d, x, z) => SameDoc(d, y, z)
        BY <4>1 DEF NothingReverts
      <4> QED BY <1>2, <2>5, <4>2, <4>3
    <3> QED BY <3>1, <3>2, <3>3
  <2> QED BY <2>1, <2>4, <2>5
<1>3. ASSUME NEW k \in RestChain', NEW m \in RestChain', NEW n \in RestChain',
             k <= m, m <= n, SameRest(k, n)
      PROVE  SameRest(m, n)
  <2> DEFINE z == memory'.rest
  <2>1. /\ k \in RestCopies \cup {z} /\ m \in RestCopies \cup {z}
        /\ n \in RestCopies \cup {z}
    BY <1>3
  <2>2. z \in {memory.rest, updates + 1} /\ z \in Nat
    BY <1>1
  <2>3. k \in Nat /\ m \in Nat /\ n \in Nat
    BY <1>1, <2>1, <2>2
  <2>4. CASE n \in RestCopies
    <3>1. k \in RestChain /\ m \in RestChain /\ n \in RestChain
      BY <1>1, <1>3, <2>1, <2>2, <2>3, <2>4 DEF RestChain
    <3> QED BY <1>3, <3>1 DEF Steady
  <2>5. CASE n = z
    <3>1. CASE m = z
      BY <2>5, <3>1 DEF SameRest
    <3>2. CASE m # z
      <4>1. m \in RestCopies /\ k \in RestCopies
        BY <1>3, <2>1, <2>3, <2>5, <3>2
      <4> QED BY <1>3, <2>5, <4>1 DEF NothingReverts
    <3> QED BY <3>1, <3>2
  <2> QED BY <2>1, <2>4, <2>5
<1>4. /\ \A d \in Ids : \A k, m, n \in DocChain(d)' :
            k <= m /\ m <= n /\ SameDoc(d, k, n) => SameDoc(d, m, n)
      /\ \A k, m, n \in RestChain' :
            k <= m /\ m <= n /\ SameRest(k, n) => SameRest(m, n)
  BY <1>2, <1>3
<1> QED BY <1>4 DEF Steady, SameDoc, SameRest

\* A chain that loses objects, or gets that of a removed match, stays steady.
LEMMA SteadyKept ==
    ASSUME TypeInv, NumbersBounded, SnapshotBehind, Steady,
           \A d \in Ids : DocChain(d)' \subseteq DocChain(d) \cup {0},
           RestChain' \subseteq RestChain
    PROVE  Steady'
<1>1. \A d \in Ids : \A n \in DocChain(d) : n \in Nat /\ n \in Objects
  <2>1. updates \in Nat /\ updates <= MaxUpdates /\ MaxUpdates \in Nat
    BY StoreNumbers, StorePersistenceAssumption DEF TypeInv
  <2>2. \A d \in Ids : memory.docs[d] \in Objects /\ memory.docs[d] \in Nat
    BY StoreNumbers, StoreFields
  <2> QED BY <2>1, <2>2, CopiesBounded DEF DocChain, Objects
<1>2. ASSUME NEW d \in Ids, NEW k \in DocChain(d)', NEW m \in DocChain(d)',
             NEW n \in DocChain(d)', k <= m, m <= n, SameDoc(d, k, n)
      PROVE  SameDoc(d, m, n)
  <2>1. /\ k \in DocChain(d) \cup {0} /\ m \in DocChain(d) \cup {0}
        /\ n \in DocChain(d) \cup {0}
    BY <1>2
  <2>2. k \in Nat /\ m \in Nat /\ n \in Nat /\ n \in Objects
    BY <1>1, <2>1, ObjectNumbers
  <2>3. CASE m = 0
    <3>1. k = m
      BY <1>2, <2>2, <2>3
    <3> QED BY <1>2, <3>1
  <2>4. CASE m # 0 /\ k = 0
    <3>1. n # 0
      BY <1>2, <2>2, <2>4
    <3> QED BY <1>2, <2>2, <2>4, <3>1, AbsentDiffers
  <2>5. CASE m # 0 /\ k # 0
    <3>1. n # 0
      BY <1>2, <2>2, <2>5
    <3> QED BY <1>2, <2>1, <2>5, <3>1 DEF Steady
  <2> QED BY <2>3, <2>4, <2>5
<1>3. /\ \A d \in Ids : \A k, m, n \in DocChain(d)' :
            k <= m /\ m <= n /\ SameDoc(d, k, n) => SameDoc(d, m, n)
      /\ \A k, m, n \in RestChain' :
            k <= m /\ m <= n /\ SameRest(k, n) => SameRest(m, n)
  BY <1>2 DEF Steady
<1> QED BY <1>3 DEF Steady, SameDoc, SameRest

\* An update makes no call, or one that sets keys: the index has to be written
\* where keys are removed.
LEMMA UpdateCalls ==
    ASSUME ~RemovalsOverlap, ~RevertsOverlap, Returning = {}, SavesInv, ReadableInv', AnyUpdate
    PROVE  /\ \A i \in DOMAIN calls : calls[i].op # "remove" /\ calls[i].changes.removes = {}
           /\ \/ calls' = calls
              \/ \E c \in CallType :
                    /\ Saving /\ c.next = memory' /\ c.changes = Diff(memory') /\ c.op = "set"
                    /\ calls' = Append(calls, c)
<1>1. running /\ TypeInv /\ PartsAgree /\ ArraysAgree' /\ memory' \in StoreType
      /\ UNCHANGED <<parts, refs, disk>>
  BY UpdateFacts, UpdateCases DEF SavesInv, ReadableInv
<1>2. DOMAIN calls = 1..Len(calls) /\ Len(calls) \in Nat
      /\ (calls # <<>> => Saving)
  BY <1>1, StoreNumbers
<1>3. \A i \in DOMAIN calls : calls[i].op # "remove" /\ calls[i].changes.removes = {}
  BY <1>2, UpdateAlone DEF SavesInv, ReadableInv, CallsFit, CallFits
<1>4. CASE readOnly
  BY <1>3, <1>4, UpdateCases DEF SavesInv, ReadableInv
<1>5. ASSUME ~readOnly, NEW c \in CallType, c.changes = Diff(memory'), c.next = memory',
             c.op = "remove" => c.changes.removes # {} /\ ~c.changes.index,
             calls' = Append(calls, c)
      PROVE  c.op = "set"
  <2>1. CallFits(c)'
    BY <1>1, <1>5, NewCallFits DEF SavesInv, ReadableInv
  <2>2. c.op \in {"set", "remove"}
    BY DEF CallType
  <2> QED BY <1>5, <2>1, <2>2 DEF CallFits
<1> QED BY <1>1, <1>3, <1>4, <1>5, SaveCases DEF Saving

LEMMA UpdateKeepsSaves ==
    ASSUME ~RemovalsOverlap, ~RevertsOverlap, Returning = {}, SavesInv, ReadableInv', AnyUpdate
    PROVE  SavesInv'
<1>1. /\ running /\ TypeInv /\ TypeInv'
      /\ UNCHANGED <<running, readOnly, parts, refs, disk, savedAt, faults, failed, leftOver>>
      /\ memory'.rest \in {memory.rest, updates + 1}
      /\ \A d \in Ids : memory'.docs[d] \in {memory.docs[d], 0, updates + 1}
      /\ Present(memory'.docs) \cap gone = {}
      /\ gone' = gone \union (Present(memory.docs) \ Present(memory'.docs))
      /\ memory' \in StoreType /\ memory'.at = updates + 1 /\ updates' = updates + 1
  BY UpdateFacts, UpdateCases DEF SavesInv, ReadableInv
<1>2. /\ updates \in Nat /\ memory \in StoreType /\ memory.at <= updates
      /\ disk.docs \in [Ids -> Nat] /\ disk.rest \in Nat
      /\ savedAt \in 0..updates
      /\ DOMAIN calls = 1..Len(calls) /\ Len(calls) \in Nat /\ calls \in Seq(CallType)
      /\ \A i \in DOMAIN calls : calls[i] \in CallType /\ calls[i].next \in StoreType
                                 /\ calls[i].next.at <= updates
      /\ calls # <<>> => Saving
  BY <1>1, StoreNumbers
<1>3. memory.docs \in [Ids -> Nat] /\ memory.rest \in Nat
      /\ memory'.docs \in [Ids -> Nat] /\ memory'.rest \in Nat /\ memory.at \in Nat
  BY <1>1, <1>2, StoreFields
<1>4. \A i \in DOMAIN calls : /\ calls[i].next.docs \in [Ids -> Nat]
                              /\ calls[i].next.rest \in Nat /\ calls[i].next.at \in Nat
  BY <1>2, StoreFields
<1>5. \A i \in DOMAIN calls : calls[i].op # "remove" /\ calls[i].changes.removes = {}
  BY UpdateCalls
<1>6. \/ calls' = calls
      \/ \E c \in CallType :
            /\ Saving /\ c.next = memory' /\ c.changes = Diff(memory') /\ c.op = "set"
            /\ calls' = Append(calls, c)
  BY UpdateCalls
<1>7. \A i \in DOMAIN calls' : \/ i \in DOMAIN calls /\ calls'[i] = calls[i]
                               \/ /\ Saving
                                  /\ i = Len(calls) + 1 /\ calls'[i] \in CallType
                                  /\ calls'[i].next = memory'
                                  /\ calls'[i].changes = Diff(memory')
                                  /\ calls'[i].op = "set"
  BY <1>2, <1>6
<1>8. NumbersBounded'
  <2>1. ASSUME NEW s, s.docs \in [Ids -> Nat], s.rest \in Nat, Bounded(s)
        PROVE  s.rest <= updates' /\ \A d \in Ids : s.docs[d] <= updates'
    BY <1>1, <1>2, <2>1 DEF Bounded
  <2>2. Bounded(disk)'
    <3>1. Bounded(disk) /\ disk' = disk
      BY <1>1 DEF SavesInv, OrderInv, NumbersBounded
    <3> QED BY <1>2, <2>1, <3>1 DEF Bounded
  <2>3. Bounded(memory)'
    <3>1. Bounded(memory)
      BY DEF SavesInv, OrderInv, NumbersBounded
    <3>2. memory.rest <= updates' /\ \A d \in Ids : memory.docs[d] <= updates'
      BY <1>3, <2>1, <3>1
    <3>3. updates + 1 <= updates' /\ 0 <= updates'
      BY <1>1, <1>2
    <3> QED BY <1>1, <3>2, <3>3 DEF Bounded
  <2>4. ASSUME NEW i \in DOMAIN calls'
        PROVE  Bounded(calls[i].next)'
    <3>1. CASE i \in DOMAIN calls /\ calls'[i] = calls[i]
      <4>1. Bounded(calls[i].next)
        BY <3>1 DEF SavesInv, OrderInv, NumbersBounded
      <4>2. /\ calls[i].next.rest <= updates'
            /\ \A d \in Ids : calls[i].next.docs[d] <= updates'
        BY <1>4, <2>1, <3>1, <4>1
      <4> QED BY <3>1, <4>2 DEF Bounded
    <3>2. CASE calls'[i].next = memory'
      BY <2>3, <3>2 DEF Bounded
    <3> QED BY <1>7, <3>1, <3>2
  <2> QED BY <2>2, <2>3, <2>4 DEF NumbersBounded
<1>9. SnapshotBehind'
  BY <1>1 DEF SavesInv, OrderInv, SnapshotBehind
<1>10. Saving => Older(disk, memory')
  BY <1>1, <1>2, OlderThanNew DEF SavesInv, OrderInv, NumbersBounded, CallsInOrder
<1>11. \A i \in DOMAIN calls : Older(calls[i].next, memory')
  BY <1>1, <1>4, OlderThanNew DEF SavesInv, OrderInv, NumbersBounded, CallsInOrder
<1>12. CallsInOrder'
  <2>1. Saving' => Older(disk, memory)' /\ (savedAt <= memory.at)'
    BY <1>1, <1>2, <1>10 DEF Saving, Older
  <2>2. Older(memory', memory')
    BY <1>3 DEF Older, Present
  <2>3. ASSUME NEW i \in DOMAIN calls'
        PROVE  /\ Older(disk, calls'[i].next) /\ Older(calls'[i].next, memory')
               /\ calls'[i].next.at <= memory'.at /\ calls'[i].next.at > 0
               /\ calls'[i].op = "set" => savedAt < calls'[i].next.at
    <3>1. CASE i \in DOMAIN calls /\ calls'[i] = calls[i]
      <4>1. calls[i].next.at <= updates /\ calls[i].next.at \in Nat
        BY <1>2, <1>4, <3>1
      <4> QED BY <1>1, <1>2, <1>11, <3>1, <4>1 DEF SavesInv, OrderInv, CallsInOrder
    <3>2. CASE Saving /\ calls'[i].next = memory'
      BY <1>1, <1>2, <1>10, <2>2, <3>2
    <3> QED BY <1>7, <3>1, <3>2
  <2>4. ASSUME NEW i \in DOMAIN calls', NEW j \in DOMAIN calls', i < j
        PROVE  Older(calls'[i].next, calls'[j].next) /\ calls'[i].next.at < calls'[j].next.at
    <3>1. i \in DOMAIN calls /\ calls'[i] = calls[i]
      BY <1>2, <1>6, <2>4
    <3>2. CASE j \in DOMAIN calls /\ calls'[j] = calls[j]
      BY <2>4, <3>1, <3>2 DEF SavesInv, OrderInv, CallsInOrder
    <3>3. CASE calls'[j].next = memory'
      <4>1. calls[i].next.at <= updates /\ calls[i].next.at \in Nat
        BY <1>2, <1>4, <3>1
      <4> QED BY <1>1, <1>2, <1>11, <3>1, <3>3, <4>1
    <3> QED BY <1>7, <3>2, <3>3
  <2>5. disk' = disk /\ savedAt' = savedAt
    BY <1>1
  <2> QED BY <2>1, <2>3, <2>4, <2>5 DEF CallsInOrder, Older
<1>13. Unwritten' /\ RefsAgree'
  <2>0. RefsAgree'
    BY <1>1 DEF SavesInv, OrderInv, RefsAgree, SameDoc, SameRest
  <2> SUFFICES ASSUME NEW i \in DOMAIN calls'
               PROVE  /\ \A d \in Present(calls'[i].next.docs) \ calls'[i].changes.docs :
                            SameDoc(d, parts.docs[d], calls'[i].next.docs[d])
                      /\ ~calls'[i].changes.rest => SameRest(parts.rest, calls'[i].next.rest)
    BY <1>1, <2>0 DEF Unwritten, SameDoc, SameRest
  <2>1. CASE i \in DOMAIN calls /\ calls'[i] = calls[i]
    BY <2>1 DEF SavesInv, OrderInv, Unwritten
  <2>2. CASE Saving /\ calls'[i].next = memory' /\ calls'[i].changes = Diff(memory')
    BY <1>1, <2>2, NewUnwritten DEF SavesInv, OrderInv
  <2> QED BY <1>7, <2>1, <2>2
<1>18. (Saving => Steady)'
  <2> SUFFICES ASSUME Saving PROVE Steady'
    BY <1>1 DEF Saving
  <2>1. ASSUME NEW d \in Ids
        PROVE  DocChain(d)' \subseteq DocCopies(d) \cup {memory'.docs[d]}
    BY <1>1, <1>7 DEF DocChain, DocCopies
  <2>2. RestChain' \subseteq RestCopies \cup {memory'.rest}
    BY <1>1, <1>7 DEF RestChain, RestCopies
  <2>3. NothingReverts(memory')
    BY UpdateFacts DEF SavesInv, ReadableInv, Saving
  <2> QED BY <1>1, <2>1, <2>2, <2>3, SteadyUpdate DEF SavesInv, OrderInv
<1>14. IndexKept'
  <2>1. running' /\ Saving' = Saving
    BY <1>1 DEF Saving
  <2>2. Present(memory'.docs) \cap gone' = {}
    BY <1>1
  <2>3. Saving => parts.index \subseteq Present(memory'.docs) \union gone'
    BY <1>1 DEF SavesInv, IndexKept
  <2>4. Saving => disk.index = parts.index \/ parts.index \cap gone' # {}
    BY <1>1 DEF SavesInv, IndexKept
  <2> QED BY <1>1, <2>1, <2>2, <2>3, <2>4 DEF IndexKept
<1>15. RemovalsLast'
  <2> SUFFICES ASSUME NEW i \in DOMAIN calls'
               PROVE  /\ calls'[i].changes.removes # {} => calls'[i].next = memory'
                      /\ calls'[i].op # "remove"
    BY DEF RemovalsLast
  <2> QED BY <1>5, <1>7
<1>16. Answered'
  <2> SUFFICES ASSUME Saving
               PROVE  \/ OnDisk(memory)'
                      \/ /\ calls' # <<>>
                         /\ calls'[Len(calls')].next.docs = memory'.docs
                         /\ calls'[Len(calls')].next.rest = memory'.rest
    BY <1>1 DEF Answered, Saving
  <2>1. ASSUME NEW c \in CallType, c.next = memory', calls' = Append(calls, c)
        PROVE  /\ calls' # <<>>
               /\ calls'[Len(calls')].next.docs = memory'.docs
               /\ calls'[Len(calls')].next.rest = memory'.rest
    <3>1. calls' # <<>> /\ calls'[Len(calls')] = c
      BY <1>2, <2>1
    <3> QED BY <2>1, <3>1
  <2>2. ASSUME ~Diff(memory').rest, ~Diff(memory').index, Diff(memory').docs = {}
        PROVE  OnDisk(memory)'
    <3>1. /\ \A d \in Present(memory'.docs) : SameDoc(d, disk.docs[d], memory'.docs[d])
          /\ SameRest(disk.rest, memory'.rest)
      <4>1. /\ \A d \in Present(memory'.docs) : SameDoc(d, parts.docs[d], memory'.docs[d])
            /\ SameRest(parts.rest, memory'.rest)
        BY <1>1, <2>2, NewUnwritten DEF SavesInv, OrderInv
      <4>2. Steady' /\ Older(disk, memory')
        BY <1>1, <1>10, <1>18 DEF Saving
      <4>3. ASSUME NEW d \in Present(memory'.docs)
            PROVE  SameDoc(d, disk.docs[d], memory'.docs[d])
        <5>1. d \in Ids /\ parts.docs[d] <= disk.docs[d] /\ disk.docs[d] <= memory'.docs[d]
          BY <4>2 DEF Present, Older, SavesInv, OrderInv, SnapshotBehind
        <5>2. {parts.docs[d], disk.docs[d], memory'.docs[d]} \subseteq DocChain(d)'
          BY <1>1 DEF DocChain, DocCopies
        <5>3. \A k, m, n \in DocChain(d)' :
                 k <= m /\ m <= n /\ SameDoc(d, k, n) => SameDoc(d, m, n)
          BY <4>2, <5>1 DEF Steady, SameDoc
        <5> QED BY <4>1, <5>1, <5>2, <5>3
      <4>4. SameRest(disk.rest, memory'.rest)
        <5>1. parts.rest <= disk.rest /\ disk.rest <= memory'.rest
          BY <4>2 DEF Older, SavesInv, OrderInv, SnapshotBehind
        <5>2. {parts.rest, disk.rest, memory'.rest} \subseteq RestChain'
          BY <1>1 DEF RestChain, RestCopies
        <5>3. \A k, m, n \in RestChain' :
                 k <= m /\ m <= n /\ SameRest(k, n) => SameRest(m, n)
          BY <4>2 DEF Steady, SameRest
        <5> QED BY <4>1, <5>1, <5>2, <5>3
      <4> QED BY <4>3, <4>4
    <3>2. parts.index = Present(memory'.docs)
      <4>1. refs.array = memory'.array \/ parts.index = Present(memory'.docs)
        BY <2>2 DEF Diff
      <4> QED BY <1>1, <4>1 DEF ReadableInv, ArraysAgree
    <3>3. disk.index = Present(memory'.docs)
      BY <1>1, <3>2 DEF SavesInv, IndexKept
    <3>4. DocValues(ReadDocs)' = DocValues(memory.docs)'
      <4>1. ReadDocs' = [d \in Ids |-> IF d \in disk.index THEN disk.docs[d] ELSE 0]
        BY <1>1 DEF ReadDocs
      <4>2. \A d \in Ids : DocValue(d, IF d \in disk.index THEN disk.docs[d] ELSE 0)
                           = DocValue(d, memory'.docs[d])
        BY <3>1, <3>3 DEF Present, SameDoc
      <4> QED BY <4>1, <4>2 DEF DocValues
    <3>5. disk'.index = Present(memory'.docs) /\ disk'.rest = disk.rest
      BY <1>1, <3>3
    <3> QED BY <3>1, <3>4, <3>5 DEF OnDisk, SameRest
  <2> QED BY <1>1, <2>1, <2>2, SaveCases DEF Saving
<1>17. KeysKnown'
  <2>1. ~Removing
    BY <1>2, <1>5 DEF Removing
  <2>2. ~Removing'
    <3>1. calls' # <<>> => 1 \in DOMAIN calls'
      BY <1>2, <1>6
    <3> QED BY <1>5, <1>7, <3>1 DEF Removing
  <2> QED BY <1>1, <2>1, <2>2 DEF SavesInv, KeysKnown, Saving
<1> QED BY <1>8, <1>9, <1>12, <1>13, <1>14, <1>15, <1>16, <1>17, <1>18
  DEF SavesInv, OrderInv

LEMMA OlderSelf ==
    ASSUME NEW s \in StoreType
    PROVE  Older(s, s)
BY StoreFields DEF Older, Present

\* The calls after the first are the calls there were, one further down.
LEMMA LaterCalls ==
    ASSUME TypeInv, calls # <<>>
    PROVE  /\ calls[1] = Head(calls) /\ 1 \in DOMAIN calls /\ Saving
           /\ Len(calls) \in Nat /\ Len(Tail(calls)) = Len(calls) - 1
           /\ Tail(calls) = <<>> <=> Len(calls) = 1
           /\ Len(calls) # 1 => Tail(calls)[Len(Tail(calls))] = calls[Len(calls)]
           /\ \A i \in DOMAIN Tail(calls) :
                 /\ i \in Nat /\ i + 1 \in DOMAIN calls /\ 1 < i + 1
                 /\ Tail(calls)[i] = calls[i + 1]
<1>1. calls \in Seq(CallType) /\ DOMAIN calls = 1..Len(calls) /\ Len(calls) \in Nat /\ Saving
  BY StoreNumbers
<1>2. /\ calls[1] = Head(calls) /\ 1 \in DOMAIN calls
      /\ Len(Tail(calls)) = Len(calls) - 1 /\ Tail(calls) \in Seq(CallType)
      /\ \A i \in DOMAIN Tail(calls) :
            i + 1 \in DOMAIN calls /\ Tail(calls)[i] = calls[i + 1]
  BY <1>1, HeadIsCall
<1>3. DOMAIN Tail(calls) = 1..(Len(calls) - 1)
  BY <1>2
<1>4. Tail(calls) = <<>> <=> Len(calls) = 1
  <2>1. Tail(calls) = <<>> <=> Len(Tail(calls)) = 0
    BY <1>2
  <2>2. \A n \in Nat : n - 1 = 0 <=> n = 1
    OBVIOUS
  <2> QED BY <1>1, <1>2, <2>1, <2>2
<1>5. ASSUME Len(calls) # 1
      PROVE  Tail(calls)[Len(Tail(calls))] = calls[Len(calls)]
  <2>1. Len(calls) - 1 \in DOMAIN Tail(calls)
    BY <1>1, <1>2, <1>3, <1>5
  <2>2. Tail(calls)[Len(calls) - 1] = calls[(Len(calls) - 1) + 1]
    BY <1>2, <2>1
  <2>3. \A n \in Nat : (n - 1) + 1 = n
    OBVIOUS
  <2>4. (Len(calls) - 1) + 1 = Len(calls)
    BY <1>1, <2>3
  <2> QED BY <1>2, <2>2, <2>4
<1>6. \A i \in DOMAIN Tail(calls) : i \in Nat /\ 1 < i + 1
  BY <1>1, <1>3
<1> QED BY <1>1, <1>2, <1>4, <1>5, <1>6

\* The call that is answered first, as the invariant has it.
LEMMA FirstCallFacts ==
    ASSUME SavesInv, calls # <<>>, NEW c, c = Head(calls)
    PROVE  /\ c \in CallType /\ c.next \in StoreType /\ CallFits(c)
           /\ c.next.docs \in [Ids -> Nat] /\ c.next.rest \in Nat /\ c.next.at \in Nat
           /\ Bounded(c.next) /\ Older(disk, c.next) /\ Older(c.next, memory)
           /\ c.next.at <= memory.at /\ c.next.at > 0
           /\ \A d \in Present(c.next.docs) \ c.changes.docs :
                 /\ SameDoc(d, parts.docs[d], c.next.docs[d])
                 /\ SameDoc(d, disk.docs[d], c.next.docs[d])
           /\ ~c.changes.rest => /\ SameRest(parts.rest, c.next.rest)
                                 /\ SameRest(disk.rest, c.next.rest)
           /\ c.changes.removes # {} => c.next = memory /\ Tail(calls) = <<>>
           /\ c.op = "remove" => OnDisk(memory) /\ Landed(c) /\ c.changes.removes # {}
           /\ \A i \in DOMAIN Tail(calls) :
                 /\ Tail(calls)[i].op # "remove"
                 /\ Older(c.next, Tail(calls)[i].next) /\ c.next.at < Tail(calls)[i].next.at
<1>1. /\ c = calls[1] /\ 1 \in DOMAIN calls /\ Len(calls) \in Nat
      /\ Tail(calls) = <<>> <=> Len(calls) = 1
  BY LaterCalls DEF SavesInv, ReadableInv
<1>2. c \in CallType /\ c.next \in StoreType
  BY <1>1, StoreNumbers DEF SavesInv, ReadableInv
<1>3. c.next.docs \in [Ids -> Nat] /\ c.next.rest \in Nat /\ c.next.at \in Nat
  BY <1>2, StoreFields
<1>4. CallFits(c) /\ (c.changes.removes # {} => Len(calls) = 1)
  BY <1>1 DEF SavesInv, ReadableInv, CallsFit, RemovalsAlone
<1>5. /\ Bounded(c.next) /\ Older(disk, c.next) /\ Older(c.next, memory)
      /\ c.next.at <= memory.at /\ c.next.at > 0
  BY <1>1 DEF SavesInv, OrderInv, NumbersBounded, CallsInOrder
<1>6. /\ \A d \in Present(c.next.docs) \ c.changes.docs :
            /\ SameDoc(d, parts.docs[d], c.next.docs[d])
            /\ SameDoc(d, disk.docs[d], c.next.docs[d])
      /\ ~c.changes.rest => /\ SameRest(parts.rest, c.next.rest)
                            /\ SameRest(disk.rest, c.next.rest)
  <2>1. /\ \A d \in Present(c.next.docs) \ c.changes.docs :
              SameDoc(d, parts.docs[d], c.next.docs[d])
        /\ ~c.changes.rest => SameRest(parts.rest, c.next.rest)
    BY <1>1 DEF SavesInv, OrderInv, Unwritten
  <2>2. Steady
    BY LaterCalls DEF SavesInv, OrderInv, ReadableInv
  <2>3. ASSUME NEW d \in Present(c.next.docs) \ c.changes.docs
        PROVE  SameDoc(d, disk.docs[d], c.next.docs[d])
    <3>1. d \in Ids /\ parts.docs[d] <= disk.docs[d] /\ disk.docs[d] <= c.next.docs[d]
      BY <1>5 DEF Present, Older, SavesInv, OrderInv, SnapshotBehind
    <3>2. {parts.docs[d], disk.docs[d], c.next.docs[d]} \subseteq DocChain(d)
      BY <1>1 DEF DocChain, DocCopies
    <3> QED BY <2>1, <2>2, <3>1, <3>2 DEF Steady
  <2>4. ASSUME ~c.changes.rest
        PROVE  SameRest(disk.rest, c.next.rest)
    <3>1. parts.rest <= disk.rest /\ disk.rest <= c.next.rest
      BY <1>5 DEF Older, SavesInv, OrderInv, SnapshotBehind
    <3>2. {parts.rest, disk.rest, c.next.rest} \subseteq RestChain
      BY <1>1 DEF RestChain, RestCopies
    <3> QED BY <2>1, <2>2, <2>4, <3>1, <3>2 DEF Steady
  <2> QED BY <2>1, <2>3, <2>4
<1>7. /\ c.changes.removes # {} => c.next = memory
      /\ c.op = "remove" => OnDisk(memory) /\ Landed(c)
  BY <1>1 DEF SavesInv, RemovalsLast
<1>8. c.op = "remove" => c.changes.removes # {}
  BY <1>4 DEF CallFits
<1>9. ASSUME NEW i \in DOMAIN Tail(calls)
      PROVE  /\ Tail(calls)[i].op # "remove"
             /\ Older(c.next, Tail(calls)[i].next) /\ c.next.at < Tail(calls)[i].next.at
  <2>1. i + 1 \in DOMAIN calls /\ 1 < i + 1 /\ Tail(calls)[i] = calls[i + 1]
    BY LaterCalls DEF SavesInv, ReadableInv
  <2>2. Len(calls) # 1
    BY <1>1
  <2>3. calls[i + 1].changes.removes = {} /\ CallFits(calls[i + 1])
    BY <2>1, <2>2 DEF SavesInv, ReadableInv, RemovalsAlone, CallsFit
  <2>4. calls[i + 1].op # "remove"
    BY <2>3 DEF CallFits
  <2>5. Older(calls[1].next, calls[i + 1].next) /\ calls[1].next.at < calls[i + 1].next.at
    BY <1>1, <2>1 DEF SavesInv, OrderInv, CallsInOrder
  <2> QED BY <1>1, <2>1, <2>4, <2>5
<1> QED BY <1>1, <1>2, <1>3, <1>4, <1>5, <1>6, <1>7, <1>8, <1>9

\* Once the keys of a save are set a start would find the store it is for.
LEMMA SetFacts ==
    ASSUME SavesInv, MultiSet, NEW c, c = Head(calls)
    PROVE  /\ \A d \in Ids : disk'.docs[d] \in {disk.docs[d], c.next.docs[d]}
           /\ \A d \in Present(c.next.docs) : SameDoc(d, disk'.docs[d], c.next.docs[d])
           /\ \A d \in Ids \ Present(c.next.docs) : disk'.docs[d] = disk.docs[d]
           /\ disk'.rest \in {disk.rest, c.next.rest} /\ SameRest(disk'.rest, c.next.rest)
           /\ disk'.index = Present(c.next.docs)
           /\ OnDisk(c.next)' /\ Landed(c)'
<1>1. /\ calls # <<>> /\ Saving /\ disk' = Written(disk, c.next, c.changes)
  BY LaterCalls DEF MultiSet, SavesInv, ReadableInv
<1>2. /\ CallFits(c) /\ c.next.docs \in [Ids -> Nat]
      /\ \A d \in Present(c.next.docs) \ c.changes.docs :
            SameDoc(d, disk.docs[d], c.next.docs[d])
      /\ ~c.changes.rest => SameRest(disk.rest, c.next.rest)
  BY <1>1, FirstCallFacts
<1>3. /\ disk'.docs = [d \in Ids |->
                        IF d \in c.changes.docs THEN c.next.docs[d] ELSE disk.docs[d]]
      /\ disk'.index = IF c.changes.index THEN Present(c.next.docs) ELSE disk.index
      /\ disk'.rest = IF c.changes.rest THEN c.next.rest ELSE disk.rest
  BY <1>1 DEF Written
<1>4. ASSUME NEW d \in Present(c.next.docs)
      PROVE  SameDoc(d, disk'.docs[d], c.next.docs[d])
  <2>1. CASE d \in c.changes.docs
    BY <1>3, <2>1 DEF Present, SameDoc
  <2>2. CASE d \notin c.changes.docs
    BY <1>2, <1>3, <2>2 DEF Present
  <2> QED BY <2>1, <2>2
<1>5. /\ \A d \in Ids \ Present(c.next.docs) : disk'.docs[d] = disk.docs[d]
      /\ \A d \in Ids : disk'.docs[d] \in {disk.docs[d], c.next.docs[d]}
  BY <1>2, <1>3 DEF CallFits
<1>6. disk'.rest \in {disk.rest, c.next.rest} /\ SameRest(disk'.rest, c.next.rest)
  BY <1>2, <1>3 DEF SameRest
<1>7. disk'.index = Present(c.next.docs)
  <2>1. CASE c.changes.index
    BY <1>3, <2>1
  <2>2. CASE ~c.changes.index
    <3>1. parts.index = Present(c.next.docs) /\ Present(c.next.docs) \subseteq Present(memory.docs)
      BY <1>2, <2>2 DEF CallFits
    <3>2. /\ Present(memory.docs) \cap gone = {}
          /\ disk.index = parts.index \/ parts.index \cap gone # {}
      BY <1>1 DEF SavesInv, IndexKept
    <3> QED BY <1>3, <2>2, <3>1, <3>2
  <2> QED BY <2>1, <2>2
<1>8. DocValues(ReadDocs') = DocValues(c.next.docs)
  <2>1. ReadDocs' = [d \in Ids |-> IF d \in disk'.index THEN disk'.docs[d] ELSE 0]
    BY DEF ReadDocs
  <2>2. \A d \in Ids : DocValue(d, IF d \in disk'.index THEN disk'.docs[d] ELSE 0)
                       = DocValue(d, c.next.docs[d])
    BY <1>4, <1>7 DEF Present, SameDoc
  <2> QED BY <2>1, <2>2 DEF DocValues
<1>9. OnDisk(c.next)'
  BY <1>6, <1>7, <1>8 DEF OnDisk, SameRest, DocValues
<1>10. Landed(c)'
  <2>1. c.changes.docs \subseteq Ids
    BY <1>2 DEF CallFits, Present
  <2> QED BY <1>3, <2>1 DEF Landed
<1> QED BY <1>4, <1>5, <1>6, <1>7, <1>9, <1>10

\* Setting keys makes none of them older.
LEMMA SetOnward ==
    ASSUME SavesInv, MultiSet, NEW c, c = Head(calls)
    PROVE  /\ \A d \in Ids : disk.docs[d] <= disk'.docs[d] /\ disk'.docs[d] \in Nat
           /\ disk.rest <= disk'.rest /\ disk'.rest \in Nat
           /\ \A s : Older(disk, s) /\ Older(c.next, s) => Older(disk, s)'
<1>1. /\ \A d \in Ids : disk'.docs[d] \in {disk.docs[d], c.next.docs[d]}
      /\ \A d \in Ids \ Present(c.next.docs) : disk'.docs[d] = disk.docs[d]
      /\ disk'.rest \in {disk.rest, c.next.rest}
  BY SetFacts
<1>2. Older(disk, c.next) /\ c.next.docs \in [Ids -> Nat] /\ c.next.rest \in Nat
  BY FirstCallFacts DEF MultiSet
<1>3. disk.docs \in [Ids -> Nat] /\ disk.rest \in Nat
  BY StoreNumbers DEF SavesInv, ReadableInv
<1>4. ASSUME NEW d \in Ids
      PROVE  disk.docs[d] <= disk'.docs[d] /\ disk'.docs[d] \in Nat
  <2>1. CASE d \in Present(c.next.docs)
    BY <1>1, <1>2, <1>3, <2>1 DEF Older
  <2>2. CASE d \notin Present(c.next.docs)
    BY <1>1, <1>3, <2>2
  <2> QED BY <2>1, <2>2
<1>5. disk.rest <= disk'.rest /\ disk'.rest \in Nat
  BY <1>1, <1>2, <1>3 DEF Older
<1>6. ASSUME NEW s, Older(disk, s), Older(c.next, s)
      PROVE  /\ \A d \in Present(s.docs) : disk'.docs[d] <= s.docs[d]
             /\ disk'.rest <= s.rest
  <2>1. ASSUME NEW d \in Present(s.docs)
        PROVE  disk'.docs[d] <= s.docs[d]
    <3>1. d \in Ids
      BY DEF Present
    <3> QED BY <1>1, <1>6, <3>1 DEF Older
  <2>2. disk'.rest <= s.rest
    BY <1>1, <1>6 DEF Older
  <2> QED BY <2>1, <2>2
<1> QED BY <1>4, <1>5, <1>6 DEF Older

\* What a commit records of a save is on the disk by then, and the references
\* it takes hold what the snapshot has.
LEMMA CommitBehind ==
    ASSUME SavesInv, calls # <<>>, NEW c, c = Head(calls), Commit(c),
           Landed(c)',
           \A d \in Ids \ c.changes.removes : disk.docs[d] <= disk'.docs[d],
           \A d \in Ids : disk'.docs[d] \in Nat,
           disk.rest <= disk'.rest, disk'.rest \in Nat
    PROVE  /\ SnapshotBehind' /\ RefsAgree'
           /\ \A d \in Ids : parts'.docs[d] \in {0, parts.docs[d], c.next.docs[d]}
           /\ \A d \in Ids \ c.changes.removes :
                 \/ parts'.docs[d] = parts.docs[d]
                 \/ d \in Present(c.next.docs) /\ parts'.docs[d] = c.next.docs[d]
           /\ parts'.rest \in {parts.rest, c.next.rest}
<1>1. c \in CallType /\ CallFits(c) /\ c.next.docs \in [Ids -> Nat] /\ c.next.rest \in Nat
  BY FirstCallFacts
<1>10. \A d \in Present(c.next.docs) \ c.changes.docs :
          SameDoc(d, parts.docs[d], c.next.docs[d])
  BY FirstCallFacts
<1>11. ~c.changes.rest => SameRest(parts.rest, c.next.rest)
  BY FirstCallFacts
<1>2. /\ disk.docs \in [Ids -> Nat] /\ disk.rest \in Nat
      /\ parts.docs \in [Ids -> Nat] /\ parts.rest \in Nat
      /\ PartsAgree
  BY StoreNumbers DEF SavesInv, ReadableInv
<1>3. /\ parts'.docs = [d \in Ids |->
            IF d \in c.changes.removes THEN 0
            ELSE IF d \in c.changes.docs THEN c.next.docs[d] ELSE parts.docs[d]]
      /\ parts'.rest = IF c.changes.rest THEN c.next.rest ELSE parts.rest
      /\ refs'.docs = [d \in Ids |-> IF c.next.docs[d] # 0 THEN c.next.docs[d]
                                     ELSE IF d \in c.changes.removes THEN 0
                                     ELSE refs.docs[d]]
      /\ refs'.rest = c.next.rest
  BY DEF Commit, Removed, Written
<1>4. ASSUME NEW d \in Ids
      PROVE  parts'.docs[d] <= disk'.docs[d]
  <2>1. /\ parts.docs[d] <= disk.docs[d]
        /\ parts.docs[d] \in Nat /\ disk.docs[d] \in Nat /\ disk'.docs[d] \in Nat
    BY <1>2 DEF SavesInv, OrderInv, SnapshotBehind
  <2>2. CASE d \in c.changes.removes
    BY <1>3, <2>1, <2>2
  <2>3. CASE d \notin c.changes.removes /\ d \in c.changes.docs
    <3>1. parts'.docs[d] = c.next.docs[d] /\ disk'.docs[d] = c.next.docs[d]
      BY <1>3, <2>3 DEF Landed
    <3> QED BY <2>1, <3>1
  <2>4. CASE d \notin c.changes.removes /\ d \notin c.changes.docs
    <3>1. parts'.docs[d] = parts.docs[d] /\ disk.docs[d] <= disk'.docs[d]
      BY <1>3, <2>4
    <3> QED BY <2>1, <3>1
  <2> QED BY <2>2, <2>3, <2>4
<1>5. parts'.rest <= disk'.rest
  <2>1. CASE c.changes.rest
    BY <1>1, <1>3, <2>1 DEF Landed
  <2>2. CASE ~c.changes.rest
    BY <1>2, <1>3, <2>2 DEF SavesInv, OrderInv, SnapshotBehind
  <2> QED BY <2>1, <2>2
<1>6. ASSUME NEW d \in Ids, parts'.docs[d] # 0
      PROVE  SameDoc(d, refs'.docs[d], parts'.docs[d])
  <2>1. CASE d \in Present(c.next.docs)
    <3>1. d \notin c.changes.removes /\ refs'.docs[d] = c.next.docs[d]
      BY <1>1, <1>3, <2>1 DEF CallFits, Present
    <3>2. CASE d \in c.changes.docs
      <4>1. parts'.docs[d] = c.next.docs[d]
        BY <1>3, <3>1, <3>2
      <4> QED BY <3>1, <4>1 DEF SameDoc
    <3>3. CASE d \notin c.changes.docs
      <4>1. parts'.docs[d] = parts.docs[d]
        BY <1>3, <3>1, <3>3
      <4>2. SameDoc(d, parts.docs[d], c.next.docs[d])
        BY ONLY <1>10, <2>1, <3>3
      <4> QED BY <3>1, <4>1, <4>2 DEF SameDoc
    <3> QED BY <3>2, <3>3
  <2>2. CASE d \notin Present(c.next.docs)
    <3>1. d \notin c.changes.docs /\ (d \in parts.index => d \in c.changes.removes)
      BY <1>1, <2>2 DEF CallFits
    <3>2. parts'.docs[d] = 0
      BY <1>2, <1>3, <3>1 DEF PartsAgree, Present
    <3> QED BY <1>6, <3>2
  <2> QED BY <2>1, <2>2
<1>7. SameRest(refs'.rest, parts'.rest)
  <2>1. CASE c.changes.rest
    BY <1>3, <2>1 DEF SameRest
  <2>2. CASE ~c.changes.rest
    <3>1. parts'.rest = parts.rest
      BY <1>3, <2>2
    <3>2. SameRest(parts.rest, c.next.rest)
      BY ONLY <1>11, <2>2
    <3> QED BY <1>3, <3>1, <3>2 DEF SameRest
  <2> QED BY <2>1, <2>2
<1>8. SnapshotBehind' /\ RefsAgree'
  BY <1>4, <1>5, <1>6, <1>7 DEF SnapshotBehind, RefsAgree, SameDoc, SameRest
<1>9. /\ \A d \in Ids : parts'.docs[d] \in {0, parts.docs[d], c.next.docs[d]}
      /\ parts'.rest \in {parts.rest, c.next.rest}
  BY <1>3
<1>12. \A d \in Ids \ c.changes.removes :
          \/ parts'.docs[d] = parts.docs[d]
          \/ d \in Present(c.next.docs) /\ parts'.docs[d] = c.next.docs[d]
  BY <1>1, <1>3 DEF CallFits
<1> QED BY <1>8, <1>9, <1>12

LEMMA SetKeepsSaves ==
    ASSUME SavesInv, ReadableInv', MultiSet
    PROVE  SavesInv'
<1> PICK c : c = Head(calls)
  OBVIOUS
<1>1. /\ calls # <<>> /\ c.op = "set" /\ savedAt' = c.next.at
      /\ UNCHANGED <<running, readOnly, memory, updates, faults, gone, leftOver>>
  BY DEF MultiSet
<1>2. /\ c \in CallType /\ c.next \in StoreType /\ CallFits(c)
      /\ c.next.docs \in [Ids -> Nat] /\ c.next.rest \in Nat /\ c.next.at \in Nat
      /\ Bounded(c.next) /\ Older(disk, c.next) /\ Older(c.next, memory)
      /\ c.next.at <= memory.at /\ c.next.at > 0
      /\ c.changes.removes # {} => c.next = memory /\ Tail(calls) = <<>>
      /\ \A i \in DOMAIN Tail(calls) :
            /\ Tail(calls)[i].op # "remove"
            /\ Older(c.next, Tail(calls)[i].next) /\ c.next.at < Tail(calls)[i].next.at
  BY <1>1, FirstCallFacts
<1>3. /\ \A d \in Ids : disk'.docs[d] \in {disk.docs[d], c.next.docs[d]}
      /\ \A d \in Ids \ Present(c.next.docs) : disk'.docs[d] = disk.docs[d]
      /\ disk'.rest \in {disk.rest, c.next.rest}
      /\ disk'.index = Present(c.next.docs)
      /\ OnDisk(c.next)' /\ Landed(c)'
  BY SetFacts
<1>4. /\ \A d \in Ids : disk.docs[d] <= disk'.docs[d] /\ disk'.docs[d] \in Nat
      /\ disk.rest <= disk'.rest /\ disk'.rest \in Nat
      /\ \A s : Older(disk, s) /\ Older(c.next, s) => Older(disk, s)'
  BY SetOnward
<1>5. /\ TypeInv /\ calls \in Seq(CallType) /\ Len(calls) \in Nat
      /\ memory \in StoreType /\ disk.docs \in [Ids -> Nat] /\ disk.rest \in Nat
      /\ 1 \in DOMAIN calls /\ calls[1] = c /\ Saving /\ Saving'
      /\ \A i \in DOMAIN Tail(calls) :
            /\ i \in Nat /\ i + 1 \in DOMAIN calls /\ 1 < i + 1
            /\ Tail(calls)[i] = calls[i + 1]
  BY <1>1, StoreNumbers, LaterCalls DEF SavesInv, ReadableInv, Saving
<1>6. Older(disk, memory)' /\ (savedAt <= memory.at)'
  <2>1. Older(disk, memory)
    BY <1>5 DEF SavesInv, OrderInv, CallsInOrder
  <2>2. PICK s : s = memory
    OBVIOUS
  <2>3. Older(disk, s)'
    BY <1>2, <1>4, <2>1, <2>2
  <2> QED BY <1>1, <1>2, <2>2, <2>3
<1>7. Bounded(disk)' /\ Bounded(memory)'
  <2>1. ASSUME NEW d \in Ids
        PROVE  disk'.docs[d] <= updates
    BY <1>2, <1>3 DEF SavesInv, OrderInv, NumbersBounded, Bounded
  <2> QED BY <1>1, <1>2, <1>3, <2>1 DEF SavesInv, OrderInv, NumbersBounded, Bounded
<1>10. Steady /\ NumbersBounded /\ SnapshotBehind
  BY <1>5 DEF SavesInv, OrderInv
<1>11. ASSUME \A d \in Ids : parts'.docs[d] \in {0, parts.docs[d], c.next.docs[d]},
              parts'.rest \in {parts.rest, c.next.rest},
              \A i \in DOMAIN calls' : \E k \in DOMAIN calls : calls'[i].next = calls[k].next
       PROVE  (Saving => Steady)'
  <2>1. ASSUME NEW d \in Ids
        PROVE  DocChain(d)' \subseteq DocChain(d) \cup {0}
    <3>1. /\ parts'.docs[d] \in {0, parts.docs[d], calls[1].next.docs[d]}
          /\ disk'.docs[d] \in {disk.docs[d], calls[1].next.docs[d]}
          /\ memory'.docs[d] = memory.docs[d] /\ 1 \in DOMAIN calls
      BY <1>1, <1>3, <1>5, <1>11
    <3> QED BY <1>11, <3>1 DEF DocChain, DocCopies
  <2>2. RestChain' \subseteq RestChain
    <3>1. /\ parts'.rest \in {parts.rest, calls[1].next.rest}
          /\ disk'.rest \in {disk.rest, calls[1].next.rest}
          /\ memory'.rest = memory.rest /\ 1 \in DOMAIN calls
      BY <1>1, <1>3, <1>5, <1>11
    <3> QED BY <1>11, <3>1 DEF RestChain, RestCopies
  <2> QED BY <1>5, <1>10, <2>1, <2>2, SteadyKept
\* The save removes nothing: it is over, and the next one is the first.
<1>8. CASE c.changes.removes = {}
  <2>1. Commit(c) /\ calls' = Tail(calls)
    BY <1>8 DEF MultiSet
  <2>2. parts'.index = Present(c.next.docs)
    BY <1>2, <1>5, <2>1, CommitAgrees DEF SavesInv, ReadableInv
  <2>3. NumbersBounded'
    <3>1. ASSUME NEW i \in DOMAIN calls'
          PROVE  Bounded(calls[i].next)'
      <4>1. Bounded(calls[i + 1].next) /\ calls'[i] = calls[i + 1]
        BY <1>5, <2>1, <3>1 DEF SavesInv, OrderInv, NumbersBounded
      <4> QED BY <1>1, <4>1 DEF Bounded
    <3> QED BY <1>7, <3>1 DEF NumbersBounded
  <2>4. /\ SnapshotBehind' /\ RefsAgree'
        /\ \A d \in Ids : parts'.docs[d] \in {0, parts.docs[d], c.next.docs[d]}
        /\ \A d \in Ids : \/ parts'.docs[d] = parts.docs[d]
                          \/ d \in Present(c.next.docs) /\ parts'.docs[d] = c.next.docs[d]
        /\ parts'.rest \in {parts.rest, c.next.rest}
    BY <1>1, <1>3, <1>4, <1>8, <2>1, CommitBehind
  <2>5. ASSUME NEW i \in DOMAIN calls'
        PROVE  /\ i + 1 \in DOMAIN calls /\ calls'[i] = calls[i + 1]
               /\ Older(disk, calls[i + 1].next) /\ Older(disk', calls'[i].next)
               /\ Older(calls'[i].next, memory')
               /\ calls'[i].next.at <= memory'.at /\ calls'[i].next.at > 0
               /\ calls'[i].op = "set" => savedAt' < calls'[i].next.at
    <3>1. i + 1 \in DOMAIN calls /\ calls'[i] = calls[i + 1] /\ calls'[i] = Tail(calls)[i]
      BY <1>5, <2>1
    <3>2. /\ Older(disk, calls[i + 1].next) /\ Older(calls[i + 1].next, memory)
          /\ calls[i + 1].next.at <= memory.at /\ calls[i + 1].next.at > 0
      BY <3>1 DEF SavesInv, OrderInv, CallsInOrder
    <3>3. Older(c.next, calls[i + 1].next) /\ c.next.at < calls[i + 1].next.at
      BY <1>2, <2>1, <3>1
    <3>4. PICK s : s = calls[i + 1].next
      OBVIOUS
    <3>5. Older(disk, s)'
      BY <1>4, <3>2, <3>3, <3>4
    <3>6. Older(disk', calls'[i].next)
      BY <3>1, <3>4, <3>5 DEF Older
    <3> QED BY <1>1, <3>1, <3>2, <3>3, <3>6
  <2>6. CallsInOrder'
    <3>1. ASSUME NEW i \in DOMAIN calls', NEW j \in DOMAIN calls', i < j
          PROVE  /\ Older(calls'[i].next, calls'[j].next)
                 /\ calls'[i].next.at < calls'[j].next.at
      <4>1. /\ i + 1 \in DOMAIN calls /\ j + 1 \in DOMAIN calls /\ i \in Nat /\ j \in Nat
            /\ calls'[i] = calls[i + 1] /\ calls'[j] = calls[j + 1]
        BY <1>5, <2>1
      <4>2. i + 1 < j + 1
        BY <3>1, <4>1
      <4> QED BY <4>1, <4>2 DEF SavesInv, OrderInv, CallsInOrder
    <3> QED BY <1>6, <2>5, <3>1 DEF CallsInOrder, Older
  <2>7. Unwritten'
    <3> SUFFICES ASSUME NEW i \in DOMAIN calls'
                 PROVE  /\ \A d \in Present(calls'[i].next.docs) \ calls'[i].changes.docs :
                              SameDoc(d, parts'.docs[d], calls'[i].next.docs[d])
                        /\ ~calls'[i].changes.rest => SameRest(parts'.rest, calls'[i].next.rest)
      BY DEF Unwritten, SameDoc, SameRest
    <3>1. PICK x \in CallType : /\ x = calls[i + 1] /\ x = calls'[i]
                                /\ Older(c.next, x.next) /\ i + 1 \in DOMAIN calls
      BY <1>2, <1>5, <2>1, <2>5
    <3>2. /\ \A d \in Present(x.next.docs) \ x.changes.docs :
                SameDoc(d, parts.docs[d], x.next.docs[d])
          /\ ~x.changes.rest => SameRest(parts.rest, x.next.rest)
      BY <3>1 DEF SavesInv, OrderInv, Unwritten
    <3>3. ASSUME NEW d \in Present(x.next.docs) \ x.changes.docs
          PROVE  SameDoc(d, parts'.docs[d], x.next.docs[d])
      <4>1. d \in Ids /\ SameDoc(d, parts.docs[d], x.next.docs[d])
        BY <3>2, <3>3 DEF Present
      <4>2. CASE parts'.docs[d] = parts.docs[d]
        BY <4>1, <4>2
      <4>3. CASE d \in Present(c.next.docs) /\ parts'.docs[d] = c.next.docs[d]
        <5>1. /\ parts.docs[d] <= disk.docs[d] /\ disk.docs[d] <= c.next.docs[d]
              /\ c.next.docs[d] <= x.next.docs[d]
          BY <1>2, <1>10, <3>1, <3>3, <4>1, <4>3 DEF SnapshotBehind, Older
        <5>2. /\ parts.docs[d] \in Nat /\ disk.docs[d] \in Nat /\ c.next.docs[d] \in Nat
          BY <1>2, <1>5, <4>1, StoreNumbers
        <5>3. parts.docs[d] <= c.next.docs[d]
          BY <5>1, <5>2
        <5>4. {parts.docs[d], c.next.docs[d], x.next.docs[d]} \subseteq DocChain(d)
          BY <1>5, <3>1 DEF DocChain, DocCopies
        <5>5. SameDoc(d, c.next.docs[d], x.next.docs[d])
          BY <1>10, <4>1, <5>1, <5>3, <5>4 DEF Steady
        <5> QED BY <4>3, <5>5
      <4> QED BY <2>4, <4>1, <4>2, <4>3
    <3>4. ASSUME ~x.changes.rest
          PROVE  SameRest(parts'.rest, x.next.rest)
      <4>1. SameRest(parts.rest, x.next.rest)
        BY <3>2, <3>4
      <4>2. CASE parts'.rest = c.next.rest
        <5>1. /\ parts.rest <= disk.rest /\ disk.rest <= c.next.rest
              /\ c.next.rest <= x.next.rest
          BY <1>2, <1>10, <3>1 DEF SnapshotBehind, Older
        <5>2. parts.rest \in Nat /\ disk.rest \in Nat /\ c.next.rest \in Nat
          BY <1>2, <1>5, StoreNumbers
        <5>3. parts.rest <= c.next.rest
          BY <5>1, <5>2
        <5>4. {parts.rest, c.next.rest, x.next.rest} \subseteq RestChain
          BY <1>5, <3>1 DEF RestChain, RestCopies
        <5>5. SameRest(c.next.rest, x.next.rest)
          BY <1>10, <4>1, <5>1, <5>3, <5>4 DEF Steady
        <5> QED BY <4>2, <5>5
      <4> QED BY <2>4, <4>1, <4>2
    <3> QED BY <3>1, <3>3, <3>4
  <2>8. IndexKept'
    <3>1. Present(c.next.docs) \subseteq Present(memory.docs)
      BY <1>2 DEF CallFits
    <3>2. Present(memory.docs) \cap gone = {} /\ running
      BY <1>5 DEF SavesInv, IndexKept, Saving
    <3> QED BY <1>1, <1>3, <2>2, <3>1, <3>2 DEF IndexKept
  <2>9. RemovalsLast'
    <3> SUFFICES ASSUME NEW i \in DOMAIN calls'
                 PROVE  /\ calls'[i].changes.removes # {} => calls'[i].next = memory'
                        /\ calls'[i].op # "remove"
      BY DEF RemovalsLast
    <3>1. i + 1 \in DOMAIN calls /\ calls'[i] = calls[i + 1] /\ calls'[i] = Tail(calls)[i]
      BY <1>5, <2>1
    <3> QED BY <1>1, <1>2, <2>1, <3>1 DEF SavesInv, RemovalsLast
  <2>10. ASSUME DocValues(c.next.docs) = DocValues(memory.docs),
                Present(c.next.docs) = Present(memory.docs), SameRest(c.next.rest, memory.rest)
         PROVE  OnDisk(memory)'
    <3>1. PICK s : s = c.next
      OBVIOUS
    <3>2. OnDisk(s)'
      BY <1>3, <3>1
    <3> QED BY <1>1, <2>10, <3>1, <3>2 DEF OnDisk, SameRest, DocValues
  <2>11. Answered'
    <3>1. CASE OnDisk(memory)
      <4>1. /\ disk.index = Present(memory.docs) /\ SameRest(disk.rest, memory.rest)
            /\ \A d \in Present(memory.docs) : SameDoc(d, disk.docs[d], memory.docs[d])
        <5>1. DocValues(ReadDocs) = DocValues(memory.docs) /\ disk.index = Present(memory.docs)
          BY <3>1 DEF OnDisk
        <5>2. ASSUME NEW d \in Present(memory.docs)
              PROVE  SameDoc(d, disk.docs[d], memory.docs[d])
          <6>1. d \in Ids /\ ReadDocs[d] = disk.docs[d]
            BY <5>1 DEF ReadDocs, Present
          <6>2. DocValues(ReadDocs)[d] = DocValue(d, ReadDocs[d])
            BY <6>1 DEF DocValues
          <6>3. DocValues(memory.docs)[d] = DocValue(d, memory.docs[d])
            BY <6>1 DEF DocValues
          <6> QED BY <5>1, <6>1, <6>2, <6>3 DEF SameDoc
        <5> QED BY <3>1, <5>1, <5>2 DEF OnDisk
      <4>2. Present(c.next.docs) = Present(memory.docs)
        <5>1. /\ parts.index \subseteq Present(c.next.docs)
              /\ Present(c.next.docs) \subseteq Present(memory.docs)
          BY <1>2, <1>8 DEF CallFits
        <5>2. /\ Present(memory.docs) \cap gone = {}
              /\ disk.index = parts.index \/ parts.index \cap gone # {}
          BY <1>5 DEF SavesInv, IndexKept
        <5> QED BY <4>1, <5>1, <5>2
      <4>4. ASSUME NEW d \in Ids
            PROVE  DocValue(d, c.next.docs[d]) = DocValue(d, memory.docs[d])
        <5>1. CASE d \in Present(memory.docs)
          <6>1. disk.docs[d] <= c.next.docs[d] /\ c.next.docs[d] <= memory.docs[d]
            BY <1>2, <4>2, <5>1 DEF Older
          <6>2. {disk.docs[d], c.next.docs[d], memory.docs[d]} \subseteq DocChain(d)
            BY <1>5 DEF DocChain, DocCopies
          <6>3. SameDoc(d, disk.docs[d], memory.docs[d])
            BY <4>1, <5>1
          <6> QED BY <1>10, <6>1, <6>2, <6>3 DEF Steady, SameDoc
        <5>2. CASE d \notin Present(memory.docs)
          BY <4>2, <5>2 DEF Present
        <5> QED BY <5>1, <5>2
      <4>5. DocValues(c.next.docs) = DocValues(memory.docs)
        BY <4>4 DEF DocValues
      <4>6. SameRest(c.next.rest, memory.rest)
        <5>1. disk.rest <= c.next.rest /\ c.next.rest <= memory.rest
          BY <1>2 DEF Older
        <5>2. {disk.rest, c.next.rest, memory.rest} \subseteq RestChain
          BY <1>5 DEF RestChain, RestCopies
        <5> QED BY <1>10, <4>1, <5>1, <5>2 DEF Steady
      <4> QED BY <2>10, <4>2, <4>5, <4>6 DEF Answered
    <3>2. CASE /\ calls[Len(calls)].next.docs = memory.docs
               /\ calls[Len(calls)].next.rest = memory.rest
      <4>1. CASE Len(calls) = 1
        BY <1>5, <2>10, <3>2, <4>1 DEF Answered, SameRest
      <4>2. CASE Len(calls) # 1
        <5>1. calls' # <<>> /\ calls'[Len(calls')] = calls[Len(calls)]
          BY <1>1, <1>5, <2>1, <4>2, LaterCalls
        <5> QED BY <1>1, <3>2, <5>1 DEF Answered
      <4> QED BY <4>1, <4>2
    <3>3. CASE failed # 0 /\ \A i \in DOMAIN calls : calls[i].next.at < failed
      <4>1. c.next.at < failed /\ failed \in Nat
        BY <1>5, <3>3, StoreNumbers
      <4>2. failed' = IF c.next.at > failed THEN 0 ELSE failed
        BY <2>1 DEF Commit
      <4>3. failed' = failed
        BY <1>2, <4>1, <4>2
      <4>4. \A i \in DOMAIN calls' : calls'[i].next.at < failed'
        BY <1>5, <2>1, <3>3, <4>3
      <4> QED BY <3>3, <4>3, <4>4 DEF Answered
    <3> QED BY <1>5, <3>1, <3>2, <3>3 DEF SavesInv, Answered
  <2>12. KeysKnown'
    <3> SUFFICES ASSUME faults = 0
                 PROVE  /\ disk'.index = parts'.index
                        /\ \A d \in Ids : disk'.docs[d] # 0 => d \in parts'.index \union leftOver
      BY <1>1 DEF KeysKnown
    <3>1. ~Removing
      BY <1>1, <1>5 DEF Removing
    <3>2. parts.index \subseteq Present(c.next.docs)
      BY <1>2, <1>8 DEF CallFits
    <3>3. \A d \in Ids : disk.docs[d] # 0 => d \in parts.index \union leftOver
      BY <1>5, <3>1 DEF SavesInv, KeysKnown
    <3> QED BY <1>3, <2>2, <3>2, <3>3
  <2>13. (Saving => Steady)'
    BY <1>5, <1>11, <2>1, <2>4
  <2> QED
    BY <2>3, <2>4, <2>6, <2>7, <2>8, <2>9, <2>11, <2>12, <2>13 DEF SavesInv, OrderInv
\* The save goes on to remove keys: it is for the store in memory, and alone.
<1>9. CASE c.changes.removes # {}
  <2>1. PICK x : x = [c EXCEPT !.op = "remove"]
    OBVIOUS
  <2>2. /\ x \in CallType /\ x.op = "remove" /\ x.next = c.next /\ x.changes = c.changes
    BY <1>2, <2>1 DEF CallType
  <2>3. calls' = <<x>> /\ UNCHANGED <<parts, refs, failed>> /\ c.next = memory
    <3>1. /\ calls' = Append(Tail(calls), [Head(calls) EXCEPT !.op = "remove"])
          /\ UNCHANGED <<parts, refs, failed>>
      <4>1. Head(calls).changes.removes # {}
        BY <1>9
      <4> QED BY <4>1 DEF MultiSet
    <3>2. Tail(calls) = <<>> /\ c.next = memory
      BY <1>2, <1>9
    <3>3. calls' = Append(<<>>, x)
      BY <2>1, <3>1, <3>2
    <3>4. Append(<<>>, x) = <<x>>
      OBVIOUS
    <3> QED BY <3>1, <3>2, <3>3, <3>4
  <2>4. DOMAIN calls' = {1} /\ calls'[1] = x /\ Len(calls') = 1 /\ calls' # <<>>
    BY <2>3
  <2>5. OnDisk(memory)' /\ Landed(x)'
    <3>1. OnDisk(memory)'
      BY <1>1, <1>3, <2>3 DEF OnDisk
    <3>2. Landed(x)'
      BY <1>3, <2>2 DEF Landed
    <3> QED BY <3>1, <3>2
  <2>6. NumbersBounded'
    <3>1. \A i \in DOMAIN calls' : calls'[i].next = memory'
      BY <1>1, <2>2, <2>3, <2>4
    <3>2. ASSUME NEW i \in DOMAIN calls'
          PROVE  Bounded(calls[i].next)'
      BY <1>7, <3>1 DEF Bounded
    <3> QED BY <1>7, <3>2 DEF NumbersBounded
  <2>7. SnapshotBehind' /\ RefsAgree' /\ (Saving => Steady)'
    <3>1. parts.docs \in [Ids -> Nat] /\ parts.rest \in Nat
      BY <1>5, StoreNumbers
    <3>2. parts.rest <= disk'.rest
      BY <1>4, <1>5, <1>10, <3>1 DEF SnapshotBehind
    <3>3. ASSUME NEW d \in Ids
          PROVE  parts.docs[d] <= disk'.docs[d]
      BY <1>4, <1>5, <1>10, <3>1 DEF SnapshotBehind
    <3>4. RefsAgree'
      BY <2>3 DEF SavesInv, OrderInv, RefsAgree, SameDoc, SameRest
    <3>5. (Saving => Steady)'
      BY <1>5, <1>11, <2>2, <2>3, <2>4
    <3> QED BY <2>3, <3>2, <3>3, <3>4, <3>5 DEF SnapshotBehind
  <2>8. CallsInOrder'
    <3>1. Older(disk', memory') /\ Older(memory', memory')
      BY <1>1, <1>5, <1>6, OlderSelf DEF Older
    <3>2. ASSUME NEW i \in DOMAIN calls'
          PROVE  /\ Older(disk', calls'[i].next) /\ Older(calls'[i].next, memory')
                 /\ calls'[i].next.at <= memory'.at /\ calls'[i].next.at > 0
                 /\ calls'[i].op # "set"
      BY <1>1, <1>2, <2>2, <2>3, <2>4, <3>1
    <3>3. \A i, j \in DOMAIN calls' : ~ (i < j)
      BY <2>4
    <3> QED BY <1>6, <3>2, <3>3 DEF CallsInOrder, Older
  <2>9. Unwritten'
    <3>1. /\ \A d \in Present(x.next.docs) \ x.changes.docs :
                SameDoc(d, parts'.docs[d], x.next.docs[d])
          /\ ~x.changes.rest => SameRest(parts'.rest, x.next.rest)
      BY <1>5, <2>2, <2>3 DEF SavesInv, OrderInv, Unwritten
    <3> QED BY <2>4, <3>1 DEF Unwritten, SameDoc, SameRest
  <2>10. disk'.index = Present(memory'.docs)
    BY <1>1, <1>3, <2>3
  <2>11. IndexKept'
    <3>1. /\ Present(memory.docs) \cap gone = {} /\ running
          /\ parts.index \subseteq Present(memory.docs) \union gone
      BY <1>5 DEF SavesInv, IndexKept, Saving
    <3>2. parts.index \ Present(memory.docs) # {}
      BY <1>2, <1>9, <2>3 DEF CallFits
    <3> QED BY <1>1, <2>3, <3>1, <3>2 DEF IndexKept
  <2>12. RemovalsLast'
    BY <1>1, <2>2, <2>3, <2>4, <2>5 DEF RemovalsLast
  <2>13. Answered'
    BY <2>5 DEF Answered
  <2>14. KeysKnown'
    <3> SUFFICES ASSUME faults = 0
                 PROVE  /\ Removing'
                        /\ \A d \in Ids : disk'.docs[d] # 0 =>
                              d \in parts.index \union leftOver \/ d \in Present(memory.docs)
      BY <1>1, <2>3 DEF KeysKnown
    <3>1. Removing'
      BY <2>2, <2>4 DEF Removing
    <3>2. \A d \in Ids : disk.docs[d] # 0 => d \in parts.index \union leftOver
      BY <1>1, <1>5 DEF SavesInv, KeysKnown, Removing
    <3> QED BY <1>3, <2>3, <3>1, <3>2
  <2> QED BY <2>6, <2>7, <2>8, <2>9, <2>11, <2>12, <2>13, <2>14 DEF SavesInv, OrderInv
<1> QED BY <1>8, <1>9

LEMMA RemoveKeepsSaves ==
    ASSUME SavesInv, ReadableInv', MultiRemove
    PROVE  /\ SavesInv'
           /\ ReadDocs' = ReadDocs /\ disk'.rest = disk.rest
           /\ Tail(calls) = <<>>
<1> PICK c : c = Head(calls)
  OBVIOUS
<1>1. /\ calls # <<>> /\ c.op = "remove" /\ disk' = Removed(disk, c.changes)
      /\ Commit(c) /\ calls' = Tail(calls)
      /\ UNCHANGED <<running, readOnly, memory, savedAt, updates, faults, gone, leftOver>>
  BY DEF MultiRemove
<1>2. /\ c \in CallType /\ CallFits(c)
      /\ c.next = memory /\ Tail(calls) = <<>> /\ OnDisk(memory) /\ Landed(c)
      /\ c.changes.removes # {} /\ Older(disk, memory)
  BY <1>1, FirstCallFacts
<1>3. /\ TypeInv /\ memory \in StoreType /\ disk \in KeysType
      /\ disk.docs \in [Ids -> Nat] /\ disk.rest \in Nat /\ disk.index \subseteq Ids
      /\ updates \in Nat /\ Saving /\ Saving' /\ calls[1] = c
      /\ memory.docs \in [Ids -> Nat] /\ memory.rest \in Nat
  BY <1>1, StoreNumbers, LaterCalls, StoreFields
  DEF SavesInv, ReadableInv, TypeInv, TypeOK, Saving
<1>4. /\ disk'.index = disk.index /\ disk'.rest = disk.rest
      /\ disk'.docs = [d \in Ids |-> IF d \in c.changes.removes THEN 0 ELSE disk.docs[d]]
  BY <1>1, <1>3 DEF Removed, KeysType
<1>5. /\ disk.index = Present(memory.docs)
      /\ c.changes.removes = parts.index \ Present(memory.docs)
      /\ parts'.index = Present(memory.docs)
  BY <1>1, <1>2, <1>3, CommitAgrees DEF OnDisk, CallFits, SavesInv, ReadableInv
<1>6. \A d \in Present(memory.docs) : disk'.docs[d] = disk.docs[d]
  BY <1>4, <1>5 DEF Present
<1>7. ReadDocs' = ReadDocs
  <2>1. \A d \in Ids : (IF d \in disk'.index THEN disk'.docs[d] ELSE 0)
                     = (IF d \in disk.index THEN disk.docs[d] ELSE 0)
    BY <1>4, <1>5
  <2>2. ReadDocs' = [d \in Ids |-> IF d \in disk'.index THEN disk'.docs[d] ELSE 0]
    BY DEF ReadDocs
  <2> QED BY <2>1, <2>2 DEF ReadDocs
<1>8. OnDisk(memory)'
  BY <1>1, <1>2, <1>4, <1>5, <1>7 DEF OnDisk, DocValues, SameRest
<1>9. DOMAIN calls' = {} /\ calls' = <<>>
  BY <1>1, <1>2
<1>10. NumbersBounded'
  <2>1. ASSUME NEW d \in Ids
        PROVE  disk'.docs[d] <= updates
    BY <1>3, <1>4 DEF SavesInv, OrderInv, NumbersBounded, Bounded
  <2> QED BY <1>1, <1>4, <1>9, <2>1 DEF SavesInv, OrderInv, NumbersBounded, Bounded
<1>11. /\ SnapshotBehind' /\ RefsAgree'
       /\ \A d \in Ids : parts'.docs[d] \in {0, parts.docs[d], c.next.docs[d]}
       /\ parts'.rest \in {parts.rest, c.next.rest}
  <2>1. \A d \in Ids \ c.changes.removes : disk.docs[d] <= disk'.docs[d]
    BY <1>3, <1>4
  <2>2. \A d \in Ids : disk'.docs[d] \in Nat
    BY <1>3, <1>4
  <2>3. disk.rest <= disk'.rest /\ disk'.rest \in Nat
    BY <1>3, <1>4
  <2>4. Landed(c)'
    <3>1. \A d \in c.changes.docs : d \in Ids /\ d \notin c.changes.removes
      BY <1>2 DEF CallFits, Present
    <3> QED BY <1>2, <1>4, <3>1 DEF Landed
  <2> QED BY <1>1, <2>1, <2>2, <2>3, <2>4, CommitBehind
<1>16. (Saving => Steady)'
  <2>1. ASSUME NEW d \in Ids
        PROVE  DocChain(d)' \subseteq DocChain(d) \cup {0}
    <3>1. /\ parts'.docs[d] \in {0, parts.docs[d], memory.docs[d]}
          /\ disk'.docs[d] \in {0, disk.docs[d]}
          /\ memory'.docs[d] = memory.docs[d]
      BY <1>1, <1>2, <1>4, <1>11
    <3> QED BY <1>9, <3>1 DEF DocChain, DocCopies
  <2>2. RestChain' \subseteq RestChain
    <3>1. /\ parts'.rest \in {parts.rest, memory.rest}
          /\ disk'.rest = disk.rest /\ memory'.rest = memory.rest
      BY <1>1, <1>2, <1>4, <1>11
    <3> QED BY <1>9, <3>1 DEF RestChain, RestCopies
  <2>3. Steady /\ NumbersBounded /\ SnapshotBehind
    BY <1>3 DEF SavesInv, OrderInv
  <2> QED BY <1>3, <2>1, <2>2, <2>3, SteadyKept
<1>12. CallsInOrder'
  <2>1. Older(disk', memory')
    BY <1>1, <1>2, <1>4, <1>6 DEF Older
  <2>2. savedAt' <= memory'.at
    BY <1>1, <1>3 DEF SavesInv, OrderInv, CallsInOrder
  <2> QED BY <1>9, <2>1, <2>2 DEF CallsInOrder, Older
<1>13. Unwritten' /\ RemovalsLast' /\ Answered'
  BY <1>8, <1>9 DEF Unwritten, RemovalsLast, Answered
<1>14. IndexKept'
  BY <1>1, <1>3, <1>4, <1>5 DEF SavesInv, IndexKept, Saving
<1>15. KeysKnown'
  <2> SUFFICES ASSUME faults = 0
               PROVE  \A d \in Ids : disk'.docs[d] # 0 => d \in parts'.index \union leftOver
    BY <1>1, <1>4, <1>5 DEF KeysKnown
  <2>1. \A d \in Ids : disk.docs[d] # 0 =>
              d \in parts.index \union leftOver \/ d \in Present(memory.docs)
    BY <1>3 DEF SavesInv, KeysKnown
  <2> QED BY <1>4, <1>5, <2>1
<1> QED
  BY <1>1, <1>2, <1>4, <1>7, <1>10, <1>11, <1>12, <1>13, <1>14, <1>15, <1>16
  DEF SavesInv, OrderInv

LEMMA FailKeepsSaves ==
    ASSUME SavesInv, ReadableInv', FailCall
    PROVE  SavesInv'
<1> PICK c : c = Head(calls)
  OBVIOUS
<1>1. /\ calls # <<>> /\ calls' = Tail(calls)
      /\ faults' = faults + 1
      /\ failed' = IF c.next.at > failed THEN c.next.at ELSE failed
      /\ UNCHANGED <<running, readOnly, memory, parts, refs, disk, savedAt, updates, gone,
                     leftOver>>
  BY DEF FailCall, diskVars
<1>2. /\ TypeInv /\ calls \in Seq(CallType) /\ Len(calls) \in Nat
      /\ failed \in Nat /\ calls[1] = c /\ Saving /\ Saving' /\ faults \in Nat
      /\ 1 \in DOMAIN calls
      /\ c.next.at > 0 /\ c.next.at \in Nat
      /\ \A i \in DOMAIN calls' :
            /\ i \in Nat /\ i + 1 \in DOMAIN calls /\ calls'[i] = calls[i + 1]
  BY <1>1, StoreNumbers, LaterCalls, FirstCallFacts
  DEF SavesInv, ReadableInv, TypeInv, TypeOK, Saving
<1>3. NumbersBounded'
  <2>1. ASSUME NEW i \in DOMAIN calls'
        PROVE  Bounded(calls[i].next)'
    <3>1. Bounded(calls[i + 1].next) /\ calls'[i] = calls[i + 1]
      BY <1>2 DEF SavesInv, OrderInv, NumbersBounded
    <3> QED BY <1>1, <3>1 DEF Bounded
  <2> QED BY <1>1, <2>1 DEF SavesInv, OrderInv, NumbersBounded, Bounded
<1>4. SnapshotBehind' /\ IndexKept' /\ RefsAgree'
  BY <1>1 DEF SavesInv, OrderInv, SnapshotBehind, IndexKept, Saving, RefsAgree, SameDoc, SameRest
<1>11. (Saving => Steady)'
  <2>1. ASSUME NEW d \in Ids
        PROVE  DocChain(d)' \subseteq DocChain(d) \cup {0}
    BY <1>1, <1>2 DEF DocChain, DocCopies
  <2>2. RestChain' \subseteq RestChain
    BY <1>1, <1>2 DEF RestChain, RestCopies
  <2>3. Steady /\ NumbersBounded /\ SnapshotBehind
    BY <1>2 DEF SavesInv, OrderInv
  <2> QED BY <1>2, <2>1, <2>2, <2>3, SteadyKept
<1>5. CallsInOrder'
  <2>1. ASSUME NEW i \in DOMAIN calls'
        PROVE  /\ Older(disk, calls'[i].next) /\ Older(calls'[i].next, memory)
               /\ calls'[i].next.at <= memory.at /\ calls'[i].next.at > 0
               /\ calls'[i].op = "set" => savedAt < calls'[i].next.at
    BY <1>2 DEF SavesInv, OrderInv, CallsInOrder
  <2>2. ASSUME NEW i \in DOMAIN calls', NEW j \in DOMAIN calls', i < j
        PROVE  /\ Older(calls'[i].next, calls'[j].next)
               /\ calls'[i].next.at < calls'[j].next.at
    <3>1. /\ i + 1 \in DOMAIN calls /\ j + 1 \in DOMAIN calls /\ i \in Nat /\ j \in Nat
          /\ calls'[i] = calls[i + 1] /\ calls'[j] = calls[j + 1]
      BY <1>2
    <3>2. i + 1 < j + 1
      BY <2>2, <3>1
    <3> QED BY <3>1, <3>2 DEF SavesInv, OrderInv, CallsInOrder
  <2>3. Older(disk, memory) /\ savedAt <= memory.at
    BY <1>2 DEF SavesInv, OrderInv, CallsInOrder
  <2> QED BY <1>1, <2>1, <2>2, <2>3 DEF CallsInOrder, Older
<1>6. Unwritten'
  <2> SUFFICES ASSUME NEW i \in DOMAIN calls'
               PROVE  /\ \A d \in Present(calls'[i].next.docs) \ calls'[i].changes.docs :
                            SameDoc(d, parts.docs[d], calls'[i].next.docs[d])
                      /\ ~calls'[i].changes.rest => SameRest(parts.rest, calls'[i].next.rest)
    BY <1>1 DEF Unwritten, SameDoc, SameRest
  <2> QED BY <1>2 DEF SavesInv, OrderInv, Unwritten
<1>7. OnDisk(memory) => OnDisk(memory)'
  BY <1>1 DEF OnDisk, ReadDocs, DocValues, SameRest
<1>8. RemovalsLast'
  <2> SUFFICES ASSUME NEW i \in DOMAIN calls'
               PROVE  /\ calls'[i].changes.removes # {} => calls'[i].next = memory
                      /\ calls'[i].op = "remove" => OnDisk(memory)' /\ Landed(calls'[i])
    BY <1>1 DEF RemovalsLast, Landed
  <2> QED BY <1>2, <1>7 DEF SavesInv, RemovalsLast
<1>9. Answered'
  <2>1. CASE OnDisk(memory)
    BY <1>7, <2>1 DEF Answered
  <2>2. CASE /\ calls[Len(calls)].next.docs = memory.docs
             /\ calls[Len(calls)].next.rest = memory.rest
    <3>1. CASE Len(calls) = 1
      <4>1. DOMAIN calls' = {}
        <5>1. Tail(calls) = <<>>
          BY <1>1, <1>2, <3>1, LaterCalls
        <5> QED BY <1>1, <5>1
      <4>2. failed' # 0
        BY <1>1, <1>2
      <4> QED BY <4>1, <4>2 DEF Answered
    <3>2. CASE Len(calls) # 1
      <4>1. calls' # <<>> /\ calls'[Len(calls')] = calls[Len(calls)]
        BY <1>1, <1>2, <3>2, LaterCalls
      <4> QED BY <1>1, <2>2, <4>1 DEF Answered
    <3> QED BY <3>1, <3>2
  <2>3. CASE failed # 0 /\ \A i \in DOMAIN calls : calls[i].next.at < failed
    <3>1. c.next.at < failed
      BY <1>2, <2>3
    <3>2. failed' = failed
      BY <1>1, <1>2, <3>1
    <3>3. \A i \in DOMAIN calls' : calls'[i].next.at < failed'
      BY <1>2, <2>3, <3>2
    <3> QED BY <2>3, <3>2, <3>3 DEF Answered
  <2> QED BY <1>2, <2>1, <2>2, <2>3 DEF SavesInv, Answered
<1>10. KeysKnown'
  BY <1>1, <1>2 DEF KeysKnown
<1> QED BY <1>3, <1>4, <1>5, <1>6, <1>8, <1>9, <1>10, <1>11 DEF SavesInv, OrderInv

\* Where no save is under way only memory, the snapshot and the disk matter.
LEMMA NoCallsSaves ==
    ASSUME calls = <<>>
    PROVE  /\ Unwritten /\ RemovalsLast /\ ~Removing
           /\ NumbersBounded <=> Bounded(disk) /\ Bounded(memory)
           /\ CallsInOrder <=> (Saving => Older(disk, memory) /\ savedAt <= memory.at)
<1>1. DOMAIN calls = {}
  OBVIOUS
<1> QED
  BY <1>1 DEF Unwritten, RemovalsLast, Removing, NumbersBounded, CallsInOrder

LEMMA BlankBounded ==
    ASSUME updates \in Nat
    PROVE  Bounded(emptyStore) /\ Bounded(NoParts)
BY DEF Bounded, emptyStore, NoParts, NoDocs

LEMMA StartKeepsSaves ==
    ASSUME SavesInv, ReadableInv', LoadFromDisk
    PROVE  SavesInv'
<1>1. /\ ~running /\ running' /\ readOnly' = readOnly /\ Readable
      /\ memory'.at = savedAt /\ memory'.docs = ReadDocs /\ memory'.rest = disk.rest
      /\ parts' = [disk EXCEPT !.docs = ReadDocs]
      /\ refs'.docs = ReadDocs /\ refs'.rest = disk.rest
      /\ gone' = {} /\ leftOver' = Unlisted
      /\ UNCHANGED <<calls, disk, savedAt, updates, faults, failed>>
  BY DEF LoadFromDisk, diskVars
<1>2. /\ calls' = <<>> /\ disk \in KeysType
      /\ disk.docs \in [Ids -> Nat] /\ disk.rest \in Nat /\ disk.index \subseteq Ids
      /\ updates \in Nat /\ savedAt \in Nat
  BY <1>1, StoreNumbers DEF SavesInv, ReadableInv, TypeInv, TypeOK
<1>3. /\ parts'.docs = ReadDocs /\ parts'.rest = disk.rest /\ parts'.index = disk.index
  BY <1>1, <1>2 DEF KeysType
<1>4. ASSUME NEW d \in Ids
      PROVE  ReadDocs[d] <= disk.docs[d] /\ ReadDocs[d] \in {0, disk.docs[d]}
  BY <1>2 DEF ReadDocs
<1>5. Present(ReadDocs) = disk.index
  BY <1>1, <1>2 DEF Present, ReadDocs, Readable
<1>6. Bounded(disk)
  BY DEF SavesInv, OrderInv, NumbersBounded
<1>7. NumbersBounded'
  <2>1. Bounded(disk)'
    BY <1>1, <1>6 DEF Bounded
  <2>2. \A d \in Ids : ReadDocs[d] <= updates
    BY <1>2, <1>4, <1>6 DEF Bounded
  <2>3. Bounded(memory)'
    BY <1>1, <1>6, <2>2 DEF Bounded
  <2> QED BY <1>2, <2>1, <2>3 DEF NumbersBounded
<1>8. SnapshotBehind' /\ RefsAgree'
  BY <1>1, <1>2, <1>3, <1>4 DEF SnapshotBehind, RefsAgree, SameDoc, SameRest
<1>14. Steady'
  <2>1. /\ \A d \in Ids : DocChain(d)' \subseteq {ReadDocs[d], disk.docs[d]}
        /\ RestChain' \subseteq {disk.rest}
    <3>1. DOMAIN calls' = {}
      BY <1>2
    <3> QED BY <1>1, <1>3, <3>1 DEF DocChain, DocCopies, RestChain, RestCopies
  <2>2. ASSUME NEW d \in Ids, NEW k \in DocChain(d)', NEW m \in DocChain(d)',
               NEW n \in DocChain(d)', k <= m, m <= n, SameDoc(d, k, n)
        PROVE  SameDoc(d, m, n)
    <3>1. /\ k \in {0, disk.docs[d]} /\ m \in {0, disk.docs[d]} /\ n \in {0, disk.docs[d]}
          /\ disk.docs[d] \in Nat
      BY <1>2, <1>4, <2>1, <2>2
    <3>2. m = k \/ m = n
      BY <2>2, <3>1
    <3> QED BY <2>2, <3>2 DEF SameDoc
  <2>3. ASSUME NEW k \in RestChain', NEW m \in RestChain', NEW n \in RestChain'
        PROVE  SameRest(m, n)
    BY <2>1, <2>3 DEF SameRest
  <2>4. /\ \A d \in Ids : \A k, m, n \in DocChain(d)' :
              k <= m /\ m <= n /\ SameDoc(d, k, n) => SameDoc(d, m, n)
        /\ \A k, m, n \in RestChain' :
              k <= m /\ m <= n /\ SameRest(k, n) => SameRest(m, n)
    BY <2>2, <2>3
  <2> QED BY <2>4 DEF Steady, SameDoc, SameRest
<1>9. CallsInOrder'
  <2>1. \A d \in Present(ReadDocs) : disk.docs[d] <= ReadDocs[d]
    BY <1>2, <1>5 DEF ReadDocs
  <2>2. Older(disk', memory')
    BY <1>1, <1>2, <2>1 DEF Older
  <2> QED BY <1>1, <1>2, <2>2 DEF CallsInOrder, Older
<1>10. OnDisk(memory)'
  BY <1>1, <1>5 DEF OnDisk, ReadDocs, DocValues, SameRest
<1>11. Unwritten' /\ RemovalsLast' /\ Answered' /\ ~Removing'
  <2>1. DOMAIN calls' = {}
    BY <1>2
  <2> QED BY <1>2, <1>10, <2>1 DEF Unwritten, RemovalsLast, Answered, Removing
<1>12. IndexKept'
  BY <1>1, <1>3, <1>5 DEF IndexKept
<1>13. KeysKnown'
  <2>1. \A d \in Ids : disk.docs[d] # 0 => d \in disk.index \union Unlisted
    BY DEF Unlisted
  <2> QED BY <1>1, <1>3, <1>11, <2>1 DEF KeysKnown
<1> QED BY <1>7, <1>8, <1>9, <1>11, <1>12, <1>13, <1>14 DEF SavesInv, OrderInv

LEMMA StopKeepsSaves ==
    ASSUME SavesInv, ReadableInv', LoadFails \/ Kill
    PROVE  SavesInv'
<1>1. /\ calls' = <<>> /\ ~Saving' /\ UNCHANGED <<disk, savedAt, updates>>
      /\ ~running' => memory' = emptyStore
      /\ \/ UNCHANGED <<memory, parts, refs>>
         \/ memory' = emptyStore /\ parts' = NoParts /\ refs' = NoRefs
  <2>1. CASE LoadFails
    <3>1. ~running /\ (~running => calls = <<>>)
      BY <2>1 DEF LoadFails, SavesInv, ReadableInv, TypeInv
    <3>2. running' /\ readOnly' /\ UNCHANGED <<memory, parts, refs, calls, disk, savedAt, updates>>
      BY <2>1 DEF LoadFails, diskVars
    <3>3. ~Saving'
      BY <3>2 DEF Saving
    <3>4. calls' = <<>>
      BY <3>1, <3>2
    <3>5. running' /\ UNCHANGED <<disk, savedAt, updates>> /\ UNCHANGED <<memory, parts, refs>>
      BY <3>2
    <3> QED BY <3>3, <3>4, <3>5
  <2>2. CASE Kill
    BY <2>2 DEF Kill, Saving, diskVars
  <2> QED BY <2>1, <2>2
<1>2. /\ updates \in Nat /\ disk.docs \in [Ids -> Nat] /\ disk.rest \in Nat
  BY StoreNumbers DEF SavesInv, ReadableInv
<1>3. NumbersBounded'
  <2>1. Bounded(disk) /\ Bounded(memory) /\ Bounded(emptyStore)
    BY <1>2, BlankBounded DEF SavesInv, OrderInv, NumbersBounded
  <2>2. Bounded(disk)' /\ Bounded(memory)'
    BY <1>1, <2>1 DEF Bounded
  <2>3. DOMAIN calls' = {}
    BY <1>1
  <2> QED BY <2>2, <2>3 DEF NumbersBounded
<1>4. SnapshotBehind' /\ RefsAgree'
  BY <1>1, <1>2
  DEF SavesInv, OrderInv, SnapshotBehind, RefsAgree, SameDoc, SameRest, NoParts, NoRefs, NoDocs
<1>5. DOMAIN calls' = {}
  BY <1>1
<1>6. CallsInOrder' /\ Unwritten' /\ RemovalsLast' /\ Answered' /\ KeysKnown'
  BY <1>1, <1>5 DEF CallsInOrder, Unwritten, RemovalsLast, Answered, KeysKnown
<1>7. IndexKept'
  BY <1>1 DEF IndexKept
<1> QED BY <1>1, <1>3, <1>4, <1>6, <1>7 DEF SavesInv, OrderInv

LEMMA SavesStutter ==
    ASSUME SavesInv, ReadableInv', UNCHANGED vars
    PROVE  SavesInv'
<1>1. /\ OrderInv'
  BY DEF vars, appVars, diskVars, SavesInv, OrderInv, NumbersBounded, Bounded, SnapshotBehind,
         CallsInOrder, Saving, Older, Unwritten, RefsAgree, SameDoc, SameRest, Steady,
         DocChain, DocCopies, RestChain, RestCopies
<1>2. IndexKept' /\ RemovalsLast' /\ Answered' /\ KeysKnown'
  BY DEF vars, appVars, diskVars, SavesInv, IndexKept, RemovalsLast, Answered, KeysKnown,
         Saving, OnDisk, ReadDocs, Removing, DocValues, SameRest, Landed
<1> QED BY <1>1, <1>2 DEF SavesInv

LEMMA SavesInit == Init => SavesInv
<1> SUFFICES ASSUME Init PROVE SavesInv
  OBVIOUS
<1>1. /\ calls = <<>> /\ ~Saving /\ ~running /\ memory = emptyStore /\ disk = NoParts
      /\ parts = NoParts /\ refs = NoRefs /\ updates = 0 /\ updates \in Nat
  BY DEF Init, Saving
<1>2. NumbersBounded /\ CallsInOrder /\ Unwritten /\ RemovalsLast
  BY <1>1, NoCallsSaves, BlankBounded
<1>3. SnapshotBehind /\ RefsAgree
  BY <1>1 DEF SnapshotBehind, RefsAgree, SameDoc, SameRest, NoParts, NoRefs, NoDocs
<1>4. IndexKept /\ Answered /\ KeysKnown
  BY <1>1 DEF IndexKept, Answered, KeysKnown
<1> QED BY <1>1, <1>2, <1>3, <1>4, ReadableInit DEF SavesInv, OrderInv

LEMMA SavesHold ==
    ASSUME ~RemovalsOverlap, ~RevertsOverlap, Returning = {}
    PROVE  Spec => []SavesInv
<1>1. SavesInv /\ ReadableInv' /\ [Next]_vars => SavesInv'
  <2> SUFFICES ASSUME SavesInv, ReadableInv', [Next]_vars PROVE SavesInv'
    OBVIOUS
  <2> QED
    BY UpdateKeepsSaves, SetKeepsSaves, RemoveKeepsSaves, FailKeepsSaves,
       StartKeepsSaves, StopKeepsSaves, SavesStutter DEF Next
<1>2. SavesInv /\ [Next]_vars => ReadableInv'
  BY ReadableStep DEF SavesInv
<1> QED BY <1>1, <1>2, SavesInit, PTL DEF Spec

\* Once the saves have settled a start would find exactly the store in memory,
\* provided that saves which remove keys overlap no others, that a removed match
\* does not come back in the same session, and that no part goes back to a value
\* while the disk or a save under way has it otherwise.
THEOREM SettledStoreIsSaved ==
    ASSUME ~RemovalsOverlap, ~RevertsOverlap, Returning = {}
    PROVE  Spec => []SettledIsSaved
<1>1. SavesInv => SettledIsSaved
  <2> SUFFICES ASSUME SavesInv, Settled
               PROVE  <<DocValues(ReadDocs), disk.index, RestValue(disk.rest)>>
                        = <<DocValues(memory.docs), Present(memory.docs),
                            RestValue(memory.rest)>>
    BY DEF SettledIsSaved
  <2>1. OnDisk(memory)
    BY DEF SavesInv, Answered, Settled, Saving
  <2> QED BY <2>1 DEF OnDisk, SameRest
<1> QED BY <1>1, SavesHold, PTL

\* Once the saves have settled, and no call ever failed, the only keys of
\* matches nobody can see are those the session found at its start; under the
\* same provisions.
THEOREM OwnKeysRemoved ==
    ASSUME ~RemovalsOverlap, ~RevertsOverlap, Returning = {}
    PROVE  Spec => []NothingLeftBehind
<1>1. SavesInv => NothingLeftBehind
  <2> SUFFICES ASSUME SavesInv, Settled, faults = 0
               PROVE  Unlisted \subseteq leftOver
    BY DEF NothingLeftBehind
  <2>1. Saving /\ ~Removing
    BY DEF Settled, Saving, Removing
  <2>2. /\ disk.index = parts.index
        /\ \A d \in Ids : disk.docs[d] # 0 => d \in parts.index \union leftOver
    BY <2>1 DEF SavesInv, KeysKnown
  <2> QED BY <2>2 DEF Unlisted
<1> QED BY <1>1, SavesHold, PTL

-----------------------------------------------------------------------------
(***************************************************************************)
(* The store keeps the promise of SavedStore                               *)
(***************************************************************************)

\* The parameters of Store.
Session == IF ~running THEN "off" ELSE IF readOnly THEN "safe" ELSE "running"
Shown   == [at |-> memory.at, docs |-> DocValues(memory.docs), rest |-> RestValue(memory.rest)]
Handed(c) ==
    [at |-> c.next.at, docs |-> DocValues(c.next.docs), rest |-> RestValue(c.next.rest)]
Pending == {Handed(calls[i]) : i \in {j \in DOMAIN calls : calls[j].op = "set"}}
Found   == [at |-> savedAt, docs |-> DocValues(ReadDocs), rest |-> RestValue(disk.rest)]

\* What the objects of a store hold, and what an empty one does.
LEMMA ValuesHeld ==
    /\ \A docs \in [Ids -> Objects] : DocValues(docs) \in [Ids -> Nat]
    /\ \A n \in Objects : RestValue(n) \in Nat
    /\ DocValues(NoDocs) = [d \in Ids |-> 0] /\ RestValue(0) = 0
<1>1. ASSUME NEW docs \in [Ids -> Objects]
      PROVE  DocValues(docs) \in [Ids -> Nat]
  BY StorePersistenceAssumption DEF DocValues, Objects
<1>2. \A d \in Ids : DocValue(d, 0) = 0
  BY ObjectNumbers, StorePersistenceAssumption DEF Objects
<1>3. DocValues(NoDocs) = [d \in Ids |-> 0]
  BY <1>2 DEF DocValues, NoDocs
<1> QED BY <1>1, <1>3, StorePersistenceAssumption DEF Objects

\* The stores under way after the first call is answered, where no later call
\* removes keys.
LEMMA PendingTail ==
    ASSUME SavesInv, calls # <<>>, calls' = Tail(calls), NEW c, c = Head(calls)
    PROVE  /\ c.op = "set" => Handed(c) \in Pending /\ Pending' = Pending \ {Handed(c)}
           /\ c.op # "set" => Pending' = Pending
<1>1. /\ calls[1] = c /\ 1 \in DOMAIN calls
      /\ DOMAIN calls = 1..Len(calls) /\ Len(calls) \in Nat
      /\ c.next.at \in Nat
      /\ \A i \in DOMAIN calls' : /\ i \in Nat /\ i + 1 \in DOMAIN calls
                                  /\ calls'[i] = calls[i + 1]
                                  /\ c.next.at < calls'[i].next.at
  BY LaterCalls, FirstCallFacts, StoreNumbers DEF SavesInv, ReadableInv
<1>2. DOMAIN calls' = 1..(Len(calls) - 1)
  BY StoreNumbers, HeadIsCall DEF SavesInv, ReadableInv
<1>3. \A x \in Pending' : x \in Pending /\ x # Handed(c)
  <2> SUFFICES ASSUME NEW i \in DOMAIN calls', calls'[i].op = "set"
               PROVE  Handed(calls'[i]) \in Pending /\ Handed(calls'[i]) # Handed(c)
    BY DEF Pending, Handed
  <2>1. Handed(calls'[i]) \in Pending
    BY <1>1 DEF Pending
  <2>2. Handed(calls'[i]).at = calls'[i].next.at /\ Handed(c).at = c.next.at
    BY DEF Handed
  <2>3. calls'[i].next.at # c.next.at
    <3>1. c.next.at < calls'[i].next.at /\ c.next.at \in Nat
      BY <1>1
    <3>2. \A n \in Nat : ~ (n < n)
      OBVIOUS
    <3> QED BY <3>1, <3>2
  <2> QED BY <2>1, <2>2, <2>3
<1>4. ASSUME NEW i \in DOMAIN calls, calls[i].op = "set"
      PROVE  i = 1 \/ Handed(calls[i]) \in Pending'
  <2>1. CASE i # 1
    <3>1. i - 1 \in DOMAIN calls' /\ (i - 1) + 1 = i
      BY <1>1, <1>2, <2>1
    <3>2. calls'[i - 1] = calls[i]
      BY <1>1, <3>1
    <3>3. Handed(calls'[i - 1]) \in Pending'
      BY <1>4, <3>1, <3>2 DEF Pending, Handed
    <3> QED BY <3>2, <3>3
  <2> QED BY <2>1
<1>5. \A x \in Pending : x \in Pending' \/ (c.op = "set" /\ x = Handed(c))
  <2> SUFFICES ASSUME NEW i \in DOMAIN calls, calls[i].op = "set"
               PROVE  Handed(calls[i]) \in Pending' \/ (c.op = "set" /\ Handed(calls[i]) = Handed(c))
    BY DEF Pending
  <2> QED BY <1>1, <1>4
<1>6. c.op = "set" => Handed(c) \in Pending
  BY <1>1 DEF Pending
<1> QED BY <1>3, <1>5, <1>6

LEMMA StoreInit == Init => Store!Init
<1> SUFFICES ASSUME Init PROVE Store!Init
  OBVIOUS
<1>1. DOMAIN calls = {}
  BY DEF Init
<1>2. ReadDocs = NoDocs /\ memory.docs = NoDocs /\ memory.rest = 0 /\ disk.rest = 0
      /\ memory.at = 0
  BY DEF Init, ReadDocs, NoParts, NoDocs, emptyStore
<1>3. DocValues(ReadDocs) = [d \in Ids |-> 0] /\ DocValues(memory.docs) = [d \in Ids |-> 0]
      /\ RestValue(memory.rest) = 0 /\ RestValue(disk.rest) = 0
  BY <1>2, ValuesHeld
<1> QED
  BY <1>1, <1>2, <1>3 DEF Init, Store!Init, Store!Blank

\* The steps of SavedStore, in the words of this module.
LEMMA StoreSteps ==
    /\ Store!storeVars = <<Session, Shown, Pending, Found>>
    /\ Store!Start <=>
          /\ Session = "off"
          /\ \/ Session' = "running" /\ Shown' = Found
             \/ Session' = "safe" /\ Shown' = Store!Blank
          /\ UNCHANGED <<Pending, Found>>
    /\ Store!Change <=>
          /\ Session # "off"
          /\ Shown' \in Store!Stores
          /\ Shown.at < Shown'.at
          /\ \/ UNCHANGED Pending
             \/ Session = "running" /\ Pending' = Pending \union {Shown'}
          /\ UNCHANGED <<Session, Found>>
    /\ Store!Stop <=>
          Session' = "off" /\ Pending' = {} /\ Shown' = Store!Blank /\ UNCHANGED Found
    /\ \A s : Store!Save(s) <=>
          /\ s \in Pending /\ Found.at < s.at /\ Found' = s
          /\ Pending' = Pending \ {s} /\ UNCHANGED <<Session, Shown>>
    /\ \A s : Store!Fail(s) <=>
          s \in Pending /\ Pending' = Pending \ {s} /\ UNCHANGED <<Session, Shown, Found>>
    /\ Store!Next <=> \/ Store!Start \/ Store!Change \/ Store!Stop
                      \/ \E s \in Pending : Store!Save(s) \/ Store!Fail(s)
BY DEF Store!storeVars, Store!Start, Store!Change, Store!Stop, Store!Save, Store!Fail, Store!Next,
       Session, Shown, Pending, Handed, Found

\* Where the parameters of Store stay as they are, so does Store.
LEMMA StoreStutters ==
    ASSUME UNCHANGED <<running, readOnly, memory, calls, savedAt, disk>>
    PROVE  UNCHANGED <<Session, Shown, Pending, Found>>
BY DEF Session, Shown, Pending, Handed, Found, ReadDocs, DocValues

LEMMA FoundKept ==
    ASSUME savedAt' = savedAt, ReadDocs' = ReadDocs, disk'.rest = disk.rest
    PROVE  UNCHANGED Found
BY DEF Found, DocValues

LEMMA ChangeRefines ==
    ASSUME ~RemovalsOverlap, ~RevertsOverlap, Returning = {}, SavesInv, ReadableInv', AnyUpdate
    PROVE  Store!Change
<1>1. /\ running /\ UNCHANGED <<running, readOnly, savedAt, disk>>
      /\ memory' \in StoreType /\ memory'.at = updates + 1
      /\ memory.at <= updates /\ updates \in Nat /\ memory \in StoreType
      /\ calls \in Seq(CallType) /\ DOMAIN calls = 1..Len(calls) /\ Len(calls) \in Nat
  BY UpdateFacts, UpdateCases, StoreNumbers DEF SavesInv, ReadableInv
<1>2. Session # "off" /\ UNCHANGED <<Session, Found>>
  BY <1>1 DEF Session, Found, ReadDocs, DocValues
<1>3. Shown' \in Store!Stores /\ Shown.at < Shown'.at
  <2>1. memory'.docs \in [Ids -> Objects] /\ memory'.rest \in Objects /\ memory'.at \in Nat
        /\ memory.at \in Nat
    BY <1>1, StoreFields
  <2>4. DocValues(memory'.docs) \in [Ids -> Nat] /\ RestValue(memory'.rest) \in Nat
    BY <2>1, ValuesHeld
  <2>2. Shown'.at = updates + 1 /\ Shown.at = memory.at
    BY <1>1 DEF Shown
  <2>3. Shown' \in Store!Stores
    BY <2>1, <2>4 DEF Shown, Store!Stores, DocValues
  <2> QED BY <1>1, <2>1, <2>2, <2>3
<1>4. CASE calls' = calls
  <2>1. UNCHANGED Pending
    BY <1>4 DEF Pending, Handed
  <2> QED BY <1>2, <1>3, <2>1, StoreSteps
<1>5. ASSUME NEW c \in CallType, Saving, c.next = memory', c.op = "set",
             calls' = Append(calls, c)
      PROVE  Store!Change
  <2>1. /\ DOMAIN calls' = DOMAIN calls \union {Len(calls) + 1}
        /\ \A i \in DOMAIN calls : calls'[i] = calls[i]
        /\ calls'[Len(calls) + 1] = c
    BY <1>1, <1>5
  <2>2. Handed(c) = Shown'
    BY <1>5 DEF Handed, Shown, DocValues
  <2>3. \A x \in Pending' : x \in Pending \union {Shown'}
    <3> SUFFICES ASSUME NEW i \in DOMAIN calls', calls'[i].op = "set"
                 PROVE  Handed(calls'[i]) \in Pending \union {Shown'}
      BY DEF Pending, Handed
    <3>1. CASE i \in DOMAIN calls
      BY <2>1, <3>1 DEF Pending
    <3>2. CASE i = Len(calls) + 1
      BY <2>1, <2>2, <3>2
    <3> QED BY <2>1, <3>1, <3>2
  <2>4. \A x \in Pending : x \in Pending'
    <3> SUFFICES ASSUME NEW i \in DOMAIN calls, calls[i].op = "set"
                 PROVE  Handed(calls[i]) \in Pending'
      BY DEF Pending
    <3>1. i \in DOMAIN calls' /\ calls'[i] = calls[i]
      BY <2>1
    <3>2. Handed(calls'[i]) \in Pending'
      BY <1>5, <3>1 DEF Pending, Handed
    <3> QED BY <3>1, <3>2
  <2>5. Shown' \in Pending'
    <3>1. Handed(calls'[Len(calls) + 1]) \in Pending'
      BY <1>5, <2>1 DEF Pending, Handed
    <3> QED BY <2>1, <2>2, <3>1
  <2>6. Pending' = Pending \union {Shown'}
    BY <2>3, <2>4, <2>5
  <2>7. Session = "running"
    BY <1>5 DEF Saving, Session
  <2> QED BY <1>2, <1>3, <2>6, <2>7, StoreSteps
<1> QED BY <1>4, <1>5, UpdateCalls

LEMMA SaveRefines ==
    ASSUME SavesInv, ReadableInv', MultiSet
    PROVE  \E s \in Pending : Store!Save(s)
<1> PICK c : c = Head(calls)
  OBVIOUS
<1>1. /\ calls # <<>> /\ c.op = "set" /\ savedAt' = c.next.at
      /\ UNCHANGED <<running, readOnly, memory>>
  BY DEF MultiSet
<1>2. /\ calls[1] = c /\ 1 \in DOMAIN calls
      /\ c.changes.removes # {} => Tail(calls) = <<>>
  BY <1>1, LaterCalls, FirstCallFacts DEF SavesInv, ReadableInv
<1>3. savedAt < c.next.at
  BY <1>1, <1>2 DEF SavesInv, OrderInv, CallsInOrder
<1>4. Found' = Handed(c)
  <2>1. OnDisk(c.next)'
    BY SetFacts
  <2>2. DocValues(ReadDocs') = DocValues(c.next.docs) /\ SameRest(disk'.rest, c.next.rest)
    <3>1. PICK s : s = c.next
      OBVIOUS
    <3>2. OnDisk(s)'
      BY <2>1, <3>1
    <3>3. DocValues(ReadDocs') = DocValues(s.docs) /\ SameRest(disk'.rest, s.rest)
      BY <3>2 DEF OnDisk, DocValues, SameRest
    <3> QED BY <3>1, <3>3
  <2> QED BY <1>1, <2>2 DEF Found, Handed, DocValues, SameRest
<1>5. Handed(c) \in Pending /\ Pending' = Pending \ {Handed(c)}
  <2>1. CASE c.changes.removes = {}
    <3>1. calls' = Tail(calls)
      BY <2>1 DEF MultiSet
    <3> QED BY <1>1, <3>1, PendingTail
  <2>2. CASE c.changes.removes # {}
    <3>1. calls' = Append(Tail(calls), [Head(calls) EXCEPT !.op = "remove"])
      BY <2>2 DEF MultiSet
    <3>2. PICK x : x = [c EXCEPT !.op = "remove"]
      OBVIOUS
    <3>3. x.op = "remove"
      <4>1. c \in CallType
        BY <1>1, FirstCallFacts
      <4> QED BY <3>2, <4>1 DEF CallType
    <3>4. calls' = Append(<<>>, x)
      BY <1>2, <2>2, <3>1, <3>2
    <3>5. DOMAIN calls' = {1} /\ calls'[1] = x
      BY <3>4
    <3>6. Pending' = {}
      BY <3>3, <3>5 DEF Pending
    <3>7. Pending = {Handed(c)}
      <4>1. DOMAIN calls = {1}
        <5>1. Len(calls) = 1
          BY <1>1, <1>2, <2>2, LaterCalls DEF SavesInv, ReadableInv
        <5> QED BY <5>1, StoreNumbers DEF SavesInv, ReadableInv
      <4> QED BY <1>1, <1>2, <4>1 DEF Pending
    <3> QED BY <3>6, <3>7
  <2> QED BY <2>1, <2>2
<1>6. UNCHANGED <<Session, Shown>>
  BY <1>1 DEF Session, Shown, DocValues
<1>7. Found.at < Handed(c).at
  BY <1>3 DEF Found, Handed
<1> QED BY <1>4, <1>5, <1>6, <1>7, StoreSteps

LEMMA FailRefines ==
    ASSUME SavesInv, FailCall
    PROVE  \/ \E s \in Pending : Store!Fail(s)
           \/ UNCHANGED <<Session, Shown, Pending, Found>>
<1> PICK c : c = Head(calls)
  OBVIOUS
<1>1. /\ calls # <<>> /\ calls' = Tail(calls)
      /\ UNCHANGED <<running, readOnly, memory, disk, savedAt>>
  BY DEF FailCall, diskVars
<1>2. UNCHANGED <<Session, Shown, Found>>
  BY <1>1 DEF Session, Shown, Found, ReadDocs, DocValues
<1> QED BY <1>1, <1>2, PendingTail, StoreSteps

LEMMA RemoveRefines ==
    ASSUME SavesInv, ReadableInv', MultiRemove
    PROVE  UNCHANGED <<Session, Shown, Pending, Found>>
<1> PICK c : c = Head(calls)
  OBVIOUS
<1>1. /\ calls # <<>> /\ c.op = "remove" /\ calls' = Tail(calls)
      /\ UNCHANGED <<running, readOnly, memory, savedAt>>
  BY DEF MultiRemove
<1>2. UNCHANGED Pending
  BY <1>1, PendingTail
<1>3. UNCHANGED Found
  BY <1>1, RemoveKeepsSaves, FoundKept
<1> QED BY <1>1, <1>2, <1>3 DEF Session, Shown, DocValues

LEMMA SessionRefines ==
    ASSUME SavesInv, LoadFromDisk \/ LoadFails \/ Kill
    PROVE  Store!Start \/ Store!Stop
<1>1. UNCHANGED Found
  <2>1. savedAt' = savedAt /\ disk' = disk
    BY DEF LoadFromDisk, LoadFails, Kill, diskVars
  <2> QED BY <2>1 DEF Found, ReadDocs, DocValues
<1>2. ASSUME memory' = emptyStore
      PROVE  Shown' = Store!Blank
  <2>1. memory'.at = 0 /\ memory'.docs = NoDocs /\ memory'.rest = 0
    BY <1>2 DEF emptyStore
  <2>2. DocValues(memory'.docs) = [d \in Ids |-> 0] /\ RestValue(memory'.rest) = 0
    BY <2>1, ValuesHeld
  <2> QED BY <2>1, <2>2 DEF Shown, Store!Blank, DocValues
<1>3. CASE LoadFromDisk
  <2>1. /\ ~running /\ running' /\ readOnly' = FALSE /\ calls' = calls
        /\ memory'.at = savedAt /\ memory'.docs = ReadDocs /\ memory'.rest = disk.rest
    BY <1>3 DEF LoadFromDisk, SavesInv, ReadableInv, TypeInv, TypeOK
  <2>2. Session = "off" /\ Session' = "running"
    BY <2>1 DEF Session
  <2>3. Shown' = Found
    BY <2>1 DEF Shown, Found, DocValues
  <2>4. UNCHANGED Pending
    BY <2>1 DEF Pending, Handed
  <2> QED BY <1>1, <2>2, <2>3, <2>4, StoreSteps
<1>4. CASE LoadFails
  <2>1. /\ ~running /\ running' /\ readOnly' /\ calls' = calls
        /\ memory' = emptyStore
    BY <1>4 DEF LoadFails, SavesInv, IndexKept
  <2>2. Session = "off" /\ Session' = "safe"
    BY <2>1 DEF Session
  <2>3. Shown' = Store!Blank
    BY <1>2, <2>1
  <2>4. UNCHANGED Pending
    BY <2>1 DEF Pending, Handed
  <2> QED BY <1>1, <2>2, <2>3, <2>4, StoreSteps
<1>5. CASE Kill
  <2>1. ~running' /\ calls' = <<>> /\ memory' = emptyStore
    BY <1>5 DEF Kill
  <2>2. Session' = "off"
    BY <2>1 DEF Session
  <2>3. Shown' = Store!Blank
    BY <1>2, <2>1
  <2>4. Pending' = {}
    <3>1. DOMAIN calls' = {}
      BY <2>1
    <3> QED BY <3>1 DEF Pending
  <2> QED BY <1>1, <2>2, <2>3, <2>4, StoreSteps
<1> QED BY <1>3, <1>4, <1>5

\* Under the same provisions every save reaches the disk whole and in order,
\* although it is computed against a snapshot that is behind the disk while
\* other saves are under way: the code keeps the promise of SavedStore, for
\* any number of matches, updates and failures.
THEOREM SavedStoreImplemented ==
    ASSUME ~RemovalsOverlap, ~RevertsOverlap, Returning = {}
    PROVE  Spec => ImplementsSavedStore
<1>1. SavesInv /\ SavesInv' /\ [Next]_vars => [Store!Next]_(Store!storeVars)
  <2> SUFFICES ASSUME SavesInv, SavesInv', [Next]_vars
               PROVE  Store!Next \/ UNCHANGED Store!storeVars
    OBVIOUS
  <2>1. ReadableInv'
    BY DEF SavesInv
  <2>2. ASSUME UNCHANGED <<Session, Shown, Pending, Found>>
        PROVE  UNCHANGED Store!storeVars
    BY <2>2 DEF Store!storeVars, Session, Shown, Pending, Handed, Found
  <2>3. CASE UNCHANGED vars
    BY <2>2, <2>3, StoreStutters DEF vars, appVars, diskVars
  <2>4. CASE AnyUpdate
    BY <2>1, <2>4, ChangeRefines, StoreSteps
  <2>5. CASE MultiSet
    BY <2>1, <2>5, SaveRefines, StoreSteps
  <2>6. CASE MultiRemove
    BY <2>1, <2>2, <2>6, RemoveRefines
  <2>7. CASE FailCall
    BY <2>2, <2>7, FailRefines, StoreSteps
  <2>8. CASE LoadFromDisk \/ LoadFails \/ Kill
    BY <2>8, SessionRefines, StoreSteps
  <2> QED BY <2>3, <2>4, <2>5, <2>6, <2>7, <2>8 DEF Next
<1> QED
  BY <1>1, StoreInit, SavesHold, PTL DEF Spec, ImplementsSavedStore, Store!Spec

=============================================================================
