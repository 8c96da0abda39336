---------------------------- MODULE PoolManager ----------------------------
(***************************************************************************)
(* The stores through which the tasks pass data to each other: LocalPool,  *)
(* which keeps elements of fixed sizes in several sub-pools, and           *)
(* PoolManager, which takes a mutex around reservation and deletion.       *)
(*                                                                         *)
(* Tasks add data, get a storage id for it, pass the id on in a message    *)
(* and the one that has it last deletes the data.  An id in some task's    *)
(* hands is a token: the record of the element, of its holder and of the   *)
(* data (known by its writer) and size the holder may expect there.        *)
(***************************************************************************)
EXTENDS Integers, Sequences, FiniteSetsExt

CONSTANTS
    Tasks, NoTask,
    numberOfElements,   \* for each sub-pool
    elementSizes,       \* for each sub-pool, ascending
    Sizes,              \* bound: the sizes of data the tasks add
    PositionModulus,    \* values of a uint16_t position; 2^16 in the code
    Overstays,          \* where in its call a task may hold the mutex for longer
                        \* than another one waits for it
    OwnerChecked        \* whether the operating system refuses to unlock a mutex
                        \* that another task holds

Pools == DOMAIN elementSizes
Labels == {"idle", "lockReserve", "search", "spill", "mark", "unlockReserved", "unlockFailed",
           "write", "lockPointer", "lockDelete", "wipe", "free", "unlockDeleted", "unlockPointer"}

ASSUME PoolAssumption ==
    /\ NoTask \notin Tasks
    /\ numberOfElements \in Seq(Nat)
    /\ elementSizes \in Seq(Nat \ {0})
    /\ DOMAIN numberOfElements = Pools
    /\ \A m, n \in Pools : m < n => elementSizes[m] <= elementSizes[n]
    /\ Sizes \subseteq Nat
    /\ Overstays \subseteq Labels
    /\ OwnerChecked \in BOOLEAN
    /\ PositionModulus \in Nat \ {0}

\* store_address_t: poolIndex (from 1 here) and packetIndex.
Id(p, e) == [poolIndex |-> p, packetIndex |-> e]
Elements == UNION { { Id(p, e) : e \in 0..(numberOfElements[p] - 1) } : p \in Pools }
NoId == Id(0, 0)

STORAGE_FREE == -1      \* the largest size_t, which no data has

VARIABLES
    sizeLists,  \* for each element its data's size, or STORAGE_FREE
    store,      \* for each element the writer of the data in it, NoTask for zeros
    mutex,      \* the task that holds the pool's mutex
    pc,         \* where each task is in its call
    size,       \* argument of the call
    storageId,  \* its argument or result
    byPointer,  \* the tasks whose call is the deletion by pointer
    tokens,
    spillsToHigherPools     \* chosen before the store is used

poolVars == <<sizeLists, store>>
callVars == <<size, storageId, byPointer>>
vars == <<poolVars, mutex, pc, callVars, tokens, spillsToHigherPools>>

Init ==
    /\ spillsToHigherPools \in BOOLEAN
    /\ sizeLists = [id \in Elements |-> STORAGE_FREE]
    /\ store = [id \in Elements |-> NoTask]
    /\ mutex = NoTask
    /\ pc = [t \in Tasks |-> "idle"]
    /\ size = [t \in Tasks |-> 0]
    /\ storageId = [t \in Tasks |-> NoId]
    /\ byPointer = {}
    /\ tokens = {}

Goto(t, label) == pc' = [pc EXCEPT ![t] = label]
Step(t, from, to) == pc[t] = from /\ Goto(t, to)

-----------------------------------------------------------------------------
(* MutexGuard.  A lock that times out is ignored.  The mutex is not          *)
(* recursive: a task that waits for itself always times out.  To unlock a    *)
(* mutex that one does not hold is an error in Linux, whose mutexes inherit  *)
(* priorities, and in RTEMS; with the std::timed_mutex of the host it is     *)
(* undefined and may release the other task's lock.                          *)

\* Slip: the MutexGuard is a temporary and is gone at once.
SlipLock(t, from, to) ==
    /\ Step(t, from, to)
    /\ mutex = NoTask
    /\ UNCHANGED <<poolVars, mutex, callVars, tokens>>

Lock(t, from, to) ==
    /\ Step(t, from, to)
    /\ \/ mutex = NoTask /\ mutex' = t
       \/ mutex = t /\ UNCHANGED mutex
       \/ mutex \in Tasks \ {t} /\ pc[mutex] \in Overstays /\ UNCHANGED mutex
    /\ UNCHANGED <<poolVars, callVars, tokens>>

Unlock(t, from, to) ==
    /\ Step(t, from, to)
    /\ \/ (mutex = t \/ ~OwnerChecked) /\ mutex' = NoTask
       \/ mutex # t /\ UNCHANGED mutex
    /\ byPointer' = IF to = "idle" THEN byPointer \ {t} ELSE byPointer
    /\ UNCHANGED <<poolVars, size, storageId, tokens>>

-----------------------------------------------------------------------------
(* addData and getFreeElement: reserveSpace under the lock, the data later.  *)

Reserve(t, s) ==
    /\ Step(t, "idle", "lockReserve")
    /\ size' = [size EXCEPT ![t] = s]
    /\ UNCHANGED <<poolVars, mutex, storageId, byPointer, tokens>>

getSubPoolIndex(packetSize, startAtIndex) ==
    { n \in Pools : n >= startAtIndex /\ elementSizes[n] >= packetSize }

\* Slip: the last element is never looked at.
SlipFindEmpty(p) ==
    { id \in Elements : /\ id.poolIndex = p /\ sizeLists[id] = STORAGE_FREE
                        /\ id.packetIndex < numberOfElements[p] - 1 }

findEmpty(p) ==
    { id \in Elements : id.poolIndex = p /\ sizeLists[id] = STORAGE_FREE }

\* The sub-pool to look into: the first that fits, and then the next ones.
StartAtIndex(t) == IF pc[t] = "search" THEN 1 ELSE storageId[t].poolIndex + 1
Fitting(t) == getSubPoolIndex(size[t], StartAtIndex(t))

NoneFits(t) ==
    /\ pc[t] \in {"search", "spill"} /\ Fitting(t) = {}
    /\ Goto(t, "unlockFailed")
    /\ UNCHANGED <<poolVars, mutex, callVars, tokens>>

FoundEmpty(t) ==
    /\ pc[t] \in {"search", "spill"} /\ Fitting(t) # {}
    /\ \E id \in findEmpty(Min(Fitting(t))) :
          /\ \A other \in findEmpty(id.poolIndex) : id.packetIndex <= other.packetIndex
          /\ storageId' = [storageId EXCEPT ![t] = id]
    /\ Goto(t, "mark")
    /\ UNCHANGED <<poolVars, mutex, size, byPointer, tokens>>

\* poolIndex has been assigned, packetIndex has not.
SubPoolFull(t) ==
    /\ pc[t] \in {"search", "spill"} /\ Fitting(t) # {}
    /\ findEmpty(Min(Fitting(t))) = {}
    /\ storageId' = [storageId EXCEPT ![t].poolIndex = Min(Fitting(t))]
    /\ Goto(t, IF spillsToHigherPools THEN "spill" ELSE "unlockFailed")
    /\ UNCHANGED <<poolVars, mutex, size, byPointer, tokens>>

Mark(t) ==
    /\ Step(t, "mark", "unlockReserved")
    /\ sizeLists' = [sizeLists EXCEPT ![storageId[t]] = size[t]]
    /\ UNCHANGED <<store, mutex, callVars, tokens>>

\* The caller of addData, or of getFreeElement, has the data in the store.
Token(t) == [id |-> storageId[t], holder |-> t, writer |-> t, size |-> size[t]]

write(t) ==
    /\ Step(t, "write", "idle")
    /\ store' = [store EXCEPT ![storageId[t]] = t]
    /\ sizeLists' = [sizeLists EXCEPT ![storageId[t]] = size[t]]
    /\ tokens' = tokens \cup {Token(t)}
    /\ UNCHANGED <<mutex, callVars>>

\* After getFreeElement the caller writes through the pointer.
FillElement(t) ==
    /\ Step(t, "write", "idle")
    /\ store' = [store EXCEPT ![storageId[t]] = t]
    /\ tokens' = tokens \cup {Token(t)}
    /\ UNCHANGED <<sizeLists, mutex, callVars>>

reserveSpace(t) ==
    \/ Lock(t, "lockReserve", "search")
    \/ NoneFits(t) \/ FoundEmpty(t) \/ SubPoolFull(t)
    \/ Mark(t)
    \/ Unlock(t, "unlockReserved", "write")
    \/ Unlock(t, "unlockFailed", "idle")

-----------------------------------------------------------------------------
(* deleteData, by the id or by a pointer to some byte of the element.        *)

getRawPosition(id) == id.packetIndex * elementSizes[id.poolIndex]

Delete(t, token) ==
    /\ token.holder = t
    /\ Step(t, "idle", "lockDelete")
    /\ storageId' = [storageId EXCEPT ![t] = token.id]
    /\ tokens' = tokens \ {token}
    /\ UNCHANGED <<poolVars, mutex, size, byPointer>>

\* LocalPool's deletion by pointer calls the virtual deletion by id, which is
\* PoolManager's and locks again.
DeleteByPointer(t, token, offset) ==
    LET p == token.id.poolIndex
    IN  /\ token.holder = t
        /\ Step(t, "idle", "lockPointer")
        /\ byPointer' = byPointer \cup {t}
        /\ storageId' = [storageId EXCEPT ![t] =
              Id(p, (getRawPosition(token.id) + offset) \div elementSizes[p])]
        /\ tokens' = tokens \ {token}
        /\ UNCHANGED <<poolVars, mutex, size>>

\* Slip: one byte too many is cleared.
SlipWiped(id) ==
    { other \in Elements :
        /\ other.poolIndex = id.poolIndex
        /\ getRawPosition(other) <= getRawPosition(id) + elementSizes[id.poolIndex]
        /\ other.packetIndex >= id.packetIndex }

\* memset at a position held in a uint16_t: the elements it reaches.
Wiped(id) ==
    LET page == elementSizes[id.poolIndex]
        position == getRawPosition(id) % PositionModulus
    IN  { other \in Elements : /\ other.poolIndex = id.poolIndex
                               /\ getRawPosition(other) < position + page
                               /\ position < getRawPosition(other) + page }

Wipe(t) ==
    /\ Step(t, "wipe", "free")
    /\ store' = [id \in Elements |-> IF id \in Wiped(storageId[t]) THEN NoTask ELSE store[id]]
    /\ UNCHANGED <<sizeLists, mutex, callVars, tokens>>

\* Slip: the size is set to zero, which is the size of an empty packet.
SlipSetFree(t) ==
    /\ Step(t, "free", "unlockDeleted")
    /\ sizeLists' = [sizeLists EXCEPT ![storageId[t]] = 0]
    /\ UNCHANGED <<store, mutex, callVars, tokens>>

SetFree(t) ==
    /\ Step(t, "free", "unlockDeleted")
    /\ sizeLists' = [sizeLists EXCEPT ![storageId[t]] = STORAGE_FREE]
    /\ UNCHANGED <<store, mutex, callVars, tokens>>

deleteData(t) ==
    \/ Lock(t, "lockPointer", "lockDelete")
    \/ Lock(t, "lockDelete", "wipe")
    \/ Wipe(t)
    \/ SetFree(t)
    \/ t \notin byPointer /\ Unlock(t, "unlockDeleted", "idle")
    \/ t \in byPointer /\ Unlock(t, "unlockDeleted", "unlockPointer")
    \/ Unlock(t, "unlockPointer", "idle")

-----------------------------------------------------------------------------
(* What the holder of an id may do without a lock. *)

\* It changes the data in place through the pointer of modifyData.
modifyData(t, token) ==
    /\ pc[t] = "idle" /\ token.holder = t
    /\ sizeLists[token.id] # STORAGE_FREE
    /\ store' = [store EXCEPT ![token.id] = t]
    /\ tokens' = (tokens \ {token}) \cup {[token EXCEPT !.writer = t]}
    /\ UNCHANGED <<sizeLists, mutex, pc, callVars>>

\* It sends the id to another task.
PassOn(token, t) ==
    /\ token.holder # t
    /\ tokens' = (tokens \ {token}) \cup {[token EXCEPT !.holder = t]}
    /\ UNCHANGED <<poolVars, mutex, pc, callVars>>

(* "Use with care!": called when no task is inside the store, and no id given *)
(* out before is used again.  clearSubPool zeroes one element's worth of data. *)
AllIdle == \A t \in Tasks : pc[t] = "idle"

clearStore ==
    /\ AllIdle
    /\ sizeLists' = [id \in Elements |-> STORAGE_FREE]
    /\ tokens' = {}
    /\ UNCHANGED <<store, mutex, pc, callVars>>

clearSubPool(p) ==
    /\ AllIdle
    /\ sizeLists' = [id \in Elements |-> IF id.poolIndex = p THEN STORAGE_FREE ELSE sizeLists[id]]
    /\ store' = [id \in Elements |-> IF id.poolIndex = p /\ id.packetIndex = 0 THEN NoTask ELSE store[id]]
    /\ tokens' = { k \in tokens : k.id.poolIndex # p }
    /\ UNCHANGED <<mutex, pc, callVars>>

Operation ==
    \/ \E t \in Tasks :
          \/ \E s \in Sizes : Reserve(t, s)
          \/ reserveSpace(t) \/ write(t) \/ FillElement(t)
          \/ deleteData(t)
          \/ \E k \in tokens :
                \/ Delete(t, k)
                \/ \E offset \in 0..(elementSizes[k.id.poolIndex] - 1) : DeleteByPointer(t, k, offset)
                \/ modifyData(t, k)
                \/ PassOn(k, t)
    \/ clearStore
    \/ \E p \in Pools : clearSubPool(p)

Next == Operation /\ UNCHANGED spillsToHigherPools

Spec == Init /\ [][Next]_vars

-----------------------------------------------------------------------------
Tokens == [id : Elements, holder : Tasks, writer : Tasks, size : Nat]

\* The calls that have an element to themselves.
Claiming(t) == pc[t] \in {"unlockReserved", "write", "lockPointer", "lockDelete", "wipe", "free"}

TypeOK ==
    /\ sizeLists \in [Elements -> Nat \cup {STORAGE_FREE}]
    /\ store \in [Elements -> Tasks \cup {NoTask}]
    /\ mutex \in Tasks \cup {NoTask}
    /\ pc \in [Tasks -> Labels]
    /\ size \in [Tasks -> Nat]
    /\ DOMAIN storageId = Tasks
    /\ byPointer \subseteq Tasks
    /\ \A t \in Tasks : Claiming(t) \/ pc[t] = "mark" => storageId[t] \in Elements
    /\ tokens \subseteq Tokens

(* StorageManagerIF: with the store locked "during insertion and deletion"    *)
(* and the id "passed token-like between tasks" no other lock is needed.  No  *)
(* element is ever in two hands: those of two holders of its id, of a holder  *)
(* and a call that fills or frees it, or of two such calls.  This needs that  *)
(* nobody overstays and that the mutex knows its owner: the deletion by       *)
(* pointer holds the mutex until its own second lock has timed out, which is  *)
(* as long as another call waits, and its second unlock is of a mutex that    *)
(* somebody else may have taken since.                                        *)
OneHolder ==
    /\ \A j, k \in tokens : j.id = k.id => j = k
    /\ \A t \in Tasks : Claiming(t) =>
          /\ \A k \in tokens : k.id # storageId[t]
          /\ \A u \in Tasks \ {t} : Claiming(u) => storageId[u] # storageId[t]

(* The holder of an id finds under it the data that was last written for it,  *)
(* with its size, however the other elements are used and freed meanwhile.    *)
DataIntact ==
    \A k \in tokens : sizeLists[k.id] = k.size /\ store[k.id] = k.writer

(* Every element that is marked as used is in somebody's hands.               *)
NothingLeaks ==
    \A id \in Elements : sizeLists[id] # STORAGE_FREE =>
        \/ \E k \in tokens : k.id = id
        \/ \E t \in Tasks : Claiming(t) /\ storageId[t] = id

(* A reservation fails only when there is no element for it, also when the    *)
(* search has spilled from one sub-pool to the next.                          *)
Usable(t, id) ==
    /\ elementSizes[id.poolIndex] >= size[t]
    /\ \/ spillsToHigherPools
       \/ \A p \in Pools : p < id.poolIndex => elementSizes[p] < size[t]
FailureStep ==
    \A t \in Tasks : pc[t] # "unlockFailed" /\ pc'[t] = "unlockFailed" =>
        \A id \in Elements : Usable(t, id) => sizeLists[id] # STORAGE_FREE
FailsOnlyWhenFull == [][FailureStep]_vars
=============================================================================
