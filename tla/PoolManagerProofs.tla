------------------------- MODULE PoolManagerProofs -------------------------
(***************************************************************************)
(* As long as no task waits for another until its time limit, and a mutex  *)
(* can be unlocked by its owner only, an element of the store is in one    *)
(* task's hands at a time, none is lost, and the data in it stays what its *)
(* holder expects: for any number of tasks and any sub-pools, although the *)
(* deletion by pointer locks twice and unlocks twice.                      *)
(***************************************************************************)
EXTENDS PoolManager, WellFoundedInduction, TLAPS

\* What the operating system and the time limits have to provide.
NobodyOverstays == Overstays = {} /\ OwnerChecked

\* The calls between the first lock and the first unlock.  A deletion by
\* pointer waits for its own second lock in this part, and makes its second
\* unlock, which is refused, outside it.
Critical(t) ==
    \/ pc[t] \in {"search", "spill", "mark", "unlockReserved", "unlockFailed",
                   "wipe", "free", "unlockDeleted"}
    \/ pc[t] = "lockDelete" /\ t \in byPointer

(* The mutex is with the one task inside reserveSpace or deleteData. *)
MutualExclusion == \A t \in Tasks : Critical(t) => mutex = t

(* Who is not in a deletion is not in one by pointer. *)
PointerCalls ==
    \A t \in byPointer : pc[t] \in {"lockPointer", "lockDelete", "wipe", "free", "unlockDeleted",
                                     "unlockPointer"}

(* What is in somebody's hands is marked as used. *)
HeldIsUsed ==
    /\ \A k \in tokens : sizeLists[k.id] # STORAGE_FREE
    /\ \A t \in Tasks : Claiming(t) => sizeLists[storageId[t]] # STORAGE_FREE

(* What findEmpty found is still free when it is marked, although write sets  *)
(* sizes without the lock.                                                    *)
FoundIsFree == \A t \in Tasks : pc[t] = "mark" => sizeLists[storageId[t]] = STORAGE_FREE

PoolInv == TypeOK /\ MutualExclusion /\ PointerCalls /\ HeldIsUsed /\ FoundIsFree /\ OneHolder /\ NothingLeaks


-----------------------------------------------------------------------------
LEMMA ElementParts ==
    ASSUME NEW id \in Elements
    PROVE  /\ id.poolIndex \in Pools
           /\ id.packetIndex \in 0..(numberOfElements[id.poolIndex] - 1)
           /\ id = Id(id.poolIndex, id.packetIndex)
BY DEF Elements, Id

LEMMA OnlyZeroFits ==
    ASSUME NEW m \in Nat, m > 0, NEW q \in Int, -m < q * m, q * m < m
    PROVE  q = 0
OBVIOUS

(* A byte offset inside an element leads back to the element. *)
LEMMA OffsetInElement ==
    ASSUME NEW n \in Nat, NEW page \in Nat \ {0}, NEW offset \in 0..(page - 1)
    PROVE  (n * page + offset) \div page = n
<1> DEFINE a == n * page + offset
           q == a \div page
<1>1. a \in Int /\ n * page \in Int
  OBVIOUS
<1>2. q \in Int /\ a % page \in 0..(page - 1) /\ a = page * q + (a % page)
  BY <1>1
<1>3. (q - n) * page = offset - (a % page)
  BY <1>1, <1>2
<1>4. q - n = 0
  <2>1. q - n \in Int /\ -page < (q - n) * page /\ (q - n) * page < page
    BY <1>2, <1>3
  <2> HIDE DEF q, a
  <2> QED
    BY <2>1, OnlyZeroFits
<1> QED
  BY <1>2, <1>4

LEMMA PointerFindsElement ==
    ASSUME NEW id \in Elements, NEW offset \in 0..(elementSizes[id.poolIndex] - 1)
    PROVE  Id(id.poolIndex, (getRawPosition(id) + offset) \div elementSizes[id.poolIndex]) = id
<1>1. elementSizes[id.poolIndex] \in Nat \ {0} /\ numberOfElements[id.poolIndex] \in Nat
  BY ElementParts, PoolAssumption DEF Pools
<1>2. id.packetIndex \in Nat
  BY ElementParts, <1>1
<1> QED
  BY <1>1, <1>2, OffsetInElement, ElementParts DEF getRawPosition

(* Sending an id on, or writing through it, changes neither where it points   *)
(* nor who else may point there.                                              *)
LEMMA Relabelled ==
    ASSUME PoolInv, NEW k \in tokens, NEW new \in Tokens, new.id = k.id,
           tokens' = (tokens \ {k}) \cup {new},
           UNCHANGED <<sizeLists, mutex, pc, size, storageId, byPointer>>,
           store' \in [Elements -> Tasks \cup {NoTask}]
    PROVE  PoolInv'
<1>1. \A j \in tokens' : \E i \in tokens : i.id = j.id
  OBVIOUS
<1>2. \A i \in tokens : \E j \in tokens' : i.id = j.id
  OBVIOUS
<1>3. TypeOK'
  BY DEF PoolInv, TypeOK, Claiming
<1>4. MutualExclusion' /\ PointerCalls' /\ FoundIsFree'
  BY DEF PoolInv, MutualExclusion, PointerCalls, FoundIsFree, Critical
<1>5. HeldIsUsed'
  BY <1>1 DEF PoolInv, HeldIsUsed, Claiming
<1>6. OneHolder'
  <2>1. \A i, j \in tokens' : i.id = j.id => i = j
    BY DEF PoolInv, OneHolder
  <2>2. \A t \in Tasks : Claiming(t)' =>
          /\ \A j \in tokens' : j.id # storageId'[t]
          /\ \A u \in Tasks \ {t} : Claiming(u)' => storageId'[u] # storageId'[t]
    BY <1>1 DEF PoolInv, OneHolder, Claiming
  <2> QED
    BY <2>1, <2>2 DEF OneHolder
<1>7. NothingLeaks'
  BY <1>2 DEF PoolInv, NothingLeaks, Claiming
<1> QED
  BY <1>3, <1>4, <1>5, <1>6, <1>7 DEF PoolInv

-----------------------------------------------------------------------------
(* One step keeps the invariant: the actions in groups, and for each group    *)
(* the parts of the invariant.                                                *)

(* A sub-pool is searched: nothing changes hands. *)
LEMMA SearchStep ==
    ASSUME PoolInv, NEW t \in Tasks, NoneFits(t) \/ FoundEmpty(t) \/ SubPoolFull(t)
    PROVE  PoolInv'
<1> USE DEF PoolInv, poolVars, callVars, Goto, Step, STORAGE_FREE, Claiming, Critical
<1>1. TypeOK'
  BY DEF TypeOK, Tokens, Labels, NoneFits, FoundEmpty, SubPoolFull, findEmpty
<1>2. MutualExclusion' /\ PointerCalls'
  BY DEF MutualExclusion, PointerCalls, TypeOK, NoneFits, FoundEmpty, SubPoolFull, findEmpty
<1>3. HeldIsUsed'
  BY DEF HeldIsUsed, TypeOK, Tokens, OneHolder, FoundIsFree, NoneFits, FoundEmpty, SubPoolFull, findEmpty
<1>4. FoundIsFree'
  BY DEF FoundIsFree, TypeOK, OneHolder, HeldIsUsed, MutualExclusion, NoneFits, FoundEmpty, SubPoolFull, findEmpty
<1>5. OneHolder'
  BY DEF OneHolder, TypeOK, Tokens, HeldIsUsed, FoundIsFree, NoneFits, FoundEmpty, SubPoolFull, findEmpty
<1>6. NothingLeaks'
  BY DEF NothingLeaks, TypeOK, Tokens, OneHolder, NoneFits, FoundEmpty, SubPoolFull, findEmpty
<1> QED
  BY <1>1, <1>2, <1>3, <1>4, <1>5, <1>6

(* The steps that change sizeLists and store under the lock. *)
LEMMA MarkStep ==
    ASSUME PoolInv, NEW t \in Tasks, Mark(t) \/ Wipe(t) \/ SetFree(t)
    PROVE  PoolInv'
<1> USE DEF PoolInv, poolVars, callVars, Goto, Step, STORAGE_FREE, Claiming, Critical
<1>1. TypeOK'
  BY DEF TypeOK, Tokens, Labels, Mark, Wipe, SetFree
<1>2. MutualExclusion' /\ PointerCalls'
  BY DEF MutualExclusion, PointerCalls, TypeOK, Mark, Wipe, SetFree
<1>3. HeldIsUsed'
  BY DEF HeldIsUsed, TypeOK, Tokens, OneHolder, FoundIsFree, Mark, Wipe, SetFree
<1>4. FoundIsFree'
  BY DEF FoundIsFree, TypeOK, OneHolder, HeldIsUsed, MutualExclusion, Mark, Wipe, SetFree
<1>5. OneHolder'
  BY DEF OneHolder, TypeOK, Tokens, HeldIsUsed, FoundIsFree, Mark, Wipe, SetFree
<1>6. NothingLeaks'
  BY DEF NothingLeaks, TypeOK, Tokens, OneHolder, Mark, Wipe, SetFree
<1> QED
  BY <1>1, <1>2, <1>3, <1>4, <1>5, <1>6

(* Here alone the lock has to be a lock. *)
LEMMA LockStep ==
    ASSUME PoolInv, NobodyOverstays, NEW t \in Tasks,
           \/ Lock(t, "lockReserve", "search")
           \/ Lock(t, "lockPointer", "lockDelete") \/ Lock(t, "lockDelete", "wipe")
    PROVE  PoolInv'
<1> USE DEF PoolInv, poolVars, callVars, Goto, Step, STORAGE_FREE, Claiming, Critical, NobodyOverstays
<1>0. NoTask \notin Tasks
  BY PoolAssumption
<1>1. TypeOK'
  BY <1>0 DEF TypeOK, Tokens, Labels, Lock
<1>2. MutualExclusion' /\ PointerCalls'
  BY <1>0 DEF MutualExclusion, PointerCalls, TypeOK, Lock
<1>3. HeldIsUsed'
  BY <1>0 DEF HeldIsUsed, TypeOK, Tokens, OneHolder, FoundIsFree, Lock
<1>4. FoundIsFree'
  BY <1>0 DEF FoundIsFree, TypeOK, OneHolder, HeldIsUsed, MutualExclusion, Lock
<1>5. OneHolder'
  BY <1>0 DEF OneHolder, TypeOK, Tokens, HeldIsUsed, FoundIsFree, Lock
<1>6. NothingLeaks'
  BY <1>0 DEF NothingLeaks, TypeOK, Tokens, OneHolder, Lock
<1> QED
  BY <1>1, <1>2, <1>3, <1>4, <1>5, <1>6

LEMMA UnlockStep ==
    ASSUME PoolInv, NobodyOverstays, NEW t \in Tasks,
           \/ Unlock(t, "unlockReserved", "write")
           \/ Unlock(t, "unlockFailed", "idle")
           \/ Unlock(t, "unlockDeleted", "idle")
           \/ Unlock(t, "unlockDeleted", "unlockPointer")
           \/ Unlock(t, "unlockPointer", "idle")
    PROVE  PoolInv'
<1> USE DEF PoolInv, poolVars, callVars, Goto, Step, STORAGE_FREE, Claiming, Critical, NobodyOverstays
<1>0. NoTask \notin Tasks
  BY PoolAssumption
<1>1. TypeOK'
  BY <1>0 DEF TypeOK, Tokens, Labels, Unlock
<1>2. MutualExclusion' /\ PointerCalls'
  BY <1>0 DEF MutualExclusion, PointerCalls, TypeOK, Unlock
<1>3. HeldIsUsed'
  BY <1>0 DEF HeldIsUsed, TypeOK, Tokens, OneHolder, FoundIsFree, Unlock
<1>4. FoundIsFree'
  BY <1>0 DEF FoundIsFree, TypeOK, OneHolder, HeldIsUsed, MutualExclusion, Unlock
<1>5. OneHolder'
  BY <1>0 DEF OneHolder, TypeOK, Tokens, HeldIsUsed, FoundIsFree, Unlock
<1>6. NothingLeaks'
  BY <1>0 DEF NothingLeaks, TypeOK, Tokens, OneHolder, Unlock
<1> QED
  BY <1>1, <1>2, <1>3, <1>4, <1>5, <1>6

(* A deletion by pointer, seen from the element it finds. *)
PointerCall(t, token) ==
    /\ token.holder = t
    /\ Step(t, "idle", "lockPointer")
    /\ byPointer' = byPointer \cup {t}
    /\ storageId' = [storageId EXCEPT ![t] = token.id]
    /\ tokens' = tokens \ {token}
    /\ UNCHANGED <<poolVars, mutex, size>>

(* A call begins; deleteData takes its id out of circulation. *)
LEMMA CallStep ==
    ASSUME PoolInv, NEW t \in Tasks,
           \/ \E s \in Sizes : Reserve(t, s)
           \/ \E k \in tokens : Delete(t, k) \/ PointerCall(t, k)
    PROVE  PoolInv'
<1> USE DEF PoolInv, poolVars, callVars, Goto, Step, STORAGE_FREE, Claiming, Critical
<1>0. Sizes \subseteq Nat
  BY PoolAssumption
<1>1. TypeOK'
  BY <1>0 DEF TypeOK, Tokens, Labels, Reserve, Delete, PointerCall
<1>2. MutualExclusion' /\ PointerCalls'
  BY <1>0 DEF MutualExclusion, PointerCalls, TypeOK, Reserve, Delete, PointerCall
<1>3. HeldIsUsed'
  BY <1>0 DEF HeldIsUsed, TypeOK, Tokens, OneHolder, FoundIsFree, Reserve, Delete, PointerCall
<1>4. FoundIsFree'
  BY <1>0 DEF FoundIsFree, TypeOK, OneHolder, HeldIsUsed, MutualExclusion, Reserve, Delete, PointerCall
<1>5. OneHolder'
  BY <1>0 DEF OneHolder, TypeOK, Tokens, HeldIsUsed, FoundIsFree, Reserve, Delete, PointerCall
<1>6. NothingLeaks'
  BY <1>0 DEF NothingLeaks, TypeOK, Tokens, OneHolder, Reserve, Delete, PointerCall
<1> QED
  BY <1>1, <1>2, <1>3, <1>4, <1>5, <1>6

(* The data is written, without the lock, and its id given out. *)
LEMMA WriteStep ==
    ASSUME PoolInv, NEW t \in Tasks, write(t) \/ FillElement(t)
    PROVE  PoolInv'
<1> USE DEF PoolInv, poolVars, callVars, Goto, Step, STORAGE_FREE, Claiming, Critical
<1>1. TypeOK'
  BY DEF TypeOK, Tokens, Labels, write, FillElement, Token
<1>2. MutualExclusion' /\ PointerCalls'
  BY DEF MutualExclusion, PointerCalls, TypeOK, write, FillElement, Token
<1>3. HeldIsUsed'
  BY DEF HeldIsUsed, TypeOK, Tokens, OneHolder, FoundIsFree, write, FillElement, Token
<1>4. FoundIsFree'
  BY DEF FoundIsFree, TypeOK, OneHolder, HeldIsUsed, MutualExclusion, write, FillElement, Token
<1>5. OneHolder'
  BY DEF OneHolder, TypeOK, Tokens, HeldIsUsed, FoundIsFree, write, FillElement, Token
<1>6. NothingLeaks'
  <2>1. \A k \in tokens : k \in tokens'
    BY DEF write, FillElement
  <2>2. Token(t) \in tokens' /\ Token(t).id = storageId[t]
    <3>1. Token(t) \in tokens'
      BY DEF write, FillElement
    <3>2. Token(t).id = storageId[t]
      BY DEF Token
    <3> QED
      BY <3>1, <3>2
  <2>3. \A id \in Elements : id # storageId[t] => sizeLists'[id] = sizeLists[id]
    BY DEF write, FillElement, TypeOK
  <2>4. \A u \in Tasks : u # t => pc'[u] = pc[u] /\ storageId'[u] = storageId[u]
    BY DEF write, FillElement, TypeOK
  <2> SUFFICES ASSUME NEW id \in Elements, id # storageId[t], sizeLists'[id] # STORAGE_FREE
               PROVE  \/ \E k \in tokens' : k.id = id
                      \/ \E u \in Tasks : Claiming(u)' /\ storageId'[u] = id
    BY <2>2 DEF NothingLeaks
  <2>5. CASE \E k \in tokens : k.id = id
    BY <2>1, <2>5
  <2>6. ASSUME NEW u \in Tasks, Claiming(u), storageId[u] = id
        PROVE  Claiming(u)' /\ storageId'[u] = id
    BY <2>4, <2>6
  <2> QED
    BY <2>3, <2>5, <2>6 DEF NothingLeaks
<1> QED
  BY <1>1, <1>2, <1>3, <1>4, <1>5, <1>6

LEMMA ClearStep ==
    ASSUME PoolInv, clearStore \/ \E p \in Pools : clearSubPool(p)
    PROVE  PoolInv'
<1> USE DEF PoolInv, poolVars, callVars, Goto, Step, STORAGE_FREE, Claiming, Critical
<1>1. TypeOK'
  BY DEF TypeOK, Tokens, Labels, clearStore, clearSubPool, AllIdle
<1>2. MutualExclusion' /\ PointerCalls'
  BY DEF MutualExclusion, PointerCalls, TypeOK, clearStore, clearSubPool, AllIdle
<1>3. HeldIsUsed'
  BY DEF HeldIsUsed, TypeOK, Tokens, OneHolder, FoundIsFree, clearStore, clearSubPool, AllIdle
<1>4. FoundIsFree'
  BY DEF FoundIsFree, TypeOK, OneHolder, HeldIsUsed, MutualExclusion, clearStore, clearSubPool, AllIdle
<1>5. OneHolder'
  BY DEF OneHolder, TypeOK, Tokens, HeldIsUsed, FoundIsFree, clearStore, clearSubPool, AllIdle
<1>6. NothingLeaks'
  BY DEF NothingLeaks, TypeOK, Tokens, OneHolder, clearStore, clearSubPool, AllIdle
<1> QED
  BY <1>1, <1>2, <1>3, <1>4, <1>5, <1>6

LEMMA PointerStep ==
    ASSUME PoolInv, NEW t \in Tasks, NEW k \in tokens,
           NEW offset \in 0..(elementSizes[k.id.poolIndex] - 1), DeleteByPointer(t, k, offset)
    PROVE  PointerCall(t, k)
<1>1. k.id \in Elements
  BY DEF PoolInv, TypeOK, Tokens
<1> QED
  BY <1>1, PointerFindsElement DEF DeleteByPointer, PointerCall

LEMMA HandsStep ==
    ASSUME PoolInv, NEW t \in Tasks, NEW k \in tokens, modifyData(t, k) \/ PassOn(k, t)
    PROVE  PoolInv'
<1>1. k \in Tokens /\ store \in [Elements -> Tasks \cup {NoTask}]
  BY DEF PoolInv, TypeOK
<1>2. CASE modifyData(t, k)
  <2>1. [k EXCEPT !.writer = t] \in Tokens /\ [k EXCEPT !.writer = t].id = k.id
    BY <1>1 DEF Tokens
  <2>2. store' \in [Elements -> Tasks \cup {NoTask}]
    BY <1>1, <1>2 DEF modifyData
  <2> QED
    BY <1>2, <2>1, <2>2, Relabelled DEF modifyData, callVars
<1>3. CASE PassOn(k, t)
  <2>1. [k EXCEPT !.holder = t] \in Tokens /\ [k EXCEPT !.holder = t].id = k.id
    BY <1>1 DEF Tokens
  <2> QED
    BY <1>1, <1>3, <2>1, Relabelled DEF PassOn, callVars, poolVars
<1> QED
  BY <1>2, <1>3

LEMMA PoolStep ==
    ASSUME NobodyOverstays, PoolInv, [Next]_vars
    PROVE  PoolInv'
<1>1. ASSUME NEW t \in Tasks, reserveSpace(t) PROVE PoolInv'
  BY <1>1, SearchStep, MarkStep, LockStep, UnlockStep DEF reserveSpace
<1>2. ASSUME NEW t \in Tasks, deleteData(t) PROVE PoolInv'
  BY <1>2, MarkStep, LockStep, UnlockStep DEF deleteData
<1>3. ASSUME NEW t \in Tasks, NEW k \in tokens, NEW offset \in 0..(elementSizes[k.id.poolIndex] - 1),
             DeleteByPointer(t, k, offset)
      PROVE  PoolInv'
  BY <1>3, PointerStep, CallStep
<1>4. CASE UNCHANGED vars
  BY <1>4 DEF PoolInv, vars, poolVars, callVars, TypeOK, MutualExclusion, PointerCalls, HeldIsUsed,
              FoundIsFree, OneHolder, NothingLeaks, Claiming, Critical
<1> QED
  BY <1>1, <1>2, <1>3, <1>4, CallStep, WriteStep, HandsStep, ClearStep DEF Next, Operation

LEMMA PoolStart == Init => PoolInv
BY PoolAssumption DEF Init, PoolInv, TypeOK, MutualExclusion, PointerCalls, HeldIsUsed, FoundIsFree, OneHolder,
       NothingLeaks, Claiming, Critical, Labels, STORAGE_FREE

LEMMA PoolInvariant ==
    ASSUME NobodyOverstays
    PROVE  Spec => []PoolInv
<1>1. Init => PoolInv
  BY PoolStart
<1>2. PoolInv /\ [Next]_vars => PoolInv'
  BY PoolStep
<1> QED
  BY <1>1, <1>2, PTL DEF Spec

(* StorageManagerIF's rule, for any number of tasks and any configuration of  *)
(* the store: with insertion and deletion locked, and ids passed on as        *)
(* tokens, an element is in one task's hands at a time though addData writes, *)
(* and getData and modifyData work, outside the lock, and though the deletion *)
(* by pointer leaves its critical section with the first of its two unlocks.  *)
THEOREM ElementsExclusive ==
    ASSUME NobodyOverstays
    PROVE  Spec => [](TypeOK /\ OneHolder)
<1>1. PoolInv => TypeOK /\ OneHolder
  BY DEF PoolInv
<1> QED
  BY <1>1, PoolInvariant, PTL

(* No element is lost: what reserveSpace has marked is in the hands of a call *)
(* or of the holder of an id until deleteData has freed it.                   *)
THEOREM ElementsNeverLost ==
    ASSUME NobodyOverstays
    PROVE  Spec => []NothingLeaks
<1>1. PoolInv => NothingLeaks
  BY DEF PoolInv
<1> QED
  BY <1>1, PoolInvariant, PTL

-----------------------------------------------------------------------------
(* The data.  While every position of a sub-pool can be held in the uint16_t  *)
(* of deleteData, freeing an element zeroes that element alone.               *)

PositionsFit ==
    \A p \in Pools : (numberOfElements[p] - 1) * elementSizes[p] < PositionModulus

LEMMA MultipleMonotone ==
    ASSUME NEW m \in Nat, NEW n \in Nat, m < n, NEW page \in Nat \ {0}
    PROVE  m * page + page <= n * page
<1>1. PICK d \in Nat : n = m + 1 + d
  BY n - m - 1 \in Nat, n = m + 1 + (n - m - 1)
<1>2. n * page = m * page + page + d * page /\ d * page \in Nat
  BY <1>1
<1>3. m * page \in Nat
  OBVIOUS
<1> QED
  BY <1>2, <1>3

LEMMA SmallRemainder ==
    ASSUME NEW m \in Nat \ {0}, NEW a \in Nat, a < m
    PROVE  a % m = a
OBVIOUS

LEMMA OnlyItselfWiped ==
    ASSUME PositionsFit, NEW id \in Elements, NEW other \in Wiped(id)
    PROVE  other = id
<1> DEFINE p == id.poolIndex
           page == elementSizes[p]
           m == id.packetIndex
           n == other.packetIndex
<1>1. p \in Pools /\ page \in Nat \ {0} /\ numberOfElements[p] \in Nat
  BY ElementParts, PoolAssumption DEF Pools
<1>2. other \in Elements /\ other.poolIndex = p
  BY DEF Wiped
<1>3. m \in Nat /\ n \in Nat /\ m < numberOfElements[p]
  BY <1>1, <1>2, ElementParts
<1>4. /\ m * page < PositionModulus
      /\ m * page \in Nat /\ n * page \in Nat
      /\ PositionModulus \in Nat \ {0}
  <2>1. PositionModulus \in Nat \ {0} /\ (numberOfElements[p] - 1) * page < PositionModulus
    BY <1>1, PoolAssumption DEF PositionsFit
  <2>2. m + 1 <= numberOfElements[p]
    BY <1>1, <1>3
  <2>3. m * page <= (numberOfElements[p] - 1) * page
    <3>1. CASE m = numberOfElements[p] - 1
      BY <1>1, <3>1
    <3>2. CASE m < numberOfElements[p] - 1
      <4>1. numberOfElements[p] - 1 \in Nat
        BY <1>1, <1>3
      <4>2. m * page + page <= (numberOfElements[p] - 1) * page
        BY <1>1, <1>3, <3>2, <4>1, MultipleMonotone
      <4>3. m * page \in Nat /\ (numberOfElements[p] - 1) * page \in Nat
        BY <1>1, <1>3, <4>1
      <4> HIDE DEF page, m, n, p
      <4> QED
        BY <1>1, <4>2, <4>3
    <3> QED
      BY <1>1, <1>3, <2>2, <3>1, <3>2
  <2>4. m * page \in Nat /\ n * page \in Nat /\ (numberOfElements[p] - 1) * page \in Int
    BY <1>1, <1>3
  <2> HIDE DEF page, m, n, p
  <2> QED
    BY <1>1, <2>1, <2>3, <2>4
<1>5. (m * page) % PositionModulus = m * page
  BY <1>1, <1>4, SmallRemainder
<1>6. n * page < m * page + page /\ m * page < n * page + page
  BY <1>2, <1>5 DEF Wiped, getRawPosition
<1>7. m = n
  <2>1. m < n => m * page + page <= n * page
    BY <1>1, <1>3, MultipleMonotone
  <2>2. n < m => n * page + page <= m * page
    BY <1>1, <1>3, MultipleMonotone
  <2>3. m * page \in Nat /\ n * page \in Nat /\ page \in Nat
    BY <1>1, <1>4
  <2> HIDE DEF page, m, n, p
  <2> QED
    BY <1>3, <1>6, <2>1, <2>2, <2>3
<1> QED
  BY <1>2, <1>7, ElementParts

(* An element that has been marked and not yet written has the right size. *)
MarkedSize ==
    \A t \in Tasks : pc[t] \in {"unlockReserved", "write"} => sizeLists[storageId[t]] = size[t]

DataInv == DataIntact /\ MarkedSize

LEMMA DataStep ==
    ASSUME PositionsFit, PoolInv, DataInv, [Next]_vars
    PROVE  DataInv'
<1> USE DEF PoolInv, DataInv, poolVars, callVars, Goto, Step, STORAGE_FREE, Claiming
<1>1. ASSUME NEW t \in Tasks,
             \/ Lock(t, "lockReserve", "search") \/ Lock(t, "lockPointer", "lockDelete") \/ Lock(t, "lockDelete", "wipe")
             \/ Unlock(t, "unlockReserved", "write")
             \/ Unlock(t, "unlockFailed", "idle") \/ Unlock(t, "unlockDeleted", "idle")
             \/ Unlock(t, "unlockDeleted", "unlockPointer") \/ Unlock(t, "unlockPointer", "idle")
             \/ NoneFits(t) \/ FoundEmpty(t) \/ SubPoolFull(t)
      PROVE  DataInv'
  BY <1>1 DEF Lock, Unlock, NoneFits, FoundEmpty, SubPoolFull, DataIntact, MarkedSize, TypeOK
<1>2. ASSUME NEW t \in Tasks, Mark(t) PROVE DataInv'
  BY <1>2 DEF Mark, DataIntact, MarkedSize, TypeOK, Tokens, FoundIsFree, HeldIsUsed
<1>3. ASSUME NEW t \in Tasks, Wipe(t) PROVE DataInv'
  <2>1. storageId[t] \in Elements /\ \A k \in tokens : k.id \in Elements /\ k.id # storageId[t]
    BY <1>3 DEF Wipe, TypeOK, Tokens, OneHolder
  <2>2. \A k \in tokens : k.id \notin Wiped(storageId[t])
    BY <2>1, OnlyItselfWiped
  <2> QED
    BY <1>3, <2>1, <2>2 DEF Wipe, DataIntact, MarkedSize, TypeOK
<1>4. ASSUME NEW t \in Tasks, SetFree(t) PROVE DataInv'
  BY <1>4 DEF SetFree, DataIntact, MarkedSize, TypeOK, Tokens, OneHolder
<1>5. ASSUME NEW t \in Tasks, write(t) \/ FillElement(t) PROVE DataInv'
  <2>1. storageId[t] \in Elements /\ pc[t] = "write" /\ sizeLists[storageId[t]] = size[t]
    BY <1>5 DEF write, FillElement, TypeOK, MarkedSize
  <2>2. sizeLists' = sizeLists /\ store' = [store EXCEPT ![storageId[t]] = t]
    BY <1>5, <2>1 DEF write, FillElement, TypeOK
  <2>3. Token(t).id = storageId[t] /\ Token(t).writer = t /\ Token(t).size = size[t]
    BY DEF Token
  <2>4. tokens' = tokens \cup {Token(t)} /\ UNCHANGED callVars
    BY <1>5 DEF write, FillElement
  <2>5. DataIntact'
    BY <2>1, <2>2, <2>3, <2>4 DEF DataIntact, TypeOK, Tokens, OneHolder
  <2>6. MarkedSize'
    BY <1>5, <2>2, <2>4 DEF MarkedSize, TypeOK, write, FillElement
  <2> QED
    BY <2>5, <2>6
<1>6. ASSUME NEW t \in Tasks, NEW s \in Sizes, Reserve(t, s) PROVE DataInv'
  BY <1>6 DEF Reserve, DataIntact, MarkedSize, TypeOK
<1>7. ASSUME NEW t \in Tasks, NEW k \in tokens, Delete(t, k) \/ PointerCall(t, k) PROVE DataInv'
  BY <1>7 DEF Delete, PointerCall, DataIntact, MarkedSize, TypeOK
<1>8. ASSUME NEW t \in Tasks, NEW k \in tokens, modifyData(t, k) PROVE DataInv'
  <2> DEFINE new == [k EXCEPT !.writer = t]
  <2>1. new.id = k.id /\ new.writer = t /\ new.size = k.size /\ k.id \in Elements
    BY DEF TypeOK, Tokens
  <2>2. tokens' = (tokens \ {k}) \cup {new} /\ UNCHANGED <<sizeLists, pc, size, storageId>>
    BY <1>8 DEF modifyData
  <2>3. store' = [store EXCEPT ![k.id] = t]
    BY <1>8 DEF modifyData
  <2> HIDE DEF new
  <2>4. DataIntact'
    BY <2>1, <2>2, <2>3 DEF DataIntact, TypeOK, Tokens, OneHolder
  <2> QED
    BY <2>2, <2>4 DEF MarkedSize
<1>9. ASSUME NEW t \in Tasks, NEW k \in tokens, PassOn(k, t) PROVE DataInv'
  <2> DEFINE new == [k EXCEPT !.holder = t]
  <2>1. new.id = k.id /\ new.writer = k.writer /\ new.size = k.size
    BY DEF TypeOK, Tokens
  <2>2. tokens' = (tokens \ {k}) \cup {new} /\ UNCHANGED <<sizeLists, store, pc, size, storageId>>
    BY <1>9 DEF PassOn
  <2> HIDE DEF new
  <2> QED
    BY <2>1, <2>2 DEF DataIntact, MarkedSize
<1>10. ASSUME clearStore \/ \E p \in Pools : clearSubPool(p) PROVE DataInv'
  BY <1>10 DEF clearStore, clearSubPool, AllIdle, DataIntact, MarkedSize, TypeOK, Tokens
<1>11. CASE UNCHANGED vars
  BY <1>11 DEF vars, DataIntact, MarkedSize
<1>12. ASSUME NEW t \in Tasks, NEW k \in tokens,
              NEW offset \in 0..(elementSizes[k.id.poolIndex] - 1), DeleteByPointer(t, k, offset)
       PROVE  DataInv'
  BY <1>7, <1>12, PointerStep
<1> QED
  BY <1>1, <1>2, <1>3, <1>4, <1>5, <1>6, <1>7, <1>8, <1>9, <1>10, <1>11, <1>12
     DEF Next, Operation, reserveSpace, deleteData

(* What is stored is what is found, whatever the other tasks add, delete and  *)
(* write meanwhile, as long as no sub-pool is larger than a uint16_t position *)
(* can reach: the bound that deleteData needs and initialize does not check.  *)
THEOREM DataSurvives ==
    ASSUME NobodyOverstays, PositionsFit
    PROVE  Spec => []DataIntact
<1>1. Init => PoolInv /\ DataInv
  BY PoolStart DEF Init, DataInv, DataIntact, MarkedSize
<1>2. PoolInv /\ DataInv /\ [Next]_vars => (PoolInv /\ DataInv)'
  BY PoolStep, DataStep
<1>3. DataInv => DataIntact
  BY DEF DataInv
<1> QED
  BY <1>1, <1>2, <1>3, PTL DEF Spec

-----------------------------------------------------------------------------
(* The search.  A call that has gone on to the next sub-pools holds the lock, *)
(* so the ones it has found full stay full.                                   *)

StorageIds == storageId \in [Tasks -> [poolIndex : Nat, packetIndex : Nat]]

SearchedAreFull ==
    \A t \in Tasks : pc[t] = "spill" =>
        /\ spillsToHigherPools
        /\ \A id \in Elements : /\ id.poolIndex <= storageId[t].poolIndex
                                /\ elementSizes[id.poolIndex] >= size[t]
                                => sizeLists[id] # STORAGE_FREE

SearchInv == StorageIds /\ SearchedAreFull

LEMMA MinIsLeast ==
    ASSUME NEW T \in SUBSET Nat, T # {}
    PROVE  Min(T) \in T /\ \A n \in T : Min(T) <= n
<1> DEFINE R == OpToRel(<, Nat)
<1>1. \E x \in T : \A y \in T : ~ (<<y, x>> \in R)
  <2>1. IsWellFoundedOn(R, Nat)
    BY NatLessThanWellFounded
  <2> HIDE DEF R
  <2> QED
    BY <2>1, WFMin
<1>2. \A x, y \in T : <<y, x>> \in R <=> y < x
  BY DEF OpToRel
<1> HIDE DEF R
<1>3. PICK x \in T : \A y \in T : ~ (<<y, x>> \in R)
  BY <1>1
<1>4. \A y \in T : x <= y
  <2>1. TAKE y \in T
  <2>2. ~(y < x) /\ x \in Nat /\ y \in Nat
    BY <1>2, <1>3
  <2> QED
    BY <2>2
<1> QED
  BY <1>4 DEF Min

LEMMA PoolNumbers ==
    /\ Pools \subseteq Nat /\ \A p \in Pools : p >= 1 /\ elementSizes[p] \in Nat
    /\ \A id \in Elements : id.poolIndex \in Pools /\ id \in [poolIndex : Nat, packetIndex : Nat]
<1>1. Pools = 1..Len(elementSizes) /\ Len(elementSizes) \in Nat /\ \A p \in Pools : elementSizes[p] \in Nat
  BY PoolAssumption DEF Pools
<1>2. ASSUME NEW id \in Elements
      PROVE  id.poolIndex \in Pools /\ id \in [poolIndex : Nat, packetIndex : Nat]
  <2>1. id.poolIndex \in Pools /\ id.packetIndex \in Nat /\ id = Id(id.poolIndex, id.packetIndex)
    <3>1. numberOfElements[id.poolIndex] \in Nat
      BY ElementParts, PoolAssumption DEF Pools
    <3> QED
      BY <3>1, ElementParts
  <2> QED
    BY <1>1, <2>1 DEF Id
<1> QED
  BY <1>1, <1>2

(* What a call has searched before its next look, and after it. *)
LEMMA LookedSoFar ==
    ASSUME PoolInv, SearchInv, NEW t \in Tasks, pc[t] \in {"search", "spill"}, NEW id \in Elements,
           id.poolIndex < StartAtIndex(t), elementSizes[id.poolIndex] >= size[t]
    PROVE  sizeLists[id] # STORAGE_FREE /\ pc[t] = "spill"
<1>1. id.poolIndex \in Nat /\ id.poolIndex >= 1
  BY PoolNumbers
<1>2. pc[t] = "spill" /\ id.poolIndex < storageId[t].poolIndex + 1
  BY <1>1 DEF StartAtIndex
<1>3. storageId[t].poolIndex \in Nat
  BY DEF SearchInv, StorageIds
<1> QED
  BY <1>1, <1>2, <1>3 DEF SearchInv, SearchedAreFull

LEMMA FittingIsLeast ==
    ASSUME PoolInv, SearchInv, NEW t \in Tasks, Fitting(t) # {}
    PROVE  /\ Min(Fitting(t)) \in Pools /\ elementSizes[Min(Fitting(t))] >= size[t]
           /\ \A n \in Fitting(t) : Min(Fitting(t)) <= n
<1>1. Fitting(t) \in SUBSET Nat /\ Fitting(t) \subseteq Pools /\ \A n \in Fitting(t) : elementSizes[n] >= size[t]
  BY PoolNumbers DEF Fitting, getSubPoolIndex
<1> QED
  BY <1>1, MinIsLeast

LEMMA SubPoolFullStep ==
    ASSUME PoolInv, SearchInv, NEW t \in Tasks, SubPoolFull(t), NEW id \in Elements,
           elementSizes[id.poolIndex] >= size[t], id.poolIndex <= Min(Fitting(t))
    PROVE  sizeLists[id] # STORAGE_FREE
<1>1. /\ pc[t] \in {"search", "spill"} /\ Fitting(t) # {} /\ findEmpty(Min(Fitting(t))) = {}
  BY DEF SubPoolFull
<1>2. /\ Min(Fitting(t)) \in Nat /\ \A n \in Fitting(t) : Min(Fitting(t)) <= n
      /\ id.poolIndex \in Pools /\ id.poolIndex \in Nat
  BY <1>1, FittingIsLeast, PoolNumbers
<1>3. StartAtIndex(t) \in Nat
  BY DEF StartAtIndex, SearchInv, StorageIds
<1>4. CASE id.poolIndex < StartAtIndex(t)
  BY <1>1, <1>4, LookedSoFar
<1>5. CASE id.poolIndex >= StartAtIndex(t)
  <2>1. id.poolIndex \in Fitting(t)
    BY <1>2, <1>5 DEF Fitting, getSubPoolIndex
  <2>2. id.poolIndex = Min(Fitting(t))
    BY <1>2, <2>1
  <2> QED
    BY <1>1, <2>2 DEF findEmpty
<1> QED
  BY <1>2, <1>3, <1>4, <1>5

(* Who is searching keeps its arguments, and nobody frees an element meanwhile. *)
LEMMA OthersFreeNothing ==
    ASSUME NobodyOverstays, PoolInv, SearchInv, [Next]_vars, NEW t \in Tasks,
           pc[t] = "spill", pc'[t] = "spill", ~SubPoolFull(t)
    PROVE  /\ size'[t] = size[t] /\ storageId'[t] = storageId[t]
           /\ \A id \in Elements : sizeLists'[id] = STORAGE_FREE => sizeLists[id] = STORAGE_FREE
<1> USE DEF PoolInv, poolVars, callVars, Goto, Step, STORAGE_FREE
<1>0. /\ pc \in [Tasks -> Labels] /\ size \in [Tasks -> Nat] /\ storageId \in [Tasks -> [poolIndex : Nat, packetIndex : Nat]]
      /\ sizeLists \in [Elements -> Nat \cup {STORAGE_FREE}] /\ tokens \subseteq Tokens
  BY DEF TypeOK, SearchInv, StorageIds
<1>1. ASSUME NEW u \in Tasks,
             \/ Lock(u, "lockReserve", "search") \/ Lock(u, "lockPointer", "lockDelete") \/ Lock(u, "lockDelete", "wipe")
             \/ Unlock(u, "unlockReserved", "write")
             \/ Unlock(u, "unlockFailed", "idle") \/ Unlock(u, "unlockDeleted", "idle")
             \/ Unlock(u, "unlockDeleted", "unlockPointer") \/ Unlock(u, "unlockPointer", "idle")
             \/ NoneFits(u) \/ Wipe(u)
      PROVE  UNCHANGED <<size, storageId, sizeLists>>
  BY <1>1 DEF Lock, Unlock, NoneFits, Wipe
<1>2. ASSUME NEW u \in Tasks, FoundEmpty(u) \/ SubPoolFull(u)
      PROVE  UNCHANGED <<size, sizeLists>> /\ storageId'[t] = storageId[t]
  BY <1>0, <1>2 DEF FoundEmpty, SubPoolFull
<1>3. ASSUME NEW u \in Tasks, Mark(u) \/ write(u) \/ FillElement(u)
      PROVE  /\ UNCHANGED <<size, storageId>>
             /\ \A id \in Elements : sizeLists'[id] = STORAGE_FREE => sizeLists[id] = STORAGE_FREE
  BY <1>0, <1>3 DEF Mark, write, FillElement
<1>4. ASSUME NEW u \in Tasks PROVE ~SetFree(u)
  BY <1>4 DEF SetFree, MutualExclusion, Critical
<1>5. ASSUME NEW u \in Tasks, NEW s \in Sizes, Reserve(u, s)
      PROVE  UNCHANGED <<storageId, sizeLists>> /\ size'[t] = size[t]
  BY <1>0, <1>5 DEF Reserve
<1>6. ASSUME NEW u \in Tasks, NEW k \in tokens, Delete(u, k) \/ PointerCall(u, k)
      PROVE  UNCHANGED <<size, sizeLists>> /\ storageId'[t] = storageId[t]
  BY <1>0, <1>6 DEF Delete, PointerCall
<1>7. ASSUME NEW u \in Tasks, NEW k \in tokens,
             NEW offset \in 0..(elementSizes[k.id.poolIndex] - 1), DeleteByPointer(u, k, offset)
      PROVE  UNCHANGED <<size, sizeLists>> /\ storageId'[t] = storageId[t]
  BY <1>6, <1>7, PointerStep
<1>8. ASSUME NEW u \in Tasks, NEW k \in tokens, modifyData(u, k) \/ PassOn(k, u)
      PROVE  UNCHANGED <<size, storageId, sizeLists>>
  BY <1>8 DEF modifyData, PassOn
<1>9. ~clearStore /\ \A p \in Pools : ~clearSubPool(p)
  BY DEF clearStore, clearSubPool, AllIdle
<1>10. CASE UNCHANGED vars
  BY <1>10 DEF vars
<1> QED
  BY <1>1, <1>2, <1>3, <1>4, <1>5, <1>6, <1>7, <1>8, <1>9, <1>10
     DEF Next, Operation, reserveSpace, deleteData

LEMMA StorageIdsStep ==
    ASSUME PoolInv, SearchInv, [Next]_vars
    PROVE  StorageIds'
<1> USE DEF PoolInv, poolVars, callVars
<1>0. /\ storageId \in [Tasks -> [poolIndex : Nat, packetIndex : Nat]] /\ tokens \subseteq Tokens
  BY DEF TypeOK, SearchInv, StorageIds
<1>1. ASSUME NEW t \in Tasks, FoundEmpty(t) PROVE StorageIds'
  <2>1. PICK id \in Elements : storageId' = [storageId EXCEPT ![t] = id]
    BY <1>1 DEF FoundEmpty, findEmpty
  <2> QED
    BY <1>0, <2>1, PoolNumbers DEF StorageIds
<1>2. ASSUME NEW t \in Tasks, SubPoolFull(t) PROVE StorageIds'
  <2>1. Min(Fitting(t)) \in Nat
    BY <1>2, FittingIsLeast, PoolNumbers DEF SubPoolFull
  <2>2. storageId' = [storageId EXCEPT ![t].poolIndex = Min(Fitting(t))]
    BY <1>2 DEF SubPoolFull
  <2> QED
    BY <1>0, <2>1, <2>2 DEF StorageIds
<1>3. ASSUME NEW t \in Tasks, NEW k \in tokens, Delete(t, k) \/ PointerCall(t, k) PROVE StorageIds'
  <2>1. k.id \in Elements
    BY <1>0 DEF Tokens
  <2> QED
    BY <1>0, <1>3, <2>1, PoolNumbers DEF Delete, PointerCall, StorageIds
<1>4. ASSUME NEW t \in Tasks, NEW k \in tokens,
             NEW offset \in 0..(elementSizes[k.id.poolIndex] - 1), DeleteByPointer(t, k, offset)
      PROVE  StorageIds'
  BY <1>3, <1>4, PointerStep
<1>5. CASE UNCHANGED storageId
  BY <1>0, <1>5 DEF StorageIds
<1> QED
  BY <1>1, <1>2, <1>3, <1>4, <1>5
     DEF Next, Operation, reserveSpace, deleteData, Lock, Unlock, NoneFits, Mark, Wipe, SetFree, write,
         FillElement, Reserve, modifyData, PassOn, clearStore, clearSubPool, vars

(* A call comes to, or stays in, the spill only from a sub-pool that is full. *)
LEMMA SpillOnlyFromFull ==
    ASSUME PoolInv, [Next]_vars, NEW t \in Tasks, pc'[t] # pc[t], pc'[t] \in {"spill", "unlockFailed"}
    PROVE  SubPoolFull(t) \/ NoneFits(t)
<1>1. pc \in [Tasks -> Labels]
  BY DEF PoolInv, TypeOK
<1> USE DEF Goto, Step
<1>2. ASSUME NEW u \in Tasks,
             \/ Lock(u, "lockReserve", "search") \/ Lock(u, "lockPointer", "lockDelete") \/ Lock(u, "lockDelete", "wipe")
             \/ Unlock(u, "unlockReserved", "write")
             \/ Unlock(u, "unlockFailed", "idle") \/ Unlock(u, "unlockDeleted", "idle")
             \/ Unlock(u, "unlockDeleted", "unlockPointer") \/ Unlock(u, "unlockPointer", "idle")
             \/ Wipe(u) \/ FoundEmpty(u) \/ Mark(u) \/ SetFree(u) \/ write(u) \/ FillElement(u)
             \/ (\E s \in Sizes : Reserve(u, s))
             \/ (\E k \in tokens : Delete(u, k) \/ PointerCall(u, k) \/ modifyData(u, k) \/ PassOn(k, u))
      PROVE  FALSE
  BY <1>1, <1>2 DEF Lock, Unlock, Wipe, FoundEmpty, Mark, SetFree, write, FillElement, Reserve, Delete,
                    PointerCall, modifyData, PassOn
<1>3. ASSUME NEW u \in Tasks, NEW k \in tokens,
             NEW offset \in 0..(elementSizes[k.id.poolIndex] - 1), DeleteByPointer(u, k, offset)
      PROVE  FALSE
  BY <1>2, <1>3, PointerStep
<1>4. ~(clearStore \/ (\E p \in Pools : clearSubPool(p)) \/ UNCHANGED vars)
  BY DEF clearStore, clearSubPool, vars
<1>5. \E u \in Tasks : SubPoolFull(u) \/ NoneFits(u)
  BY <1>2, <1>3, <1>4 DEF Next, Operation, reserveSpace, deleteData
<1> QED
  BY <1>1, <1>5 DEF SubPoolFull, NoneFits

LEMMA SearchedStep ==
    ASSUME NobodyOverstays, PoolInv, SearchInv, [Next]_vars
    PROVE  SearchedAreFull'
<1>1. SUFFICES ASSUME NEW t \in Tasks, pc'[t] = "spill"
               PROVE  /\ spillsToHigherPools'
                      /\ \A id \in Elements : /\ id.poolIndex <= storageId'[t].poolIndex
                                              /\ elementSizes[id.poolIndex] >= size'[t]
                                              => sizeLists'[id] # STORAGE_FREE
  BY DEF SearchedAreFull
<1>2. spillsToHigherPools' = spillsToHigherPools
  BY DEF Next, vars
<1>3. CASE SubPoolFull(t)
  <2>1. /\ storageId' = [storageId EXCEPT ![t].poolIndex = Min(Fitting(t))] /\ size' = size /\ sizeLists' = sizeLists
        /\ pc' = [pc EXCEPT ![t] = IF spillsToHigherPools THEN "spill" ELSE "unlockFailed"]
    BY <1>3 DEF SubPoolFull, poolVars, Goto
  <2>2. spillsToHigherPools
    BY <1>1, <2>1 DEF PoolInv, TypeOK
  <2>3. storageId'[t].poolIndex = Min(Fitting(t))
    BY <2>1 DEF SearchInv, StorageIds
  <2> QED
    BY <1>2, <1>3, <2>1, <2>2, <2>3, SubPoolFullStep
<1>4. CASE ~SubPoolFull(t)
  <2>1. pc[t] = "spill"
    <3>1. NoneFits(t) => pc'[t] = "unlockFailed"
      BY DEF NoneFits, Goto, PoolInv, TypeOK
    <3> QED
      BY <1>1, <1>4, <3>1, SpillOnlyFromFull
  <2>2. /\ size'[t] = size[t] /\ storageId'[t] = storageId[t]
        /\ \A id \in Elements : sizeLists'[id] = STORAGE_FREE => sizeLists[id] = STORAGE_FREE
    BY <1>1, <1>4, <2>1, OthersFreeNothing
  <2> QED
    BY <1>2, <2>1, <2>2 DEF SearchInv, SearchedAreFull
<1> QED
  BY <1>3, <1>4

(* A reservation is refused only when every element that could take the data  *)
(* is in use at that moment, with any number of tasks that add and delete     *)
(* while reserveSpace goes from one sub-pool to the next.                     *)
THEOREM RefusedOnlyWhenFull ==
    ASSUME NobodyOverstays
    PROVE  Spec => FailsOnlyWhenFull
<1>1. Init => SearchInv
  BY DEF Init, SearchInv, StorageIds, SearchedAreFull, NoId, Id
<1>2. PoolInv /\ SearchInv /\ [Next]_vars => SearchInv'
  BY StorageIdsStep, SearchedStep DEF SearchInv
<1>3. ASSUME PoolInv, SearchInv, [Next]_vars
      PROVE  FailureStep
  <2>1. SUFFICES ASSUME NEW t \in Tasks, pc[t] # "unlockFailed", pc'[t] = "unlockFailed",
                        NEW id \in Elements, Usable(t, id)
                 PROVE  sizeLists[id] # STORAGE_FREE
    BY DEF FailureStep
  <2>2. id.poolIndex \in Pools /\ id.poolIndex \in Nat /\ elementSizes[id.poolIndex] >= size[t]
    BY <2>1, PoolNumbers DEF Usable
  <2>3. pc[t] \in {"search", "spill"} /\ StartAtIndex(t) \in Nat
    BY <1>3, <2>1, SpillOnlyFromFull DEF SubPoolFull, NoneFits, StartAtIndex, SearchInv, StorageIds
  <2>4. CASE id.poolIndex < StartAtIndex(t)
    BY <1>3, <2>2, <2>3, <2>4, LookedSoFar
  <2>5. CASE id.poolIndex >= StartAtIndex(t)
    <3>1. id.poolIndex \in Fitting(t)
      BY <2>2, <2>5 DEF Fitting, getSubPoolIndex
    <3>2. SubPoolFull(t)
      BY <1>3, <2>1, <3>1, SpillOnlyFromFull DEF NoneFits
    <3>3. ~spillsToHigherPools
      BY <1>3, <2>1, <3>2 DEF SubPoolFull, Goto, PoolInv, TypeOK
    <3>4. \A p \in Pools : p < id.poolIndex => ~(elementSizes[p] >= size[t])
      <4>1. \A p \in Pools : p < id.poolIndex => elementSizes[p] < size[t]
        BY <2>1, <3>3 DEF Usable
      <4>2. size[t] \in Nat /\ \A p \in Pools : elementSizes[p] \in Nat
        BY <1>3, PoolNumbers DEF PoolInv, TypeOK
      <4> QED
        BY <4>1, <4>2
    <3>5. id.poolIndex <= Min(Fitting(t))
      <4>1. Min(Fitting(t)) \in Pools /\ elementSizes[Min(Fitting(t))] >= size[t] /\ Min(Fitting(t)) \in Nat
        BY <1>3, <3>1, FittingIsLeast, PoolNumbers
      <4> QED
        BY <2>2, <3>4, <4>1
    <3> QED
      BY <1>3, <2>2, <3>2, <3>5, SubPoolFullStep
  <2> QED
    BY <2>2, <2>3, <2>4, <2>5
<1> QED
  BY <1>1, <1>2, <1>3, PoolInvariant, PTL DEF Spec, FailsOnlyWhenFull
=============================================================================
