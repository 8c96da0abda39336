-------------------------- MODULE TelecommandProofs --------------------------
(***************************************************************************)
(* The way of a telecommand from the transfer frame to its release:        *)
(*                                                                         *)
(*  - the FARM-1 machine keeps its registers in order, and with a link and *)
(*    a ground around it the sequence-controlled uplink delivers once each *)
(*    and in order and never locks out a ground that keeps its window;     *)
(*  - the MAP channel behind it puts segmented packets together in a       *)
(*    bounded buffer, in order, and loses none that fits unnoticed;        *)
(*  - Service 11 keeps a schedule that is as the ground asked for, with    *)
(*    the packets in the store, and releases what is due in its order.     *)
(*                                                                         *)
(* All of it for every width, window, size, depth and number of packets.   *)
(* The three specifications share no variable; they share the lemmas on    *)
(* numbers and sequences that come first.                                  *)
(***************************************************************************)
EXTENDS Cop1, MapExtraction, Scheduling, SequenceTheorems, FiniteSetTheorems, WellFoundedInduction, TLAPS

-----------------------------------------------------------------------------
(* Numbers and sequences *)

\* A set of numbers has a least.
LEMMA LeastNumber ==
  ASSUME NEW S \in SUBSET Nat, S # {}
  PROVE  \E x \in S : \A y \in S : x <= y
<1> DEFINE R == OpToRel(<, Nat)
<1>1. PICK x \in S : \A y \in S : ~ (<<y, x>> \in R)
  <2>1. IsWellFoundedOn(R, Nat)
    BY NatLessThanWellFounded
  <2> HIDE DEF R
  <2>2. QED
    BY <2>1, WFMin
<1>2. ASSUME NEW y \in S
      PROVE  x <= y
  <2>1. x \in Nat /\ y \in Nat
    OBVIOUS
  <2>2. y < x => <<y, x>> \in R
    BY <2>1 DEF OpToRel
  <2> HIDE DEF R
  <2>3. ~(y < x)
    BY <1>1, <2>2
  <2>4. QED
    BY <2>1, <2>3
<1>3. QED
  BY <1>2

\* Induction, for a set of numbers.
LEMMA SetOfNumbers ==
  ASSUME NEW S \in SUBSET Nat, 0 \in S, \A n \in S : n + 1 \in S
  PROVE  S = Nat
<1> DEFINE T == Nat \ S
<1>1. ASSUME T # {}
      PROVE  FALSE
  <2>1. PICK x \in T : \A y \in T : x <= y
    <3>1. T \in SUBSET Nat
      OBVIOUS
    <3> HIDE DEF T
    <3>2. QED
      BY <1>1, <3>1, LeastNumber
  <2>2. x \in Nat /\ x # 0 /\ x - 1 \in Nat /\ ~(x <= x - 1) /\ (x - 1) + 1 = x
    OBVIOUS
  <2>3. x - 1 \notin S
    BY <2>2
  <2>4. QED
    BY <2>1, <2>2, <2>3
<1>2. QED
  BY <1>1

\* Of the positions with a property there is a first; if there is none, the end.
LEMMA FirstPosition ==
  ASSUME NEW b \in Nat, NEW n \in Nat, b <= n, NEW G \in SUBSET (b..n)
  PROVE  \E i \in b..n : (i < n => i \in G) /\ \A j \in b..(i - 1) : j \notin G
<1> DEFINE S == { i \in b..n : i = n \/ i \in G }
<1>1. n \in S
  OBVIOUS
<1>2. S \in SUBSET Nat /\ S # {}
  BY <1>1
<1>3. PICK x \in S : \A y \in S : x <= y
  <2> HIDE DEF S
  <2>1. QED
    BY <1>2, LeastNumber
<1>4. x \in b..n /\ (x < n => x \in G)
  OBVIOUS
<1>5. ASSUME NEW j \in b..(x - 1), j \in G
      PROVE  FALSE
  <2>1. j \in S /\ j < x
    BY <1>4, <1>5
  <2>2. QED
    BY <1>3, <1>4, <2>1
<1>6. QED
  BY <1>4, <1>5

\* What a concatenation has at each position.
LEMMA Joined ==
  ASSUME NEW S, NEW a \in Seq(S), NEW b \in Seq(S), NEW u, u = a \o b
  PROVE  /\ u \in Seq(S) /\ Len(a) \in Nat /\ Len(b) \in Nat /\ Len(u) = Len(a) + Len(b)
         /\ \A i \in 1..Len(a) : u[i] = a[i]
         /\ \A i \in 1..Len(b) : u[Len(a) + i] = b[i]
<1>1. Len(a) \in Nat /\ Len(b) \in Nat
  BY LenProperties
<1>2. /\ u \in Seq(S) /\ Len(u) = Len(a) + Len(b)
      /\ \A i \in 1..(Len(a) + Len(b)) : u[i] = IF i <= Len(a) THEN a[i] ELSE b[i - Len(a)]
  BY ConcatProperties
<1>3. \A i \in 1..Len(a) : u[i] = a[i]
  BY <1>1, <1>2
<1>4. ASSUME NEW i \in 1..Len(b)
      PROVE  u[Len(a) + i] = b[i]
  <2>1. /\ Len(a) + i \in 1..(Len(a) + Len(b)) /\ ~(Len(a) + i <= Len(a))
        /\ Len(a) + i - Len(a) = i
    BY <1>1
  <2>2. QED
    BY <1>2, <2>1
<1>5. QED
  BY <1>1, <1>2, <1>3, <1>4

\* What a part of a sequence has at each position.
LEMMA Sliced ==
  ASSUME NEW S, NEW s \in Seq(S), NEW a \in 1..(Len(s) + 1), NEW b \in (a - 1)..Len(s), NEW u, u = SubSeq(s, a, b)
  PROVE  /\ u \in Seq(S) /\ Len(u) = b - a + 1
         /\ \A i \in 1..(b - a + 1) : u[i] = s[a + i - 1]
<1>1. Len(s) \in Nat /\ a \in Int /\ b \in Int /\ \A i \in a..b : i \in 1..Len(s)
  BY LenProperties
<1>2. \A i \in a..b : s[i] \in S
  BY <1>1, ElementOfSeq
<1>3. /\ u \in Seq(S) /\ Len(u) = (IF a <= b THEN b - a + 1 ELSE 0)
      /\ \A i \in 1..(b - a + 1) : u[i] = s[a + i - 1]
  BY <1>1, <1>2, SubSeqProperties
<1>4. Len(u) = b - a + 1
  <2>1. a <= b \/ b - a + 1 = 0
    BY <1>1
  <2>2. QED
    BY <1>3, <2>1
<1>5. QED
  BY <1>3, <1>4

-----------------------------------------------------------------------------
(* The FARM-1 machine alone. *)

(* The remainder of an integer by a positive number lies below it. *)
LEMMA ModRange ==
    ASSUME NEW a \in Int, NEW n \in Nat, n > 0
    PROVE  a % n \in 0..(n - 1)
OBVIOUS

(* What every frame-driven step has in common: the flags decided by the     *)
(* handler, a V(R) and a FARM-B count in range give registers of the right  *)
(* type, and the TTC copy is equal to the channel's own register.           *)
LEMMA ReportType ==
    ASSUME FarmTypeOK, NEW f \in Flags, NEW v \in SeqNumbers,
           NEW b \in 0..(BModulus - 1), Report(f, v, b)
    PROVE  /\ vR' \in SeqNumbers
           /\ farmBCounter' \in 0..(BModulus - 1)
           /\ internalClcw' \in Registers
           /\ clcw' \in Registers
<1>1. b % 4 \in 0..3
  BY FarmAssumption
<1>2. QED
  BY <1>1 DEF Report, Registers, SeqNumbers

LEMMA CounterInRange ==
    ASSUME FarmTypeOK
    PROVE  CountB \in 0..(BModulus - 1)
BY FarmAssumption, ModRange DEF FarmTypeOK, CountB

(* Each step of the channel keeps the types. *)
LEMMA FarmTypeStep == FarmTypeOK /\ [FarmNext]_farmVars => FarmTypeOK'
<1> SUFFICES ASSUME FarmTypeOK, [FarmNext]_farmVars
             PROVE  FarmTypeOK'
  OBVIOUS
<1>0. CurrentFlags \in Flags
  BY DEF FarmTypeOK, CurrentFlags, Registers
<1>a. \A l, w, r \in BOOLEAN : Flag(l, w, r) \in Flags
  BY DEF Flag, Flags
<1>b. /\ [CurrentFlags EXCEPT !.retransmit = FALSE] \in Flags
      /\ [CurrentFlags EXCEPT !.retransmit = TRUE] \in Flags
      /\ [CurrentFlags EXCEPT !.lockout = TRUE] \in Flags
      /\ [CurrentFlags EXCEPT !.retransmit = FALSE, !.wait = FALSE] \in Flags
  BY <1>0 DEF Flags
<1>c. vR \in SeqNumbers /\ farmBCounter \in 0..(BModulus - 1) /\ CountB \in 0..(BModulus - 1)
  BY CounterInRange DEF FarmTypeOK
<1>d. (vR + 1) % SeqModulus \in SeqNumbers
  BY <1>c, FarmAssumption, ModRange DEF SeqNumbers
<1>1. ASSUME NEW ns \in SeqNumbers, OpenAccept(ns)
      PROVE  FarmTypeOK'
  BY <1>1, <1>b, <1>c, <1>d, ReportType DEF OpenAccept, FarmTypeOK
<1>2. ASSUME NEW ns \in SeqNumbers, DiscardAD(ns)
      PROVE  FarmTypeOK'
  BY <1>2, <1>0, <1>b, <1>c, ReportType
  DEF DiscardAD, OpenPositiveWindow, OpenNegativeWindow, OpenLockout, WaitDiscard,
      WaitLockout, LockoutDiscard, FarmTypeOK, States
<1>3. CASE AcceptBD
  BY <1>3, <1>0, <1>c, ReportType DEF AcceptBD, FarmTypeOK
<1>4. CASE BCUnlock
  BY <1>4, <1>a, <1>b, <1>c, ReportType
  DEF BCUnlock, UnlockInOpen, UnlockInWait, UnlockInLockout, FarmTypeOK, States
<1>5. ASSUME NEW v \in SeqNumbers, BCSetVr(v)
      PROVE  FarmTypeOK'
  BY <1>5, <1>0, <1>b, <1>c, ReportType
  DEF BCSetVr, SetVrInOpen, SetVrInWait, SetVrInLockout, FarmTypeOK, States
<1>6. CASE BCIllegal
  BY <1>6, <1>0, <1>c, ReportType DEF BCIllegal, FarmTypeOK
<1>7. CASE setToWaitState
  BY <1>7 DEF setToWaitState, FarmTypeOK, States, Registers, Flags
<1>8. CASE UNCHANGED farmVars
  BY <1>8 DEF farmVars, FarmTypeOK
<1>9. QED
  BY <1>1, <1>2, <1>3, <1>4, <1>5, <1>6, <1>7, <1>8 DEF FarmNext

(* The members of VirtualChannelReception keep their types in every         *)
(* behaviour of the channel.                                                *)
THEOREM FarmTypeCorrect == FarmSpec => []FarmTypeOK
<1>1. FarmInit => FarmTypeOK
  BY FarmAssumption
  DEF FarmInit, FarmTypeOK, States, SeqNumbers, Registers, Flags, Flag
<1>2. QED
  BY <1>1, FarmTypeStep, PTL DEF FarmSpec

-----------------------------------------------------------------------------
(* The two flag invariants are inductive together: the TTC copy is refreshed *)
(* from the channel's own register, so what the copy says of the state       *)
(* follows from what the register says.                                      *)
FarmInv == FarmTypeOK /\ FlagsMirrorState /\ ReportIsCurrent

(* A frame-driven step that decides flags matching the next state gives      *)
(* registers that match it.                                                  *)
LEMMA ReportMirrors ==
    ASSUME FarmTypeOK, NEW f \in Flags, NEW v \in SeqNumbers,
           NEW b \in 0..(BModulus - 1), Report(f, v, b),
           f.lockout <=> currentState' = "lockout",
           currentState' = "wait" => f.wait,
           currentState' = "open" => ~f.wait
    PROVE  FlagsMirrorState' /\ ReportIsCurrent'
BY DEF Report, FlagsMirrorState, ReportIsCurrent

(* Every step of the channel keeps the registers in agreement with the       *)
(* machine, provided that nobody puts a locked-out machine into Wait.        *)
LEMMA FarmStep ==
    ASSUME "lockout" \notin WaitCallers, FarmInv, FarmTypeOK', [FarmNext]_farmVars
    PROVE  FlagsMirrorState' /\ ReportIsCurrent'
<1> DEFINE F == CurrentFlags
<1>0. /\ F \in Flags
      /\ F.lockout <=> currentState = "lockout"
      /\ currentState = "wait" => F.wait
      /\ currentState = "open" => ~F.wait
  BY DEF FarmInv, FarmTypeOK, FlagsMirrorState, CurrentFlags, Registers
<1>c. /\ FarmTypeOK /\ currentState \in States
      /\ vR \in SeqNumbers /\ farmBCounter \in 0..(BModulus - 1)
      /\ CountB \in 0..(BModulus - 1)
      /\ (vR + 1) % SeqModulus \in SeqNumbers
  BY CounterInRange, FarmAssumption, ModRange DEF FarmInv, FarmTypeOK, SeqNumbers
<1> HIDE DEF F
<1>1. ASSUME NEW ns \in SeqNumbers, OpenAccept(ns)
      PROVE  FlagsMirrorState' /\ ReportIsCurrent'
  <2> DEFINE G == [F EXCEPT !.retransmit = FALSE]
  <2>1. G \in Flags /\ G.lockout = F.lockout /\ G.wait = F.wait
    BY <1>0 DEF Flags
  <2>2. Report(G, (vR + 1) % SeqModulus, farmBCounter) /\ currentState' = currentState
    BY <1>1 DEF OpenAccept, F
  <2> QED
    BY <1>0, <1>c, <2>1, <2>2, ReportMirrors
<1>2. ASSUME NEW ns \in SeqNumbers, DiscardAD(ns)
      PROVE  FlagsMirrorState' /\ ReportIsCurrent'
  <2> DEFINE G == [F EXCEPT !.retransmit = TRUE]
             L == [F EXCEPT !.lockout = TRUE]
  <2>1. /\ G \in Flags /\ G.lockout = F.lockout /\ G.wait = F.wait
        /\ L \in Flags /\ L.lockout
    BY <1>0 DEF Flags
  <2>2. \/ Report(G, vR, farmBCounter) /\ currentState' = currentState
        \/ Report(F, vR, farmBCounter) /\ currentState' = currentState
        \/ Report(L, vR, farmBCounter) /\ currentState' = "lockout"
    BY <1>2 DEF DiscardAD, OpenPositiveWindow, OpenNegativeWindow, OpenLockout, WaitDiscard,
                WaitLockout, LockoutDiscard, F
  <2> QED
    BY <1>0, <1>c, <2>1, <2>2, ReportMirrors
<1>3. CASE AcceptBD
  BY <1>0, <1>3, <1>c, ReportMirrors DEF AcceptBD, F
<1>4. ASSUME \/ BCUnlock
             \/ \E v \in SeqNumbers : BCSetVr(v)
      PROVE  FlagsMirrorState' /\ ReportIsCurrent'
  <2> DEFINE G == [F EXCEPT !.retransmit = FALSE]
             H == [F EXCEPT !.retransmit = FALSE, !.wait = FALSE]
             Z == Flag(FALSE, FALSE, FALSE)
  <2>1. /\ G \in Flags /\ G.lockout = F.lockout /\ G.wait = F.wait
        /\ H \in Flags /\ H.lockout = F.lockout /\ ~H.wait
        /\ Z \in Flags /\ ~Z.lockout /\ ~Z.wait
    BY <1>0 DEF Flags, Flag
  <2>2. PICK v \in SeqNumbers :
           \/ Report(G, v, CountB) /\ currentState = "open" /\ currentState' = currentState
           \/ Report(H, v, CountB) /\ currentState = "wait" /\ currentState' = "open"
           \/ Report(Z, v, CountB) /\ currentState' = "open"
           \/ Report(F, v, CountB) /\ currentState' = currentState
    BY <1>4, <1>c DEF BCUnlock, UnlockInOpen, UnlockInWait, UnlockInLockout,
                      BCSetVr, SetVrInOpen, SetVrInWait, SetVrInLockout, F
  <2> QED
    BY <1>0, <1>c, <2>1, <2>2, ReportMirrors
<1>5. CASE BCIllegal
  BY <1>0, <1>5, <1>c, ReportMirrors DEF BCIllegal, F
<1>6. CASE setToWaitState
  BY <1>6 DEF setToWaitState, FarmInv, FarmTypeOK, Registers, Flags,
              FlagsMirrorState, ReportIsCurrent
<1>7. CASE UNCHANGED farmVars
  BY <1>7 DEF farmVars, FarmInv, FlagsMirrorState, ReportIsCurrent
<1> QED
  BY <1>1, <1>2, <1>3, <1>4, <1>5, <1>6, <1>7 DEF FarmNext

(* The CLCW tells the truth: its flags mirror the machine's state and the    *)
(* TTC copy carries the current V(R), FARM-B count and lockout, for every    *)
(* window and counter width, as long as setToWaitState is not called on a    *)
(* locked-out channel.                                                       *)
THEOREM FarmRegistersCorrect ==
    ASSUME "lockout" \notin WaitCallers
    PROVE  FarmSpec => [](FlagsMirrorState /\ ReportIsCurrent)
<1>1. FarmInit => FlagsMirrorState /\ ReportIsCurrent
  BY DEF FarmInit, FlagsMirrorState, ReportIsCurrent, Flag
<1>2. FarmTypeOK /\ FarmTypeOK' /\ (FlagsMirrorState /\ ReportIsCurrent) /\ [FarmNext]_farmVars
         => (FlagsMirrorState /\ ReportIsCurrent)'
  BY FarmStep DEF FarmInv
<1>3. QED
  BY <1>1, <1>2, FarmTypeCorrect, PTL DEF FarmSpec

(* A locked-out channel keeps its V(R), and only an unlock control frame     *)
(* opens it again.                                                           *)
THEOREM LockoutHolds ==
    ASSUME "lockout" \notin WaitCallers
    PROVE  FarmSpec => LockoutNeedsUnlock
<1>1. [FarmNext]_farmVars => [LockoutStep]_farmVars
  <2> SUFFICES ASSUME FarmNext, currentState = "lockout"
               PROVE  LockoutStep \/ UNCHANGED farmVars
    BY DEF LockoutStep
  <2>1. ASSUME NEW ns \in SeqNumbers, OpenAccept(ns) \/ DiscardAD(ns)
        PROVE  LockoutStep
    BY <2>1 DEF OpenAccept, DiscardAD, OpenPositiveWindow, OpenNegativeWindow, OpenLockout,
                WaitDiscard, WaitLockout, LockoutDiscard, LockoutStep, Report
  <2>2. CASE AcceptBD \/ BCIllegal \/ \E v \in SeqNumbers : BCSetVr(v)
    BY <2>2 DEF AcceptBD, BCIllegal, BCSetVr, SetVrInOpen, SetVrInWait, SetVrInLockout,
                LockoutStep, Report
  <2>3. CASE BCUnlock
    <3>1. UnlockInLockout
      BY <2>3 DEF BCUnlock, UnlockInOpen, UnlockInWait
    <3>2. /\ vR' = vR /\ farmBCounter' = CountB /\ currentState' = "open"
          /\ internalClcw'.flags = Flag(FALSE, FALSE, FALSE)
      BY <3>1 DEF UnlockInLockout, Report
    <3> QED
      BY <3>2 DEF LockoutStep
  <2>4. CASE setToWaitState
    BY <2>4 DEF setToWaitState
  <2> QED
    BY <2>1, <2>2, <2>3, <2>4 DEF FarmNext
<1>2. QED
  BY <1>1, PTL DEF FarmSpec, LockoutNeedsUnlock

-----------------------------------------------------------------------------
(* Arithmetic modulo m. *)

LEMMA DivMod ==
    ASSUME NEW m \in Nat, m > 0, NEW a \in Int
    PROVE  /\ a \div m \in Int
           /\ a % m \in 0..(m - 1)
           /\ a = m * (a \div m) + (a % m)
OBVIOUS

LEMMA SmallMultiple ==
    ASSUME NEW m \in Nat, m > 0, NEW q \in Int, -m < q * m, q * m < m
    PROVE  q = 0
OBVIOUS

(* A representation with a remainder below m is the one % computes. *)
LEMMA ModUnique ==
    ASSUME NEW m \in Nat, m > 0, NEW a \in Int, NEW q \in Int, NEW r \in 0..(m - 1),
           a = m * q + r
    PROVE  a % m = r
<1>1. /\ a = m * (a \div m) + (a % m)
      /\ a \div m \in Int
      /\ a % m \in 0..(m - 1)
  BY DivMod
<1>2. m * (a \div m - q) = r - (a % m)
  BY <1>1
<1>3. a \div m - q = 0
  BY <1>1, <1>2, SmallMultiple
<1> QED
  BY <1>1, <1>3

(* Reducing both operands of a difference does not change its remainder. *)
LEMMA ModDiff ==
    ASSUME NEW m \in Nat, m > 0, NEW a \in Int, NEW b \in Int
    PROVE  ((a % m) - (b % m)) % m = (a - b) % m
<1> DEFINE k == (a - b) \div m
           c == (a - b) % m
<1>1. a - b = m * k + c /\ k \in Int /\ c \in 0..(m - 1)
  BY DivMod
<1>2. /\ a = m * (a \div m) + (a % m) /\ b = m * (b \div m) + (b % m)
      /\ a \div m \in Int /\ b \div m \in Int
      /\ a % m \in Int /\ b % m \in Int
  BY DivMod
<1> HIDE DEF k, c
<1>3. (a % m) - (b % m) = m * (k - (a \div m) + (b \div m)) + c
  BY <1>1, <1>2
<1>4. k - (a \div m) + (b \div m) \in Int /\ (a % m) - (b % m) \in Int
  BY <1>1, <1>2
<1>5. ((a % m) - (b % m)) % m = c
  BY <1>1, <1>3, <1>4, ModUnique
<1> QED
  BY <1>5 DEF c

(* A number less than m away from 0 is its own remainder, or m short of it. *)
LEMMA ModSmall ==
    ASSUME NEW m \in Nat, m > 0, NEW d \in Int, -m < d, d < m
    PROVE  d % m = IF d >= 0 THEN d ELSE d + m
<1>1. CASE d >= 0
  BY <1>1, ModUnique, d = m * 0 + d, d \in 0..(m - 1), 0 \in Int
<1>2. CASE d < 0
  BY <1>2, ModUnique, d = m * (-1) + (d + m), d + m \in 0..(m - 1), -1 \in Int
<1> QED
  BY <1>1, <1>2

(* Adding one to a reduced number. *)
LEMMA ModSucc ==
    ASSUME NEW m \in Nat, m > 1, NEW a \in Nat
    PROVE  ((a % m) + 1) % m = (a + 1) % m
<1>1. /\ a = m * (a \div m) + (a % m) /\ a \div m \in Int /\ a % m \in 0..(m - 1)
      /\ (a % m) + 1 \in Int
  BY DivMod
<1>2. CASE a % m < m - 1
  <2>1. a + 1 = m * (a \div m) + ((a % m) + 1) /\ (a % m) + 1 \in 0..(m - 1)
    BY <1>1, <1>2
  <2>2. (a + 1) % m = (a % m) + 1
    BY <1>1, <2>1, ModUnique
  <2>3. ((a % m) + 1) % m = (a % m) + 1
    BY <1>1, <2>1, ModSmall
  <2> QED
    BY <2>2, <2>3
<1>3. CASE a % m = m - 1
  <2>1. a + 1 = m * ((a \div m) + 1) + 0 /\ (a % m) + 1 = m * 1 + 0 /\ 0 \in 0..(m - 1)
    BY <1>1, <1>3
  <2>2. (a + 1) % m = 0
    BY <1>1, <2>1, ModUnique
  <2>3. ((a % m) + 1) % m = 0
    BY <1>1, <2>1, ModUnique
  <2> QED
    BY <2>2, <2>3
<1> QED
  BY <1>1, <1>2, <1>3

-----------------------------------------------------------------------------
(* The inductive invariant.  The receiver has accepted a count between what  *)
(* the ground knows of and what it has sent, V(R) is that count modulo       *)
(* SeqModulus, and the N(R) in the ground's hands was true once.  Of the AD  *)
(* frames under way, none is new to the ground, none is more than a window   *)
(* behind the receiver, and none is a window or more ahead of a later one:   *)
(* that last part is what keeps the second true when a frame is accepted.    *)

Delivered == Len(accepted)

IsAD(k) == uplink[k].kind = "AD"

CountsInWindow ==
    /\ acked <= Delivered /\ Delivered <= nextSend /\ nextSend <= acked + SendWindow
    /\ vR = Delivered % SeqModulus
    /\ clcw.vRValue = vR
    /\ \E r \in acked..Delivered : report = r % SeqModulus

LinkInWindow ==
    /\ \A k \in 1..Len(uplink) :
          IsAD(k) => uplink[k].idx < nextSend /\ Delivered <= uplink[k].idx + SendWindow
    /\ \A j, k \in 1..Len(uplink) :
          IsAD(j) /\ IsAD(k) /\ j < k => uplink[j].idx < uplink[k].idx + SendWindow

CopInv == CopTypeOK /\ NoSpuriousLockout /\ CountsInWindow /\ LinkInWindow

(* SeqModulus, half of it and the windows, as the assumptions relate them. *)
LEMMA Widths ==
    /\ SeqModulus \in Nat /\ SeqModulus > 1 /\ SeqModulus \div 2 \in Nat
    /\ SeqModulus = 2 * (SeqModulus \div 2)
    /\ positiveWindow \in Nat /\ negativeWindow = positiveWindow
    /\ positiveWindow < SeqModulus \div 2
    /\ SendWindow \in Nat /\ SendWindow <= positiveWindow
BY FarmAssumption, CopAssumption DEF positiveWindow, negativeWindow

(* The signed difference the state classes compute from N(S) and V(R) is the *)
(* true distance of the frame from the receiver.                             *)
LEMMA DiffIsDistance ==
    ASSUME NEW i \in Nat, NEW d \in Nat, vR = d % SeqModulus,
           i < d + SendWindow, d <= i + SendWindow
    PROVE  Diff(SequenceNumber(i)) = i - d
<1> DEFINE h == SeqModulus \div 2
<1>1. /\ SeqModulus \in Nat /\ SeqModulus > 1 /\ h \in Nat /\ SeqModulus = 2 * h
      /\ SendWindow \in Nat /\ SendWindow < h
  BY Widths
<1>2. (SequenceNumber(i) - vR) % SeqModulus = (i - d) % SeqModulus
  <2>1. ((i % SeqModulus) - (d % SeqModulus)) % SeqModulus = (i - d) % SeqModulus
    BY Widths, ModDiff, SeqModulus > 0, i \in Int, d \in Int
  <2> QED
    BY <2>1 DEF SequenceNumber
<1>3. i - d \in Int /\ -h < i - d /\ i - d < h
  BY <1>1
<1>4. (i - d) % SeqModulus = IF i - d >= 0 THEN i - d ELSE i - d + SeqModulus
  <2> HIDE DEF h
  <2>1. -SeqModulus < i - d /\ i - d < SeqModulus
    BY <1>1, <1>3
  <2> QED
    BY <1>1, <1>3, <2>1, ModSmall
<1> HIDE DEF h
<1>5. CASE i - d >= 0
  BY <1>1, <1>2, <1>3, <1>4, <1>5 DEF Diff, h
<1>6. CASE i - d < 0
  BY <1>1, <1>2, <1>3, <1>4, <1>6 DEF Diff, h
<1> QED
  BY <1>3, <1>5, <1>6

-----------------------------------------------------------------------------
(* What the machine's actions do to V(R), to the report and to the state. *)

LEMMA AcceptEffect ==
    ASSUME NEW ns \in SeqNumbers, OpenAccept(ns)
    PROVE  /\ FarmNext
           /\ Diff(ns) = 0
           /\ vR' = (vR + 1) % SeqModulus /\ clcw'.vRValue = vR'
           /\ currentState' = currentState
BY DEF OpenAccept, Report, FarmNext

LEMMA DiscardEffect ==
    ASSUME NEW ns \in SeqNumbers, DiscardAD(ns),
           -negativeWindow <= Diff(ns), Diff(ns) < positiveWindow, Diff(ns) \in Int,
           currentState # "lockout"
    PROVE  /\ FarmNext
           /\ vR' = vR /\ clcw'.vRValue = vR'
           /\ currentState' # "lockout"
<1>1. FarmNext
  BY DEF FarmNext
<1>2. vR' = vR /\ clcw'.vRValue = vR'
  BY DEF DiscardAD, OpenPositiveWindow, OpenNegativeWindow, OpenLockout, WaitDiscard,
         WaitLockout, LockoutDiscard, Report
<1>3. ~OpenLockout(ns) /\ ~WaitLockout(ns)
  BY Widths DEF OpenLockout, WaitLockout, InPositiveWindow, InNegativeWindow
<1>4. currentState' # "lockout"
  BY <1>3 DEF DiscardAD, OpenPositiveWindow, OpenNegativeWindow, WaitDiscard, LockoutDiscard
<1> QED
  BY <1>1, <1>2, <1>4

LEMMA TypeBEffect ==
    ASSUME AcceptBD \/ BCUnlock, currentState # "lockout"
    PROVE  /\ FarmNext
           /\ vR' = vR /\ clcw'.vRValue = vR'
           /\ currentState' # "lockout"
<1>1. FarmNext
  BY DEF FarmNext
<1>2. \E f : Report(f, vR, CountB)
  BY DEF AcceptBD, BCUnlock, UnlockInOpen, UnlockInWait, UnlockInLockout
<1>3. vR' = vR /\ clcw'.vRValue = vR'
  BY <1>2 DEF Report
<1>4. currentState' # "lockout"
  BY DEF AcceptBD, BCUnlock, UnlockInOpen, UnlockInWait, UnlockInLockout
<1> QED
  BY <1>1, <1>3, <1>4

(* Removing the oldest frame keeps what is said of the frames under way. *)
LEMMA DropHead ==
    ASSUME CopInv, uplink # <<>>, uplink' = Tail(uplink),
           nextSend' = nextSend, accepted' = accepted
    PROVE  uplink' \in Seq(Frames) /\ LinkInWindow'
<1>1. /\ uplink \in Seq(Frames) /\ uplink' \in Seq(Frames)
      /\ Len(uplink) \in Nat /\ Len(uplink') = Len(uplink) - 1
      /\ \A k \in 1..Len(uplink') : uplink'[k] = uplink[k + 1]
  BY DEF CopInv, CopTypeOK
<1>2. \A k \in 1..Len(uplink') : k + 1 \in 1..Len(uplink)
  BY <1>1
<1>3. /\ \A k \in 1..Len(uplink) :
            IsAD(k) => uplink[k].idx < nextSend /\ Delivered <= uplink[k].idx + SendWindow
      /\ \A j, k \in 1..Len(uplink) :
            IsAD(j) /\ IsAD(k) /\ j < k => uplink[j].idx < uplink[k].idx + SendWindow
  BY DEF CopInv, LinkInWindow
<1>4. \A k \in 1..Len(uplink') :
         IsAD(k)' => uplink'[k].idx < nextSend' /\ Delivered' <= uplink'[k].idx + SendWindow
  BY <1>1, <1>2, <1>3 DEF IsAD, Delivered
<1>5. \A j, k \in 1..Len(uplink') :
         IsAD(j)' /\ IsAD(k)' /\ j < k => uplink'[j].idx < uplink'[k].idx + SendWindow
  BY <1>1, <1>2, <1>3 DEF IsAD
<1> QED
  BY <1>1, <1>4, <1>5 DEF LinkInWindow

(* A frame the ground may send keeps it too. *)
LEMMA AppendFrame ==
    ASSUME CopInv, NEW f \in Frames, uplink' = Append(uplink, f),
           nextSend' \in Nat, nextSend <= nextSend', accepted' = accepted,
           f.kind = "AD" => acked <= f.idx /\ f.idx < nextSend'
    PROVE  uplink' \in Seq(Frames) /\ LinkInWindow'
<1>1. /\ uplink \in Seq(Frames) /\ uplink' \in Seq(Frames)
      /\ Len(uplink) \in Nat /\ Len(uplink') = Len(uplink) + 1
      /\ \A k \in 1..Len(uplink) : uplink'[k] = uplink[k] /\ uplink[k].idx \in Nat
      /\ uplink'[Len(uplink) + 1] = f
      /\ f.idx \in Nat
  <2>1. uplink \in Seq(Frames)
    BY DEF CopInv, CopTypeOK
  <2>2. /\ uplink' \in Seq(Frames)
        /\ Len(uplink) \in Nat /\ Len(uplink') = Len(uplink) + 1
        /\ \A k \in 1..Len(uplink) : uplink'[k] = uplink[k] /\ uplink[k] \in Frames
        /\ uplink'[Len(uplink) + 1] = f
    BY <2>1
  <2> QED
    BY <2>1, <2>2 DEF Frames
<1>2. /\ nextSend \in Nat /\ acked \in Nat /\ Delivered \in Nat /\ SendWindow \in Nat
      /\ Delivered <= nextSend /\ nextSend <= acked + SendWindow
      /\ Delivered' = Delivered
  BY Widths DEF CopInv, CopTypeOK, CountsInWindow, Delivered
<1>3. \A k \in 1..Len(uplink') : k \in 1..Len(uplink) \/ k = Len(uplink) + 1
  BY <1>1
<1>4. \A k \in 1..Len(uplink') :
         IsAD(k)' => uplink'[k].idx < nextSend' /\ Delivered' <= uplink'[k].idx + SendWindow
  BY <1>1, <1>2, <1>3 DEF CopInv, LinkInWindow, IsAD
<1>5. \A j, k \in 1..Len(uplink') :
         IsAD(j)' /\ IsAD(k)' /\ j < k => uplink'[j].idx < uplink'[k].idx + SendWindow
  <2> SUFFICES ASSUME NEW j \in 1..Len(uplink'), NEW k \in 1..Len(uplink'),
                      IsAD(j)', IsAD(k)', j < k
               PROVE  uplink'[j].idx < uplink'[k].idx + SendWindow
    OBVIOUS
  <2>1. j \in 1..Len(uplink)
    BY <1>1
  <2>2. uplink[j].idx < nextSend
    BY <1>1, <2>1 DEF CopInv, LinkInWindow, IsAD
  <2>3. CASE k = Len(uplink) + 1
    BY <1>1, <1>2, <2>1, <2>2, <2>3 DEF IsAD
  <2>4. CASE k \in 1..Len(uplink)
    BY <1>1, <2>1, <2>4 DEF CopInv, LinkInWindow, IsAD
  <2> QED
    BY <1>3, <2>3, <2>4
<1> QED
  BY <1>1, <1>4, <1>5 DEF LinkInWindow

-----------------------------------------------------------------------------
(* An arriving AD frame is as far from the receiver as its N(S) says. *)
LEMMA HeadDistance ==
    ASSUME CopInv, uplink # <<>>, Head(uplink).kind = "AD"
    PROVE  /\ Head(uplink).idx \in Nat
           /\ Head(uplink).idx < nextSend
           /\ SequenceNumber(Head(uplink).idx) \in SeqNumbers
           /\ Diff(SequenceNumber(Head(uplink).idx)) = Head(uplink).idx - Delivered
           /\ -negativeWindow <= Head(uplink).idx - Delivered
           /\ Head(uplink).idx - Delivered < positiveWindow
<1> DEFINE i == Head(uplink).idx
<1>1. uplink \in Seq(Frames) /\ 1 \in 1..Len(uplink) /\ Head(uplink) = uplink[1]
  BY DEF CopInv, CopTypeOK
<1>2. uplink[1] \in Frames
  BY <1>1
<1>3. i \in Nat /\ i < nextSend /\ Delivered <= i + SendWindow
  BY <1>1, <1>2 DEF CopInv, LinkInWindow, IsAD, Frames
<1>4. /\ Delivered \in Nat /\ acked \in Nat /\ nextSend \in Nat
      /\ acked <= Delivered /\ nextSend <= acked + SendWindow
      /\ vR = Delivered % SeqModulus
  BY DEF CopInv, CopTypeOK, CountsInWindow, Delivered
<1> HIDE DEF i
<1>5. i < Delivered + SendWindow
  BY <1>3, <1>4, Widths
<1>6. Diff(SequenceNumber(i)) = i - Delivered
  BY <1>3, <1>4, <1>5, DiffIsDistance
<1>7. SequenceNumber(i) \in SeqNumbers
  BY <1>3, Widths, ModRange DEF SequenceNumber, SeqNumbers
<1>8. -negativeWindow <= i - Delivered /\ i - Delivered < positiveWindow
  BY <1>3, <1>4, <1>5, Widths
<1> QED
  BY <1>3, <1>6, <1>7, <1>8 DEF i

(* Steps that leave the counts and the machine's V(R) as they are. *)
LEMMA CountsKept ==
    ASSUME CopInv, nextSend' = nextSend, acked' = acked, report' = report,
           accepted' = accepted, vR' = vR, clcw'.vRValue = vR'
    PROVE  CountsInWindow'
BY DEF CopInv, CountsInWindow, Delivered

(* Accepting the frame at the head of the link. *)
LEMMA AcceptStep ==
    ASSUME CopInv, DeliverAccept
    PROVE  CopInv' /\ Uplink!Forward
<1> DEFINE i == Head(uplink).idx
<1>1. /\ i \in Nat /\ i < nextSend /\ SequenceNumber(i) \in SeqNumbers
      /\ Diff(SequenceNumber(i)) = i - Delivered
  BY HeadDistance DEF DeliverAccept
<1>2. /\ FarmNext /\ Diff(SequenceNumber(i)) = 0
      /\ vR' = (vR + 1) % SeqModulus /\ clcw'.vRValue = vR'
      /\ currentState' = currentState
  BY <1>1, AcceptEffect DEF DeliverAccept
<1>3. /\ accepted \in Seq(Nat) /\ Delivered \in Nat /\ uplink \in Seq(Frames)
      /\ nextSend \in Nat /\ acked \in Nat /\ report \in SeqNumbers
  BY DEF CopInv, CopTypeOK, Delivered
<1>4. i = Delivered
  BY <1>1, <1>2, <1>3
<1>5. /\ accepted' = Append(accepted, Delivered) /\ accepted' \in Seq(Nat)
      /\ Delivered' = Delivered + 1
      /\ nextSend' = nextSend /\ acked' = acked /\ report' = report
  BY <1>3, <1>4 DEF DeliverAccept, Delivered, groundVars
<1>6. /\ uplink # <<>> /\ uplink' = Tail(uplink) /\ uplink' \in Seq(Frames)
      /\ Len(uplink) \in Nat /\ Len(uplink') = Len(uplink) - 1
      /\ Head(uplink) = uplink[1] /\ 1 \in 1..Len(uplink)
      /\ \A k \in 1..Len(uplink') : uplink'[k] = uplink[k + 1]
      /\ Head(uplink).kind = "AD"
  BY <1>3 DEF DeliverAccept
<1>7. CopTypeOK'
  <2>1. FarmTypeOK'
    BY <1>2, FarmTypeStep DEF CopInv, CopTypeOK
  <2>2. report' \in SeqNumbers /\ nextSend' \in Nat /\ acked' \in Nat
    BY <1>3, <1>5
  <2> QED
    BY <1>5, <1>6, <2>1, <2>2 DEF CopTypeOK, SeqNumbers
<1>8. NoSpuriousLockout'
  BY <1>2 DEF CopInv, NoSpuriousLockout
<1>9. CountsInWindow'
  <2>1. vR' = (Delivered + 1) % SeqModulus
    <3>1. vR = Delivered % SeqModulus
      BY DEF CopInv, CountsInWindow
    <3>2. ((Delivered % SeqModulus) + 1) % SeqModulus = (Delivered + 1) % SeqModulus
      BY <1>3, Widths, ModSucc
    <3> QED
      BY <1>2, <3>1, <3>2
  <2>2. /\ acked <= Delivered + 1 /\ Delivered + 1 <= nextSend
        /\ nextSend <= acked + SendWindow
    BY <1>1, <1>3, <1>4 DEF CopInv, CountsInWindow
  <2>3. \E r \in acked..(Delivered + 1) : report = r % SeqModulus
    BY <1>3 DEF CopInv, CountsInWindow
  <2> QED
    BY <1>2, <1>5, <2>1, <2>2, <2>3 DEF CountsInWindow
<1>10. LinkInWindow'
  <2>1. /\ \A k \in 1..Len(uplink) : IsAD(k) => uplink[k].idx < nextSend
        /\ \A j, k \in 1..Len(uplink) :
              IsAD(j) /\ IsAD(k) /\ j < k => uplink[j].idx < uplink[k].idx + SendWindow
    BY DEF CopInv, LinkInWindow
  <2>2. \A k \in 1..Len(uplink) : uplink[k].idx \in Nat
    <3>1. \A k \in 1..Len(uplink) : uplink[k] \in Frames
      BY <1>3
    <3> QED
      BY <3>1 DEF Frames
  <2>3. \A k \in 1..Len(uplink) : 1 < k /\ IsAD(k) => Delivered < uplink[k].idx + SendWindow
    BY <1>4, <1>6, <2>1 DEF IsAD
  <2>4. \A k \in 1..Len(uplink') : k + 1 \in 1..Len(uplink) /\ 1 < k + 1
    BY <1>6
  <2>5. \A k \in 1..Len(uplink') :
          IsAD(k)' => uplink'[k].idx < nextSend' /\ Delivered' <= uplink'[k].idx + SendWindow
    BY <1>3, <1>5, <1>6, <2>1, <2>2, <2>3, <2>4, Widths DEF IsAD
  <2>6. \A j, k \in 1..Len(uplink') :
          IsAD(j)' /\ IsAD(k)' /\ j < k => uplink'[j].idx < uplink'[k].idx + SendWindow
    BY <1>6, <2>1, <2>4 DEF IsAD
  <2> QED
    BY <2>5, <2>6 DEF LinkInWindow
<1>11. Uplink!Forward
  BY <1>1, <1>3, <1>4, <1>5 DEF Uplink!Forward, Delivered
<1> QED
  BY <1>7, <1>8, <1>9, <1>10, <1>11 DEF CopInv

(* Any other step at the link's receiving end. *)
LEMMA NoAcceptStep ==
    ASSUME CopInv, DeliverDiscard \/ DeliverB \/ Lose
    PROVE  CopInv' /\ UNCHANGED <<nextSend, accepted>>
<1>1. /\ uplink # <<>> /\ uplink' = Tail(uplink)
      /\ nextSend' = nextSend /\ acked' = acked /\ report' = report /\ accepted' = accepted
  BY DEF DeliverDiscard, DeliverB, Lose, groundVars
<1>2. /\ FarmTypeOK' /\ currentState' # "lockout"
      /\ vR' = vR /\ clcw'.vRValue = vR'
  <2>0. FarmTypeOK /\ currentState # "lockout" /\ Len(accepted) \in Nat /\ clcw.vRValue = vR
    BY DEF CopInv, CopTypeOK, NoSpuriousLockout, CountsInWindow
  <2>1. CASE DeliverDiscard
    <3> DEFINE i == Head(uplink).idx
    <3>1. /\ i \in Nat /\ SequenceNumber(i) \in SeqNumbers
          /\ Diff(SequenceNumber(i)) = i - Delivered
          /\ -negativeWindow <= i - Delivered /\ i - Delivered < positiveWindow
      BY <2>1, HeadDistance DEF DeliverDiscard
    <3>2. Diff(SequenceNumber(i)) \in Int
      BY <3>1, <2>0 DEF Delivered
    <3>3. DiscardAD(SequenceNumber(i))
      BY <2>1 DEF DeliverDiscard
    <3> HIDE DEF i
    <3>4. /\ FarmNext /\ vR' = vR /\ clcw'.vRValue = vR'
          /\ currentState' # "lockout"
      BY <2>0, <3>1, <3>2, <3>3, DiscardEffect
    <3> QED
      BY <2>0, <3>4, FarmTypeStep
  <2>2. CASE DeliverB
    BY <2>0, <2>2, TypeBEffect, FarmTypeStep DEF DeliverB
  <2>3. CASE Lose
    <3>1. UNCHANGED farmVars
      BY <2>3 DEF Lose
    <3> QED
      BY <2>0, <3>1, FarmTypeStep DEF farmVars
  <2> QED
    BY <2>1, <2>2, <2>3
<1>3. uplink' \in Seq(Frames) /\ LinkInWindow'
  BY <1>1, DropHead
<1>4. CountsInWindow'
  BY <1>1, <1>2, CountsKept
<1>5. CopTypeOK'
  BY <1>1, <1>2, <1>3 DEF CopInv, CopTypeOK, SeqNumbers
<1> QED
  BY <1>1, <1>2, <1>3, <1>4, <1>5 DEF CopInv, NoSpuriousLockout

(* The ground's transmissions. *)
LEMMA TransmitStep ==
    ASSUME CopInv, NEW f \in Frames, Transmit(f), nextSend' \in Nat, nextSend <= nextSend',
           nextSend' <= acked + SendWindow,
           f.kind = "AD" => acked <= f.idx /\ f.idx < nextSend'
    PROVE  CopInv' /\ accepted' = accepted
<1>1. /\ uplink' = Append(uplink, f) /\ UNCHANGED farmVars
      /\ acked' = acked /\ report' = report /\ accepted' = accepted
  BY DEF Transmit
<1>2. /\ FarmTypeOK' /\ NoSpuriousLockout' /\ vR' = vR /\ clcw' = clcw
  BY <1>1, FarmTypeStep DEF CopInv, CopTypeOK, NoSpuriousLockout, farmVars
<1>3. uplink' \in Seq(Frames) /\ LinkInWindow'
  BY <1>1, AppendFrame
<1>4. CountsInWindow'
  <2>1. acked \in Nat /\ nextSend \in Nat /\ Delivered \in Nat /\ Delivered' = Delivered
    BY <1>1 DEF CopInv, CopTypeOK, Delivered
  <2> QED
    BY <1>1, <1>2, <2>1 DEF CopInv, CountsInWindow
<1>5. CopTypeOK'
  BY <1>1, <1>2, <1>3 DEF CopInv, CopTypeOK, SeqNumbers
<1> QED
  BY <1>1, <1>2, <1>3, <1>4, <1>5 DEF CopInv

(* Reading a CLCW and acknowledging by it. *)
LEMMA OtherStep ==
    ASSUME CopInv, SampleClcw \/ Acknowledge
    PROVE  CopInv' /\ UNCHANGED <<nextSend, accepted>>
<1>0. /\ uplink' = uplink /\ nextSend' = nextSend /\ accepted' = accepted
      /\ Delivered' = Delivered
  BY DEF SampleClcw, Acknowledge, groundVars, Delivered
<1>1. /\ FarmTypeOK /\ currentState # "lockout" /\ clcw.vRValue = vR
      /\ acked \in Nat /\ nextSend \in Nat /\ report \in SeqNumbers /\ Delivered \in Nat
      /\ acked <= Delivered /\ Delivered <= nextSend /\ nextSend <= acked + SendWindow
      /\ vR = Delivered % SeqModulus /\ vR \in SeqNumbers
  BY DEF CopInv, CopTypeOK, FarmTypeOK, NoSpuriousLockout, CountsInWindow, Delivered
<1>2. /\ FarmTypeOK' /\ currentState' # "lockout" /\ vR' = vR /\ clcw'.vRValue = vR'
  <2>1. UNCHANGED farmVars
    BY DEF SampleClcw, Acknowledge
  <2> QED
    BY <1>1, <2>1, FarmTypeStep DEF farmVars
<1>3. LinkInWindow'
  BY <1>0 DEF CopInv, LinkInWindow, IsAD
<1>4. /\ acked' \in Nat /\ report' \in SeqNumbers
      /\ CountsInWindow'
  <2>1. PICK r \in acked..Delivered : report = r % SeqModulus
    BY DEF CopInv, CountsInWindow
  <2>2. CASE SampleClcw
    BY <1>0, <1>1, <1>2, <2>2 DEF SampleClcw, CountsInWindow
  <2>3. CASE Acknowledge
    <3> DEFINE n == (report - acked) % SeqModulus
    <3>1. n = r - acked
      <4>1. r \in Nat /\ acked <= r /\ r <= Delivered
        BY <1>1, <2>1
      <4>2. r - acked < SeqModulus /\ r - acked \in Nat
        BY <1>1, <4>1, Widths
      <4>4. ((r % SeqModulus) - acked) % SeqModulus = (r - acked) % SeqModulus
        <5> DEFINE M == SeqModulus
                   q == r \div M
                   c == (r - acked) % M
                   k == (r - acked) \div M
        <5>1. M \in Nat /\ M > 0 /\ r - acked \in Int
          BY Widths, <4>2
        <5>2. r = M * q + (r % M) /\ q \in Int /\ r % M \in Int
          BY <4>1, <5>1, DivMod
        <5>3. r - acked = M * k + c /\ k \in Int /\ c \in 0..(M - 1)
          BY <5>1, DivMod
        <5> HIDE DEF M, q, c, k
        <5>4. (r % M) - acked = M * (k - q) + c /\ k - q \in Int /\ (r % M) - acked \in Int
          BY <1>1, <4>1, <5>1, <5>2, <5>3
        <5>5. ((r % M) - acked) % M = c
          BY <5>1, <5>3, <5>4, ModUnique
        <5> QED
          BY <5>5 DEF M, c
      <4>5. (r - acked) % SeqModulus = r - acked
        BY <4>2, Widths, ModSmall
      <4> QED
        BY <2>1, <4>4, <4>5
    <3>2. acked' = acked + n /\ report' = report
      BY <2>3 DEF Acknowledge
    <3> HIDE DEF n
    <3>3. acked' = r
      BY <1>1, <2>1, <3>1, <3>2
    <3>4. acked' \in Nat /\ acked <= acked' /\ acked' <= Delivered
      BY <1>1, <2>1, <3>3
    <3>5. nextSend' <= acked' + SendWindow
      <4>1. SendWindow \in Nat
        BY Widths
      <4>2. \A x, y, z \in Nat : z <= x + SendWindow /\ x <= y => z <= y + SendWindow
        BY <4>1
      <4>3. nextSend <= acked' + SendWindow
        BY <1>1, <3>4, <4>2
      <4> QED
        BY <1>0, <4>3
    <3>6. \E s \in acked'..Delivered : report' = s % SeqModulus
      BY <1>1, <2>1, <3>2, <3>3
    <3> QED
      BY <1>0, <1>1, <1>2, <3>2, <3>4, <3>5, <3>6 DEF CountsInWindow
  <2> QED
    BY <2>2, <2>3
<1>5. CopTypeOK'
  BY <1>0, <1>1, <1>2, <1>4 DEF CopInv, CopTypeOK, SeqNumbers
<1> QED
  BY <1>0, <1>2, <1>3, <1>4, <1>5 DEF CopInv, NoSpuriousLockout

(* Every step keeps the invariant, and is a step of the reliable uplink. *)
LEMMA CopStep ==
    CopInv /\ [CopNext]_copVars => CopInv' /\ [Uplink!UplinkNext]_<<nextSend, accepted>>
<1> SUFFICES ASSUME CopInv, [CopNext]_copVars
             PROVE  CopInv' /\ [Uplink!UplinkNext]_<<nextSend, accepted>>
  OBVIOUS
<1>0. /\ acked \in Nat /\ nextSend \in Nat /\ nextSend <= acked + SendWindow
      /\ SendWindow \in Nat /\ acked <= nextSend
  BY Widths DEF CopInv, CopTypeOK, CountsInWindow, Delivered
<1>1. CASE SendNew
  <2>1. /\ ADFrame(nextSend) \in Frames /\ nextSend' \in Nat /\ nextSend <= nextSend'
        /\ nextSend' <= acked + SendWindow
        /\ ADFrame(nextSend).idx = nextSend /\ nextSend < nextSend'
    BY <1>0, <1>1 DEF SendNew, ADFrame, Frames
  <2>2. CopInv' /\ accepted' = accepted
    BY <1>0, <1>1, <2>1, TransmitStep DEF SendNew
  <2> QED
    BY <1>1, <2>2 DEF SendNew, Uplink!UplinkNext, Uplink!HandOver
<1>2. ASSUME NEW i \in acked..(nextSend - 1), Resend(i)
      PROVE  CopInv' /\ UNCHANGED <<nextSend, accepted>>
  <2>1. ADFrame(i) \in Frames /\ ADFrame(i).idx = i /\ acked <= i /\ i < nextSend
    BY <1>0 DEF ADFrame, Frames
  <2> QED
    BY <1>0, <1>2, <2>1, TransmitStep DEF Resend
<1>3. CASE SendOther(BDFrame) \/ SendOther(UnlockFrame)
  <2>1. /\ BDFrame \in Frames /\ BDFrame.kind # "AD"
        /\ UnlockFrame \in Frames /\ UnlockFrame.kind # "AD"
    BY DEF BDFrame, UnlockFrame, Frames
  <2> QED
    BY <1>0, <1>3, <2>1, TransmitStep DEF SendOther
<1>4. CASE SampleClcw \/ Acknowledge
  BY <1>4, OtherStep
<1>5. CASE DeliverDiscard \/ DeliverB \/ Lose
  BY <1>5, NoAcceptStep
<1>6. CASE DeliverAccept
  BY <1>6, AcceptStep DEF Uplink!UplinkNext
<1>7. CASE UNCHANGED copVars
  <2>1. /\ UNCHANGED farmVars /\ UNCHANGED <<nextSend, acked, report, uplink, accepted>>
    BY <1>7 DEF copVars, groundVars
  <2>2. CopTypeOK' /\ NoSpuriousLockout'
    BY <2>1 DEF farmVars, CopInv, CopTypeOK, FarmTypeOK, NoSpuriousLockout
  <2>3. CountsInWindow' /\ LinkInWindow'
    BY <2>1 DEF farmVars, CopInv, CountsInWindow, LinkInWindow, Delivered, IsAD
  <2> QED
    BY <2>1, <2>2, <2>3 DEF CopInv
<1> QED
  BY <1>1, <1>2, <1>3, <1>4, <1>5, <1>6, <1>7 DEF CopNext

(* The invariant holds at the start. *)
LEMMA CopStart == CopInit => CopInv /\ Uplink!UplinkInit
<1> SUFFICES ASSUME CopInit
             PROVE  CopInv /\ Uplink!UplinkInit
  OBVIOUS
<1>1. FarmTypeOK /\ currentState = "open" /\ vR = 0 /\ clcw.vRValue = 0
  BY FarmAssumption
  DEF CopInit, FarmInit, FarmTypeOK, States, SeqNumbers, Registers, Flags, Flag
<1>2. 0 % SeqModulus = 0 /\ 0 \in SeqNumbers
  BY Widths, ModSmall DEF SeqNumbers
<1>3. Delivered = 0 /\ Len(uplink) = 0 /\ accepted \in Seq(Nat) /\ uplink \in Seq(Frames)
  BY DEF CopInit, Delivered
<1>4. CopTypeOK /\ NoSpuriousLockout
  BY <1>1, <1>2, <1>3 DEF CopInit, CopTypeOK, NoSpuriousLockout
<1>5. CountsInWindow
  BY <1>1, <1>2, <1>3, Widths DEF CopInit, CountsInWindow
<1>6. LinkInWindow
  BY <1>3 DEF LinkInWindow
<1> QED
  BY <1>4, <1>5, <1>6 DEF CopInv, CopInit, Uplink!UplinkInit

LEMMA CopInvariant == CopSpec => []CopInv
BY CopStart, CopStep, PTL DEF CopSpec

(* No loss, repetition or delay drives a ground that keeps its window into   *)
(* Lockout.                                                                  *)
THEOREM WindowSuffices == CopSpec => [](CopTypeOK /\ NoSpuriousLockout)
<1>1. CopInv => CopTypeOK /\ NoSpuriousLockout
  BY DEF CopInv
<1>2. QED
  BY <1>1, CopInvariant, PTL

(* What the ground counts as acknowledged has been forwarded, though the     *)
(* CLCW carries V(R) modulo the number width and may be old when it arrives. *)
THEOREM AcknowledgementsTrue == CopSpec => []AcknowledgedIsAccepted
<1>1. CopInv => AcknowledgedIsAccepted
  BY DEF CopInv, CountsInWindow, AcknowledgedIsAccepted, Delivered
<1>2. QED
  BY <1>1, CopInvariant, PTL

(* The uplink implements the reliable one: frames are forwarded once each,   *)
(* in the order the ground sent them.                                        *)
THEOREM UplinkIsReliable == CopSpec => InOrderOnce
<1>1. CopInit => Uplink!UplinkInit
  BY CopStart
<1>2. CopInv /\ [CopNext]_copVars => [Uplink!UplinkNext]_(Uplink!uplinkVars)
  BY CopStep DEF Uplink!uplinkVars
<1>3. QED
  BY <1>1, <1>2, CopInvariant, PTL DEF CopSpec, InOrderOnce, Uplink!UplinkSafe

-----------------------------------------------------------------------------
(* MAP packet extraction (module MapExtraction).  First the totals of sizes:  *)
(* Total is a recursive function, so that it exists and what it returns has   *)
(* to be shown by an induction over its length.                               *)

Sums(w, n, g) == g = [k \in 0..n |-> IF k = 0 THEN 0 ELSE g[k - 1] + w[k]]

\* The sums that Total is made of exist.
LEMMA SumsExist ==
  ASSUME NEW w \in Seq(Nat)
  PROVE  \E g \in [0..Len(w) -> Nat] : Sums(w, Len(w), g)
<1> DEFINE len == Len(w)
           S == { n \in Nat : n <= len => \E g \in [0..n -> Nat] : Sums(w, n, g) }
<1>1. len \in Nat /\ \A k \in 1..len : w[k] \in Nat
  BY LenProperties, ElementOfSeq
<1> HIDE DEF len
<1>2. 0 \in S
  <2> DEFINE g == [k \in 0..0 |-> 0]
  <2>1. g \in [0..0 -> Nat] /\ Sums(w, 0, g)
    BY DEF Sums
  <2>2. QED
    BY <2>1
<1>3. ASSUME NEW n \in S, n + 1 <= len
      PROVE  \E g \in [0..(n + 1) -> Nat] : Sums(w, n + 1, g)
  <2>1. PICK g \in [0..n -> Nat] : Sums(w, n, g)
    BY <1>1, <1>3
  <2> DEFINE h == [k \in 0..(n + 1) |-> IF k = n + 1 THEN g[n] + w[n + 1] ELSE g[k]]
  <2>2. n \in Nat /\ w[n + 1] \in Nat /\ g[n] \in Nat
    BY <1>1, <1>3
  <2>3. h \in [0..(n + 1) -> Nat]
    BY <2>2
  <2>4. ASSUME NEW k \in 0..(n + 1)
        PROVE  h[k] = IF k = 0 THEN 0 ELSE h[k - 1] + w[k]
    <3>1. CASE k = n + 1
      BY <2>2, <3>1
    <3>2. CASE k # n + 1
      BY <2>1, <2>2, <3>2 DEF Sums
    <3>3. QED
      BY <3>1, <3>2
  <2>5. Sums(w, n + 1, h)
    BY <2>3, <2>4 DEF Sums
  <2>6. QED
    BY <2>3, <2>5
<1>4. S = Nat
  <2>1. \A n \in S : n + 1 \in S
    BY SMTT(30), <1>3
  <2>2. S \in SUBSET Nat
    OBVIOUS
  <2> HIDE DEF S
  <2>3. QED
    BY <1>2, <2>1, <2>2, SetOfNumbers
<1>5. QED
  BY <1>1, <1>4

(* Two sums of which one continues the other agree as far as both go. *)
LEMMA SumsAgree ==
  ASSUME NEW w \in Seq(Nat), NEW v \in Seq(Nat), Len(w) <= Len(v), \A k \in 1..Len(w) : v[k] = w[k],
         NEW g, Sums(w, Len(w), g), NEW h, Sums(v, Len(v), h)
  PROVE  \A n \in 0..Len(w) : g[n] = h[n]
<1> DEFINE len == Len(w)
           S == { n \in Nat : n <= len => g[n] = h[n] }
<1>1. len \in Nat /\ Len(v) \in Nat
  BY LenProperties
<1>2. 0 \in S
  BY <1>1 DEF Sums
<1>3. ASSUME NEW n \in S, n + 1 <= len
      PROVE  g[n + 1] = h[n + 1]
  <2>1. n \in Nat /\ g[n] = h[n] /\ v[n + 1] = w[n + 1] /\ n + 1 \in 0..len /\ n + 1 \in 0..Len(v) /\ n + 1 # 0
    BY <1>1, <1>3
  <2>2. g[n + 1] = g[n + 1 - 1] + w[n + 1] /\ h[n + 1] = h[n + 1 - 1] + v[n + 1]
    BY <2>1 DEF Sums
  <2>3. QED
    BY <2>1, <2>2
<1>4. S = Nat
  <2>1. \A n \in S : n + 1 \in S
    BY <1>3
  <2>2. S \in SUBSET Nat
    OBVIOUS
  <2> HIDE DEF S
  <2>3. QED
    BY <1>2, <2>1, <2>2, SetOfNumbers
<1>5. QED
  BY <1>1, <1>4

\* Total is the last of them.
LEMMA TotalIsSum ==
  ASSUME NEW w \in Seq(Nat)
  PROVE  \E g \in [0..Len(w) -> Nat] : Sums(w, Len(w), g) /\ Total(w) = g[Len(w)]
<1> DEFINE g == CHOOSE f : Sums(w, Len(w), f)
<1>1. Sums(w, Len(w), g)
  BY SumsExist
<1>2. Total(w) = g[Len(w)]
  BY DEF Total, Sums
<1>3. PICK h \in [0..Len(w) -> Nat] : Sums(w, Len(w), h)
  BY SumsExist
<1>4. QED
  BY <1>1, <1>2, <1>3, SumsAgree, LenProperties

\* Nothing has the size 0.
LEMMA TotalEmpty == Total(<<>>) = 0
<1>1. <<>> \in Seq(Nat) /\ Len(<<>>) = 0
  BY EmptySeq
<1>2. PICK g \in [0..0 -> Nat] : Sums(<<>>, 0, g) /\ Total(<<>>) = g[0]
  BY <1>1, TotalIsSum
<1>3. g[0] = 0
  BY <1>2 DEF Sums
<1>4. QED
  BY <1>2, <1>3

\* A total is a number.
LEMMA TotalType ==
  ASSUME NEW w \in Seq(Nat)
  PROVE  Total(w) \in Nat
<1>1. PICK g \in [0..Len(w) -> Nat] : Sums(w, Len(w), g) /\ Total(w) = g[Len(w)]
  BY TotalIsSum
<1>2. QED
  BY <1>1, LenProperties

\* One more adds its size.
LEMMA TotalAppend ==
  ASSUME NEW w \in Seq(Nat), NEW x \in Nat
  PROVE  Total(Append(w, x)) = Total(w) + x
<1> DEFINE v == Append(w, x)
           n == Len(w)
<1>1. /\ v \in Seq(Nat) /\ Len(v) = n + 1 /\ v[n + 1] = x /\ n \in Nat
      /\ \A k \in 1..n : v[k] = w[k]
  BY AppendProperties, LenProperties
<1>2. PICK g \in [0..n -> Nat] : Sums(w, n, g) /\ Total(w) = g[n]
  BY TotalIsSum
<1>3. PICK h \in [0..(n + 1) -> Nat] : Sums(v, n + 1, h) /\ Total(v) = h[n + 1]
  BY <1>1, TotalIsSum
<1> HIDE DEF v
<1>4. h[n] = g[n]
  BY SMTT(30), <1>1, <1>2, <1>3, SumsAgree
<1> HIDE DEF n
<1>5. h[n + 1] = h[n + 1 - 1] + v[n + 1]
  BY <1>1, <1>3 DEF Sums
<1>6. QED
  BY <1>1, <1>2, <1>3, <1>4, <1>5 DEF v

\* The total of one is its size.
LEMMA TotalOne ==
  ASSUME NEW x \in Nat
  PROVE  Total(<<x>>) = x
<1> DEFINE e == <<>>
<1>1. e \in Seq(Nat) /\ Append(e, x) = <<x>>
  OBVIOUS
<1>2. Total(e) = 0
  BY TotalEmpty
<1> HIDE DEF e
<1>3. Total(Append(e, x)) = Total(e) + x
  BY <1>1, TotalAppend
<1>4. QED
  BY <1>1, <1>2, <1>3

\* The first ones are not larger than all of them.
LEMMA TotalOfFirst ==
  ASSUME NEW v \in Seq(Nat), NEW m \in 0..Len(v)
  PROVE  /\ [k \in 1..m |-> v[k]] \in Seq(Nat)
         /\ Total([k \in 1..m |-> v[k]]) <= Total(v)
<1> DEFINE w == [k \in 1..m |-> v[k]]
           len == Len(v)
<1>1. len \in Nat /\ m \in Nat /\ m <= len /\ \A k \in 1..len : v[k] \in Nat
  BY LenProperties, ElementOfSeq
<1>2. w \in Seq(Nat) /\ Len(w) = m /\ \A k \in 1..m : v[k] = w[k]
  <2>1. \A k \in 1..m : v[k] \in Nat
    BY <1>1
  <2>2. QED
    BY <1>1, <2>1, IsASeq
<1> HIDE DEF w
<1>3. PICK g \in [0..m -> Nat] : Sums(w, m, g) /\ Total(w) = g[m]
  BY <1>2, TotalIsSum
<1>4. PICK h \in [0..len -> Nat] : Sums(v, len, h) /\ Total(v) = h[len]
  BY TotalIsSum
<1>5. Total(w) = h[m]
  BY <1>1, <1>2, <1>3, <1>4, SumsAgree
<1> HIDE DEF len
<1> DEFINE S == { n \in Nat : m + n <= len => h[m] <= h[m + n] }
<1>6. S = Nat
  <2>1. 0 \in S
    BY <1>1
  <2>2. ASSUME NEW n \in S, m + n + 1 <= len
        PROVE  h[m] <= h[m + (n + 1)]
    <3>1. n \in Nat /\ m + n + 1 \in 0..len /\ m + n + 1 # 0 /\ (m + n + 1) - 1 = m + n /\ h[m] <= h[m + n]
      BY <1>1, <2>2
    <3>2. h[m + n + 1] = h[(m + n + 1) - 1] + v[m + n + 1]
      BY <1>4, <3>1 DEF Sums
    <3>3. h[m] \in Nat /\ h[m + n] \in Nat /\ v[m + n + 1] \in Nat
      BY <1>1, <1>4, <3>1
    <3>4. QED
      BY <3>1, <3>2, <3>3
  <2>3. \A n \in S : n + 1 \in S
    BY <1>1, <2>2
  <2>4. S \in SUBSET Nat
    OBVIOUS
  <2> HIDE DEF S
  <2>5. QED
    BY <2>1, <2>3, <2>4, SetOfNumbers
<1>7. h[m] <= h[len]
  <2>1. len - m \in S
    <3>1. len - m \in Nat
      BY <1>1
    <3> HIDE DEF S
    <3>2. QED
      BY <1>6, <3>1
  <2>2. QED
    BY <1>1, <2>1
<1>8. QED
  BY <1>2, <1>4, <1>5, <1>7 DEF w

-----------------------------------------------------------------------------
(* The inductive invariant.  Nothing is in the buffer or forwarded that has   *)
(* not been sent yet; the buffer is in order and, while its packet goes on,   *)
(* later than all that was forwarded; and of a packet that fits, what has     *)
(* been sent is in the buffer, until the packet is forwarded or dropped.      *)

\* When out has been sent, and of its last packet the first n portions, the
\* portion is not in a frame yet to come.
Arrived(out, n, d) ==
    /\ d.packet \in 1..Len(out) /\ d.portion \in 1..Len(out[d.packet])
    /\ d.packet = Len(out) => d.portion <= n

SentOK ==
    /\ \A p \in 1..Len(sent) : Len(sent[p]) >= 1
    /\ Idle \/ PortionsToSend > 1

ArrivedOK ==
    /\ \A i \in 1..Len(packetBuffer) : Arrived(sent, portion, packetBuffer[i])
    /\ \A i \in 1..Len(forwarded) : \A k \in 1..Len(forwarded[i]) : Arrived(sent, portion, forwarded[i][k])

\* What is in the buffer is in order.  While the packet goes on it is later than
\* all that was forwarded; otherwise it will not be used.
BufferOrder ==
    /\ \A i, j \in 1..Len(packetBuffer) : i < j => Precedes(packetBuffer[i], packetBuffer[j])
    /\ ExpectsMore => \A i \in 1..Len(forwarded) : \A k \in 1..Len(forwarded[i]) :
                         \A l \in 1..Len(packetBuffer) : Precedes(forwarded[i][k], packetBuffer[l])

Accounted(p) == (Whole(p) \in Range(forwarded)) # (p \in dropped)

\* A packet that fits is in the buffer as far as it has been sent, and settled
\* once it is complete.
WholeOK ==
    /\ \A p \in dropped : p < Len(sent) \/ Idle
    /\ ~bypass =>
        /\ \A p \in 1..Len(sent) : (p < Len(sent) \/ Idle) /\ Fits(p) => Accounted(p)
        /\ ~Idle /\ portion > 0 /\ Fits(Current) =>
              ExpectsMore /\ packetBuffer = [k \in 1..portion |-> Portion(Current, k)]

MapInv ==
    /\ MapTypeOK /\ SentOK /\ ArrivedOK /\ BufferInBounds
    /\ PortionsOnceInOrder /\ BufferOrder /\ WholeOK

-----------------------------------------------------------------------------
(* Sizes of portions *)

SizesIn(out, q) == [k \in 1..Len(q) |-> out[q[k].packet][q[k].portion]]

Within(out, d) == d.packet \in 1..Len(out) /\ d.portion \in 1..Len(out[d.packet])

\* The sizes of portions that exist are numbers.
LEMMA SizesType ==
  ASSUME NEW out \in Seq(Seq(Nat)), NEW q \in Seq(PortionsOf), \A k \in 1..Len(q) : Within(out, q[k])
  PROVE  SizesIn(out, q) \in Seq(Nat) /\ Len(SizesIn(out, q)) = Len(q)
<1>1. Len(q) \in Nat
  BY LenProperties
<1>2. ASSUME NEW k \in 1..Len(q)
      PROVE  out[q[k].packet][q[k].portion] \in Nat
  <2>1. out[q[k].packet] \in Seq(Nat)
    BY ElementOfSeq DEF Within
  <2>2. QED
    BY <2>1, ElementOfSeq DEF Within
<1>3. QED
  BY <1>1, <1>2, IsASeq DEF SizesIn

\* The sizes when a portion is added.
LEMMA SizesAppend ==
  ASSUME NEW out \in Seq(Seq(Nat)), NEW q \in Seq(PortionsOf), \A k \in 1..Len(q) : Within(out, q[k]),
         NEW d \in PortionsOf, Within(out, d)
  PROVE  /\ out[d.packet][d.portion] \in Nat
         /\ SizesIn(out, Append(q, d)) = Append(SizesIn(out, q), out[d.packet][d.portion])
<1> DEFINE r == Append(q, d)
           x == out[d.packet][d.portion]
           s == SizesIn(out, q)
           t == SizesIn(out, r)
<1>1. /\ r \in Seq(PortionsOf) /\ Len(r) = Len(q) + 1 /\ r[Len(q) + 1] = d /\ Len(q) \in Nat
      /\ \A k \in 1..Len(q) : r[k] = q[k]
  BY AppendProperties, LenProperties
<1>2. \A k \in 1..Len(r) : Within(out, r[k])
  BY <1>1
<1>3. s \in Seq(Nat) /\ Len(s) = Len(q) /\ t \in Seq(Nat) /\ Len(t) = Len(q) + 1
  BY <1>1, <1>2, SizesType
<1>4. x \in Nat
  <2>1. out[d.packet] \in Seq(Nat)
    BY ElementOfSeq DEF Within
  <2>2. QED
    BY <2>1, ElementOfSeq DEF Within
<1>5. \A k \in 1..Len(q) : t[k] = s[k]
  BY <1>1 DEF SizesIn
<1>6. t[Len(q) + 1] = x
  BY <1>1 DEF SizesIn
<1> HIDE DEF s, t, r, x
<1>7. /\ Append(s, x) \in Seq(Nat) /\ Len(Append(s, x)) = Len(q) + 1 /\ Append(s, x)[Len(q) + 1] = x
      /\ \A k \in 1..Len(q) : Append(s, x)[k] = s[k]
  BY <1>3, <1>4, AppendProperties
<1>8. \A k \in 1..(Len(q) + 1) : t[k] = Append(s, x)[k]
  BY SMTT(30), <1>1, <1>5, <1>6, <1>7
<1>9. t = Append(s, x)
  BY <1>3, <1>7, <1>8, SeqEqual
<1>10. QED
  BY <1>4, <1>9 DEF r, s, t, x

Extends(new, old) == Len(old) <= Len(new) /\ \A p \in 1..Len(old) : new[p] = old[p]

\* What has been sent keeps its size.
LEMMA SizesStay ==
  ASSUME NEW out, NEW new, Extends(new, out), NEW q, \A k \in 1..Len(q) : Within(out, q[k])
  PROVE  SizesIn(new, q) = SizesIn(out, q)
BY DEF SizesIn, Within, Extends

\* What has arrived stays arrived.
LEMMA ArrivedLater ==
  ASSUME NEW out, NEW new, NEW n, NEW m, Extends(new, out), Len(out) \in Nat, Len(new) \in Nat,
         Len(new) # Len(out) \/ (n \in Nat /\ m \in Nat /\ n <= m),
         NEW d \in PortionsOf, Arrived(out, n, d)
  PROVE  Arrived(new, m, d)
BY DEF Extends, Arrived, PortionsOf

\* The sizes of a whole packet are those it was sent with.
LEMMA SizesOfWhole ==
  ASSUME NEW out \in Seq(Seq(Nat)), NEW p \in 1..Len(out)
  PROVE  /\ \A m \in 0..Len(out[p]) : SizesIn(out, [k \in 1..m |-> Portion(p, k)]) = [k \in 1..m |-> out[p][k]]
         /\ SizesIn(out, [k \in 1..Len(out[p]) |-> Portion(p, k)]) = out[p]
<1>1. out[p] \in Seq(Nat) /\ Len(out[p]) \in Nat
  BY ElementOfSeq, LenProperties
<1>2. ASSUME NEW n \in 0..Len(out[p])
      PROVE  SizesIn(out, [k \in 1..n |-> Portion(p, k)]) = [k \in 1..n |-> out[p][k]]
  <2> DEFINE q == [k \in 1..n |-> Portion(p, k)]
  <2>1. Len(q) = n
    BY <1>1
  <2>2. \A k \in 1..n : q[k].packet = p /\ q[k].portion = k
    BY DEF Portion
  <2>3. QED
    BY <2>1, <2>2 DEF SizesIn
<1>3. out[p] = [k \in 1..Len(out[p]) |-> out[p][k]]
  BY <1>1, LenProperties
<1>4. SizesIn(out, [k \in 1..Len(out[p]) |-> Portion(p, k)]) = out[p]
  <2>1. Len(out[p]) \in 0..Len(out[p])
    BY <1>1
  <2>2. SizesIn(out, [k \in 1..Len(out[p]) |-> Portion(p, k)]) = [k \in 1..Len(out[p]) |-> out[p][k]]
    BY <1>2, <2>1
  <2>3. QED
    BY <1>3, <2>2
<1>5. QED
  BY <1>2, <1>4

\* A packet fits if the total of its sizes does.
LEMMA FitsIsTotal ==
  ASSUME MapTypeOK, NEW p \in 1..Len(sent)
  PROVE  Fits(p) <=> Total(sent[p]) <= MaxPacketSize
<1> DEFINE w == [k \in 1..Len(sent[p]) |-> Portion(p, k)]
<1>1. sent \in Seq(Seq(Nat)) /\ sent[p] \in Seq(Nat) /\ Len(sent[p]) \in Nat
  BY ElementOfSeq, LenProperties DEF MapTypeOK
<1>2. SizesIn(sent, w) = sent[p]
  BY <1>1, SizesOfWhole
<1>3. SizeOfAll(w) = Total(SizesIn(sent, w))
  BY DEF SizeOfAll, SizeOf, SizesIn
<1>4. QED
  BY <1>2, <1>3 DEF Fits, Whole

\* A packet that was there before is the same packet, and fits or not as before.
LEMMA PacketsStay ==
  ASSUME MapTypeOK, sent' \in Seq(Seq(Nat)), Extends(sent', sent), NEW p \in 1..Len(sent)
  PROVE  Whole(p)' = Whole(p) /\ (Fits(p)' <=> Fits(p))
<1>1. sent'[p] = sent[p] /\ p \in 1..Len(sent') /\ Len(sent) \in Nat /\ Len(sent') \in Nat
  BY LenProperties DEF Extends, MapTypeOK
<1>2. sent'[p] \in Seq(Nat) /\ Len(sent'[p]) \in Nat
  BY <1>1, ElementOfSeq, LenProperties
<1>3. Whole(p)' = Whole(p)
  BY <1>1 DEF Whole
<1> DEFINE w == [k \in 1..Len(sent'[p]) |-> Portion(p, k)]
<1>4. SizesIn(sent', w) = sent'[p]
  BY <1>1, <1>2, SizesOfWhole
<1>5. Fits(p)' <=> Total(SizesIn(sent', w)) <= MaxPacketSize
  BY DEF Fits, Whole, SizeOfAll, SizeOf, SizesIn
<1>6. QED
  BY <1>1, <1>3, <1>4, <1>5, FitsIsTotal

\* The buffer still has its size when packets are added.
LEMMA BufferStays ==
  ASSUME MapTypeOK, ArrivedOK, BufferInBounds, Extends(sent', sent),
         packetBuffer' = packetBuffer, packetLength' = packetLength
  PROVE  BufferInBounds'
<1>1. \A k \in 1..Len(packetBuffer) : Within(sent, packetBuffer[k])
  BY DEF ArrivedOK, Arrived, Within
<1>2. SizesIn(sent', packetBuffer) = SizesIn(sent, packetBuffer)
  BY <1>1, SizesStay
<1>3. /\ SizeOfAll(packetBuffer) = Total(SizesIn(sent, packetBuffer))
      /\ SizeOfAll(packetBuffer)' = Total(SizesIn(sent', packetBuffer'))
  BY DEF SizeOfAll, SizeOf, SizesIn
<1>4. QED
  BY <1>2, <1>3 DEF BufferInBounds

\* Sending more keeps what is said of arrivals.
LEMMA ArrivalsStay ==
  ASSUME MapTypeOK, ArrivedOK, sent' \in Seq(Seq(Nat)), Extends(sent', sent),
         Len(sent') # Len(sent) \/ (portion' \in Nat /\ portion <= portion'),
         packetBuffer' = packetBuffer, forwarded' = forwarded
  PROVE  ArrivedOK'
<1>1. /\ Len(sent) \in Nat /\ Len(sent') \in Nat
      /\ packetBuffer \in Seq(PortionsOf) /\ forwarded \in Seq(Seq(PortionsOf))
  BY LenProperties DEF MapTypeOK
<1>2. portion \in Nat
  <2>1. sent # <<>> => sent[Len(sent)] \in Seq(Nat)
    BY EmptySeq, LenProperties, ElementOfSeq DEF MapTypeOK
  <2>2. PortionsToSend \in Nat
    BY <2>1, LenProperties DEF PortionsToSend, Last
  <2>3. QED
    BY <2>2 DEF MapTypeOK
<1>3. ASSUME NEW i \in 1..Len(packetBuffer)
      PROVE  Arrived(sent', portion', packetBuffer[i])
  BY <1>1, <1>2, ArrivedLater, ElementOfSeq DEF ArrivedOK
<1>4. ASSUME NEW i \in 1..Len(forwarded), NEW k \in 1..Len(forwarded[i])
      PROVE  Arrived(sent', portion', forwarded[i][k])
  <2>1. forwarded[i] \in Seq(PortionsOf)
    BY <1>1, ElementOfSeq
  <2>2. forwarded[i][k] \in PortionsOf
    BY <2>1, ElementOfSeq
  <2>3. QED
    BY <1>1, <1>2, <2>2, ArrivedLater DEF ArrivedOK
<1>5. QED
  BY <1>3, <1>4 DEF ArrivedOK

\* The ground begins a segmented packet.
LEMMA BeginKeeps ==
  ASSUME MapInv, NEW s \in Shapes, BeginPacket(s)
  PROVE  MapInv'
<1> USE DEF MapInv
<1> DEFINE n == Len(sent)
<1>1. /\ sent \in Seq(Seq(Nat)) /\ n \in Nat /\ s \in Seq(Nat) /\ Len(s) \in Nat /\ Len(s) > 1
      /\ sent' = Append(sent, s) /\ portion' = 0 /\ bypass' = bypass /\ n < MaxPackets
  BY MapAssumption, LenProperties DEF MapTypeOK, BeginPacket, Current
<1>2. /\ sent' \in Seq(Seq(Nat)) /\ sent' # <<>> /\ Len(sent') = n + 1 /\ sent'[n + 1] = s
      /\ Extends(sent', sent)
  BY <1>1, AppendProperties DEF Extends
<1>3. UNCHANGED channelVars /\ Idle
  BY DEF BeginPacket
<1>4. PortionsToSend' = Len(s) /\ ~Idle'
  BY <1>1, <1>2 DEF PortionsToSend, Idle, Last
<1>5. MapTypeOK'
  BY <1>1, <1>2, <1>3, <1>4, MapAssumption DEF MapTypeOK, channelVars
<1>6. SentOK'
  BY <1>1, <1>2, <1>4 DEF SentOK, Extends
<1>7. ArrivedOK'
  BY <1>1, <1>2, <1>3, ArrivalsStay DEF channelVars
<1>8. BufferInBounds'
  BY <1>2, <1>3, BufferStays DEF channelVars
<1>9. PortionsOnceInOrder' /\ BufferOrder'
  BY <1>3 DEF PortionsOnceInOrder, BufferOrder, ExpectsMore, channelVars
<1>10. WholeOK'
  <2>1. \A p \in dropped : p \in 1..n
    BY DEF MapTypeOK
  <2>2. ASSUME NEW p \in 1..Len(sent'), p < Len(sent'), Fits(p)', ~bypass
        PROVE  Accounted(p)'
    <3>1. p \in 1..n
      BY <1>1, <1>2, <2>2
    <3>2. Whole(p)' = Whole(p) /\ Fits(p)
      BY <1>2, <2>2, <3>1, PacketsStay
    <3>3. Accounted(p)
      BY <1>3, <2>2, <3>1, <3>2 DEF WholeOK
    <3>4. QED
      BY <1>3, <3>2, <3>3 DEF Accounted, channelVars
  <2>3. QED
    BY <1>1, <1>2, <1>3, <1>4, <2>1, <2>2 DEF WholeOK, channelVars
<1>11. QED
  BY <1>5, <1>6, <1>7, <1>8, <1>9, <1>10

\* Until the packet is over, the frame that is missing upsets nothing.
LEMMA MissingKeeps ==
  ASSUME MapInv, MissingFrame
  PROVE  MapInv'
<1> USE DEF MapInv
<1>1. /\ UNCHANGED <<channelVars, sent>> /\ bypass /\ bypass' /\ portion' = portion + 1 /\ ~Idle
      /\ PortionsToSend' = PortionsToSend /\ PortionsToSend \in Nat /\ portion \in 0..PortionsToSend
  <2>1. PortionsToSend \in Nat
    <3>1. sent # <<>> => sent[Len(sent)] \in Seq(Nat)
      BY EmptySeq, LenProperties, ElementOfSeq DEF MapTypeOK
    <3>2. QED
      BY <3>1, LenProperties DEF PortionsToSend, Last
  <2>2. QED
    BY <2>1 DEF MissingFrame, PortionsToSend, MapTypeOK
<1>2. portion' \in 0..PortionsToSend
  BY <1>1 DEF Idle
<1>3. MapTypeOK'
  BY <1>1, <1>2 DEF MapTypeOK, channelVars
<1>4. SentOK'
  BY <1>1 DEF SentOK, Idle, channelVars
<1>5. ArrivedOK'
  <2>1. Extends(sent', sent) /\ Len(sent) \in Nat /\ sent' \in Seq(Seq(Nat)) /\ portion \in Nat
    BY <1>1, LenProperties DEF Extends, MapTypeOK
  <2>2. QED
    BY <1>1, <1>2, <2>1, ArrivalsStay DEF channelVars
<1>6. BufferInBounds'
  <2>1. Extends(sent', sent)
    BY <1>1, LenProperties DEF Extends, MapTypeOK
  <2>2. QED
    BY <1>1, <2>1, BufferStays DEF channelVars
<1>7. PortionsOnceInOrder' /\ BufferOrder'
  BY <1>1 DEF PortionsOnceInOrder, BufferOrder, ExpectsMore, channelVars
<1>8. WholeOK'
  BY <1>1 DEF WholeOK, channelVars
<1>9. QED
  BY <1>3, <1>4, <1>5, <1>6, <1>7, <1>8

-----------------------------------------------------------------------------
(* A frame of a segmented packet *)

NextData == Portion(Len(sent), portion + 1)
NextSize == sent[Len(sent)][portion + 1]

\* What is true while a segmented packet is being sent.
LEMMA FrameFacts ==
  ASSUME MapInv, ~Idle
  PROVE  /\ sent # <<>> /\ Len(sent) \in Nat /\ Len(sent) > 0
         /\ sent[Len(sent)] \in Seq(Nat) /\ PortionsToSend = Len(sent[Len(sent)])
         /\ PortionsToSend \in Nat /\ PortionsToSend > 1 /\ portion \in 0..(PortionsToSend - 1)
         /\ NextData \in PortionsOf /\ Within(sent, NextData) /\ Arrived(sent, portion + 1, NextData)
         /\ NextSize \in Nat
         /\ \A d \in PortionsOf : Arrived(sent, portion, d) => Precedes(d, NextData)
<1>1. /\ sent \in Seq(Seq(Nat)) /\ portion \in 0..PortionsToSend /\ portion # PortionsToSend
      /\ PortionsToSend > 1
  BY DEF MapInv, MapTypeOK, SentOK, Idle
<1>2. sent # <<>>
  BY <1>1 DEF PortionsToSend
<1>3. Len(sent) \in Nat /\ Len(sent) > 0
  BY <1>1, <1>2, EmptySeq, LenProperties
<1>4. sent[Len(sent)] \in Seq(Nat) /\ PortionsToSend = Len(sent[Len(sent)]) /\ PortionsToSend \in Nat
  <2>1. sent[Len(sent)] \in Seq(Nat)
    BY <1>1, <1>3, ElementOfSeq
  <2>2. QED
    BY <1>2, <2>1, LenProperties DEF PortionsToSend, Last
<1>5. portion \in 0..(PortionsToSend - 1) /\ portion + 1 \in 1..PortionsToSend /\ portion \in Nat
  BY <1>1, <1>4
<1>6. NextData \in PortionsOf /\ Within(sent, NextData) /\ Arrived(sent, portion + 1, NextData)
  BY <1>3, <1>4, <1>5 DEF NextData, Portion, PortionsOf, Within, Arrived
<1>7. NextSize \in Nat
  BY <1>4, <1>5, ElementOfSeq DEF NextSize
<1>8. ASSUME NEW d \in PortionsOf, Arrived(sent, portion, d)
      PROVE  Precedes(d, NextData)
  BY <1>3, <1>5, <1>8 DEF Arrived, Precedes, NextData, Portion, PortionsOf
<1>9. QED
  BY <1>1, <1>2, <1>3, <1>4, <1>5, <1>6, <1>7, <1>8

\* The size of the buffer with the next portion behind it.
LEMMA BufferGrows ==
  ASSUME MapInv, ~Idle
  PROVE  Total(SizesIn(sent, Append(packetBuffer, NextData))) = packetLength + NextSize
<1>1. /\ sent \in Seq(Seq(Nat)) /\ packetBuffer \in Seq(PortionsOf) /\ NextData \in PortionsOf
      /\ \A k \in 1..Len(packetBuffer) : Within(sent, packetBuffer[k])
      /\ Within(sent, NextData)
  BY FrameFacts DEF MapInv, MapTypeOK, ArrivedOK, Arrived, Within
<1>2. packetLength = Total(SizesIn(sent, packetBuffer))
  BY DEF MapInv, BufferInBounds, SizeOfAll, SizeOf, SizesIn
<1>3. NextSize = sent[NextData.packet][NextData.portion]
  BY DEF NextSize, NextData, Portion
<1>4. SizesIn(sent, Append(packetBuffer, NextData)) = Append(SizesIn(sent, packetBuffer), NextSize)
  BY <1>1, <1>3, SizesAppend
<1>5. SizesIn(sent, packetBuffer) \in Seq(Nat) /\ NextSize \in Nat
  BY <1>1, SizesType, FrameFacts
<1>6. QED
  BY <1>2, <1>4, <1>5, TotalAppend

\* If the packet fits, so does what has arrived of it.
LEMMA FittingGoesOn ==
  ASSUME MapInv, ~Idle, ~bypass, portion > 0, Fits(Len(sent))
  PROVE  /\ ExpectsMore /\ packetLength + NextSize <= MaxPacketSize
         /\ Append(packetBuffer, NextData) = [k \in 1..(portion + 1) |-> Portion(Len(sent), k)]
<1> DEFINE n == Len(sent)
           first == [k \in 1..portion |-> Portion(n, k)]
           next == [k \in 1..(portion + 1) |-> Portion(n, k)]
<1>1. /\ n \in Nat /\ n > 0 /\ sent \in Seq(Seq(Nat)) /\ sent[n] \in Seq(Nat) /\ portion \in Nat
      /\ portion + 1 \in 0..Len(sent[n]) /\ MapTypeOK
  BY FrameFacts DEF MapInv, MapTypeOK
<1>2. ExpectsMore /\ packetBuffer = first
  BY DEF MapInv, WholeOK, Current
<1>3. Append(first, NextData) = next
  <2>1. NextData = Portion(n, portion + 1) /\ first \in Seq(PortionsOf) /\ Len(first) = portion
    BY <1>1, <1>2 DEF NextData, MapTypeOK
  <2>2. QED
    BY <1>1, <2>1
<1>4. SizesIn(sent, next) = [k \in 1..(portion + 1) |-> sent[n][k]]
  <2>1. n \in 1..Len(sent) /\ portion + 1 \in 0..Len(sent[n])
    BY <1>1
  <2>2. QED
    BY <1>1, <2>1, SizesOfWhole
<1>5. packetLength + NextSize = Total([k \in 1..(portion + 1) |-> sent[n][k]])
  BY <1>2, <1>3, <1>4, BufferGrows
<1>6. Total([k \in 1..(portion + 1) |-> sent[n][k]]) <= Total(sent[n])
  BY <1>1, TotalOfFirst
<1>7. Total(sent[n]) <= MaxPacketSize
  BY <1>1, FitsIsTotal
<1>8. Total(sent[n]) \in Nat /\ Total([k \in 1..(portion + 1) |-> sent[n][k]]) \in Nat
  <2>1. [k \in 1..(portion + 1) |-> sent[n][k]] \in Seq(Nat)
    BY <1>1, TotalOfFirst
  <2>2. QED
    BY <1>1, <2>1, TotalType
<1>9. packetLength + NextSize <= MaxPacketSize
  BY <1>5, <1>6, <1>7, <1>8, MapAssumption
<1>10. QED
  BY <1>2, <1>3, <1>9

\* What every frame of a segmented packet leaves alone.
LEMMA FrameCommon ==
  ASSUME MapInv, ~Idle, portion' = portion + 1, sent' = sent, bypass' = bypass,
         lastSegmentationFlag' \in SegmentationFlags, packetLength' \in Nat,
         packetBuffer' \in Seq(PortionsOf), forwarded' \in Seq(Seq(PortionsOf)), dropped' \subseteq 1..Len(sent)
  PROVE  /\ MapTypeOK' /\ SentOK'
         /\ PortionsToSend' = PortionsToSend
         /\ \A p \in 1..Len(sent) : Whole(p)' = Whole(p) /\ (Fits(p)' <=> Fits(p))
         /\ Idle' <=> portion + 1 = PortionsToSend
         /\ \A d \in PortionsOf : Arrived(sent, portion, d) => Arrived(sent', portion', d)
<1>1. PortionsToSend' = PortionsToSend
  BY DEF PortionsToSend, Last
<1>2. MapTypeOK'
  <2>1. portion' \in 0..PortionsToSend
    BY FrameFacts
  <2>2. QED
    BY <1>1, <2>1 DEF MapTypeOK, MapInv
<1>3. SentOK'
  BY <1>1, FrameFacts DEF SentOK, MapInv
<1>4. Extends(sent', sent) /\ sent' \in Seq(Seq(Nat)) /\ MapTypeOK
  BY LenProperties DEF Extends, MapInv, MapTypeOK
<1>5. \A p \in 1..Len(sent) : Whole(p)' = Whole(p) /\ (Fits(p)' <=> Fits(p))
  BY <1>4, PacketsStay
<1>6. ASSUME NEW d \in PortionsOf, Arrived(sent, portion, d)
      PROVE  Arrived(sent', portion', d)
  <2>1. portion \in Nat /\ portion' \in Nat /\ portion <= portion' /\ Len(sent) \in Nat /\ Len(sent') \in Nat
    BY FrameFacts
  <2>2. QED
    BY <1>4, <1>6, <2>1, ArrivedLater
<1>7. QED
  BY <1>1, <1>2, <1>3, <1>5, <1>6 DEF Idle

\* The order of the buffer with the next portion behind it.
LEMMA OrderGrows ==
  ASSUME MapInv, ~Idle
  PROVE  LET q == Append(packetBuffer, NextData) IN
         /\ q \in Seq(PortionsOf) /\ Len(q) \in Nat /\ Len(q) > 0 /\ q[Len(q)] = NextData
         /\ \A i \in 1..Len(q) : Arrived(sent, portion + 1, q[i])
         /\ \A i, j \in 1..Len(q) : i < j => Precedes(q[i], q[j])
         /\ ExpectsMore => \A i \in 1..Len(forwarded) : \A k \in 1..Len(forwarded[i]) :
                              \A l \in 1..Len(q) : Precedes(forwarded[i][k], q[l])
<1> DEFINE q == Append(packetBuffer, NextData)
           m == Len(packetBuffer)
<1>1. /\ packetBuffer \in Seq(PortionsOf) /\ m \in Nat /\ NextData \in PortionsOf
      /\ Len(sent) \in Nat /\ portion \in Nat /\ forwarded \in Seq(Seq(PortionsOf))
  BY FrameFacts, LenProperties DEF MapInv, MapTypeOK
<1>2. q \in Seq(PortionsOf) /\ Len(q) = m + 1 /\ q[m + 1] = NextData /\ \A i \in 1..m : q[i] = packetBuffer[i]
  BY <1>1, AppendProperties
<1>3. ASSUME NEW i \in 1..m
      PROVE  packetBuffer[i] \in PortionsOf /\ Arrived(sent, portion, packetBuffer[i])
  BY <1>1, ElementOfSeq DEF MapInv, ArrivedOK
<1>4. ASSUME NEW i \in 1..Len(forwarded), NEW k \in 1..Len(forwarded[i])
      PROVE  forwarded[i][k] \in PortionsOf /\ Arrived(sent, portion, forwarded[i][k])
  <2>1. forwarded[i] \in Seq(PortionsOf)
    BY <1>1, ElementOfSeq
  <2>2. QED
    BY <2>1, ElementOfSeq DEF MapInv, ArrivedOK
<1> HIDE DEF q, m
<1>5. ASSUME NEW i \in 1..(m + 1)
      PROVE  Arrived(sent, portion + 1, q[i])
  <2>1. CASE i = m + 1
    BY <1>2, <2>1, FrameFacts
  <2>2. CASE i # m + 1
    <3>1. i \in 1..m
      BY <1>1, <2>2
    <3>2. q[i] = packetBuffer[i] /\ q[i] \in PortionsOf /\ Arrived(sent, portion, q[i])
      BY <1>2, <1>3, <3>1
    <3>3. QED
      BY <1>1, <3>2 DEF Arrived, PortionsOf
  <2>3. QED
    BY <2>1, <2>2
<1>6. ASSUME NEW i \in 1..(m + 1), NEW j \in 1..(m + 1), i < j
      PROVE  Precedes(q[i], q[j])
  <2>1. i \in 1..m /\ q[i] = packetBuffer[i]
    BY <1>1, <1>2, <1>6
  <2>2. CASE j = m + 1
    BY <1>2, <1>3, <2>1, <2>2, FrameFacts
  <2>3. CASE j # m + 1
    <3>1. j \in 1..m /\ q[j] = packetBuffer[j]
      BY <1>1, <1>2, <2>3
    <3>2. QED
      BY <1>6, <2>1, <3>1 DEF MapInv, BufferOrder, m
  <2>4. QED
    BY <2>2, <2>3
<1>7. ASSUME ExpectsMore, NEW i \in 1..Len(forwarded), NEW k \in 1..Len(forwarded[i]), NEW l \in 1..(m + 1)
      PROVE  Precedes(forwarded[i][k], q[l])
  <2>1. CASE l = m + 1
    BY <1>2, <1>4, <2>1, FrameFacts
  <2>2. CASE l # m + 1
    <3>1. l \in 1..m /\ q[l] = packetBuffer[l]
      BY <1>1, <1>2, <2>2
    <3>2. QED
      BY <1>7, <3>1 DEF MapInv, BufferOrder, m
  <2>3. QED
    BY <2>1, <2>2
<1>8. QED
  BY <1>1, <1>2, <1>5, <1>6, <1>7 DEF q

\* All that was forwarded has been sent.
LEMMA ForwardedArrived ==
  ASSUME MapInv
  PROVE  \A i \in 1..Len(forwarded) : \A k \in 1..Len(forwarded[i]) :
            forwarded[i][k] \in PortionsOf /\ Arrived(sent, portion, forwarded[i][k])
<1>1. ASSUME NEW i \in 1..Len(forwarded), NEW k \in 1..Len(forwarded[i])
      PROVE  forwarded[i][k] \in PortionsOf /\ Arrived(sent, portion, forwarded[i][k])
  <2>1. forwarded[i] \in Seq(PortionsOf)
    BY ElementOfSeq DEF MapInv, MapTypeOK
  <2>2. QED
    BY <2>1, ElementOfSeq DEF MapInv, ArrivedOK
<1>2. QED
  BY <1>1

\* The first portion of a packet that fits, fits.
LEMMA FirstFits ==
  ASSUME MapInv, ~Idle, portion = 0, Fits(Len(sent))
  PROVE  NextSize <= MaxPacketSize
<1> DEFINE n == Len(sent)
           w == [k \in 1..1 |-> sent[n][k]]
<1>1. /\ n \in 1..Len(sent) /\ sent[n] \in Seq(Nat) /\ 1 \in 0..Len(sent[n]) /\ NextSize \in Nat
      /\ MapTypeOK /\ NextSize = sent[n][1]
  BY FrameFacts DEF MapInv, NextSize
<1>2. w \in Seq(Nat) /\ Total(w) <= Total(sent[n])
  BY <1>1, TotalOfFirst
<1>3. w = <<NextSize>>
  BY <1>1
<1>4. Total(w) = NextSize
  BY <1>1, <1>3, TotalOne
<1>5. Total(sent[n]) <= MaxPacketSize /\ Total(sent[n]) \in Nat
  BY <1>1, FitsIsTotal, TotalType
<1>6. QED
  BY <1>1, <1>2, <1>4, <1>5, MapAssumption

\* A frame with the first portion, stored or too large.
LEMMA FirstKeeps ==
  ASSUME MapInv, ~Idle, portion' = 1, portion' = portion + 1, sent' = sent, bypass' = bypass,
         FirstPortion(NextData, NextSize)
  PROVE  MapInv'
<1>1. /\ portion = 0 /\ Len(sent) \in Nat /\ Len(sent) > 0 /\ NextData \in PortionsOf /\ NextSize \in Nat
      /\ PortionsToSend > 1 /\ PortionsToSend \in Nat /\ sent \in Seq(Seq(Nat)) /\ Within(sent, NextData)
      /\ MapTypeOK /\ MaxPacketSize \in Nat
  BY FrameFacts, MapAssumption DEF MapInv, MapTypeOK
<1>2. /\ <<NextData>> \in Seq(PortionsOf) /\ Len(<<NextData>>) = 1 /\ <<NextData>>[1] = NextData
      /\ <<>> \in Seq(PortionsOf) /\ Len(<<>>) = 0
  BY <1>1
<1>3. /\ lastSegmentationFlag' = "FIRST_PORTION" /\ forwarded' = forwarded /\ dropped' = dropped
      /\ \/ NextSize <= MaxPacketSize /\ packetLength' = NextSize /\ packetBuffer' = <<NextData>>
         \/ NextSize > MaxPacketSize /\ packetLength' = 0 /\ packetBuffer' = <<>>
  BY <1>2 DEF FirstPortion, clearBuffers
<1>4. /\ packetLength' \in Nat /\ packetBuffer' \in Seq(PortionsOf)
      /\ lastSegmentationFlag' \in SegmentationFlags /\ forwarded' \in Seq(Seq(PortionsOf))
      /\ dropped' \subseteq 1..Len(sent) /\ \A i \in 1..Len(packetBuffer') : i = 1 /\ packetBuffer'[i] = NextData
  <2>1. CASE packetBuffer' = <<NextData>> /\ packetLength' = NextSize
    BY <1>1, <1>2, <1>3, <2>1 DEF MapTypeOK, SegmentationFlags
  <2>2. CASE packetBuffer' = <<>> /\ packetLength' = 0
    BY <1>1, <1>2, <1>3, <2>2 DEF MapTypeOK, SegmentationFlags
  <2>3. QED
    BY <1>3, <2>1, <2>2
<1>5. /\ MapTypeOK' /\ SentOK' /\ ~Idle'
      /\ \A p \in 1..Len(sent) : Whole(p)' = Whole(p) /\ (Fits(p)' <=> Fits(p))
      /\ \A d \in PortionsOf : Arrived(sent, portion, d) => Arrived(sent', portion', d)
  BY <1>1, <1>4, FrameCommon
<1>6. \A i \in 1..Len(forwarded) : \A k \in 1..Len(forwarded[i]) :
         forwarded[i][k] \in PortionsOf /\ Arrived(sent, portion, forwarded[i][k])
  BY ForwardedArrived
<1>7. ArrivedOK'
  BY <1>3, <1>4, <1>5, <1>6, FrameFacts DEF ArrivedOK
<1>8. BufferInBounds'
  <2>1. SizeOfAll(packetBuffer)' = Total(SizesIn(sent, packetBuffer'))
    BY DEF SizeOfAll, SizeOf, SizesIn
  <2>2. CASE packetBuffer' = <<>> /\ packetLength' = 0
    <3>1. SizesIn(sent, packetBuffer') = <<>>
      BY <2>2 DEF SizesIn
    <3>2. QED
      BY <1>1, <2>1, <2>2, <3>1, TotalEmpty DEF BufferInBounds
  <2>3. CASE packetBuffer' = <<NextData>> /\ packetLength' = NextSize /\ NextSize <= MaxPacketSize
    <3>1. NextSize = sent[NextData.packet][NextData.portion]
      BY DEF NextSize, NextData, Portion
    <3>2. SizesIn(sent, packetBuffer') = <<NextSize>>
      BY <2>3, <3>1 DEF SizesIn
    <3>3. QED
      BY <1>1, <2>1, <2>3, <3>2, TotalOne DEF BufferInBounds
  <2>4. QED
    BY <1>3, <2>2, <2>3
<1>9. PortionsOnceInOrder' /\ BufferOrder'
  <2>1. PortionsOnceInOrder'
    BY <1>3 DEF PortionsOnceInOrder, MapInv
  <2>2. \A i, j \in 1..Len(packetBuffer') : ~(i < j)
    BY <1>4
  <2>3. \A i \in 1..Len(forwarded) : \A k \in 1..Len(forwarded[i]) : Precedes(forwarded[i][k], NextData)
    BY <1>6, FrameFacts
  <2>4. BufferOrder'
    BY <1>3, <1>4, <2>2, <2>3 DEF BufferOrder
  <2>5. QED
    BY <2>1, <2>4
<1>10. WholeOK'
  <2>1. \A p \in dropped : p < Len(sent)
    BY DEF MapInv, WholeOK
  <2>2. ASSUME NEW p \in 1..Len(sent), p < Len(sent), Fits(p), ~bypass
        PROVE  Accounted(p)'
    <3>1. Accounted(p)
      BY <2>2 DEF MapInv, WholeOK
    <3>2. QED
      BY <1>3, <1>5, <3>1 DEF Accounted
  <2>3. ASSUME Fits(Len(sent))
        PROVE  packetBuffer' = [k \in 1..1 |-> Portion(Len(sent), k)]
    <3>1. NextSize <= MaxPacketSize
      BY <1>1, <2>3, FirstFits
    <3>2. packetBuffer' = <<NextData>>
      BY <1>1, <1>2, <1>3, <3>1
    <3>3. NextData = Portion(Len(sent), 1)
      BY <1>1 DEF NextData
    <3>4. QED
      BY <3>2, <3>3
  <2>4. QED
    BY <1>1, <1>3, <1>5, <2>1, <2>2, <2>3 DEF WholeOK, ExpectsMore, Current
<1>11. QED
  BY <1>5, <1>7, <1>8, <1>9, <1>10 DEF MapInv

\* A frame with a continuing portion that is stored.
LEMMA StoreKeeps ==
  ASSUME MapInv, ~Idle, portion' = portion + 1, sent' = sent, bypass' = bypass,
         portion' \in 2..(PortionsToSend - 1), StorePortion(NextData, NextSize)
  PROVE  MapInv'
<1> DEFINE q == Append(packetBuffer, NextData)
<1>1. /\ Len(sent) \in Nat /\ Len(sent) > 0 /\ NextSize \in Nat /\ packetLength \in Nat
      /\ PortionsToSend \in Nat /\ portion > 0 /\ portion \in Nat /\ portion + 1 # PortionsToSend
      /\ MapTypeOK /\ MaxPacketSize \in Nat
  BY FrameFacts, MapAssumption DEF MapInv, MapTypeOK
<1>2. /\ ExpectsMore /\ packetLength + NextSize <= MaxPacketSize
      /\ lastSegmentationFlag' = "CONTINUING_PORTION" /\ forwarded' = forwarded /\ dropped' = dropped
      /\ packetLength' = packetLength + NextSize /\ packetBuffer' = q
  BY DEF StorePortion
<1>3. /\ q \in Seq(PortionsOf)
      /\ \A i \in 1..Len(q) : Arrived(sent, portion + 1, q[i])
      /\ \A i, j \in 1..Len(q) : i < j => Precedes(q[i], q[j])
      /\ \A i \in 1..Len(forwarded) : \A k \in 1..Len(forwarded[i]) :
            \A l \in 1..Len(q) : Precedes(forwarded[i][k], q[l])
  BY <1>2, OrderGrows
<1>4. /\ packetLength' \in Nat /\ packetBuffer' \in Seq(PortionsOf)
      /\ lastSegmentationFlag' \in SegmentationFlags /\ forwarded' \in Seq(Seq(PortionsOf))
      /\ dropped' \subseteq 1..Len(sent)
  BY <1>1, <1>2, <1>3 DEF MapTypeOK, SegmentationFlags
<1>5. /\ MapTypeOK' /\ SentOK' /\ ~Idle'
      /\ \A p \in 1..Len(sent) : Whole(p)' = Whole(p) /\ (Fits(p)' <=> Fits(p))
      /\ \A d \in PortionsOf : Arrived(sent, portion, d) => Arrived(sent', portion', d)
  BY <1>1, <1>4, FrameCommon
<1>6. SizeOfAll(packetBuffer)' = Total(SizesIn(sent, q))
  BY <1>2 DEF SizeOfAll, SizeOf, SizesIn
<1> HIDE DEF q
<1>7. ArrivedOK'
  BY <1>2, <1>3, <1>5, ForwardedArrived DEF ArrivedOK
<1>8. BufferInBounds'
  BY <1>1, <1>2, <1>6, BufferGrows DEF BufferInBounds, q
<1>9. PortionsOnceInOrder'
  BY <1>2 DEF PortionsOnceInOrder, MapInv
<1>10. BufferOrder'
  BY <1>2, <1>3 DEF BufferOrder
<1>11. WholeOK'
  <2>1. \A p \in dropped : p < Len(sent)
    BY DEF MapInv, WholeOK
  <2>2. ASSUME NEW p \in 1..Len(sent), p < Len(sent), Fits(p), ~bypass
        PROVE  Accounted(p)'
    <3>1. Accounted(p)
      BY <2>2 DEF MapInv, WholeOK
    <3>2. QED
      BY <1>2, <1>5, <3>1 DEF Accounted
  <2>3. ASSUME Fits(Len(sent)), ~bypass
        PROVE  q = [k \in 1..(portion + 1) |-> Portion(Len(sent), k)]
    BY <1>1, <2>3, FittingGoesOn DEF q
  <2>4. QED
    BY <1>1, <1>2, <1>5, <2>1, <2>2, <2>3 DEF WholeOK, ExpectsMore, Current
<1>12. QED
  BY <1>5, <1>7, <1>8, <1>9, <1>10, <1>11 DEF MapInv

\* A frame whose portion is refused.
LEMMA RefuseKeeps ==
  ASSUME MapInv, ~Idle, portion' = portion + 1, sent' = sent, bypass' = bypass, portion' > 1,
         NEW flag \in {"CONTINUING_PORTION", "LAST_PORTION"}, RefusePortion(flag, NextSize)
  PROVE  MapInv'
<1>1. /\ Len(sent) \in Nat /\ Len(sent) > 0 /\ NextSize \in Nat /\ packetLength \in Nat
      /\ portion > 0 /\ portion \in Nat /\ MapTypeOK /\ MaxPacketSize \in Nat
  BY FrameFacts, MapAssumption DEF MapInv, MapTypeOK
<1>2. /\ ~ExpectsMore \/ packetLength + NextSize > MaxPacketSize
      /\ lastSegmentationFlag' = flag /\ forwarded' = forwarded /\ dropped' = dropped
      /\ packetLength' = 0 /\ packetBuffer' = <<>>
  BY DEF RefusePortion, clearBuffers
<1>3. /\ packetLength' \in Nat /\ packetBuffer' \in Seq(PortionsOf)
      /\ lastSegmentationFlag' \in SegmentationFlags /\ forwarded' \in Seq(Seq(PortionsOf))
      /\ dropped' \subseteq 1..Len(sent) /\ Len(packetBuffer') = 0
  BY <1>1, <1>2 DEF MapTypeOK, SegmentationFlags
<1>4. /\ MapTypeOK' /\ SentOK'
      /\ \A p \in 1..Len(sent) : Whole(p)' = Whole(p) /\ (Fits(p)' <=> Fits(p))
      /\ \A d \in PortionsOf : Arrived(sent, portion, d) => Arrived(sent', portion', d)
  BY <1>3, FrameCommon
<1>5. ArrivedOK'
  BY <1>2, <1>3, <1>4, ForwardedArrived DEF ArrivedOK
<1>6. BufferInBounds'
  <2>1. SizeOfAll(packetBuffer)' = Total(<<>>)
    BY <1>2 DEF SizeOfAll, SizeOf
  <2>2. QED
    BY <1>1, <1>2, <2>1, TotalEmpty DEF BufferInBounds
<1>7. PortionsOnceInOrder' /\ BufferOrder'
  BY <1>2, <1>3 DEF PortionsOnceInOrder, BufferOrder, MapInv
<1>8. WholeOK'
  <2>1. \A p \in dropped : p < Len(sent)
    BY DEF MapInv, WholeOK
  <2>2. ASSUME NEW p \in 1..Len(sent), p < Len(sent), Fits(p), ~bypass
        PROVE  Accounted(p)'
    <3>1. Accounted(p)
      BY <2>2 DEF MapInv, WholeOK
    <3>2. QED
      BY <1>2, <1>4, <3>1 DEF Accounted
  <2>3. bypass \/ ~Fits(Len(sent))
    <3>1. ASSUME ~bypass, Fits(Len(sent))
          PROVE  FALSE
      <4>1. ExpectsMore /\ packetLength + NextSize <= MaxPacketSize
        BY <1>1, <3>1, FittingGoesOn
      <4>2. QED
        BY <1>1, <1>2, <4>1
    <3>2. QED
      BY <3>1
  <2>4. QED
    BY <1>1, <1>2, <1>4, <2>1, <2>2, <2>3 DEF WholeOK, Current
<1>9. QED
  BY <1>4, <1>5, <1>6, <1>7, <1>8 DEF MapInv

-----------------------------------------------------------------------------
(* Forwarding *)

InOrder(out) ==
    \A i, j \in 1..Len(out) : \A k \in 1..Len(out[i]), l \in 1..Len(out[j]) :
        i < j \/ (i = j /\ k < l) => Precedes(out[i][k], out[j][l])

\* The order of PortionsOnceInOrder, with positions.
LEMMA OrderIsInOrder ==
  ASSUME NEW out \in Seq(Seq(PortionsOf))
  PROVE  InOrder(out) <=>
           \A i, j \in DOMAIN out : \A k \in DOMAIN out[i], l \in DOMAIN out[j] :
               i < j \/ (i = j /\ k < l) => Precedes(out[i][k], out[j][l])
<1>1. DOMAIN out = 1..Len(out)
  BY LenProperties
<1>2. \A i \in 1..Len(out) : DOMAIN out[i] = 1..Len(out[i])
  BY LenProperties, ElementOfSeq
<1>3. QED
  BY <1>1, <1>2 DEF InOrder

\* Two sequences of packets in order, the second later than the first.
LEMMA ConcatInOrder ==
  ASSUME NEW out \in Seq(Seq(PortionsOf)), InOrder(out), NEW more \in Seq(Seq(PortionsOf)), InOrder(more),
         \A i \in 1..Len(out) : \A k \in 1..Len(out[i]) : \A j \in 1..Len(more) : \A l \in 1..Len(more[j]) :
            Precedes(out[i][k], more[j][l])
  PROVE  InOrder(out \o more)
<1> DEFINE all == out \o more
           n == Len(out)
           m == Len(more)
<1>1. /\ n \in Nat /\ m \in Nat /\ Len(all) = n + m
      /\ \A i \in 1..(n + m) : all[i] = IF i <= n THEN out[i] ELSE more[i - n]
  BY ConcatProperties, LenProperties
<1> HIDE DEF all
<1>2. ASSUME NEW i \in 1..(n + m), NEW j \in 1..(n + m), NEW k \in 1..Len(all[i]), NEW l \in 1..Len(all[j]),
             i < j \/ (i = j /\ k < l)
      PROVE  Precedes(all[i][k], all[j][l])
  <2>1. CASE i <= n /\ j <= n
    <3>1. all[i] = out[i] /\ all[j] = out[j] /\ i \in 1..n /\ j \in 1..n
      BY <1>1, <2>1
    <3>2. QED
      BY <1>2, <3>1 DEF InOrder
  <2>2. CASE i <= n /\ j > n
    <3>1. all[i] = out[i] /\ all[j] = more[j - n] /\ i \in 1..n /\ j - n \in 1..m
      BY <1>1, <2>2
    <3>2. QED
      BY <1>2, <3>1
  <2>3. CASE i > n /\ j > n
    <3>1. /\ all[i] = more[i - n] /\ all[j] = more[j - n] /\ i - n \in 1..m /\ j - n \in 1..m
          /\ i < j => i - n < j - n
      BY <1>1, <2>3
    <3>2. QED
      BY <1>2, <3>1 DEF InOrder
  <2>4. QED
    BY SMTT(30), <1>1, <1>2, <2>1, <2>2, <2>3
<1>3. QED
  BY <1>1, <1>2 DEF InOrder, all

\* One packet more is forwarded.
LEMMA ForwardOne ==
  ASSUME NEW out \in Seq(Seq(PortionsOf)), NEW q \in Seq(PortionsOf), NEW all, all = Append(out, q)
  PROVE  /\ all \in Seq(Seq(PortionsOf))
         /\ \A i \in 1..Len(all) : (i \in 1..Len(out) /\ all[i] = out[i]) \/ all[i] = q
         /\ Range(all) = Range(out) \cup {q}
         /\ (/\ InOrder(out)
             /\ \A i, j \in 1..Len(q) : i < j => Precedes(q[i], q[j])
             /\ \A i \in 1..Len(out) : \A k \in 1..Len(out[i]) : \A l \in 1..Len(q) : Precedes(out[i][k], q[l]))
            => InOrder(all)
<1> DEFINE n == Len(out)
           W == Seq(PortionsOf)
<1> HIDE DEF W
<1>1. out \in Seq(W) /\ q \in W
  BY DEF W
<1>2. /\ all \in Seq(W) /\ Len(all) = n + 1 /\ n \in Nat /\ all[n + 1] = q
      /\ \A i \in 1..n : all[i] = out[i]
  BY <1>1, AppendProperties, LenProperties
<1>3. \A i \in 1..(n + 1) : (i \in 1..n /\ all[i] = out[i]) \/ (i = n + 1 /\ all[i] = q)
  BY <1>2
<1>4. Range(all) = Range(out) \cup {q}
  <2>1. Range(all) = { all[i] : i \in 1..(n + 1) } /\ Range(out) = { out[i] : i \in 1..n }
    BY ZenonT(60), <1>1, <1>2, RangeEquality
  <2>2. \A i \in 1..(n + 1) : all[i] \in Range(out) \cup {q}
    BY <1>3, <2>1
  <2>3. \A i \in 1..n : i \in 1..(n + 1) /\ out[i] = all[i]
    BY <1>2
  <2>4. n + 1 \in 1..(n + 1)
    BY <1>2
  <2> HIDE DEF n
  <2>5. Range(all) \subseteq Range(out) \cup {q}
    BY <2>1, <2>2
  <2>6. Range(out) \subseteq Range(all)
    BY <2>1, <2>3
  <2>7. q \in Range(all)
    BY <1>2, <2>1, <2>4
  <2>8. QED
    BY <2>5, <2>6, <2>7
<1>5. ASSUME InOrder(out),
             \A i, j \in 1..Len(q) : i < j => Precedes(q[i], q[j]),
             \A i \in 1..n : \A k \in 1..Len(out[i]) : \A l \in 1..Len(q) : Precedes(out[i][k], q[l]),
             NEW i \in 1..(n + 1), NEW j \in 1..(n + 1), NEW k \in 1..Len(all[i]), NEW l \in 1..Len(all[j]),
             i < j \/ (i = j /\ k < l)
      PROVE  Precedes(all[i][k], all[j][l])
  <2>1. CASE i \in 1..n /\ j \in 1..n
    <3>1. all[i] = out[i] /\ all[j] = out[j]
      BY <1>2, <2>1
    <3>2. QED
      BY <1>5, <2>1, <3>1 DEF InOrder
  <2>2. CASE i \in 1..n /\ j = n + 1
    <3>1. all[i] = out[i] /\ all[j] = q
      BY <1>2, <2>2
    <3>2. QED
      BY <1>5, <2>2, <3>1
  <2>3. CASE i = n + 1
    <3>1. j = n + 1 /\ all[i] = q /\ all[j] = q /\ k < l
      BY <1>2, <1>5, <2>3
    <3>2. QED
      BY <1>5, <3>1
  <2>4. QED
    BY <1>2, <2>1, <2>2, <2>3
<1>6. QED
  BY SMTT(30), <1>2, <1>3, <1>4, <1>5 DEF InOrder, W

\* A frame with the last portion completes the packet.
LEMMA CompleteKeeps ==
  ASSUME MapInv, ~Idle, portion' = portion + 1, sent' = sent, bypass' = bypass,
         portion' = PortionsToSend, CompletePacket(NextData, NextSize)
  PROVE  MapInv'
<1> DEFINE q == Append(packetBuffer, NextData)
           n == Len(sent)
<1>1. /\ n \in Nat /\ n > 0 /\ NextSize \in Nat /\ packetLength \in Nat
      /\ portion > 0 /\ portion \in Nat /\ MapTypeOK /\ MaxPacketSize \in Nat
      /\ portion + 1 = Len(sent[n]) /\ forwarded \in Seq(Seq(PortionsOf)) /\ Len(forwarded) \in Nat
  BY FrameFacts, MapAssumption, LenProperties DEF MapInv, MapTypeOK
<1>2. /\ ExpectsMore /\ lastSegmentationFlag' = "LAST_PORTION" /\ packetLength' = 0 /\ packetBuffer' = <<>>
      /\ \/ forwarded' = Append(forwarded, q) /\ dropped' = dropped
         \/ dropped' = dropped \cup {q[Len(q)].packet} /\ forwarded' = forwarded
  BY DEF CompletePacket, sendCompletePacket, clearBuffers, Last
<1>3. /\ q \in Seq(PortionsOf) /\ q[Len(q)] = NextData /\ Len(q) \in Nat /\ Len(q) > 0
      /\ \A i \in 1..Len(q) : Arrived(sent, portion + 1, q[i])
      /\ \A i, j \in 1..Len(q) : i < j => Precedes(q[i], q[j])
      /\ \A i \in 1..Len(forwarded) : \A k \in 1..Len(forwarded[i]) :
            \A l \in 1..Len(q) : Precedes(forwarded[i][k], q[l])
  BY <1>2, OrderGrows
<1>4. NextData.packet = n /\ q[Len(q)].packet = n
  BY <1>3 DEF NextData, Portion
<1> HIDE DEF q
<1>5. PICK all : all = Append(forwarded, q)
  OBVIOUS
<1>6. /\ forwarded' \in Seq(Seq(PortionsOf))
      /\ \A i \in 1..Len(forwarded') : (i \in 1..Len(forwarded) /\ forwarded'[i] = forwarded[i]) \/ forwarded'[i] = q
  <2>1. CASE forwarded' = all
    BY <1>1, <1>3, <1>5, <2>1, ForwardOne
  <2>2. CASE forwarded' = forwarded
    BY <1>1, <2>2
  <2>3. QED
    BY <1>2, <1>5, <2>1, <2>2
<1>7. /\ packetLength' \in Nat /\ packetBuffer' \in Seq(PortionsOf)
      /\ lastSegmentationFlag' \in SegmentationFlags
      /\ dropped' \subseteq 1..Len(sent) /\ Len(packetBuffer') = 0
  <2>1. packetLength' \in Nat /\ packetBuffer' \in Seq(PortionsOf) /\ Len(packetBuffer') = 0
    BY <1>2, EmptySeq
  <2>2. lastSegmentationFlag' \in SegmentationFlags
    BY <1>2 DEF SegmentationFlags
  <2>3. dropped \subseteq 1..Len(sent) /\ n \in 1..Len(sent)
    BY <1>1 DEF MapTypeOK
  <2>4. dropped' \subseteq 1..Len(sent)
    BY <1>2, <1>4, <2>3
  <2>5. QED
    BY <2>1, <2>2, <2>4
<1>8. /\ MapTypeOK' /\ SentOK' /\ Idle'
      /\ \A p \in 1..Len(sent) : Whole(p)' = Whole(p) /\ (Fits(p)' <=> Fits(p))
      /\ \A d \in PortionsOf : Arrived(sent, portion, d) => Arrived(sent', portion', d)
  BY <1>6, <1>7, FrameCommon
<1>9. ArrivedOK'
  <2>1. ASSUME NEW i \in 1..Len(forwarded'), NEW k \in 1..Len(forwarded'[i])
        PROVE  Arrived(sent', portion', forwarded'[i][k])
    BY <1>3, <1>6, <1>8, ForwardedArrived
  <2>2. QED
    BY <1>7, <2>1 DEF ArrivedOK
<1>10. BufferInBounds'
  <2>1. SizeOfAll(packetBuffer)' = Total(<<>>)
    BY <1>2 DEF SizeOfAll, SizeOf
  <2>2. QED
    BY <1>1, <1>2, <2>1, TotalEmpty DEF BufferInBounds
<1>11. PortionsOnceInOrder'
  <2>1. InOrder(forwarded)
    BY <1>1, OrderIsInOrder DEF MapInv, PortionsOnceInOrder
  <2>3. InOrder(all)
    BY <1>1, <1>3, <1>5, <2>1, ForwardOne
  <2>4. InOrder(forwarded')
    BY <1>2, <1>5, <2>1, <2>3
  <2>5. QED
    BY <1>6, <2>4, OrderIsInOrder DEF PortionsOnceInOrder
<1>12. BufferOrder'
  BY <1>2, <1>7 DEF BufferOrder, ExpectsMore
<1>13. WholeOK'
  <2>1. n \notin dropped
    BY DEF MapInv, WholeOK
  <2>2. Range(all) = Range(forwarded) \cup {q}
    BY <1>1, <1>3, <1>5, ForwardOne
  <2>3. ASSUME NEW p \in 1..n, p < n, Fits(p), ~bypass
        PROVE  Accounted(p)'
    <3>1. Accounted(p)
      BY <2>3 DEF MapInv, WholeOK
    <3>2. Whole(p) # q
      <4>1. ASSUME Whole(p) = q
            PROVE  FALSE
        <5>1. q[Len(q)].packet = p
          <6>1. \A k \in DOMAIN Whole(p) : Whole(p)[k].packet = p
            BY DEF Whole, Portion
          <6>2. Len(q) \in DOMAIN q
            BY <1>3, LenProperties
          <6>3. QED
            BY <4>1, <6>1, <6>2
        <5>2. QED
          BY <1>1, <1>4, <2>3, <5>1
      <4>2. QED
        BY <4>1
    <3>3. Whole(p) \in Range(forwarded') <=> Whole(p) \in Range(forwarded)
      BY <1>2, <1>5, <2>2, <3>2
    <3>4. p \in dropped' <=> p \in dropped
      BY <1>1, <1>2, <1>4, <2>3
    <3>5. QED
      BY <1>8, <3>1, <3>3, <3>4 DEF Accounted
  <2>4. ASSUME Fits(n), ~bypass
        PROVE  Accounted(n)'
    <3>1. Whole(n) = q
      BY <1>1, <2>4, FittingGoesOn DEF Whole, q
    <3>2. q \notin Range(forwarded)
      <4>1. ASSUME NEW i \in 1..Len(forwarded), forwarded[i] = q
            PROVE  FALSE
        <5>1. Arrived(sent, portion, q[Len(q)])
          BY <1>3, <4>1, ForwardedArrived
        <5>2. QED
          BY <1>1, <1>3, <5>1 DEF Arrived, NextData, Portion
      <4>2. QED
        BY <1>1, <4>1, RangeEquality
    <3>3. Whole(n)' = q
      BY <1>1, <1>8, <3>1
    <3>4. CASE forwarded' = all /\ dropped' = dropped
      BY <2>1, <2>2, <3>3, <3>4 DEF Accounted
    <3>5. CASE dropped' = dropped \cup {n} /\ forwarded' = forwarded
      BY <3>2, <3>3, <3>5 DEF Accounted
    <3>6. QED
      BY <1>2, <1>4, <1>5, <3>4, <3>5
  <2>5. QED
    BY <1>1, <1>8, <2>3, <2>4 DEF WholeOK
<1>14. QED
  BY <1>8, <1>9, <1>10, <1>11, <1>12, <1>13 DEF MapInv

\* Every frame of a segmented packet.
LEMMA SegmentKeeps ==
  ASSUME MapInv, SegmentFrame
  PROVE  MapInv'
<1>1. /\ ~Idle /\ portion' = portion + 1 /\ sent' = sent /\ bypass' = bypass
      /\ PortionsToSend \in Nat /\ PortionsToSend > 1 /\ portion \in Nat
  BY FrameFacts DEF SegmentFrame
<1>2. Portion(Current, portion') = NextData /\ Last(sent)[portion'] = NextSize
  BY <1>1 DEF NextData, NextSize, Current, Last
<1>3. \/ portion' = 1 /\ FirstPortion(NextData, NextSize)
      \/ portion' \in 2..(PortionsToSend - 1) /\ StorePortion(NextData, NextSize)
      \/ portion' \in 2..(PortionsToSend - 1) /\ RefusePortion("CONTINUING_PORTION", NextSize)
      \/ portion' = PortionsToSend /\ CompletePacket(NextData, NextSize)
      \/ portion' = PortionsToSend /\ RefusePortion("LAST_PORTION", NextSize)
  BY <1>2 DEF SegmentFrame
<1>4. portion' \in 2..(PortionsToSend - 1) \/ portion' = PortionsToSend => portion' > 1
  BY <1>1
<1>5. QED
  BY <1>1, <1>3, <1>4, FirstKeeps, StoreKeeps, RefuseKeeps, CompleteKeeps

-----------------------------------------------------------------------------
(* A frame with whole packets *)

Single(p) == <<Portion(p, 1)>>

\* An unsegmented packet is one portion.
LEMMA SingleFacts ==
  ASSUME NEW p \in Nat
  PROVE  /\ Single(p) \in Seq(PortionsOf) /\ Len(Single(p)) = 1
         /\ Single(p)[1].packet = p /\ Single(p)[1].portion = 1
BY DEF Single, Portion, PortionsOf

\* The packets that get through of a frame are in the order of the frame.
LEMMA SelectionFacts ==
  ASSUME NEW a \in Nat, NEW b \in Nat, NEW kept \in Selections((a + 1)..b)
  PROVE  \E m \in Nat : /\ kept \in [1..m -> (a + 1)..b] /\ Range(kept) = { kept[k] : k \in 1..m }
                        /\ \A i, j \in 1..m : i < j => kept[i] < kept[j]
<1> DEFINE block == (a + 1)..b
<1>1. Cardinality(block) \in Nat
  <2>1. IsFiniteSet(block)
    BY FS_Interval
  <2>2. QED
    BY <2>1, FS_CardinalityType
<1> HIDE DEF block
<1>2. PICK m \in 0..Cardinality(block) :
         kept \in [1..m -> block] /\ \A i, j \in 1..m : i < j => kept[i] < kept[j]
  BY DEF Selections, block
<1>3. m \in Nat
  BY <1>1
<1>4. Range(kept) = { kept[k] : k \in 1..m }
  BY <1>2 DEF Range
<1>5. QED
  BY <1>2, <1>3, <1>4 DEF block

\* Packets of one portion each, in order.
LEMMA SinglesInOrder ==
  ASSUME NEW m \in Nat, NEW more \in Seq(Seq(PortionsOf)), Len(more) = m,
         \A k \in 1..m : Len(more[k]) = 1,
         \A i, j \in 1..m : i < j => Precedes(more[i][1], more[j][1])
  PROVE  InOrder(more)
<1>1. ASSUME NEW i \in 1..m, NEW j \in 1..m, NEW k \in 1..Len(more[i]), NEW l \in 1..Len(more[j]),
             i < j \/ (i = j /\ k < l)
      PROVE  Precedes(more[i][k], more[j][l])
  <2>1. k = 1 /\ l = 1
    <3>1. Len(more[i]) = 1 /\ Len(more[j]) = 1
      OBVIOUS
    <3>2. k \in 1..1 /\ l \in 1..1
      BY ONLY <3>1, k \in 1..Len(more[i]), l \in 1..Len(more[j]), Zenon
    <3>3. QED
      BY ONLY <3>2
  <2>2. QED
    BY <1>1, <2>1
<1>2. QED
  BY <1>1 DEF InOrder

Singles(kept, m) == [k \in 1..m |-> Single(kept[k])]

AreSingles(more, kept, m) ==
    /\ more \in Seq(Seq(PortionsOf)) /\ Len(more) = m
    /\ \A k \in 1..m : /\ Len(more[k]) = 1 /\ more[k][1] \in PortionsOf
                       /\ more[k][1].packet = kept[k] /\ more[k][1].portion = 1
    /\ InOrder(more)
    /\ Range(more) = { Single(kept[k]) : k \in 1..m }

\* The packets that get through, as they are forwarded.
LEMMA MoreInOrder ==
  ASSUME NEW m \in Nat, NEW B \in SUBSET Nat, NEW kept \in [1..m -> B],
         \A i, j \in 1..m : i < j => kept[i] < kept[j],
         NEW more, more = Singles(kept, m)
  PROVE  AreSingles(more, kept, m)
<1> DEFINE W == Seq(PortionsOf)
<1>1. \A k \in 1..m : kept[k] \in Nat
  OBVIOUS
<1>2. \A k \in 1..m : Single(kept[k]) \in W
  BY <1>1, SingleFacts
<1> HIDE DEF W
<1>3. more \in Seq(W) /\ Len(more) = m
  BY <1>2, IsASeq DEF Singles
<1>4. ASSUME NEW k \in 1..m
      PROVE  /\ Len(more[k]) = 1 /\ more[k][1] \in PortionsOf
             /\ more[k][1].packet = kept[k] /\ more[k][1].portion = 1
  <2>1. more[k] = Single(kept[k]) /\ more[k] \in Seq(PortionsOf)
    BY <1>2 DEF W, Singles
  <2>2. Len(more[k]) = 1 /\ more[k][1].packet = kept[k] /\ more[k][1].portion = 1
    BY <1>1, <2>1, SingleFacts
  <2>3. \A w \in Seq(PortionsOf) : Len(w) = 1 => w[1] \in PortionsOf
    <3>1. ASSUME NEW w \in Seq(PortionsOf), Len(w) = 1
          PROVE  w[1] \in PortionsOf
      <4>1. 1 \in 1..Len(w)
        BY <3>1
      <4>2. QED
        BY <4>1, ElementOfSeq
    <3>2. QED
      BY <3>1
  <2>4. more[k][1] \in PortionsOf
    BY <2>1, <2>2, <2>3
  <2>5. QED
    BY <2>2, <2>4
<1>5. ASSUME NEW i \in 1..m, NEW j \in 1..m, i < j
      PROVE  Precedes(more[i][1], more[j][1])
  BY <1>4, <1>5 DEF Precedes
<1>6. InOrder(more)
  BY <1>3, <1>4, <1>5, SinglesInOrder DEF W
<1>7. Range(more) = { Single(kept[k]) : k \in 1..m }
  BY DEF Range, Singles
<1>8. QED
  BY <1>3, <1>4, <1>6, <1>7 DEF W, AreSingles

\* What the ground has sent with a frame of whole packets.
LEMMA BlockedSends ==
  ASSUME MapInv, NEW n \in BlockSizes, BlockedFrame(n)
  PROVE  /\ n \in Nat /\ Len(sent) \in Nat /\ sent' \in Seq(Seq(Nat)) /\ Len(sent') = Len(sent) + n
         /\ Len(sent') <= MaxPackets /\ Extends(sent', sent) /\ bypass' = bypass /\ Idle
         /\ \A p \in (Len(sent) + 1)..(Len(sent) + n) : Len(sent'[p]) = 1
         /\ portion \in Nat /\ portion' \in Nat /\ portion' \in 0..PortionsToSend' /\ Idle'
         /\ (n = 0 /\ portion' = portion) \/ (n > 0 /\ portion' = 1)
<1> DEFINE N == Len(sent)
           ones == [k \in 1..n |-> <<1>>]
           W == Seq(Nat)
<1>1. /\ n \in Nat /\ N \in Nat /\ sent \in Seq(W) /\ N + n <= MaxPackets /\ Idle /\ bypass' = bypass
      /\ sent' = sent \o ones /\ portion' = IF n = 0 THEN portion ELSE 1
  BY MapAssumption, LenProperties DEF MapInv, MapTypeOK, BlockedFrame, Current
<1>2. <<1>> \in W /\ Len(<<1>>) = 1
  OBVIOUS
<1>3. sent # <<>> => sent[N] \in W
  BY <1>1, EmptySeq, ElementOfSeq
<1> HIDE DEF W
<1>4. ones \in Seq(W) /\ Len(ones) = n /\ \A k \in 1..n : ones[k] = <<1>>
  BY <1>1, <1>2, IsASeq
<1> HIDE DEF ones
<1>5. /\ sent' \in Seq(W) /\ Len(sent') = N + n
      /\ \A p \in 1..(N + n) : sent'[p] = IF p <= N THEN sent[p] ELSE ones[p - N]
  BY <1>1, <1>4, ConcatProperties
<1>6. ASSUME NEW p \in (N + 1)..(N + n)
      PROVE  Len(sent'[p]) = 1
  <2>1. p \in 1..(N + n) /\ ~(p <= N) /\ p - N \in 1..n
    BY <1>1
  <2>2. sent'[p] = <<1>>
    BY <1>4, <1>5, <2>1
  <2>3. QED
    BY <1>2, <2>2
<1>7. Extends(sent', sent)
  BY <1>1, <1>5 DEF Extends
<1>8. PortionsToSend \in Nat
  BY <1>3, LenProperties DEF PortionsToSend, Last, W
<1>9. portion \in Nat /\ portion = PortionsToSend
  BY <1>1, <1>8 DEF Idle
<1>10. portion' = PortionsToSend'
  <2>1. CASE n = 0
    <3>1. sent' = sent
      BY <1>1, <1>4, <1>5, <2>1, SeqEqual
    <3>2. QED
      BY <1>1, <1>9, <2>1, <3>1 DEF PortionsToSend
  <2>2. CASE n > 0
    <3>1. sent' # <<>>
      BY <1>1, <1>5, <2>2
    <3>2. Len(sent'[N + n]) = 1
      <4>1. N + n \in (N + 1)..(N + n)
        BY <1>1, <2>2
      <4>2. QED
        BY <1>6, <4>1
    <3>3. QED
      BY <1>1, <1>5, <2>2, <3>1, <3>2 DEF PortionsToSend, Last
  <2>3. QED
    BY <1>1, <2>1, <2>2
<1>11. portion' \in Nat
  BY <1>1, <1>9
<1>12. portion' \in 0..PortionsToSend' /\ Idle'
  BY <1>10, <1>11 DEF Idle
<1>13. (n = 0 /\ portion' = portion) \/ (n > 0 /\ portion' = 1)
  BY <1>1
<1>14. Len(sent') <= MaxPackets
  BY <1>1, <1>5
<1>15. QED
  BY <1>1, <1>5, <1>6, <1>7, <1>9, <1>11, <1>12, <1>13, <1>14 DEF W

\* A frame of whole packets (unpackBlockingPackets).
LEMMA BlockedKeeps ==
  ASSUME MapInv, NEW n \in BlockSizes, BlockedFrame(n)
  PROVE  MapInv'
<1>0. PICK N, b : N = Len(sent) /\ b = N + n
  OBVIOUS
<1> DEFINE block == (N + 1)..b
<1>1. /\ n \in Nat /\ N \in Nat /\ b \in Nat /\ N <= b /\ n = b - N
      /\ sent' \in Seq(Seq(Nat)) /\ Len(sent) = N /\ Len(sent') = b
      /\ Len(sent') <= MaxPackets /\ Extends(sent', sent) /\ bypass' = bypass /\ Idle
      /\ \A p \in block : Len(sent'[p]) = 1
      /\ portion \in Nat /\ portion' \in Nat /\ portion' \in 0..PortionsToSend' /\ Idle'
      /\ (n = 0 /\ portion' = portion) \/ (n > 0 /\ portion' = 1)
  BY <1>0, BlockedSends
<1>2. /\ lastSegmentationFlag' = "NO_SEGMENTATION" /\ packetLength' = packetLength /\ packetBuffer' = packetBuffer
      /\ \E kept \in Selections(block) :
            /\ dropped' = dropped \cup (block \ Range(kept))
            /\ forwarded' = forwarded \o [k \in DOMAIN kept |-> Single(kept[k])]
  BY <1>0 DEF BlockedFrame, unpackBlockingPackets, Current, Single
<1>3. PICK kept \in Selections(block) :
            /\ dropped' = dropped \cup (block \ Range(kept))
            /\ forwarded' = forwarded \o [k \in DOMAIN kept |-> Single(kept[k])]
  BY <1>2
<1>4. PICK m \in Nat : /\ kept \in [1..m -> block] /\ Range(kept) = { kept[k] : k \in 1..m }
                       /\ \A i, j \in 1..m : i < j => kept[i] < kept[j]
  <2>1. N \in Nat /\ b \in Nat /\ kept \in Selections((N + 1)..b)
    BY <1>1
  <2>2. QED
    BY <2>1, SelectionFacts
<1>5. PICK more : more = Singles(kept, m)
  OBVIOUS
<1>6. /\ more \in Seq(Seq(PortionsOf)) /\ Len(more) = m
      /\ \A k \in 1..m : /\ Len(more[k]) = 1 /\ more[k][1] \in PortionsOf
                         /\ more[k][1].packet = kept[k] /\ more[k][1].portion = 1
      /\ InOrder(more)
      /\ Range(more) = { Single(kept[k]) : k \in 1..m }
  <2>1. block \in SUBSET Nat /\ kept \in [1..m -> block]
    BY <1>1, <1>4
  <2> HIDE DEF block
  <2>2. \A i, j \in 1..m : i < j => kept[i] < kept[j]
    BY <1>4
  <2>3. AreSingles(more, kept, m)
    BY <1>5, <2>1, <2>2, MoreInOrder
  <2>4. QED
    BY <2>3 DEF AreSingles
<1>7. forwarded' = forwarded \o more
  <2>1. DOMAIN kept = 1..m
    BY <1>4
  <2>2. QED
    BY <1>3, <1>5, <2>1 DEF Singles
<1>8. /\ MapTypeOK /\ SentOK /\ ArrivedOK /\ BufferInBounds /\ WholeOK
      /\ forwarded \in Seq(Seq(PortionsOf)) /\ Len(forwarded) \in Nat /\ dropped \subseteq 1..N
  BY <1>0, LenProperties DEF MapInv, MapTypeOK
<1> DEFINE M == Len(forwarded)
           W == Seq(PortionsOf)
<1>9. /\ forwarded' \in Seq(Seq(PortionsOf)) /\ Len(forwarded') = M + m
      /\ \A i \in 1..(M + m) : \/ i \in 1..M /\ forwarded'[i] = forwarded[i]
                               \/ i - M \in 1..m /\ forwarded'[i] = more[i - M]
  <2>1. forwarded \in Seq(W) /\ more \in Seq(W)
    BY <1>6, <1>8
  <2> HIDE DEF W
  <2>2. /\ forwarded' \in Seq(W) /\ Len(forwarded') = M + m
        /\ \A i \in 1..(M + m) : forwarded'[i] = IF i <= M THEN forwarded[i] ELSE more[i - M]
    BY <1>6, <1>7, <2>1, ConcatProperties
  <2>3. QED
    BY <1>8, <2>2 DEF W
<1>10. Range(forwarded') = Range(forwarded) \cup { Single(kept[k]) : k \in 1..m }
  <2>1. forwarded \in Seq(W) /\ more \in Seq(W)
    BY <1>6, <1>8
  <2> HIDE DEF W
  <2>2. Range(forwarded \o more) = Range(forwarded) \cup Range(more)
    BY <2>1, RangeConcatenation
  <2>3. QED
    BY <1>6, <1>7, <2>2
<1>11. MapTypeOK'
  <2>1. dropped' \subseteq 1..Len(sent')
    <3>1. 1..N \subseteq 1..b /\ block \subseteq 1..b
      <4>1. N \in Nat /\ b \in Nat /\ N <= b
        BY <1>1
      <4>2. QED
        BY <4>1
    <3>2. dropped' \subseteq dropped \cup block /\ dropped \subseteq 1..N
      BY <1>3, <1>8
    <3>3. QED
      BY <1>1, <3>1, <3>2
  <2>2. QED
    BY <1>1, <1>2, <1>8, <1>9, <2>1 DEF MapTypeOK, SegmentationFlags
<1>12. SentOK'
  <2>1. ASSUME NEW p \in 1..b
        PROVE  Len(sent'[p]) >= 1
    <3>1. CASE p \in 1..N
      BY <1>1, <1>8, <3>1 DEF SentOK, Extends
    <3>2. CASE p \in block
      <4>1. Len(sent'[p]) = 1
        BY <1>1, <3>2
      <4>2. QED
        BY <4>1
    <3>3. QED
      BY <1>1, <3>1, <3>2
  <2>2. QED
    BY <1>1, <2>1 DEF SentOK
<1>13. ASSUME NEW d \in PortionsOf, Arrived(sent, portion, d)
       PROVE  Arrived(sent', portion', d)
  <2>1. Len(sent') # Len(sent) \/ portion <= portion'
    BY <1>1
  <2>2. QED
    BY <1>1, <1>13, <2>1, ArrivedLater
<1>14. ArrivedOK'
  <2>1. ASSUME NEW i \in 1..Len(packetBuffer)
        PROVE  Arrived(sent', portion', packetBuffer[i])
    BY <1>8, <1>13, ElementOfSeq DEF ArrivedOK, MapTypeOK
  <2>2. ASSUME NEW i \in 1..(M + m), NEW k \in 1..Len(forwarded'[i])
        PROVE  Arrived(sent', portion', forwarded'[i][k])
    <3>1. CASE i \in 1..M /\ forwarded'[i] = forwarded[i]
      BY <1>13, <3>1, ForwardedArrived
    <3>2. CASE i - M \in 1..m /\ forwarded'[i] = more[i - M]
      <4>1. Len(forwarded'[i]) = 1
        BY <1>6, <3>2
      <4>2. k = 1
        <5>1. k \in 1..1
          BY ONLY <4>1, k \in 1..Len(forwarded'[i]), Zenon
        <5>2. QED
          BY ONLY <5>1
      <4>3. forwarded'[i][1].packet \in block /\ forwarded'[i][1].portion = 1
        BY <1>4, <1>6, <3>2
      <4>4. ASSUME NEW d, d.packet \in block, d.portion = 1
            PROVE  Arrived(sent', portion', d)
        <5>1. d.packet \in 1..b /\ Len(sent'[d.packet]) = 1 /\ n > 0 /\ portion' = 1 /\ Len(sent') = b
          BY <1>1, <4>4
        <5>2. QED
          BY <4>4, <5>1 DEF Arrived
      <4>5. QED
        BY <4>2, <4>3, <4>4
    <3>3. QED
      BY <1>9, <3>1, <3>2
  <2>3. QED
    BY <1>2, <1>9, <2>1, <2>2 DEF ArrivedOK
<1>15. BufferInBounds'
  BY <1>1, <1>2, <1>8, BufferStays
<1>16. PortionsOnceInOrder'
  <2>1. InOrder(forwarded)
    BY <1>8, OrderIsInOrder DEF MapInv, PortionsOnceInOrder
  <2>2. ASSUME NEW i \in 1..M, NEW k \in 1..Len(forwarded[i]), NEW j \in 1..m, NEW l \in 1..Len(more[j])
        PROVE  Precedes(forwarded[i][k], more[j][l])
    <3>1. forwarded[i][k] \in PortionsOf /\ forwarded[i][k].packet \in 1..N
      BY <1>1, ForwardedArrived DEF Arrived
    <3>2. l = 1
      <4>1. Len(more[j]) = 1
        BY <1>6
      <4>2. l \in 1..1
        BY ONLY <4>1, l \in 1..Len(more[j]), Zenon
      <4>3. QED
        BY ONLY <4>2
    <3>3. more[j][1].packet \in block
      BY <1>4, <1>6
    <3>4. forwarded[i][k].packet < more[j][1].packet
      <4>1. \A x \in 1..N, y \in block : x < y
        BY <1>1
      <4>2. QED
        BY <3>1, <3>3, <4>1
    <3>5. QED
      BY <3>2, <3>4 DEF Precedes
  <2>3. InOrder(forwarded \o more)
    BY <1>6, <1>8, <2>1, <2>2, ConcatInOrder
  <2>4. QED
    BY <1>7, <1>9, <2>3, OrderIsInOrder DEF PortionsOnceInOrder
<1>17. BufferOrder'
  BY <1>2 DEF BufferOrder, ExpectsMore, MapInv
<1>18. WholeOK'
  <2>1. ASSUME NEW p \in 1..N, Fits(p)', ~bypass
        PROVE  Accounted(p)'
    <3>1. Whole(p)' = Whole(p) /\ Fits(p)
      BY <1>1, <1>8, <2>1, PacketsStay
    <3>2. Accounted(p)
      BY <1>1, <1>8, <2>1, <3>1 DEF WholeOK
    <3>3. Whole(p) \notin { Single(kept[k]) : k \in 1..m }
      <4>1. ASSUME NEW k \in 1..m, Whole(p) = Single(kept[k])
            PROVE  FALSE
        <5>1. \A i \in DOMAIN Whole(p) : Whole(p)[i].packet = p
          BY DEF Whole, Portion
        <5>2. kept[k] \in block
          BY <1>4
        <5>3. 1 \in DOMAIN Single(kept[k]) /\ Single(kept[k])[1].packet = kept[k]
          BY DEF Single, Portion
        <5>4. QED
          BY <1>1, <4>1, <5>1, <5>2, <5>3
      <4>2. QED
        BY <4>1
    <3>4. p \in dropped' <=> p \in dropped
      BY <1>1, <1>3
    <3>5. QED
      BY <1>10, <3>1, <3>2, <3>3, <3>4 DEF Accounted
  <2>2. ASSUME NEW p \in block
        PROVE  Accounted(p)'
    <3>1. Whole(p)' = Single(p)
      <4>1. Len(sent'[p]) = 1
        BY <1>1
      <4>2. QED
        BY <4>1 DEF Whole, Single
    <3>2. Single(p) \notin Range(forwarded)
      <4>1. ASSUME NEW i \in 1..M, forwarded[i] = Single(p)
            PROVE  FALSE
        <5>1. Len(Single(p)) = 1 /\ Single(p)[1].packet = p
          <6>1. p \in Nat
            BY <1>1
          <6>2. QED
            BY ONLY <6>1, SingleFacts
        <5>2. Arrived(sent, portion, forwarded[i][1])
          <6>1. 1 \in 1..Len(forwarded[i])
            BY <4>1, <5>1
          <6>2. QED
            BY <6>1, ForwardedArrived
        <5>3. QED
          BY <1>1, <4>1, <5>1, <5>2 DEF Arrived
      <4>2. QED
        BY <1>8, <4>1, RangeEquality
    <3>3. p \notin dropped
      BY <1>1, <1>8
    <3>4. Single(p) \in { Single(kept[k]) : k \in 1..m } <=> p \in Range(kept)
      <4>1. ASSUME NEW k \in 1..m, Single(p) = Single(kept[k])
            PROVE  p = kept[k]
        BY <4>1 DEF Single, Portion
      <4>2. QED
        BY <1>4, <4>1
    <3>5. QED
      BY <1>3, <1>10, <3>1, <3>2, <3>3, <3>4 DEF Accounted
  <2>3. QED
    BY <1>1, <2>1, <2>2 DEF WholeOK
<1>19. QED
  BY <1>11, <1>12, <1>14, <1>15, <1>16, <1>17, <1>18 DEF MapInv

-----------------------------------------------------------------------------
\* The channel starts with an empty buffer.
LEMMA MapInitial ==
  ASSUME MapInit
  PROVE  MapInv
<1>1. /\ lastSegmentationFlag = "NO_SEGMENTATION" /\ packetLength = 0 /\ packetBuffer = <<>>
      /\ forwarded = <<>> /\ dropped = {} /\ sent = <<>> /\ portion = 0 /\ bypass \in BOOLEAN
  BY DEF MapInit
<1>2. Len(sent) = 0 /\ Len(packetBuffer) = 0 /\ Len(forwarded) = 0 /\ PortionsToSend = 0 /\ Idle
  BY <1>1 DEF PortionsToSend, Idle
<1>3. MapTypeOK
  BY <1>1, <1>2, MapAssumption DEF MapTypeOK, SegmentationFlags
<1>4. SentOK /\ ArrivedOK /\ BufferOrder /\ WholeOK
  BY <1>1, <1>2 DEF SentOK, ArrivedOK, BufferOrder, WholeOK
<1>5. BufferInBounds
  <2>1. SizeOfAll(packetBuffer) = Total(<<>>)
    BY <1>1 DEF SizeOfAll
  <2>2. QED
    BY <1>1, <2>1, TotalEmpty, MapAssumption DEF BufferInBounds
<1>6. PortionsOnceInOrder
  BY <1>1 DEF PortionsOnceInOrder
<1>7. QED
  BY <1>3, <1>4, <1>5, <1>6 DEF MapInv

\* Every frame keeps the invariant.
LEMMA MapInductive == MapInv /\ [MapNext]_extractionVars => MapInv'
<1> SUFFICES ASSUME MapInv, [MapNext]_extractionVars
             PROVE  MapInv'
  OBVIOUS
<1>1. ASSUME NEW s \in Shapes, BeginPacket(s)
      PROVE  MapInv'
  BY <1>1, BeginKeeps
<1>2. ASSUME NEW n \in BlockSizes, BlockedFrame(n)
      PROVE  MapInv'
  BY <1>2, BlockedKeeps
<1>3. CASE SegmentFrame
  BY <1>3, SegmentKeeps
<1>4. CASE MissingFrame
  BY <1>4, MissingKeeps
<1>5. CASE UNCHANGED extractionVars
  <2>1. /\ UNCHANGED <<lastSegmentationFlag, packetLength, packetBuffer, forwarded, dropped>>
        /\ UNCHANGED <<sent, portion, bypass>>
    BY <1>5 DEF extractionVars, channelVars, senderVars
  <2>2. PortionsToSend' = PortionsToSend /\ (Idle' <=> Idle) /\ (ExpectsMore' <=> ExpectsMore) /\ Current' = Current
    BY <2>1 DEF PortionsToSend, Idle, ExpectsMore, Current
  <2>3. \A p : (Fits(p)' <=> Fits(p)) /\ (Accounted(p)' <=> Accounted(p))
    BY <2>1 DEF Fits, Accounted, Whole, SizeOfAll, SizeOf
  <2>4. MapTypeOK' /\ SentOK' /\ ArrivedOK'
    BY <2>1, <2>2 DEF MapInv, MapTypeOK, SentOK, ArrivedOK
  <2>5. BufferInBounds' /\ PortionsOnceInOrder' /\ BufferOrder'
    BY <2>1, <2>2 DEF MapInv, BufferInBounds, PortionsOnceInOrder, BufferOrder, SizeOfAll, SizeOf
  <2>6. WholeOK'
    BY <2>1, <2>2, <2>3 DEF MapInv, WholeOK
  <2>7. QED
    BY <2>4, <2>5, <2>6 DEF MapInv
<1>6. QED
  BY <1>1, <1>2, <1>3, <1>4, <1>5 DEF MapNext

\* The invariant holds in every behaviour.
LEMMA MapInvariant == MapSpec => []MapInv
<1>1. MapInit => MapInv
  BY MapInitial
<1>2. QED
  BY <1>1, MapInductive, PTL DEF MapSpec

\* Between packets nothing is in the buffer that matters.
LEMMA MapInvGivesAccounted == MapInv => FittingPacketsAccounted
<1>1. ASSUME MapInv, Idle, ~bypass, NEW p \in DOMAIN sent, Fits(p)
      PROVE  (Whole(p) \in Range(forwarded)) # (p \in dropped)
  <2>1. p \in 1..Len(sent)
    BY <1>1, LenProperties DEF MapInv, MapTypeOK
  <2>2. QED
    BY <1>1, <2>1 DEF MapInv, WholeOK, Accounted
<1>2. QED
  BY <1>1 DEF FittingPacketsAccounted

\* The members of MapPacketExtraction and what it has forwarded keep their
\* types, for every buffer size, every shape of packets and every loss.
THEOREM MapTypeCorrect == MapSpec => []MapTypeOK
BY MapInvariant, PTL DEF MapInv

\* packetLength is the size of what is in packetBuffer and never exceeds
\* MAX_PACKET_SIZE: no sequence of first, continuing and last portions, in
\* order or with frames missing, makes extractPackets write past the buffer.
THEOREM BufferAlwaysInBounds == MapSpec => []BufferInBounds
BY MapInvariant, PTL DEF MapInv

\* What sendCompletePacket hands to the distributor is in the order of the
\* ground, and no portion is handed over twice, in one packet or in two.
THEOREM PortionsAlwaysInOrder == MapSpec => []PortionsOnceInOrder
BY MapInvariant, PTL DEF MapInv

\* Without losses, a packet that fits the buffer is forwarded whole, or was
\* refused by the store or the queue; never both, and never neither.
THEOREM FittingAlwaysAccounted == MapSpec => []FittingPacketsAccounted
BY MapInvariant, MapInvGivesAccounted, PTL

-----------------------------------------------------------------------------
(* The schedule (module Scheduling).  The inductive invariant: the map is in  *)
(* the order of its times and has each telecommand once; what is in it is     *)
(* scheduled, at the time the ground asked for unless a filter has mistreated *)
(* it, and nothing that is scheduled is missing but what a filter has lost;   *)
(* what is in the queue is released.  The order is what makes the release     *)
(* take the due ones, and the single occurrence is what makes the removal of  *)
(* an entry the end of its telecommand.                                       *)

InTimeOrder(s) == \A i, j \in 1..Len(s) : i < j => s[i].time <= s[j].time
EachOnce(s) == \A i, j \in 1..Len(s) : s[i].tc = s[j].tc => i = j
ScheduleFates ==
    /\ \A i \in 1..Len(telecommandMap) :
          /\ fate[telecommandMap[i].tc] = "SCHEDULED"
          /\ telecommandMap[i].tc \notin strayed => telecommandMap[i].time = due[telecommandMap[i].tc]
    /\ \A a \in Activities \ strayed : fate[a] = "SCHEDULED" => a \in Scheduled
QueueFates ==
    /\ \A i \in 1..Len(queue) : fate[queue[i]] = "RELEASED"
    /\ \A i, j \in 1..Len(queue) : queue[i] = queue[j] => i = j
ScheduleInv ==
    /\ TypeOK /\ InTimeOrder(telecommandMap) /\ EachOnce(telecommandMap)
    /\ ScheduleFates /\ QueueFates /\ StoreMatchesSchedule

Rows == [time : Times, tc : Activities]

-----------------------------------------------------------------------------
(* Positions in the map *)

\* What is known of the entries of a map.
LEMMA RowFacts ==
  ASSUME NEW s \in Seq(Rows)
  PROVE  /\ Len(s) \in Nat
         /\ \A i \in 1..Len(s) : /\ s[i] \in Rows /\ s[i].time \in Times /\ s[i].tc \in Activities
                                 /\ s[i].time \in Int /\ s[i].time >= 0 /\ s[i].time < TimeRange
<1>1. Len(s) \in Nat
  BY LenProperties
<1>2. ASSUME NEW i \in 1..Len(s)
      PROVE  s[i] \in Rows
  BY ElementOfSeq
<1>3. \A e \in Rows : /\ e.time \in Times /\ e.tc \in Activities
                      /\ e.time \in Int /\ e.time >= 0 /\ e.time < TimeRange
  BY SchedulingAssumption DEF Rows, Times
<1>4. QED
  BY <1>1, <1>2, <1>3

\* The search for the first later entry ends.
LEMMA FirstAboveFacts ==
  ASSUME NEW s \in Seq(Rows), NEW b \in 1..(Len(s) + 1), NEW t \in Int, NEW i, i = FirstAbove(s, b, t)
  PROVE  /\ i \in b..(Len(s) + 1)
         /\ i <= Len(s) => s[i].time > t
         /\ \A j \in b..(i - 1) : s[j].time <= t
<1> DEFINE n == Len(s) + 1
           G == { j \in b..n : j <= Len(s) /\ s[j].time > t }
<1>1. Len(s) \in Nat /\ b \in Nat /\ n \in Nat /\ b <= n
  BY LenProperties
<1>2. PICK k \in b..n : (k < n => k \in G) /\ \A j \in b..(k - 1) : j \notin G
  <2>1. G \in SUBSET (b..n)
    OBVIOUS
  <2> HIDE DEF G, n
  <2>2. QED
    BY <1>1, <2>1, FirstPosition
<1>3. k <= Len(s) => s[k].time > t
  BY <1>1, <1>2
<1>4. ASSUME NEW j \in b..(k - 1)
      PROVE  s[j].time <= t
  <2>1. j \in b..n /\ j <= Len(s) /\ j \in 1..Len(s)
    BY <1>1
  <2>2. s[j].time \in Int
    BY <2>1, RowFacts
  <2>3. ~(s[j].time > t)
    BY <1>2, <2>1
  <2>4. QED
    BY <2>2, <2>3
<1>5. \E m \in b..(Len(s) + 1) : /\ m <= Len(s) => s[m].time > t
                                 /\ \A j \in b..(m - 1) : s[j].time <= t
  BY <1>3, <1>4
<1>6. QED
  BY <1>5 DEF FirstAbove

-----------------------------------------------------------------------------
(* Entries put in and taken out *)

\* What is true of s with e put in at position k.
PutIn(s, k, e, u) ==
    /\ u \in Seq(Rows) /\ Len(u) = Len(s) + 1 /\ u[k] = e
    /\ \A i \in 1..(k - 1) : u[i] = s[i]
    /\ \A i \in k..Len(s) : u[i + 1] = s[i]

\* Putting an entry in.
LEMMA InsertAtPuts ==
  ASSUME NEW s \in Seq(Rows), NEW k \in 1..(Len(s) + 1), NEW e \in Rows, NEW u, u = InsertAt(s, k, e)
  PROVE  PutIn(s, k, e, u)
<1> DEFINE n == Len(s)
<1>1. PICK a, b, o : a = SubSeq(s, 1, k - 1) /\ b = SubSeq(s, k, n) /\ o = <<e>>
  OBVIOUS
<1>2. n \in Nat /\ k \in Int /\ \A i \in 1..n : s[i] \in Rows
  BY RowFacts
<1>3. a \in Seq(Rows) /\ Len(a) = k - 1 /\ \A i \in 1..(k - 1) : a[i] = s[i]
  <2>1. 1 \in 1..(n + 1) /\ k - 1 \in (1 - 1)..n
    BY <1>2
  <2>2. /\ a \in Seq(Rows) /\ Len(a) = (k - 1) - 1 + 1
        /\ \A i \in 1..((k - 1) - 1 + 1) : a[i] = s[1 + i - 1]
    BY <1>1, <2>1, Sliced
  <2>3. (k - 1) - 1 + 1 = k - 1 /\ \A i \in 1..(k - 1) : 1 + i - 1 = i
    BY <1>2
  <2>4. QED
    BY <2>2, <2>3
<1>4. b \in Seq(Rows) /\ Len(b) = n - k + 1 /\ \A i \in 1..(n - k + 1) : b[i] = s[k + i - 1]
  <2>1. n \in (k - 1)..n
    BY <1>2
  <2>2. QED
    BY <1>1, <2>1, Sliced
<1>5. o \in Seq(Rows) /\ Len(o) = 1 /\ o[1] = e
  BY <1>1
<1>6. PICK c : c = a \o o
  OBVIOUS
<1>7. u = c \o b
  BY <1>1, <1>6 DEF InsertAt
<1>8. /\ c \in Seq(Rows) /\ Len(c) = k - 1 + 1
      /\ \A i \in 1..(k - 1) : c[i] = a[i]
      /\ c[k - 1 + 1] = o[1]
  <2>0. a \in Seq(Rows) /\ o \in Seq(Rows)
    BY <1>3, <1>5
  <2>1. /\ c \in Seq(Rows) /\ Len(c) = Len(a) + Len(o)
        /\ \A i \in 1..Len(a) : c[i] = a[i]
        /\ \A i \in 1..Len(o) : c[Len(a) + i] = o[i]
    BY <1>6, <2>0, Joined
  <2>2. 1 \in 1..Len(o)
    BY <1>5
  <2>3. QED
    BY <1>3, <1>5, <2>1, <2>2
<1>9. c \in Seq(Rows) /\ Len(c) = k /\ c[k] = e /\ \A i \in 1..(k - 1) : c[i] = s[i]
  BY <1>2, <1>3, <1>5, <1>8
<1>10. /\ u \in Seq(Rows) /\ Len(u) = k + (n - k + 1)
       /\ \A i \in 1..k : u[i] = c[i]
       /\ \A i \in 1..(n - k + 1) : u[k + i] = b[i]
  BY <1>4, <1>7, <1>9, Joined
<1>11. ASSUME NEW i \in k..n
       PROVE  u[i + 1] = s[i]
  <2>1. i + 1 - k \in 1..(n - k + 1) /\ k + (i + 1 - k) = i + 1 /\ k + (i + 1 - k) - 1 = i
    BY <1>2
  <2>2. QED
    BY <1>4, <1>10, <2>1
<1>12. u[k] = e /\ \A i \in 1..(k - 1) : u[i] = s[i]
  BY <1>2, <1>9, <1>10
<1>13. Len(u) = n + 1
  BY <1>2, <1>10
<1>14. QED
  BY <1>10, <1>11, <1>12, <1>13 DEF PutIn

\* Where each entry of the longer sequence comes from.
CameFrom(s, k, e, u, i) ==
    \/ i = k /\ u[i] = e
    \/ i < k /\ i \in 1..Len(s) /\ u[i] = s[i]
    \/ i > k /\ i - 1 \in k..Len(s) /\ i - 1 \in 1..Len(s) /\ u[i] = s[i - 1]

\* Every entry has come from somewhere.
LEMMA PutInFrom ==
  ASSUME NEW s \in Seq(Rows), NEW k \in 1..(Len(s) + 1), NEW e \in Rows, NEW u, PutIn(s, k, e, u),
         NEW i \in 1..Len(u)
  PROVE  CameFrom(s, k, e, u, i)
<1>1. Len(s) \in Nat /\ Len(u) = Len(s) + 1
  BY RowFacts DEF PutIn
<1>2. CASE i < k
  BY <1>1, <1>2 DEF PutIn, CameFrom
<1>3. CASE i > k
  <2>1. i - 1 \in k..Len(s) /\ i - 1 \in 1..Len(s) /\ (i - 1) + 1 = i
    BY <1>1, <1>3
  <2>2. QED
    BY <1>3, <2>1 DEF PutIn, CameFrom
<1>4. CASE i = k
  BY <1>4 DEF PutIn, CameFrom
<1>5. QED
  BY <1>1, <1>2, <1>3, <1>4

\* Putting one in loses no other.
LEMMA PutInEntries ==
  ASSUME NEW s \in Seq(Rows), NEW k \in 1..(Len(s) + 1), NEW e \in Rows, NEW u, PutIn(s, k, e, u)
  PROVE  /\ Entries(u) = Entries(s) \cup {e.tc}
         /\ \A i \in 1..Len(s) : \E j \in 1..Len(u) : u[j] = s[i]
         /\ \A j \in 1..Len(u) : u[j] = e \/ \E i \in 1..Len(s) : u[j] = s[i]
<1>1. Len(s) \in Nat /\ Len(u) = Len(s) + 1 /\ u[k] = e /\ k \in 1..Len(u)
  BY RowFacts DEF PutIn
<1>2. ASSUME NEW i \in 1..Len(s)
      PROVE  \E j \in 1..Len(u) : u[j] = s[i]
  <2>1. CASE i < k
    <3>1. i \in 1..(k - 1) /\ i \in 1..Len(u)
      BY <1>1, <2>1
    <3>2. QED
      BY <3>1 DEF PutIn
  <2>2. CASE ~(i < k)
    <3>1. i \in k..Len(s) /\ i + 1 \in 1..Len(u)
      BY <1>1, <2>2
    <3>2. QED
      BY <3>1 DEF PutIn
  <2>3. QED
    BY <2>1, <2>2
<1>3. ASSUME NEW j \in 1..Len(u)
      PROVE  u[j] = e \/ \E i \in 1..Len(s) : u[j] = s[i]
  BY PutInFrom DEF CameFrom
<1>4. Entries(u) \subseteq Entries(s) \cup {e.tc}
  BY <1>3 DEF Entries
<1>5. Entries(s) \cup {e.tc} \subseteq Entries(u)
  BY <1>1, <1>2 DEF Entries
<1>6. QED
  BY <1>2, <1>3, <1>4, <1>5

\* The entries with a time above t come last.
Splits(s, k, t) ==
    /\ k \in 1..(Len(s) + 1)
    /\ \A i \in 1..(k - 1) : s[i].time <= t
    /\ \A i \in k..Len(s) : s[i].time > t

\* The search splits a map in order.
LEMMA FirstAboveSplits ==
  ASSUME NEW s \in Seq(Rows), InTimeOrder(s), NEW t \in Int
  PROVE  Splits(s, FirstAbove(s, 1, t), t)
<1>1. PICK k : k = FirstAbove(s, 1, t)
  OBVIOUS
<1>2. Len(s) \in Nat /\ 1 \in 1..(Len(s) + 1)
  BY RowFacts
<1>3. /\ k \in 1..(Len(s) + 1)
      /\ k <= Len(s) => s[k].time > t
      /\ \A j \in 1..(k - 1) : s[j].time <= t
  BY <1>1, <1>2, FirstAboveFacts
<1>4. ASSUME NEW i \in k..Len(s)
      PROVE  s[i].time > t
  <2>1. i \in 1..Len(s) /\ k \in 1..Len(s) /\ (i = k \/ k < i) /\ s[k].time > t
    BY <1>2, <1>3
  <2>2. s[i].time \in Int /\ s[k].time \in Int
    BY <2>1, RowFacts
  <2>3. s[k].time <= s[i].time
    BY <2>1, <2>2 DEF InTimeOrder
  <2>4. QED
    BY <2>1, <2>2, <2>3
<1>5. QED
  BY <1>1, <1>3, <1>4 DEF Splits

\* Put in behind those that are not later, an entry keeps the order.
LEMMA PutInOrder ==
  ASSUME NEW s \in Seq(Rows), InTimeOrder(s), NEW e \in Rows, NEW k, Splits(s, k, e.time), NEW u, PutIn(s, k, e, u)
  PROVE  InTimeOrder(u)
<1>1. k \in 1..(Len(s) + 1) /\ Len(s) \in Nat /\ e.time \in Int
  BY RowFacts, SchedulingAssumption DEF Splits, Rows, Times
<1>2. ASSUME NEW i \in 1..Len(u), NEW j \in 1..Len(u), i < j
      PROVE  u[i].time <= u[j].time
  <2>1. \/ i = k /\ u[i] = e
        \/ i < k /\ i \in 1..Len(s) /\ u[i] = s[i]
        \/ i > k /\ i - 1 \in k..Len(s) /\ i - 1 \in 1..Len(s) /\ u[i] = s[i - 1]
    BY <1>1, PutInFrom DEF CameFrom
  <2>2. \/ j = k /\ u[j] = e
        \/ j < k /\ j \in 1..Len(s) /\ u[j] = s[j]
        \/ j > k /\ j - 1 \in k..Len(s) /\ j - 1 \in 1..Len(s) /\ u[j] = s[j - 1]
    BY <1>1, PutInFrom DEF CameFrom
  <2>3. CASE i = k
    <3>1. u[i] = e /\ j - 1 \in k..Len(s) /\ j - 1 \in 1..Len(s) /\ u[j] = s[j - 1]
      BY <1>1, <1>2, <2>1, <2>2, <2>3
    <3>2. s[j - 1].time > e.time /\ s[j - 1].time \in Int
      BY <3>1, RowFacts DEF Splits
    <3>3. QED
      BY <1>1, <3>1, <3>2
  <2>4. CASE j = k
    <3>1. u[j] = e /\ i \in 1..(k - 1) /\ u[i] = s[i]
      BY <1>1, <1>2, <2>1, <2>2, <2>4
    <3>2. QED
      BY <3>1 DEF Splits
  <2>5. CASE i # k /\ j # k
    <3>1. PICK x, y \in 1..Len(s) : x < y /\ u[i] = s[x] /\ u[j] = s[y]
      <4>1. CASE j < k
        BY <1>1, <1>2, <2>1, <2>2, <4>1
      <4>2. CASE i > k
        <5>1. i - 1 < j - 1 /\ j > k
          BY <1>1, <1>2, <4>2
        <5>2. i - 1 \in 1..Len(s) /\ u[i] = s[i - 1] /\ j - 1 \in 1..Len(s) /\ u[j] = s[j - 1]
          BY <1>1, <2>1, <2>2, <4>2, <5>1
        <5>3. QED
          BY <5>1, <5>2
      <4>3. CASE i < k /\ j > k
        <5>1. i < j - 1
          BY <1>1, <4>3
        <5>2. QED
          BY <2>1, <2>2, <4>3, <5>1
      <4>4. QED
        BY <1>1, <1>2, <2>5, <4>1, <4>2, <4>3
    <3>2. QED
      BY <3>1 DEF InTimeOrder
  <2>6. QED
    BY <2>3, <2>4, <2>5
<1>3. QED
  BY <1>2 DEF InTimeOrder

\* What is true of s with e put in where its time belongs.
PlacedIn(s, e, u) ==
    /\ u \in Seq(Rows) /\ Len(u) = Len(s) + 1 /\ InTimeOrder(u)
    /\ Entries(u) = Entries(s) \cup {e.tc}
    /\ \A i \in 1..Len(s) : \E j \in 1..Len(u) : u[j] = s[i]
    /\ \A j \in 1..Len(u) : u[j] = e \/ \E i \in 1..Len(s) : u[j] = s[i]
    /\ \E k : Splits(s, k, e.time) /\ PutIn(s, k, e, u)

\* etl::multimap::insert.
LEMMA InsertedFacts ==
  ASSUME NEW s \in Seq(Rows), InTimeOrder(s), NEW e \in Rows, NEW u, u = Inserted(s, e)
  PROVE  PlacedIn(s, e, u)
<1>1. PICK k : k = FirstAbove(s, 1, e.time)
  OBVIOUS
<1>2. e.time \in Int
  BY SchedulingAssumption DEF Rows, Times
<1>3. Splits(s, k, e.time)
  BY <1>1, <1>2, FirstAboveSplits
<1>4. k \in 1..(Len(s) + 1) /\ u = InsertAt(s, k, e)
  BY <1>1, <1>3 DEF Splits, Inserted
<1>5. PutIn(s, k, e, u)
  BY <1>4, InsertAtPuts
<1>6. InTimeOrder(u)
  BY <1>3, <1>5, PutInOrder
<1>7. /\ Entries(u) = Entries(s) \cup {e.tc}
      /\ \A i \in 1..Len(s) : \E j \in 1..Len(u) : u[j] = s[i]
      /\ \A j \in 1..Len(u) : u[j] = e \/ \E i \in 1..Len(s) : u[j] = s[i]
  BY <1>4, <1>5, PutInEntries
<1>8. u \in Seq(Rows) /\ Len(u) = Len(s) + 1
  BY <1>5 DEF PutIn
<1>9. \E m : Splits(s, m, e.time) /\ PutIn(s, m, e, u)
  BY <1>3, <1>5
<1>10. QED
  BY <1>6, <1>7, <1>8, <1>9 DEF PlacedIn

\* What is true of s without the positions from a up to b.
TakenOut(s, a, b, u) ==
    /\ u \in Seq(Rows) /\ Len(u) = Len(s) - (b - a)
    /\ \A i \in 1..(a - 1) : u[i] = s[i]
    /\ \A i \in a..Len(u) : u[i] = s[i + (b - a)]

Cut(s, a, b) == SubSeq(s, 1, a - 1) \o SubSeq(s, b, Len(s))

\* Erasing a range of positions.
LEMMA CutTakesOut ==
  ASSUME NEW s \in Seq(Rows), NEW a \in 1..(Len(s) + 1), NEW b \in a..(Len(s) + 1),
         NEW u, u = Cut(s, a, b)
  PROVE  TakenOut(s, a, b, u)
<1> DEFINE n == Len(s)
<1>1. PICK x, y : x = SubSeq(s, 1, a - 1) /\ y = SubSeq(s, b, n)
  OBVIOUS
<1>2. n \in Nat /\ a \in Int /\ b \in Int /\ b \in 1..(n + 1)
  BY RowFacts
<1>3. x \in Seq(Rows) /\ Len(x) = a - 1 /\ \A i \in 1..(a - 1) : x[i] = s[i]
  <2>1. 1 \in 1..(n + 1) /\ a - 1 \in (1 - 1)..n
    BY <1>2
  <2>2. /\ x \in Seq(Rows) /\ Len(x) = (a - 1) - 1 + 1
        /\ \A i \in 1..((a - 1) - 1 + 1) : x[i] = s[1 + i - 1]
    BY <1>1, <2>1, Sliced
  <2>3. (a - 1) - 1 + 1 = a - 1 /\ \A i \in 1..(a - 1) : 1 + i - 1 = i
    BY <1>2
  <2>4. QED
    BY <2>2, <2>3
<1>4. y \in Seq(Rows) /\ Len(y) = n - b + 1 /\ \A i \in 1..(n - b + 1) : y[i] = s[b + i - 1]
  <2>1. n \in (b - 1)..n
    BY <1>2
  <2>2. QED
    BY <1>1, <1>2, <2>1, Sliced
<1>5. u = x \o y /\ x \in Seq(Rows) /\ y \in Seq(Rows)
  BY <1>1, <1>3, <1>4 DEF Cut
<1>6. /\ u \in Seq(Rows) /\ Len(u) = Len(x) + Len(y)
      /\ \A i \in 1..Len(x) : u[i] = x[i]
      /\ \A i \in 1..Len(y) : u[Len(x) + i] = y[i]
  BY <1>5, Joined
<1>7. Len(u) = n - (b - a)
  BY <1>2, <1>3, <1>4, <1>6
<1>8. ASSUME NEW i \in a..Len(u)
      PROVE  u[i] = s[i + (b - a)]
  <2>1. i - a + 1 \in 1..(n - b + 1) /\ (a - 1) + (i - a + 1) = i /\ b + (i - a + 1) - 1 = i + (b - a)
    BY <1>2, <1>7
  <2>2. u[(a - 1) + (i - a + 1)] = y[i - a + 1]
    BY <1>3, <1>4, <1>6, <2>1
  <2>3. QED
    BY <1>4, <2>1, <2>2
<1>9. \A i \in 1..(a - 1) : u[i] = s[i]
  BY <1>3, <1>6
<1>10. QED
  BY <1>6, <1>7, <1>8, <1>9 DEF TakenOut

\* The others stay, and nothing else is there.
OthersStay(s, a, b, u) ==
    /\ \A i \in 1..Len(u) : \E x \in 1..Len(s) : (x < a \/ x >= b) /\ u[i] = s[x]
    /\ \A x \in 1..Len(s) : x < a \/ x >= b => \E i \in 1..Len(u) : u[i] = s[x]

\* What is left after it is in order, and once each.
LEMMA TakenOutFacts ==
  ASSUME NEW s \in Seq(Rows), NEW a \in 1..(Len(s) + 1), NEW b \in a..(Len(s) + 1), NEW u, TakenOut(s, a, b, u)
  PROVE  /\ OthersStay(s, a, b, u)
         /\ InTimeOrder(s) => InTimeOrder(u)
         /\ EachOnce(s) => EachOnce(u)
<1> DEFINE n == Len(s)
           d == b - a
<1>1. n \in Nat /\ a \in Int /\ b \in Int /\ d \in Nat /\ Len(u) = n - d /\ Len(u) \in Nat /\ b = a + d /\ d <= n
      /\ a <= Len(u) + 1
  BY RowFacts DEF TakenOut
<1>2. /\ \A i \in 1..(a - 1) : u[i] = s[i]
      /\ \A i \in a..Len(u) : u[i] = s[i + d]
  BY DEF TakenOut
<1> HIDE DEF d, n
<1>3. ASSUME NEW i \in 1..Len(u), NEW j \in 1..Len(u), i < j
      PROVE  \E x, y \in 1..n : x < y /\ u[i] = s[x] /\ u[j] = s[y]
  <2>1. CASE j < a
    <3>1. i \in 1..(a - 1) /\ j \in 1..(a - 1) /\ i \in 1..n /\ j \in 1..n
      BY <1>1, <1>3, <2>1
    <3>2. QED
      BY <1>2, <1>3, <3>1
  <2>2. CASE i < a /\ j >= a
    <3>1. i \in 1..(a - 1) /\ j \in a..Len(u) /\ i \in 1..n /\ j + d \in 1..n /\ i < j + d
      BY <1>1, <1>3, <2>2
    <3>2. QED
      BY <1>2, <3>1
  <2>3. CASE i >= a
    <3>1. i \in a..Len(u) /\ j \in a..Len(u) /\ i + d \in 1..n /\ j + d \in 1..n /\ i + d < j + d
      BY <1>1, <1>3, <2>3
    <3>2. QED
      BY <1>2, <3>1
  <2>4. QED
    BY <1>1, <2>1, <2>2, <2>3
<1>4. ASSUME NEW i \in 1..Len(u)
      PROVE  \E x \in 1..n : (x < a \/ x >= b) /\ u[i] = s[x]
  <2>1. CASE i < a
    <3>1. i \in 1..(a - 1) /\ i \in 1..n
      BY <1>1, <2>1
    <3>2. QED
      BY <1>2, <2>1, <3>1
  <2>2. CASE i >= a
    <3>1. i \in a..Len(u) /\ i + d \in 1..n /\ i + d >= b
      BY <1>1, <2>2
    <3>2. QED
      BY <1>2, <3>1
  <2>3. QED
    BY <1>1, <2>1, <2>2
<1>5. ASSUME NEW x \in 1..n, x < a \/ x >= b
      PROVE  \E i \in 1..Len(u) : u[i] = s[x]
  <2>1. CASE x < a
    <3>1. x \in 1..(a - 1) /\ x \in 1..Len(u)
      BY <1>1, <2>1
    <3>2. QED
      BY <1>2, <3>1
  <2>2. CASE x >= b
    <3>1. x - d \in a..Len(u) /\ x - d \in 1..Len(u) /\ (x - d) + d = x
      BY <1>1, <2>2
    <3>2. QED
      BY <1>2, <3>1
  <2>3. QED
    BY <1>5, <2>1, <2>2
<1>6. ASSUME InTimeOrder(s), NEW i \in 1..Len(u), NEW j \in 1..Len(u), i < j
      PROVE  u[i].time <= u[j].time
  BY <1>3, <1>6 DEF InTimeOrder, n
<1>7. ASSUME EachOnce(s), NEW i \in 1..Len(u), NEW j \in 1..Len(u), u[i].tc = u[j].tc
      PROVE  i = j
  <2>1. ASSUME NEW k \in 1..Len(u), NEW l \in 1..Len(u), k < l, u[k].tc = u[l].tc
        PROVE  FALSE
    <3>1. PICK x, y \in 1..n : x < y /\ u[k] = s[x] /\ u[l] = s[y]
      BY <1>3, <2>1
    <3>2. x = y
      BY <1>7, <2>1, <3>1 DEF EachOnce, n
    <3>3. QED
      BY <1>1, <3>1, <3>2
  <2>2. ~(i < j) /\ ~(j < i)
    BY <1>7, <2>1
  <2>3. QED
    BY <1>1, <2>2
<1>8. QED
  BY <1>4, <1>5, <1>6, <1>7 DEF OthersStay, InTimeOrder, EachOnce, n

\* A telecommand that is in the sequence once is counted once.
LEMMA OnceIsCounted ==
  ASSUME NEW s \in Seq(Rows)
  PROVE  IsFiniteSet(Entries(s)) /\ (EachOnce(s) <=> Cardinality(Entries(s)) = Len(s))
<1> DEFINE n == Len(s)
           f == [i \in 1..n |-> s[i].tc]
           T == Entries(s)
<1>1. n \in Nat
  BY RowFacts
<1>2. IsFiniteSet(1..n) /\ Cardinality(1..n) = n
  BY <1>1, FS_Interval
<1>3. f \in Surjection(1..n, T)
  BY DEF Surjection, Entries
<1>4. f \in Injection(1..n, T) <=> EachOnce(s)
  BY <1>3 DEF Injection, IsInjective, EachOnce, Surjection
<1> HIDE DEF f, T, n
<1>5. IsFiniteSet(T) /\ (Cardinality(T) = Cardinality(1..n) <=> f \in Injection(1..n, T))
  BY <1>2, <1>3, FS_Surjection
<1>6. QED
  BY <1>2, <1>4, <1>5 DEF T, n

-----------------------------------------------------------------------------
(* The loop of doFilterTimeshiftActivity *)

NoLater(s, t) == \A i \in 1..Len(s), j \in 1..Len(t) : s[i].time <= t[j].time

Loops == [before : Seq(Rows), rest : Seq(Rows), behind : Seq(Rows)]

\* The three parts of the map are in order, in themselves and one behind the
\* other, and have the same entries as ever.
LoopInOrder(p) ==
    /\ InTimeOrder(p.before) /\ InTimeOrder(p.rest) /\ InTimeOrder(p.behind)
    /\ NoLater(p.before, p.rest) /\ NoLater(p.rest, p.behind) /\ NoLater(p.before, p.behind)

LoopHas(p, n, A) ==
    /\ Len(p.before) + Len(p.rest) + Len(p.behind) = n
    /\ Entries(p.before) \cup Entries(p.rest) \cup Entries(p.behind) = A

\* A turn removes one of the entries with the earliest time, or puts it later.
Advances(old, new) ==
    /\ Len(new) <= Len(old)
    /\ \A c \in 1..Len(new) :
          /\ new[c].time >= old[1].time
          /\ new[c].time = old[1].time => c + 1 \in 1..Len(old) /\ old[c + 1].time = old[1].time

\* A shift wraps, and moves.
LEMMA ShiftFacts ==
  ASSUME NEW t \in Times, NEW r \in Times, r # 0
  PROVE  Shift(t, r) \in Times /\ Shift(t, r) # t
<1>1. TimeRange \in Nat \ {0} /\ t \in Nat /\ r \in Nat /\ t < TimeRange /\ r < TimeRange /\ r > 0
  BY SchedulingAssumption DEF Times
<1>2. CASE t + r < TimeRange
  <2>1. (t + r) % TimeRange = t + r
    BY <1>1, <1>2
  <2>2. QED
    BY <1>1, <1>2, <2>1 DEF Shift, Times
<1>3. CASE t + r >= TimeRange
  <2>1. (t + r) % TimeRange = t + r - TimeRange
    BY <1>1, <1>3
  <2>2. QED
    BY <1>1, <1>3, <2>1 DEF Shift, Times
<1>4. QED
  BY <1>1, <1>2, <1>3

\* The first entry, and the others.
LEMMA TailFacts ==
  ASSUME NEW s \in Seq(Rows), s # <<>>, NEW t, t = Tail(s)
  PROVE  /\ Head(s) = s[1] /\ s[1] \in Rows /\ t \in Seq(Rows) /\ Len(t) = Len(s) - 1 /\ Len(t) \in Nat
         /\ \A i \in 1..Len(t) : i + 1 \in 1..Len(s) /\ t[i] = s[i + 1]
         /\ Entries(s) = Entries(t) \cup {s[1].tc}
         /\ InTimeOrder(s) => InTimeOrder(t) /\ \A i \in 1..Len(t) : s[1].time <= t[i].time
<1>1. Len(s) \in Nat /\ Len(s) > 0
  BY EmptySeq, LenProperties
<1>2. Head(s) = s[1] /\ s[1] \in Rows
  BY <1>1, RowFacts
<1>3. t \in Seq(Rows) /\ Len(t) = Len(s) - 1 /\ Len(t) \in Nat /\ \A i \in 1..Len(t) : t[i] = s[i + 1]
  BY <1>1, HeadTailProperties
<1>4. \A i \in 1..Len(t) : i + 1 \in 1..Len(s)
  BY <1>1, <1>3
<1>5. Entries(s) = Entries(t) \cup {s[1].tc}
  <2>1. ASSUME NEW i \in 1..Len(s)
        PROVE  s[i].tc \in Entries(t) \cup {s[1].tc}
    <3>1. CASE i # 1
      <4>1. i - 1 \in 1..Len(t) /\ (i - 1) + 1 = i
        BY <1>1, <1>3, <3>1
      <4>2. t[i - 1] = s[i]
        BY <1>3, <4>1
      <4>3. QED
        BY <4>1, <4>2 DEF Entries
    <3>2. QED
      BY <3>1
  <2>2. ASSUME NEW i \in 1..Len(t)
        PROVE  t[i].tc \in Entries(s)
    BY <1>3, <1>4 DEF Entries
  <2>3. s[1].tc \in Entries(s)
    BY <1>1 DEF Entries
  <2>4. QED
    BY SMTT(30), <2>1, <2>2, <2>3 DEF Entries
<1>6. ASSUME InTimeOrder(s)
      PROVE  InTimeOrder(t) /\ \A i \in 1..Len(t) : s[1].time <= t[i].time
  <2>1. \A i \in 1..Len(t) : s[1].time <= t[i].time
    <3>1. ASSUME NEW i \in 1..Len(t)
          PROVE  s[1].time <= t[i].time
      <4>1. t[i] = s[i + 1] /\ 1 \in 1..Len(s) /\ i + 1 \in 1..Len(s) /\ 1 < i + 1
        BY <1>1, <1>3, <1>4
      <4>2. QED
        BY <1>6, <4>1 DEF InTimeOrder
    <3>2. QED
      BY <3>1
  <2>2. ASSUME NEW i \in 1..Len(t), NEW j \in 1..Len(t), i < j
        PROVE  t[i].time <= t[j].time
    <3>1. t[i] = s[i + 1] /\ t[j] = s[j + 1] /\ i + 1 \in 1..Len(s) /\ j + 1 \in 1..Len(s) /\ i + 1 < j + 1
      BY <1>3, <1>4, <2>2
    <3>2. QED
      BY <1>6, <3>1 DEF InTimeOrder
  <2>3. QED
    BY <2>1, <2>2 DEF InTimeOrder
<1>7. QED
  BY <1>2, <1>3, <1>4, <1>5, <1>6

\* A turn that puts the entry later advances.
LEMMA InsertedAdvances ==
  ASSUME NEW old \in Seq(Rows), old # <<>>, InTimeOrder(old), NEW t, t = Tail(old),
         NEW e \in Rows, e.time > old[1].time, NEW u, u = Inserted(t, e)
  PROVE  Advances(old, u)
<1>1. /\ old[1] \in Rows /\ t \in Seq(Rows) /\ Len(t) = Len(old) - 1 /\ Len(t) \in Nat
      /\ \A i \in 1..Len(t) : i + 1 \in 1..Len(old) /\ t[i] = old[i + 1]
      /\ InTimeOrder(t) /\ \A i \in 1..Len(t) : old[1].time <= t[i].time
  BY TailFacts
<1>2. PICK k : Splits(t, k, e.time) /\ PutIn(t, k, e, u)
  BY <1>1, InsertedFacts DEF PlacedIn
<1>3. Len(u) = Len(t) + 1 /\ k \in 1..(Len(t) + 1) /\ e.time \in Int /\ old[1].time \in Int
  BY <1>1, <1>2, SchedulingAssumption DEF Splits, PutIn, Rows, Times
<1>4. ASSUME NEW c \in 1..Len(u)
      PROVE  /\ u[c].time >= old[1].time
             /\ u[c].time = old[1].time => c + 1 \in 1..Len(old) /\ old[c + 1].time = old[1].time
  <2>1. \/ c = k /\ u[c] = e
        \/ c < k /\ c \in 1..Len(t) /\ u[c] = t[c]
        \/ c > k /\ c - 1 \in k..Len(t) /\ c - 1 \in 1..Len(t) /\ u[c] = t[c - 1]
    <3>1. t \in Seq(Rows) /\ k \in 1..(Len(t) + 1) /\ PutIn(t, k, e, u)
      BY <1>1, <1>2, <1>3
    <3>2. CameFrom(t, k, e, u, c)
      BY <3>1, PutInFrom
    <3>3. QED
      BY <3>2 DEF CameFrom
  <2>2. CASE c = k /\ u[c] = e
    BY <1>3, <2>2
  <2>3. CASE c \in 1..Len(t) /\ u[c] = t[c]
    <3>1. c + 1 \in 1..Len(old) /\ u[c] = old[c + 1] /\ old[1].time <= u[c].time
      BY <1>1, <2>3
    <3>2. u[c].time \in Int
      BY <3>1, RowFacts
    <3>3. QED
      BY <1>3, <3>1, <3>2
  <2>4. CASE c - 1 \in k..Len(t) /\ c - 1 \in 1..Len(t) /\ u[c] = t[c - 1]
    <3>1. u[c].time > e.time /\ u[c].time \in Int
      BY <1>1, <1>2, <2>4, RowFacts DEF Splits
    <3>2. QED
      BY <1>3, <3>1
  <2>5. QED
    BY <2>1, <2>2, <2>3, <2>4
<1>5. QED
  BY <1>1, <1>3, <1>4 DEF Advances

\* A turn that puts the entry outside the window advances.
LEMMA TailAdvances ==
  ASSUME NEW old \in Seq(Rows), old # <<>>, InTimeOrder(old), NEW t, t = Tail(old)
  PROVE  Advances(old, t)
<1>1. /\ old[1] \in Rows /\ t \in Seq(Rows) /\ Len(t) = Len(old) - 1 /\ Len(t) \in Nat
      /\ \A i \in 1..Len(t) : i + 1 \in 1..Len(old) /\ t[i] = old[i + 1]
      /\ \A i \in 1..Len(t) : old[1].time <= t[i].time
  BY TailFacts
<1>2. old[1].time \in Int
  BY <1>1, SchedulingAssumption DEF Rows, Times
<1>3. ASSUME NEW c \in 1..Len(t)
      PROVE  t[c].time >= old[1].time
  <2>1. t[c].time \in Int /\ old[1].time <= t[c].time
    BY <1>1, RowFacts
  <2>2. QED
    BY <1>2, <2>1
<1>4. Len(t) <= Len(old)
  BY <1>1
<1>5. QED
  BY <1>1, <1>3, <1>4 DEF Advances

\* The first entry is the earliest.
LEMMA HeadIsFirst ==
  ASSUME NEW s \in Seq(Rows), s # <<>>, InTimeOrder(s)
  PROVE  Head(s) = s[1] /\ s[1].time \in Int /\ \A i \in 1..Len(s) : s[1].time <= s[i].time
<1>1. Len(s) \in Nat /\ Len(s) > 0 /\ 1 \in 1..Len(s)
  BY EmptySeq, LenProperties
<1>2. Head(s) = s[1] /\ s[1].time \in Int
  BY <1>1, RowFacts
<1>3. ASSUME NEW i \in 1..Len(s)
      PROVE  s[1].time <= s[i].time
  <2>1. i = 1 \/ 1 < i
    BY <1>1
  <2>2. QED
    BY <1>1, <1>2, <2>1 DEF InTimeOrder
<1>4. QED
  BY <1>2, <1>3

\* One turn of the loop keeps the entries and their order, and advances.
LEMMA ShiftOneKeeps ==
  ASSUME NEW p \in Loops, LoopInOrder(p), p.rest # <<>>, NEW n \in Nat, NEW A, LoopHas(p, n, A),
         NEW r \in Times, r # 0, NEW q, q = ShiftOne(p, r)
  PROVE  q \in Loops /\ LoopInOrder(q) /\ LoopHas(q, n, A) /\ Advances(p.rest, q.rest)
<1>1. PICK a, b, c, t, h, e : /\ a = p.before /\ b = p.rest /\ c = p.behind /\ t = Tail(b)
                              /\ h = b[1] /\ e = [h EXCEPT !.time = Shift(@, r)]
  OBVIOUS
<1>2. /\ a \in Seq(Rows) /\ b \in Seq(Rows) /\ c \in Seq(Rows) /\ b # <<>>
      /\ InTimeOrder(a) /\ InTimeOrder(b) /\ InTimeOrder(c)
      /\ NoLater(a, b) /\ NoLater(b, c) /\ NoLater(a, c)
      /\ Len(a) + Len(b) + Len(c) = n /\ Entries(a) \cup Entries(b) \cup Entries(c) = A
      /\ p = [before |-> a, rest |-> b, behind |-> c]
  BY <1>1 DEF Loops, LoopInOrder, LoopHas
<1>3. /\ Head(b) = h /\ h \in Rows /\ t \in Seq(Rows) /\ Len(t) = Len(b) - 1 /\ Len(t) \in Nat
      /\ \A i \in 1..Len(t) : i + 1 \in 1..Len(b) /\ t[i] = b[i + 1]
      /\ Entries(b) = Entries(t) \cup {h.tc}
      /\ InTimeOrder(t) /\ \A i \in 1..Len(t) : h.time <= t[i].time
  BY ZenonT(60), <1>1, <1>2, TailFacts
<1>4. e \in Rows /\ e.tc = h.tc /\ e.time # h.time /\ e.time \in Int /\ h.time \in Int
  <2>1. h.time \in Times /\ h.tc \in Activities /\ Times \subseteq Int
    BY <1>3, SchedulingAssumption DEF Rows, Times
  <2>2. e = [time |-> Shift(h.time, r), tc |-> h.tc]
    BY <1>1, <1>3 DEF Rows
  <2>3. QED
    BY <2>1, <2>2, ShiftFacts DEF Rows
<1>5. Len(a) \in Nat /\ Len(b) \in Nat /\ Len(c) \in Nat
  BY <1>2, RowFacts
<1>6. NoLater(a, t) /\ NoLater(t, c)
  BY <1>2, <1>3 DEF NoLater
<1> DEFINE NotBefore(s) == s # <<>> /\ e.time >= Head(s).time
<1>7. q = CASE NotBefore(c) -> [before |-> a, rest |-> t, behind |-> Inserted(c, e)]
            [] ~NotBefore(c) /\ NotBefore(t) -> [before |-> a, rest |-> Inserted(t, e), behind |-> c]
            [] OTHER -> [before |-> Inserted(a, e), rest |-> t, behind |-> c]
  <2>1. [Head(p.rest) EXCEPT !.time = Shift(@, r)] = e /\ Tail(p.rest) = t /\ p.before = a /\ p.behind = c
    BY <1>1, <1>3
  <2>2. QED
    BY <2>1 DEF ShiftOne
<1>8. ASSUME NEW s \in Seq(Rows), InTimeOrder(s), ~NotBefore(s)
      PROVE  \A j \in 1..Len(s) : e.time <= s[j].time
  <2>1. CASE s = <<>>
    BY <2>1
  <2>2. CASE s # <<>>
    <3>1. Head(s).time = s[1].time /\ s[1].time \in Int /\ \A i \in 1..Len(s) : s[1].time <= s[i].time
      BY <1>8, <2>2, HeadIsFirst
    <3>2. e.time < s[1].time
      BY <1>4, <1>8, <2>2, <3>1
    <3>3. ASSUME NEW j \in 1..Len(s)
          PROVE  e.time <= s[j].time
      <4>1. s[j].time \in Int /\ s[1].time <= s[j].time
        BY <3>1, RowFacts
      <4>2. QED
        BY <1>4, <3>1, <3>2, <4>1
    <3>4. QED
      BY <3>3
  <2>3. QED
    BY <2>1, <2>2
<1>9. ASSUME NEW s \in Seq(Rows), InTimeOrder(s), NotBefore(s), NEW u \in Seq(Rows), NoLater(u, s)
      PROVE  \A j \in 1..Len(u) : u[j].time <= e.time
  <2>1. Head(s).time = s[1].time /\ s[1].time \in Int /\ 1 \in 1..Len(s) /\ s[1].time <= e.time
    BY <1>4, <1>9, HeadIsFirst, EmptySeq
  <2>2. ASSUME NEW j \in 1..Len(u)
        PROVE  u[j].time <= e.time
    <3>1. u[j].time \in Int /\ u[j].time <= s[1].time
      BY <1>9, <2>1, RowFacts DEF NoLater
    <3>2. QED
      BY <1>4, <2>1, <3>1
  <2>3. QED
    BY <2>2
<1> HIDE DEF NotBefore
<1>10. CASE NotBefore(c)
  <2>1. PICK u : u = Inserted(c, e)
    OBVIOUS
  <2>2. q = [before |-> a, rest |-> t, behind |-> u]
    BY <1>7, <1>10, <2>1
  <2>3. /\ u \in Seq(Rows) /\ Len(u) = Len(c) + 1 /\ InTimeOrder(u) /\ Entries(u) = Entries(c) \cup {e.tc}
        /\ \A j \in 1..Len(u) : u[j] = e \/ \E i \in 1..Len(c) : u[j] = c[i]
    <3>1. PlacedIn(c, e, u)
      BY <1>2, <1>4, <2>1, InsertedFacts
    <3>2. QED
      BY <3>1 DEF PlacedIn
  <2>4. NoLater(a, u) /\ NoLater(t, u)
    <3>1. (\A j \in 1..Len(a) : a[j].time <= e.time) /\ (\A j \in 1..Len(t) : t[j].time <= e.time)
      BY <1>2, <1>3, <1>6, <1>9, <1>10
    <3>2. NoLater(a, c) /\ NoLater(t, c)
      BY <1>2, <1>6
    <3>3. QED
      BY <2>3, <3>1, <3>2 DEF NoLater
  <2>5. Advances(b, t)
    BY <1>1, <1>2, TailAdvances
  <2>6. LoopInOrder(q)
    BY <1>2, <1>3, <1>6, <2>2, <2>3, <2>4 DEF LoopInOrder
  <2>7. LoopHas(q, n, A)
    <3>1. Len(q.before) + Len(q.rest) + Len(q.behind) = n
      <4>1. q.before = a /\ q.rest = t /\ q.behind = u /\ Len(u) = Len(c) + 1
        BY <2>2, <2>3
      <4>2. Len(a) + Len(b) + Len(c) = n /\ Len(t) = Len(b) - 1 /\ Len(t) \in Nat
        BY <1>2, <1>3
      <4>3. QED
        BY <1>5, <4>1, <4>2
    <3>2. Entries(q.before) \cup Entries(q.rest) \cup Entries(q.behind) = A
      BY <1>2, <1>3, <1>4, <2>2, <2>3
    <3>3. QED
      BY <3>1, <3>2 DEF LoopHas
  <2>8. q \in Loops
    BY <1>2, <1>3, <2>2, <2>3 DEF Loops
  <2>9. QED
    BY <1>1, <2>2, <2>5, <2>6, <2>7, <2>8
<1>11. CASE ~NotBefore(c) /\ NotBefore(t)
  <2>1. PICK u : u = Inserted(t, e)
    OBVIOUS
  <2>2. q = [before |-> a, rest |-> u, behind |-> c]
    BY <1>7, <1>11, <2>1
  <2>3. /\ u \in Seq(Rows) /\ Len(u) = Len(t) + 1 /\ InTimeOrder(u) /\ Entries(u) = Entries(t) \cup {e.tc}
        /\ \A j \in 1..Len(u) : u[j] = e \/ \E i \in 1..Len(t) : u[j] = t[i]
    <3>1. PlacedIn(t, e, u)
      BY <1>3, <1>4, <2>1, InsertedFacts
    <3>2. QED
      BY <3>1 DEF PlacedIn
  <2>4. NoLater(a, u)
    <3>1. \A j \in 1..Len(a) : a[j].time <= e.time
      BY <1>2, <1>3, <1>6, <1>9, <1>11
    <3>2. QED
      BY <1>6, <2>3, <3>1 DEF NoLater
  <2>5. NoLater(u, c)
    <3>1. \A j \in 1..Len(c) : e.time <= c[j].time
      BY <1>2, <1>8, <1>11
    <3>2. QED
      BY <1>6, <2>3, <3>1 DEF NoLater
  <2>6. e.time > b[1].time
    <3>1. t # <<>> /\ e.time >= Head(t).time /\ Head(t) = t[1] /\ t[1].time \in Int /\ 1 \in 1..Len(t)
      BY <1>3, <1>11, HeadIsFirst, EmptySeq DEF NotBefore
    <3>2. h.time <= t[1].time
      BY <1>3, <3>1
    <3>3. QED
      BY <1>1, <1>4, <3>1, <3>2
  <2>7. Advances(b, u)
    BY <1>1, <1>2, <1>4, <2>1, <2>6, InsertedAdvances
  <2>8. LoopInOrder(q)
    BY <1>2, <2>2, <2>3, <2>4, <2>5 DEF LoopInOrder
  <2>9. LoopHas(q, n, A)
    <3>1. Len(q.before) + Len(q.rest) + Len(q.behind) = n
      <4>1. q.before = a /\ q.rest = u /\ q.behind = c /\ Len(u) = Len(t) + 1
        BY <2>2, <2>3
      <4>2. Len(a) + Len(b) + Len(c) = n /\ Len(t) = Len(b) - 1 /\ Len(t) \in Nat
        BY <1>2, <1>3
      <4>3. QED
        BY <1>5, <4>1, <4>2
    <3>2. Entries(q.before) \cup Entries(q.rest) \cup Entries(q.behind) = A
      BY <1>2, <1>3, <1>4, <2>2, <2>3
    <3>3. QED
      BY <3>1, <3>2 DEF LoopHas
  <2>10. q \in Loops
    BY <1>2, <2>2, <2>3 DEF Loops
  <2>11. QED
    BY <1>1, <2>2, <2>7, <2>8, <2>9, <2>10
<1>12. CASE ~NotBefore(c) /\ ~NotBefore(t)
  <2>1. PICK u : u = Inserted(a, e)
    OBVIOUS
  <2>2. q = [before |-> u, rest |-> t, behind |-> c]
    BY <1>7, <1>12, <2>1
  <2>3. /\ u \in Seq(Rows) /\ Len(u) = Len(a) + 1 /\ InTimeOrder(u) /\ Entries(u) = Entries(a) \cup {e.tc}
        /\ \A j \in 1..Len(u) : u[j] = e \/ \E i \in 1..Len(a) : u[j] = a[i]
    <3>1. PlacedIn(a, e, u)
      BY <1>2, <1>4, <2>1, InsertedFacts
    <3>2. QED
      BY <3>1 DEF PlacedIn
  <2>4. NoLater(u, t)
    <3>1. \A j \in 1..Len(t) : e.time <= t[j].time
      BY <1>3, <1>8, <1>12
    <3>2. QED
      BY <1>6, <2>3, <3>1 DEF NoLater
  <2>5. NoLater(u, c)
    <3>1. \A j \in 1..Len(c) : e.time <= c[j].time
      BY <1>2, <1>8, <1>12
    <3>2. NoLater(a, c)
      BY <1>2
    <3>3. QED
      BY <2>3, <3>1, <3>2 DEF NoLater
  <2>6. Advances(b, t)
    BY <1>1, <1>2, TailAdvances
  <2>7. LoopInOrder(q)
    BY <1>2, <1>3, <1>6, <2>2, <2>3, <2>4, <2>5 DEF LoopInOrder
  <2>8. LoopHas(q, n, A)
    <3>1. Len(q.before) + Len(q.rest) + Len(q.behind) = n
      <4>1. q.before = u /\ q.rest = t /\ q.behind = c /\ Len(u) = Len(a) + 1
        BY <2>2, <2>3
      <4>2. Len(a) + Len(b) + Len(c) = n /\ Len(t) = Len(b) - 1 /\ Len(t) \in Nat
        BY <1>2, <1>3
      <4>3. QED
        BY <1>5, <4>1, <4>2
    <3>2. Entries(q.before) \cup Entries(q.rest) \cup Entries(q.behind) = A
      BY <1>2, <1>3, <1>4, <2>2, <2>3
    <3>3. QED
      BY <3>1, <3>2 DEF LoopHas
  <2>9. q \in Loops
    BY <1>2, <1>3, <2>2, <2>3 DEF Loops
  <2>10. QED
    BY <1>1, <2>2, <2>6, <2>7, <2>8, <2>9
<1>13. QED
  BY <1>10, <1>11, <1>12

\* How many turns have been made at most while c entries have the earliest time.
TurnsBounded(s, n) ==
    \A c \in 1..Len(s) : s[c].time = s[1].time => n <= MAX_NUM_TCS * s[1].time + MAX_NUM_TCS - c

\* A product grows with its factor.
LEMMA TimesGrow ==
  ASSUME NEW m \in Nat, NEW x \in Nat, NEW y \in Nat, x + 1 <= y
  PROVE  m * x \in Nat /\ m * y \in Nat /\ m * x + m <= m * y
<1>1. PICK d \in Nat : y = x + 1 + d
  <2>1. y - (x + 1) \in Nat /\ y = x + 1 + (y - (x + 1))
    OBVIOUS
  <2>2. QED
    BY <2>1
<1>2. m * y = m * x + m + m * d /\ m * d \in Nat /\ m * x \in Nat
  BY <1>1
<1>3. QED
  BY <1>2

\* A turn that advances is paid for.
LEMMA TurnIsCounted ==
  ASSUME NEW old \in Seq(Rows), NEW new \in Seq(Rows), old # <<>>, Advances(old, new), Len(new) <= MAX_NUM_TCS,
         NEW n \in Nat, TurnsBounded(old, n)
  PROVE  TurnsBounded(new, n + 1)
<1> DEFINE m == MAX_NUM_TCS
           h == old[1].time
<1>1. m \in Nat /\ Len(new) \in Nat /\ Len(old) \in Nat /\ 1 \in 1..Len(old) /\ h \in Nat
  <2>1. Len(new) \in Nat /\ Len(old) \in Nat /\ 1 \in 1..Len(old)
    BY EmptySeq, LenProperties
  <2>2. h \in Int /\ h >= 0
    BY <2>1, RowFacts
  <2>3. QED
    BY <2>1, <2>2, SchedulingAssumption
<1>2. ASSUME NEW c \in 1..Len(new), new[c].time = new[1].time
      PROVE  n + 1 <= m * new[1].time + m - c
  <2>1. 1 \in 1..Len(new) /\ c \in Nat /\ c <= m
    BY <1>1
  <2>2. new[1].time \in Nat /\ new[1].time >= h
    <3>1. new[1].time \in Int /\ new[1].time >= 0
      BY <2>1, RowFacts
    <3>2. new[1].time >= h
      BY <2>1 DEF Advances
    <3>3. QED
      BY <3>1, <3>2
  <2>3. m * h \in Nat /\ m * new[1].time \in Nat
    BY <1>1, <2>2
  <2>4. CASE new[1].time = h
    <3>1. c + 1 \in 1..Len(old) /\ old[c + 1].time = h
      BY <1>2, <2>4 DEF Advances
    <3>2. n <= m * h + m - (c + 1)
      BY <3>1 DEF TurnsBounded
    <3> HIDE DEF h, m
    <3>3. QED
      BY <1>1, <2>1, <2>3, <2>4, <3>2
  <2>5. CASE new[1].time > h
    <3>1. n <= m * h + m - 1
      BY <1>1 DEF TurnsBounded
    <3>2. m * h + m <= m * new[1].time
      <4>1. h + 1 <= new[1].time
        BY <1>1, <2>2, <2>5
      <4> HIDE DEF h, m
      <4>2. QED
        BY <1>1, <2>2, <4>1, TimesGrow
    <3> HIDE DEF h, m
    <3>3. QED
      BY <1>1, <2>1, <2>3, <3>1, <3>2
  <2>6. QED
    BY <1>1, <2>2, <2>4, <2>5
<1>3. QED
  BY <1>2 DEF TurnsBounded

\* The states of the loop after each of m turns.
LoopRuns(p, r, m, g) ==
    g = [n \in 0..m |-> IF n = 0 THEN p ELSE IF g[n - 1].rest = <<>> THEN g[n - 1] ELSE ShiftOne(g[n - 1], r)]

\* The loop has a state after each turn.
LEMMA LoopExists ==
  ASSUME NEW p, NEW r, NEW m \in Nat
  PROVE  \E g : LoopRuns(p, r, m, g)
<1> DEFINE S == { n \in Nat : \E g : LoopRuns(p, r, n, g) }
<1>1. 0 \in S
  <2> DEFINE g == [k \in 0..0 |-> p]
  <2>1. LoopRuns(p, r, 0, g)
    BY DEF LoopRuns
  <2>2. QED
    BY <2>1
<1>2. ASSUME NEW n \in S
      PROVE  n + 1 \in S
  <2>1. PICK g : LoopRuns(p, r, n, g)
    OBVIOUS
  <2> DEFINE next == IF g[n].rest = <<>> THEN g[n] ELSE ShiftOne(g[n], r)
             f == [k \in 0..(n + 1) |-> IF k = n + 1 THEN next ELSE g[k]]
  <2>2. n \in Nat
    OBVIOUS
  <2>3. ASSUME NEW k \in 0..(n + 1)
        PROVE  f[k] = IF k = 0 THEN p ELSE IF f[k - 1].rest = <<>> THEN f[k - 1] ELSE ShiftOne(f[k - 1], r)
    <3>1. CASE k = n + 1
      <4>1. k # 0 /\ k - 1 = n /\ k - 1 \in 0..(n + 1) /\ k - 1 # n + 1 /\ f[k] = next /\ f[k - 1] = g[n]
        BY <2>2, <3>1
      <4> HIDE DEF f
      <4>2. QED
        BY <4>1
    <3>2. CASE k # n + 1
      <4>1. k \in 0..n /\ f[k] = g[k]
        BY <2>2, <3>2
      <4>2. g[k] = IF k = 0 THEN p ELSE IF g[k - 1].rest = <<>> THEN g[k - 1] ELSE ShiftOne(g[k - 1], r)
        BY <2>1, <4>1 DEF LoopRuns
      <4>3. k # 0 => f[k - 1] = g[k - 1]
        BY <2>2, <4>1
      <4> HIDE DEF f
      <4>4. QED
        BY <4>1, <4>2, <4>3
    <3>3. QED
      BY <3>1, <3>2
  <2>4. f = [k \in 0..(n + 1) |-> f[k]]
    OBVIOUS
  <2> HIDE DEF f
  <2>5. LoopRuns(p, r, n + 1, f)
    BY <2>3, <2>4 DEF LoopRuns
  <2>6. QED
    BY <2>2, <2>5
<1>3. S = Nat
  <2>1. S \in SUBSET Nat
    OBVIOUS
  <2> HIDE DEF S
  <2>2. QED
    BY <1>1, <1>2, <2>1, SetOfNumbers
<1>4. QED
  BY <1>3

LoopState(p, n, len, A) ==
    p \in Loops /\ LoopInOrder(p) /\ LoopHas(p, len, A) /\ TurnsBounded(p.rest, n)

\* No more is left of the window than the map can hold.
LEMMA RestIsShort ==
  ASSUME NEW p \in Loops, NEW len \in Nat, len <= MAX_NUM_TCS, NEW A, LoopHas(p, len, A)
  PROVE  p.rest \in Seq(Rows) /\ Len(p.rest) \in Nat /\ Len(p.rest) <= MAX_NUM_TCS
<1>1. p.before \in Seq(Rows) /\ p.rest \in Seq(Rows) /\ p.behind \in Seq(Rows)
  BY DEF Loops
<1>2. Len(p.before) \in Nat /\ Len(p.rest) \in Nat /\ Len(p.behind) \in Nat
  BY <1>1, RowFacts
<1>3. Len(p.before) + Len(p.rest) + Len(p.behind) = len
  BY DEF LoopHas
<1>4. \A x, y, z \in Nat : x + y + z = len => y <= MAX_NUM_TCS
  BY SchedulingAssumption
<1>5. Len(p.rest) <= MAX_NUM_TCS
  BY <1>2, <1>3, <1>4
<1>6. QED
  BY <1>1, <1>2, <1>5

\* Every turn keeps what is said of the loop.
LEMMA TurnKeeps ==
  ASSUME NEW n \in Nat, NEW p, NEW len \in Nat, len <= MAX_NUM_TCS, NEW A, LoopState(p, n, len, A),
         NEW r \in Times, r # 0, NEW q, q = IF p.rest = <<>> THEN p ELSE ShiftOne(p, r)
  PROVE  LoopState(q, n + 1, len, A)
<1>1. p \in Loops /\ LoopInOrder(p) /\ LoopHas(p, len, A) /\ TurnsBounded(p.rest, n)
  BY DEF LoopState
<1>2. CASE p.rest = <<>>
  <2>1. q = p /\ Len(p.rest) = 0
    BY <1>2
  <2>2. TurnsBounded(q.rest, n + 1)
    BY <2>1 DEF TurnsBounded
  <2>3. QED
    BY <1>1, <2>1, <2>2 DEF LoopState
<1>3. CASE p.rest # <<>>
  <2>1. q = ShiftOne(p, r)
    BY <1>3
  <2>2. q \in Loops /\ LoopInOrder(q) /\ LoopHas(q, len, A) /\ Advances(p.rest, q.rest)
    BY <1>1, <1>3, <2>1, ShiftOneKeeps
  <2>3. p.rest \in Seq(Rows) /\ q.rest \in Seq(Rows) /\ Len(q.rest) <= MAX_NUM_TCS
    BY <1>1, <2>2, RestIsShort
  <2>4. TurnsBounded(q.rest, n + 1)
    BY <1>1, <1>3, <2>2, <2>3, TurnIsCounted
  <2>5. QED
    BY <2>2, <2>4 DEF LoopState
<1>4. QED
  BY <1>2, <1>3

\* The loop of doFilterTimeshiftActivity ends: it puts entries back into the
\* window that it walks through, but within MAX_NUM_TCS * TimeRange turns
\* nothing is left of the window, and the map has all its entries, in order.
THEOREM TimeshiftLoopEnds ==
  ASSUME NEW p \in Loops, LoopInOrder(p), NEW len \in Nat, len <= MAX_NUM_TCS, NEW A, LoopHas(p, len, A),
         NEW r \in Times, r # 0, NEW turns, turns = MAX_NUM_TCS * TimeRange,
         NEW g, LoopRuns(p, r, turns, g), NEW done, done = g[turns]
  PROVE  done \in Loops /\ LoopInOrder(done) /\ LoopHas(done, len, A) /\ done.rest = <<>>
<1>1. turns \in Nat /\ MAX_NUM_TCS \in Nat /\ TimeRange \in Nat
  BY SchedulingAssumption
<1> DEFINE S == { n \in Nat : n <= turns => LoopState(g[n], n, len, A) }
<1>2. ASSUME NEW n \in 0..turns
      PROVE  g[n] = IF n = 0 THEN p ELSE IF g[n - 1].rest = <<>> THEN g[n - 1] ELSE ShiftOne(g[n - 1], r)
  BY DEF LoopRuns
<1>3. 0 \in S
  <2>1. g[0] = p
    BY <1>1, <1>2
  <2>2. TurnsBounded(p.rest, 0)
    <3>1. p.rest \in Seq(Rows) /\ Len(p.rest) \in Nat /\ Len(p.rest) <= MAX_NUM_TCS
      BY RestIsShort
    <3>2. ASSUME NEW c \in 1..Len(p.rest)
          PROVE  0 <= MAX_NUM_TCS * p.rest[1].time + MAX_NUM_TCS - c
      <4>1. 1 \in 1..Len(p.rest) /\ c \in Nat /\ c <= MAX_NUM_TCS
        BY <1>1, <3>1
      <4>2. p.rest[1].time \in Int /\ p.rest[1].time >= 0
        BY <3>1, <4>1, RowFacts
      <4>3. MAX_NUM_TCS * p.rest[1].time \in Nat
        BY <1>1, <4>2
      <4>4. QED
        BY <1>1, <4>1, <4>3
    <3>3. QED
      BY <3>2 DEF TurnsBounded
  <2>3. QED
    BY <2>1, <2>2 DEF LoopState
<1>4. ASSUME NEW n \in S
      PROVE  n + 1 \in S
  <2>1. ASSUME n + 1 <= turns
        PROVE  LoopState(g[n + 1], n + 1, len, A)
    <3>1. n \in Nat /\ n + 1 \in 0..turns /\ n + 1 # 0 /\ (n + 1) - 1 = n /\ LoopState(g[n], n, len, A)
      BY <1>1, <2>1
    <3>2. g[n + 1] = IF g[n].rest = <<>> THEN g[n] ELSE ShiftOne(g[n], r)
      BY <1>2, <3>1
    <3>3. QED
      BY <3>1, <3>2, TurnKeeps
  <2>2. QED
    BY <2>1
<1>5. S = Nat
  <2>1. S \in SUBSET Nat
    OBVIOUS
  <2> HIDE DEF S
  <2>2. QED
    BY <1>3, <1>4, <2>1, SetOfNumbers
<1>6. LoopState(done, turns, len, A)
  BY <1>1, <1>5
<1>7. done \in Loops /\ LoopInOrder(done) /\ LoopHas(done, len, A) /\ TurnsBounded(done.rest, turns)
  BY <1>6 DEF LoopState
<1>8. ASSUME done.rest # <<>>
      PROVE  FALSE
  <2>1. done.rest \in Seq(Rows) /\ Len(done.rest) \in Nat /\ 1 \in 1..Len(done.rest)
    BY <1>7, <1>8, RestIsShort, EmptySeq
  <2>2. PICK h : h = done.rest[1].time
    OBVIOUS
  <2>3. h \in Nat /\ h + 1 <= TimeRange
    <3>1. h \in Int /\ h >= 0 /\ h < TimeRange
      BY <2>1, <2>2, RowFacts
    <3>2. QED
      BY <1>1, <3>1
  <2>4. turns <= MAX_NUM_TCS * h + MAX_NUM_TCS - 1
    BY <1>7, <2>1, <2>2 DEF TurnsBounded
  <2>5. MAX_NUM_TCS * h \in Nat /\ MAX_NUM_TCS * h + MAX_NUM_TCS <= MAX_NUM_TCS * TimeRange
    BY <1>1, <2>3, TimesGrow
  <2>6. QED
    BY <1>1, <2>4, <2>5
<1>9. QED
  BY <1>7, <1>8

\* A window is a range of positions.
LEMMA WindowFacts ==
  ASSUME NEW s \in Seq(Rows), s = telecommandMap, NEW w \in Windows, NEW f, f = getMapFilter(w)
  PROVE  f.begin \in 1..(Len(s) + 1) /\ f.end \in f.begin..(Len(s) + 1)
<1> DEFINE n == Len(s)
<1>1. n \in Nat /\ 1 \in 1..(n + 1)
  BY RowFacts
<1>2. /\ w.type \in {"FROM_TIMETAG", "FROM_TIMETAG_TO_TIMETAG"} => w.from \in Int /\ w.from - 1 \in Int
      /\ w.type \in {"TO_TIMETAG", "FROM_TIMETAG_TO_TIMETAG"} => w.to \in Int
  <2>1. Tags \subseteq Int /\ \A x \in Tags : x - 1 \in Int
    BY SchedulingAssumption
  <2>2. QED
    BY <2>1 DEF Windows
<1>3. f.begin \in 1..(n + 1)
  <2>1. CASE w.type \in {"FROM_TIMETAG", "FROM_TIMETAG_TO_TIMETAG"}
    <3>1. f.begin = FirstAbove(s, 1, w.from - 1)
      BY <2>1 DEF getMapFilter
    <3>2. QED
      BY <1>1, <1>2, <2>1, <3>1, FirstAboveFacts
  <2>2. CASE w.type \notin {"FROM_TIMETAG", "FROM_TIMETAG_TO_TIMETAG"}
    <3>1. f.begin = 1
      BY <2>2 DEF getMapFilter
    <3>2. QED
      BY <1>1, <3>1
  <2>3. QED
    BY <2>1, <2>2
<1>4. f.end \in f.begin..(n + 1)
  <2>1. CASE w.type \in {"TO_TIMETAG", "FROM_TIMETAG_TO_TIMETAG"}
    <3>1. f.end = FirstAbove(s, f.begin, w.to)
      BY <2>1 DEF getMapFilter
    <3>2. QED
      BY <1>2, <1>3, <2>1, <3>1, FirstAboveFacts
  <2>2. CASE w.type \notin {"TO_TIMETAG", "FROM_TIMETAG_TO_TIMETAG"}
    <3>1. f.end = n + 1
      BY <2>2 DEF getMapFilter
    <3>2. QED
      BY <1>1, <1>3, <3>1
  <2>3. QED
    BY <2>1, <2>2
<1>5. QED
  BY <1>3, <1>4

\* The map in three parts, as a window cuts it.
ThreeParts(s, a, b) ==
    [before |-> SubSeq(s, 1, a - 1), rest |-> SubSeq(s, a, b - 1), behind |-> SubSeq(s, b, Len(s))]

\* A window cuts a map in order into parts in order.
LEMMA PartsFacts ==
  ASSUME NEW s \in Seq(Rows), InTimeOrder(s), NEW a \in 1..(Len(s) + 1), NEW b \in a..(Len(s) + 1),
         NEW p, p = ThreeParts(s, a, b)
  PROVE  /\ p \in Loops /\ LoopInOrder(p) /\ LoopHas(p, Len(s), Entries(s))
         /\ Len(p.rest) = b - a /\ \A i \in 1..(b - a) : p.rest[i] = s[a + i - 1]
<1> DEFINE n == Len(s)
<1>1. n \in Nat /\ a \in Int /\ b \in Int /\ b \in 1..(n + 1) /\ 1 <= a /\ a <= b /\ b <= n + 1
  BY RowFacts
<1>2. PICK x, y, z : x = SubSeq(s, 1, a - 1) /\ y = SubSeq(s, a, b - 1) /\ z = SubSeq(s, b, n)
  OBVIOUS
<1>3. x \in Seq(Rows) /\ Len(x) = a - 1 /\ \A i \in 1..(a - 1) : x[i] = s[i]
  <2>1. 1 \in 1..(n + 1) /\ a - 1 \in (1 - 1)..n
    BY <1>1
  <2>2. /\ x \in Seq(Rows) /\ Len(x) = (a - 1) - 1 + 1
        /\ \A i \in 1..((a - 1) - 1 + 1) : x[i] = s[1 + i - 1]
    BY <1>2, <2>1, Sliced
  <2>3. (a - 1) - 1 + 1 = a - 1 /\ \A i \in 1..(a - 1) : 1 + i - 1 = i
    BY <1>1
  <2>4. QED
    BY <2>2, <2>3
<1>4. y \in Seq(Rows) /\ Len(y) = b - a /\ \A i \in 1..(b - a) : y[i] = s[a + i - 1]
  <2>1. b - 1 \in (a - 1)..n
    BY <1>1
  <2>2. /\ y \in Seq(Rows) /\ Len(y) = (b - 1) - a + 1
        /\ \A i \in 1..((b - 1) - a + 1) : y[i] = s[a + i - 1]
    BY <1>2, <2>1, Sliced
  <2>3. (b - 1) - a + 1 = b - a
    BY <1>1
  <2>4. QED
    BY <2>2, <2>3
<1>5. z \in Seq(Rows) /\ Len(z) = n - b + 1 /\ \A i \in 1..(n - b + 1) : z[i] = s[b + i - 1]
  <2>1. n \in (b - 1)..n
    BY <1>1
  <2>2. QED
    BY <1>1, <1>2, <2>1, Sliced
<1>6. p = [before |-> x, rest |-> y, behind |-> z] /\ p.before = x /\ p.rest = y /\ p.behind = z
  BY <1>2 DEF ThreeParts
<1>7. p \in Loops
  BY <1>3, <1>4, <1>5, <1>6 DEF Loops
<1> HIDE DEF n
<1>8. /\ \A i \in 1..(a - 1) : i \in 1..n
      /\ \A i \in 1..(b - a) : a + i - 1 \in 1..n /\ a + i - 1 >= a /\ a + i - 1 < b
      /\ \A i \in 1..(n - b + 1) : b + i - 1 \in 1..n /\ b + i - 1 >= b
  BY <1>1
<1>9. ASSUME NEW i \in 1..n, NEW j \in 1..n, i < j
      PROVE  s[i].time <= s[j].time
  BY <1>9 DEF InTimeOrder, n
<1>10. InTimeOrder(x)
  <2>1. ASSUME NEW i \in 1..(a - 1), NEW j \in 1..(a - 1), i < j
        PROVE  x[i].time <= x[j].time
    BY <1>3, <1>8, <1>9, <2>1
  <2>2. QED
    BY <1>3, <2>1 DEF InTimeOrder
<1>11. InTimeOrder(y)
  <2>1. ASSUME NEW i \in 1..(b - a), NEW j \in 1..(b - a), i < j
        PROVE  y[i].time <= y[j].time
    <3>1. a + i - 1 < a + j - 1
      BY <1>1, <2>1
    <3>2. QED
      BY <1>4, <1>8, <1>9, <3>1
  <2>2. QED
    BY <1>4, <2>1 DEF InTimeOrder
<1>12. InTimeOrder(z)
  <2>1. ASSUME NEW i \in 1..(n - b + 1), NEW j \in 1..(n - b + 1), i < j
        PROVE  z[i].time <= z[j].time
    <3>1. b + i - 1 < b + j - 1
      BY <1>1, <2>1
    <3>2. QED
      BY <1>5, <1>8, <1>9, <3>1
  <2>2. QED
    BY <1>5, <2>1 DEF InTimeOrder
<1>13. NoLater(x, y)
  <2>1. ASSUME NEW i \in 1..(a - 1), NEW j \in 1..(b - a)
        PROVE  x[i].time <= y[j].time
    <3>1. i < a + j - 1
      BY <1>1
    <3>2. QED
      BY <1>3, <1>4, <1>8, <1>9, <3>1
  <2>2. QED
    BY <1>3, <1>4, <2>1 DEF NoLater
<1>14. NoLater(y, z)
  <2>1. ASSUME NEW i \in 1..(b - a), NEW j \in 1..(n - b + 1)
        PROVE  y[i].time <= z[j].time
    <3>1. a + i - 1 < b + j - 1
      BY <1>1
    <3>2. QED
      BY <1>4, <1>5, <1>8, <1>9, <3>1
  <2>2. QED
    BY <1>4, <1>5, <2>1 DEF NoLater
<1>15. NoLater(x, z)
  <2>1. ASSUME NEW i \in 1..(a - 1), NEW j \in 1..(n - b + 1)
        PROVE  x[i].time <= z[j].time
    <3>1. i < b + j - 1
      BY <1>1
    <3>2. QED
      BY <1>3, <1>5, <1>8, <1>9, <3>1
  <2>2. QED
    BY <1>3, <1>5, <2>1 DEF NoLater
<1>16. Entries(x) \cup Entries(y) \cup Entries(z) = Entries(s)
  <2>1. ASSUME NEW i \in 1..n
        PROVE  s[i].tc \in Entries(x) \cup Entries(y) \cup Entries(z)
    <3>1. CASE i < a
      <4>1. i \in 1..(a - 1)
        BY <1>1, <3>1
      <4>2. QED
        BY <1>3, <4>1 DEF Entries
    <3>2. CASE i >= a /\ i < b
      <4>1. i - a + 1 \in 1..(b - a) /\ a + (i - a + 1) - 1 = i
        BY <1>1, <3>2
      <4>2. QED
        BY <1>4, <4>1 DEF Entries
    <3>3. CASE i >= b
      <4>1. i - b + 1 \in 1..(n - b + 1) /\ b + (i - b + 1) - 1 = i
        BY <1>1, <3>3
      <4>2. QED
        BY <1>5, <4>1 DEF Entries
    <3>4. QED
      BY <1>1, <3>1, <3>2, <3>3
  <2>2. Entries(x) \subseteq Entries(s)
    BY <1>3, <1>8 DEF Entries, n
  <2>3. Entries(y) \subseteq Entries(s)
    BY <1>4, <1>8 DEF Entries, n
  <2>4. Entries(z) \subseteq Entries(s)
    BY <1>5, <1>8 DEF Entries, n
  <2>5. Entries(s) \subseteq Entries(x) \cup Entries(y) \cup Entries(z)
    <3>1. Entries(s) = { s[i].tc : i \in 1..n }
      BY DEF Entries, n
    <3>2. QED
      BY <2>1, <3>1
  <2>6. QED
    BY <2>2, <2>3, <2>4, <2>5
<1>17. Len(x) + Len(y) + Len(z) = n
  BY <1>1, <1>3, <1>4, <1>5
<1>18. LoopInOrder(p)
  BY <1>6, <1>10, <1>11, <1>12, <1>13, <1>14, <1>15 DEF LoopInOrder
<1>19. LoopHas(p, n, Entries(s))
  BY <1>6, <1>16, <1>17 DEF LoopHas
<1>20. QED
  BY <1>4, <1>6, <1>7, <1>18, <1>19 DEF n

\* The loop loses nothing and leaves the map in order.
LEMMA ShiftAllFacts ==
  ASSUME NEW s \in Seq(Rows), s = telecommandMap, InTimeOrder(s), Len(s) <= MAX_NUM_TCS,
         NEW w \in Windows, NEW f, f = getMapFilter(w), NEW r \in Times, r # 0, NEW u, u = ShiftAll(f, r)
  PROVE  u \in Seq(Rows) /\ Len(u) = Len(s) /\ InTimeOrder(u) /\ Entries(u) = Entries(s)
<1>1. f.begin \in 1..(Len(s) + 1) /\ f.end \in f.begin..(Len(s) + 1) /\ Len(s) \in Nat
  BY WindowFacts, RowFacts
<1>2. PICK p, turns : /\ p = [before |-> Before(f), rest |-> Selected(f), behind |-> Behind(f)]
                      /\ turns = MAX_NUM_TCS * TimeRange
  OBVIOUS
<1>3. p \in Loops /\ LoopInOrder(p) /\ LoopHas(p, Len(s), Entries(s))
  <2>1. p = ThreeParts(s, f.begin, f.end)
    BY <1>2 DEF ThreeParts, Before, Selected, Behind
  <2>2. QED
    BY <1>1, <2>1, PartsFacts
<1>4. turns \in Nat
  BY <1>2, SchedulingAssumption
<1> DEFINE g == CHOOSE h : LoopRuns(p, r, turns, h)
<1>5. LoopRuns(p, r, turns, g)
  BY <1>4, LoopExists
<1>6. PICK done : done = g[turns]
  OBVIOUS
<1>7. u = done.before \o done.behind
  BY <1>2, <1>6 DEF ShiftAll, LoopRuns
<1> HIDE DEF g
<1>8. done \in Loops /\ LoopInOrder(done) /\ LoopHas(done, Len(s), Entries(s)) /\ done.rest = <<>>
  BY <1>1, <1>2, <1>3, <1>5, <1>6, TimeshiftLoopEnds
<1>9. PICK x, z : x = done.before /\ z = done.behind
  OBVIOUS
<1>10. /\ x \in Seq(Rows) /\ z \in Seq(Rows) /\ u = x \o z
       /\ InTimeOrder(x) /\ InTimeOrder(z) /\ NoLater(x, z)
  BY <1>7, <1>8, <1>9 DEF Loops, LoopInOrder
<1>11. /\ u \in Seq(Rows) /\ Len(x) \in Nat /\ Len(z) \in Nat /\ Len(u) = Len(x) + Len(z)
       /\ \A i \in 1..Len(x) : u[i] = x[i]
       /\ \A i \in 1..Len(z) : u[Len(x) + i] = z[i]
  BY <1>10, Joined
<1>12. Len(x) + Len(z) = Len(s) /\ Entries(x) \cup Entries(z) = Entries(s)
  <2>1. Len(done.rest) = 0 /\ Entries(done.rest) = {}
    BY <1>8 DEF Entries
  <2>2. /\ Len(x) + Len(done.rest) + Len(z) = Len(s)
        /\ Entries(x) \cup Entries(done.rest) \cup Entries(z) = Entries(s)
    BY <1>8, <1>9 DEF LoopHas
  <2>3. QED
    BY <1>1, <1>11, <2>1, <2>2
<1>13. \A i \in 1..Len(u) : i \in 1..Len(x) \/ (i - Len(x) \in 1..Len(z) /\ Len(x) + (i - Len(x)) = i)
  BY <1>11
<1>14. InTimeOrder(u)
  <2>1. ASSUME NEW i \in 1..Len(u), NEW j \in 1..Len(u), i < j
        PROVE  u[i].time <= u[j].time
    <3>1. CASE j \in 1..Len(x)
      <4>1. i \in 1..Len(x) /\ u[i] = x[i] /\ u[j] = x[j]
        BY <1>11, <2>1, <3>1
      <4>2. QED
        BY <1>10, <2>1, <3>1, <4>1 DEF InTimeOrder
    <3>2. CASE i \in 1..Len(x) /\ j \notin 1..Len(x)
      <4>1. u[i] = x[i] /\ j - Len(x) \in 1..Len(z) /\ u[j] = z[j - Len(x)]
        BY <1>11, <1>13, <3>2
      <4>2. QED
        BY <1>10, <3>2, <4>1 DEF NoLater
    <3>3. CASE i \notin 1..Len(x)
      <4>1. j \notin 1..Len(x) /\ i - Len(x) < j - Len(x)
        BY <1>11, <2>1, <3>3
      <4>2. /\ i - Len(x) \in 1..Len(z) /\ u[i] = z[i - Len(x)]
            /\ j - Len(x) \in 1..Len(z) /\ u[j] = z[j - Len(x)]
        BY <1>11, <1>13, <3>3, <4>1
      <4>3. QED
        BY <1>10, <4>1, <4>2 DEF InTimeOrder
    <3>4. QED
      BY <3>1, <3>2, <3>3
  <2>2. QED
    BY <2>1 DEF InTimeOrder
<1>15. Entries(u) = Entries(s)
  <2>1. ASSUME NEW i \in 1..Len(u)
        PROVE  u[i].tc \in Entries(x) \cup Entries(z)
    <3>1. CASE i \in 1..Len(x)
      BY <1>11, <3>1 DEF Entries
    <3>2. CASE i \notin 1..Len(x)
      <4>1. i - Len(x) \in 1..Len(z) /\ u[i] = z[i - Len(x)]
        BY <1>11, <1>13, <3>2
      <4>2. QED
        BY <4>1 DEF Entries
    <3>3. QED
      BY <3>1, <3>2
  <2>2. ASSUME NEW i \in 1..Len(x)
        PROVE  x[i].tc \in Entries(u)
    <3>1. i \in 1..Len(u)
      BY <1>11
    <3>2. QED
      BY <1>11, <3>1 DEF Entries
  <2>3. ASSUME NEW i \in 1..Len(z)
        PROVE  z[i].tc \in Entries(u)
    <3>1. Len(x) + i \in 1..Len(u)
      BY <1>11
    <3>2. QED
      BY <1>11, <3>1 DEF Entries
  <2>4. Entries(u) = Entries(x) \cup Entries(z)
    <3>1. Entries(u) = { u[i].tc : i \in 1..Len(u) }
      BY DEF Entries
    <3>2. Entries(x) = { x[i].tc : i \in 1..Len(x) } /\ Entries(z) = { z[i].tc : i \in 1..Len(z) }
      BY DEF Entries
    <3>3. Entries(u) \subseteq Entries(x) \cup Entries(z)
      BY <2>1, <3>1
    <3>4. Entries(x) \subseteq Entries(u) /\ Entries(z) \subseteq Entries(u)
      BY <2>2, <2>3, <3>2
    <3>5. QED
      BY <3>3, <3>4
  <2>5. QED
    BY <1>12, <2>4
<1>16. QED
  BY <1>11, <1>12, <1>14, <1>15

-----------------------------------------------------------------------------
(* The requests keep the invariant *)

\* What the invariant says of the types and of the map.
LEMMA ScheduleFacts ==
  ASSUME ScheduleInv
  PROVE  /\ telecommandMap \in Seq(Rows) /\ Len(telecommandMap) \in Nat /\ Len(telecommandMap) <= MAX_NUM_TCS
         /\ InTimeOrder(telecommandMap) /\ EachOnce(telecommandMap)
         /\ tcStore \subseteq Activities /\ IsFiniteSet(tcStore) /\ Cardinality(tcStore) <= StoreSize
         /\ fate \in [Activities -> Fates] /\ due \in [Activities -> Times] /\ strayed \subseteq Activities
         /\ Scheduled \subseteq Activities
<1>1. telecommandMap \in Seq(Rows) /\ Len(telecommandMap) <= MAX_NUM_TCS /\ Len(telecommandMap) \in Nat
  BY LenProperties DEF ScheduleInv, TypeOK, Rows
<1>2. /\ tcStore \subseteq Activities /\ Cardinality(tcStore) <= StoreSize
      /\ fate \in [Activities -> Fates] /\ due \in [Activities -> Times] /\ strayed \subseteq Activities
      /\ InTimeOrder(telecommandMap) /\ EachOnce(telecommandMap)
  BY DEF ScheduleInv, TypeOK
<1>3. IsFiniteSet(tcStore)
  BY <1>2, SchedulingAssumption, FS_Subset
<1>4. \A i \in 1..Len(telecommandMap) : telecommandMap[i].tc \in Activities
  BY <1>1, RowFacts
<1>5. Scheduled \subseteq Activities
  BY <1>4 DEF Scheduled, Entries
<1>6. QED
  BY <1>1, <1>2, <1>3, <1>5

\* The telecommands in the map are scheduled, those in the queue are released.
LEMMA WhatIsWhere ==
  ASSUME ScheduleInv
  PROVE  /\ \A a \in Scheduled : fate[a] = "SCHEDULED" /\ a \in tcStore
         /\ Range(queue) = { queue[i] : i \in 1..Len(queue) }
         /\ \A a \in Range(queue) : a \in Activities /\ fate[a] = "RELEASED" /\ a \in tcStore
         /\ \A a \in tcStore : a \in Scheduled \cup Range(queue) \cup strayed \/ fate[a] = "REFUSED"
<1>1. \A a \in Scheduled : fate[a] = "SCHEDULED"
  BY DEF ScheduleInv, ScheduleFates, Scheduled, Entries
<1>2. queue \in Seq(Activities)
  BY DEF ScheduleInv, TypeOK
<1>3. Range(queue) = { queue[i] : i \in 1..Len(queue) }
  <2>1. DOMAIN queue = 1..Len(queue)
    BY <1>2, LenProperties
  <2>2. QED
    BY <2>1 DEF Range
<1>4. \A i \in 1..Len(queue) : queue[i] \in Activities /\ fate[queue[i]] = "RELEASED"
  BY <1>2, ElementOfSeq DEF ScheduleInv, QueueFates
<1>5. /\ Scheduled \cup Range(queue) \subseteq tcStore
      /\ tcStore \ (Scheduled \cup Range(queue)) \subseteq { a \in Activities : fate[a] = "REFUSED" } \cup strayed
  BY DEF ScheduleInv, StoreMatchesSchedule
<1>6. QED
  BY <1>1, <1>3, <1>4, <1>5

\* Entries leave the map: those in G come to their end, and of the others none
\* is lost but the strayed ones.
Leaves(G, f) ==
    /\ \E a \in 1..(Len(telecommandMap) + 1) : \E b \in a..(Len(telecommandMap) + 1) :
          /\ TakenOut(telecommandMap, a, b, telecommandMap')
          /\ \A x \in 1..Len(telecommandMap) : telecommandMap[x].tc \in G => x >= a /\ x < b
    /\ G \subseteq Scheduled /\ f \in {"DELETED", "RELEASED"} /\ End(G, f)
    /\ strayed \subseteq strayed' /\ strayed' \subseteq Activities
    /\ Scheduled \subseteq strayed' \cup G \cup Entries(telecommandMap')

\* The map that is left.
LEMMA LeavingKeepsMap ==
  ASSUME ScheduleInv, NEW G, NEW f, Leaves(G, f)
  PROVE  /\ telecommandMap' \in Seq(Rows) /\ Len(telecommandMap') <= MAX_NUM_TCS
         /\ InTimeOrder(telecommandMap)' /\ EachOnce(telecommandMap)'
         /\ Scheduled' \subseteq Scheduled \ G
         /\ \A i \in 1..Len(telecommandMap') :
               telecommandMap'[i].tc \notin G /\ \E x \in 1..Len(telecommandMap) : telecommandMap'[i] = telecommandMap[x]
<1>1. PICK s, u : s = telecommandMap /\ u = telecommandMap'
  OBVIOUS
<1>2. s \in Seq(Rows) /\ Len(s) \in Nat /\ Len(s) <= MAX_NUM_TCS /\ InTimeOrder(s) /\ EachOnce(s)
  BY <1>1, ScheduleFacts
<1>3. PICK a \in 1..(Len(s) + 1) : \E b \in a..(Len(s) + 1) :
          TakenOut(s, a, b, u) /\ \A x \in 1..Len(s) : s[x].tc \in G => x >= a /\ x < b
  BY <1>1 DEF Leaves
<1>4. PICK b \in a..(Len(s) + 1) :
          TakenOut(s, a, b, u) /\ \A x \in 1..Len(s) : s[x].tc \in G => x >= a /\ x < b
  BY <1>3
<1>5. /\ \A i \in 1..Len(u) : \E x \in 1..Len(s) : (x < a \/ x >= b) /\ u[i] = s[x]
      /\ InTimeOrder(u) /\ EachOnce(u)
  <2>1. OthersStay(s, a, b, u) /\ InTimeOrder(u) /\ EachOnce(u)
    BY <1>2, <1>4, TakenOutFacts
  <2>2. QED
    BY <2>1 DEF OthersStay
<1>6. u \in Seq(Rows) /\ Len(u) <= MAX_NUM_TCS
  <2>1. u \in Seq(Rows) /\ Len(u) = Len(s) - (b - a)
    BY <1>4 DEF TakenOut
  <2>2. Len(s) - (b - a) <= Len(s) /\ Len(s) - (b - a) \in Int /\ MAX_NUM_TCS \in Int
    BY <1>2, SchedulingAssumption
  <2>3. QED
    BY <1>2, <2>1, <2>2
<1>7. ASSUME NEW i \in 1..Len(u)
      PROVE  u[i].tc \notin G /\ \E x \in 1..Len(s) : u[i] = s[x]
  <2>1. PICK x \in 1..Len(s) : (x < a \/ x >= b) /\ u[i] = s[x]
    BY <1>5
  <2>2. s[x].tc \notin G
    <3>1. ~(x >= a /\ x < b)
      BY <1>2, <2>1
    <3>2. QED
      BY <1>4, <3>1
  <2>3. QED
    BY <2>1, <2>2
<1>8. Entries(u) \subseteq Entries(s) \ G
  BY <1>7 DEF Entries
<1>9. InTimeOrder(telecommandMap)' /\ EachOnce(telecommandMap)'
  BY <1>1, <1>5 DEF InTimeOrder, EachOnce
<1>10. Scheduled' \subseteq Scheduled \ G
  <2>1. Scheduled = Entries(s) /\ Scheduled' = Entries(u)
    BY <1>1 DEF Scheduled, Entries
  <2>2. QED
    BY <1>8, <2>1
<1>11. QED
  BY <1>1, <1>6, <1>7, <1>9, <1>10

\* The fates when entries leave.
LEMMA LeavingKeepsFates ==
  ASSUME ScheduleInv, NEW G, NEW f, Leaves(G, f)
  PROVE  /\ fate' \in [Activities -> Fates] /\ due' \in [Activities -> Times]
         /\ \A a \in Activities : fate'[a] = (IF a \in G THEN f ELSE fate[a]) /\ (a \notin G => due'[a] = due[a])
         /\ ScheduleFates'
<1>1. /\ fate \in [Activities -> Fates] /\ due \in [Activities -> Times] /\ Scheduled \subseteq Activities
      /\ telecommandMap \in Seq(Rows)
  BY ScheduleFacts
<1>2. /\ fate' = [a \in Activities |-> IF a \in G THEN f ELSE fate[a]]
      /\ due' = [a \in Activities |-> IF a \in G THEN 0 ELSE due[a]]
  BY DEF Leaves, End
<1>3. f \in Fates /\ 0 \in Times /\ f # "SCHEDULED"
  BY SchedulingAssumption DEF Leaves, Fates, Times
<1>4. fate' \in [Activities -> Fates] /\ due' \in [Activities -> Times]
  BY <1>1, <1>2, <1>3
<1>5. \A a \in Activities : fate'[a] = (IF a \in G THEN f ELSE fate[a]) /\ (a \notin G => due'[a] = due[a])
  BY <1>2
<1>6. ASSUME NEW i \in 1..Len(telecommandMap')
      PROVE  /\ fate'[telecommandMap'[i].tc] = "SCHEDULED"
             /\ telecommandMap'[i].tc \notin strayed' => telecommandMap'[i].time = due'[telecommandMap'[i].tc]
  <2>1. PICK x \in 1..Len(telecommandMap) : telecommandMap'[i] = telecommandMap[x]
    BY LeavingKeepsMap
  <2>2. telecommandMap[x].tc \notin G /\ telecommandMap[x].tc \in Activities
    BY <1>1, <2>1, LeavingKeepsMap, RowFacts
  <2>3. /\ fate[telecommandMap[x].tc] = "SCHEDULED"
        /\ telecommandMap[x].tc \notin strayed => telecommandMap[x].time = due[telecommandMap[x].tc]
    BY DEF ScheduleInv, ScheduleFates
  <2>4. strayed \subseteq strayed'
    BY DEF Leaves
  <2>5. QED
    BY <1>5, <2>1, <2>2, <2>3, <2>4
<1>7. ASSUME NEW a \in Activities \ strayed', fate'[a] = "SCHEDULED"
      PROVE  a \in Scheduled'
  <2>1. a \notin G /\ fate[a] = "SCHEDULED"
    BY <1>3, <1>5, <1>7
  <2>2. a \notin strayed
    BY DEF Leaves
  <2>3. a \in Scheduled
    BY <2>1, <2>2 DEF ScheduleInv, ScheduleFates
  <2>4. a \in Entries(telecommandMap')
    BY <2>1, <2>3 DEF Leaves
  <2>5. QED
    BY <2>4 DEF Scheduled, Entries
<1>8. QED
  BY <1>4, <1>5, <1>6, <1>7 DEF ScheduleFates

\* A request leaves the queue alone.
LEMMA QueueStays ==
  ASSUME ScheduleInv, queue' = queue, \A a \in Activities : fate[a] = "RELEASED" => fate'[a] = "RELEASED"
  PROVE  QueueFates' /\ Range(queue)' = Range(queue)
<1>1. \A i \in 1..Len(queue) : queue[i] \in Activities /\ fate[queue[i]] = "RELEASED"
  BY ElementOfSeq DEF ScheduleInv, QueueFates, TypeOK
<1>2. \A i, j \in 1..Len(queue) : queue[i] = queue[j] => i = j
  BY DEF ScheduleInv, QueueFates
<1>3. QED
  BY <1>1, <1>2 DEF QueueFates, Range

\* A store that loses packets stays in its size.
LEMMA StoreShrinks ==
  ASSUME ScheduleInv, tcStore' \subseteq tcStore
  PROVE  tcStore' \subseteq Activities /\ Cardinality(tcStore') <= StoreSize
<1>1. tcStore \subseteq Activities /\ IsFiniteSet(tcStore) /\ Cardinality(tcStore) <= StoreSize
  BY ScheduleFacts
<1>2. PICK S, T : S = tcStore /\ T = tcStore'
  OBVIOUS
<1>3. IsFiniteSet(S) /\ T \in SUBSET S
  BY <1>1, <1>2
<1>4. IsFiniteSet(T) /\ Cardinality(T) <= Cardinality(S)
  BY <1>3, FS_Subset
<1>5. Cardinality(S) \in Nat /\ Cardinality(T) \in Nat /\ StoreSize \in Nat
  BY <1>3, <1>4, FS_CardinalityType, SchedulingAssumption
<1>6. QED
  BY <1>1, <1>2, <1>4, <1>5

\* Deleting keeps the invariant.
LEMMA LeavingDeletes ==
  ASSUME ScheduleInv, NEW G, Leaves(G, "DELETED"), tcStore' = tcStore \ G,
         UNCHANGED <<schedulingEnabled, queue, clock>>
  PROVE  ScheduleInv'
<1>1. /\ telecommandMap' \in Seq(Rows) /\ Len(telecommandMap') <= MAX_NUM_TCS
      /\ InTimeOrder(telecommandMap)' /\ EachOnce(telecommandMap)' /\ Scheduled' \subseteq Scheduled \ G
  BY LeavingKeepsMap
<1>2. /\ fate' \in [Activities -> Fates] /\ due' \in [Activities -> Times]
      /\ \A a \in Activities : fate'[a] = (IF a \in G THEN "DELETED" ELSE fate[a])
      /\ ScheduleFates'
  BY LeavingKeepsFates
<1>3. G \subseteq Scheduled /\ Scheduled \subseteq Activities /\ strayed' \subseteq Activities /\ strayed \subseteq strayed'
  BY ScheduleFacts DEF Leaves
<1>4. Scheduled \subseteq strayed' \cup G \cup Scheduled'
  BY DEF Leaves, Scheduled, Entries
<1>5. \A a \in G : fate[a] = "SCHEDULED"
  BY <1>3, WhatIsWhere
<1>6. QueueFates' /\ Range(queue)' = Range(queue)
  <2>1. \A a \in Activities : fate[a] = "RELEASED" => fate'[a] = "RELEASED"
    BY <1>2, <1>5
  <2>2. QED
    BY <2>1, QueueStays
<1>7. TypeOK'
  <2>1. tcStore' \subseteq Activities /\ Cardinality(tcStore') <= StoreSize
    BY StoreShrinks
  <2>2. schedulingEnabled' \in BOOLEAN /\ queue' \in Seq(Activities) /\ Len(queue') <= QueueDepth /\ clock' \in 0..MaxTime
    BY DEF ScheduleInv, TypeOK
  <2>3. QED
    BY <1>1, <1>2, <1>3, <2>1, <2>2 DEF TypeOK, Rows
<1>8. StoreMatchesSchedule'
  <2>1. Scheduled' \cup Range(queue)' \subseteq tcStore'
    <3>1. Scheduled' \subseteq tcStore \ G
      BY <1>1, WhatIsWhere
    <3>2. Range(queue) \subseteq tcStore \ G
      BY <1>5, WhatIsWhere
    <3>3. QED
      BY <1>6, <3>1, <3>2
  <2>2. ASSUME NEW a \in tcStore', a \notin Scheduled' \cup Range(queue)', a \notin strayed'
        PROVE  a \in Activities /\ fate'[a] = "REFUSED"
    <3>1. a \in tcStore /\ a \notin G /\ a \notin Range(queue) /\ a \notin strayed
      BY <1>3, <1>6, <2>2
    <3>2. a \notin Scheduled
      BY <1>4, <2>2, <3>1
    <3>3. fate[a] = "REFUSED" /\ a \in Activities
      BY <3>1, <3>2, WhatIsWhere, ScheduleFacts
    <3>4. QED
      BY <1>2, <3>1, <3>3
  <2>3. QED
    BY <2>1, <2>2 DEF StoreMatchesSchedule
<1>9. QED
  BY <1>1, <1>2, <1>6, <1>7, <1>8 DEF ScheduleInv

\* RESET_SCHEDULING
LEMMA ResetKeeps ==
  ASSUME ScheduleInv, handleResetCommand
  PROVE  ScheduleInv'
<1>1. PICK s : s = telecommandMap
  OBVIOUS
<1>2. s \in Seq(Rows) /\ Len(s) \in Nat /\ Scheduled \subseteq Activities /\ strayed \subseteq Activities
  BY <1>1, ScheduleFacts
<1>3. telecommandMap' = <<>> /\ End(Scheduled, "DELETED") /\ tcStore' = tcStore \ Scheduled /\ strayed' = strayed
  BY DEF handleResetCommand
<1>4. TakenOut(s, 1, Len(s) + 1, <<>>)
  <2>1. Len(s) - (Len(s) + 1 - 1) = 0 /\ 1 - 1 = 0
    BY <1>2
  <2>2. QED
    BY <2>1 DEF TakenOut
<1>5. /\ 1 \in 1..(Len(s) + 1) /\ Len(s) + 1 \in 1..(Len(s) + 1)
      /\ \A x \in 1..Len(s) : x >= 1 /\ x < Len(s) + 1
  BY <1>2
<1>6. \E a \in 1..(Len(s) + 1) : \E b \in a..(Len(s) + 1) :
          TakenOut(s, a, b, <<>>) /\ \A x \in 1..Len(s) : s[x].tc \in Scheduled => x >= a /\ x < b
  BY <1>4, <1>5
<1>7. Leaves(Scheduled, "DELETED")
  BY <1>1, <1>2, <1>3, <1>6 DEF Leaves
<1>8. QED
  BY <1>3, <1>7, LeavingDeletes DEF handleResetCommand

HasOthersOf(s, i, u) == \A j \in 1..Len(u) : u[j].tc # s[i].tc /\ \E x \in 1..Len(s) : u[j] = s[x]

\* Erasing one entry.
LEMMA RemovedFacts ==
  ASSUME NEW s \in Seq(Rows), EachOnce(s), NEW i \in 1..Len(s), NEW u, u = RemoveAt(s, i)
  PROVE  /\ TakenOut(s, i, i + 1, u) /\ u \in Seq(Rows) /\ Len(u) = Len(s) - 1
         /\ InTimeOrder(s) => InTimeOrder(u)
         /\ EachOnce(u)
         /\ \A x \in 1..Len(s) : s[x].tc \in {s[i].tc} => x >= i /\ x < i + 1
         /\ HasOthersOf(s, i, u)
         /\ Entries(s) \subseteq {s[i].tc} \cup Entries(u)
<1>1. PICK b : b = i + 1
  OBVIOUS
<1>2. Len(s) \in Nat /\ i \in 1..(Len(s) + 1) /\ b \in i..(Len(s) + 1)
  BY <1>1, RowFacts
<1>3. TakenOut(s, i, b, u)
  <2>1. u = Cut(s, i, b)
    BY <1>1 DEF Cut, RemoveAt
  <2>2. QED
    BY <1>2, <2>1, CutTakesOut
<1>4. /\ \A j \in 1..Len(u) : \E x \in 1..Len(s) : (x < i \/ x >= b) /\ u[j] = s[x]
      /\ InTimeOrder(s) => InTimeOrder(u)
      /\ EachOnce(u)
  <2>1. OthersStay(s, i, b, u)
    BY <1>2, <1>3, TakenOutFacts
  <2>2. InTimeOrder(s) => InTimeOrder(u)
    BY <1>2, <1>3, TakenOutFacts
  <2>3. EachOnce(u)
    BY <1>2, <1>3, TakenOutFacts
  <2>4. QED
    BY <2>1, <2>2, <2>3 DEF OthersStay
<1>5. \A x \in 1..Len(s) : x < i \/ x >= b => \E j \in 1..Len(u) : u[j] = s[x]
  <2>1. OthersStay(s, i, b, u)
    BY <1>2, <1>3, TakenOutFacts
  <2>2. QED
    BY <2>1 DEF OthersStay
<1>6. u \in Seq(Rows) /\ Len(u) = Len(s) - 1
  <2>1. b - i = 1
    BY <1>1, <1>2
  <2>2. QED
    BY <1>3, <2>1 DEF TakenOut
<1>7. \A x \in 1..Len(s) : s[x].tc = s[i].tc => x = i
  BY DEF EachOnce
<1>8. \A x \in 1..Len(s) : s[x].tc \in {s[i].tc} => x >= i /\ x < i + 1
  BY <1>2, <1>7
<1>9. ASSUME NEW j \in 1..Len(u)
      PROVE  u[j].tc # s[i].tc /\ \E x \in 1..Len(s) : u[j] = s[x]
  <2>1. PICK x \in 1..Len(s) : (x < i \/ x >= b) /\ u[j] = s[x]
    BY <1>4
  <2>2. x # i
    BY <1>1, <1>2, <2>1
  <2>3. QED
    BY <1>7, <2>1, <2>2
<1>10. ASSUME NEW x \in 1..Len(s)
       PROVE  x = i \/ \E j \in 1..Len(u) : u[j] = s[x]
  <2>1. x = i \/ x < i \/ x >= b
    BY <1>1, <1>2
  <2>2. QED
    BY <1>5, <2>1
<1>11. Entries(s) \subseteq {s[i].tc} \cup Entries(u)
  BY <1>10 DEF Entries
<1>12. QED
  BY <1>1, <1>3, <1>4, <1>6, <1>8, <1>9, <1>11 DEF HasOthersOf

\* DELETE_ACTIVITY
LEMMA DeleteKeeps ==
  ASSUME ScheduleInv, NEW id, doDeleteActivity(id)
  PROVE  ScheduleInv'
<1>1. PICK s : s = telecommandMap
  OBVIOUS
<1>2. s \in Seq(Rows) /\ Len(s) \in Nat /\ DOMAIN s = 1..Len(s) /\ EachOnce(s) /\ strayed \subseteq Activities
  BY <1>1, ScheduleFacts, LenProperties
<1>3. PICK i \in Found(id) : /\ tcStore' = tcStore \ {telecommandMap[i].tc}
                             /\ telecommandMap' = RemoveAt(telecommandMap, i)
                             /\ End({telecommandMap[i].tc}, "DELETED")
  BY DEF doDeleteActivity
<1>4. i \in 1..Len(s)
  BY <1>1, <1>2 DEF Found
<1>5. PICK u : u = RemoveAt(s, i)
  OBVIOUS
<1>6. i \in 1..(Len(s) + 1) /\ i + 1 \in i..(Len(s) + 1)
  BY <1>2, <1>4
<1>7. TakenOut(s, i, i + 1, u) /\ \A x \in 1..Len(s) : s[x].tc \in {s[i].tc} => x >= i /\ x < i + 1
  BY <1>2, <1>4, <1>5, RemovedFacts
<1>8. Entries(s) \subseteq {s[i].tc} \cup Entries(u)
  BY <1>2, <1>4, <1>5, RemovedFacts
<1>9. {s[i].tc} \subseteq Scheduled /\ Scheduled = Entries(s)
  BY <1>1, <1>4 DEF Scheduled, Entries
<1>10. strayed' = strayed
  BY DEF doDeleteActivity
<1>11. Leaves({s[i].tc}, "DELETED")
  BY <1>1, <1>2, <1>3, <1>5, <1>6, <1>7, <1>8, <1>9, <1>10 DEF Leaves
<1>12. QED
  BY <1>1, <1>3, <1>11, LeavingDeletes DEF doDeleteActivity

\* What doFilterDeleteActivity leaves of the map.
CutFurther(s, a, b, kept) ==
    \E k \in b..(Len(s) + 1) : SubSeq(s, 1, a - 1) \o kept = Cut(s, a, k)

\* The window goes, and the entry behind it if there is one.
LEMMA FilterTakesOut ==
  ASSUME NEW s \in Seq(Rows), NEW a \in 1..(Len(s) + 1), NEW b \in a..(Len(s) + 1),
         NEW z, z = SubSeq(s, b, Len(s)), NEW kept, kept = IF z = <<>> THEN <<>> ELSE Tail(z)
  PROVE  CutFurther(s, a, b, kept)
<1> DEFINE n == Len(s)
<1>1. n \in Nat /\ a \in Int /\ b \in Int /\ b \in 1..(n + 1) /\ n \in (b - 1)..n
  BY RowFacts
<1>2. z \in Seq(Rows) /\ Len(z) = n - b + 1
  BY <1>1, Sliced
<1>3. CASE b = n + 1
  <2>1. z = <<>>
    BY <1>1, <1>2, <1>3, EmptySeq
  <2>2. kept = SubSeq(s, b, n)
    BY <2>1
  <2>3. b \in b..(n + 1)
    BY <1>1
  <2>4. SubSeq(s, 1, a - 1) \o kept = Cut(s, a, b)
    BY <2>2 DEF Cut
  <2>5. QED
    BY <2>3, <2>4 DEF CutFurther
<1>4. CASE b # n + 1
  <2>1. b <= n /\ b + 1 \in b..(n + 1) /\ Len(z) # 0
    BY <1>1, <1>2, <1>4
  <2>2. z # <<>>
    BY <1>2, <2>1, EmptySeq
  <2>3. Tail(z) = SubSeq(s, b + 1, n)
    <3>1. b \in 1..n /\ n \in b..n
      BY <1>1, <2>1
    <3>2. QED
      BY <1>1, <3>1, HeadTailOfSubSeq
  <2>4. SubSeq(s, 1, a - 1) \o kept = Cut(s, a, b + 1)
    BY <2>2, <2>3 DEF Cut
  <2>5. QED
    BY <2>1, <2>4 DEF CutFurther
<1>5. QED
  BY <1>3, <1>4

\* What a window selects of a map that has each telecommand once.
LEMMA SelectedFacts ==
  ASSUME NEW s \in Seq(Rows), EachOnce(s), NEW a \in 1..(Len(s) + 1), NEW b \in a..(Len(s) + 1),
         NEW y, y = SubSeq(s, a, b - 1)
  PROVE  /\ Entries(y) \subseteq Entries(s)
         /\ \A x \in 1..Len(s) : s[x].tc \in Entries(y) => x >= a /\ x < b
<1>1. Len(s) \in Nat /\ a \in Int /\ b \in Int /\ b - 1 \in (a - 1)..Len(s) /\ (b - 1) - a + 1 = b - a
  BY RowFacts
<1>2. Len(y) = b - a /\ \A i \in 1..(b - a) : y[i] = s[a + i - 1]
  <2>1. /\ Len(y) = (b - 1) - a + 1
        /\ \A i \in 1..((b - 1) - a + 1) : y[i] = s[a + i - 1]
    BY <1>1, Sliced
  <2>2. QED
    BY <1>1, <2>1
<1>3. \A i \in 1..(b - a) : a + i - 1 \in 1..Len(s) /\ a + i - 1 >= a /\ a + i - 1 < b
  BY <1>1
<1>4. Entries(y) \subseteq Entries(s)
  BY <1>2, <1>3 DEF Entries
<1>5. ASSUME NEW x \in 1..Len(s), s[x].tc \in Entries(y)
      PROVE  x >= a /\ x < b
  <2>1. PICK i \in 1..(b - a) : s[x].tc = s[a + i - 1].tc
    BY <1>2, <1>5 DEF Entries
  <2>2. PICK j : j = a + i - 1
    OBVIOUS
  <2>3. j \in 1..Len(s) /\ j >= a /\ j < b /\ s[x].tc = s[j].tc
    BY <1>3, <2>1, <2>2
  <2>4. x = j
    BY <2>3 DEF EachOnce
  <2>5. QED
    BY <2>3, <2>4
<1>6. QED
  BY <1>4, <1>5

\* FILTER_DELETE_ACTIVITY
LEMMA FilterDeleteKeeps ==
  ASSUME ScheduleInv, NEW w \in Windows, doFilterDeleteActivity(w)
  PROVE  ScheduleInv'
<1>1. PICK s, f : s = telecommandMap /\ f = getMapFilter(w)
  OBVIOUS
<1>2. s \in Seq(Rows) /\ EachOnce(s) /\ strayed \subseteq Activities /\ Scheduled \subseteq Activities
  BY <1>1, ScheduleFacts
<1>3. PICK a, b : a = f.begin /\ b = f.end
  OBVIOUS
<1>4. a \in 1..(Len(s) + 1) /\ b \in a..(Len(s) + 1) /\ Len(s) \in Nat
  BY <1>1, <1>2, <1>3, WindowFacts, RowFacts
<1>5. PICK y, z : y = SubSeq(s, a, b - 1) /\ z = SubSeq(s, b, Len(s))
  OBVIOUS
<1>6. PICK kept, G : kept = (IF z = <<>> THEN <<>> ELSE Tail(z)) /\ G = Entries(y)
  OBVIOUS
<1>7. /\ tcStore' = tcStore \ G /\ telecommandMap' = SubSeq(s, 1, a - 1) \o kept /\ End(G, "DELETED")
      /\ strayed' = strayed \cup (Scheduled \ (G \cup Entries(telecommandMap')))
  BY <1>1, <1>3, <1>5, <1>6 DEF doFilterDeleteActivity, Before, Selected, Behind
<1>8. PICK k \in b..(Len(s) + 1) : telecommandMap' = Cut(s, a, k)
  <2>1. CutFurther(s, a, b, kept)
    <3>1. s \in Seq(Rows) /\ z = SubSeq(s, b, Len(s))
      BY <1>2, <1>5
    <3>2. kept = IF z = <<>> THEN <<>> ELSE Tail(z)
      BY <1>6
    <3>3. QED
      BY ONLY <1>4, <3>1, <3>2, FilterTakesOut
  <2>2. QED
    BY <1>7, <2>1 DEF CutFurther
<1>9. k \in a..(Len(s) + 1) /\ TakenOut(s, a, k, telecommandMap')
  <2>1. k \in a..(Len(s) + 1)
    BY <1>4
  <2>2. QED
    BY <1>2, <1>4, <1>8, <2>1, CutTakesOut
<1>10. G \subseteq Entries(s) /\ \A x \in 1..Len(s) : s[x].tc \in G => x >= a /\ x < b
  BY <1>2, <1>4, <1>5, <1>6, SelectedFacts
<1>11. \A x \in 1..Len(s) : s[x].tc \in G => x >= a /\ x < k
  BY <1>4, <1>10
<1>12. Scheduled = Entries(s)
  BY <1>1 DEF Scheduled
<1>13. Leaves(G, "DELETED")
  <2>1. \E p \in 1..(Len(s) + 1) : \E q \in p..(Len(s) + 1) :
          TakenOut(s, p, q, telecommandMap') /\ \A x \in 1..Len(s) : s[x].tc \in G => x >= p /\ x < q
    BY <1>4, <1>9, <1>11
  <2>2. QED
    BY <1>1, <1>2, <1>7, <1>10, <1>12, <2>1 DEF Leaves
<1>14. QED
  BY <1>7, <1>13, LeavingDeletes DEF doFilterDeleteActivity

\* A packet that the store has room for.
LEMMA StoreGrows ==
  ASSUME ScheduleInv, NEW a \in Activities, Cardinality(tcStore) < StoreSize, tcStore' = tcStore \cup {a}
  PROVE  tcStore' \subseteq Activities /\ Cardinality(tcStore') <= StoreSize
<1>1. PICK S, T : S = tcStore /\ T = tcStore'
  OBVIOUS
<1>2. S \subseteq Activities /\ IsFiniteSet(S) /\ T = S \cup {a} /\ Cardinality(S) < StoreSize
  BY <1>1, ScheduleFacts
<1>3. Cardinality(S) \in Nat /\ StoreSize \in Nat
  BY <1>2, FS_CardinalityType, SchedulingAssumption
<1>4. Cardinality(T) = IF a \in S THEN Cardinality(S) ELSE Cardinality(S) + 1
  BY <1>2, FS_AddElement
<1>5. T \subseteq Activities /\ Cardinality(T) <= StoreSize
  BY <1>2, <1>3, <1>4
<1>6. QED
  BY <1>1, <1>5

StoredOrNot(a) == tcStore' = tcStore \/ (Cardinality(tcStore) < StoreSize /\ tcStore' = tcStore \cup {a})

\* INSERT_ACTIVITY that is refused, with the packet in the store or not.
LEMMA RefusedInsertKeeps ==
  ASSUME ScheduleInv, NEW a \in Activities, fate[a] = "NEW", Refuse(a),
         StoredOrNot(a),
         UNCHANGED <<schedulingEnabled, queue, clock, strayed>>
  PROVE  ScheduleInv'
<1>1. fate \in [Activities -> Fates] /\ due \in [Activities -> Times] /\ strayed \subseteq Activities
  BY ScheduleFacts
<1>2. fate' = [fate EXCEPT ![a] = "REFUSED"] /\ telecommandMap' = telecommandMap /\ due' = due
  BY DEF Refuse
<1>3. fate' \in [Activities -> Fates] /\ \A b \in Activities : fate'[b] = IF b = a THEN "REFUSED" ELSE fate[b]
  BY <1>1, <1>2 DEF Fates
<1>4. Scheduled' = Scheduled /\ Scheduled \subseteq Activities /\ a \notin Scheduled
  <2>1. Scheduled' = Scheduled
    BY <1>2 DEF Scheduled, Entries
  <2>2. a \notin Scheduled
    BY WhatIsWhere
  <2>3. QED
    BY <2>1, <2>2, ScheduleFacts
<1>5. tcStore \subseteq tcStore' /\ tcStore' \subseteq tcStore \cup {a}
  BY DEF StoredOrNot
<1>6. QueueFates' /\ Range(queue)' = Range(queue)
  <2>1. \A b \in Activities : fate[b] = "RELEASED" => fate'[b] = "RELEASED"
    BY <1>3
  <2>2. QED
    BY <2>1, QueueStays
<1>7. TypeOK'
  <2>1. tcStore' \subseteq Activities /\ Cardinality(tcStore') <= StoreSize
    BY StoreGrows, ScheduleFacts DEF StoredOrNot
  <2>2. /\ schedulingEnabled' \in BOOLEAN /\ queue' \in Seq(Activities) /\ Len(queue') <= QueueDepth
        /\ clock' \in 0..MaxTime
        /\ telecommandMap' \in Seq([time : Times, tc : Activities]) /\ Len(telecommandMap') <= MAX_NUM_TCS
    BY <1>2 DEF ScheduleInv, TypeOK
  <2>3. QED
    BY <1>1, <1>2, <1>3, <2>1, <2>2 DEF TypeOK
<1>8. InTimeOrder(telecommandMap)' /\ EachOnce(telecommandMap)'
  BY <1>2, ScheduleFacts DEF InTimeOrder, EachOnce
<1>9. ScheduleFates'
  <2>1. ASSUME NEW i \in 1..Len(telecommandMap)
        PROVE  /\ fate'[telecommandMap[i].tc] = "SCHEDULED"
               /\ telecommandMap[i].tc \notin strayed => telecommandMap[i].time = due[telecommandMap[i].tc]
    <3>1. telecommandMap[i].tc \in Scheduled
      BY DEF Scheduled, Entries
    <3>2. /\ fate[telecommandMap[i].tc] = "SCHEDULED"
          /\ telecommandMap[i].tc \notin strayed => telecommandMap[i].time = due[telecommandMap[i].tc]
      BY DEF ScheduleInv, ScheduleFates
    <3>3. QED
      BY <1>3, <1>4, <3>1, <3>2
  <2>2. \A b \in Activities \ strayed : fate'[b] = "SCHEDULED" => b \in Scheduled
    <3>1. \A b \in Activities \ strayed : fate[b] = "SCHEDULED" => b \in Scheduled
      BY DEF ScheduleInv, ScheduleFates
    <3>2. QED
      BY <1>3, <3>1
  <2>3. QED
    BY <1>2, <1>4, <2>1, <2>2 DEF ScheduleFates
<1>10. StoreMatchesSchedule'
  <2>1. Scheduled' \cup Range(queue)' \subseteq tcStore'
    BY <1>4, <1>5, <1>6, WhatIsWhere
  <2>2. ASSUME NEW b \in tcStore', b \notin Scheduled' \cup Range(queue)', b \notin strayed'
        PROVE  b \in Activities /\ fate'[b] = "REFUSED"
    <3>1. CASE b = a
      BY <1>3, <3>1
    <3>2. CASE b # a
      <4>1. b \in tcStore /\ b \notin Scheduled /\ b \notin Range(queue) /\ b \notin strayed
        BY <1>4, <1>5, <1>6, <2>2, <3>2
      <4>2. fate[b] = "REFUSED" /\ b \in Activities
        BY <4>1, WhatIsWhere, ScheduleFacts
      <4>3. QED
        BY <1>3, <3>2, <4>2
    <3>3. QED
      BY <3>1, <3>2
  <2>3. QED
    BY <2>1, <2>2 DEF StoreMatchesSchedule
<1>11. QED
  BY <1>6, <1>7, <1>8, <1>9, <1>10 DEF ScheduleInv

\* A telecommand that is not in the map is in it once when it is put in.
LEMMA PlacedOnce ==
  ASSUME NEW s \in Seq(Rows), EachOnce(s), NEW e \in Rows, e.tc \notin Entries(s), NEW u, PlacedIn(s, e, u)
  PROVE  EachOnce(u)
<1>1. u \in Seq(Rows) /\ Len(u) = Len(s) + 1 /\ Entries(u) = Entries(s) \cup {e.tc}
  BY DEF PlacedIn
<1>2. IsFiniteSet(Entries(s)) /\ Cardinality(Entries(s)) = Len(s)
  BY OnceIsCounted
<1>3. Cardinality(Entries(s) \cup {e.tc}) = Len(s) + 1
  BY <1>2, FS_AddElement
<1>4. QED
  BY <1>1, <1>3, OnceIsCounted

\* The parts of the invariant that do not mention times, when a map with the
\* same entries takes the place of the old one.
LEMMA SameEntriesKeep ==
  ASSUME ScheduleInv, Scheduled' = Scheduled, UNCHANGED <<schedulingEnabled, queue, clock, tcStore, fate>>,
         strayed \subseteq strayed'
  PROVE  QueueFates' /\ StoreMatchesSchedule'
<1>1. QueueFates' /\ Range(queue)' = Range(queue)
  BY QueueStays
<1>2. Scheduled' \cup Range(queue)' \subseteq tcStore'
  BY <1>1, WhatIsWhere
<1>3. ASSUME NEW a \in tcStore', a \notin Scheduled' \cup Range(queue)', a \notin strayed'
      PROVE  a \in Activities /\ fate'[a] = "REFUSED"
  BY <1>1, <1>3, WhatIsWhere, ScheduleFacts
<1>4. QED
  BY <1>1, <1>2, <1>3 DEF StoreMatchesSchedule

\* INSERT_ACTIVITY
LEMMA InsertKeeps ==
  ASSUME ScheduleInv, NEW a \in Activities, NEW t \in Times, doInsertActivity(a, t)
  PROVE  ScheduleInv'
<1>1. fate[a] = "NEW" /\ UNCHANGED <<schedulingEnabled, queue, clock, strayed>>
  BY DEF doInsertActivity
<1>2. CASE Refuse(a) /\ StoredOrNot(a)
  BY <1>1, <1>2, RefusedInsertKeeps
<1>3. ASSUME Cardinality(tcStore) < StoreSize, tcStore' = tcStore \cup {a}, Len(telecommandMap) < MAX_NUM_TCS,
             telecommandMap' = Inserted(telecommandMap, [time |-> t, tc |-> a]),
             fate' = [fate EXCEPT ![a] = "SCHEDULED"], due' = [due EXCEPT ![a] = t]
      PROVE  ScheduleInv'
  <2>1. PICK s, e, u : s = telecommandMap /\ e = [time |-> t, tc |-> a] /\ u = Inserted(s, e)
    OBVIOUS
  <2>2. s \in Seq(Rows) /\ Len(s) \in Nat /\ InTimeOrder(s) /\ EachOnce(s) /\ Entries(s) = Scheduled
    BY <2>1, ScheduleFacts DEF Scheduled
  <2>3. e \in Rows /\ e.tc = a /\ e.time = t /\ telecommandMap' = u
    BY <1>3, <2>1 DEF Rows
  <2>4. PlacedIn(s, e, u)
    BY <2>1, <2>2, <2>3, InsertedFacts
  <2>5. a \notin Scheduled
    BY <1>1, WhatIsWhere
  <2>6. EachOnce(u)
    BY <2>2, <2>3, <2>4, <2>5, PlacedOnce
  <2>7. /\ u \in Seq(Rows) /\ Len(u) = Len(s) + 1 /\ InTimeOrder(u) /\ Entries(u) = Scheduled \cup {a}
        /\ \A j \in 1..Len(u) : u[j] = e \/ \E i \in 1..Len(s) : u[j] = s[i]
    BY <2>2, <2>3, <2>4 DEF PlacedIn
  <2>8. Scheduled' = Scheduled \cup {a}
    BY <2>3, <2>7 DEF Scheduled
  <2>9. /\ fate \in [Activities -> Fates] /\ due \in [Activities -> Times] /\ strayed \subseteq Activities
        /\ Scheduled \subseteq Activities
    BY ScheduleFacts
  <2>10. /\ fate' \in [Activities -> Fates] /\ due' \in [Activities -> Times]
         /\ \A b \in Activities : /\ fate'[b] = IF b = a THEN "SCHEDULED" ELSE fate[b]
                                  /\ due'[b] = IF b = a THEN t ELSE due[b]
    BY <1>3, <2>9 DEF Fates
  <2>11. QueueFates' /\ Range(queue)' = Range(queue)
    <3>1. \A b \in Activities : fate[b] = "RELEASED" => fate'[b] = "RELEASED"
      BY <1>1, <2>10
    <3>2. QED
      BY <1>1, <3>1, QueueStays
  <2>12. TypeOK'
    <3>1. tcStore' \subseteq Activities /\ Cardinality(tcStore') <= StoreSize
      BY <1>3, StoreGrows
    <3>2. /\ schedulingEnabled' \in BOOLEAN /\ queue' \in Seq(Activities) /\ Len(queue') <= QueueDepth
          /\ clock' \in 0..MaxTime
      BY <1>1 DEF ScheduleInv, TypeOK
    <3>3. Len(u) <= MAX_NUM_TCS
      BY <1>3, <2>1, <2>2, <2>7, SchedulingAssumption
    <3>4. QED
      BY <1>1, <2>3, <2>7, <2>9, <2>10, <3>1, <3>2, <3>3 DEF TypeOK, Rows
  <2>13. InTimeOrder(telecommandMap)' /\ EachOnce(telecommandMap)'
    BY <2>3, <2>6, <2>7 DEF InTimeOrder, EachOnce
  <2>14. ScheduleFates'
    <3>1. ASSUME NEW j \in 1..Len(u)
          PROVE  fate'[u[j].tc] = "SCHEDULED" /\ (u[j].tc \notin strayed => u[j].time = due'[u[j].tc])
      <4>1. CASE u[j] = e
        BY <2>3, <2>10, <4>1
      <4>2. CASE \E i \in 1..Len(s) : u[j] = s[i]
        <5>1. PICK i \in 1..Len(s) : u[j] = s[i]
          BY <4>2
        <5>2. s[i].tc \in Scheduled
          BY <2>1 DEF Scheduled, Entries
        <5>3. fate[s[i].tc] = "SCHEDULED" /\ (s[i].tc \notin strayed => s[i].time = due[s[i].tc])
          BY <2>1 DEF ScheduleInv, ScheduleFates
        <5>4. QED
          BY <2>5, <2>9, <2>10, <5>1, <5>2, <5>3
      <4>3. QED
        BY <2>7, <4>1, <4>2
    <3>2. \A b \in Activities \ strayed : fate'[b] = "SCHEDULED" => b \in Scheduled'
      <4>1. \A b \in Activities \ strayed : fate[b] = "SCHEDULED" => b \in Scheduled
        BY DEF ScheduleInv, ScheduleFates
      <4>2. QED
        BY <2>8, <2>10, <4>1
    <3>3. QED
      BY <1>1, <2>3, <3>1, <3>2 DEF ScheduleFates
  <2>15. StoreMatchesSchedule'
    <3>1. Scheduled' \cup Range(queue)' \subseteq tcStore'
      BY <1>3, <2>8, <2>11, WhatIsWhere
    <3>2. ASSUME NEW b \in tcStore', b \notin Scheduled' \cup Range(queue)', b \notin strayed'
          PROVE  b \in Activities /\ fate'[b] = "REFUSED"
      <4>1. b # a /\ b \in tcStore /\ b \notin Scheduled /\ b \notin Range(queue) /\ b \notin strayed
        BY <1>1, <1>3, <2>8, <2>11, <3>2
      <4>2. fate[b] = "REFUSED" /\ b \in Activities
        BY <4>1, WhatIsWhere, ScheduleFacts
      <4>3. QED
        BY <2>10, <4>1, <4>2
    <3>3. QED
      BY <3>1, <3>2 DEF StoreMatchesSchedule
  <2>16. QED
    BY <2>11, <2>12, <2>13, <2>14, <2>15 DEF ScheduleInv
<1>4. QED
  <2>1. \/ Refuse(a) /\ UNCHANGED tcStore
        \/ /\ t - clock > RELEASE_TIME_MARGIN_SECONDS /\ Cardinality(tcStore) < StoreSize
           /\ tcStore' = tcStore \cup {a}
           /\ \/ /\ Len(telecommandMap) = MAX_NUM_TCS
                 /\ Refuse(a)
              \/ /\ Len(telecommandMap) < MAX_NUM_TCS
                 /\ telecommandMap' = Inserted(telecommandMap, [time |-> t, tc |-> a])
                 /\ fate' = [fate EXCEPT ![a] = "SCHEDULED"]
                 /\ due' = [due EXCEPT ![a] = t]
    BY DEF doInsertActivity
  <2>2. CASE Refuse(a) /\ UNCHANGED tcStore
    BY <1>2, <2>2 DEF StoredOrNot
  <2>3. CASE Refuse(a) /\ Cardinality(tcStore) < StoreSize /\ tcStore' = tcStore \cup {a}
    BY <1>2, <2>3 DEF StoredOrNot
  <2>4. QED
    BY <1>3, <2>1, <2>2, <2>3

\* TIMESHIFT_ACTIVITY
LEMMA TimeshiftKeeps ==
  ASSUME ScheduleInv, NEW id, NEW r \in Shifts, doTimeshiftActivity(id, r)
  PROVE  ScheduleInv'
<1>1. PICK i \in Found(id) :
        /\ telecommandMap' = Inserted(RemoveAt(telecommandMap, i), [telecommandMap[i] EXCEPT !.time = Shift(@, r)])
        /\ due' = [due EXCEPT ![telecommandMap[i].tc] = Shift(@, r)]
  BY DEF doTimeshiftActivity
<1>2. UNCHANGED <<schedulingEnabled, queue, clock, tcStore, fate, strayed>> /\ r # 0
  BY DEF doTimeshiftActivity
<1>3. PICK s, v : s = telecommandMap /\ v = RemoveAt(s, i)
  OBVIOUS
<1>4. /\ s \in Seq(Rows) /\ Len(s) \in Nat /\ Len(s) <= MAX_NUM_TCS /\ InTimeOrder(s) /\ EachOnce(s)
      /\ Entries(s) = Scheduled
  BY <1>3, ScheduleFacts DEF Scheduled
<1>5. i \in 1..Len(s)
  <2>1. DOMAIN s = 1..Len(s)
    BY <1>4, LenProperties
  <2>2. QED
    BY <1>3, <2>1 DEF Found
<1>6. PICK t, a : t = s[i].time /\ a = s[i].tc
  OBVIOUS
<1>7. s[i] \in Rows /\ t \in Times /\ a \in Activities
  BY <1>4, <1>5, <1>6, RowFacts
<1>8. r \in Times /\ Shift(t, r) \in Times
  <2>1. r \in Times
    BY SchedulingAssumption DEF Times
  <2>2. QED
    BY <1>2, <1>7, <2>1, ShiftFacts
<1>9. PICK e : e = [s[i] EXCEPT !.time = Shift(@, r)]
  OBVIOUS
<1>10. e \in Rows /\ e.time = Shift(t, r) /\ e.tc = a
  BY <1>6, <1>7, <1>8, <1>9 DEF Rows
<1>11. PICK u : u = Inserted(v, e)
  OBVIOUS
<1>12. telecommandMap' = u /\ due' = [due EXCEPT ![a] = Shift(@, r)]
  BY <1>1, <1>3, <1>6, <1>9, <1>11
<1>13. /\ v \in Seq(Rows) /\ Len(v) = Len(s) - 1 /\ InTimeOrder(v) /\ EachOnce(v)
       /\ \A j \in 1..Len(v) : v[j].tc # a /\ \E x \in 1..Len(s) : v[j] = s[x]
       /\ Entries(s) \subseteq {a} \cup Entries(v)
  <2>1. v \in Seq(Rows) /\ Len(v) = Len(s) - 1 /\ InTimeOrder(v) /\ EachOnce(v)
    BY <1>3, <1>4, <1>5, RemovedFacts
  <2>2. HasOthersOf(s, i, v)
    BY <1>3, <1>4, <1>5, RemovedFacts
  <2>3. Entries(s) \subseteq {s[i].tc} \cup Entries(v)
    BY <1>3, <1>4, <1>5, RemovedFacts
  <2>4. QED
    BY <1>6, <2>1, <2>2, <2>3 DEF HasOthersOf
<1>14. a \in Entries(s) /\ a \notin Entries(v) /\ Entries(v) \subseteq Entries(s)
  BY <1>5, <1>6, <1>13 DEF Entries
<1>15. PlacedIn(v, e, u)
  BY <1>10, <1>11, <1>13, InsertedFacts
<1>16. EachOnce(u)
  BY <1>10, <1>13, <1>14, <1>15, PlacedOnce
<1>17. /\ u \in Seq(Rows) /\ Len(u) = Len(v) + 1 /\ InTimeOrder(u) /\ Entries(u) = Entries(v) \cup {a}
       /\ \A j \in 1..Len(u) : u[j] = e \/ \E x \in 1..Len(v) : u[j] = v[x]
  BY <1>10, <1>15 DEF PlacedIn
<1>18. Scheduled' = Scheduled
  <2>1. Entries(u) = Scheduled
    BY <1>4, <1>13, <1>14, <1>17
  <2>2. QED
    BY <1>12, <2>1 DEF Scheduled
<1>19. QueueFates' /\ StoreMatchesSchedule'
  BY <1>2, <1>18, SameEntriesKeep
<1>20. due \in [Activities -> Times] /\ fate \in [Activities -> Fates]
  BY ScheduleFacts
<1>21. fate[a] = "SCHEDULED" /\ (a \notin strayed => t = due[a])
  BY <1>3, <1>5, <1>6 DEF ScheduleInv, ScheduleFates
<1>22. due[a] \in Times /\ Shift(due[a], r) \in Times
  BY <1>2, <1>7, <1>8, <1>20, ShiftFacts
<1>23. due' \in [Activities -> Times] /\ \A b \in Activities : due'[b] = IF b = a THEN Shift(due[a], r) ELSE due[b]
  BY <1>7, <1>12, <1>20, <1>22
<1>24. TypeOK'
  <2>1. Len(u) <= MAX_NUM_TCS
    BY <1>4, <1>13, <1>17
  <2>2. QED
    BY <1>2, <1>12, <1>17, <1>23, <2>1 DEF ScheduleInv, TypeOK, Rows
<1>25. InTimeOrder(telecommandMap)' /\ EachOnce(telecommandMap)'
  BY <1>12, <1>16, <1>17 DEF InTimeOrder, EachOnce
<1>26. ScheduleFates'
  <2>1. ASSUME NEW j \in 1..Len(u)
        PROVE  fate[u[j].tc] = "SCHEDULED" /\ (u[j].tc \notin strayed => u[j].time = due'[u[j].tc])
    <3>1. CASE u[j] = e
      BY <1>7, <1>10, <1>21, <1>23, <3>1
    <3>2. CASE \E x \in 1..Len(v) : u[j] = v[x]
      <4>1. PICK x \in 1..Len(s) : u[j] = s[x] /\ s[x].tc # a
        BY <1>13, <3>2
      <4>2. s[x].tc \in Activities
        BY <1>4, RowFacts
      <4>3. fate[s[x].tc] = "SCHEDULED" /\ (s[x].tc \notin strayed => s[x].time = due[s[x].tc])
        BY <1>3 DEF ScheduleInv, ScheduleFates
      <4>4. QED
        BY <1>23, <4>1, <4>2, <4>3
    <3>3. QED
      BY <1>17, <3>1, <3>2
  <2>2. \A b \in Activities \ strayed : fate[b] = "SCHEDULED" => b \in Scheduled
    BY DEF ScheduleInv, ScheduleFates
  <2>3. QED
    BY <1>2, <1>12, <1>18, <2>1, <2>2 DEF ScheduleFates
<1>27. QED
  BY <1>19, <1>24, <1>25, <1>26 DEF ScheduleInv

\* FILTER_TIMESHIFT_ACTIVITY
LEMMA FilterTimeshiftKeeps ==
  ASSUME ScheduleInv, NEW w \in Windows, NEW r \in Shifts, doFilterTimeshiftActivity(w, r)
  PROVE  ScheduleInv'
<1>1. PICK s, f, u : s = telecommandMap /\ f = getMapFilter(w) /\ u = ShiftAll(f, r)
  OBVIOUS
<1>2. UNCHANGED <<schedulingEnabled, queue, clock, tcStore, fate>> /\ r # 0
  BY DEF doFilterTimeshiftActivity
<1>3. telecommandMap' = u
  BY <1>1 DEF doFilterTimeshiftActivity
<1>4. due' = [a \in Activities |-> IF a \in Entries(Selected(f)) THEN Shift(due[a], r) ELSE due[a]]
  BY <1>1 DEF doFilterTimeshiftActivity
<1>5. strayed' = strayed \cup { a \in Scheduled : \E i \in DOMAIN u : u[i].tc = a /\ u[i].time # due'[a] }
  BY <1>3 DEF doFilterTimeshiftActivity
<1>6. /\ s \in Seq(Rows) /\ Len(s) \in Nat /\ Len(s) <= MAX_NUM_TCS /\ InTimeOrder(s) /\ EachOnce(s)
      /\ Entries(s) = Scheduled /\ Scheduled \subseteq Activities /\ strayed \subseteq Activities
      /\ fate \in [Activities -> Fates] /\ due \in [Activities -> Times]
  BY <1>1, ScheduleFacts DEF Scheduled
<1>7. r \in Times
  BY SchedulingAssumption DEF Times
<1>8. u \in Seq(Rows) /\ Len(u) = Len(s) /\ InTimeOrder(u) /\ Entries(u) = Entries(s)
  BY <1>1, <1>2, <1>6, <1>7, ShiftAllFacts
<1>9. EachOnce(u)
  <2>1. Cardinality(Entries(s)) = Len(s)
    BY <1>6, OnceIsCounted
  <2>2. QED
    BY <1>8, <2>1, OnceIsCounted
<1>10. Scheduled' = Scheduled
  BY <1>3, <1>6, <1>8 DEF Scheduled
<1>11. strayed \subseteq strayed' /\ strayed' \subseteq Activities
  BY <1>5, <1>6
<1>12. QueueFates' /\ StoreMatchesSchedule'
  BY <1>2, <1>10, <1>11, SameEntriesKeep
<1>13. due' \in [Activities -> Times]
  <2>1. \A a \in Activities : due[a] \in Times /\ Shift(due[a], r) \in Times
    BY <1>2, <1>6, <1>7, ShiftFacts
  <2>2. QED
    BY <1>4, <2>1
<1>14. TypeOK'
  BY <1>2, <1>3, <1>6, <1>8, <1>11, <1>13 DEF ScheduleInv, TypeOK, Rows
<1>15. InTimeOrder(telecommandMap)' /\ EachOnce(telecommandMap)'
  BY <1>3, <1>8, <1>9 DEF InTimeOrder, EachOnce
<1>16. ScheduleFates'
  <2>1. ASSUME NEW j \in 1..Len(u)
        PROVE  fate[u[j].tc] = "SCHEDULED" /\ (u[j].tc \notin strayed' => u[j].time = due'[u[j].tc])
    <3>1. u[j].tc \in Scheduled
      BY <1>6, <1>8 DEF Entries
    <3>2. fate[u[j].tc] = "SCHEDULED"
      BY <3>1, WhatIsWhere
    <3>3. j \in DOMAIN u
      BY <1>8, LenProperties
    <3>4. QED
      BY <1>5, <3>1, <3>2, <3>3
  <2>2. \A b \in Activities \ strayed : fate[b] = "SCHEDULED" => b \in Scheduled
    BY DEF ScheduleInv, ScheduleFates
  <2>3. QED
    BY <1>2, <1>3, <1>10, <1>11, <2>1, <2>2 DEF ScheduleFates
<1>17. QED
  BY <1>12, <1>14, <1>15, <1>16 DEF ScheduleInv

-----------------------------------------------------------------------------
(* The release keeps the invariant *)

\* The due entries at the front of the map can be counted.
LEMMA DueFacts ==
  ASSUME ScheduleInv
  PROVE  DueEntries \in 0..Len(telecommandMap) /\ \A i \in 1..DueEntries : IsDue(telecommandMap[i])
<1> DEFINE n == Len(telecommandMap)
           G == { j \in 1..(n + 1) : j <= n /\ ~IsDue(telecommandMap[j]) }
<1>1. n \in Nat /\ 1 \in Nat /\ n + 1 \in Nat /\ 1 <= n + 1
  BY ScheduleFacts
<1>2. PICK k \in 1..(n + 1) : (k < n + 1 => k \in G) /\ \A j \in 1..(k - 1) : j \notin G
  <2>1. G \in SUBSET (1..(n + 1))
    OBVIOUS
  <2> HIDE DEF G, n
  <2>2. QED
    BY <1>1, <2>1, FirstPosition
<1>3. PICK m : m = k - 1
  OBVIOUS
<1>4. m \in 0..n /\ (m < n => ~IsDue(telecommandMap[m + 1])) /\ \A i \in 1..m : IsDue(telecommandMap[i])
  <2>1. m \in 0..n /\ m + 1 = k /\ (m < n => k < n + 1) /\ \A i \in 1..m : i \in 1..(n + 1) /\ i <= n /\ i \in 1..(k - 1)
    BY <1>1, <1>3
  <2>2. QED
    BY <1>2, <2>1
<1>5. QED
  BY <1>4 DEF DueEntries

\* What is released is due, and the queue has room for it.
LEMMA ReleasableFacts ==
  ASSUME ScheduleInv, NEW n, n = Releasable
  PROVE  /\ n \in 0..Len(telecommandMap) /\ Len(queue) \in Nat /\ Len(queue) + n <= QueueDepth
         /\ \A i \in 1..n : IsDue(telecommandMap[i])
<1>1. PICK x, y : x = DueEntries /\ y = QueueDepth - Len(queue)
  OBVIOUS
<1>2. x \in 0..Len(telecommandMap) /\ \A i \in 1..x : IsDue(telecommandMap[i])
  BY <1>1, DueFacts
<1>3. Len(queue) \in Nat /\ Len(queue) <= QueueDepth /\ QueueDepth \in Nat /\ Len(telecommandMap) \in Nat
  BY LenProperties, SchedulingAssumption DEF ScheduleInv, TypeOK
<1>4. x \in Nat /\ y \in Nat
  BY <1>1, <1>2, <1>3
<1>5. n = CHOOSE m \in {x, y} : \A z \in {x, y} : m <= z
  BY <1>1 DEF Releasable, Min
<1>6. \E m \in {x, y} : \A z \in {x, y} : m <= z
  BY <1>4
<1>7. n \in {x, y} /\ \A z \in {x, y} : n <= z
  BY <1>5, <1>6
<1>8. n \in Nat /\ n <= x /\ n <= y
  BY <1>4, <1>7
<1>9. QED
  BY <1>1, <1>2, <1>3, <1>8

\* What performService takes from the front of the map.
LEMMA ReleasedLeave ==
  ASSUME ScheduleInv, NEW n \in 0..Len(telecommandMap), NEW G, G = Entries(SubSeq(telecommandMap, 1, n)),
         telecommandMap' = SubSeq(telecommandMap, n + 1, Len(telecommandMap)), End(G, "RELEASED"), strayed' = strayed
  PROVE  Leaves(G, "RELEASED")
<1>1. PICK s, y, u : s = telecommandMap /\ y = SubSeq(s, 1, n) /\ u = SubSeq(s, n + 1, Len(s))
  OBVIOUS
<1>2. /\ s \in Seq(Rows) /\ Len(s) \in Nat /\ EachOnce(s) /\ Entries(s) = Scheduled /\ strayed \subseteq Activities
      /\ n \in 0..Len(s) /\ telecommandMap' = u /\ G = Entries(y)
  BY <1>1, ScheduleFacts DEF Scheduled
<1>3. PICK b : b = n + 1
  OBVIOUS
<1>4. 1 \in 1..(Len(s) + 1) /\ b \in 1..(Len(s) + 1) /\ b - 1 = n /\ n \in Int
  BY <1>2, <1>3
<1>5. G \subseteq Entries(s) /\ \A x \in 1..Len(s) : s[x].tc \in G => x >= 1 /\ x < b
  <2>1. y = SubSeq(s, 1, b - 1)
    BY <1>1, <1>4
  <2>2. Entries(y) \subseteq Entries(s) /\ \A x \in 1..Len(s) : s[x].tc \in Entries(y) => x >= 1 /\ x < b
    BY <1>2, <1>4, <2>1, SelectedFacts
  <2>3. QED
    BY <1>2, <2>2
<1>6. TakenOut(s, 1, b, u)
  <2>1. SubSeq(s, 1, 1 - 1) = <<>>
    <3>1. 1 - 1 \in Int /\ 1 \in Int /\ 1 - 1 < 1
      OBVIOUS
    <3>2. QED
      BY <3>1, SubSeqEmpty
  <2>2. Len(s) \in (b - 1)..Len(s)
    BY <1>2, <1>4
  <2>3. u = SubSeq(s, b, Len(s))
    BY <1>1, <1>3
  <2>4. u \in Seq(Rows)
    BY <1>2, <1>4, <2>2, <2>3, Sliced
  <2>5. u = <<>> \o u
    BY <2>4, ConcatEmptySeq
  <2>6. u = Cut(s, 1, b)
    BY <2>1, <2>3, <2>5 DEF Cut
  <2>7. QED
    BY <1>2, <1>4, <2>6, CutTakesOut
<1>7. Entries(s) \subseteq G \cup Entries(u)
  <2>1. OthersStay(s, 1, b, u)
    BY <1>2, <1>4, <1>6, TakenOutFacts
  <2>2. Len(y) = n /\ \A i \in 1..n : y[i] = s[i]
    <3>1. n \in (1 - 1)..Len(s) /\ n - 1 + 1 = n /\ \A i \in 1..n : 1 + i - 1 = i
      BY <1>2, <1>4
    <3>2. Len(y) = n - 1 + 1 /\ \A i \in 1..(n - 1 + 1) : y[i] = s[1 + i - 1]
      BY <1>1, <1>2, <1>4, <3>1, Sliced
    <3>3. QED
      BY <3>1, <3>2
  <2>3. ASSUME NEW x \in 1..Len(s)
        PROVE  s[x].tc \in G \cup Entries(u)
    <3>1. CASE x < b
      <4>1. x \in 1..n
        BY <1>3, <1>4, <3>1
      <4>2. QED
        BY <1>2, <2>2, <4>1 DEF Entries
    <3>2. CASE x >= b
      BY <2>1, <3>2 DEF OthersStay, Entries
    <3>3. QED
      BY <1>4, <3>1, <3>2
  <2>4. QED
    BY <2>3 DEF Entries
<1>8. \E p \in 1..(Len(s) + 1) : \E q \in p..(Len(s) + 1) :
          TakenOut(s, p, q, u) /\ \A x \in 1..Len(s) : s[x].tc \in G => x >= p /\ x < q
  BY <1>4, <1>5, <1>6
<1>9. QED
  BY <1>1, <1>2, <1>5, <1>7, <1>8 DEF Leaves

FirstOf(s, y, n, q) ==
    /\ q \in Seq(Activities) /\ Len(q) = n /\ \A i \in 1..n : q[i] = s[i].tc
    /\ Entries(y) = { q[i] : i \in 1..n }

\* What is put in the queue are the first of the map.
LEMMA ReleasedAreFirst ==
  ASSUME NEW s \in Seq(Rows), NEW n \in 0..Len(s), NEW y, y = SubSeq(s, 1, n), NEW q, q = [i \in 1..n |-> y[i].tc]
  PROVE  FirstOf(s, y, n, q)
<1>1. Len(s) \in Nat /\ n \in Nat /\ 1 \in 1..(Len(s) + 1) /\ n \in (1 - 1)..Len(s) /\ n - 1 + 1 = n
      /\ \A i \in 1..n : 1 + i - 1 = i /\ i \in 1..Len(s)
  BY RowFacts
<1>2. Len(y) = n - 1 + 1 /\ \A i \in 1..(n - 1 + 1) : y[i] = s[1 + i - 1]
  BY <1>1, Sliced
<1>3. Len(y) = n /\ \A i \in 1..n : y[i] = s[i]
  BY <1>1, <1>2
<1>4. Entries(y) = { q[i] : i \in 1..n }
  BY <1>3 DEF Entries
<1>5. \A i \in 1..n : s[i].tc \in Activities
  BY <1>1, RowFacts
<1>6. \A i \in 1..n : q[i] = s[i].tc
  BY <1>3
<1>7. q \in Seq(Activities) /\ Len(q) = n
  <2>1. q \in [1..n -> Activities]
    BY <1>3, <1>5
  <2>2. q \in Seq(Activities)
    BY <1>1, <2>1, SeqDef
  <2>3. DOMAIN q = 1..n
    OBVIOUS
  <2>4. QED
    BY <1>1, <2>2, <2>3, LenProperties
<1>8. QED
  BY <1>4, <1>6, <1>7 DEF FirstOf

\* performService keeps the invariant.
LEMMA ServiceKeeps ==
  ASSUME ScheduleInv, performService
  PROVE  ScheduleInv'
<1>1. PICK n, s, y, q, G : /\ n = Releasable /\ s = telecommandMap /\ y = SubSeq(s, 1, n)
                           /\ q = [i \in 1..n |-> y[i].tc] /\ G = Entries(y)
  OBVIOUS
<1>2. /\ telecommandMap' = SubSeq(s, n + 1, Len(s)) /\ queue' = queue \o q /\ End(G, "RELEASED")
      /\ UNCHANGED <<schedulingEnabled, clock, tcStore, strayed>>
  BY <1>1 DEF performService
<1>3. n \in 0..Len(s) /\ Len(queue) \in Nat /\ Len(queue) + n <= QueueDepth
  BY <1>1, ReleasableFacts
<1>4. s \in Seq(Rows) /\ EachOnce(s) /\ Len(s) \in Nat /\ Scheduled = Entries(s) /\ Scheduled \subseteq Activities
  BY <1>1, ScheduleFacts DEF Scheduled
<1>5. Leaves(G, "RELEASED")
  BY <1>1, <1>2, <1>3, ReleasedLeave
<1>6. /\ telecommandMap' \in Seq(Rows) /\ Len(telecommandMap') <= MAX_NUM_TCS
      /\ InTimeOrder(telecommandMap)' /\ EachOnce(telecommandMap)' /\ Scheduled' \subseteq Scheduled \ G
  BY <1>5, LeavingKeepsMap
<1>7. /\ fate' \in [Activities -> Fates] /\ due' \in [Activities -> Times]
      /\ \A a \in Activities : fate'[a] = (IF a \in G THEN "RELEASED" ELSE fate[a])
      /\ ScheduleFates'
  BY <1>5, LeavingKeepsFates
<1>8. /\ q \in Seq(Activities) /\ Len(q) = n /\ \A i \in 1..n : q[i] = s[i].tc
      /\ G = { q[i] : i \in 1..n }
  <2>1. y = SubSeq(s, 1, n) /\ q = [i \in 1..n |-> y[i].tc]
    BY <1>1
  <2>2. FirstOf(s, y, n, q)
    BY <1>3, <1>4, <2>1, ReleasedAreFirst
  <2>3. QED
    BY <1>1, <2>2 DEF FirstOf
<1>9. queue \in Seq(Activities) /\ clock \in 0..MaxTime /\ strayed \subseteq Activities /\ schedulingEnabled \in BOOLEAN
  BY DEF ScheduleInv, TypeOK
<1>10. /\ queue' \in Seq(Activities) /\ Len(queue') = Len(queue) + n
       /\ \A i \in 1..Len(queue) : queue'[i] = queue[i]
       /\ \A i \in 1..n : queue'[Len(queue) + i] = q[i]
  <2>1. PICK v : v = queue'
    OBVIOUS
  <2>2. v = queue \o q /\ q \in Seq(Activities)
    BY <1>2, <1>8, <2>1
  <2>3. /\ v \in Seq(Activities) /\ Len(v) = Len(queue) + Len(q)
        /\ \A i \in 1..Len(queue) : v[i] = queue[i]
        /\ \A i \in 1..Len(q) : v[Len(queue) + i] = q[i]
    BY <1>9, <2>2, Joined
  <2>4. QED
    BY <1>8, <2>1, <2>3
<1>11. TypeOK'
  BY <1>2, <1>3, <1>6, <1>7, <1>9, <1>10, ScheduleFacts DEF TypeOK, Rows
<1>12. \A i \in 1..Len(queue') : \/ i \in 1..Len(queue)
                                 \/ i \notin 1..Len(queue) /\ i - Len(queue) \in 1..n /\ Len(queue) + (i - Len(queue)) = i
  BY <1>3, <1>10
<1>13. \A i \in 1..Len(queue) : queue[i] \in Activities /\ fate[queue[i]] = "RELEASED"
  BY <1>9, ElementOfSeq DEF ScheduleInv, QueueFates
<1>14. \A i \in 1..n : i \in 1..Len(s) /\ q[i] \in G /\ q[i] \in Activities /\ fate[q[i]] = "SCHEDULED"
  <2>1. \A i \in 1..n : i \in 1..Len(s)
    BY <1>3, <1>4
  <2>2. \A i \in 1..n : s[i].tc \in Scheduled
    BY <1>4, <2>1 DEF Entries
  <2>3. QED
    BY <1>4, <1>8, <2>1, <2>2, WhatIsWhere
<1>15. QueueFates'
  <2>1. ASSUME NEW i \in 1..Len(queue')
        PROVE  fate'[queue'[i]] = "RELEASED"
    <3>1. CASE i \in 1..Len(queue)
      BY <1>7, <1>10, <1>13, <3>1
    <3>2. CASE i \notin 1..Len(queue)
      <4>1. i - Len(queue) \in 1..n /\ queue'[i] = q[i - Len(queue)]
        BY <1>10, <1>12, <3>2
      <4>2. QED
        BY <1>7, <1>14, <4>1
    <3>3. QED
      BY <3>1, <3>2
  <2>2. ASSUME NEW i \in 1..Len(queue'), NEW j \in 1..Len(queue'), queue'[i] = queue'[j]
        PROVE  i = j
    <3>1. ASSUME NEW k \in 1..Len(queue'), k \notin 1..Len(queue)
          PROVE  k - Len(queue) \in 1..n /\ queue'[k] = q[k - Len(queue)] /\ fate[queue'[k]] = "SCHEDULED"
      <4>1. k - Len(queue) \in 1..n /\ queue'[k] = q[k - Len(queue)]
        BY <1>10, <1>12, <3>1
      <4>2. QED
        BY <1>14, <4>1
    <3>2. ASSUME NEW k \in 1..Len(queue)
          PROVE  queue'[k] = queue[k] /\ fate[queue'[k]] = "RELEASED"
      BY <1>10, <1>13
    <3>3. CASE i \in 1..Len(queue) /\ j \in 1..Len(queue)
      <4>1. queue[i] = queue[j]
        BY <2>2, <3>2, <3>3
      <4>2. QED
        BY <3>3, <4>1 DEF ScheduleInv, QueueFates
    <3>4. CASE i \notin 1..Len(queue) /\ j \notin 1..Len(queue)
      <4>1. /\ i - Len(queue) \in 1..n /\ j - Len(queue) \in 1..n
            /\ q[i - Len(queue)] = q[j - Len(queue)]
        BY <2>2, <3>1, <3>4
      <4>2. s[i - Len(queue)].tc = s[j - Len(queue)].tc
        BY <1>8, <4>1
      <4>3. i - Len(queue) \in 1..Len(s) /\ j - Len(queue) \in 1..Len(s)
        BY <1>14, <4>1
      <4>4. i - Len(queue) = j - Len(queue)
        BY <1>4, <4>2, <4>3 DEF EachOnce
      <4>5. i \in Int /\ j \in Int
        OBVIOUS
      <4>6. QED
        BY <1>3, <4>4, <4>5
    <3>5. CASE (i \in 1..Len(queue) /\ j \notin 1..Len(queue)) \/ (i \notin 1..Len(queue) /\ j \in 1..Len(queue))
      BY <2>2, <3>1, <3>2, <3>5
    <3>6. QED
      BY <3>3, <3>4, <3>5
  <2>3. QED
    BY <2>1, <2>2 DEF QueueFates
<1>16. Range(queue)' = Range(queue) \cup G
  <2>1. DOMAIN queue' = 1..Len(queue') /\ DOMAIN queue = 1..Len(queue)
    BY <1>9, <1>10, LenProperties
  <2>2. ASSUME NEW i \in 1..Len(queue')
        PROVE  queue'[i] \in Range(queue) \cup G
    <3>1. CASE i \in 1..Len(queue)
      BY <1>10, <2>1, <3>1 DEF Range
    <3>2. CASE i \notin 1..Len(queue)
      <4>1. i - Len(queue) \in 1..n /\ queue'[i] = q[i - Len(queue)]
        BY <1>10, <1>12, <3>2
      <4>2. QED
        BY <1>14, <4>1
    <3>3. QED
      BY <3>1, <3>2
  <2>3. ASSUME NEW i \in 1..Len(queue)
        PROVE  queue[i] \in Range(queue')
    <3>1. i \in 1..Len(queue')
      BY <1>3, <1>10
    <3>2. QED
      BY <1>10, <2>1, <3>1 DEF Range
  <2>4. ASSUME NEW i \in 1..n
        PROVE  q[i] \in Range(queue')
    <3>1. Len(queue) + i \in 1..Len(queue')
      BY <1>3, <1>10
    <3>2. QED
      BY <1>10, <2>1, <3>1 DEF Range
  <2>5. G \subseteq Range(queue')
    BY <1>8, <2>4
  <2>6. Range(queue) \subseteq Range(queue')
    BY <2>1, <2>3 DEF Range
  <2>7. Range(queue') \subseteq Range(queue) \cup G
    BY <2>1, <2>2 DEF Range
  <2>8. QED
    BY <2>5, <2>6, <2>7 DEF Range
<1>17. StoreMatchesSchedule'
  <2>1. G \subseteq Scheduled /\ Scheduled \subseteq strayed' \cup G \cup Scheduled'
    BY <1>5 DEF Leaves, Scheduled, Entries
  <2>2. Scheduled' \cup Range(queue)' \subseteq tcStore'
    BY <1>2, <1>6, <1>16, <2>1, WhatIsWhere
  <2>3. ASSUME NEW a \in tcStore', a \notin Scheduled' \cup Range(queue)', a \notin strayed'
        PROVE  a \in Activities /\ fate'[a] = "REFUSED"
    <3>1. a \in tcStore /\ a \notin G /\ a \notin Range(queue) /\ a \notin strayed /\ a \notin Scheduled
      BY <1>2, <1>16, <2>1, <2>3
    <3>2. fate[a] = "REFUSED" /\ a \in Activities
      BY <3>1, WhatIsWhere, ScheduleFacts
    <3>3. QED
      BY <1>7, <3>1, <3>2
  <2>4. QED
    BY <2>2, <2>3 DEF StoreMatchesSchedule
<1>18. QED
  BY <1>6, <1>7, <1>11, <1>15, <1>17 DEF ScheduleInv

\* The recipient frees the packet of a telecommand no one else needs.
LEMMA RecipientKeeps ==
  ASSUME ScheduleInv, RecipientTakes
  PROVE  ScheduleInv'
<1>1. PICK q, t, h : q = queue /\ t = Tail(q) /\ h = Head(q)
  OBVIOUS
<1>2. /\ q # <<>> /\ queue' = t /\ tcStore' = tcStore \ {h}
      /\ UNCHANGED <<schedulingEnabled, telecommandMap, clock, fate, due, strayed>>
  BY <1>1 DEF RecipientTakes
<1>3. q \in Seq(Activities) /\ Len(q) \in Nat /\ Len(q) <= QueueDepth
  BY <1>1, LenProperties DEF ScheduleInv, TypeOK
<1>4. /\ Len(q) > 0 /\ h = q[1] /\ t \in Seq(Activities) /\ Len(t) = Len(q) - 1
      /\ \A i \in 1..Len(t) : i + 1 \in 1..Len(q) /\ t[i] = q[i + 1]
  <2>1. Len(q) > 0
    BY <1>2, <1>3, EmptySeq
  <2>2. h = q[1]
    BY <1>1, <2>1
  <2>3. t \in Seq(Activities) /\ Len(t) = Len(q) - 1 /\ \A i \in 1..Len(t) : t[i] = q[i + 1]
    BY <1>1, <1>2, <1>3, HeadTailProperties
  <2>4. QED
    BY <1>3, <2>1, <2>2, <2>3
<1>5. \A i, j \in 1..Len(q) : q[i] = q[j] => i = j
  BY <1>1 DEF ScheduleInv, QueueFates
<1>6. TypeOK'
  <2>1. tcStore' \subseteq Activities /\ Cardinality(tcStore') <= StoreSize
    <3>1. tcStore' \subseteq tcStore
      BY <1>2
    <3>2. QED
      BY <3>1, StoreShrinks
  <2>2. Len(t) <= QueueDepth
    BY <1>3, <1>4, SchedulingAssumption
  <2>3. QED
    BY <1>2, <1>4, <2>1, <2>2 DEF ScheduleInv, TypeOK
<1>7. QueueFates'
  <2>1. \A i \in 1..Len(t) : fate[t[i]] = "RELEASED"
    BY <1>1, <1>4 DEF ScheduleInv, QueueFates
  <2>2. ASSUME NEW i \in 1..Len(t), NEW j \in 1..Len(t), t[i] = t[j]
        PROVE  i = j
    <3>1. i + 1 = j + 1
      BY <1>4, <1>5, <2>2
    <3>2. i \in Int /\ j \in Int
      OBVIOUS
    <3>3. QED
      BY <3>1, <3>2
  <2>3. QED
    BY <1>2, <2>1, <2>2 DEF QueueFates
<1>8. Scheduled' = Scheduled
  BY <1>2 DEF Scheduled, Entries
<1>9. Range(queue) = Range(t) \cup {h} /\ h \notin Range(t) /\ h \in Range(queue)
  <2>1. DOMAIN t = 1..Len(t) /\ DOMAIN q = 1..Len(q)
    BY <1>3, <1>4, LenProperties
  <2>2. 1 \in 1..Len(q) /\ \A i \in 1..Len(q) : i = 1 \/ (i - 1 \in 1..Len(t) /\ (i - 1) + 1 = i)
    BY <1>3, <1>4
  <2>3. \A i \in 1..Len(t) : t[i] # h
    <3>1. ASSUME NEW i \in 1..Len(t), t[i] = h
          PROVE  FALSE
      <4>1. i + 1 = 1
        BY <1>4, <1>5, <2>2, <3>1
      <4>2. i \in Int /\ i >= 1
        OBVIOUS
      <4>3. QED
        BY <4>1, <4>2
    <3>2. QED
      BY <3>1
  <2>4. \A i \in 1..Len(q) : q[i] \in Range(t) \cup {h}
    <3>1. ASSUME NEW i \in 1..Len(q), i # 1
          PROVE  q[i] \in Range(t)
      <4>1. i - 1 \in 1..Len(t) /\ t[i - 1] = q[i]
        BY <1>4, <2>2, <3>1
      <4>2. QED
        BY <2>1, <4>1 DEF Range
    <3>2. QED
      BY <1>4, <3>1
  <2>5. Range(q) \subseteq Range(t) \cup {h}
    BY <2>1, <2>4 DEF Range
  <2>6. Range(t) \subseteq Range(q) /\ h \in Range(q)
    BY <1>4, <2>1, <2>2 DEF Range
  <2>7. h \notin Range(t)
    BY <2>1, <2>3 DEF Range
  <2>8. QED
    BY <1>1, <2>5, <2>6, <2>7
<1>10. Range(queue)' = Range(t)
  BY <1>2 DEF Range
<1>11. StoreMatchesSchedule'
  <2>1. h \notin Scheduled
    BY <1>9, WhatIsWhere
  <2>2. Scheduled' \cup Range(queue)' \subseteq tcStore'
    BY <1>2, <1>8, <1>9, <1>10, <2>1, WhatIsWhere
  <2>3. ASSUME NEW a \in tcStore', a \notin Scheduled' \cup Range(queue)', a \notin strayed'
        PROVE  a \in Activities /\ fate'[a] = "REFUSED"
    <3>1. a \in tcStore /\ a # h /\ a \notin Range(queue) /\ a \notin strayed /\ a \notin Scheduled
      BY <1>2, <1>8, <1>9, <1>10, <2>3
    <3>2. QED
      BY <1>2, <3>1, WhatIsWhere, ScheduleFacts
  <2>4. QED
    BY <2>2, <2>3 DEF StoreMatchesSchedule
<1>12. ScheduleFates' /\ InTimeOrder(telecommandMap)' /\ EachOnce(telecommandMap)'
  BY <1>2, <1>8, ScheduleFacts DEF ScheduleInv, ScheduleFates, InTimeOrder, EachOnce
<1>13. QED
  BY <1>6, <1>7, <1>11, <1>12 DEF ScheduleInv

\* Steps that leave the map and the queue alone.
LEMMA MapUntouchedKeeps ==
  ASSUME ScheduleInv, UNCHANGED <<mapVars, queue>>, schedulingEnabled' \in BOOLEAN, clock' \in 0..MaxTime
  PROVE  ScheduleInv'
<1>1. UNCHANGED <<telecommandMap, tcStore, fate, due, strayed, queue>>
  BY DEF mapVars
<1>2. TypeOK'
  BY <1>1 DEF ScheduleInv, TypeOK
<1>3. Scheduled' = Scheduled /\ Range(queue)' = Range(queue)
  BY <1>1 DEF Scheduled, Entries, Range
<1>4. ScheduleFates' /\ QueueFates'
  BY <1>1, <1>3 DEF ScheduleInv, ScheduleFates, QueueFates
<1>5. StoreMatchesSchedule'
  BY <1>1, <1>3 DEF ScheduleInv, StoreMatchesSchedule
<1>6. InTimeOrder(telecommandMap)' /\ EachOnce(telecommandMap)'
  BY <1>1, ScheduleFacts DEF InTimeOrder, EachOnce
<1>7. QED
  BY <1>2, <1>4, <1>5, <1>6 DEF ScheduleInv

\* The service starts with an empty schedule.
LEMMA ScheduleStarts ==
  ASSUME Init
  PROVE  ScheduleInv
<1>1. telecommandMap = <<>> /\ queue = <<>> /\ tcStore = {} /\ strayed = {} /\ clock = 0 /\ schedulingEnabled = FALSE
  BY DEF Init
<1>2. \A a \in Activities : fate[a] = "NEW"
  BY DEF Init
<1>3. TypeOK
  <2>1. Cardinality({}) = 0
    BY FS_EmptySet
  <2>2. 0 \in Times /\ 0 \in 0..MaxTime /\ 0 <= MAX_NUM_TCS /\ 0 <= StoreSize /\ 0 <= QueueDepth
    BY SchedulingAssumption DEF Times
  <2>3. fate \in [Activities -> Fates] /\ due \in [Activities -> Times]
    BY <2>2 DEF Init, Fates
  <2>4. /\ telecommandMap \in Seq([time : Times, tc : Activities]) /\ Len(telecommandMap) <= MAX_NUM_TCS
        /\ queue \in Seq(Activities) /\ Len(queue) <= QueueDepth
    BY <1>1, <2>2, EmptySeq
  <2>5. tcStore \subseteq Activities /\ Cardinality(tcStore) <= StoreSize /\ strayed \subseteq Activities
    BY <1>1, <2>1, <2>2
  <2>6. QED
    BY <1>1, <2>2, <2>3, <2>4, <2>5 DEF TypeOK
<1>4. Scheduled = {} /\ Range(queue) = {}
  BY <1>1 DEF Scheduled, Entries, Range
<1>5. ScheduleFates /\ QueueFates /\ StoreMatchesSchedule
  BY <1>1, <1>2, <1>4 DEF ScheduleFates, QueueFates, StoreMatchesSchedule
<1>6. InTimeOrder(telecommandMap) /\ EachOnce(telecommandMap)
  BY <1>1 DEF InTimeOrder, EachOnce
<1>7. QED
  BY <1>3, <1>5, <1>6 DEF ScheduleInv

\* Every step keeps the invariant.
LEMMA ScheduleStep ==
  ASSUME ScheduleInv, [Next]_vars
  PROVE  ScheduleInv'
<1>1. CASE UNCHANGED vars
  <2>1. UNCHANGED <<mapVars, queue>> /\ schedulingEnabled' = schedulingEnabled /\ clock' = clock
    BY <1>1 DEF vars
  <2>2. schedulingEnabled' \in BOOLEAN /\ clock' \in 0..MaxTime
    BY <2>1 DEF ScheduleInv, TypeOK
  <2>3. QED
    BY <2>1, <2>2, MapUntouchedKeeps
<1>2. ASSUME NEW on \in BOOLEAN, Enable(on)
      PROVE  ScheduleInv'
  <2>1. UNCHANGED <<mapVars, queue>> /\ schedulingEnabled' = on /\ clock' = clock
    BY <1>2 DEF Enable
  <2>2. schedulingEnabled' \in BOOLEAN /\ clock' \in 0..MaxTime
    BY <2>1 DEF ScheduleInv, TypeOK
  <2>3. QED
    BY <2>1, <2>2, MapUntouchedKeeps
<1>3. CASE TimePasses
  <2>1. UNCHANGED <<mapVars, queue>> /\ schedulingEnabled' = schedulingEnabled
    BY <1>3 DEF TimePasses
  <2>2. schedulingEnabled' \in BOOLEAN
    BY <2>1 DEF ScheduleInv, TypeOK
  <2>3. clock' \in 0..MaxTime
    <3>1. clock \in 0..MaxTime /\ clock < MaxTime /\ clock' = clock + 1
      BY <1>3 DEF TimePasses, ScheduleInv, TypeOK
    <3>2. QED
      BY <3>1, SchedulingAssumption
  <2>4. QED
    BY <2>1, <2>2, <2>3, MapUntouchedKeeps
<1>4. CASE handleResetCommand
  BY <1>4, ResetKeeps
<1>5. CASE \E a \in Activities, t \in Times : doInsertActivity(a, t)
  BY <1>5, InsertKeeps
<1>6. CASE \E a \in Activities : doDeleteActivity(requestId[a])
  BY <1>6, DeleteKeeps
<1>7. CASE \E a \in Activities, r \in Shifts : doTimeshiftActivity(requestId[a], r)
  BY <1>7, TimeshiftKeeps
<1>8. CASE \E w \in Windows : doFilterDeleteActivity(w)
  BY <1>8, FilterDeleteKeeps
<1>9. CASE \E w \in Windows, r \in Shifts : doFilterTimeshiftActivity(w, r)
  BY <1>9, FilterTimeshiftKeeps
<1>10. CASE performService
  BY <1>10, ServiceKeeps
<1>11. CASE RecipientTakes
  BY <1>11, RecipientKeeps
<1>12. QED
  BY <1>1, <1>2, <1>3, <1>4, <1>5, <1>6, <1>7, <1>8, <1>9, <1>10, <1>11 DEF Next, Request

-----------------------------------------------------------------------------
(* What the invariant says of the schedule, and of a release *)

\* The invariant is stronger than ScheduleIsAsAsked.
LEMMA ScheduleAsAsked ==
  ASSUME ScheduleInv
  PROVE  ScheduleIsAsAsked
<1>1. PICK s : s = telecommandMap
  OBVIOUS
<1>2. /\ s \in Seq(Rows) /\ EachOnce(s) /\ Scheduled = Entries(s) /\ Scheduled \subseteq Activities
      /\ DOMAIN s = 1..Len(s)
  BY <1>1, ScheduleFacts, LenProperties DEF Scheduled
<1>3. Cardinality(Scheduled) = Len(telecommandMap)
  BY <1>1, <1>2, OnceIsCounted
<1>4. \A i \in 1..Len(s) : /\ s[i].tc \in Activities /\ fate[s[i].tc] = "SCHEDULED"
                           /\ s[i].tc \notin strayed => s[i].time = due[s[i].tc]
  <2>1. \A i \in 1..Len(s) : s[i].tc \in Activities
    BY <1>2, RowFacts
  <2>2. QED
    BY <1>1, <2>1 DEF ScheduleInv, ScheduleFates
<1>5. \A a \in Activities \ strayed : fate[a] = "SCHEDULED" => a \in Scheduled
  BY DEF ScheduleInv, ScheduleFates
<1> DEFINE L == { <<e.tc, e.time>> : e \in { f \in Range(s) : f.tc \notin strayed } }
           R == { <<a, due[a]>> : a \in { b \in Activities : fate[b] = "SCHEDULED" } \ strayed }
<1>6. L \subseteq R
  <2>1. ASSUME NEW e \in Range(s), e.tc \notin strayed
        PROVE  e.tc \in Activities /\ fate[e.tc] = "SCHEDULED" /\ e.time = due[e.tc]
    <3>1. PICK i \in 1..Len(s) : e = s[i]
      BY <1>2 DEF Range
    <3>2. QED
      BY <1>4, <2>1, <3>1
  <2>2. ASSUME NEW e \in Range(s), e.tc \notin strayed
        PROVE  <<e.tc, e.time>> \in R
    BY <2>1, <2>2
  <2>3. QED
    BY <2>2
<1>7. R \subseteq L
  <2>1. ASSUME NEW a \in Activities, fate[a] = "SCHEDULED", a \notin strayed
        PROVE  <<a, due[a]>> \in L
    <3>1. a \in Entries(s)
      BY <1>2, <1>5, <2>1
    <3>2. PICK i \in 1..Len(s) : a = s[i].tc
      BY <3>1 DEF Entries
    <3>3. s[i] \in Range(s) /\ s[i].time = due[a]
      BY <1>2, <1>4, <2>1, <3>2 DEF Range
    <3>4. QED
      BY <2>1, <3>2, <3>3
  <2>2. QED
    BY <2>1
<1>8. QED
  BY <1>1, <1>3, <1>6, <1>7 DEF ScheduleIsAsAsked

\* No request releases a telecommand.
LEMMA OnlyServiceReleases ==
  ASSUME ScheduleInv, [Next]_vars, NEW a \in Activities, fate'[a] = "RELEASED", fate[a] # "RELEASED"
  PROVE  performService
<1>1. fate \in [Activities -> Fates]
  BY ScheduleFacts
<1>2. fate' # fate
  OBVIOUS
<1>3. ~UNCHANGED vars /\ ~TimePasses /\ ~RecipientTakes /\ \A on \in BOOLEAN : ~Enable(on)
  BY <1>2 DEF vars, mapVars, TimePasses, RecipientTakes, Enable
<1>4. \A as : ~End(as, "DELETED")
  BY DEF End
<1>5. ~handleResetCommand
  BY <1>4 DEF handleResetCommand
<1>6. \A id : ~doDeleteActivity(id)
  BY <1>4 DEF doDeleteActivity
<1>7. \A w \in Windows : ~doFilterDeleteActivity(w)
  BY <1>4 DEF doFilterDeleteActivity
<1>8. \A id, r : ~doTimeshiftActivity(id, r)
  BY <1>2 DEF doTimeshiftActivity
<1>9. \A w \in Windows, r \in Shifts : ~doFilterTimeshiftActivity(w, r)
  BY <1>2 DEF doFilterTimeshiftActivity
<1>10. \A b \in Activities, t \in Times : ~doInsertActivity(b, t)
  <2>1. ASSUME NEW b \in Activities, NEW f \in {"REFUSED", "SCHEDULED"}, fate' = [fate EXCEPT ![b] = f]
        PROVE  FALSE
    BY <1>1, <2>1
  <2>2. QED
    BY <2>1 DEF doInsertActivity, Refuse
<1>11. QED
  BY <1>3, <1>5, <1>6, <1>7, <1>8, <1>9, <1>10 DEF Next, Request

\* A step releases in time.
ReleaseStep ==
    \A a \in Activities : fate'[a] = "RELEASED" /\ fate[a] # "RELEASED" =>
        /\ schedulingEnabled /\ fate[a] = "SCHEDULED"
        /\ a \in strayed \/ due[a] <= clock
        /\ \A b \in Activities \ strayed : fate'[b] = "SCHEDULED" /\ a \notin strayed => due[a] <= due'[b]

\* A step that releases does it in time.
LEMMA ReleasesInTime ==
  ASSUME ScheduleInv, [Next]_vars
  PROVE  ReleaseStep
<1>1. SUFFICES ASSUME NEW a \in Activities, fate'[a] = "RELEASED", fate[a] # "RELEASED"
               PROVE  /\ schedulingEnabled /\ fate[a] = "SCHEDULED"
                      /\ a \in strayed \/ due[a] <= clock
                      /\ \A b \in Activities \ strayed : fate'[b] = "SCHEDULED" /\ a \notin strayed => due[a] <= due'[b]
  BY DEF ReleaseStep
<1>2. performService
  BY <1>1, OnlyServiceReleases
<1>3. PICK n, s, y, q, G : /\ n = Releasable /\ s = telecommandMap /\ y = SubSeq(s, 1, n)
                           /\ q = [i \in 1..n |-> y[i].tc] /\ G = Entries(y)
  OBVIOUS
<1>4. schedulingEnabled /\ End(G, "RELEASED")
  BY <1>2, <1>3 DEF performService
<1>5. n \in 0..Len(s) /\ \A i \in 1..n : IsDue(s[i])
  BY <1>3, ReleasableFacts
<1>6. s \in Seq(Rows) /\ Len(s) \in Nat /\ InTimeOrder(s) /\ Scheduled = Entries(s)
  BY <1>3, ScheduleFacts DEF Scheduled
<1>7. (\A i \in 1..n : q[i] = s[i].tc) /\ G = { q[i] : i \in 1..n }
  <2>1. y = SubSeq(s, 1, n) /\ q = [i \in 1..n |-> y[i].tc]
    BY <1>3
  <2>2. FirstOf(s, y, n, q)
    BY <1>5, <1>6, <2>1, ReleasedAreFirst
  <2>3. QED
    BY <1>3, <2>2 DEF FirstOf
<1>8. \A b \in Activities : /\ fate'[b] = IF b \in G THEN "RELEASED" ELSE fate[b]
                            /\ b \notin G => due'[b] = due[b]
  BY <1>4 DEF End
<1>9. PICK i \in 1..n : a = s[i].tc
  BY <1>1, <1>7, <1>8
<1>10. i \in 1..Len(s) /\ i <= n
  BY <1>5, <1>6
<1>11. \A x \in 1..Len(s) : /\ fate[s[x].tc] = "SCHEDULED" /\ s[x].time \in Int
                            /\ s[x].tc \notin strayed => s[x].time = due[s[x].tc]
  <2>1. \A x \in 1..Len(s) : s[x].time \in Int
    BY <1>6, RowFacts
  <2>2. QED
    BY <1>3, <2>1 DEF ScheduleInv, ScheduleFates
<1>12. fate[a] = "SCHEDULED" /\ s[i].time <= clock /\ (a \notin strayed => s[i].time = due[a])
  BY <1>5, <1>9, <1>10, <1>11 DEF IsDue
<1>13. ASSUME NEW b \in Activities \ strayed, fate'[b] = "SCHEDULED", a \notin strayed
       PROVE  due[a] <= due'[b]
  <2>1. b \notin G /\ fate[b] = "SCHEDULED" /\ due'[b] = due[b]
    BY <1>8, <1>13
  <2>2. b \in Entries(s)
    BY <1>6, <2>1 DEF ScheduleInv, ScheduleFates
  <2>3. PICK j \in 1..Len(s) : b = s[j].tc
    BY <2>2 DEF Entries
  <2>4. j \notin 1..n
    BY <1>7, <2>1, <2>3
  <2>5. i < j
    BY <1>5, <1>6, <1>10, <2>4
  <2>6. s[i].time <= s[j].time
    BY <1>6, <1>10, <2>5 DEF InTimeOrder
  <2>7. QED
    BY <1>11, <1>12, <1>13, <2>1, <2>3, <2>6
<1>14. QED
  BY <1>4, <1>12, <1>13

-----------------------------------------------------------------------------
(* Theorems about the schedule *)

\* The invariant holds in every behaviour.
LEMMA ScheduleInvariant == Spec => []ScheduleInv
<1>1. Init => ScheduleInv
  BY ScheduleStarts
<1>2. ScheduleInv /\ [Next]_vars => ScheduleInv'
  BY ScheduleStep
<1>3. QED
  BY <1>1, <1>2, PTL DEF Spec

\* The map never exceeds MAX_NUM_TCS, the store and the recipient's queue
\* never exceed their sizes, and the times stay times, for all of them.
THEOREM ScheduleTypeCorrect == Spec => []TypeOK
<1>1. ScheduleInv => TypeOK
  BY DEF ScheduleInv
<1>2. QED
  BY <1>1, ScheduleInvariant, PTL

\* telecommandMap holds each telecommand once, and those that no filter has
\* mistreated are the ones the ground believes to be scheduled, at the times
\* it asked for, after any sequence of the requests of Service 11.
THEOREM ScheduleAlwaysAsAsked == Spec => []ScheduleIsAsAsked
<1>1. ScheduleInv => ScheduleIsAsAsked
  BY ScheduleAsAsked
<1>2. QED
  BY <1>1, ScheduleInvariant, PTL

\* A telecommand that is scheduled or handed over has its packet in the TC
\* store, and what else is in there was refused for a full map or lost by a
\* filter.
THEOREM StoreAlwaysMatchesSchedule == Spec => []StoreMatchesSchedule
<1>1. ScheduleInv => StoreMatchesSchedule
  BY DEF ScheduleInv
<1>2. QED
  BY <1>1, ScheduleInvariant, PTL

\* performService releases a telecommand once, when scheduling is enabled and
\* it is due and not deleted, and leaves none behind that is due earlier,
\* however full the recipient's queue is.
THEOREM AlwaysReleasedInTime == Spec => ReleasedInTime
<1>1. ScheduleInv /\ [Next]_vars => [ReleaseStep]_vars
  BY ReleasesInTime
<1>2. Spec => [][ReleaseStep]_vars
  BY <1>1, ScheduleInvariant, PTL DEF Spec
<1>3. QED
  BY <1>2, PTL DEF ReleasedInTime, ReleaseStep

=============================================================================
