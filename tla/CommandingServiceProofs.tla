----------------------- MODULE CommandingServiceProofs -----------------------
(***************************************************************************)
(* Theorems about CommandingService, for any number of telecommands,       *)
(* objects, entries and replies, and any depth of the queues.              *)
(*                                                                         *)
(* The argument has two halves.  The entries of the map are for different  *)
(* queues, and every telecommand in an entry is for the entry's queue      *)
(* (MapOK), so the places where a telecommand may wait exclude each other. *)
(* And each step of the service moves a telecommand along its life         *)
(* (TCStep): submitted, started or ended at the start, reported on while   *)
(* it is active, and ended once.                                           *)
(***************************************************************************)
EXTENDS CommandingService, SequenceTheorems, TLAPS

QueueOfTC(t) == QueueOf[objectOf[t]]

EntryOK(e) ==
    /\ e \in Entries /\ e.queue = QueueOfTC(e.tc)
    /\ Len(e.fifo) <= FifoDepth /\ IsInjective(e.fifo)
    /\ \A t \in Range(e.fifo) : QueueOfTC(t) = e.queue

MapOK(map) ==
    /\ map \in Seq(Entries) /\ Len(map) <= NumberOfParallelCommands
    /\ \A k \in DOMAIN map : EntryOK(map[k])
    /\ \A j, k \in DOMAIN map : map[j].queue = map[k].queue => j = k

Messages == [queue : Queues, about : TCs, kind : {"step", "last"}]

Types ==
    /\ requestQueue \in Seq(TCs) /\ commandQueue \in Seq(Messages)
    /\ tcStore \subseteq TCs /\ reports \in [TCs -> Seq(ReportIds)]
    /\ working \in [Queues -> SUBSET TCs] /\ mixedUp \subseteq TCs \X TCs
    /\ phase \in Phases /\ slot \in 1..(NumberOfParallelCommands + 1)
    /\ objectOf \in [TCs -> Objects] /\ unreadable \subseteq TCs

\* Where the telecommands in the store wait.
StoreOK ==
    /\ \A t \in TCs : t \in tcStore <=>
          t \in Range(requestQueue) \/ \E e \in Range(commandMap) : t \in Range(e.fifo)
    /\ IsInjective(requestQueue)
    /\ \A e \in Range(commandMap) : Range(e.fifo) \cap Range(requestQueue) = {}

\* The reports on a telecommand that has not ended, and on one that may have.
Open(r) == \A j \in DOMAIN r : r[j] \notin Terminal
Story(r) ==
    \A j \in DOMAIN r : /\ j = 1 <=> r[j] \in {"INVALID_TC", "START_FAILURE", "START_SUCCESS"}
                        /\ r[j] \in Terminal => j = Len(r)

LifeOK(t) ==
    /\ t \in tcStore => reports[t] = <<>>
    /\ Active(t) => reports[t] # <<>>
    /\ Undisturbed(t) => Story(reports[t]) /\ (Active(t) => Open(reports[t]))

\* The object has been told of it.
Begun(t) == reports[t] # <<>> /\ (Active(t) \/ Finished(t))

SentOK ==
    /\ \A q \in Queues : \A t \in working[q] : QueueOfTC(t) = q /\ Begun(t)
    /\ \A m \in Range(commandQueue) : QueueOfTC(m.about) = m.queue /\ Begun(m.about)

MixedOK == \A pair \in mixedUp : Begun(pair[2]) /\ ~Active(pair[2])

\* The entries checkTimeout has passed.
VisitedOK ==
    phase = "checkTimeout" =>
        \A k \in Slots : k < slot /\ Undisturbed(commandMap[k].tc) => ~commandMap[k].overdue

ServiceInv ==
    /\ MapOK(commandMap) /\ Types /\ StoreOK /\ \A t \in TCs : LifeOK(t)
    /\ SentOK /\ MixedOK /\ VisitedOK

-----------------------------------------------------------------------------
(* A step in the life of a telecommand *)

SameLife(t) ==
    /\ t \in tcStore' <=> t \in tcStore
    /\ reports'[t] = reports[t]
    /\ Active(t)' <=> Active(t)

Submitted(t) ==
    /\ reports[t] = <<>> /\ reports'[t] = reports[t]
    /\ ~Active(t)'

\* All that is reported on a telecommand which ends when it is taken out.
Endings == {<<"INVALID_TC">>, <<"START_FAILURE">>, <<"START_SUCCESS", "COMPLETION_SUCCESS">>}

EndedAtStart(t) ==
    /\ t \in tcStore /\ t \notin tcStore' /\ ~Active(t)'
    /\ \/ reports'[t] \in Endings
       \/ ~Undisturbed(t) /\ reports'[t] = <<"MISLABELLED">>

Started(t) ==
    /\ t \in tcStore /\ t \notin tcStore'
    /\ reports'[t] = <<"START_SUCCESS">>

Progressed(t) ==
    /\ Active(t) /\ Active(t)' /\ t \notin tcStore'
    /\ reports'[t] = Append(reports[t], "PROGRESS_SUCCESS")

Ended(t) ==
    /\ Active(t) /\ t \notin tcStore' /\ (Active(t)' => ~Undisturbed(t))
    /\ \E id \in EndReports : reports'[t] = Append(reports[t], id)

TCStep(t) == SameLife(t) \/ Submitted(t) \/ EndedAtStart(t) \/ Started(t) \/ Progressed(t) \/ Ended(t)

LEMMA AppendedStory ==
  ASSUME NEW r \in Seq(ReportIds), r # <<>>, Open(r), Story(r), NEW id \in EndReports \cup {"PROGRESS_SUCCESS"}
  PROVE  Story(Append(r, id)) /\ (id \notin Terminal => Open(Append(r, id)))
<1> DEFINE new == Append(r, id)
<1>1. /\ Len(r) \in Nat /\ Len(r) > 0 /\ DOMAIN r = 1..Len(r)
      /\ Len(new) = Len(r) + 1 /\ DOMAIN new = 1..(Len(r) + 1)
      /\ new[Len(r) + 1] = id /\ \A j \in 1..Len(r) : new[j] = r[j]
  <2>1. Len(r) \in Nat /\ Len(r) > 0 /\ DOMAIN r = 1..Len(r)
    BY EmptySeq, LenProperties
  <2>2. id \in ReportIds
    BY DEF EndReports, ReportIds
  <2>3. new \in Seq(ReportIds) /\ Len(new) = Len(r) + 1 /\ new[Len(r) + 1] = id /\ \A j \in 1..Len(r) : new[j] = r[j]
    BY <2>2, AppendProperties
  <2>4. QED
    BY <2>1, <2>3, LenProperties
<1> HIDE DEF new
<1>2. id \notin {"INVALID_TC", "START_FAILURE", "START_SUCCESS"} /\ Len(r) + 1 # 1
  BY <1>1 DEF EndReports
<1>3. ASSUME NEW j \in DOMAIN new
      PROVE  /\ j = 1 <=> new[j] \in {"INVALID_TC", "START_FAILURE", "START_SUCCESS"}
             /\ new[j] \in Terminal => j = Len(new)
             /\ id \notin Terminal => new[j] \notin Terminal
  <2>1. CASE j = Len(r) + 1
    BY <1>1, <1>2, <2>1
  <2>2. CASE j # Len(r) + 1
    <3>1. j \in DOMAIN r /\ new[j] = r[j]
      BY <1>1, <2>2
    <3>2. QED
      BY <3>1 DEF Open, Story
  <2>3. QED
    BY <2>1, <2>2
<1>4. QED
  BY <1>3 DEF Story, Open, new

LEMMA ShortStories ==
    /\ Story(<<"INVALID_TC">>) /\ Story(<<"START_FAILURE">>) /\ Story(<<"START_SUCCESS">>)
    /\ Story(<<"START_SUCCESS", "COMPLETION_SUCCESS">>) /\ Open(<<"START_SUCCESS">>) /\ Story(<<>>)
BY DEF Story, Open, Terminal

LEMMA TCStepKeeps ==
  ASSUME NEW t \in TCs, reports[t] \in Seq(ReportIds), LifeOK(t), TCStep(t), UNCHANGED inputs
  PROVE  /\ LifeOK(t)'
         /\ Begun(t) => Begun(t)'
         /\ Begun(t) /\ ~Active(t) => ~Active(t)'
<1>1. Undisturbed(t)' <=> Undisturbed(t)
  BY DEF Undisturbed, inputs
<1>2. CASE SameLife(t)
  BY <1>1, <1>2 DEF SameLife, LifeOK, Begun, Finished
<1>3. CASE Submitted(t)
  BY <1>1, <1>3, ShortStories DEF Submitted, LifeOK, Begun
<1>4. CASE EndedAtStart(t)
  <2>1. reports[t] = <<>> /\ ~Begun(t) /\ t \notin tcStore' /\ ~Active(t)'
    BY <1>4 DEF EndedAtStart, LifeOK, Begun
  <2>2. Undisturbed(t) => Story(reports'[t])
    BY <1>4, ShortStories DEF EndedAtStart, Endings
  <2>3. QED
    BY <1>1, <2>1, <2>2 DEF LifeOK
<1>5. CASE Started(t)
  <2>1. reports[t] = <<>> /\ ~Begun(t) /\ t \notin tcStore' /\ reports'[t] = <<"START_SUCCESS">>
    BY <1>5 DEF Started, LifeOK, Begun
  <2>2. reports'[t] # <<>>
    BY <2>1
  <2>3. QED
    BY <1>1, <2>1, <2>2, ShortStories DEF LifeOK
<1>6. CASE Progressed(t)
  <2>1. Active(t) /\ Active(t)' /\ t \notin tcStore' /\ reports'[t] = Append(reports[t], "PROGRESS_SUCCESS")
    BY <1>6 DEF Progressed
  <2>2. reports[t] # <<>>
    BY <2>1 DEF LifeOK
  <2>3. reports'[t] # <<>>
    <3>1. "PROGRESS_SUCCESS" \in ReportIds
      BY DEF ReportIds
    <3>2. QED
      BY <2>1, <3>1, AppendProperties
  <2>4. Undisturbed(t) => Story(reports'[t]) /\ Open(reports'[t])
    BY <2>1, <2>2, AppendedStory DEF LifeOK, Terminal
  <2>5. QED
    BY <1>1, <2>1, <2>3, <2>4 DEF LifeOK, Begun
<1>7. CASE Ended(t)
  <2>1. PICK id \in EndReports : reports'[t] = Append(reports[t], id)
    BY <1>7 DEF Ended
  <2>2. Active(t) /\ t \notin tcStore' /\ (Active(t)' => ~Undisturbed(t)) /\ reports[t] # <<>>
    BY <1>7 DEF Ended, LifeOK
  <2>3. reports'[t] # <<>> /\ Last(reports'[t]) = id /\ id \in Terminal
    <3>1. id \in ReportIds /\ id \in Terminal
      BY DEF EndReports, ReportIds, Terminal
    <3>2. QED
      BY <2>1, <3>1, AppendProperties DEF Last
  <2>4. Undisturbed(t) => Story(reports'[t])
    BY <2>1, <2>2, AppendedStory DEF LifeOK
  <2>5. QED
    BY <1>1, <2>2, <2>3, <2>4 DEF LifeOK, Begun, Finished
<1>8. QED
  BY <1>2, <1>3, <1>4, <1>5, <1>6, <1>7 DEF TCStep

-----------------------------------------------------------------------------
(* The map and the fifos *)

\* One entry is replaced by another one for the same queue.
LEMMA ReplaceEntry ==
  ASSUME NEW map, MapOK(map), NEW k \in DOMAIN map, NEW e, EntryOK(e), e.queue = map[k].queue
  PROVE  /\ MapOK([map EXCEPT ![k] = e]) /\ Len([map EXCEPT ![k] = e]) = Len(map)
         /\ Range([map EXCEPT ![k] = e]) = (Range(map) \ {map[k]}) \cup {e}
<1> DEFINE new == [map EXCEPT ![k] = e]
<1>1. map \in Seq(Entries) /\ DOMAIN map = 1..Len(map) /\ e \in Entries
  BY LenProperties DEF MapOK, EntryOK
<1>2. new \in Seq(Entries) /\ Len(new) = Len(map) /\ DOMAIN new = DOMAIN map
  BY <1>1, ExceptSeq
<1>3. new[k] = e /\ \A j \in DOMAIN map : j # k => new[j] = map[j]
  BY <1>1
<1> HIDE DEF new
<1>4. \A j \in DOMAIN map : new[j].queue = map[j].queue /\ EntryOK(new[j])
  BY <1>3 DEF MapOK
<1>5. MapOK(new)
  BY <1>2, <1>4 DEF MapOK
<1>6. \A j \in DOMAIN map : map[j] = map[k] => j = k
  BY DEF MapOK
<1>7. Range(new) = (Range(map) \ {map[k]}) \cup {e}
  BY <1>2, <1>3, <1>6 DEF Range
<1>8. QED
  BY <1>2, <1>5, <1>7 DEF new

LEMMA EraseEntry ==
  ASSUME NEW map, MapOK(map), NEW k \in DOMAIN map
  PROVE  MapOK(erase(map, k)) /\ Len(erase(map, k)) = Len(map) - 1 /\ Range(erase(map, k)) = Range(map) \ {map[k]}
<1> DEFINE new == erase(map, k)
           last == Len(map)
<1>1. /\ map \in Seq(Entries) /\ DOMAIN map = 1..last /\ last \in Nat /\ last > 0 /\ last - 1 \in Nat
      /\ last <= NumberOfParallelCommands /\ NumberOfParallelCommands \in Nat
  BY LenProperties, ServiceAssumption DEF MapOK
<1>2. /\ DOMAIN new = 1..(last - 1)
      /\ \A j \in 1..(last - 1) : new[j] = IF j = k THEN map[last] ELSE map[j]
  BY DEF erase
<1>3. \A j \in 1..(last - 1) : new[j] \in Entries /\ EntryOK(new[j])
  <2>1. \A j \in 1..last : map[j] \in Entries /\ EntryOK(map[j])
    BY <1>1, ElementOfSeq DEF MapOK
  <2>2. QED
    BY <1>1, <1>2, <2>1
<1>4. new \in [1..(last - 1) -> Entries]
  BY <1>2, <1>3 DEF erase
<1>5. new \in Seq(Entries) /\ Len(new) = last - 1
  <2>1. new \in Seq(Entries)
    BY <1>1, <1>4, SeqDef
  <2> HIDE DEF new, last
  <2>2. Len(new) \in Nat /\ DOMAIN new = 1..Len(new)
    BY <2>1, LenProperties
  <2>3. QED
    BY <1>1, <1>2, <2>1, <2>2
<1> HIDE DEF new, last
<1>6. \A i, j \in 1..last : map[i].queue = map[j].queue => i = j
  BY <1>1 DEF MapOK
<1>7. \A i, j \in 1..(last - 1) : new[i].queue = new[j].queue => i = j
  <2>1. ASSUME NEW i \in 1..(last - 1), NEW j \in 1..(last - 1), new[i].queue = new[j].queue
        PROVE  i = j
    <3>1. i \in 1..last /\ j \in 1..last /\ last \in 1..last /\ i # last /\ j # last
      BY <1>1
    <3>2. new[i] = (IF i = k THEN map[last] ELSE map[i]) /\ new[j] = (IF j = k THEN map[last] ELSE map[j])
      BY <1>2
    <3>3. QED
      BY <1>6, <2>1, <3>1, <3>2
  <2>2. QED
    BY <2>1
<1>8. MapOK(new)
  BY <1>1, <1>2, <1>3, <1>5, <1>7 DEF MapOK
<1>9. Range(new) = Range(map) \ {map[k]}
  <2>1. ASSUME NEW j \in 1..(last - 1)
        PROVE  new[j] \in Range(map) \ {map[k]}
    <3>1. j \in 1..last /\ last \in 1..last /\ j # last /\ k \in 1..last
      BY <1>1
    <3>2. new[j] = IF j = k THEN map[last] ELSE map[j]
      BY <1>2
    <3>3. QED
      BY <1>1, <1>6, <3>1, <3>2 DEF Range
  <2>2. ASSUME NEW j \in 1..last, map[j] # map[k]
        PROVE  map[j] \in Range(new)
    <3>1. CASE j = last
      <4>1. k \in 1..(last - 1)
        BY <1>1, <2>2, <3>1
      <4>2. new[k] = map[last]
        BY <1>2, <4>1
      <4>3. QED
        BY <1>2, <3>1, <4>1, <4>2 DEF Range
    <3>2. CASE j # last
      <4>1. j \in 1..(last - 1) /\ j # k
        BY <1>1, <2>2, <3>2
      <4>2. new[j] = map[j]
        BY <1>2, <4>1
      <4>3. QED
        BY <1>2, <4>1, <4>2 DEF Range
    <3>3. QED
      BY <3>1, <3>2
  <2>3. QED
    BY <1>1, <1>2, <2>1, <2>2 DEF Range
<1>10. QED
  BY <1>5, <1>8, <1>9 DEF new, last

LEMMA InSequence ==
  ASSUME NEW S, NEW s \in Seq(S), NEW e \in Range(s)
  PROVE  e \in S
BY LenProperties, ElementOfSeq DEF Range

LEMMA CutFifo ==
  ASSUME NEW w \in Seq(TCs), IsInjective(w), NEW n \in DOMAIN w
  PROVE  /\ w[n] \in Range(w) /\ w[n] \in TCs
         /\ Range(SubSeq(w, 1, n - 1)) \subseteq Range(w) \ {w[n]}
         /\ Range(SubSeq(w, 1, n)) = Range(SubSeq(w, 1, n - 1)) \cup {w[n]}
         /\ SubSeq(w, n + 1, Len(w)) \in Seq(TCs) /\ IsInjective(SubSeq(w, n + 1, Len(w)))
         /\ Len(SubSeq(w, n + 1, Len(w))) <= Len(w)
         /\ Range(SubSeq(w, n + 1, Len(w))) = Range(w) \ Range(SubSeq(w, 1, n))
<1> DEFINE len == Len(w)
           before == SubSeq(w, 1, n - 1)
           upto == SubSeq(w, 1, n)
           after == SubSeq(w, n + 1, len)
<1>1. len \in Nat /\ DOMAIN w = 1..len /\ n \in 1..len /\ \A i \in 1..len : w[i] \in TCs
  BY LenProperties, ElementOfSeq
<1> HIDE DEF len
<1>2. before \in Seq(TCs) /\ Len(before) = n - 1 /\ \A i \in 1..(n - 1) : before[i] = w[i]
  <2>1. \A i \in 1..(n - 1) : w[i] \in TCs
    BY <1>1
  <2>2. n - 1 \in Int /\ 1 \in Int /\ (n - 1) - 1 + 1 = n - 1 /\ \A i \in 1..(n - 1) : 1 + i - 1 = i
    BY <1>1
  <2>3. QED
    BY <1>1, <2>1, <2>2, SubSeqProperties
<1>3. upto \in Seq(TCs) /\ Len(upto) = n /\ \A i \in 1..n : upto[i] = w[i]
  <2>1. \A i \in 1..n : w[i] \in TCs
    BY <1>1
  <2>2. n \in Int /\ 1 \in Int /\ n - 1 + 1 = n /\ \A i \in 1..n : 1 + i - 1 = i
    BY <1>1
  <2>3. QED
    BY <1>1, <2>1, <2>2, SubSeqProperties
<1>4. after \in Seq(TCs) /\ Len(after) = len - n /\ \A i \in 1..(len - n) : after[i] = w[n + i]
  <2>1. \A i \in (n + 1)..len : w[i] \in TCs
    BY <1>1
  <2>2. n + 1 \in Int /\ len \in Int /\ len - (n + 1) + 1 = len - n
        /\ \A i \in 1..(len - n) : (n + 1) + i - 1 = n + i
    BY <1>1
  <2>3. QED
    BY <1>1, <2>1, <2>2, SubSeqProperties
<1> HIDE DEF before, upto, after
<1>5. DOMAIN before = 1..(n - 1) /\ DOMAIN upto = 1..n /\ DOMAIN after = 1..(len - n)
  BY <1>2, <1>3, <1>4, LenProperties
<1>6. \A i, j \in 1..len : w[i] = w[j] => i = j
  BY <1>1 DEF IsInjective
<1>7. Range(before) \subseteq Range(w) \ {w[n]}
  BY <1>1, <1>2, <1>5, <1>6 DEF Range
<1>8. Range(upto) = Range(before) \cup {w[n]}
  <2>1. \A i \in 1..n : i \in 1..(n - 1) \/ i = n
    BY <1>1
  <2>2. 1..(n - 1) \subseteq 1..n /\ n \in 1..n
    BY <1>1
  <2>3. QED
    BY <1>2, <1>3, <1>5, <2>1, <2>2 DEF Range
<1>9. IsInjective(after)
  <2>1. ASSUME NEW i \in 1..(len - n), NEW j \in 1..(len - n), after[i] = after[j]
        PROVE  i = j
    <3>1. n + i \in 1..len /\ n + j \in 1..len
      BY <1>1
    <3>2. w[n + i] = w[n + j]
      BY <1>4, <2>1
    <3>3. n + i = n + j
      BY <1>6, <3>1, <3>2
    <3>4. QED
      BY <1>1, <3>3
  <2>2. QED
    BY <1>5, <2>1 DEF IsInjective
<1>10. Range(after) = Range(w) \ Range(upto)
  <2>1. ASSUME NEW i \in 1..(len - n)
        PROVE  after[i] \in Range(w) \ Range(upto)
    <3>1. n + i \in 1..len /\ n + i \notin 1..n /\ 1..n \subseteq 1..len
      BY <1>1
    <3>2. after[i] = w[n + i]
      BY <1>4
    <3>3. QED
      BY <1>1, <1>3, <1>5, <1>6, <3>1, <3>2 DEF Range
  <2>2. ASSUME NEW i \in 1..len, w[i] \notin Range(upto)
        PROVE  w[i] \in Range(after)
    <3>1. i \notin 1..n
      BY <1>3, <1>5, <2>2 DEF Range
    <3>2. i - n \in 1..(len - n) /\ n + (i - n) = i
      BY <1>1, <3>1
    <3>3. after[i - n] = w[i]
      BY <1>4, <3>2
    <3>4. QED
      BY <1>5, <3>2, <3>3 DEF Range
  <2>3. QED
    BY <1>1, <1>5, <2>1, <2>2 DEF Range
<1>11. Len(after) <= len /\ w[n] \in Range(w) /\ w[n] \in TCs
  BY <1>1, <1>4 DEF Range
<1>12. QED
  BY <1>4, <1>7, <1>8, <1>9, <1>10, <1>11 DEF before, upto, after, len

\* The provers take it for a name, and do not look for its elements.
Nothing == <<>>

\* What EndAtStart does to the reports.
StartsReported(ended, reported, final) ==
    /\ reports' \in [TCs -> Seq(ReportIds)]
    /\ \A t \in Range(ended) : reports'[t] \in Endings
    /\ \A t \in TCs \ Range(ended) : /\ final[t] = Nothing => reports'[t] = reported[t]
                                     /\ reported[t] = Nothing => reports'[t] = final[t]

LEMMA ReportsAtStart ==
  ASSUME NEW ended, Range(ended) \subseteq TCs, NEW lost, NEW reported \in [TCs -> Seq(ReportIds)],
         NEW final \in [TCs -> Seq(ReportIds)], \A t \in Range(ended) : reported[t] = Nothing,
         EndAtStart(ended, lost, reported, final)
  PROVE  StartsReported(ended, reported, final)
<1>1. PICK how \in [Range(ended) -> {"rejected", "forgotten"}] :
          reports' = [t \in TCs |->
              IF t \in Range(ended) THEN reported[t] \o StartReports(how[t]) ELSE reported[t] \o final[t]]
  BY DEF EndAtStart
<1>2. ASSUME NEW t \in Range(ended)
      PROVE  reports'[t] \in Endings /\ reports'[t] \in Seq(ReportIds)
  <2>1. StartReports(how[t]) \in Endings /\ StartReports(how[t]) \in Seq(ReportIds)
    <3>1. StartReports(how[t]) \in {<<"START_FAILURE">>, <<"START_SUCCESS", "COMPLETION_SUCCESS">>}
      BY DEF StartReports
    <3>2. <<"START_FAILURE">> \in Seq(ReportIds) /\ <<"START_SUCCESS", "COMPLETION_SUCCESS">> \in Seq(ReportIds)
      BY DEF ReportIds
    <3>3. QED
      BY <3>1, <3>2 DEF Endings
  <2>2. reports'[t] = <<>> \o StartReports(how[t])
    BY <1>1 DEF Nothing
  <2>3. reports'[t] = StartReports(how[t])
    BY <2>1, <2>2, ConcatEmptySeq
  <2>4. QED
    BY <2>1, <2>3
<1>3. ASSUME NEW t \in TCs \ Range(ended)
      PROVE  /\ final[t] = Nothing => reports'[t] = reported[t]
             /\ reported[t] = Nothing => reports'[t] = final[t]
             /\ reports'[t] \in Seq(ReportIds)
  <2>1. reports'[t] = reported[t] \o final[t]
    BY <1>1
  <2>2. reported[t] \in Seq(ReportIds) /\ final[t] \in Seq(ReportIds)
    OBVIOUS
  <2>3. QED
    BY <2>1, <2>2, ConcatProperties, ConcatEmptySeq DEF Nothing
<1>4. reports' \in [TCs -> Seq(ReportIds)]
  <2>1. reports' = [t \in TCs |-> reports'[t]]
    BY <1>1
  <2>2. \A t \in TCs : reports'[t] \in Seq(ReportIds)
    BY <1>2, <1>3
  <2>3. QED
    BY <2>1, <2>2
<1>5. QED
  BY <1>2, <1>3, <1>4 DEF StartsReported

-----------------------------------------------------------------------------
(* What startExecution and checkAndExecuteFifo come to, for the other        *)
(* entries rest, the waiting telecommands w, and x, which had the entry.     *)

AllEnded(rest, w, reported) ==
    /\ Range(commandMap') = rest /\ tcStore' = tcStore \ Range(w) /\ working' = working
    /\ \A t \in Range(w) : reports'[t] \in Endings
    /\ \A t \in TCs \ Range(w) : reports'[t] = reported[t]

OneTaken(rest, w, reported, s, gone, new) ==
    /\ s \in Range(w) /\ gone \subseteq Range(w) \ {s}
    /\ Range(commandMap') = rest \cup {new} /\ Range(new.fifo) = Range(w) \ (gone \cup {s})
    /\ tcStore' = tcStore \ (gone \cup {s})
    /\ \A t \in gone : reports'[t] \in Endings
    /\ \A t \in TCs \ (gone \cup {s}) : reports'[t] = reported[t]

TakenToStart(s, new) ==
    /\ new.tc = s /\ reports'[s] = <<"START_SUCCESS">>
    /\ working' \in {working, [working EXCEPT ![QueueOfTC(s)] = @ \cup {s}]}

FoundLost(s, new, x) ==
    /\ new.tc = x /\ s \in unreadable /\ working' = working
    /\ reports'[s] = <<"MISLABELLED">> \/ reports'[s] = <<"START_FAILURE">>

Executed(rest, w, reported, x) ==
    /\ reports' \in [TCs -> Seq(ReportIds)] /\ MapOK(commandMap')
    /\ \/ AllEnded(rest, w, reported)
       \/ \E s \in TCs, gone \in SUBSET TCs, new \in Entries :
             /\ OneTaken(rest, w, reported, s, gone, new)
             /\ TakenToStart(s, new) \/ FoundLost(s, new, x)

\* The reports of a telecommand taken out of w and of those before it.
TakenReported(w, n, reported, how) ==
    /\ reports' \in [TCs -> Seq(ReportIds)] /\ reports'[w[n]] = how
    /\ \A t \in Range(SubSeq(w, 1, n - 1)) : reports'[t] \in Endings
    /\ \A t \in TCs \ Range(SubSeq(w, 1, n)) : reports'[t] = reported[t]

LEMMA ReportsOfTaken ==
  ASSUME NEW w \in Seq(TCs), IsInjective(w), NEW n \in DOMAIN w, NEW lost,
         NEW reported \in [TCs -> Seq(ReportIds)], \A t \in Range(w) : reported[t] = Nothing,
         NEW how \in Seq(ReportIds),
         EndAtStart(SubSeq(w, 1, n - 1), lost, reported, [NoReport EXCEPT ![w[n]] = how])
  PROVE  TakenReported(w, n, reported, how)
<1> DEFINE before == SubSeq(w, 1, n - 1)
           final == [NoReport EXCEPT ![w[n]] = how]
<1>1. /\ w[n] \in Range(w) /\ w[n] \in TCs /\ Range(before) \subseteq Range(w) \ {w[n]}
      /\ Range(SubSeq(w, 1, n)) = Range(before) \cup {w[n]}
  BY CutFifo
<1>2. Range(w) \subseteq TCs
  BY LenProperties, ElementOfSeq DEF Range
<1>3. final \in [TCs -> Seq(ReportIds)] /\ final[w[n]] = how /\ \A t \in TCs \ {w[n]} : final[t] = Nothing
  <2>1. Nothing \in Seq(ReportIds)
    BY EmptySeq DEF Nothing
  <2>2. NoReport \in [TCs -> Seq(ReportIds)] /\ \A t \in TCs : NoReport[t] = Nothing
    BY <2>1 DEF NoReport, Nothing
  <2>3. QED
    BY <1>1, <2>1, <2>2
<1> HIDE DEF before, final
<1>4. EndAtStart(before, lost, reported, final)
  BY DEF before, final
<1>5. Range(before) \subseteq TCs /\ \A t \in Range(before) : reported[t] = Nothing
  BY <1>1, <1>2
<1>6. StartsReported(before, reported, final)
  BY <1>3, <1>4, <1>5, ReportsAtStart
<1>7. reports'[w[n]] = how
  <2>1. w[n] \in TCs \ Range(before) /\ reported[w[n]] = Nothing /\ final[w[n]] = how
    BY <1>1, <1>3
  <2>2. QED
    BY <1>6, <2>1 DEF StartsReported
<1>8. ASSUME NEW t \in TCs \ Range(SubSeq(w, 1, n))
      PROVE  reports'[t] = reported[t]
  <2>1. t \in TCs \ Range(before) /\ final[t] = Nothing
    BY <1>1, <1>3
  <2>2. QED
    BY <1>6, <2>1 DEF StartsReported
<1>9. QED
  BY <1>6, <1>7, <1>8 DEF before, StartsReported, TakenReported

LEMMA FifoExecuted ==
  ASSUME MapOK(commandMap), NEW k \in Slots, NEW reported \in [TCs -> Seq(ReportIds)],
         \A t \in Range(commandMap[k].fifo) : reported[t] = Nothing,
         checkAndExecuteFifo(k, reported)
  PROVE  Executed(Range(commandMap) \ {commandMap[k]}, commandMap[k].fifo, reported, commandMap[k].tc)
<1> DEFINE old == commandMap[k]
           w == old.fifo
           rest == Range(commandMap) \ {old}
<1>1. k \in DOMAIN commandMap /\ EntryOK(old)
  BY DEF MapOK, Slots
<1>2. /\ old \in Entries /\ w \in Seq(TCs) /\ IsInjective(w) /\ Len(w) \in Nat /\ Len(w) <= FifoDepth
      /\ \A t \in Range(w) : t \in TCs /\ QueueOfTC(t) = old.queue
  <2>1. old \in Entries /\ w \in Seq(TCs) /\ IsInjective(w) /\ Len(w) <= FifoDepth
        /\ \A t \in Range(w) : QueueOfTC(t) = old.queue
    BY <1>1 DEF EntryOK, Entries
  <2>2. QED
    BY <2>1, LenProperties, ElementOfSeq DEF Range
<1>3. Execute(commandMap, k, w, unreadable, reported)
  BY DEF checkAndExecuteFifo
<1> HIDE DEF w
<1>4. CASE RunOut(commandMap, k, w, unreadable, reported)
  <2>1. NoReport \in [TCs -> Seq(ReportIds)] /\ \A t \in TCs : NoReport[t] = Nothing
    BY EmptySeq DEF NoReport, Nothing
  <2>2. StartsReported(w, reported, NoReport)
    <3>1. EndAtStart(w, unreadable, reported, NoReport) /\ Range(w) \subseteq TCs
      BY <1>2, <1>4 DEF RunOut
    <3>2. \A t \in Range(w) : reported[t] = Nothing
      BY DEF w
    <3>3. QED
      BY <2>1, <3>1, <3>2, ReportsAtStart
  <2>3. reports' \in [TCs -> Seq(ReportIds)] /\ (\A t \in Range(w) : reports'[t] \in Endings)
        /\ \A t \in TCs \ Range(w) : reports'[t] = reported[t]
    BY <2>1, <2>2 DEF StartsReported
  <2>4. commandMap' = erase(commandMap, k) /\ tcStore' = tcStore \ Range(w) /\ working' = working
    BY <1>4 DEF RunOut
  <2>5. MapOK(commandMap') /\ Range(commandMap') = rest
    BY <1>1, <2>4, EraseEntry
  <2>6. AllEnded(rest, w, reported)
    BY <2>3, <2>4, <2>5 DEF AllEnded
  <2>7. QED
    BY <2>3, <2>5, <2>6 DEF Executed, w
<1>5. ASSUME NEW n \in DOMAIN w,
             \/ StartActive(commandMap, k, w, n, unreadable, reported)
             \/ SkipLost(commandMap, k, w, n, unreadable, reported)
      PROVE  Executed(rest, w, reported, old.tc)
  <2> DEFINE s == w[n]
             gone == Range(SubSeq(w, 1, n - 1))
             left == SubSeq(w, n + 1, Len(w))
  <2>1. /\ s \in Range(w) /\ s \in TCs /\ gone \subseteq Range(w) \ {s}
        /\ Range(SubSeq(w, 1, n)) = gone \cup {s}
        /\ left \in Seq(TCs) /\ IsInjective(left) /\ Len(left) <= Len(w) /\ Len(left) \in Nat
        /\ Range(left) = Range(w) \ Range(SubSeq(w, 1, n))
    BY <1>2, CutFifo, LenProperties
  <2>2. Range(left) = Range(w) \ (gone \cup {s}) /\ gone \in SUBSET TCs
    BY <1>2, <2>1
  <2>3. \A t \in Range(w) : reported[t] = Nothing
    BY DEF w
  <2>4. ASSUME NEW e, e \in Entries, e.queue = old.queue, e.queue = QueueOfTC(e.tc), e.fifo = left,
               commandMap' = [commandMap EXCEPT ![k] = e]
        PROVE  MapOK(commandMap') /\ Range(commandMap') = rest \cup {e}
    <3>1. Len(left) <= FifoDepth /\ \A t \in Range(left) : QueueOfTC(t) = e.queue
      BY <1>2, <2>2, <2>1, <2>4, ServiceAssumption
    <3>2. EntryOK(e)
      BY <2>1, <2>4, <3>1 DEF EntryOK
    <3> HIDE DEF old
    <3>3. e.queue = commandMap[k].queue
      BY <2>4 DEF old
    <3>4. k \in DOMAIN commandMap /\ MapOK(commandMap)
      BY <1>1
    <3>5. MapOK([commandMap EXCEPT ![k] = e])
      BY ONLY <3>2, <3>3, <3>4, ReplaceEntry
    <3>6. Range([commandMap EXCEPT ![k] = e]) = (Range(commandMap) \ {commandMap[k]}) \cup {e}
      BY ONLY <3>2, <3>3, <3>4, ReplaceEntry
    <3>7. QED
      BY <2>4, <3>5, <3>6 DEF old
  <2> HIDE DEF left, gone, s
  <2>5. CASE StartActive(commandMap, k, w, n, unreadable, reported)
    <3> DEFINE new == [old EXCEPT !.tc = s, !.overdue = FALSE, !.fifo = left]
    <3>1. /\ commandMap' = [commandMap EXCEPT ![k].tc = s, ![k].overdue = FALSE, ![k].fifo = left]
          /\ tcStore' = tcStore \ (gone \cup {s})
          /\ working' \in {working, [working EXCEPT ![old.queue] = @ \cup {s}]}
      BY <2>1, <2>5 DEF StartActive, s, left
    <3>2. commandMap' = [commandMap EXCEPT ![k] = new]
      BY <1>1, <1>2, <3>1 DEF Entries
    <3>3. new \in Entries /\ new.queue = old.queue /\ new.tc = s /\ new.fifo = left
      BY <1>2, <2>1 DEF Entries
    <3>4. old.queue = QueueOfTC(s)
      BY <1>2, <2>1
    <3> HIDE DEF new
    <3>5. MapOK(commandMap') /\ Range(commandMap') = rest \cup {new}
      BY <2>4, <3>2, <3>3, <3>4
    <3>6. /\ reports' \in [TCs -> Seq(ReportIds)] /\ reports'[s] = <<"START_SUCCESS">>
          /\ \A t \in gone : reports'[t] \in Endings
          /\ \A t \in TCs \ (gone \cup {s}) : reports'[t] = reported[t]
      <4>1. EndAtStart(SubSeq(w, 1, n - 1), unreadable, reported, [NoReport EXCEPT ![w[n]] = <<"START_SUCCESS">>])
        BY <2>5 DEF StartActive
      <4>2. <<"START_SUCCESS">> \in Seq(ReportIds)
        BY DEF ReportIds
      <4>3. TakenReported(w, n, reported, <<"START_SUCCESS">>)
        BY <1>2, <2>3, <4>1, <4>2, ReportsOfTaken
      <4>4. QED
        BY <2>1, <4>3 DEF TakenReported, s, gone
    <3>7. OneTaken(rest, w, reported, s, gone, new) /\ TakenToStart(s, new)
      BY <2>1, <2>2, <3>1, <3>3, <3>4, <3>5, <3>6 DEF OneTaken, TakenToStart
    <3>8. QED
      BY <2>1, <2>2, <3>3, <3>5, <3>6, <3>7 DEF Executed
  <2>6. CASE SkipLost(commandMap, k, w, n, unreadable, reported)
    <3> DEFINE new == [old EXCEPT !.fifo = left]
    <3>1. /\ commandMap' = [commandMap EXCEPT ![k].fifo = left] /\ s \in unreadable
          /\ tcStore' = tcStore \ (gone \cup {s}) /\ working' = working
      BY <2>1, <2>6 DEF SkipLost, s, left
    <3>2. commandMap' = [commandMap EXCEPT ![k] = new]
      BY <1>1, <1>2, <3>1 DEF Entries
    <3>3. new \in Entries /\ new.queue = old.queue /\ new.tc = old.tc /\ new.fifo = left
      BY <1>2, <2>1 DEF Entries
    <3>4. old.queue = QueueOfTC(old.tc)
      BY <1>1 DEF EntryOK
    <3> HIDE DEF new
    <3>5. MapOK(commandMap') /\ Range(commandMap') = rest \cup {new}
      BY <2>4, <3>2, <3>3, <3>4
    <3>6. /\ reports' \in [TCs -> Seq(ReportIds)]
          /\ reports'[s] = <<"MISLABELLED">> \/ reports'[s] = <<"START_FAILURE">>
          /\ \A t \in gone : reports'[t] \in Endings
          /\ \A t \in TCs \ (gone \cup {s}) : reports'[t] = reported[t]
      <4>1. PICK id \in {"START_FAILURE", "MISLABELLED"} :
               EndAtStart(SubSeq(w, 1, n - 1), unreadable, reported, [NoReport EXCEPT ![w[n]] = <<id>>])
        BY <2>6 DEF SkipLost
      <4>2. <<id>> \in Seq(ReportIds)
        BY DEF ReportIds
      <4>3. TakenReported(w, n, reported, <<id>>)
        BY <1>2, <2>3, <4>1, <4>2, ReportsOfTaken
      <4>4. reports'[s] = <<id>>
        BY <4>3 DEF TakenReported, s
      <4>5. QED
        BY <2>1, <4>3, <4>4 DEF TakenReported, s, gone
    <3>7. OneTaken(rest, w, reported, s, gone, new) /\ FoundLost(s, new, old.tc)
      BY <2>1, <2>2, <3>1, <3>3, <3>5, <3>6 DEF OneTaken, FoundLost
    <3>8. QED
      BY <2>1, <2>2, <3>3, <3>5, <3>6, <3>7 DEF Executed
  <2>7. QED
    BY <1>5, <2>5, <2>6
<1>6. QED
  BY <1>3, <1>4, <1>5 DEF Execute, w

LEMMA AppendEntry ==
  ASSUME NEW map, MapOK(map), Len(map) < NumberOfParallelCommands, NEW e, EntryOK(e),
         \A j \in DOMAIN map : map[j].queue # e.queue
  PROVE  MapOK(Append(map, e)) /\ Range(Append(map, e)) = Range(map) \cup {e}
<1> DEFINE new == Append(map, e)
           len == Len(map)
<1>1. map \in Seq(Entries) /\ e \in Entries /\ len \in Nat /\ DOMAIN map = 1..len /\ NumberOfParallelCommands \in Nat
  BY LenProperties, ServiceAssumption DEF MapOK, EntryOK
<1>2. new \in Seq(Entries) /\ Len(new) = len + 1 /\ new[len + 1] = e /\ \A j \in 1..len : new[j] = map[j]
  BY <1>1, AppendProperties
<1>3. len < NumberOfParallelCommands
  OBVIOUS
<1> HIDE DEF new, len
<1>4. DOMAIN new = 1..(len + 1) /\ Len(new) <= NumberOfParallelCommands
  BY <1>1, <1>2, <1>3, LenProperties
<1>5. \A j \in 1..(len + 1) : j \in 1..len \/ j = len + 1
  BY <1>1
<1>6. \A j \in DOMAIN new : EntryOK(new[j])
  BY <1>1, <1>2, <1>4, <1>5 DEF MapOK
<1>7. \A i, j \in DOMAIN new : new[i].queue = new[j].queue => i = j
  BY <1>1, <1>2, <1>4, <1>5 DEF MapOK
<1>8. MapOK(new)
  BY <1>2, <1>4, <1>6, <1>7 DEF MapOK
<1>9. Range(new) = Range(map) \cup {e}
  <2>1. \A j \in 1..len : j \in 1..(len + 1)
    BY <1>1
  <2>2. len + 1 \in 1..(len + 1)
    BY <1>1
  <2>3. QED
    BY <1>1, <1>2, <1>4, <1>5, <2>1, <2>2 DEF Range
<1>10. QED
  BY <1>8, <1>9 DEF new

LEMMA OneWaiting ==
  ASSUME NEW h \in TCs
  PROVE  /\ <<h>> \in Seq(TCs) /\ IsInjective(<<h>>) /\ Range(<<h>>) = {h}
         /\ DOMAIN <<h>> = {1} /\ <<h>>[1] = h
         /\ SubSeq(<<h>>, 2, Len(<<h>>)) = Nothing
<1>1. <<h>> \in Seq(TCs) /\ DOMAIN <<h>> = {1} /\ <<h>>[1] = h /\ Len(<<h>>) = 1
  OBVIOUS
<1>2. SubSeq(<<h>>, 2, 1) = Nothing
  BY SubSeqEmpty DEF Nothing
<1>3. QED
  BY <1>1, <1>2 DEF IsInjective, Range

LEMMA RequestExecuted ==
  ASSUME MapOK(commandMap), Types, requestQueue # <<>>, reports[Head(requestQueue)] = Nothing,
         find(Target) = {}, Len(commandMap) < NumberOfParallelCommands,
         startExecution(Append(commandMap, NewEntry), Len(commandMap) + 1, Head(requestQueue))
  PROVE  Executed(Range(commandMap), <<Head(requestQueue)>>, reports, NoTC)
<1> DEFINE h == Head(requestQueue)
           w == <<h>>
           len == Len(commandMap)
           map == Append(commandMap, NewEntry)
           all == Entries \cup {NewEntry}
<1>1. /\ h \in TCs /\ objectOf[h] \in Objects /\ Target = QueueOfTC(h) /\ Target \in Queues
      /\ reports \in [TCs -> Seq(ReportIds)]
  <2>1. requestQueue \in Seq(TCs) /\ objectOf \in [TCs -> Objects] /\ reports \in [TCs -> Seq(ReportIds)]
    BY DEF Types
  <2>2. h \in TCs
    BY <2>1, HeadTailProperties
  <2>3. QED
    BY <2>1, <2>2, ServiceAssumption DEF Target, QueueOfTC
<1>2. commandMap \in Seq(Entries) /\ len \in Nat /\ DOMAIN commandMap = 1..len
  BY LenProperties DEF MapOK
<1>3. map \in Seq(all) /\ Len(map) = len + 1 /\ DOMAIN map = 1..(len + 1) /\ map[len + 1] = NewEntry
      /\ \A j \in 1..len : map[j] = commandMap[j]
  <2>1. commandMap \in Seq(all) /\ NewEntry \in all
    BY <1>2, SeqMonotonic
  <2> HIDE DEF all
  <2>2. map \in Seq(all) /\ Len(map) = len + 1 /\ map[len + 1] = NewEntry /\ \A j \in 1..len : map[j] = commandMap[j]
    BY <1>2, <2>1, AppendProperties
  <2>3. DOMAIN map = 1..Len(map)
    BY <2>2, LenProperties
  <2>4. QED
    BY <2>2, <2>3
<1>4. NewEntry = [queue |-> Target, object |-> objectOf[h], tc |-> NoTC, overdue |-> FALSE, fifo |-> <<>>]
  BY DEF NewEntry
<1>5. /\ w \in Seq(TCs) /\ IsInjective(w) /\ Range(w) = {h} /\ DOMAIN w = {1} /\ w[1] = h
      /\ SubSeq(w, 2, Len(w)) = Nothing
  BY <1>1, OneWaiting
<1>6. /\ SubSeq(w, 1, 0) = Nothing /\ Range(Nothing) = {} /\ \A t \in Range(w) : reports[t] = Nothing
  BY <1>5, SubSeqEmpty DEF Nothing, Range
<1>7. Execute(map, len + 1, w, {}, reports)
  BY DEF startExecution
<1> HIDE DEF map, all, len, w, h
<1>8. CASE RunOut(map, len + 1, w, {}, reports)
  <2>1. NoReport \in [TCs -> Seq(ReportIds)] /\ \A t \in TCs : NoReport[t] = Nothing
    BY EmptySeq DEF NoReport, Nothing
  <2>2. StartsReported(w, reports, NoReport)
    <3>1. EndAtStart(w, {}, reports, NoReport) /\ Range(w) \subseteq TCs
      BY <1>1, <1>5, <1>8 DEF RunOut
    <3>2. QED
      BY <1>1, <1>6, <2>1, <3>1, ReportsAtStart
  <2>3. reports' \in [TCs -> Seq(ReportIds)] /\ (\A t \in Range(w) : reports'[t] \in Endings)
        /\ \A t \in TCs \ Range(w) : reports'[t] = reports[t]
    BY <2>1, <2>2 DEF StartsReported
  <2>4. commandMap' = erase(map, len + 1) /\ tcStore' = tcStore \ Range(w) /\ working' = working
    BY <1>8 DEF RunOut
  <2>5. commandMap' = commandMap
    <3>1. erase(map, len + 1) = [j \in 1..len |-> IF j = len + 1 THEN map[len + 1] ELSE map[j]]
      BY <1>2, <1>3 DEF erase
    <3>2. \A j \in 1..len : (IF j = len + 1 THEN map[len + 1] ELSE map[j]) = commandMap[j]
      BY <1>2, <1>3
    <3>3. commandMap = [j \in 1..len |-> commandMap[j]]
      BY <1>2
    <3>4. QED
      BY <2>4, <3>1, <3>2, <3>3
  <2>6. AllEnded(Range(commandMap), w, reports)
    BY <2>3, <2>4, <2>5 DEF AllEnded
  <2>7. QED
    BY <2>3, <2>5, <2>6 DEF Executed, w, h
<1>9. ASSUME StartActive(map, len + 1, w, 1, {}, reports)
      PROVE  Executed(Range(commandMap), w, reports, NoTC)
  <2> DEFINE new == [NewEntry EXCEPT !.tc = h, !.overdue = FALSE, !.fifo = Nothing]
  <2>1. new \in Entries /\ EntryOK(new) /\ new.queue = Target /\ new.tc = h /\ new.fifo = Nothing
    <3>1. Nothing \in Seq(TCs) /\ Len(Nothing) = 0 /\ Range(Nothing) = {} /\ IsInjective(Nothing)
      BY EmptySeq DEF Nothing, Range, IsInjective
    <3>2. NewEntry \in [queue : Queues, object : Objects, tc : {NoTC}, overdue : BOOLEAN, fifo : {Nothing}]
          /\ NewEntry.queue = Target
      BY <1>1, <1>4 DEF Nothing
    <3>3. new \in Entries /\ new.queue = Target /\ new.tc = h /\ new.fifo = Nothing
      BY <1>1, <3>1, <3>2 DEF Entries
    <3>4. 0 <= FifoDepth
      BY ServiceAssumption
    <3> HIDE DEF new
    <3>5. QED
      BY <1>1, <3>1, <3>3, <3>4 DEF EntryOK
  <2>2. /\ commandMap' = [map EXCEPT ![len + 1].tc = h, ![len + 1].overdue = FALSE, ![len + 1].fifo = Nothing]
        /\ tcStore' = tcStore \ Range(SubSeq(w, 1, 1))
        /\ working' \in {working, [working EXCEPT ![map[len + 1].queue] = @ \cup {h}]}
    <3>1. SubSeq(w, 1 + 1, Len(w)) = Nothing
      BY <1>5
    <3>2. commandMap' = [map EXCEPT ![len + 1].tc = w[1], ![len + 1].overdue = FALSE,
                                    ![len + 1].fifo = SubSeq(w, 1 + 1, Len(w))]
      BY <1>9 DEF StartActive
    <3>3. /\ tcStore' = tcStore \ Range(SubSeq(w, 1, 1))
          /\ working' \in {working, [working EXCEPT ![map[len + 1].queue] = @ \cup {w[1]}]}
      BY <1>9 DEF StartActive
    <3>4. QED
      BY <1>5, <3>1, <3>2, <3>3
  <2>3. commandMap' = [map EXCEPT ![len + 1] = new]
    <3>1. map[len + 1] \in [queue : Queues, object : Objects, tc : {NoTC}, overdue : BOOLEAN, fifo : {Nothing}]
      BY <1>1, <1>3, <1>4 DEF Nothing
    <3>2. commandMap' = [map EXCEPT ![len + 1] = [map[len + 1] EXCEPT !.tc = h, !.overdue = FALSE, !.fifo = Nothing]]
      BY <1>2, <1>3, <2>2, <3>1
    <3>3. QED
      BY <1>3, <3>2
  <2> HIDE DEF new
  <2>4. commandMap' = Append(commandMap, new)
    <3>1. /\ Append(commandMap, new) \in Seq(Entries) /\ Len(Append(commandMap, new)) = len + 1
          /\ Append(commandMap, new)[len + 1] = new
          /\ \A j \in 1..len : Append(commandMap, new)[j] = commandMap[j]
      BY <1>2, <2>1, AppendProperties DEF len
    <3> DEFINE longer == Append(commandMap, new)
    <3> HIDE DEF longer
    <3>2. DOMAIN longer = 1..(len + 1)
      BY <3>1, LenProperties DEF longer
    <3>3. longer = [j \in 1..(len + 1) |-> longer[j]]
      BY <3>1, <3>2, LenProperties DEF longer
    <3>4. [map EXCEPT ![len + 1] = new] = [j \in 1..(len + 1) |-> IF j = len + 1 THEN new ELSE map[j]]
      BY <1>2, <1>3
    <3>5. \A j \in 1..(len + 1) : longer[j] = IF j = len + 1 THEN new ELSE map[j]
      BY <1>2, <1>3, <3>1 DEF longer
    <3>6. QED
      BY <2>3, <3>3, <3>4, <3>5 DEF longer
  <2>5. MapOK(commandMap') /\ Range(commandMap') = Range(commandMap) \cup {new}
    <3>1. \A j \in DOMAIN commandMap : commandMap[j].queue # new.queue
      BY <2>1 DEF find, Slots
    <3>2. QED
      BY <2>1, <2>4, <3>1, AppendEntry
  <2>6. Range(SubSeq(w, 1, 1)) = {h}
    <3>1. 1 \in DOMAIN w
      BY <1>5
    <3>2. Range(SubSeq(w, 1, 1)) = Range(SubSeq(w, 1, 1 - 1)) \cup {w[1]}
      BY <1>5, <3>1, CutFifo
    <3>3. SubSeq(w, 1, 1 - 1) = SubSeq(w, 1, 0)
      OBVIOUS
    <3>4. QED
      BY <1>5, <1>6, <3>2, <3>3
  <2>7. reports' \in [TCs -> Seq(ReportIds)] /\ reports'[h] = <<"START_SUCCESS">>
        /\ \A t \in TCs \ {h} : reports'[t] = reports[t]
    <3>1. EndAtStart(SubSeq(w, 1, 1 - 1), {}, reports, [NoReport EXCEPT ![w[1]] = <<"START_SUCCESS">>])
      BY <1>9 DEF StartActive
    <3>2. <<"START_SUCCESS">> \in Seq(ReportIds) /\ 1 \in DOMAIN w
      BY <1>5 DEF ReportIds
    <3>3. TakenReported(w, 1, reports, <<"START_SUCCESS">>)
      BY <1>1, <1>5, <1>6, <3>1, <3>2, ReportsOfTaken
    <3>4. QED
      BY <1>5, <2>6, <3>3 DEF TakenReported
  <2>8. OneTaken(Range(commandMap), w, reports, h, {}, new) /\ TakenToStart(h, new)
    <3>1. new.tc = h /\ Range(new.fifo) = {} /\ map[len + 1].queue = QueueOfTC(h)
      BY <1>1, <1>3, <1>4, <1>6, <2>1
    <3>2. tcStore' = tcStore \ ({} \cup {h})
      BY <2>2, <2>6
    <3>3. QED
      BY <1>5, <2>2, <2>5, <2>7, <3>1, <3>2 DEF OneTaken, TakenToStart
  <2>9. QED
    BY <1>1, <2>1, <2>5, <2>7, <2>8 DEF Executed
<1>10. ~SkipLost(map, len + 1, w, 1, {}, reports)
  BY DEF SkipLost
<1>11. QED
  BY <1>5, <1>7, <1>8, <1>9, <1>10 DEF Execute, w, h

-----------------------------------------------------------------------------
(* What an execution preserves.  In Setting, w are the telecommands that may *)
(* be started, x the one that has just been ended, if any, and rest the      *)
(* entries for other queues.                                                 *)

Setting(rest, w, reported, x) ==
    /\ rest \subseteq Range(commandMap)
    /\ \A e \in Range(commandMap) : e \notin rest => e.tc = x
    /\ \A t \in Range(w) : t \in TCs /\ t \in tcStore /\ \A e \in rest : e.queue # QueueOfTC(t)
    /\ \A t \in TCs \ {x} : reported[t] = reports[t]
    /\ x \in TCs => /\ Active(x) /\ \E id \in EndReports : reported[x] = Append(reports[x], id)
                    /\ \A e \in rest : e.queue # QueueOfTC(x)
                    /\ \A t \in Range(w) : QueueOfTC(t) = QueueOfTC(x)

LEMMA ActiveInMap ==
    \A t : /\ Active(t) <=> \E e \in Range(commandMap) : e.tc = t
           /\ Active(t)' <=> \E e \in Range(commandMap') : e.tc = t
BY DEF Active, Slots, Range

LEMMA EntriesInMap ==
  ASSUME MapOK(commandMap), NEW e \in Range(commandMap)
  PROVE  e \in Entries /\ e.tc \in TCs /\ e.queue \in Queues /\ e.queue = QueueOfTC(e.tc)
<1>1. EntryOK(e)
  BY DEF MapOK, Range
<1>2. QED
  BY <1>1 DEF EntryOK, Entries

LEMMA LivesGoOn ==
  ASSUME MapOK(commandMap), \A t \in TCs : LifeOK(t), NEW rest, NEW w, NEW reported, NEW x,
         Setting(rest, w, reported, x), Executed(rest, w, reported, x), NEW t \in TCs
  PROVE  TCStep(t)
<1>1. \A e \in rest : e.queue = QueueOfTC(e.tc) /\ e \in Range(commandMap)
  BY EntriesInMap DEF Setting
<1>2. \A u \in Range(w) : /\ u \in TCs /\ u \in tcStore
                          /\ u # x /\ \A e \in rest : e.tc # u
  <2>1. ASSUME NEW u \in Range(w)
        PROVE  u \in TCs /\ u \in tcStore /\ \A e \in rest : e.tc # u
    BY <1>1 DEF Setting
  <2>2. ASSUME NEW u \in Range(w), u = x
        PROVE  FALSE
    <3>1. Active(u) /\ u \in tcStore /\ u \in TCs
      BY <2>1, <2>2 DEF Setting
    <3>2. QED
      BY <3>1 DEF LifeOK
  <2>3. QED
    BY <2>1, <2>2
<1>3. \A u \in TCs : u = x => u \notin tcStore /\ \A e \in rest : e.tc # u
  <2>1. ASSUME NEW u \in TCs, u = x
        PROVE  u \notin tcStore /\ \A e \in rest : e.tc # u
    <3>1. Active(u) /\ \A e \in rest : e.queue # QueueOfTC(u)
      BY <2>1 DEF Setting
    <3>2. u \notin tcStore
      BY <3>1 DEF LifeOK
    <3>3. QED
      BY <1>1, <3>1, <3>2
  <2>2. QED
    BY <2>1
<1>4. ASSUME NEW taken, NEW gone, gone \subseteq Range(w), taken \subseteq Range(w),
             tcStore' = tcStore \ (gone \cup taken),
             \A u \in gone : reports'[u] \in Endings,
             \A u \in TCs \ (gone \cup taken) : reports'[u] = reported[u],
             rest \subseteq Range(commandMap'),
             \A e \in Range(commandMap') :
                 e \in rest \/ e.tc \in taken \/ (e.tc = x /\ \E u \in Range(w) : u \in unreadable),
             t \notin taken
      PROVE  TCStep(t)
  <2>1. ASSUME Active(t)'
        PROVE  Active(t) /\ t \notin Range(w)
    <3>1. PICK e \in Range(commandMap') : e.tc = t
      BY <2>1, ActiveInMap
    <3>2. CASE e \in rest
      <4>1. e \in Range(commandMap)
        BY <1>1, <3>2
      <4>2. QED
        BY <1>2, <3>1, <3>2, <4>1, ActiveInMap
    <3>3. CASE e.tc = x
      BY <1>2, <3>1, <3>3 DEF Setting
    <3>4. QED
      BY <1>4, <3>1, <3>2, <3>3
  <2>2. CASE t \in gone
    <3>1. t \in Range(w) /\ t \in tcStore /\ t \notin tcStore' /\ reports'[t] \in Endings
      BY <1>2, <1>4, <2>2
    <3>2. QED
      BY <2>1, <3>1 DEF TCStep, EndedAtStart
  <2>3. CASE t \notin gone /\ t = x
    <3>1. PICK id \in EndReports : reported[t] = Append(reports[t], id)
      BY <2>3 DEF Setting
    <3>2. reports'[t] = Append(reports[t], id) /\ t \notin tcStore' /\ Active(t)
      BY <1>3, <1>4, <2>3, <3>1 DEF Setting
    <3>3. Active(t)' => ~Undisturbed(t)
      <4>1. ASSUME Active(t)'
            PROVE  ~Undisturbed(t)
        <5>1. PICK e \in Range(commandMap') : e.tc = t
          BY <4>1, ActiveInMap
        <5>2. e \notin rest
          BY <1>3, <2>3, <5>1
        <5>3. PICK u \in Range(w) : u \in unreadable
          BY <1>4, <5>1, <5>2
        <5>4. QueueOfTC(u) = QueueOfTC(t)
          BY <2>3 DEF Setting
        <5>5. QED
          BY <5>3, <5>4 DEF Undisturbed, QueueOfTC
      <4>2. QED
        BY <4>1
    <3>4. QED
      BY <3>1, <3>2, <3>3 DEF TCStep, Ended
  <2>4. CASE t \notin gone /\ t # x
    <3>1. reports'[t] = reports[t] /\ (t \in tcStore' <=> t \in tcStore)
      BY <1>4, <2>4 DEF Setting
    <3>2. Active(t) => Active(t)'
      <4>1. ASSUME Active(t)
            PROVE  Active(t)'
        <5>1. PICK e \in Range(commandMap) : e.tc = t
          BY <4>1, ActiveInMap
        <5>2. e \in Range(commandMap')
          BY <1>4, <2>4, <5>1 DEF Setting
        <5>3. QED
          BY <5>1, <5>2, ActiveInMap
      <4>2. QED
        BY <4>1
    <3>3. QED
      BY <2>1, <3>1, <3>2 DEF TCStep, SameLife
  <2>5. QED
    BY <2>2, <2>3, <2>4
<1>5. CASE AllEnded(rest, w, reported)
  <2> DEFINE none == {}
  <2>1. /\ tcStore' = tcStore \ (Range(w) \cup none) /\ Range(commandMap') = rest
        /\ \A u \in Range(w) : reports'[u] \in Endings
        /\ \A u \in TCs \ (Range(w) \cup none) : reports'[u] = reported[u]
    BY <1>5 DEF AllEnded
  <2>2. none \subseteq Range(w) /\ t \notin none
    OBVIOUS
  <2> HIDE DEF none
  <2>3. QED
    BY <1>4, <2>1, <2>2
<1>6. ASSUME NEW s \in TCs, NEW gone \in SUBSET TCs, NEW new \in Entries,
             OneTaken(rest, w, reported, s, gone, new), TakenToStart(s, new) \/ FoundLost(s, new, x)
      PROVE  TCStep(t)
  <2>1. /\ s \in Range(w) /\ gone \subseteq Range(w) /\ s \notin gone
        /\ Range(commandMap') = rest \cup {new} /\ tcStore' = tcStore \ (gone \cup {s})
        /\ \A u \in gone : reports'[u] \in Endings
        /\ \A u \in TCs \ (gone \cup {s}) : reports'[u] = reported[u]
    BY <1>6 DEF OneTaken
  <2>2. new.tc = s \/ (new.tc = x /\ s \in unreadable)
    BY <1>6 DEF TakenToStart, FoundLost
  <2>3. CASE t # s
    <3>1. \A e \in Range(commandMap') :
             e \in rest \/ e.tc \in {s} \/ (e.tc = x /\ \E u \in Range(w) : u \in unreadable)
      BY <2>1, <2>2
    <3>2. QED
      BY <1>4, <2>1, <2>3, <3>1
  <2>4. CASE t = s
    <3>1. t \in tcStore /\ t \notin tcStore'
      BY <1>2, <2>1, <2>4
    <3>2. CASE TakenToStart(s, new)
      BY <2>4, <3>1, <3>2 DEF TakenToStart, TCStep, Started
    <3>3. CASE FoundLost(s, new, x)
      <4>1. /\ t \in unreadable /\ new.tc = x
            /\ reports'[t] = <<"MISLABELLED">> \/ reports'[t] = <<"START_FAILURE">>
        BY <2>4, <3>3 DEF FoundLost
      <4>2. ~Undisturbed(t)
        BY <4>1 DEF Undisturbed
      <4>3. \A e \in Range(commandMap') : e.tc # t
        BY <1>2, <2>1, <2>4, <4>1
      <4>4. QED
        BY <3>1, <4>1, <4>2, <4>3, ActiveInMap DEF TCStep, EndedAtStart, Endings
    <3>4. QED
      BY <1>6, <3>2, <3>3
  <2>5. QED
    BY <2>3, <2>4
<1>7. QED
  BY <1>5, <1>6 DEF Executed

LEMMA StoreAfterExecution ==
  ASSUME MapOK(commandMap), NEW rest, NEW w, NEW reported, NEW x,
         Setting(rest, w, reported, x), Executed(rest, w, reported, x),
         \A t \in TCs : t \in tcStore <=>
             t \in Range(requestQueue') \/ t \in Range(w) \/ \E e \in rest : t \in Range(e.fifo),
         \A t \in Range(w) : t \notin Range(requestQueue'),
         \A e \in rest : Range(e.fifo) \cap Range(requestQueue') = {},
         IsInjective(requestQueue')
  PROVE  StoreOK'
<1>1. \A e \in rest : \A t \in Range(e.fifo) : t \notin Range(w)
  <2>1. ASSUME NEW e \in rest, NEW t \in Range(e.fifo), t \in Range(w)
        PROVE  FALSE
    <3>1. EntryOK(e)
      BY DEF Setting, MapOK, Range
    <3>2. e.queue = QueueOfTC(t) /\ e.queue # QueueOfTC(t)
      BY <2>1, <3>1 DEF EntryOK, Setting
    <3>3. QED
      BY <3>2
  <2>2. QED
    BY <2>1
<1>2. SUFFICES /\ \A t \in TCs : t \in tcStore' <=>
                     t \in Range(requestQueue') \/ \E e \in Range(commandMap') : t \in Range(e.fifo)
               /\ \A e \in Range(commandMap') : Range(e.fifo) \cap Range(requestQueue') = {}
  BY DEF StoreOK
<1>3. CASE AllEnded(rest, w, reported)
  <2>1. Range(commandMap') = rest /\ tcStore' = tcStore \ Range(w)
    BY <1>3 DEF AllEnded
  <2>2. QED
    BY <1>1, <2>1
<1>4. ASSUME NEW s \in TCs, NEW gone \in SUBSET TCs, NEW new \in Entries,
             OneTaken(rest, w, reported, s, gone, new)
      PROVE  /\ \A t \in TCs : t \in tcStore' <=>
                   t \in Range(requestQueue') \/ \E e \in Range(commandMap') : t \in Range(e.fifo)
             /\ \A e \in Range(commandMap') : Range(e.fifo) \cap Range(requestQueue') = {}
  <2>1. /\ s \in Range(w) /\ gone \subseteq Range(w)
        /\ Range(commandMap') = rest \cup {new} /\ Range(new.fifo) = Range(w) \ (gone \cup {s})
        /\ tcStore' = tcStore \ (gone \cup {s})
    BY <1>4 DEF OneTaken
  <2>2. \A e \in Range(commandMap') : Range(e.fifo) \cap Range(requestQueue') = {}
    BY <2>1
  <2>3. \A t : (\E e \in Range(commandMap') : t \in Range(e.fifo)) <=>
               (\E e \in rest : t \in Range(e.fifo)) \/ t \in Range(w) \ (gone \cup {s})
    BY <2>1
  <2>4. QED
    BY <1>1, <2>1, <2>2, <2>3
<1>5. QED
  BY <1>3, <1>4 DEF Executed

\* A telecommand that is sent to its object has begun.
LEMMA SentAfterExecution ==
  ASSUME Types, NEW rest, NEW w, NEW reported, NEW x, Executed(rest, w, reported, x)
  PROVE  /\ working' \in [Queues -> SUBSET TCs]
         /\ \A q \in Queues : \A t \in working'[q] : t \in working[q] \/ (QueueOfTC(t) = q /\ Begun(t)')
<1>1. working \in [Queues -> SUBSET TCs]
  BY DEF Types
<1>2. CASE working' = working
  BY <1>1, <1>2
<1>3. ASSUME NEW s \in TCs, NEW gone \in SUBSET TCs, NEW new \in Entries,
             OneTaken(rest, w, reported, s, gone, new), TakenToStart(s, new),
             working' = [working EXCEPT ![QueueOfTC(s)] = @ \cup {s}]
      PROVE  /\ working' \in [Queues -> SUBSET TCs]
             /\ \A q \in Queues : \A t \in working'[q] : t \in working[q] \/ (QueueOfTC(t) = q /\ Begun(t)')
  <2>1. new \in Range(commandMap') /\ new.tc = s /\ reports'[s] = <<"START_SUCCESS">>
    BY <1>3 DEF OneTaken, TakenToStart
  <2>2. reports'[s] # <<>>
    BY <2>1
  <2>3. Begun(s)'
    BY <2>1, <2>2, ActiveInMap DEF Begun
  <2>4. \A q \in Queues : working'[q] = working[q] \/ (q = QueueOfTC(s) /\ working'[q] = working[q] \cup {s})
    BY <1>1, <1>3
  <2>5. QED
    BY <1>1, <1>3, <2>3, <2>4
<1>4. QED
  BY <1>2, <1>3 DEF Executed, AllEnded, TakenToStart, FoundLost

-----------------------------------------------------------------------------
(* What each action owes to the invariant *)

StepOK ==
    /\ MapOK(commandMap') /\ Types' /\ StoreOK' /\ VisitedOK'
    /\ \A t \in TCs : TCStep(t)
    /\ \A q \in Queues : \A t \in working'[q] : t \in working[q] \/ (QueueOfTC(t) = q /\ Begun(t)')
    /\ \A m \in Range(commandQueue') :
          m \in Range(commandQueue) \/ (m.queue \in Queues /\ m.about \in working[m.queue])
    /\ \A pair \in mixedUp' : pair \in mixedUp \/ (Begun(pair[2]) /\ ~Active(pair[2]))

LEMMA StepKeepsInv ==
  ASSUME ServiceInv, UNCHANGED inputs, StepOK
  PROVE  ServiceInv'
<1>1. \A t : QueueOfTC(t)' = QueueOfTC(t)
  BY DEF inputs, QueueOfTC
<1>2. MapOK(commandMap)'
  <2>1. MapOK(commandMap')
    BY DEF StepOK
  <2>2. \A e : EntryOK(e) => EntryOK(e)'
    BY <1>1 DEF EntryOK
  <2>3. QED
    BY <2>1, <2>2 DEF MapOK
<1>3. /\ working \in [Queues -> SUBSET TCs] /\ commandQueue \in Seq(Messages) /\ mixedUp \subseteq TCs \X TCs
      /\ working' \in [Queues -> SUBSET TCs] /\ commandQueue' \in Seq(Messages) /\ mixedUp' \subseteq TCs \X TCs
      /\ reports \in [TCs -> Seq(ReportIds)]
  BY DEF ServiceInv, StepOK, Types
<1>4. ASSUME NEW t \in TCs
      PROVE  /\ LifeOK(t)'
             /\ Begun(t) => Begun(t)'
             /\ Begun(t) /\ ~Active(t) => ~Active(t)'
  <2>1. reports[t] \in Seq(ReportIds) /\ LifeOK(t) /\ TCStep(t)
    BY <1>3 DEF ServiceInv, StepOK
  <2>2. QED
    BY <2>1, TCStepKeeps
<1>5. SentOK'
  <2>1. \A q \in Queues : \A t \in working[q] : t \in TCs /\ QueueOfTC(t) = q /\ Begun(t)'
    BY <1>3, <1>4 DEF ServiceInv, SentOK
  <2>2. \A m \in Range(commandQueue) : m.about \in TCs /\ QueueOfTC(m.about) = m.queue /\ Begun(m.about)'
    <3>1. \A m \in Range(commandQueue) : m.about \in TCs
      <4>1. \A m \in Range(commandQueue) : m \in Messages
        BY <1>3, InSequence
      <4>2. QED
        BY <4>1 DEF Messages
    <3>2. QED
      BY <1>4, <3>1 DEF ServiceInv, SentOK
  <2>3. \A q \in Queues : \A t \in working'[q] : QueueOfTC(t) = q /\ Begun(t)'
    BY <2>1 DEF StepOK
  <2>4. \A m \in Range(commandQueue') : QueueOfTC(m.about) = m.queue /\ Begun(m.about)'
    BY <2>1, <2>2 DEF StepOK
  <2>5. QED
    BY <1>1, <2>3, <2>4 DEF SentOK
<1>6. MixedOK'
  <2>1. ASSUME NEW pair \in mixedUp'
        PROVE  Begun(pair[2])' /\ ~Active(pair[2])'
    <3>1. pair[2] \in TCs
      BY <1>3
    <3>2. Begun(pair[2]) /\ ~Active(pair[2])
      BY DEF StepOK, ServiceInv, MixedOK
    <3>3. QED
      BY <1>4, <3>1, <3>2
  <2>2. QED
    BY <2>1 DEF MixedOK
<1>7. QED
  BY <1>2, <1>4, <1>5, <1>6 DEF ServiceInv, StepOK

LEMMA ReportedIs ==
  ASSUME reports \in [TCs -> Seq(ReportIds)], NEW t \in TCs, NEW id \in ReportIds
  PROVE  /\ Reported(t, id) \in [TCs -> Seq(ReportIds)]
         /\ Reported(t, id)[t] = Append(reports[t], id)
         /\ \A u \in TCs \ {t} : Reported(t, id)[u] = reports[u]
<1>1. Append(reports[t], id) \in Seq(ReportIds)
  BY AppendProperties
<1>2. QED
  BY <1>1 DEF Reported

\* Everything but the queues and mixedUp, when a command has been ended.
LEMMA FifoStep ==
  ASSUME ServiceInv, NEW k \in Slots, NEW id \in EndReports,
         checkAndExecuteFifo(k, Reported(commandMap[k].tc, id)), UNCHANGED requestQueue
  PROVE  /\ MapOK(commandMap') /\ StoreOK' /\ \A t \in TCs : TCStep(t)
         /\ reports' \in [TCs -> Seq(ReportIds)] /\ tcStore' \subseteq TCs
         /\ working' \in [Queues -> SUBSET TCs]
         /\ \A q \in Queues : \A t \in working'[q] : t \in working[q] \/ (QueueOfTC(t) = q /\ Begun(t)')
<1> DEFINE old == commandMap[k]
           x == old.tc
           w == old.fifo
           rest == Range(commandMap) \ {old}
           reported == Reported(x, id)
<1>1. MapOK(commandMap) /\ Types /\ StoreOK /\ (\A t \in TCs : LifeOK(t)) /\ reports \in [TCs -> Seq(ReportIds)]
  BY DEF ServiceInv, Types
<1>2. EntryOK(old) /\ old \in Range(commandMap)
  BY <1>1 DEF MapOK, Slots, Range
<1>3. /\ x \in TCs /\ w \in Seq(TCs) /\ QueueOfTC(x) = old.queue /\ Active(x) /\ x \notin tcStore
      /\ \A t \in Range(w) : t \in TCs /\ QueueOfTC(t) = old.queue
  <2>1. x \in TCs /\ w \in Seq(TCs) /\ QueueOfTC(x) = old.queue /\ \A t \in Range(w) : QueueOfTC(t) = old.queue
    BY <1>2 DEF EntryOK, Entries
  <2>2. \A t \in Range(w) : t \in TCs
    BY <2>1, InSequence
  <2>3. Active(x)
    BY <1>2, ActiveInMap
  <2>4. x \notin tcStore
    BY <1>1, <2>1, <2>3 DEF LifeOK
  <2>5. QED
    BY <2>1, <2>2, <2>3, <2>4
<1>4. \A e \in rest : e \in Range(commandMap) /\ e.queue # old.queue
  BY <1>1 DEF MapOK, Slots, Range
<1>5. reported \in [TCs -> Seq(ReportIds)] /\ reported[x] = Append(reports[x], id)
      /\ \A u \in TCs \ {x} : reported[u] = reports[u]
  <2>1. id \in ReportIds
    BY DEF EndReports, ReportIds
  <2>2. QED
    BY <1>1, <1>3, <2>1, ReportedIs
<1> HIDE DEF reported, rest, x, w
<1>6. \A t \in Range(w) : t \in tcStore /\ reported[t] = Nothing
  <2>1. ASSUME NEW t \in Range(w)
        PROVE  t \in tcStore /\ reported[t] = Nothing
    <3>1. t \in tcStore /\ t \in TCs
      BY <1>1, <1>2, <1>3 DEF StoreOK, w
    <3>2. reports[t] = Nothing /\ t # x
      BY <1>1, <1>3, <3>1 DEF LifeOK, Nothing
    <3>3. QED
      BY <1>5, <3>1, <3>2
  <2>2. QED
    BY <2>1
<1>7. Executed(rest, w, reported, x)
  <2>1. \A t \in Range(commandMap[k].fifo) : reported[t] = Nothing
    BY <1>6 DEF w
  <2>2. checkAndExecuteFifo(k, reported)
    BY DEF reported, x
  <2>3. Executed(Range(commandMap) \ {commandMap[k]}, commandMap[k].fifo, reported, commandMap[k].tc)
    BY <1>1, <1>5, <2>1, <2>2, FifoExecuted
  <2>4. QED
    BY <2>3 DEF rest, w, x
<1>8. Setting(rest, w, reported, x)
  <2>1. \A e \in Range(commandMap) : e \notin rest => e.tc = x
    BY DEF rest, x
  <2>2. \A t \in Range(w) : t \in TCs /\ t \in tcStore /\ \A e \in rest : e.queue # QueueOfTC(t)
    BY <1>3, <1>4, <1>6
  <2>3. QED
    BY <1>3, <1>4, <1>5, <2>1, <2>2 DEF Setting
<1>9. \A t \in TCs : TCStep(t)
  BY <1>1, <1>7, <1>8, LivesGoOn
<1>10. StoreOK'
  <2>1. \A e : e \in Range(commandMap) <=> e \in rest \/ e = old
    BY <1>2 DEF rest
  <2>2. \A t \in TCs : t \in tcStore <=>
           t \in Range(requestQueue') \/ t \in Range(w) \/ \E e \in rest : t \in Range(e.fifo)
    BY <1>1, <2>1 DEF StoreOK, w
  <2>3. \A t \in Range(w) : t \notin Range(requestQueue')
    BY <1>1, <1>2 DEF StoreOK, w
  <2>4. (\A e \in rest : Range(e.fifo) \cap Range(requestQueue') = {}) /\ IsInjective(requestQueue')
    BY <1>1, <2>1 DEF StoreOK
  <2>5. QED
    BY <1>1, <1>7, <1>8, <2>2, <2>3, <2>4, StoreAfterExecution
<1>11. tcStore' \subseteq TCs
  BY <1>1, <1>7 DEF Types, Executed, AllEnded, OneTaken
<1>12. /\ working' \in [Queues -> SUBSET TCs]
       /\ \A q \in Queues : \A t \in working'[q] : t \in working[q] \/ (QueueOfTC(t) = q /\ Begun(t)')
  BY <1>1, <1>7, SentAfterExecution
<1>13. QED
  BY <1>7, <1>9, <1>10, <1>11, <1>12 DEF Executed

LEMMA TakeFirst ==
  ASSUME NEW S, NEW s \in Seq(S), s # <<>>
  PROVE  /\ Head(s) \in S /\ Tail(s) \in Seq(S) /\ Range(s) = Range(Tail(s)) \cup {Head(s)}
         /\ IsInjective(s) => IsInjective(Tail(s)) /\ Head(s) \notin Range(Tail(s))
<1> DEFINE len == Len(s)
           rest == Tail(s)
<1>1. /\ len \in Nat /\ len > 0 /\ DOMAIN s = 1..len /\ Head(s) = s[1] /\ Head(s) \in S
      /\ rest \in Seq(S) /\ Len(rest) = len - 1 /\ \A i \in 1..Len(rest) : rest[i] = s[i + 1]
  <2>1. len \in Nat /\ len > 0 /\ DOMAIN s = 1..len
    BY EmptySeq, LenProperties
  <2>2. QED
    BY <2>1, HeadTailProperties
<1> HIDE DEF len, rest
<1>2. DOMAIN rest = 1..(len - 1) /\ \A i \in 1..(len - 1) : rest[i] = s[i + 1]
  BY <1>1, LenProperties
<1>3. 1 \in 1..len /\ \A i \in 1..(len - 1) : i + 1 \in 1..len /\ i + 1 # 1
  BY <1>1
<1>4. \A i \in 1..len : i = 1 \/ (i - 1 \in 1..(len - 1) /\ (i - 1) + 1 = i)
  BY <1>1
<1>5. Range(s) = Range(rest) \cup {Head(s)}
  <2>1. Range(rest) \cup {Head(s)} \subseteq Range(s)
    BY <1>1, <1>2, <1>3 DEF Range
  <2>2. ASSUME NEW i \in 1..len
        PROVE  s[i] \in Range(rest) \cup {Head(s)}
    <3>1. CASE i = 1
      BY <1>1, <3>1
    <3>2. CASE i # 1
      <4>1. i - 1 \in 1..(len - 1) /\ s[i] = rest[i - 1]
        BY <1>2, <1>4, <3>2
      <4>2. QED
        BY <1>2, <4>1 DEF Range
    <3>3. QED
      BY <3>1, <3>2
  <2>3. Range(s) \subseteq Range(rest) \cup {Head(s)}
    <3>1. Range(s) = { s[i] : i \in 1..len }
      BY <1>1 DEF Range
    <3>2. QED
      BY <2>2, <3>1
  <2>4. QED
    BY <2>1, <2>3
<1>6. ASSUME IsInjective(s)
      PROVE  IsInjective(rest) /\ Head(s) \notin Range(rest)
  <2>1. \A i, j \in 1..len : s[i] = s[j] => i = j
    BY <1>1, <1>6 DEF IsInjective
  <2>2. ASSUME NEW i \in 1..(len - 1), NEW j \in 1..(len - 1), rest[i] = rest[j]
        PROVE  i = j
    <3>1. i + 1 = j + 1
      BY <1>2, <1>3, <2>1, <2>2
    <3>2. QED
      BY <1>1, <3>1
  <2>3. \A i \in 1..(len - 1) : rest[i] # Head(s)
    BY <1>1, <1>2, <1>3, <2>1
  <2>4. QED
    BY <1>2, <2>2, <2>3 DEF IsInjective, Range
<1>7. QED
  BY <1>1, <1>5, <1>6 DEF rest

LEMMA SameLives ==
  ASSUME UNCHANGED <<commandMap, reports, tcStore>>
  PROVE  \A t \in TCs : TCStep(t)
BY DEF TCStep, SameLife, Active, Slots

LEMMA ReplyTaken ==
  ASSUME ServiceInv, NEW kinds, ReceiveReply(kinds), UNCHANGED inputs
  PROVE  /\ phase = "handleCommandQueue" /\ phase' = phase /\ slot' = slot /\ requestQueue' = requestQueue
         /\ VisitedOK' /\ commandQueue' \in Seq(Messages)
         /\ Range(commandQueue') \subseteq Range(commandQueue)
         /\ Head(commandQueue) \in Messages /\ Head(commandQueue) \in Range(commandQueue)
<1>1. /\ phase = "handleCommandQueue" /\ phase' = phase /\ slot' = slot /\ requestQueue' = requestQueue
      /\ commandQueue' = Tail(commandQueue) /\ commandQueue # <<>> /\ commandQueue \in Seq(Messages)
  BY DEF ReceiveReply, taskVars, ServiceInv, Types
<1>2. VisitedOK'
  BY <1>1 DEF VisitedOK
<1>3. QED
  BY <1>1, <1>2, TakeFirst

LEMMA UnrequestedReplyKeeps ==
  ASSUME ServiceInv, UnrequestedReply, UNCHANGED inputs
  PROVE  StepOK
<1>1. /\ ReceiveReply({"step", "last"})
      /\ UNCHANGED <<commandMap, reports, tcStore>>
      /\ mixedUp' = mixedUp /\ working' = working
  BY DEF UnrequestedReply, serviceVars
<1>2. /\ phase' = phase /\ slot' = slot /\ requestQueue' = requestQueue /\ VisitedOK'
      /\ commandQueue' \in Seq(Messages) /\ Range(commandQueue') \subseteq Range(commandQueue)
  BY <1>1, ReplyTaken
<1>3. Types' /\ MapOK(commandMap') /\ StoreOK'
  BY <1>1, <1>2 DEF ServiceInv, Types, StoreOK, inputs
<1>4. QED
  BY <1>1, <1>2, <1>3, SameLives DEF StepOK

LEMMA StepReplyKeeps ==
  ASSUME ServiceInv, StepReply, UNCHANGED inputs
  PROVE  StepOK
<1>1. ReceiveReply({"step"}) /\ UNCHANGED <<commandMap, tcStore>> /\ mixedUp' = mixedUp /\ working' = working
  BY DEF StepReply
<1>2. PICK k \in Slots : reports' = Reported(commandMap[k].tc, "PROGRESS_SUCCESS")
  BY DEF StepReply, find
<1> DEFINE x == commandMap[k].tc
<1>3. /\ phase' = phase /\ slot' = slot /\ requestQueue' = requestQueue /\ VisitedOK'
      /\ commandQueue' \in Seq(Messages) /\ Range(commandQueue') \subseteq Range(commandQueue)
  BY <1>1, ReplyTaken
<1>4. MapOK(commandMap) /\ reports \in [TCs -> Seq(ReportIds)] /\ \A t \in TCs : LifeOK(t)
  BY DEF ServiceInv, Types
<1>5. x \in TCs /\ Active(x)
  <2>1. commandMap[k] \in Range(commandMap)
    BY DEF Slots, Range
  <2>2. QED
    BY <1>4, <2>1, EntriesInMap, ActiveInMap
<1>6. reports' \in [TCs -> Seq(ReportIds)] /\ reports'[x] = Append(reports[x], "PROGRESS_SUCCESS")
      /\ \A u \in TCs \ {x} : reports'[u] = reports[u]
  <2>1. "PROGRESS_SUCCESS" \in ReportIds
    BY DEF ReportIds
  <2>2. QED
    BY <1>2, <1>4, <1>5, <2>1, ReportedIs
<1> HIDE DEF x
<1>7. ASSUME NEW t \in TCs
      PROVE  TCStep(t)
  <2>1. Active(t)' <=> Active(t)
    BY <1>1 DEF Active, Slots
  <2>2. CASE t = x
    <3>1. t \notin tcStore /\ reports'[t] = Append(reports[t], "PROGRESS_SUCCESS") /\ Active(t)
      BY <1>4, <1>5, <1>6, <2>2 DEF LifeOK
    <3>2. QED
      BY <1>1, <2>1, <3>1 DEF TCStep, Progressed
  <2>3. CASE t # x
    BY <1>1, <1>6, <2>1, <2>3 DEF TCStep, SameLife
  <2>4. QED
    BY <2>2, <2>3
<1>8. Types' /\ MapOK(commandMap') /\ StoreOK'
  BY <1>1, <1>3, <1>6 DEF ServiceInv, Types, StoreOK, inputs
<1>9. QED
  BY <1>1, <1>3, <1>7, <1>8 DEF StepOK

LEMMA EndReplyKeeps ==
  ASSUME ServiceInv, NEW id \in EndReports, EndReply(id), UNCHANGED inputs
  PROVE  StepOK
<1> DEFINE m == Head(commandQueue)
<1>1. ReceiveReply({"step", "last"})
  BY DEF EndReply
<1>2. PICK k \in Slots : /\ commandMap[k].queue = m.queue
                         /\ mixedUp' = mixedUp \cup ({<<commandMap[k].tc, m.about>>} \ { <<t, t>> : t \in TCs })
                         /\ checkAndExecuteFifo(k, Reported(commandMap[k].tc, id))
  BY DEF EndReply, find
<1> DEFINE x == commandMap[k].tc
<1>3. /\ phase' = phase /\ slot' = slot /\ requestQueue' = requestQueue /\ VisitedOK'
      /\ commandQueue' \in Seq(Messages) /\ Range(commandQueue') \subseteq Range(commandQueue)
      /\ m \in Messages /\ m \in Range(commandQueue)
  BY <1>1, ReplyTaken
<1>4. /\ MapOK(commandMap') /\ StoreOK' /\ \A t \in TCs : TCStep(t)
      /\ reports' \in [TCs -> Seq(ReportIds)] /\ tcStore' \subseteq TCs
      /\ working' \in [Queues -> SUBSET TCs]
      /\ \A q \in Queues : \A t \in working'[q] : t \in working[q] \/ (QueueOfTC(t) = q /\ Begun(t)')
  BY <1>2, <1>3, FifoStep
<1>5. MapOK(commandMap) /\ commandMap[k] \in Range(commandMap)
  BY DEF ServiceInv, Slots, Range
<1>6. x \in TCs /\ m.about \in TCs /\ Begun(m.about) /\ QueueOfTC(m.about) = commandMap[k].queue
  <2>1. m.about \in TCs
    BY <1>3 DEF Messages
  <2>2. Begun(m.about) /\ QueueOfTC(m.about) = m.queue
    BY <1>3 DEF ServiceInv, SentOK
  <2>3. QED
    BY <1>2, <1>5, <2>1, <2>2, EntriesInMap
<1>7. m.about # x => ~Active(m.about)
  <2>1. ASSUME Active(m.about)
        PROVE  m.about = x
    <3>1. PICK e \in Range(commandMap) : e.tc = m.about
      BY <2>1, ActiveInMap
    <3>2. e.queue = commandMap[k].queue
      BY <1>5, <1>6, <3>1, EntriesInMap
    <3>3. e = commandMap[k]
      BY <1>5, <3>2 DEF MapOK, Range, Slots
    <3>4. QED
      BY <3>1, <3>3
  <2>2. QED
    BY <2>1
<1> HIDE DEF x, m
<1>8. \A pair \in mixedUp' : pair \in mixedUp \/ (pair = <<x, m.about>> /\ x # m.about)
  BY <1>2, <1>6 DEF x, m
<1>9. \A pair \in mixedUp' : pair \in mixedUp \/ (Begun(pair[2]) /\ ~Active(pair[2]))
  BY <1>6, <1>7, <1>8
<1>10. mixedUp' \subseteq TCs \X TCs
  BY <1>6, <1>8 DEF ServiceInv, Types
<1>11. Types'
  BY <1>3, <1>4, <1>10 DEF ServiceInv, Types, inputs
<1>12. QED
  BY <1>3, <1>4, <1>9, <1>11 DEF StepOK

LEMMA AppendWaiting ==
  ASSUME NEW w \in Seq(TCs), IsInjective(w), NEW t \in TCs, t \notin Range(w)
  PROVE  /\ Append(w, t) \in Seq(TCs) /\ Len(Append(w, t)) = Len(w) + 1
         /\ IsInjective(Append(w, t)) /\ Range(Append(w, t)) = Range(w) \cup {t}
<1> DEFINE len == Len(w)
           new == Append(w, t)
<1>1. /\ len \in Nat /\ DOMAIN w = 1..len /\ new \in Seq(TCs) /\ Len(new) = len + 1
      /\ new[len + 1] = t /\ \A i \in 1..len : new[i] = w[i]
  BY LenProperties, AppendProperties
<1> HIDE DEF len, new
<1>2. DOMAIN new = 1..(len + 1)
  BY <1>1, LenProperties
<1>3. /\ \A i \in 1..(len + 1) : i \in 1..len \/ i = len + 1
      /\ (\A i \in 1..len : i \in 1..(len + 1)) /\ len + 1 \in 1..(len + 1)
  BY <1>1
<1>4. Range(new) = Range(w) \cup {t}
  BY <1>1, <1>2, <1>3 DEF Range
<1>5. IsInjective(new)
  <2>1. \A i \in 1..len : w[i] # t
    BY <1>1 DEF Range
  <2>2. \A i, j \in 1..len : w[i] = w[j] => i = j
    BY <1>1 DEF IsInjective
  <2>3. \A i, j \in 1..(len + 1) : new[i] = new[j] => i = j
    BY <1>1, <1>3, <2>1, <2>2
  <2>4. QED
    BY <1>2, <2>3 DEF IsInjective
<1>6. QED
  BY <1>1, <1>4, <1>5 DEF new, len

\* An entry is changed, and not the command it has.
LEMMA EntryTouched ==
  ASSUME ServiceInv, NEW k \in Slots, NEW new, EntryOK(new),
         new.tc = commandMap[k].tc, new.queue = commandMap[k].queue,
         commandMap' = [commandMap EXCEPT ![k] = new], UNCHANGED <<reports, tcStore>>
  PROVE  /\ MapOK(commandMap') /\ Range(commandMap') = (Range(commandMap) \ {commandMap[k]}) \cup {new}
         /\ \A t \in TCs : TCStep(t)
<1>1. MapOK(commandMap) /\ k \in DOMAIN commandMap /\ commandMap[k] \in Range(commandMap)
  BY DEF ServiceInv, Slots, Range
<1>2. MapOK([commandMap EXCEPT ![k] = new])
  BY <1>1, ReplaceEntry
<1>3. Range([commandMap EXCEPT ![k] = new]) = (Range(commandMap) \ {commandMap[k]}) \cup {new}
  BY ONLY <1>1, EntryOK(new), new.queue = commandMap[k].queue, ReplaceEntry
<1>4. ASSUME NEW t \in TCs
      PROVE  Active(t)' <=> Active(t)
  BY <1>1, <1>3, ActiveInMap
<1>5. QED
  BY <1>2, <1>3, <1>4 DEF TCStep, SameLife

LEMMA RequestTaken ==
  ASSUME ServiceInv, ReceiveRequest, UNCHANGED inputs
  PROVE  /\ Head(requestQueue) \in TCs /\ Head(requestQueue) \in tcStore
         /\ reports[Head(requestQueue)] = Nothing /\ ~Active(Head(requestQueue))
         /\ \A e \in Range(commandMap) : Head(requestQueue) \notin Range(e.fifo)
         /\ requestQueue # <<>> /\ requestQueue' \in Seq(TCs) /\ IsInjective(requestQueue')
         /\ Range(requestQueue) = Range(requestQueue') \cup {Head(requestQueue)}
         /\ Head(requestQueue) \notin Range(requestQueue')
         /\ phase' = phase /\ slot' = slot /\ commandQueue' = commandQueue /\ mixedUp' = mixedUp /\ VisitedOK'
         /\ Target = QueueOfTC(Head(requestQueue))
<1> DEFINE h == Head(requestQueue)
<1>1. /\ phase = "handleRequestQueue" /\ requestQueue # <<>> /\ requestQueue' = Tail(requestQueue)
      /\ phase' = phase /\ slot' = slot /\ commandQueue' = commandQueue /\ mixedUp' = mixedUp
  BY DEF ReceiveRequest, taskVars
<1>2. requestQueue \in Seq(TCs) /\ IsInjective(requestQueue)
  BY DEF ServiceInv, Types, StoreOK
<1>3. /\ h \in TCs /\ requestQueue' \in Seq(TCs) /\ Range(requestQueue) = Range(requestQueue') \cup {h}
      /\ IsInjective(requestQueue') /\ h \notin Range(requestQueue')
  BY <1>1, <1>2, TakeFirst
<1> HIDE DEF h
<1>4. h \in tcStore /\ \A e \in Range(commandMap) : h \notin Range(e.fifo)
  BY <1>3 DEF ServiceInv, StoreOK
<1>5. reports[h] = Nothing /\ ~Active(h)
  BY <1>3, <1>4 DEF ServiceInv, LifeOK, Nothing
<1>6. VisitedOK'
  BY <1>1 DEF VisitedOK
<1>7. QED
  BY <1>1, <1>3, <1>4, <1>5, <1>6 DEF h, Target, QueueOfTC

LEMMA RejectRequestKeeps ==
  ASSUME ServiceInv, NEW id \in {"INVALID_TC", "START_FAILURE"}, RejectRequest(id), UNCHANGED inputs
  PROVE  StepOK
<1> DEFINE h == Head(requestQueue)
<1>1. /\ ReceiveRequest /\ reports' = Reported(h, id) /\ tcStore' = tcStore \ {h}
      /\ commandMap' = commandMap /\ working' = working
  BY DEF RejectRequest
<1>2. /\ h \in TCs /\ h \in tcStore /\ reports[h] = Nothing /\ ~Active(h)
      /\ \A e \in Range(commandMap) : h \notin Range(e.fifo)
      /\ requestQueue' \in Seq(TCs) /\ IsInjective(requestQueue')
      /\ Range(requestQueue) = Range(requestQueue') \cup {h} /\ h \notin Range(requestQueue')
      /\ phase' = phase /\ slot' = slot /\ commandQueue' = commandQueue /\ mixedUp' = mixedUp /\ VisitedOK'
  BY <1>1, RequestTaken
<1> HIDE DEF h
<1>3. reports' \in [TCs -> Seq(ReportIds)] /\ reports'[h] = Append(Nothing, id)
      /\ \A u \in TCs \ {h} : reports'[u] = reports[u]
  <2>1. id \in ReportIds /\ reports \in [TCs -> Seq(ReportIds)]
    BY DEF ReportIds, ServiceInv, Types
  <2>2. QED
    BY <1>1, <1>2, <2>1, ReportedIs
<1>4. ASSUME NEW t \in TCs
      PROVE  TCStep(t)
  <2>1. Active(t)' <=> Active(t)
    BY <1>1 DEF Active, Slots
  <2>2. CASE t = h
    <3>1. Append(Nothing, id) = <<id>>
      BY DEF Nothing
    <3>2. reports'[t] \in Endings
      BY <1>3, <2>2, <3>1 DEF Endings
    <3>3. QED
      BY <1>1, <1>2, <2>1, <2>2, <3>2 DEF TCStep, EndedAtStart
  <2>3. CASE t # h
    BY <1>1, <1>3, <2>1, <2>3 DEF TCStep, SameLife
  <2>4. QED
    BY <2>2, <2>3
<1>5. StoreOK'
  BY <1>1, <1>2 DEF ServiceInv, StoreOK
<1>6. Types' /\ MapOK(commandMap')
  BY <1>1, <1>2, <1>3 DEF ServiceInv, Types, inputs
<1>7. QED
  BY <1>1, <1>2, <1>4, <1>5, <1>6 DEF StepOK

LEMMA QueueRequestKeeps ==
  ASSUME ServiceInv, QueueRequest, UNCHANGED inputs
  PROVE  StepOK
<1> DEFINE h == Head(requestQueue)
<1>1. ReceiveRequest /\ UNCHANGED <<reports, tcStore>> /\ working' = working
  BY DEF QueueRequest
<1>2. PICK k \in Slots : /\ commandMap[k].queue = Target /\ Len(commandMap[k].fifo) < FifoDepth
                         /\ commandMap' = [commandMap EXCEPT ![k].fifo = Append(@, h)]
  BY DEF QueueRequest, find
<1>3. /\ h \in TCs /\ h \in tcStore
      /\ \A e \in Range(commandMap) : h \notin Range(e.fifo)
      /\ requestQueue' \in Seq(TCs) /\ IsInjective(requestQueue')
      /\ Range(requestQueue) = Range(requestQueue') \cup {h} /\ h \notin Range(requestQueue')
      /\ phase' = phase /\ slot' = slot /\ commandQueue' = commandQueue /\ mixedUp' = mixedUp /\ VisitedOK'
      /\ Target = QueueOfTC(h)
  BY <1>1, RequestTaken
<1> HIDE DEF h
<1> DEFINE old == commandMap[k]
           new == [old EXCEPT !.fifo = Append(old.fifo, h)]
<1>4. EntryOK(old) /\ old \in Range(commandMap)
  BY DEF ServiceInv, MapOK, Slots, Range
<1>5. old \in Entries /\ old.fifo \in Seq(TCs) /\ IsInjective(old.fifo) /\ h \notin Range(old.fifo)
      /\ Len(old.fifo) \in Nat /\ Len(old.fifo) < FifoDepth /\ FifoDepth \in Nat
  BY <1>2, <1>3, <1>4, LenProperties, ServiceAssumption DEF EntryOK, Entries
<1>6. commandMap' = [commandMap EXCEPT ![k] = new]
  BY <1>2
<1>7. /\ Append(old.fifo, h) \in Seq(TCs) /\ Len(Append(old.fifo, h)) = Len(old.fifo) + 1
      /\ IsInjective(Append(old.fifo, h)) /\ Range(Append(old.fifo, h)) = Range(old.fifo) \cup {h}
  BY <1>3, <1>5, AppendWaiting
<1>8. new \in Entries /\ new.tc = old.tc /\ new.queue = old.queue /\ new.fifo = Append(old.fifo, h)
  BY <1>5, <1>7 DEF Entries
<1> HIDE DEF new
<1>9. EntryOK(new)
  <2>1. Len(new.fifo) <= FifoDepth /\ IsInjective(new.fifo)
    BY <1>5, <1>7, <1>8
  <2>2. \A t \in Range(new.fifo) : QueueOfTC(t) = new.queue
    BY <1>2, <1>3, <1>4, <1>7, <1>8 DEF EntryOK
  <2>3. new.queue = QueueOfTC(new.tc)
    BY <1>4, <1>8 DEF EntryOK
  <2>4. QED
    BY <1>8, <2>1, <2>2, <2>3 DEF EntryOK
<1>10. /\ MapOK(commandMap') /\ Range(commandMap') = (Range(commandMap) \ {old}) \cup {new}
       /\ \A t \in TCs : TCStep(t)
  BY <1>1, <1>6, <1>8, <1>9, EntryTouched
<1> HIDE DEF old
<1>11. StoreOK'
  <2>1. \A t : (\E e \in Range(commandMap') : t \in Range(e.fifo)) <=>
               (\E e \in Range(commandMap) : t \in Range(e.fifo)) \/ t = h
    BY <1>4, <1>7, <1>8, <1>10
  <2>2. \A e \in Range(commandMap') : Range(e.fifo) \cap Range(requestQueue') = {}
    <3>1. \A e \in Range(commandMap) : Range(e.fifo) \cap Range(requestQueue') = {}
      BY <1>3 DEF ServiceInv, StoreOK
    <3>2. Range(new.fifo) \cap Range(requestQueue') = {}
      BY <1>3, <1>4, <1>7, <1>8, <3>1
    <3>3. QED
      BY <1>10, <3>1, <3>2
  <2>3. \A t \in TCs : t \in tcStore <=> t \in Range(requestQueue) \/ \E e \in Range(commandMap) : t \in Range(e.fifo)
    BY DEF ServiceInv, StoreOK
  <2>4. \A t \in TCs :
          t \in tcStore' <=> \/ t \in Range(requestQueue')
                            \/ \E e \in Range(commandMap') : t \in Range(e.fifo)
    BY <1>1, <1>3, <2>1, <2>3
  <2>5. QED
    BY <1>3, <2>2, <2>4 DEF StoreOK
<1>12. Types'
  BY <1>1, <1>3 DEF ServiceInv, Types, inputs
<1>13. QED
  BY <1>1, <1>3, <1>10, <1>11, <1>12 DEF StepOK

LEMMA StartRequestKeeps ==
  ASSUME ServiceInv, StartRequest, UNCHANGED inputs
  PROVE  StepOK
<1> DEFINE h == Head(requestQueue)
           w == <<h>>
           all == Range(commandMap)
<1>1. /\ ReceiveRequest /\ find(Target) = {} /\ Len(commandMap) < NumberOfParallelCommands
      /\ startExecution(Append(commandMap, NewEntry), Len(commandMap) + 1, h)
  BY DEF StartRequest
<1>2. /\ h \in TCs /\ h \in tcStore /\ reports[h] = Nothing
      /\ \A e \in Range(commandMap) : h \notin Range(e.fifo)
      /\ requestQueue # <<>> /\ requestQueue' \in Seq(TCs) /\ IsInjective(requestQueue')
      /\ Range(requestQueue) = Range(requestQueue') \cup {h} /\ h \notin Range(requestQueue')
      /\ phase' = phase /\ slot' = slot /\ commandQueue' = commandQueue /\ mixedUp' = mixedUp /\ VisitedOK'
      /\ Target = QueueOfTC(h)
  BY <1>1, RequestTaken
<1>3. MapOK(commandMap) /\ Types /\ StoreOK /\ \A t \in TCs : LifeOK(t)
  BY DEF ServiceInv
<1>4. Range(w) = {h}
  BY <1>2, OneWaiting
<1>5. Executed(all, w, reports, NoTC)
  BY <1>1, <1>2, <1>3, RequestExecuted
<1> HIDE DEF h, w, all
<1>6. Setting(all, w, reports, NoTC)
  <2>1. \A e \in all : e.queue # QueueOfTC(h)
    BY <1>1, <1>2 DEF find, Slots, Range, all
  <2>2. NoTC \notin TCs
    BY ServiceAssumption
  <2>3. QED
    BY <1>2, <1>4, <2>1, <2>2 DEF Setting, all
<1>7. \A t \in TCs : TCStep(t)
  BY <1>3, <1>5, <1>6, LivesGoOn
<1>8. StoreOK'
  <2>1. \A t \in TCs : t \in tcStore <=>
           t \in Range(requestQueue') \/ t \in Range(w) \/ \E e \in all : t \in Range(e.fifo)
    BY <1>2, <1>3, <1>4 DEF StoreOK, all
  <2>2. \A t \in Range(w) : t \notin Range(requestQueue')
    BY <1>2, <1>4
  <2>3. \A e \in all : Range(e.fifo) \cap Range(requestQueue') = {}
    BY <1>2, <1>3 DEF StoreOK, all
  <2>4. QED
    BY <1>2, <1>3, <1>5, <1>6, <2>1, <2>2, <2>3, StoreAfterExecution
<1>9. /\ working' \in [Queues -> SUBSET TCs]
      /\ \A q \in Queues : \A t \in working'[q] : t \in working[q] \/ (QueueOfTC(t) = q /\ Begun(t)')
  BY <1>3, <1>5, SentAfterExecution
<1>10. tcStore' \subseteq TCs /\ reports' \in [TCs -> Seq(ReportIds)] /\ MapOK(commandMap')
  BY <1>3, <1>5 DEF Types, Executed, AllEnded, OneTaken
<1>11. Types'
  BY <1>2, <1>3, <1>9, <1>10 DEF Types, inputs
<1>12. QED
  BY <1>2, <1>7, <1>8, <1>9, <1>10, <1>11 DEF StepOK

\* The distributor, the objects and the clock.
LEMMA SubmitKeeps ==
  ASSUME ServiceInv, NEW u \in TCs, SubmitTC(u), UNCHANGED inputs
  PROVE  StepOK
<1>1. /\ reports[u] = <<>> /\ u \notin tcStore /\ tcStore' = tcStore \cup {u}
      /\ requestQueue' = Append(requestQueue, u) /\ commandMap' = commandMap /\ reports' = reports
      /\ mixedUp' = mixedUp /\ phase' = phase /\ slot' = slot /\ commandQueue' = commandQueue /\ working' = working
  BY DEF SubmitTC, serviceVars, taskVars
<1>2. requestQueue \in Seq(TCs) /\ IsInjective(requestQueue) /\ u \notin Range(requestQueue)
      /\ \A e \in Range(commandMap) : u \notin Range(e.fifo)
  BY <1>1 DEF ServiceInv, Types, StoreOK
<1>3. /\ requestQueue' \in Seq(TCs) /\ IsInjective(requestQueue')
      /\ Range(requestQueue') = Range(requestQueue) \cup {u}
  BY <1>1, <1>2, AppendWaiting
<1>4. ASSUME NEW t \in TCs
      PROVE  TCStep(t)
  <2>1. Active(t)' <=> Active(t)
    BY <1>1 DEF Active, Slots
  <2>2. CASE t = u
    BY <1>1, <2>1, <2>2 DEF ServiceInv, LifeOK, TCStep, Submitted
  <2>3. CASE t # u
    BY <1>1, <2>1, <2>3 DEF TCStep, SameLife
  <2>4. QED
    BY <2>2, <2>3
<1>5. StoreOK'
  BY <1>1, <1>2, <1>3 DEF ServiceInv, StoreOK
<1>6. Types' /\ MapOK(commandMap') /\ VisitedOK'
  <2>1. Types' /\ MapOK(commandMap')
    BY <1>1, <1>3 DEF ServiceInv, Types, inputs
  <2>2. VisitedOK'
    BY <1>1 DEF ServiceInv, VisitedOK, Slots, Undisturbed, inputs
  <2>3. QED
    BY <2>1, <2>2
<1>7. QED
  BY <1>1, <1>4, <1>5, <1>6 DEF StepOK

LEMMA SendReplyKeeps ==
  ASSUME ServiceInv, NEW q \in Queues, NEW t \in working[q], NEW kind \in {"step", "last"},
         SendReply(q, t, kind), UNCHANGED inputs, working' \in [Queues -> SUBSET TCs],
         \A r \in Queues : working'[r] \subseteq working[r]
  PROVE  StepOK
<1> DEFINE m == [queue |-> q, about |-> t, kind |-> kind]
<1>1. /\ commandMap' = commandMap /\ reports' = reports /\ mixedUp' = mixedUp /\ phase' = phase /\ slot' = slot
      /\ requestQueue' = requestQueue /\ tcStore' = tcStore
      /\ commandQueue' = commandQueue \/ commandQueue' = Append(commandQueue, m)
  BY DEF SendReply, serviceVars, taskVars
<1>2. commandQueue \in Seq(Messages) /\ t \in TCs /\ m \in Messages /\ m.queue = q /\ m.about = t
  BY DEF ServiceInv, Types, Messages
<1> HIDE DEF m
<1>3. commandQueue' \in Seq(Messages) /\ \A n \in Range(commandQueue') : n \in Range(commandQueue) \/ n = m
  <2>1. CASE commandQueue' = commandQueue
    BY <1>2, <2>1
  <2>2. CASE commandQueue' = Append(commandQueue, m)
    <3>1. /\ Append(commandQueue, m) \in Seq(Messages) /\ Len(Append(commandQueue, m)) = Len(commandQueue) + 1
          /\ \A i \in 1..Len(commandQueue) : Append(commandQueue, m)[i] = commandQueue[i]
          /\ Append(commandQueue, m)[Len(commandQueue) + 1] = m
      BY <1>2, AppendProperties
    <3>2. Len(commandQueue) \in Nat /\ DOMAIN commandQueue = 1..Len(commandQueue)
          /\ DOMAIN commandQueue' = 1..(Len(commandQueue) + 1)
      BY <1>2, <2>2, <3>1, LenProperties
    <3>3. \A i \in 1..(Len(commandQueue) + 1) : i \in 1..Len(commandQueue) \/ i = Len(commandQueue) + 1
      BY <3>2
    <3>4. QED
      BY <2>2, <3>1, <3>2, <3>3 DEF Range
  <2>3. QED
    BY <1>1, <2>1, <2>2
<1>4. StoreOK' /\ MapOK(commandMap') /\ VisitedOK'
  BY <1>1 DEF ServiceInv, StoreOK, VisitedOK, Slots, Undisturbed, inputs
<1>5. Types'
  BY <1>1, <1>3 DEF ServiceInv, Types, inputs
<1>6. QED
  BY <1>1, <1>2, <1>3, <1>4, <1>5, SameLives DEF StepOK

LEMMA RepliesKeep ==
  ASSUME ServiceInv, NEW q \in Queues, NEW t \in working[q],
         IntermediateReply(q, t) \/ LastReply(q, t), UNCHANGED inputs
  PROVE  StepOK
<1>1. working \in [Queues -> SUBSET TCs]
  BY DEF ServiceInv, Types
<1>2. CASE IntermediateReply(q, t)
  <2>1. SendReply(q, t, "step") /\ working' = working
    BY <1>2 DEF IntermediateReply
  <2>2. QED
    BY <1>1, <2>1, SendReplyKeeps
<1>3. CASE LastReply(q, t)
  <2>1. SendReply(q, t, "last") /\ working' = [working EXCEPT ![q] = @ \ {t}]
    BY <1>3 DEF LastReply
  <2>2. working' \in [Queues -> SUBSET TCs] /\ \A r \in Queues : working'[r] \subseteq working[r]
    BY <1>1, <2>1
  <2>3. QED
    BY <2>1, <2>2, SendReplyKeeps
<1>4. QED
  BY <1>2, <1>3

LEMMA TimePassesKeeps ==
  ASSUME ServiceInv, NEW k \in Slots, TimePasses(k), UNCHANGED inputs
  PROVE  StepOK
<1> DEFINE old == commandMap[k]
           new == [old EXCEPT !.overdue = TRUE]
<1>1. /\ phase # "checkTimeout" /\ commandMap' = [commandMap EXCEPT ![k].overdue = TRUE]
      /\ reports' = reports /\ mixedUp' = mixedUp /\ phase' = phase /\ slot' = slot
      /\ requestQueue' = requestQueue /\ commandQueue' = commandQueue /\ tcStore' = tcStore /\ working' = working
  BY DEF TimePasses, taskVars
<1>2. EntryOK(old) /\ old \in Range(commandMap) /\ old \in Entries
  BY DEF ServiceInv, MapOK, Slots, Range, EntryOK
<1>3. commandMap' = [commandMap EXCEPT ![k] = new]
  BY <1>1
<1>4. new \in Entries /\ new.tc = old.tc /\ new.queue = old.queue /\ new.fifo = old.fifo
  BY <1>2 DEF Entries
<1> HIDE DEF new
<1>5. EntryOK(new)
  BY <1>2, <1>4 DEF EntryOK
<1>6. /\ MapOK(commandMap') /\ Range(commandMap') = (Range(commandMap) \ {old}) \cup {new}
      /\ \A t \in TCs : TCStep(t)
  BY <1>1, <1>3, <1>4, <1>5, EntryTouched
<1> HIDE DEF old
<1>7. StoreOK'
  <2>1. \A t : (\E e \in Range(commandMap') : t \in Range(e.fifo)) <=>
               (\E e \in Range(commandMap) : t \in Range(e.fifo))
    BY <1>2, <1>4, <1>6
  <2>2. \A e \in Range(commandMap') : Range(e.fifo) \cap Range(requestQueue) = {}
    BY <1>2, <1>4, <1>6 DEF ServiceInv, StoreOK
  <2>3. QED
    BY <1>1, <2>1, <2>2 DEF ServiceInv, StoreOK
<1>8. Types' /\ VisitedOK'
  BY <1>1 DEF ServiceInv, Types, VisitedOK, inputs
<1>9. QED
  BY <1>1, <1>6, <1>7, <1>8 DEF StepOK

LEMMA PhasesKeep ==
  ASSUME ServiceInv, CommandQueueEmpty \/ RequestQueueEmpty \/ InTime \/ AllVisited, UNCHANGED inputs
  PROVE  StepOK
<1>1. /\ commandMap' = commandMap /\ reports' = reports /\ mixedUp' = mixedUp /\ requestQueue' = requestQueue
      /\ commandQueue' = commandQueue /\ tcStore' = tcStore /\ working' = working
  BY DEF CommandQueueEmpty, RequestQueueEmpty, InTime, AllVisited, serviceVars
<1>2. /\ NumberOfParallelCommands \in Nat /\ Len(commandMap) \in Nat /\ Slots = 1..Len(commandMap)
      /\ Len(commandMap) <= NumberOfParallelCommands
      /\ phase \in Phases /\ slot \in 1..(NumberOfParallelCommands + 1)
  BY ServiceAssumption, LenProperties DEF ServiceInv, MapOK, Types, Slots
<1>3. phase' \in Phases /\ slot' \in 1..(NumberOfParallelCommands + 1) /\ VisitedOK'
  <2>1. CASE CommandQueueEmpty
    <3>1. phase' = "handleRequestQueue" /\ slot' = slot
      BY <2>1 DEF CommandQueueEmpty
    <3>2. QED
      BY <1>2, <3>1 DEF VisitedOK, Phases
  <2>2. CASE RequestQueueEmpty
    <3>1. phase' = "checkTimeout" /\ slot' = 1
      BY <2>2 DEF RequestQueueEmpty
    <3>2. \A k \in Slots : ~(k < 1)
      BY <1>2
    <3>3. QED
      BY <1>1, <1>2, <3>1, <3>2 DEF VisitedOK, Phases, Slots
  <2>3. CASE InTime
    <3>1. phase = "checkTimeout" /\ phase' = phase /\ slot' = slot + 1 /\ slot \in Slots /\ ~commandMap[slot].overdue
      BY <2>3 DEF InTime
    <3>2. \A k \in Slots : k < slot + 1 => k < slot \/ k = slot
      BY <1>2
    <3>3. VisitedOK'
      BY <1>1, <3>1, <3>2 DEF ServiceInv, VisitedOK, Slots, Undisturbed, inputs
    <3>4. QED
      BY <1>2, <3>1, <3>3
  <2>4. CASE AllVisited
    <3>1. phase' = "handleCommandQueue" /\ slot' = 1
      BY <2>4 DEF AllVisited
    <3>2. QED
      BY <1>2, <3>1 DEF VisitedOK, Phases
  <2>5. QED
    BY <2>1, <2>2, <2>3, <2>4
<1>4. Types' /\ MapOK(commandMap') /\ StoreOK'
  BY <1>1, <1>3 DEF ServiceInv, Types, StoreOK, inputs
<1>5. QED
  BY <1>1, <1>3, <1>4, SameLives DEF StepOK

\* erase moves an entry into the slot, which is visited next; a command that is
\* started is not overdue, and one that stays over a lost one is disturbed.
LEMMA TimedOutVisits ==
  ASSUME ServiceInv, TimedOut, MapOK(commandMap'), UNCHANGED inputs
  PROVE  VisitedOK' /\ slot' \in 1..(NumberOfParallelCommands + 1)
<1> DEFINE old == commandMap[slot]
           w == old.fifo
           len == Len(commandMap)
           reported == Reported(old.tc, "COMPLETION_FAILURE")
<1>1. /\ phase = "checkTimeout" /\ phase' = phase /\ slot \in Slots /\ NextSlot
      /\ Execute(commandMap, slot, w, unreadable, reported)
  BY DEF TimedOut, checkAndExecuteFifo
<1>2. /\ NumberOfParallelCommands \in Nat /\ len \in Nat /\ Slots = 1..len /\ len <= NumberOfParallelCommands
      /\ Len(commandMap') \in Nat /\ Slots' = 1..Len(commandMap') /\ MapOK(commandMap)
  BY ServiceAssumption, LenProperties DEF ServiceInv, MapOK, Slots
<1>3. \A t : Undisturbed(t)' <=> Undisturbed(t)
  BY DEF Undisturbed, inputs
<1>4. EntryOK(old) /\ DOMAIN commandMap = Slots
  BY <1>1, <1>2 DEF MapOK, Slots
<1>5. old \in Entries /\ old.queue = QueueOfTC(old.tc) /\ \A t \in Range(w) : QueueOfTC(t) = old.queue
  BY <1>4 DEF EntryOK
<1>6. \A k \in Slots : k < slot /\ Undisturbed(commandMap[k].tc) => ~commandMap[k].overdue
  BY <1>1 DEF ServiceInv, VisitedOK
<1> HIDE DEF len, reported, w
<1>7. CASE RunOut(commandMap, slot, w, unreadable, reported)
  <2>1. commandMap' = erase(commandMap, slot)
    BY <1>7 DEF RunOut
  <2>2. Len(commandMap') = len - 1
    BY <1>1, <1>2, <1>4, <2>1, EraseEntry DEF len
  <2>3. slot' = slot
    BY <1>1, <1>2, <2>2 DEF NextSlot, len
  <2>4. \A k \in 1..(len - 1) : k < slot => commandMap'[k] = commandMap[k] /\ k \in Slots
    BY <1>1, <1>2, <2>1 DEF erase, len
  <2>5. \A k \in Slots' : k < slot' /\ Undisturbed(commandMap'[k].tc) => ~commandMap'[k].overdue
    BY <1>2, <1>6, <2>2, <2>3, <2>4
  <2>6. QED
    BY <1>1, <1>2, <1>3, <2>3, <2>5 DEF VisitedOK
<1>8. ASSUME NEW n \in DOMAIN w,
             \/ StartActive(commandMap, slot, w, n, unreadable, reported)
             \/ SkipLost(commandMap, slot, w, n, unreadable, reported)
      PROVE  VisitedOK' /\ slot' \in 1..(NumberOfParallelCommands + 1)
  <2>1. Slots' = Slots /\ \A k \in Slots : k # slot => commandMap'[k] = commandMap[k]
    BY <1>1, <1>4, <1>8 DEF StartActive, SkipLost, Slots
  <2>2. Len(commandMap') = len
    <3>1. 1..Len(commandMap') = 1..len
      BY <1>2, <2>1
    <3>2. Len(commandMap') \in 1..len \/ Len(commandMap') = 0
      BY <1>2, <3>1
    <3>3. len \in 1..Len(commandMap') \/ len = 0
      BY <1>2, <3>1
    <3>4. QED
      BY <1>2, <3>2, <3>3
  <2>3. slot' = slot + 1
    BY <1>1, <1>2, <2>2 DEF NextSlot, len
  <2>4. Undisturbed(commandMap'[slot].tc) => ~commandMap'[slot].overdue
    <3>1. CASE StartActive(commandMap, slot, w, n, unreadable, reported)
      <4>1. commandMap' = [commandMap EXCEPT ![slot].tc = w[n], ![slot].overdue = FALSE,
                                             ![slot].fifo = SubSeq(w, n + 1, Len(w))]
        BY <3>1 DEF StartActive
      <4>2. commandMap'[slot].overdue = FALSE
        BY <1>1, <1>4, <1>5, <4>1 DEF Entries
      <4>3. QED
        BY <4>2
    <3>2. CASE SkipLost(commandMap, slot, w, n, unreadable, reported)
      <4>1. commandMap' = [commandMap EXCEPT ![slot].fifo = SubSeq(w, n + 1, Len(w))] /\ w[n] \in unreadable
        BY <3>2 DEF SkipLost
      <4>2. commandMap'[slot].tc = old.tc
        BY <1>1, <1>4, <1>5, <4>1 DEF Entries
      <4>3. QueueOfTC(w[n]) = QueueOfTC(old.tc)
        BY <1>5 DEF Range
      <4>4. ~Undisturbed(commandMap'[slot].tc)
        BY <4>1, <4>2, <4>3 DEF Undisturbed, QueueOfTC
      <4>5. QED
        BY <4>4
    <3>3. QED
      BY <1>8, <3>1, <3>2
  <2>5. \A k \in Slots : k < slot + 1 => k < slot \/ k = slot
    BY <1>1, <1>2
  <2>6. \A k \in Slots : k < slot => k # slot
    BY <1>1, <1>2
  <2>7. \A k \in Slots' : k < slot' /\ Undisturbed(commandMap'[k].tc) => ~commandMap'[k].overdue
    BY <1>6, <2>1, <2>3, <2>4, <2>5, <2>6
  <2>8. slot' \in 1..(NumberOfParallelCommands + 1)
    BY <1>1, <1>2, <2>3
  <2>9. QED
    BY <1>3, <2>7, <2>8 DEF VisitedOK
<1>9. QED
  BY <1>1, <1>7, <1>8 DEF Execute

LEMMA TimedOutKeeps ==
  ASSUME ServiceInv, TimedOut, UNCHANGED inputs
  PROVE  StepOK
<1>1. /\ slot \in Slots /\ checkAndExecuteFifo(slot, Reported(commandMap[slot].tc, "COMPLETION_FAILURE"))
      /\ phase' = phase /\ requestQueue' = requestQueue /\ commandQueue' = commandQueue /\ mixedUp' = mixedUp
  BY DEF TimedOut
<1>2. "COMPLETION_FAILURE" \in EndReports
  BY DEF EndReports
<1>3. /\ MapOK(commandMap') /\ StoreOK' /\ \A t \in TCs : TCStep(t)
      /\ reports' \in [TCs -> Seq(ReportIds)] /\ tcStore' \subseteq TCs
      /\ working' \in [Queues -> SUBSET TCs]
      /\ \A q \in Queues : \A t \in working'[q] : t \in working[q] \/ (QueueOfTC(t) = q /\ Begun(t)')
  BY <1>1, <1>2, FifoStep
<1>4. VisitedOK' /\ slot' \in 1..(NumberOfParallelCommands + 1)
  BY <1>3, TimedOutVisits
<1>5. Types'
  BY <1>1, <1>3, <1>4 DEF ServiceInv, Types, inputs
<1>6. QED
  BY <1>1, <1>3, <1>4, <1>5 DEF StepOK

-----------------------------------------------------------------------------

LEMMA ServiceInitial ==
  ASSUME Init
  PROVE  ServiceInv
<1>1. Range(commandMap) = {} /\ Range(requestQueue) = {} /\ Range(commandQueue) = {} /\ Slots = {}
  BY DEF Init, Range, Slots
<1>2. MapOK(commandMap)
  <2>1. commandMap \in Seq(Entries) /\ Len(commandMap) = 0
    BY EmptySeq DEF Init
  <2>2. 0 <= NumberOfParallelCommands
    BY ServiceAssumption
  <2>3. QED
    BY <1>1, <2>1, <2>2 DEF MapOK, Slots
<1>3. Types
  <2>1. requestQueue \in Seq(TCs) /\ commandQueue \in Seq(Messages)
    BY EmptySeq DEF Init
  <2>2. reports \in [TCs -> Seq(ReportIds)]
    BY EmptySeq DEF Init
  <2>3. working \in [Queues -> SUBSET TCs] /\ mixedUp \subseteq TCs \X TCs /\ tcStore \subseteq TCs
    BY DEF Init
  <2>4. phase \in Phases /\ slot \in 1..(NumberOfParallelCommands + 1)
    BY ServiceAssumption DEF Init, Phases
  <2>5. objectOf \in [TCs -> Objects] /\ unreadable \subseteq TCs
    BY ServiceAssumption DEF Init
  <2>6. QED
    BY <2>1, <2>2, <2>3, <2>4, <2>5 DEF Types
<1>4. StoreOK
  <2>1. IsInjective(requestQueue) /\ tcStore = {}
    BY DEF Init, IsInjective
  <2>2. QED
    BY <1>1, <2>1 DEF StoreOK
<1>5. \A t \in TCs : LifeOK(t)
  <2>1. \A t \in TCs : reports[t] = <<>> /\ ~Active(t)
    BY <1>1 DEF Init, Active
  <2>2. QED
    BY <2>1, ShortStories DEF LifeOK
<1>6. SentOK /\ MixedOK /\ VisitedOK
  BY <1>1 DEF Init, SentOK, MixedOK, VisitedOK
<1>7. QED
  BY <1>2, <1>3, <1>4, <1>5, <1>6 DEF ServiceInv

LEMMA ServiceNext ==
  ASSUME ServiceInv, [Next]_vars
  PROVE  ServiceInv'
<1>1. CASE UNCHANGED vars
  BY <1>1 DEF vars, serviceVars, taskVars, inputs, ServiceInv, MapOK, EntryOK, QueueOfTC, Types, StoreOK, LifeOK,
              Active, Slots, Undisturbed, SentOK, Begun, Finished, MixedOK, VisitedOK
<1>2. CASE Next
  <2>1. UNCHANGED inputs /\ Operation
    BY <1>2 DEF Next
  <2>2. CASE handleCommandMessage
    BY <2>1, <2>2, UnrequestedReplyKeeps, StepReplyKeeps, EndReplyKeeps, StepKeepsInv DEF handleCommandMessage
  <2>3. CASE handleRequest
    <3>1. CASE \E id \in {"INVALID_TC", "START_FAILURE"} : RejectRequest(id)
      BY <2>1, <3>1, RejectRequestKeeps, StepKeepsInv
    <3>2. CASE QueueRequest \/ StartRequest
      BY <2>1, <3>2, QueueRequestKeeps, StartRequestKeeps, StepKeepsInv
    <3>3. QED
      BY <2>3, <3>1, <3>2 DEF handleRequest, BusyRequest
  <2>4. CASE CommandQueueEmpty \/ RequestQueueEmpty \/ InTime \/ AllVisited
    BY <2>1, <2>4, PhasesKeep, StepKeepsInv
  <2>5. CASE TimedOut
    BY <2>1, <2>5, TimedOutKeeps, StepKeepsInv
  <2>6. ASSUME NEW t \in TCs, SubmitTC(t)
        PROVE  ServiceInv'
    BY <2>1, <2>6, SubmitKeeps, StepKeepsInv
  <2>7. ASSUME NEW q \in Queues, NEW t \in working[q], IntermediateReply(q, t) \/ LastReply(q, t)
        PROVE  ServiceInv'
    BY <2>1, <2>7, RepliesKeep, StepKeepsInv
  <2>8. ASSUME NEW k \in Slots, TimePasses(k)
        PROVE  ServiceInv'
    BY <2>1, <2>8, TimePassesKeeps, StepKeepsInv
  <2>9. QED
    BY <2>1, <2>2, <2>3, <2>4, <2>5, <2>6, <2>7, <2>8 DEF Operation, performOperation
<1>3. QED
  BY <1>1, <1>2

LEMMA ServiceInvariant == Spec => []ServiceInv
BY ServiceInitial, ServiceNext, PTL DEF Spec

-----------------------------------------------------------------------------
(* Whom tcReader points to, and who is reported on in place of a lost one *)

ReaderOK ==
    /\ tcReader \in TCs \cup {NoTC}
    /\ \A pair \in blamed : unreadable # {} /\ pair[2] = <<>>

\* A step blames at most one telecommand, one that still waits, for a lost one.
BlamesOneThatWaits ==
    /\ tcReader' \in TCs \cup {NoTC}
    /\ \/ blamed' = blamed
       \/ unreadable # {} /\ \E t \in tcStore' : blamed' = blamed \cup {<<t, reports'[t]>>}

LEMMA ExecuteBlames ==
  ASSUME tcReader \in TCs \cup {NoTC}, NEW map, NEW k, NEW waiting, NEW lost, lost \subseteq unreadable,
         NEW reported, Execute(map, k, waiting, lost, reported)
  PROVE  BlamesOneThatWaits
<1>1. CASE RunOut(map, k, waiting, lost, reported)
  BY <1>1 DEF RunOut, BlamesOneThatWaits
<1>2. ASSUME NEW n \in DOMAIN waiting, StartActive(map, k, waiting, n, lost, reported)
      PROVE  BlamesOneThatWaits
  BY <1>2 DEF StartActive, BlamesOneThatWaits
<1>3. ASSUME NEW n \in DOMAIN waiting, SkipLost(map, k, waiting, n, lost, reported)
      PROVE  BlamesOneThatWaits
  <2>1. unreadable # {}
    BY <1>3 DEF SkipLost
  <2>2. tcReader' \in TCs \cup {NoTC} /\ (tcReader' # NoTC => tcReader' \in tcStore')
    BY <1>3 DEF SkipLost
  <2>3. Blame \/ blamed' = blamed
    BY <1>3 DEF SkipLost
  <2>4. CASE Blame
    BY <2>1, <2>2, <2>4 DEF Blame, BlamesOneThatWaits
  <2>5. QED
    BY <2>2, <2>3, <2>4 DEF BlamesOneThatWaits
<1>4. QED
  BY <1>1, <1>2, <1>3 DEF Execute

LEMMA NextBlames ==
  ASSUME ServiceInv, tcReader \in TCs \cup {NoTC}, [Next]_vars
  PROVE  BlamesOneThatWaits
<1>1. CASE UNCHANGED readerVars
  BY <1>1 DEF readerVars, BlamesOneThatWaits
<1>2. ASSUME NEW k, NEW reported, checkAndExecuteFifo(k, reported)
      PROVE  BlamesOneThatWaits
  BY <1>2, ExecuteBlames DEF checkAndExecuteFifo
<1>3. CASE StartRequest
  BY <1>3, ExecuteBlames DEF StartRequest, startExecution
<1>4. ASSUME NEW id, RejectRequest(id)
      PROVE  BlamesOneThatWaits
  BY <1>4 DEF RejectRequest, BlamesOneThatWaits
<1>5. CASE QueueRequest
  <2>1. requestQueue \in Seq(TCs) /\ requestQueue # <<>>
    BY <1>5 DEF ServiceInv, Types, QueueRequest, ReceiveRequest
  <2>2. Head(requestQueue) \in TCs
    BY <2>1, HeadTailProperties
  <2>3. QED
    BY <1>5, <2>2 DEF QueueRequest, BlamesOneThatWaits
<1>6. \/ UNCHANGED readerVars
      \/ StartRequest \/ QueueRequest
      \/ \E id : RejectRequest(id)
      \/ \E k, reported : checkAndExecuteFifo(k, reported)
  BY DEF Next, vars, serviceVars, Operation, performOperation, handleCommandMessage, UnrequestedReply,
         StepReply, EndReply, CommandQueueEmpty, handleRequest, BusyRequest, RequestQueueEmpty, InTime,
         TimedOut, AllVisited, SubmitTC, IntermediateReply, LastReply, SendReply, TimePasses
<1>7. QED
  BY <1>1, <1>2, <1>3, <1>4, <1>5, <1>6

LEMMA ReaderKeeps ==
  ASSUME ServiceInv, ServiceInv', ReaderOK, [Next]_vars
  PROVE  ReaderOK'
<1>1. BlamesOneThatWaits
  BY NextBlames DEF ReaderOK
<1>2. \A t \in tcStore' : reports'[t] = <<>>
  BY DEF ServiceInv, Types, LifeOK
<1>3. unreadable' = unreadable
  BY DEF Next, vars, inputs
<1>4. QED
  BY <1>1, <1>2, <1>3 DEF ReaderOK, BlamesOneThatWaits

LEMMA ReaderInvariant == Spec => []ReaderOK
<1>1. Init => ReaderOK
  BY DEF Init, ReaderOK
<1>2. QED
  BY <1>1, ReaderKeeps, ServiceInvariant, PTL DEF Spec

\* The state of the service is well-typed: the map and the fifos never exceed
\* their fixed sizes, and checkTimeout stays in the map.
THEOREM ServiceTypeCorrect == Spec => []TypeOK
<1>1. ServiceInv /\ ReaderOK => TypeOK
  <2>1. ASSUME ServiceInv
        PROVE  \A k \in Slots : Len(commandMap[k].fifo) <= FifoDepth
    BY <2>1 DEF ServiceInv, MapOK, EntryOK, Slots
  <2>2. QED
    BY <2>1 DEF ServiceInv, MapOK, Types, TypeOK, ReaderOK
<1>2. QED
  BY <1>1, ServiceInvariant, ReaderInvariant, PTL

\* For any number of telecommands, the reports on one tell one story, whatever
\* replies come late and whatever times out (sendSuccessReport and
\* sendFailureReport of the verification reporter, and when they are called),
\* unless the store has lost one for the same object; and the failure of a lost
\* one, which rejectPacket reports with the fields in tcReader, is heard only of
\* telecommands of which nothing has been reported yet.
THEOREM ReportsAlwaysTellOneStory == Spec => []ReportsTellOneStory
<1>1. ServiceInv /\ ReaderOK => ReportsTellOneStory
  <2>1. ASSUME ServiceInv, NEW t \in TCs, Undisturbed(t)
        PROVE  Story(reports[t])
    BY <2>1 DEF ServiceInv, LifeOK
  <2>2. QED
    BY <2>1 DEF ReportsTellOneStory, Story, ReaderOK
<1>2. QED
  BY <1>1, ServiceInvariant, ReaderInvariant, PTL

\* For any number of telecommands and entries, the TC store holds a
\* telecommand exactly while it waits in one place to be started.
THEOREM StoreAlwaysMatches == Spec => []StoreMatchesQueues
<1>1. ASSUME ServiceInv
      PROVE  StoreMatchesQueues
  <2>1. MapOK(commandMap) /\ StoreOK /\ tcStore \subseteq TCs /\ requestQueue \in Seq(TCs)
    BY <1>1 DEF ServiceInv, Types
  <2>2. \A k \in Slots : /\ EntryOK(commandMap[k]) /\ commandMap[k] \in Range(commandMap)
                         /\ \A t \in Waiting(k) : t \in TCs /\ QueueOfTC(t) = commandMap[k].queue
    <3>1. ASSUME NEW k \in Slots
          PROVE  /\ EntryOK(commandMap[k]) /\ commandMap[k] \in Range(commandMap)
                 /\ \A t \in Waiting(k) : t \in TCs /\ QueueOfTC(t) = commandMap[k].queue
      <4>1. EntryOK(commandMap[k]) /\ commandMap[k] \in Range(commandMap)
        BY <2>1 DEF MapOK, Slots, Range
      <4>2. commandMap[k].fifo \in Seq(TCs)
        BY <4>1 DEF EntryOK, Entries
      <4>3. \A t \in Waiting(k) : t \in TCs
        BY <4>2, InSequence DEF Waiting
      <4>4. QED
        BY <4>1, <4>3 DEF Waiting, EntryOK
    <3>2. QED
      BY <3>1
  <2>3. tcStore = Range(requestQueue) \cup UNION { Waiting(k) : k \in Slots }
    <3>1. Range(requestQueue) \subseteq TCs
      BY <2>1, InSequence
    <3>2. \A t : (\E e \in Range(commandMap) : t \in Range(e.fifo)) <=> \E k \in Slots : t \in Waiting(k)
      BY DEF Range, Slots, Waiting
    <3>3. \A t \in TCs : t \in tcStore <=> t \in Range(requestQueue) \/ \E k \in Slots : t \in Waiting(k)
      BY <2>1, <3>2 DEF StoreOK
    <3>4. QED
      BY <2>1, <2>2, <3>1, <3>3
  <2>4. ASSUME NEW k \in Slots
        PROVE  /\ IsInjective(commandMap[k].fifo) /\ Waiting(k) \cap Range(requestQueue) = {}
               /\ \A j \in Slots \ {k} : Waiting(j) \cap Waiting(k) = {}
    <3>1. IsInjective(commandMap[k].fifo)
      BY <2>2 DEF EntryOK
    <3>2. Waiting(k) \cap Range(requestQueue) = {}
      BY <2>1, <2>2 DEF StoreOK, Waiting
    <3>3. \A j \in Slots \ {k} : commandMap[j].queue # commandMap[k].queue
      BY <2>1 DEF MapOK, Slots
    <3>4. QED
      BY <2>2, <3>1, <3>2, <3>3
  <2>5. IsInjective(requestQueue)
    BY <2>1 DEF StoreOK
  <2>6. QED
    BY <2>3, <2>4, <2>5 DEF StoreMatchesQueues
<1>2. QED
  BY <1>1, ServiceInvariant, PTL

\* For any number of objects, telecommands and replies, a reply ends another
\* command than its own only if its own had been ended before (handleCommandQueue).
THEOREM MixUpsOnlyByLateReplies == Spec => []OnlyLateRepliesMixUp
<1>1. ServiceInv => OnlyLateRepliesMixUp
  BY DEF ServiceInv, MixedOK, Begun, OnlyLateRepliesMixUp
<1>2. QED
  BY <1>1, ServiceInvariant, PTL

\* For a map of any size, a pass of checkTimeout deals with every overdue entry,
\* although erase moves entries under its iterator.
THEOREM TimeoutPassesComplete == Spec => TimeoutPassComplete
<1>1. ASSUME ServiceInv, [Next]_vars
      PROVE  TimeoutPassStep
  <2>1. CASE ~(phase = "checkTimeout" /\ phase' # "checkTimeout")
    BY <2>1 DEF TimeoutPassStep
  <2>2. CASE phase = "checkTimeout" /\ phase' # "checkTimeout"
    <3>1. AllVisited
      BY <1>1, <2>2 DEF Next, vars, taskVars, serviceVars, Operation, performOperation, handleCommandMessage, UnrequestedReply,
         StepReply, EndReply, ReceiveReply, CommandQueueEmpty, handleRequest, RejectRequest, QueueRequest,
         BusyRequest, StartRequest, ReceiveRequest, RequestQueueEmpty, InTime, TimedOut, SubmitTC,
         IntermediateReply, LastReply, SendReply, TimePasses
    <3>2. slot \notin Slots /\ slot \in 1..(NumberOfParallelCommands + 1) /\ NumberOfParallelCommands \in Nat
      BY <1>1, <3>1, ServiceAssumption DEF AllVisited, ServiceInv, Types
    <3>3. Slots = 1..Len(commandMap) /\ Len(commandMap) \in Nat
      BY <1>1, LenProperties DEF ServiceInv, MapOK, Slots
    <3>4. \A k \in Slots : k < slot
      BY <3>2, <3>3
    <3>5. QED
      BY <1>1, <2>2, <3>4 DEF ServiceInv, VisitedOK, TimeoutPassStep
  <2>3. QED
    BY <2>1, <2>2
<1>2. QED
  BY <1>1, ServiceInvariant, PTL DEF Spec, TimeoutPassComplete

=============================================================================
