------------------------------ MODULE Scheduling ------------------------------
(***************************************************************************)
(* Service11TelecommandScheduling: telecommands wait in the TC store, and  *)
(* in a multimap ordered by release time, until they are due; they can be  *)
(* deleted and shifted one by one or by a time window.                     *)
(*                                                                         *)
(* The multimap is a sequence, its iterators are positions.  Times are     *)
(* unsigned integers that wrap at TimeRange (2^32 in the code), and a      *)
(* shift back is a shift forward past the wrap.  The clock is a signed     *)
(* time_t wide enough for all of them.  performOperation is any number of  *)
(* requests (up to ten) followed by performService.                        *)
(***************************************************************************)
EXTENDS Integers, Sequences, FiniteSets, SequencesExt

CONSTANTS
    Activities,         \* the inserted telecommands, which are also their store addresses
    requestId,          \* of the packet that inserts it; need not be unique
    MAX_NUM_TCS, StoreSize, QueueDepth,
    RELEASE_TIME_MARGIN_SECONDS,
    TimeRange, MaxTime, \* modulus of the times; bound of the clock
    Shifts, Tags        \* the relative times and the time tags the ground sends

ASSUME SchedulingAssumption ==
    /\ IsFiniteSet(Activities) /\ requestId \in [Activities -> Nat]
    /\ MAX_NUM_TCS \in Nat \ {0} /\ StoreSize \in Nat \ {0} /\ QueueDepth \in Nat \ {0}
    /\ RELEASE_TIME_MARGIN_SECONDS \in Nat
    /\ TimeRange \in Nat \ {0} /\ MaxTime \in 0..(TimeRange - 1) 
    /\ Shifts \cup Tags \subseteq 0..(TimeRange - 1)

VARIABLES
    schedulingEnabled,
    telecommandMap,     \* sequence of [time, tc]
    tcStore,            \* packets in the store
    queue,              \* request queue of the recipient
    clock,
    fate, due,          \* what the ground has been told of a TC; when it wants one that is scheduled
    strayed             \* TCs a filter has shifted or removed otherwise than it was asked to

mapVars == <<telecommandMap, tcStore, fate, due, strayed>>
vars == <<mapVars, schedulingEnabled, queue, clock>>

Times == 0..(TimeRange - 1)
Fates == {"NEW", "REFUSED", "SCHEDULED", "DELETED", "RELEASED"}

Init ==
    /\ schedulingEnabled = FALSE /\ telecommandMap = <<>> /\ tcStore = {} /\ queue = <<>>
    /\ clock = 0 /\ strayed = {}
    /\ fate = [a \in Activities |-> "NEW"] /\ due = [a \in Activities |-> 0]

Entries(s) == { s[i].tc : i \in 1..Len(s) }
Scheduled == Entries(telecommandMap)

\* The first position from b on with a time above t; past the end if there is none.
FirstAbove(s, b, t) ==
    CHOOSE i \in b..(Len(s) + 1) : /\ i <= Len(s) => s[i].time > t
                                  /\ \A j \in b..(i - 1) : s[j].time <= t

\* etl::multimap::insert puts an entry behind those with the same key.
Inserted(s, e) == InsertAt(s, FirstAbove(s, 1, e.time), e)

\* These TCs have come to their end.
End(as, f) ==
    /\ fate' = [a \in Activities |-> IF a \in as THEN f ELSE fate[a]]
    /\ due' = [a \in Activities |-> IF a \in as THEN 0 ELSE due[a]]

-----------------------------------------------------------------------------
(* handleRequest *)

\* ENABLE_SCHEDULING, DISABLE_SCHEDULING
Enable(on) ==
    /\ schedulingEnabled' = on
    /\ UNCHANGED <<mapVars, queue, clock>>

\* Slip: the packets stay in the store.
SlipResetCommand ==
    /\ telecommandMap # <<>> /\ telecommandMap' = <<>>
    /\ End(Scheduled, "DELETED")
    /\ UNCHANGED <<schedulingEnabled, queue, clock, strayed, tcStore>>

\* RESET_SCHEDULING
handleResetCommand ==
    /\ telecommandMap # <<>>
    /\ tcStore' = tcStore \ Scheduled
    /\ telecommandMap' = <<>>
    /\ End(Scheduled, "DELETED")
    /\ UNCHANGED <<schedulingEnabled, queue, clock, strayed>>

\* INSERT_ACTIVITY is refused: too late, damaged, or the store is full.
Refuse(a) ==
    /\ fate' = [fate EXCEPT ![a] = "REFUSED"]
    /\ UNCHANGED <<telecommandMap, due>>

doInsertActivity(a, t) ==
    /\ fate[a] = "NEW"
    /\ \/ Refuse(a) /\ UNCHANGED tcStore
       \/ /\ t - clock > RELEASE_TIME_MARGIN_SECONDS /\ Cardinality(tcStore) < StoreSize
          /\ tcStore' = tcStore \cup {a}
          /\ \/ /\ Len(telecommandMap) = MAX_NUM_TCS     \* the packet stays in the store
                /\ Refuse(a)
             \/ /\ Len(telecommandMap) < MAX_NUM_TCS
                /\ telecommandMap' = Inserted(telecommandMap, [time |-> t, tc |-> a])
                /\ fate' = [fate EXCEPT ![a] = "SCHEDULED"]
                /\ due' = [due EXCEPT ![a] = t]
    /\ UNCHANGED <<schedulingEnabled, queue, clock, strayed>>

\* A request is carried out if exactly one entry has its request id.
Found(id) == { i \in DOMAIN telecommandMap : requestId[telecommandMap[i].tc] = id }

\* DELETE_ACTIVITY
doDeleteActivity(id) ==
    /\ Cardinality(Found(id)) = 1
    /\ \E i \in Found(id) :
          LET a == telecommandMap[i].tc IN
          /\ tcStore' = tcStore \ {a}
          /\ telecommandMap' = RemoveAt(telecommandMap, i)
          /\ End({a}, "DELETED")
    /\ UNCHANGED <<schedulingEnabled, queue, clock, strayed>>

Shift(t, r) == (t + r) % TimeRange

\* Slip: the entry at the old time is left in place.
SlipTimeshiftActivity(id, r) ==
    /\ r # 0 /\ Cardinality(Found(id)) = 1
    /\ \E i \in Found(id) :
          LET e == telecommandMap[i] IN
          /\ telecommandMap' = Inserted(telecommandMap, [e EXCEPT !.time = Shift(@, r)])
          /\ due' = [due EXCEPT ![e.tc] = Shift(@, r)]
    /\ UNCHANGED <<schedulingEnabled, queue, clock, tcStore, fate, strayed>>

\* TIMESHIFT_ACTIVITY
doTimeshiftActivity(id, r) ==
    /\ r # 0 /\ Cardinality(Found(id)) = 1
    /\ \E i \in Found(id) :
          LET e == telecommandMap[i] IN
          /\ telecommandMap' = Inserted(RemoveAt(telecommandMap, i), [e EXCEPT !.time = Shift(@, r)])
          /\ due' = [due EXCEPT ![e.tc] = Shift(@, r)]
    /\ UNCHANGED <<schedulingEnabled, queue, clock, tcStore, fate, strayed>>

-----------------------------------------------------------------------------
(* Filters *)

\* getMapFilterFromData: the positions [begin, end) of the window.  (The loops
\* that step the iterators on look at the key before they compare with end().)
Windows ==
    [type : {"SELECT_ALL"}] \cup [type : {"FROM_TIMETAG"}, from : Tags] \cup [type : {"TO_TIMETAG"}, to : Tags]
      \cup { w \in [type : {"FROM_TIMETAG_TO_TIMETAG"}, from : Tags, to : Tags] : w.from <= w.to }

getMapFilter(w) ==
    LET begin == IF w.type \in {"FROM_TIMETAG", "FROM_TIMETAG_TO_TIMETAG"}
                 THEN FirstAbove(telecommandMap, 1, w.from - 1) ELSE 1
        end == IF w.type \in {"TO_TIMETAG", "FROM_TIMETAG_TO_TIMETAG"}
               THEN FirstAbove(telecommandMap, begin, w.to) ELSE Len(telecommandMap) + 1
    IN  [begin |-> begin, end |-> end]

Before(f) == SubSeq(telecommandMap, 1, f.begin - 1)
Selected(f) == SubSeq(telecommandMap, f.begin, f.end - 1)
Behind(f) == SubSeq(telecommandMap, f.end, Len(telecommandMap))

\* FILTER_DELETE_ACTIVITY.  The packets in the window go, and from the map
\* one entry more, if there is one behind.
doFilterDeleteActivity(w) ==
    LET f == getMapFilter(w)
        gone == Entries(Selected(f))
        kept == IF Behind(f) = <<>> THEN <<>> ELSE Tail(Behind(f))
    IN
    /\ telecommandMap # <<>>
    /\ tcStore' = tcStore \ gone
    /\ telecommandMap' = Before(f) \o kept
    /\ End(gone, "DELETED")
    /\ strayed' = strayed \cup (Scheduled \ (gone \cup Entries(telecommandMap')))
    /\ UNCHANGED <<schedulingEnabled, queue, clock>>

\* One turn of the loop: the entry at the iterator is erased, the iterator
\* steps on, and the shifted entry goes where its new time belongs, which may
\* be in front of the iterator or between it and the end of the window.
ShiftOne(p, r) ==
    LET e == [Head(p.rest) EXCEPT !.time = Shift(@, r)]
        rest == Tail(p.rest)
        NotBefore(s) == s # <<>> /\ e.time >= Head(s).time
    IN  CASE NotBefore(p.behind) ->
               [before |-> p.before, rest |-> rest, behind |-> Inserted(p.behind, e)]
          [] ~NotBefore(p.behind) /\ NotBefore(rest) ->
               [before |-> p.before, rest |-> Inserted(rest, e), behind |-> p.behind]
          [] OTHER ->
               [before |-> Inserted(p.before, e), rest |-> rest, behind |-> p.behind]

\* The loop ends: an entry is visited again only until its time wraps.
ShiftAll(f, r) ==
    LET turns == MAX_NUM_TCS * TimeRange
        after[n \in 0..turns] ==
            IF n = 0 THEN [before |-> Before(f), rest |-> Selected(f), behind |-> Behind(f)]
            ELSE LET p == after[n - 1] IN IF p.rest = <<>> THEN p ELSE ShiftOne(p, r)
        done == after[turns]
    IN  done.before \o done.behind

\* FILTER_TIMESHIFT_ACTIVITY
doFilterTimeshiftActivity(w, r) ==
    LET f == getMapFilter(w) IN
    /\ r # 0 /\ Selected(f) # <<>>
    /\ telecommandMap' = ShiftAll(f, r)
    /\ due' = [a \in Activities |-> IF a \in Entries(Selected(f)) THEN Shift(due[a], r) ELSE due[a]]
    /\ strayed' = strayed \cup { a \in Scheduled : \E i \in DOMAIN telecommandMap' :
                                     telecommandMap'[i].tc = a /\ telecommandMap'[i].time # due'[a] }
    /\ UNCHANGED <<schedulingEnabled, queue, clock, tcStore, fate>>

-----------------------------------------------------------------------------
(* Release *)

\* Slip: the margin for insertions is applied to releases.
SlipIsDue(e) == e.time <= clock + RELEASE_TIME_MARGIN_SECONDS

IsDue(e) == e.time <= clock

\* The entries are in the order of their times, so the due ones come first.
DueEntries ==
    CHOOSE n \in 0..Len(telecommandMap) : /\ n < Len(telecommandMap) => ~IsDue(telecommandMap[n + 1])
                                         /\ \A i \in 1..n : IsDue(telecommandMap[i])

\* Slip: nothing is released unless there is room for all.
SlipReleasable == IF DueEntries <= QueueDepth - Len(queue) THEN DueEntries ELSE 0

\* The loop returns when the recipient's queue is full.
Releasable == Min({DueEntries, QueueDepth - Len(queue)})

performService ==
    LET n == Releasable
        released == SubSeq(telecommandMap, 1, n)
    IN
    /\ schedulingEnabled /\ n > 0
    /\ telecommandMap' = SubSeq(telecommandMap, n + 1, Len(telecommandMap))
    /\ queue' = queue \o [i \in 1..n |-> released[i].tc]
    /\ End(Entries(released), "RELEASED")
    /\ UNCHANGED <<schedulingEnabled, clock, tcStore, strayed>>

\* The recipient carries the telecommand out and frees its packet.
RecipientTakes ==
    /\ queue # <<>> /\ queue' = Tail(queue)
    /\ tcStore' = tcStore \ {Head(queue)}
    /\ UNCHANGED <<schedulingEnabled, telecommandMap, clock, fate, due, strayed>>

TimePasses ==
    /\ clock < MaxTime /\ clock' = clock + 1
    /\ UNCHANGED <<mapVars, schedulingEnabled, queue>>

-----------------------------------------------------------------------------

Request ==
    \/ \E on \in BOOLEAN : Enable(on)
    \/ handleResetCommand
    \/ \E a \in Activities, t \in Times : doInsertActivity(a, t)
    \/ \E a \in Activities : doDeleteActivity(requestId[a])
    \/ \E a \in Activities, r \in Shifts : doTimeshiftActivity(requestId[a], r)
    \/ \E w \in Windows : doFilterDeleteActivity(w)
    \/ \E w \in Windows, r \in Shifts : doFilterTimeshiftActivity(w, r)

Next == Request \/ performService \/ RecipientTakes \/ TimePasses

Spec == Init /\ [][Next]_vars

\* The tasks of the service and of the recipient run periodically.
FairSpec == Spec /\ WF_vars(performService) /\ WF_vars(RecipientTakes)

-----------------------------------------------------------------------------
(* Properties *)

TypeOK ==
    /\ schedulingEnabled \in BOOLEAN
    /\ telecommandMap \in Seq([time : Times, tc : Activities]) /\ Len(telecommandMap) <= MAX_NUM_TCS
    /\ tcStore \subseteq Activities /\ Cardinality(tcStore) <= StoreSize
    /\ queue \in Seq(Activities) /\ Len(queue) <= QueueDepth
    /\ clock \in 0..MaxTime /\ strayed \subseteq Activities
    /\ fate \in [Activities -> Fates] /\ due \in [Activities -> Times]

\* The map holds what the ground believes to be scheduled, each TC once and at
\* the time it was inserted for and shifted to, but for those that a filter
\* has mistreated (doFilterDeleteActivity, doFilterTimeshiftActivity).
ScheduleIsAsAsked ==
    /\ Cardinality(Scheduled) = Len(telecommandMap)
    /\ { <<e.tc, e.time>> : e \in { f \in Range(telecommandMap) : f.tc \notin strayed } }
         = { <<a, due[a]>> : a \in { b \in Activities : fate[b] = "SCHEDULED" } \ strayed }

\* A TC that is scheduled or handed over has its packet in the store, so that
\* deleteData does not fail ("This should not happen"), and any other packet
\* left there is of a TC that found the map full or was lost by a filter.
StoreMatchesSchedule ==
    LET needed == Scheduled \cup Range(queue) IN
    /\ needed \subseteq tcStore
    /\ tcStore \ needed \subseteq { a \in Activities : fate[a] = "REFUSED" } \cup strayed

\* A TC is released once, while scheduling is enabled, not before the ground
\* wants it nor after it was deleted, and no other that is due earlier is left
\* behind (performService).
ReleasedInTime ==
    [][\A a \in Activities : fate'[a] = "RELEASED" /\ fate[a] # "RELEASED" =>
          /\ schedulingEnabled /\ fate[a] = "SCHEDULED"
          /\ a \in strayed \/ due[a] <= clock
          /\ \A b \in Activities \ strayed : fate'[b] = "SCHEDULED" /\ a \notin strayed => due[a] <= due'[b]]_vars

\* When scheduling stays enabled, a TC that is due leaves the map, whatever is
\* inserted and shifted before it and however often the queue is full.
DueIsReleased ==
    <>[]schedulingEnabled =>
        \A a \in Activities : (\E e \in Range(telecommandMap) : e.tc = a /\ IsDue(e)) ~>
                              ~\E e \in Range(telecommandMap) : e.tc = a /\ IsDue(e)

\* "References to telecommands are stored together with their due-timepoints
\* and are released at their corresponding due-time."
KeptUntilReleased == \A a \in Activities : fate[a] = "SCHEDULED" => a \in Scheduled

=============================================================================
