-------------------------- MODULE DashboardProofs --------------------------
(***************************************************************************)
(* Proofs about Dashboard: for every size of the ring and of the page's    *)
(* list that is not smaller, every number of polls at once and of messages *)
(* and failures, the alerts shown are not older than the telemetry beside  *)
(* them, the screen goes back in time only by an overtaken answer, and the *)
(* list holds no event twice and is in order until such an answer, or until*)
(* an event is taken for another.                                          *)
(***************************************************************************)
EXTENDS Dashboard, SequenceLemmas

PollType == [stage : {"idle", "telemetry", "events", "alerts", "answer"},
             telemetry : SampleType, events : Seq(EventType), alerts : SampleType,
             overtaken : BOOLEAN]
PageType == [live : {"none", "Live", "No data", "Connection error"},
             telemetry : SampleType, alerts : SampleType]

(* What the variables are made of.                                         *)
Shape ==
  /\ samples \in Nat /\ count \in Nat /\ samples + count <= MaxHappenings
  /\ incidents \in Nat
  /\ telemetry \in {NoSample, samples}
  /\ events \in Seq(EventType) /\ Len(events) <= RingSize
  /\ polls \in [Slots -> PollType] /\ page \in PageType
  /\ _eventsCache \in Seq(EventType) /\ Len(_eventsCache) <= CacheSize
  /\ late \in BOOLEAN /\ skipped \in BOOLEAN

(* What a poll has read so far: nothing before its first read, no alerts   *)
(* before its last; its alerts are not older than its sample, and its      *)
(* sample not older than the page's unless it has been overtaken.          *)
PollSound(poll) ==
  /\ poll.stage = "idle" => poll = NoPoll
  /\ poll.stage \in {"telemetry", "events"} => poll.events = <<>>
  /\ poll.stage = "telemetry" => poll.telemetry = NoSample
  /\ poll.stage # "answer" => poll.alerts = NoSample
  /\ poll.telemetry <= samples
  /\ poll.alerts = NoSample \/ poll.alerts >= poll.telemetry
  /\ poll.telemetry = NoSample \/ poll.overtaken \/ poll.telemetry >= page.telemetry
SamplesSound ==
  /\ \A s \in Slots : PollSound(polls[s])
  /\ page.telemetry <= samples
  /\ AlertsNotStale

(* A ring, or a copy of one, holds consecutive numbers.                    *)
Consecutive(list) ==
  /\ Len(list) <= RingSize
  /\ \A i, j \in DOMAIN list : list[j].no - list[i].no = j - i

(* The events that are anywhere.                                           *)
Known == UNION {ToSet(events), ToSet(_eventsCache),
                UNION {ToSet(polls[s].events) : s \in Slots}}
EventsSound ==
  /\ \A x \in Known : x.no <= count
  /\ events # <<>> => events[Len(events)].no = count
  /\ Consecutive(events)
  /\ \A s \in Slots : Consecutive(polls[s].events)

(* What the page does not list yet is newer than what it lists.            *)
Ahead(list) ==
  \A e \in ToSet(list) :
    e \in ToSet(_eventsCache) \/ \A c \in ToSet(_eventsCache) : c.no < e.no

(* What has come into the ring since a poll read it is newer than what the *)
(* poll brings and than what the page lists.                               *)
Overlaps(list) ==
  \A e \in ToSet(events) :
    e \in ToSet(list) \/ \A x \in ToSet(list) \cup ToSet(_eventsCache) : x.no < e.no

Fetched(poll) == poll.stage \in {"alerts", "answer"} /\ poll.telemetry # NoSample
OrderSound ==
  \/ late \/ skipped
  \/ /\ InOrder(_eventsCache) /\ Ahead(events)
     /\ \A s \in Slots : Fetched(polls[s]) /\ ~polls[s].overtaken
          => Ahead(polls[s].events) /\ Overlaps(polls[s].events)

IndInv == Shape /\ SamplesSound /\ EventsSound /\ IsInjective(_eventsCache) /\ OrderSound

-----------------------------------------------------------------------------
(* Lists of events.                                                        *)

(* Events are numbered, and so are their keys.                             *)
LEMMA EventFacts ==
  ASSUME NEW e \in EventType
  PROVE  e.no \in Nat /\ e.key \in Nat /\ e.no \in 1..MaxHappenings /\ e.key \in 1..MaxHappenings
  BY DashboardAssumption DEF EventType

(* slice(-size) leaves the last elements.                                  *)
LEMMA NewestFacts ==
  ASSUME NEW list \in Seq(EventType), NEW size \in Nat \ {0}
  PROVE  LET r == Newest(list, size)
             off == IF Len(list) > size THEN Len(list) - size ELSE 0
         IN  /\ r \in Seq(EventType) /\ Len(r) = Len(list) - off /\ Len(r) <= size
             /\ off \in Nat /\ \A i \in DOMAIN r : i + off \in DOMAIN list /\ r[i] = list[i + off]
             /\ ToSet(r) \subseteq ToSet(list)
<1>0. PICK off : off = IF Len(list) > size THEN Len(list) - size ELSE 0
  OBVIOUS
<1>1. /\ Len(list) \in Nat /\ DOMAIN list = 1..Len(list) /\ off \in Nat /\ off <= Len(list)
      /\ off + 1 \in Int /\ Len(list) \in Int
  BY <1>0
<1>2. PICK r : r = SubSeq(list, off + 1, Len(list)) /\ r = Newest(list, size)
  BY <1>0 DEF Newest
<1>3. \A i \in (off + 1)..Len(list) : list[i] \in EventType
  BY <1>1
<1>4. /\ r \in Seq(EventType)
      /\ Len(r) = IF off + 1 <= Len(list) THEN Len(list) - (off + 1) + 1 ELSE 0
      /\ \A i \in 1..(Len(list) - (off + 1) + 1) : r[i] = list[off + 1 + i - 1]
  BY <1>1, <1>2, <1>3, SubSeqProperties
<1>5. Len(list) - off <= size
  <2>1. CASE Len(list) > size
    <3>1. off = Len(list) - size
      BY <1>0, <2>1
    <3> QED
      BY <1>1, <3>1
  <2>2. CASE ~(Len(list) > size)
    BY <1>0, <1>1, <2>2
  <2> QED
    BY <2>1, <2>2
<1>6. Len(r) = Len(list) - off
  <2>1. CASE off + 1 <= Len(list)
    BY <1>1, <1>4, <2>1
  <2>2. CASE ~(off + 1 <= Len(list))
    <3>1. off \in Nat /\ Len(list) \in Nat /\ off <= Len(list)
      BY <1>1
    <3>2. off = Len(list)
      BY <2>2, <3>1
    <3> QED
      BY <1>4, <2>2, <3>1, <3>2
  <2> QED
    BY <2>1, <2>2
<1>7. \A i \in DOMAIN r : i + off \in DOMAIN list /\ r[i] = list[i + off]
  <2>1. ASSUME NEW i \in DOMAIN r PROVE i + off \in DOMAIN list /\ r[i] = list[i + off]
    <3>1. DOMAIN r = 1..Len(r)
      BY <1>4
    <3>2. i \in Nat /\ 1 <= i /\ i <= Len(list) - off
      BY <1>1, <1>6, <3>1
    <3>3. /\ off + 1 + i - 1 = i + off /\ i \in 1..(Len(list) - (off + 1) + 1)
          /\ i + off \in 1..Len(list)
      BY <1>1, <3>2
    <3> QED
      BY <1>1, <1>4, <3>3
  <2> QED
    BY <2>1
<1>8. ToSet(r) \subseteq ToSet(list)
  BY <1>7 DEF ToSet
<1> QED
  BY <1>0, <1>1, <1>2, <1>4, <1>5, <1>6, <1>7, <1>8

(* The events that the page does not list yet.                             *)
LEMMA FreshFacts ==
  ASSUME NEW list \in Seq(EventType)
  PROVE  /\ Fresh(list) \in Seq(EventType)
         /\ ToSet(Fresh(list)) = {e \in ToSet(list) : e.key \notin Keys(_eventsCache)}
<1> DEFINE S == {e \in EventType : e.key \notin Keys(_eventsCache)}
<1>1. S = EventType \cap S
  OBVIOUS
<1>2. Fresh(list) = Selected(list, S)
  BY DEF Fresh
<1> HIDE DEF S
<1>3. Fresh(list) \in Seq(S) /\ ToSet(Fresh(list)) = ToSet(list) \cap S
  BY <1>1, <1>2, SelectedHolds
<1>4. S \subseteq EventType /\ ToSet(list) \subseteq EventType
  BY DEF S, ToSet
<1>5. Fresh(list) \in Seq(EventType)
  BY <1>3, <1>4
<1> QED
  BY <1>3, <1>4, <1>5 DEF S

(* The list before it is shortened.                                        *)
Longer(list) == _eventsCache \o Fresh(list)

(* It is the page's list, then the new events.                             *)
LEMMA LongerFacts ==
  ASSUME NEW list \in Seq(EventType), _eventsCache \in Seq(EventType)
  PROVE  /\ Longer(list) \in Seq(EventType)
         /\ Len(Longer(list)) = Len(_eventsCache) + Len(Fresh(list))
         /\ Len(_eventsCache) \in Nat /\ Len(Fresh(list)) \in Nat
         /\ \A i \in DOMAIN _eventsCache :
              i \in DOMAIN Longer(list) /\ Longer(list)[i] = _eventsCache[i]
         /\ \A i \in DOMAIN Longer(list) : i \notin DOMAIN _eventsCache =>
              LET j == i - Len(_eventsCache)
              IN  j \in DOMAIN Fresh(list) /\ Longer(list)[i] = Fresh(list)[j]
         /\ ToSet(Longer(list)) = ToSet(_eventsCache) \cup ToSet(Fresh(list))
<1>1. PICK fresh : fresh = Fresh(list)
  OBVIOUS
<1>2. fresh \in Seq(EventType)
  BY <1>1, FreshFacts
<1>3. PICK all : all = _eventsCache \o fresh
  OBVIOUS
<1>4. /\ all \in Seq(EventType) /\ Len(all) = Len(_eventsCache) + Len(fresh)
      /\ Len(_eventsCache) \in Nat /\ Len(fresh) \in Nat
      /\ DOMAIN _eventsCache = 1..Len(_eventsCache) /\ DOMAIN fresh = 1..Len(fresh)
      /\ \A i \in 1..Len(_eventsCache) : all[i] = _eventsCache[i]
      /\ \A i \in 1..Len(fresh) : all[Len(_eventsCache) + i] = fresh[i]
  BY <1>2, <1>3, ConcatProperties
<1>5. DOMAIN all = 1..(Len(_eventsCache) + Len(fresh))
  BY <1>4
<1>6. \A i \in DOMAIN _eventsCache : i \in DOMAIN all /\ all[i] = _eventsCache[i]
  BY <1>4, <1>5
<1>7. ASSUME NEW i \in DOMAIN all, i \notin DOMAIN _eventsCache
      PROVE  LET j == i - Len(_eventsCache) IN j \in DOMAIN fresh /\ all[i] = fresh[j]
  <2>1. i - Len(_eventsCache) \in 1..Len(fresh)
    BY <1>4, <1>5, <1>7
  <2>2. Len(_eventsCache) + (i - Len(_eventsCache)) = i
    BY <1>4, <1>5, <1>7
  <2> QED
    BY <1>4, <2>1, <2>2
<1>8. \A i \in DOMAIN fresh : Len(_eventsCache) + i \in DOMAIN all
  BY <1>4, <1>5
<1>9. ToSet(all) = ToSet(_eventsCache) \cup ToSet(fresh)
  <2>1. ToSet(all) \subseteq ToSet(_eventsCache) \cup ToSet(fresh)
    BY <1>6, <1>7 DEF ToSet
  <2>2. ToSet(_eventsCache) \subseteq ToSet(all)
    BY <1>6 DEF ToSet
  <2>3. ToSet(fresh) \subseteq ToSet(all)
    BY <1>4, <1>8 DEF ToSet
  <2> QED
    BY <2>1, <2>2, <2>3
<1> QED
  BY <1>1, <1>3, <1>4, <1>6, <1>7, <1>9 DEF Longer

(* What updateEvents makes of the page's list.                             *)
LEMMA MergedFacts ==
  ASSUME NEW list \in Seq(EventType), _eventsCache \in Seq(EventType)
  PROVE  /\ Merged(list) \in Seq(EventType) /\ Len(Merged(list)) <= CacheSize
         /\ ToSet(Merged(list)) \subseteq ToSet(_eventsCache) \cup ToSet(Fresh(list))
         /\ ToSet(Fresh(list)) \subseteq ToSet(list)
<1>1. Longer(list) \in Seq(EventType) /\ Merged(list) = Newest(Longer(list), CacheSize)
  BY LongerFacts DEF Longer, Merged
<1> QED
  BY <1>1, DashboardAssumption, NewestFacts, LongerFacts, FreshFacts

(* The ring after an event.                                                *)
LEMMA RingFacts ==
  ASSUME events \in Seq(EventType), Len(events) <= RingSize, NEW e \in EventType
  PROVE  LET r == Cut(Append(events, e))
             off == IF Len(events) < RingSize THEN 0 ELSE 1
         IN  /\ r \in Seq(EventType) /\ Len(r) <= RingSize /\ Len(events) \in Nat
             /\ Len(r) = Len(events) + 1 - off /\ r[Len(r)] = e /\ r # <<>>
             /\ \A i \in 1..(Len(r) - 1) : i + off \in 1..Len(events) /\ r[i] = events[i + off]
             /\ ToSet(r) \subseteq ToSet(events) \cup {e}
<1>1. PICK longer : longer = Append(events, e)
  OBVIOUS
<1>2. /\ longer \in Seq(EventType) /\ Len(longer) = Len(events) + 1 /\ Len(events) \in Nat
      /\ \A i \in 1..Len(events) : longer[i] = events[i]
      /\ longer[Len(events) + 1] = e
      /\ ToSet(longer) = ToSet(events) \cup {e} /\ longer # <<>>
  BY <1>1, AppendProperties, AppendSet
<1>3. RingSize \in Nat \ {0}
  BY DashboardAssumption
<1>4. CASE Len(events) < RingSize
  <2>1. Cut(longer) = longer
    BY <1>2, <1>3, <1>4 DEF Cut
  <2> QED
    BY <1>1, <1>2, <1>3, <1>4, <2>1
<1>5. CASE ~(Len(events) < RingSize)
  <2>1. Len(events) = RingSize /\ Len(longer) > RingSize
    BY <1>2, <1>3, <1>5
  <2>2. PICK r : r = Tail(longer) /\ r = Cut(longer)
    BY <2>1 DEF Cut
  <2>3. /\ r \in Seq(EventType) /\ Len(r) = Len(events)
        /\ \A i \in 1..Len(events) : r[i] = longer[i + 1]
    BY <1>2, <2>2, HeadTailProperties
  <2>4. ToSet(r) \subseteq ToSet(longer)
    BY <1>2, <2>2, TailSet
  <2>5. r[Len(r)] = e /\ Len(r) # 0
    BY <1>2, <1>3, <2>1, <2>3
  <2>6. ASSUME NEW i \in 1..(Len(r) - 1)
        PROVE  i + 1 \in 1..Len(events) /\ r[i] = events[i + 1]
    BY <1>2, <2>3
  <2>7. r # <<>>
    BY <2>5
  <2>8. Len(r) <= RingSize /\ Len(r) = Len(events) + 1 - 1
    BY <1>2, <2>1, <2>3
  <2>9. /\ r \in Seq(EventType) /\ r = Cut(Append(events, e))
        /\ ToSet(r) \subseteq ToSet(events) \cup {e}
    BY <1>1, <1>2, <2>2, <2>3, <2>4
  <2> QED
    BY <1>2, <1>5, <2>5, <2>6, <2>7, <2>8, <2>9
<1> QED
  BY <1>4, <1>5

-----------------------------------------------------------------------------
(* What the steps do.                                                      *)

(* What becomes of a poll: it goes on, ends, or is overtaken.              *)
PollStep(p, q) ==
  \/ q = p \/ q = NoPoll
  \/ p.stage = "idle" /\ q = [p EXCEPT !.stage = "telemetry"]
  \/ p.stage = "telemetry" /\ q = [p EXCEPT !.stage = "events", !.telemetry = telemetry]
  \/ p.stage = "events" /\ q = [p EXCEPT !.stage = "alerts", !.events = events]
  \/ p.stage = "alerts" /\ q = [p EXCEPT !.stage = "answer", !.alerts = telemetry]
  \/ p.stage \in {"telemetry", "events", "alerts"} /\ q = WithoutRequest(p)
  \/ p.stage # "idle" /\ q = [p EXCEPT !.overtaken = TRUE]

(* A poll that is nothing yet, and one that has taken a step, are polls.   *)
LEMMA PollTypes ==
  ASSUME Shape
  PROVE  /\ NoPoll \in PollType
         /\ \A p \in PollType : \A q : PollStep(p, q) => q \in PollType
<1>1. /\ <<>> \in Seq(EventType) /\ NoSample \in SampleType
      /\ telemetry \in SampleType /\ events \in Seq(EventType)
  BY DashboardAssumption, EmptySeq DEF NoSample, SampleType, Shape
<1>2. NoPoll \in PollType
  BY <1>1 DEF NoPoll, PollType
<1>3. ASSUME NEW p \in PollType, NEW q, PollStep(p, q) PROVE q \in PollType
  <2>1. WithoutRequest(p) \in PollType
    BY <1>1 DEF WithoutRequest, PollType
  <2>2. /\ [p EXCEPT !.stage = "telemetry"] \in PollType
        /\ [p EXCEPT !.stage = "events", !.telemetry = telemetry] \in PollType
        /\ [p EXCEPT !.stage = "alerts", !.events = events] \in PollType
        /\ [p EXCEPT !.stage = "answer", !.alerts = telemetry] \in PollType
        /\ [p EXCEPT !.overtaken = TRUE] \in PollType
    BY <1>1 DEF PollType
  <2> QED
    BY <1>2, <1>3, <2>1, <2>2 DEF PollStep
<1> QED
  BY <1>2, <1>3

(* A step takes each poll one step, and shows another sample only when it  *)
(* ends the poll or the poll is overtaken.                                 *)
PollsStep ==
  /\ polls' \in [Slots -> PollType]
  /\ \A s \in Slots : /\ PollStep(polls[s], polls'[s])
                      /\ \/ page'.telemetry = page.telemetry
                         \/ polls'[s].overtaken \/ polls'[s] = NoPoll

(* One poll moves.                                                         *)
LEMMA OnePoll ==
  ASSUME Shape, NEW s \in Slots, NEW q, polls' = [polls EXCEPT ![s] = q],
         PollStep(polls[s], q), page'.telemetry = page.telemetry
  PROVE  PollsStep
<1>1. polls \in [Slots -> PollType] /\ q \in PollType
  BY PollTypes DEF Shape
<1>2. \A o \in Slots : PollStep(polls[o], polls'[o])
  BY <1>1 DEF PollStep
<1> QED
  BY <1>1, <1>2 DEF PollsStep

(* Every step takes each poll one step.                                    *)
LEMMA PollSteps == Shape /\ [Next]_vars => PollsStep
<1> SUFFICES ASSUME Shape, [Next]_vars PROVE PollsStep
  OBVIOUS
<1>1. polls \in [Slots -> PollType] /\ page \in PageType
  BY DEF Shape
<1>2. ASSUME polls' = polls, page' = page PROVE PollsStep
  BY <1>1, <1>2 DEF PollsStep, PollStep
<1>3. CASE RestartBackend
  <2>1. /\ polls' = [s \in Slots |-> IF polls[s].stage = "events" THEN WithoutRequest(polls[s])
                                     ELSE polls[s]]
        /\ page' = page
    BY <1>3 DEF RestartBackend
  <2>2. \A s \in Slots : PollStep(polls[s], polls'[s])
    BY <2>1 DEF PollStep
  <2>3. \A s \in Slots : polls'[s] \in PollType
    BY <1>1, <2>2, PollTypes
  <2>4. polls' = [s \in Slots |-> polls'[s]]
    BY <2>1
  <2>5. polls' \in [Slots -> PollType]
    BY <2>3, <2>4
  <2> QED
    BY <2>1, <2>2, <2>5 DEF PollsStep
<1>4. CASE StartPoll
  <2>1. PICK s \in Slots : /\ polls[s].stage = "idle"
                           /\ polls' = [polls EXCEPT ![s].stage = "telemetry"]
    BY <1>4 DEF StartPoll
  <2>2. polls' = [polls EXCEPT ![s] = [polls[s] EXCEPT !.stage = "telemetry"]]
    BY <1>1, <2>1
  <2>3. page' = page
    BY <1>4 DEF StartPoll
  <2> QED
    BY <2>1, <2>2, <2>3, OnePoll DEF PollStep
<1>5. ASSUME NEW s \in Slots, ReadTelemetry(s) \/ ReadEvents(s) \/ ReadAlerts(s)
      PROVE  PollsStep
  <2>1. page' = page /\ \E q : PollStep(polls[s], q) /\ polls' = [polls EXCEPT ![s] = q]
    BY <1>5 DEF ReadTelemetry, ReadEvents, ReadAlerts, PollGoesOn, PollStep
  <2> QED
    BY <2>1, OnePoll
<1>6. ASSUME NEW s \in Slots, RequestFails(s) PROVE PollsStep
  <2>1. page' = page /\ \E q : PollStep(polls[s], q) /\ polls' = [polls EXCEPT ![s] = q]
    BY <1>6 DEF RequestFails, PollGoesOn, PollStep
  <2> QED
    BY <2>1, OnePoll
<1>7. ASSUME NEW s \in Slots, ShowNothing(s) \/ PollFails(s) PROVE PollsStep
  <2>1. /\ polls' = [polls EXCEPT ![s] = NoPoll] /\ page'.telemetry = page.telemetry
        /\ PollStep(polls[s], NoPoll)
    BY <1>1, <1>7 DEF ShowNothing, PollFails, PageType, PollStep
  <2> QED
    BY <2>1, OnePoll
<1>8. ASSUME NEW s \in Slots, Show(s) PROVE PollsStep
  <2>1. \A o \in Slots : polls'[o] = IF o = s \/ polls[o].stage = "idle" THEN NoPoll
                                     ELSE [polls[o] EXCEPT !.overtaken = TRUE]
    BY <1>8 DEF Show, Answered
  <2>2. \A o \in Slots : PollStep(polls[o], polls'[o])
    BY <2>1 DEF PollStep
  <2>3. \A o \in Slots : polls'[o] \in PollType
    BY <1>1, <2>2, PollTypes
  <2>4. polls' = [o \in Slots |-> polls'[o]]
    BY <1>8 DEF Show, Answered
  <2>5. polls' \in [Slots -> PollType]
    BY <2>3, <2>4
  <2>6. \A o \in Slots : polls'[o].overtaken \/ polls'[o] = NoPoll
    BY <1>1, <2>1 DEF PollType
  <2> QED
    BY <2>2, <2>5, <2>6 DEF PollsStep
<1> QED
  BY <1>2, <1>3, <1>4, <1>5, <1>6, <1>7, <1>8
     DEF Next, Advance, UpdateTelemetry, AddEvent, ClearEventsView, vars

(* What becomes of the samples, and of what the page shows of them.        *)
LEMMA SampleSteps ==
  ASSUME Shape, [Next]_vars
  PROVE  /\ samples' \in Nat /\ samples' >= samples /\ telemetry' \in {NoSample, samples'}
         /\ page' \in PageType /\ late' \in BOOLEAN /\ skipped' \in BOOLEAN
         /\ \/ page'.telemetry = page.telemetry /\ page'.alerts = page.alerts
            \/ \E s \in Slots : /\ polls[s].stage = "answer" /\ polls[s].telemetry # NoSample
                                /\ page'.telemetry = polls[s].telemetry
                                /\ page'.alerts = polls[s].alerts
                                /\ polls'[s] = NoPoll
<1>1. /\ samples \in Nat /\ telemetry \in {NoSample, samples} /\ page \in PageType
      /\ late \in BOOLEAN /\ skipped \in BOOLEAN /\ polls \in [Slots -> PollType]
  BY DEF Shape
<1>2. ASSUME NEW s \in Slots, Show(s)
      PROVE  /\ page' \in PageType /\ late' \in BOOLEAN /\ skipped' \in BOOLEAN
             /\ polls[s].stage = "answer" /\ polls[s].telemetry # NoSample
             /\ page'.telemetry = polls[s].telemetry /\ page'.alerts = polls[s].alerts
             /\ polls'[s] = NoPoll /\ samples' = samples /\ telemetry' = telemetry
  <2>1. polls[s].telemetry \in SampleType /\ polls[s].alerts \in SampleType
        /\ polls[s].overtaken \in BOOLEAN
    BY <1>1 DEF PollType
  <2> QED
    BY <1>1, <1>2, <2>1 DEF Show, Answered, PageType, storage, bounds
<1>3. ASSUME NEW s \in Slots, ShowNothing(s) \/ PollFails(s)
      PROVE  /\ page' \in PageType /\ UNCHANGED history /\ samples' = samples
             /\ telemetry' = telemetry
             /\ page'.telemetry = page.telemetry /\ page'.alerts = page.alerts
  BY <1>1, <1>3 DEF ShowNothing, PollFails, PageType, storage, bounds
<1>4. CASE UpdateTelemetry
  BY <1>1, <1>4 DEF UpdateTelemetry, history
<1>5. CASE RestartBackend
  BY <1>1, <1>5 DEF RestartBackend, history
<1>6. ASSUME NEW s \in Slots,
             ReadTelemetry(s) \/ ReadEvents(s) \/ ReadAlerts(s) \/ RequestFails(s)
      PROVE  UNCHANGED <<page, history, samples, telemetry>>
  BY <1>6 DEF ReadTelemetry, ReadEvents, ReadAlerts, RequestFails, PollGoesOn, storage
<1>7. CASE StartPoll \/ AddEvent \/ ClearEventsView \/ UNCHANGED vars
  BY <1>1, <1>7 DEF StartPoll, AddEvent, ClearEventsView, vars, storage, bounds, history
<1> QED
  BY <1>1, <1>2, <1>3, <1>4, <1>5, <1>6, <1>7 DEF Next, Advance, history

(* What an event is that comes into the ring.                              *)
NewEvent(e) == /\ e \in EventType /\ e.no = count + 1
               /\ count' = count + 1 /\ events' = Cut(Append(events, e))

(* What becomes of the lists: the ring grows or is lost, the page's list   *)
(* takes an answer in or is cleared.                                       *)
LEMMA ListSteps ==
  ASSUME Shape, [Next]_vars
  PROVE  /\ count' \in Nat /\ samples' + count' <= MaxHappenings
         /\ \/ \E e \in EventType : /\ NewEvent(e)
                                    /\ UNCHANGED <<polls, _eventsCache, history>>
            \/ /\ RestartBackend /\ events' = <<>>
               /\ UNCHANGED <<count, _eventsCache, history>>
            \/ ClearEventsView /\ _eventsCache' = <<>> /\ UNCHANGED <<events, count, polls, history>>
            \/ \E s \in Slots : Show(s) /\ _eventsCache' = Merged(polls[s].events)
                                /\ UNCHANGED <<events, count>>
            \/ /\ UNCHANGED <<events, count, _eventsCache, history>>
               /\ \A s \in Slots : ~Show(s)
               /\ ~RestartBackend
<1>1. /\ samples \in Nat /\ count \in Nat /\ samples + count <= MaxHappenings
      /\ incidents \in Nat /\ MaxHappenings \in Nat /\ events \in Seq(EventType)
  BY DashboardAssumption DEF Shape
<1>2. CASE UpdateTelemetry
  <2>1. UNCHANGED <<events, count, _eventsCache, history, polls>> /\ samples' = samples + 1
        /\ samples + count < MaxHappenings
    BY <1>1, <1>2 DEF UpdateTelemetry, MoreHappens, history
  <2>2. samples' + count' <= MaxHappenings /\ count' \in Nat
    BY <1>1, <2>1
  <2>3. telemetry' # telemetry \/ ~RestartBackend
    BY <1>1, <2>1 DEF RestartBackend
  <2>4. ~RestartBackend
    BY <1>1, <2>1 DEF RestartBackend
  <2>5. \A s \in Slots : ~Show(s)
    BY <1>1, <2>1 DEF Show, bounds
  <2> QED
    BY <2>1, <2>2, <2>4, <2>5
<1>3. CASE AddEvent
  <2>1. /\ samples + count < MaxHappenings /\ count' = count + 1 /\ samples' = samples
        /\ UNCHANGED <<polls, _eventsCache, history>>
    BY <1>1, <1>3 DEF AddEvent, MoreHappens, history
  <2>2. PICK key \in 1..(count + 1) :
          events' = Cut(Append(events, [no |-> count + 1, key |-> key]))
    BY <1>3 DEF AddEvent
  <2> DEFINE e == [no |-> count + 1, key |-> key]
  <2>3. count + 1 \in 1..MaxHappenings /\ samples' + count' <= MaxHappenings /\ count' \in Nat
    BY <1>1, <2>1
  <2>6. key \in 1..MaxHappenings
    BY <1>1, <2>1, <2>3
  <2>7. e \in EventType /\ e.no = count + 1 /\ e.key = key
    BY <2>3, <2>6 DEF EventType
  <2>8. NewEvent(e)
    BY <2>1, <2>2, <2>7 DEF NewEvent
  <2> HIDE DEF e
  <2> QED
    BY <2>1, <2>3, <2>7, <2>8
<1>4. CASE RestartBackend
  BY <1>1, <1>4 DEF RestartBackend
<1>5. CASE ClearEventsView
  BY <1>1, <1>5 DEF ClearEventsView, storage
<1>6. ASSUME NEW s \in Slots, Show(s)
      PROVE  /\ _eventsCache' = Merged(polls[s].events)
             /\ UNCHANGED <<events, count, samples>>
  BY <1>6 DEF Show, storage, bounds
<1>7. CASE \/ \E s \in Slots : \/ ReadTelemetry(s) \/ ReadEvents(s) \/ ReadAlerts(s)
                               \/ RequestFails(s) \/ PollFails(s) \/ ShowNothing(s)
           \/ StartPoll \/ UNCHANGED vars
  <2>1. UNCHANGED <<events, count, _eventsCache, history, samples>>
    BY <1>7 DEF ReadTelemetry, ReadEvents, ReadAlerts, RequestFails, PollFails, ShowNothing,
       StartPoll, PollGoesOn, vars, storage, bounds
  <2>2. count' \in Nat /\ samples' + count' <= MaxHappenings
    BY <1>1, <2>1
  <2>3. CASE \E s \in Slots : Show(s)
    BY <1>6, <2>2, <2>3
  <2>4. CASE RestartBackend
    BY <1>4, <2>4
  <2> QED
    BY <2>1, <2>2, <2>3, <2>4
<1>8. CASE \E s \in Slots : Show(s)
  BY <1>1, <1>6, <1>8
<1> QED
  BY <1>2, <1>3, <1>4, <1>5, <1>7, <1>8 DEF Next, Advance

(* Incidents are counted.                                                  *)
LEMMA IncidentsStep == Shape /\ [Next]_vars => incidents' \in Nat
<1>1. incidents \in Nat => incidents + 1 \in Nat
  OBVIOUS
<1> QED
  BY <1>1 DEF Shape, Next, Advance, UpdateTelemetry, AddEvent, RestartBackend, StartPoll,
     ReadTelemetry, ReadEvents, ReadAlerts, ShowNothing, Show, RequestFails, PollFails,
     ClearEventsView, PollGoesOn, vars, bounds

(* Every step keeps the shape.                                             *)
LEMMA ShapeStep == Shape /\ [Next]_vars => Shape'
<1> SUFFICES ASSUME Shape, [Next]_vars PROVE Shape'
  OBVIOUS
<1>1. /\ polls' \in [Slots -> PollType] /\ samples' \in Nat
      /\ telemetry' \in {NoSample, samples'} /\ page' \in PageType
      /\ late' \in BOOLEAN /\ skipped' \in BOOLEAN /\ incidents' \in Nat
  BY PollSteps, SampleSteps, IncidentsStep DEF PollsStep
<1>2. /\ count' \in Nat /\ samples' + count' <= MaxHappenings
      /\ \/ \E e \in EventType : events' = Cut(Append(events, e)) /\ _eventsCache' = _eventsCache
         \/ /\ events' = events \/ events' = <<>>
            /\ \/ _eventsCache' = _eventsCache \/ _eventsCache' = <<>>
               \/ \E s \in Slots : _eventsCache' = Merged(polls[s].events)
  BY ListSteps DEF NewEvent
<1>3. /\ events \in Seq(EventType) /\ Len(events) <= RingSize
      /\ _eventsCache \in Seq(EventType) /\ Len(_eventsCache) <= CacheSize
      /\ \A s \in Slots : polls[s].events \in Seq(EventType)
  BY DEF Shape, PollType
<1>4. <<>> \in Seq(EventType) /\ Len(<<>>) = 0 /\ 0 <= RingSize /\ 0 <= CacheSize
  BY DashboardAssumption, EmptySeq
<1>5. events' \in Seq(EventType) /\ Len(events') <= RingSize
  <2>1. ASSUME NEW e \in EventType, events' = Cut(Append(events, e))
        PROVE  events' \in Seq(EventType) /\ Len(events') <= RingSize
    BY <1>3, <2>1, RingFacts
  <2>2. CASE events' = events
    BY <1>3, <2>2
  <2>3. CASE events' = <<>>
    BY <1>4, <2>3, Zenon
  <2> QED
    BY <1>2, <2>1, <2>2, <2>3
<1>6. _eventsCache' \in Seq(EventType) /\ Len(_eventsCache') <= CacheSize
  <2>1. ASSUME NEW s \in Slots, _eventsCache' = Merged(polls[s].events)
        PROVE  _eventsCache' \in Seq(EventType) /\ Len(_eventsCache') <= CacheSize
    BY <1>3, <2>1, MergedFacts
  <2>2. CASE _eventsCache' = _eventsCache
    BY <1>3, <2>2
  <2>3. CASE _eventsCache' = <<>>
    BY <1>4, <2>3, Zenon
  <2> QED
    BY <1>2, <2>1, <2>2, <2>3
<1> QED
  BY <1>1, <1>2, <1>5, <1>6 DEF Shape

(* The step of a poll, field by field.                                     *)
PollFields(p, q) ==
  \/ q = p \/ q = NoPoll
  \/ /\ p.stage = "idle" /\ q.stage = "telemetry"
     /\ q.telemetry = p.telemetry /\ q.events = p.events /\ q.alerts = p.alerts
     /\ q.overtaken = p.overtaken
  \/ /\ p.stage = "telemetry" /\ q.stage = "events"
     /\ q.telemetry = telemetry /\ q.events = p.events /\ q.alerts = p.alerts
     /\ q.overtaken = p.overtaken
  \/ /\ p.stage = "events" /\ q.stage = "alerts"
     /\ q.telemetry = p.telemetry /\ q.events = events /\ q.alerts = p.alerts
     /\ q.overtaken = p.overtaken
  \/ /\ p.stage = "alerts" /\ q.stage = "answer"
     /\ q.telemetry = p.telemetry /\ q.events = p.events
     /\ q.alerts = telemetry \/ q.alerts = p.alerts
     /\ q.overtaken = p.overtaken
  \/ /\ p.stage \in {"telemetry", "events"} /\ q.stage = "alerts"
     /\ q.telemetry = NoSample /\ q.events = p.events /\ q.alerts = p.alerts
     /\ q.overtaken = p.overtaken
  \/ /\ p.stage # "idle" /\ q.stage = p.stage
     /\ q.telemetry = p.telemetry /\ q.events = p.events /\ q.alerts = p.alerts
     /\ q.overtaken = TRUE

(* It is one of these.                                                     *)
LEMMA PollFieldsHold ==
  ASSUME NEW p \in PollType, NEW q, PollStep(p, q)
  PROVE  PollFields(p, q)
<1>1. CASE q = p \/ q = NoPoll
  BY <1>1 DEF PollFields
<1>2. CASE p.stage = "idle" /\ q = [p EXCEPT !.stage = "telemetry"]
  BY <1>2 DEF PollFields, PollType
<1>3. CASE p.stage = "telemetry" /\ q = [p EXCEPT !.stage = "events", !.telemetry = telemetry]
  BY <1>3 DEF PollFields, PollType
<1>4. CASE p.stage = "events" /\ q = [p EXCEPT !.stage = "alerts", !.events = events]
  BY <1>4 DEF PollFields, PollType
<1>5. CASE p.stage = "alerts" /\ q = [p EXCEPT !.stage = "answer", !.alerts = telemetry]
  BY <1>5 DEF PollFields, PollType
<1>6. CASE p.stage \in {"telemetry", "events", "alerts"} /\ q = WithoutRequest(p)
  <2>1. CASE p.stage = "alerts"
    <3>1. q = [p EXCEPT !.stage = "answer"]
      BY <1>6, <2>1 DEF WithoutRequest
    <3> QED
      BY <2>1, <3>1 DEF PollFields, PollType
  <2>2. CASE p.stage # "alerts"
    <3>1. q = [p EXCEPT !.stage = "alerts", !.telemetry = NoSample]
      BY <1>6, <2>2 DEF WithoutRequest
    <3>2. p.stage \in {"telemetry", "events"}
      BY <1>6, <2>2
    <3> QED
      BY <3>1, <3>2 DEF PollFields, PollType
  <2> QED
    BY <2>1, <2>2
<1>7. CASE p.stage # "idle" /\ q = [p EXCEPT !.overtaken = TRUE]
  BY <1>7 DEF PollFields, PollType
<1> QED
  BY <1>1, <1>2, <1>3, <1>4, <1>5, <1>6, <1>7 DEF PollStep

(* Every step keeps the samples of the polls and of the page in order.     *)
LEMMA SamplesStep == Shape /\ SamplesSound /\ [Next]_vars => SamplesSound'
<1> SUFFICES ASSUME Shape, SamplesSound, [Next]_vars PROVE SamplesSound'
  OBVIOUS
<1>1. /\ samples \in Nat /\ samples' \in Nat /\ samples' >= samples
      /\ telemetry \in {NoSample, samples} /\ PollsStep
      /\ page \in PageType /\ page' \in PageType
      /\ page.telemetry \in Nat /\ page'.telemetry \in Nat /\ page.telemetry <= samples
      /\ polls \in [Slots -> PollType]
  <2>1. SampleType \subseteq Nat
    BY DEF SampleType
  <2>2. page \in PageType /\ page' \in PageType
    BY SampleSteps DEF Shape
  <2>3. page.telemetry \in Nat /\ page'.telemetry \in Nat
    BY <2>1, <2>2 DEF PageType
  <2> QED
    BY <2>2, <2>3, PollSteps, SampleSteps DEF Shape, SamplesSound
<1>2. ASSUME NEW s \in Slots PROVE PollSound(polls[s])'
  <2> DEFINE p == polls[s]  q == polls'[s]
  <2>1. /\ PollSound(p) /\ p \in PollType /\ q \in PollType /\ PollStep(p, q)
        /\ page'.telemetry = page.telemetry \/ q.overtaken \/ q = NoPoll
    BY <1>1 DEF PollsStep, SamplesSound
  <2>2. p.telemetry \in Nat /\ p.alerts \in Nat /\ q.telemetry \in Nat /\ q.alerts \in Nat
    BY <2>1 DEF PollType, SampleType
  <2> HIDE DEF p, q
  <2>3. PollFields(p, q)
    BY <2>1, PollFieldsHold
  <2>4. /\ p.stage = "idle" => p = NoPoll
        /\ p.stage \in {"telemetry", "events"} => p.events = <<>>
        /\ p.stage = "telemetry" => p.telemetry = NoSample
        /\ p.stage # "answer" => p.alerts = NoSample
        /\ p.telemetry <= samples
        /\ p.alerts = NoSample \/ p.alerts >= p.telemetry
        /\ p.telemetry = NoSample \/ p.overtaken \/ p.telemetry >= page.telemetry
    BY <2>1 DEF PollSound
  <2>5. /\ q.stage = "idle" => q = NoPoll
        /\ q.stage \in {"telemetry", "events"} => q.events = <<>>
        /\ q.stage = "telemetry" => q.telemetry = NoSample
        /\ q.stage # "answer" => q.alerts = NoSample
    BY <2>3, <2>4 DEF PollFields, NoPoll
  <2>6. /\ q.telemetry <= samples'
        /\ q.alerts = NoSample \/ q.alerts >= q.telemetry
        /\ q.telemetry = NoSample \/ q.overtaken \/ q.telemetry >= page.telemetry
    BY <1>1, <2>2, <2>3, <2>4 DEF PollFields, NoPoll, NoSample
  <2>7. q.telemetry = NoSample \/ q.overtaken \/ q.telemetry >= page'.telemetry
    BY <2>1, <2>6 DEF NoPoll
  <2> QED
    BY <2>5, <2>6, <2>7 DEF PollSound, q
<1>3. page'.telemetry <= samples' /\ AlertsNotStale'
  <2>1. CASE page'.telemetry = page.telemetry /\ page'.alerts = page.alerts
    BY <1>1, <2>1 DEF SamplesSound, AlertsNotStale
  <2>2. ASSUME NEW s \in Slots,
               page'.telemetry = polls[s].telemetry, page'.alerts = polls[s].alerts
        PROVE  page'.telemetry <= samples' /\ AlertsNotStale'
    <3>1. PollSound(polls[s]) /\ polls[s] \in PollType
      BY <1>1 DEF SamplesSound
    <3>2. /\ polls[s].telemetry <= samples /\ polls[s].telemetry \in Nat
          /\ polls[s].alerts = NoSample \/ polls[s].alerts >= polls[s].telemetry
      BY <3>1 DEF PollSound, PollType, SampleType
    <3> QED
      BY <1>1, <2>2, <3>2 DEF AlertsNotStale
  <2> QED
    BY <2>1, <2>2, SampleSteps
<1> QED
  BY <1>2, <1>3 DEF SamplesSound

(* A poll keeps its list, drops it or takes a copy of the ring.            *)
LEMMA PollLists ==
  ASSUME Shape, [Next]_vars, NEW s \in Slots
  PROVE  polls'[s].events \in {polls[s].events, <<>>, events}
<1>1. PollFields(polls[s], polls'[s])
  BY PollSteps, PollFieldsHold DEF PollsStep, Shape
<1> QED
  BY <1>1 DEF PollFields, NoPoll

(* What is known are events.                                               *)
LEMMA KnownTypes == Shape => Known \subseteq EventType
<1> SUFFICES ASSUME Shape PROVE Known \subseteq EventType
  OBVIOUS
<1>1. /\ events \in Seq(EventType) /\ _eventsCache \in Seq(EventType)
      /\ \A s \in Slots : polls[s].events \in Seq(EventType)
  BY DEF Shape, PollType
<1>2. \A l \in Seq(EventType) : ToSet(l) \subseteq EventType
  BY DEF ToSet
<1> QED
  BY <1>1, <1>2 DEF Known

(* Nothing becomes known but a new event.                                  *)
LEMMA KnownStep ==
  ASSUME Shape, [Next]_vars
  PROVE  \/ Known' \subseteq Known /\ count' = count
         \/ \E e \in EventType : NewEvent(e) /\ Known' \subseteq Known \cup {e}
<1>1. /\ events \in Seq(EventType) /\ Len(events) <= RingSize
      /\ _eventsCache \in Seq(EventType)
      /\ \A s \in Slots : polls[s].events \in Seq(EventType)
  BY DEF Shape, PollType
<1>2. ToSet(<<>>) = {}
  BY DEF ToSet
<1>3. Known' = UNION {ToSet(events'), ToSet(_eventsCache'),
                      UNION {ToSet(polls'[s].events) : s \in Slots}}
  BY DEF Known
<1>4. \A s \in Slots : ToSet(polls'[s].events) \subseteq Known
  BY <1>2, PollLists DEF Known
<1>5. ASSUME NEW e \in EventType, NewEvent(e), _eventsCache' = _eventsCache
      PROVE  Known' \subseteq Known \cup {e}
  <2>1. ToSet(events') \subseteq ToSet(events) \cup {e}
    BY <1>1, <1>5, RingFacts DEF NewEvent
  <2> QED
    BY <1>3, <1>4, <1>5, <2>1 DEF Known
<1>6. ASSUME NEW s \in Slots, _eventsCache' = Merged(polls[s].events)
      PROVE  ToSet(_eventsCache') \subseteq Known
  <2>1. ToSet(_eventsCache') \subseteq ToSet(_eventsCache) \cup ToSet(polls[s].events)
    BY <1>1, <1>6, MergedFacts
  <2> QED
    BY <2>1 DEF Known
<1>7. \/ \E e \in EventType : NewEvent(e) /\ _eventsCache' = _eventsCache
      \/ /\ count' = count /\ events' \in {events, <<>>}
         /\ \/ _eventsCache' \in {_eventsCache, <<>>}
            \/ \E s \in Slots : _eventsCache' = Merged(polls[s].events)
  BY ListSteps
<1>8. ASSUME events' \in {events, <<>>}, ToSet(_eventsCache') \subseteq Known
      PROVE  Known' \subseteq Known
  <2>1. ToSet(events') \subseteq Known
    BY <1>2, <1>8 DEF Known
  <2> QED
    BY <1>3, <1>4, <1>8, <2>1
<1>9. ASSUME _eventsCache' \in {_eventsCache, <<>>} PROVE ToSet(_eventsCache') \subseteq Known
  BY <1>2, <1>9 DEF Known
<1> QED
  BY <1>5, <1>6, <1>7, <1>8, <1>9

(* The ring still counts after a new event.                                *)
LEMMA RingCounts ==
  ASSUME Shape, EventsSound, NEW e \in EventType, NewEvent(e)
  PROVE  /\ Consecutive(events') /\ events' # <<>> /\ events'[Len(events')] = e
         /\ e.no = count' /\ \A x \in Known : x.no < e.no
<1>1. /\ events \in Seq(EventType) /\ Len(events) <= RingSize /\ count \in Nat
      /\ RingSize \in Nat
  BY DashboardAssumption DEF Shape
<1>2. PICK r : r = Cut(Append(events, e)) /\ r = events'
  BY DEF NewEvent
<1>3. PICK off : off = IF Len(events) < RingSize THEN 0 ELSE 1
  OBVIOUS
<1>4. /\ r \in Seq(EventType) /\ Len(r) <= RingSize /\ Len(events) \in Nat
      /\ Len(r) = Len(events) + 1 - off /\ r[Len(r)] = e /\ r # <<>>
      /\ \A i \in 1..(Len(r) - 1) : i + off \in 1..Len(events) /\ r[i] = events[i + off]
  BY <1>1, <1>2, <1>3, RingFacts
<1>5. /\ events # <<>> => events[Len(events)].no = count
      /\ \A i, j \in DOMAIN events : events[j].no - events[i].no = j - i
      /\ \A x \in Known : x.no <= count
  BY DEF EventsSound, Consecutive
<1>6. e.no = count + 1 /\ count' = count + 1 /\ e.no \in Nat
  BY EventFacts DEF NewEvent
<1>7. DOMAIN events = 1..Len(events) /\ DOMAIN r = 1..Len(r) /\ Len(r) \in Nat
      /\ off \in {0, 1}
  BY <1>1, <1>3, <1>4
<1>8. \A i \in 1..(Len(r) - 1) : r[i].no = count + 1 + i - Len(r) /\ r[i].no \in Nat
  <2> SUFFICES ASSUME NEW i \in 1..(Len(r) - 1)
               PROVE  r[i].no = count + 1 + i - Len(r) /\ r[i].no \in Nat
    OBVIOUS
  <2>1. i + off \in 1..Len(events) /\ r[i] = events[i + off]
    BY <1>4
  <2>2. /\ Len(events) \in DOMAIN events /\ i + off \in DOMAIN events /\ events # <<>>
        /\ events[i + off] \in EventType
    BY <1>1, <1>4, <1>7, <2>1
  <2>3. events[Len(events)].no - events[i + off].no = Len(events) - (i + off)
    BY <1>5, <2>2
  <2>4. r[i].no \in Nat /\ events[Len(events)].no = count
    BY <1>5, <2>1, <2>2, EventFacts
  <2>5. count - r[i].no = Len(events) - (i + off)
    BY <2>1, <2>3, <2>4
  <2>6. i \in Int /\ Len(r) = Len(events) + 1 - off /\ Len(events) \in Int /\ off \in Int
    BY <1>4, <1>7
  <2>7. \A a, b, c, d, n \in Int : n = a + 1 - b /\ c - d = a - (i + b) => d = c + 1 + i - n
    BY <2>6
  <2>8. Len(r) \in Int /\ count \in Int /\ r[i].no \in Int
    BY <1>1, <1>7, <2>4
  <2> QED
    BY <2>4, <2>5, <2>6, <2>7, <2>8
<1>9. \A i \in 1..Len(r) : r[i].no = count + 1 + i - Len(r) /\ r[i].no \in Nat
  <2> SUFFICES ASSUME NEW i \in 1..Len(r)
               PROVE  r[i].no = count + 1 + i - Len(r) /\ r[i].no \in Nat
    OBVIOUS
  <2>1. CASE i = Len(r)
    BY <1>1, <1>4, <1>6, <1>7, <2>1
  <2>2. CASE i # Len(r)
    <3>1. \A n \in Nat : i \in 1..n /\ i # n => i \in 1..(n - 1)
      OBVIOUS
    <3>2. i \in 1..(Len(r) - 1)
      BY <1>7, <2>2, <3>1
    <3> QED
      BY <1>8, <3>2
  <2> QED
    BY <2>1, <2>2
<1>10. Consecutive(r)
  <2>1. ASSUME NEW i \in 1..Len(r), NEW j \in 1..Len(r) PROVE r[j].no - r[i].no = j - i
    <3>1. r[i].no = count + 1 + i - Len(r) /\ r[j].no = count + 1 + j - Len(r)
      BY <1>9
    <3> QED
      BY <1>1, <1>7, <3>1
  <2> QED
    BY <1>4, <1>7, <2>1 DEF Consecutive
<1>11. ASSUME NEW x \in Known PROVE x.no < e.no
  <2>1. x.no \in Nat /\ x.no <= count
    BY <1>5, KnownTypes, EventFacts
  <2> QED
    BY <1>1, <1>6, <2>1
<1> QED
  BY <1>2, <1>4, <1>6, <1>10, <1>11

(* Every step keeps what is known of the events.                           *)
LEMMA EventsStep == Shape /\ EventsSound /\ [Next]_vars => EventsSound'
<1> SUFFICES ASSUME Shape, EventsSound, [Next]_vars PROVE EventsSound'
  OBVIOUS
<1>1. Consecutive(<<>>)
  BY DashboardAssumption DEF Consecutive
<1>2. \A s \in Slots : Consecutive(polls'[s].events)
  BY <1>1, PollLists DEF EventsSound
<1>3. CASE \E e \in EventType : NewEvent(e) /\ Known' \subseteq Known \cup {e}
  <2>1. PICK e \in EventType : NewEvent(e) /\ Known' \subseteq Known \cup {e}
    BY <1>3
  <2>2. /\ Consecutive(events') /\ events' # <<>> /\ events'[Len(events')] = e
        /\ e.no = count' /\ \A x \in Known : x.no < e.no
        /\ e.no \in Nat
    BY <2>1, RingCounts, EventFacts
  <2>3. \A x \in Known : x.no \in Nat
    BY KnownTypes, EventFacts
  <2>4. \A x \in Known' : x.no <= count'
    BY <2>1, <2>2, <2>3
  <2> QED
    BY <1>2, <2>2, <2>4 DEF EventsSound
<1>4. CASE Known' \subseteq Known /\ count' = count
  <2>1. \A x \in Known' : x.no <= count'
    BY <1>4 DEF EventsSound
  <2>2. events' = events \/ events' = <<>>
    <3>1. count \in Nat
      BY DEF Shape
    <3>2. ~ \E e \in EventType : NewEvent(e)
      BY <1>4, <3>1 DEF NewEvent
    <3> QED
      BY <3>2, ListSteps
  <2>3. /\ events' # <<>> => events'[Len(events')].no = count'
        /\ Consecutive(events')
    BY <1>1, <1>4, <2>2 DEF EventsSound
  <2> QED
    BY <1>2, <2>1, <2>3 DEF EventsSound
<1> QED
  BY <1>3, <1>4, KnownStep

-----------------------------------------------------------------------------
(* The merge.                                                              *)

(* The new events of an answer are in their order.                         *)
LEMMA FreshInOrder ==
  ASSUME NEW list \in Seq(EventType), Consecutive(list)
  PROVE  InOrder(Fresh(list))
<1> DEFINE R == {p \in EventType \X EventType : p[1].no < p[2].no}
<1>1. Ordered(list, R)
  <2> SUFFICES ASSUME NEW i \in DOMAIN list, NEW j \in DOMAIN list, i < j
               PROVE  <<list[i], list[j]>> \in R
    BY DEF Ordered
  <2>1. list[i] \in EventType /\ list[j] \in EventType /\ i \in Nat /\ j \in Nat
    OBVIOUS
  <2>2. list[j].no - list[i].no = j - i
    BY DEF Consecutive
  <2>3. list[i].no \in Nat /\ list[j].no \in Nat
    BY <2>1, EventFacts
  <2>4. list[i].no < list[j].no
    BY <2>1, <2>2, <2>3
  <2> QED
    BY <2>1, <2>4
<1>2. \A x, y : <<x, y>> \in R => x.no < y.no
  OBVIOUS
<1> HIDE DEF R
<1>3. Ordered(Fresh(list), R)
  BY <1>1, SelectedOrdered DEF Fresh
<1>4. Fresh(list) \in Seq(EventType)
  BY FreshFacts
<1>5. DOMAIN Fresh(list) = 1..Len(Fresh(list))
  BY <1>4
<1> QED
  BY <1>2, <1>3, <1>5 DEF Ordered, InOrder

(* Events in their order are different.                                    *)
LEMMA InOrderInjective ==
  ASSUME NEW list \in Seq(EventType), InOrder(list)
  PROVE  IsInjective(list)
<1>1. DOMAIN list = 1..Len(list)
  OBVIOUS
<1>2. ASSUME NEW i \in 1..Len(list), NEW j \in 1..Len(list), list[i] = list[j], i < j
      PROVE  FALSE
  <2>1. list[i].no < list[j].no /\ list[i].no \in Nat
    BY <1>2, EventFacts DEF InOrder
  <2> QED
    BY <1>2, <2>1
<1>3. ASSUME NEW i \in 1..Len(list), NEW j \in 1..Len(list), list[i] = list[j] PROVE i = j
  <2>1. ~(i < j) /\ ~(j < i)
    BY <1>2, <1>3
  <2> QED
    BY <2>1
<1> QED
  BY <1>1, <1>3 DEF IsInjective

(* The new events have other keys than those listed.                       *)
LEMMA LongerInjective ==
  ASSUME NEW list \in Seq(EventType), _eventsCache \in Seq(EventType),
         Consecutive(list), IsInjective(_eventsCache)
  PROVE  IsInjective(Longer(list))
<1> DEFINE all == Longer(list)  fresh == Fresh(list)  n == Len(_eventsCache)
<1>1. /\ \A i \in DOMAIN _eventsCache : i \in DOMAIN all /\ all[i] = _eventsCache[i]
      /\ \A i \in DOMAIN all : i \notin DOMAIN _eventsCache =>
           i - n \in DOMAIN fresh /\ all[i] = fresh[i - n]
      /\ all \in Seq(EventType) /\ n \in Nat
  BY LongerFacts
<1>2. IsInjective(fresh)
  BY FreshFacts, FreshInOrder, InOrderInjective
<1>3. \A e \in ToSet(fresh) : e.key \notin Keys(_eventsCache)
  BY FreshFacts
<1>4. \A i \in DOMAIN fresh : \A j \in DOMAIN _eventsCache : fresh[i] # _eventsCache[j]
  BY <1>3 DEF Keys, ToSet
<1>5. DOMAIN all \subseteq Int
  BY <1>1
<1> HIDE DEF all, fresh, n
<1>6. ASSUME NEW i \in DOMAIN all, NEW j \in DOMAIN all, all[i] = all[j] PROVE i = j
  <2>1. CASE i \in DOMAIN _eventsCache /\ j \in DOMAIN _eventsCache
    BY <1>1, <1>6, <2>1 DEF IsInjective
  <2>2. CASE i \notin DOMAIN _eventsCache /\ j \notin DOMAIN _eventsCache
    <3>1. i - n = j - n
      BY <1>1, <1>2, <1>6, <2>2 DEF IsInjective
    <3> QED
      BY <1>1, <1>5, <3>1
  <2>3. CASE i \in DOMAIN _eventsCache /\ j \notin DOMAIN _eventsCache
    BY <1>1, <1>4, <1>6, <2>3
  <2>4. CASE i \notin DOMAIN _eventsCache /\ j \in DOMAIN _eventsCache
    BY <1>1, <1>4, <1>6, <2>4
  <2> QED
    BY <2>1, <2>2, <2>3, <2>4
<1> QED
  BY <1>6 DEF IsInjective, all

(* What is different and in order stays so when the list is shortened.     *)
LEMMA NewestKeeps ==
  ASSUME NEW list \in Seq(EventType), NEW size \in Nat \ {0}
  PROVE  /\ IsInjective(list) => IsInjective(Newest(list, size))
         /\ InOrder(list) => InOrder(Newest(list, size))
<1> DEFINE off == IF Len(list) > size THEN Len(list) - size ELSE 0
           r == Newest(list, size)
<1>1. /\ r \in Seq(EventType) /\ off \in Nat
      /\ \A i \in DOMAIN r : i + off \in DOMAIN list /\ r[i] = list[i + off]
  BY NewestFacts
<1>2. DOMAIN r = 1..Len(r) /\ DOMAIN list = 1..Len(list) /\ DOMAIN r \subseteq Int
  BY <1>1
<1> HIDE DEF off, r
<1>3. ASSUME IsInjective(list) PROVE IsInjective(r)
  <2>1. ASSUME NEW i \in DOMAIN r, NEW j \in DOMAIN r, r[i] = r[j] PROVE i = j
    <3>1. i + off = j + off
      BY <1>1, <1>3, <2>1 DEF IsInjective
    <3> QED
      BY <1>1, <1>2, <3>1
  <2> QED
    BY <2>1 DEF IsInjective
<1>4. ASSUME InOrder(list) PROVE InOrder(r)
  <2>1. ASSUME NEW i \in DOMAIN r, NEW j \in DOMAIN r, i < j PROVE r[i].no < r[j].no
    <3>1. i + off < j + off
      BY <1>1, <1>2, <2>1
    <3> QED
      BY <1>1, <1>2, <1>4, <3>1 DEF InOrder
  <2> QED
    BY <1>2, <2>1 DEF InOrder
<1> QED
  BY <1>3, <1>4 DEF r

(* The page's list holds no event twice after any step.                    *)
LEMMA InjectiveStep ==
  Shape /\ EventsSound /\ IsInjective(_eventsCache) /\ [Next]_vars
    => IsInjective(_eventsCache)'
<1> SUFFICES ASSUME Shape, EventsSound, IsInjective(_eventsCache), [Next]_vars
             PROVE  IsInjective(_eventsCache')
  BY DEF IsInjective
<1>1. /\ _eventsCache \in Seq(EventType) /\ CacheSize \in Nat \ {0}
      /\ \A s \in Slots : polls[s].events \in Seq(EventType) /\ Consecutive(polls[s].events)
  BY DashboardAssumption DEF Shape, PollType, EventsSound
<1>2. IsInjective(<<>>)
  BY DEF IsInjective
<1>3. ASSUME NEW s \in Slots, _eventsCache' = Merged(polls[s].events)
      PROVE  IsInjective(_eventsCache')
  <2>1. /\ Merged(polls[s].events) = Newest(Longer(polls[s].events), CacheSize)
        /\ Longer(polls[s].events) \in Seq(EventType)
    BY <1>1, LongerFacts DEF Merged, Longer
  <2> QED
    BY <1>1, <1>3, <2>1, LongerInjective, NewestKeeps
<1> QED
  BY <1>2, <1>3, ListSteps

(* What an answer in time adds comes after what is listed.                 *)
LEMMA LongerInOrder ==
  ASSUME NEW list \in Seq(EventType), _eventsCache \in Seq(EventType),
         Consecutive(list), InOrder(_eventsCache), Ahead(list)
  PROVE  InOrder(Longer(list))
<1> DEFINE all == Longer(list)  fresh == Fresh(list)  n == Len(_eventsCache)
<1>1. /\ \A i \in DOMAIN _eventsCache : i \in DOMAIN all /\ all[i] = _eventsCache[i]
      /\ \A i \in DOMAIN all : i \notin DOMAIN _eventsCache =>
           i - n \in DOMAIN fresh /\ all[i] = fresh[i - n]
      /\ all \in Seq(EventType) /\ n \in Nat
  BY LongerFacts
<1>2. /\ fresh \in Seq(EventType) /\ InOrder(fresh)
      /\ ToSet(fresh) = {e \in ToSet(list) : e.key \notin Keys(_eventsCache)}
  BY FreshFacts, FreshInOrder
<1>3. ASSUME NEW i \in DOMAIN _eventsCache, NEW j \in DOMAIN fresh
      PROVE  _eventsCache[i].no < fresh[j].no
  <2>1. fresh[j] \in ToSet(fresh) /\ _eventsCache[i] \in ToSet(_eventsCache)
    BY DEF ToSet
  <2>2. fresh[j] \in ToSet(list) /\ fresh[j].key \notin Keys(_eventsCache)
    BY <1>2, <2>1
  <2>3. fresh[j] \notin ToSet(_eventsCache)
    BY <2>2 DEF Keys
  <2> QED
    BY <2>1, <2>2, <2>3 DEF Ahead
<1>4. /\ DOMAIN all = 1..Len(all) /\ DOMAIN fresh = 1..Len(fresh)
      /\ DOMAIN _eventsCache = 1..Len(_eventsCache) /\ DOMAIN all \subseteq Int
      /\ Len(_eventsCache) = n
  BY <1>1, <1>2
<1> HIDE DEF all, fresh, n
<1>5. ASSUME NEW i \in DOMAIN all, NEW j \in DOMAIN all, i < j PROVE all[i].no < all[j].no
  <2>1. CASE i \in DOMAIN _eventsCache /\ j \in DOMAIN _eventsCache
    BY <1>1, <1>4, <1>5, <2>1 DEF InOrder
  <2>2. CASE i \notin DOMAIN _eventsCache /\ j \notin DOMAIN _eventsCache
    <3>1. i - n < j - n
      BY <1>1, <1>4, <1>5
    <3> QED
      BY <1>1, <1>2, <1>4, <2>2, <3>1 DEF InOrder
  <2>3. CASE i \in DOMAIN _eventsCache /\ j \notin DOMAIN _eventsCache
    BY <1>1, <1>3, <2>3
  <2>4. CASE i \notin DOMAIN _eventsCache /\ j \in DOMAIN _eventsCache
    <3>1. \A a, b, m \in Int : b \in 1..m /\ a < b /\ a >= 1 => a \in 1..m
      OBVIOUS
    <3>2. i >= 1 /\ i \in Int /\ j \in Int
      BY <1>4
    <3>3. n \in Int
      BY <1>1
    <3> QED
      BY <1>4, <1>5, <2>4, <3>1, <3>2, <3>3
  <2> QED
    BY <2>1, <2>2, <2>3, <2>4
<1> QED
  BY <1>4, <1>5 DEF InOrder, all

(* The merge of an answer in time, none of whose events is taken for       *)
(* another, does not push an event of the ring out of the page's list      *)
(* while it lists older ones: the ring, and so the answer, is not longer   *)
(* than the list.                                                          *)
LEMMA MergeKeepsAhead ==
  ASSUME Shape, EventsSound, NEW s \in Slots, InOrder(_eventsCache),
         Ahead(polls[s].events), Overlaps(polls[s].events), ~Mistakes(polls[s].events),
         NEW e \in ToSet(events)
  PROVE  \/ e \in ToSet(Merged(polls[s].events))
         \/ \A c \in ToSet(Merged(polls[s].events)) : c.no < e.no
<1>1. PICK list : list = polls[s].events
  OBVIOUS
<1>2. PICK all : all = Longer(list)
  OBVIOUS
<1>3. PICK merged : merged = Merged(list)
  OBVIOUS
<1>4. PICK off : off = IF Len(all) > CacheSize THEN Len(all) - CacheSize ELSE 0
  OBVIOUS
<1>5. /\ list \in Seq(EventType) /\ Consecutive(list) /\ _eventsCache \in Seq(EventType)
      /\ Len(_eventsCache) <= CacheSize /\ CacheSize \in Nat \ {0} /\ RingSize \in Nat
      /\ RingSize <= CacheSize /\ Ahead(list) /\ Overlaps(list)
  BY <1>1, DashboardAssumption DEF Shape, PollType, EventsSound
<1>6. /\ all \in Seq(EventType) /\ InOrder(all)
      /\ Len(all) = Len(_eventsCache) + Len(Fresh(list))
      /\ Len(_eventsCache) \in Nat /\ Len(Fresh(list)) \in Nat
      /\ \A i \in DOMAIN all : i \notin DOMAIN _eventsCache =>
           i - Len(_eventsCache) \in DOMAIN Fresh(list)
             /\ all[i] = Fresh(list)[i - Len(_eventsCache)]
      /\ ToSet(all) = ToSet(_eventsCache) \cup ToSet(Fresh(list))
      /\ ToSet(Fresh(list)) = {x \in ToSet(list) : x.key \notin Keys(_eventsCache)}
  BY <1>2, <1>5, LongerFacts, LongerInOrder, FreshFacts
<1>7. merged = Newest(all, CacheSize)
  BY <1>2, <1>3 DEF Merged, Longer
<1>8. /\ merged \in Seq(EventType) /\ Len(merged) = Len(all) - off /\ off \in Nat
      /\ \A i \in DOMAIN merged : i + off \in DOMAIN all /\ merged[i] = all[i + off]
      /\ ToSet(merged) \subseteq ToSet(all)
  BY <1>4, <1>5, <1>6, <1>7, NewestFacts
<1>9. /\ DOMAIN all = 1..Len(all) /\ DOMAIN merged = 1..Len(merged) /\ Len(all) \in Nat
      /\ DOMAIN _eventsCache = 1..Len(_eventsCache)
  BY <1>5, <1>6, <1>8
<1>10. ToSet(merged) \subseteq ToSet(list) \cup ToSet(_eventsCache)
  BY <1>6, <1>8
<1>11. CASE \A x \in ToSet(list) \cup ToSet(_eventsCache) : x.no < e.no
  BY <1>1, <1>3, <1>10, <1>11
<1>12. CASE e \in ToSet(list)
  <2> SUFFICES ASSUME e \notin ToSet(merged) PROVE FALSE
    BY <1>1, <1>3
  (* e is in the list before it is shortened...                            *)
  <2>1. e \in ToSet(all)
    <3>1. e \in ToSet(_eventsCache) \/ e.key \notin Keys(_eventsCache)
      BY <1>1, <1>12 DEF Mistakes
    <3> QED
      BY <1>6, <1>12, <3>1
  <2>2. PICK k \in DOMAIN all : all[k] = e
    BY <2>1 DEF ToSet
  (* ...whose last elements remain...                                      *)
  <2>3. ASSUME NEW i \in (off + 1)..Len(all) PROVE all[i] \in ToSet(merged) /\ i \in DOMAIN all
    <3>1. i - off \in 1..Len(merged) /\ (i - off) + off = i /\ i \in 1..Len(all)
      BY <1>8, <1>9
    <3>2. merged[i - off] = all[i]
      BY <1>8, <1>9, <3>1
    <3> QED
      BY <1>9, <3>1, <3>2 DEF ToSet
  (* ...so it is among the first.                                          *)
  <2>4. k \in Nat /\ 1 <= k /\ k <= Len(all) /\ k <= off
    <3>1. k \in Nat /\ 1 <= k /\ k <= Len(all)
      BY <1>9
    <3>2. ~(k \in (off + 1)..Len(all))
      BY <2>2, <2>3
    <3> QED
      BY <1>8, <1>9, <3>1, <3>2
  <2>5. off = Len(all) - CacheSize /\ Len(all) > CacheSize
    BY <1>4, <2>4
  <2> DEFINE m == Len(all)  j == off + 1
  <2>6. /\ j \in (off + 1)..m /\ m \in (off + 1)..m /\ j \in 1..m /\ m \in Nat /\ k < j
        /\ m - j = CacheSize - 1 /\ k \in 1..m /\ m \in 1..m /\ j \in Int
    BY <1>5, <1>8, <1>9, <2>4, <2>5
  <2>7. all[k] \in Known /\ all[j] \in Known /\ e \in Known
    <3>1. ToSet(all) \subseteq Known /\ e \in Known
      BY <1>1, <1>6 DEF Known
    <3>2. all[k] \in ToSet(all) /\ all[j] \in ToSet(all)
      BY <1>9, <2>6 DEF ToSet
    <3> QED
      BY <3>1, <3>2
  <2>8. all[k].no < all[j].no
    BY <1>6, <2>6 DEF InOrder
  <2>10. all[k].no \in Nat /\ all[j].no \in Nat /\ e.no \in Nat
    BY <2>7, KnownTypes, EventFacts
  <2>11. all[j].no > e.no
    BY <2>2, <2>8, <2>10
  (* So the last is newer by the length of the list.                       *)
  <2>12. all[m].no - all[j].no >= m - j
    <3> DEFINE f == [i \in 1..m |-> all[i].no]
    <3>1. \A i \in 1..m : f[i] = all[i].no /\ all[i].no \in Int
      BY <1>6, <1>9, EventFacts
    <3>2. \A a, b \in 1..m : a < b => all[a].no < all[b].no
      BY <1>6 DEF InOrder
    <3> HIDE DEF f, m, j
    <3>3. \A a, b \in 1..m : a < b => f[a] < f[b]
      BY <3>1, <3>2
    <3>4. f[m] - f[j] >= m - j
      BY <2>6, <3>1, <3>3, Distance
    <3> QED
      BY <2>6, <3>1, <3>4
  (* But it came with the answer, like e.                                  *)
  <2>13. all[m] \in ToSet(list) /\ all[m] \in EventType
    <3>1. m \notin DOMAIN _eventsCache
      BY <1>5, <1>6, <1>9, <2>5
    <3>2. all[m] \in ToSet(Fresh(list))
      BY <1>6, <1>9, <2>6, <3>1 DEF ToSet
    <3> QED
      BY <1>6, <1>9, <2>6, <3>2
  <2>14. PICK a, b \in DOMAIN list : list[a] = e /\ list[b] = all[m]
    BY <1>12, <2>13 DEF ToSet
  <2>15. all[m].no - e.no = b - a /\ Len(list) <= RingSize /\ a \in 1..Len(list)
         /\ b \in 1..Len(list) /\ Len(list) \in Nat
    BY <1>5, <2>14 DEF Consecutive
  <2>16. all[m].no \in Nat
    BY <2>13, EventFacts
  <2> HIDE DEF m, j
  <2>17. all[m].no - e.no <= CacheSize - 1
    BY <1>5, <2>15
  <2>18. all[m].no - e.no >= CacheSize
    BY <1>5, <2>6, <2>10, <2>11, <2>12, <2>16
  <2> QED
    BY <1>5, <2>10, <2>16, <2>17, <2>18
<1> QED
  BY <1>5, <1>11, <1>12 DEF Overlaps

-----------------------------------------------------------------------------
(* The invariant.                                                          *)

(* An answer in time leaves the page's list in order, and behind the ring. *)
LEMMA InTime ==
  ASSUME Shape, EventsSound, NEW s \in Slots, InOrder(_eventsCache), Ahead(polls[s].events),
         Overlaps(polls[s].events), ~Mistakes(polls[s].events), events' = events,
         _eventsCache' = Merged(polls[s].events)
  PROVE  InOrder(_eventsCache') /\ Ahead(events)'
<1>1. /\ polls[s].events \in Seq(EventType) /\ Consecutive(polls[s].events)
      /\ _eventsCache \in Seq(EventType) /\ CacheSize \in Nat \ {0}
  BY DashboardAssumption DEF Shape, PollType, EventsSound
<1>2. Longer(polls[s].events) \in Seq(EventType) /\ InOrder(Longer(polls[s].events))
  BY <1>1, LongerFacts, LongerInOrder
<1>3. InOrder(_eventsCache')
  BY <1>1, <1>2, NewestKeeps DEF Merged, Longer
<1>4. Ahead(events)'
  BY MergeKeepsAhead DEF Ahead
<1> QED
  BY <1>3, <1>4

(* A poll that has read its events, and no step has overtaken, had read    *)
(* them before, or reads the ring in this step.                            *)
LEMMA FetchedStep ==
  ASSUME Shape, [Next]_vars, NEW s \in Slots, Fetched(polls'[s]), ~polls'[s].overtaken
  PROVE  \/ /\ polls'[s].events = polls[s].events
            /\ Fetched(polls[s]) /\ ~polls[s].overtaken
         \/ polls[s].stage = "events" /\ polls'[s].events = events
<1>1. PollFields(polls[s], polls'[s])
  BY PollSteps, PollFieldsHold DEF PollsStep, Shape
<1> QED
  BY <1>1 DEF PollFields, NoPoll, Fetched

(* A poll that a restart lets down has no sample afterwards.               *)
LEMMA RestartStep ==
  ASSUME Shape, RestartBackend, NEW s \in Slots, Fetched(polls'[s])
  PROVE  polls'[s] = polls[s]
<1>1. polls[s] \in PollType
  BY DEF Shape
<1>2. ASSUME polls[s].stage = "events" PROVE FALSE
  <2>1. polls'[s] = [polls[s] EXCEPT !.stage = "alerts", !.telemetry = NoSample]
    BY <1>2 DEF RestartBackend, WithoutRequest
  <2>2. polls'[s].telemetry = NoSample
    BY <1>1, <2>1 DEF PollType
  <2> QED
    BY <2>2 DEF Fetched
<1> QED
  BY <1>2 DEF RestartBackend

(* Every step keeps the order, shows an answer late or skips an event.      *)
LEMMA OrderStep == Shape /\ EventsSound /\ OrderSound /\ [Next]_vars => OrderSound'
<1> SUFFICES ASSUME Shape, EventsSound, OrderSound, [Next]_vars PROVE OrderSound'
  OBVIOUS
<1>1. late \in BOOLEAN /\ skipped \in BOOLEAN /\ polls \in [Slots -> PollType]
  BY DEF Shape
<1>2. CASE late \/ skipped
  <2>1. late' \/ skipped'
    BY <1>2, ListSteps DEF Show, Answered, RestartBackend, history
  <2> QED
    BY <2>1 DEF OrderSound
<1>3. CASE ~late /\ ~skipped
  <2>1. /\ InOrder(_eventsCache) /\ Ahead(events)
        /\ \A s \in Slots : Fetched(polls[s]) /\ ~polls[s].overtaken
             => Ahead(polls[s].events) /\ Overlaps(polls[s].events)
    BY <1>3 DEF OrderSound
  <2>2. ASSUME NEW e \in EventType, NewEvent(e), UNCHANGED <<polls, _eventsCache, history>>
        PROVE  OrderSound'
    <3>1. \A x \in Known : x.no < e.no
      BY <2>2, RingCounts
    <3>2. ToSet(events') \subseteq ToSet(events) \cup {e}
      BY <2>2, RingFacts DEF NewEvent, Shape
    <3>3. Ahead(events)'
      BY <2>1, <2>2, <3>1, <3>2 DEF Ahead, Known
    <3>4. ASSUME NEW s \in Slots, Fetched(polls[s]), ~polls[s].overtaken
          PROVE  Ahead(polls[s].events)' /\ Overlaps(polls[s].events)'
      <4>1. Ahead(polls[s].events) /\ Overlaps(polls[s].events)
        BY <2>1, <3>4
      <4>2. Ahead(polls[s].events)'
        BY <2>2, <4>1 DEF Ahead
      <4>3. \A x \in ToSet(polls[s].events) \cup ToSet(_eventsCache) : x.no < e.no
        BY <3>1 DEF Known
      <4> QED
        BY <2>2, <3>2, <4>1, <4>2, <4>3 DEF Overlaps
    <3>5. InOrder(_eventsCache)'
      BY <2>1, <2>2 DEF InOrder
    <3> QED
      BY <2>2, <3>3, <3>4, <3>5 DEF OrderSound
  <2>3. CASE RestartBackend /\ events' = <<>> /\ UNCHANGED <<count, _eventsCache, history>>
    <3>1. ToSet(events') = {}
      BY <2>3 DEF ToSet
    <3>2. InOrder(_eventsCache)' /\ Ahead(events)'
      BY <2>1, <2>3, <3>1 DEF InOrder, Ahead
    <3>3. ASSUME NEW s \in Slots, Fetched(polls'[s]), ~polls'[s].overtaken
          PROVE  Ahead(polls[s].events)' /\ Overlaps(polls[s].events)'
      <4>1. polls'[s] = polls[s]
        BY <2>3, <3>3, RestartStep
      <4>2. Ahead(polls[s].events)'
        BY <2>1, <2>3, <3>3, <4>1 DEF Ahead
      <4> QED
        BY <3>1, <4>2 DEF Overlaps
    <3> QED
      BY <3>2, <3>3 DEF OrderSound, Fetched
  <2>4. CASE _eventsCache' = <<>> /\ UNCHANGED <<events, count, polls, history>>
    <3>1. ToSet(_eventsCache') = {}
      BY <2>4 DEF ToSet
    <3>2. InOrder(_eventsCache)'
      BY <2>4 DEF InOrder
    <3>3. \A list : Ahead(list)'
      BY <3>1 DEF Ahead
    <3>4. \A list : Overlaps(list) => \A e \in ToSet(events') :
            e \in ToSet(list) \/ \A x \in ToSet(list) \cup ToSet(_eventsCache') : x.no < e.no
      BY <2>4, <3>1 DEF Overlaps
    <3>5. ASSUME NEW s \in Slots, Fetched(polls'[s]), ~polls'[s].overtaken
          PROVE  Ahead(polls[s].events)' /\ Overlaps(polls[s].events)'
      <4>1. Overlaps(polls[s].events)
        BY <2>1, <2>4, <3>5
      <4>2. Overlaps(polls[s].events)'
        BY <2>4, <3>4, <4>1 DEF Overlaps
      <4>3. Ahead(polls[s].events)'
        BY <3>1 DEF Ahead
      <4> QED
        BY <4>2, <4>3
    <3>6. Ahead(events)'
      BY <3>1 DEF Ahead
    <3> QED
      BY <3>2, <3>5, <3>6 DEF OrderSound, Fetched
  <2>5. ASSUME NEW s \in Slots, Show(s), _eventsCache' = Merged(polls[s].events),
               events' = events
        PROVE  OrderSound'
    <3>1. CASE polls[s].overtaken \/ Mistakes(polls[s].events)
      <4>1. late' \/ skipped'
        BY <2>5, <3>1 DEF Show, Answered
      <4> QED
        BY <4>1 DEF OrderSound
    <3>2. CASE ~polls[s].overtaken /\ ~Mistakes(polls[s].events)
      <4>1. Fetched(polls[s])
        BY <2>5 DEF Show, Fetched
      <4>2. InOrder(_eventsCache') /\ Ahead(events)'
        BY <2>1, <2>5, <3>2, <4>1, InTime
      <4>3. \A o \in Slots : ~(Fetched(polls'[o]) /\ ~polls'[o].overtaken)
        <5>1. ASSUME NEW o \in Slots PROVE ~(Fetched(polls'[o]) /\ ~polls'[o].overtaken)
          <6>1. polls'[o] = IF o = s \/ polls[o].stage = "idle" THEN NoPoll
                            ELSE [polls[o] EXCEPT !.overtaken = TRUE]
            BY <2>5 DEF Show, Answered
          <6> QED
            BY <1>1, <6>1 DEF Fetched, NoPoll, PollType
        <5> QED
          BY <5>1
      <4>4. InOrder(_eventsCache)'
        BY <4>2 DEF InOrder
      <4> QED
        BY <4>2, <4>3, <4>4 DEF OrderSound, Fetched
    <3> QED
      BY <3>1, <3>2
  <2>6. CASE UNCHANGED <<events, count, _eventsCache, history>>
    <3>1. InOrder(_eventsCache)' /\ Ahead(events)'
      BY <2>1, <2>6 DEF InOrder, Ahead
    <3>2. ASSUME NEW s \in Slots, Fetched(polls'[s]), ~polls'[s].overtaken
          PROVE  Ahead(polls[s].events)' /\ Overlaps(polls[s].events)'
      <4>1. PICK list : list = polls'[s].events
        OBVIOUS
      <4>2. Ahead(list) /\ Overlaps(list)
        <5>1. CASE /\ list = polls[s].events /\ Fetched(polls[s]) /\ ~polls[s].overtaken
          BY <2>1, <5>1
        <5>2. CASE list = events
          BY <2>1, <5>2 DEF Overlaps
        <5> QED
          BY <3>2, <4>1, <5>1, <5>2, FetchedStep
      <4>3. Ahead(polls[s].events)'
        BY <2>6, <4>1, <4>2 DEF Ahead
      <4>4. Overlaps(polls[s].events)'
        BY <2>6, <4>1, <4>2 DEF Overlaps
      <4> QED
        BY <4>3, <4>4
    <3> QED
      BY <3>1, <3>2 DEF OrderSound, Fetched
  <2> QED
    BY <2>2, <2>3, <2>4, <2>5, <2>6, ListSteps
<1> QED
  BY <1>1, <1>2, <1>3

(* The program starts with nothing read, shown or listed.                  *)
LEMMA InitInv == Init => IndInv
<1> SUFFICES ASSUME Init PROVE IndInv
  OBVIOUS
<1>1. /\ telemetry = NoSample /\ events = <<>> /\ polls = [s \in Slots |-> NoPoll]
      /\ page = [live |-> "none", telemetry |-> NoSample, alerts |-> NoSample]
      /\ _eventsCache = <<>> /\ samples = 0 /\ count = 0 /\ incidents = 0
      /\ late = FALSE /\ skipped = FALSE
  BY DEF Init
<1>2. NoSample = 0 /\ NoSample \in SampleType /\ MaxHappenings \in Nat
  BY DashboardAssumption DEF NoSample, SampleType
<1>3. <<>> \in Seq(EventType) /\ Len(<<>>) = 0 /\ 0 <= RingSize /\ 0 <= CacheSize
  BY DashboardAssumption, EmptySeq
<1>4. NoPoll \in PollType /\ page \in PageType
  BY <1>1, <1>2, <1>3 DEF NoPoll, PollType, PageType
<1>5. Shape
  <2>1. /\ samples \in Nat /\ count \in Nat /\ samples + count <= MaxHappenings
        /\ incidents \in Nat
    BY <1>1, <1>2
  <2>2. /\ events \in Seq(EventType) /\ Len(events) <= RingSize
        /\ _eventsCache \in Seq(EventType) /\ Len(_eventsCache) <= CacheSize
    BY <1>1, <1>3, Zenon
  <2>3. polls \in [Slots -> PollType]
    BY <1>1, <1>4
  <2> QED
    BY <1>1, <1>4, <2>1, <2>2, <2>3 DEF Shape
<1>6. SamplesSound
  BY <1>1, <1>2 DEF SamplesSound, PollSound, NoPoll, AlertsNotStale
<1>7. ToSet(<<>>) = {} /\ Consecutive(<<>>) /\ IsInjective(<<>>) /\ InOrder(<<>>)
  BY DashboardAssumption DEF ToSet, Consecutive, IsInjective, InOrder
<1>8. \A s \in Slots : polls[s] = NoPoll /\ polls[s].events = <<>>
  BY <1>1 DEF NoPoll
<1>9. Known = {}
  BY <1>1, <1>7, <1>8 DEF Known
<1>10. EventsSound
  BY <1>1, <1>7, <1>8, <1>9 DEF EventsSound
<1>11. OrderSound
  BY <1>1, <1>7, <1>8 DEF OrderSound, Ahead, Fetched, NoPoll
<1> QED
  BY <1>1, <1>5, <1>6, <1>7, <1>10, <1>11 DEF IndInv

(* The inductive invariant of the way from the backend to the screen.      *)
THEOREM Invariance == Spec => []IndInv
<1>1. IndInv /\ [Next]_vars => IndInv'
  BY ShapeStep, SamplesStep, EventsStep, InjectiveStep, OrderStep DEF IndInv
<1> QED
  BY <1>1, InitInv, PTL DEF Spec

-----------------------------------------------------------------------------
(* The theorems.                                                           *)

(* Every variable keeps its type, and ring and list their size.            *)
THEOREM TypeCorrect == Spec => []TypeOK
<1>1. IndInv => TypeOK
  <2> SUFFICES ASSUME Shape PROVE TypeOK
    BY DEF IndInv
  <2>1. telemetry \in SampleType
    BY DashboardAssumption DEF Shape, SampleType, NoSample
  <2>2. ASSUME NEW s \in Slots
        PROVE  /\ polls[s].stage \in {"idle", "telemetry", "events", "alerts", "answer"}
               /\ {polls[s].telemetry, polls[s].alerts} \subseteq SampleType
               /\ polls[s].events \in Seq(EventType)
    BY DEF Shape, PollType
  <2>3. /\ page.live \in {"none", "Live", "No data", "Connection error"}
        /\ {page.telemetry, page.alerts} \subseteq SampleType
    BY DEF Shape, PageType
  <2> QED
    BY <2>1, <2>2, <2>3 DEF Shape, TypeOK
<1> QED
  BY <1>1, Invariance, PTL

(* The alert panel is not older than the telemetry beside it.              *)
THEOREM AlertsCorrect == Spec => []AlertsNotStale
<1>1. IndInv => AlertsNotStale
  BY DEF IndInv, SamplesSound
<1> QED
  BY <1>1, Invariance, PTL

(* The list shows no event twice, and is in order until an answer is shown *)
(* late or an event of it is taken for another.                            *)
THEOREM ListCorrect == Spec => []ListSound
<1>1. IndInv => ListSound
  BY DEF IndInv, OrderSound, ListSound, ListedOnce, DisorderExplained
<1> QED
  BY <1>1, Invariance, PTL

(* Only the answer of an overtaken poll takes the screen back in time.     *)
THEOREM BackwardsOnlyByOverlap == Spec => BackOnlyByOverlap
<1> DEFINE Back == page'.telemetry < page.telemetry
                     => \E s \in Slots : polls[s].overtaken /\ polls'[s] = NoPoll
<1>1. IndInv /\ [Next]_vars => [Back]_vars
  <2> SUFFICES ASSUME Shape, SamplesSound, [Next]_vars, page'.telemetry < page.telemetry
               PROVE  \E s \in Slots : polls[s].overtaken /\ polls'[s] = NoPoll
    BY DEF IndInv
  <2>1. page.telemetry \in Nat
    <3>1. SampleType \subseteq Nat
      BY DEF SampleType
    <3> QED
      BY <3>1 DEF Shape, PageType
  <2>2. page'.telemetry # page.telemetry
    BY <2>1
  <2>3. PICK s \in Slots : /\ polls[s].telemetry # NoSample
                           /\ page'.telemetry = polls[s].telemetry /\ polls'[s] = NoPoll
    BY <2>2, SampleSteps
  <2>4. polls[s].telemetry \in Nat
    BY DEF Shape, PollType, SampleType
  <2>5. polls[s].telemetry = NoSample \/ polls[s].overtaken
          \/ polls[s].telemetry >= page.telemetry
    BY DEF SamplesSound, PollSound
  <2> QED
    BY <2>1, <2>3, <2>4, <2>5
<1> QED
  BY <1>1, Invariance, PTL DEF Spec, BackOnlyByOverlap
=============================================================================
