----------------------------- MODULE Dashboard -----------------------------
(***************************************************************************)
(* From the backend's memory to the screen: Storage and the read routes of *)
(* backend/main.py, the poll route of dashboard/app.py, and the page       *)
(* (dashboard.js).                                                         *)
(*                                                                         *)
(* The page starts a poll every 1.5 s, whether or not the last one has     *)
(* been answered.  app.py serves each poll in a thread with three requests *)
(* to the backend, and the first of them takes the lock of Storage twice,  *)
(* so a poll is a process of several reads that interleaves with the MQTT  *)
(* thread of the backend and with other polls.  Its answer is shown in one *)
(* step: JavaScript runs to completion.  The last read, of the health      *)
(* score, is like that of the alerts and left out.                         *)
(*                                                                         *)
(* Samples and events are numbered.  Alerts are known by the sample they   *)
(* were derived from, an event also by its key: the time and message by    *)
(* which the page tells events apart.                                      *)
(***************************************************************************)
EXTENDS Integers, SequencesExt, Selection

CONSTANTS
  RingSize,      \* 200 events in Storage.events
  CacheSize,     \* 200 events in _eventsCache
  Slots,         \* bound: polls under way at once
  MaxHappenings, \* bound: samples, events and incidents, which are failed
                 \* requests, restarts and clicks on "clear"
  Alarming       \* the samples from which an alert is derived

ASSUME DashboardAssumption ==
  /\ RingSize \in Nat \ {0} /\ CacheSize \in Nat \ {0} /\ RingSize <= CacheSize
  /\ MaxHappenings \in Nat /\ Alarming \subseteq 1..MaxHappenings

VARIABLES
  \* Storage
  telemetry,     \* the last sample, which Storage.alerts were derived from
  events,        \* the ring
  \* the polls under way
  polls,
  \* the page
  page,          \* what the panels show
  _eventsCache,  \* what the event list shows
  \* history and bounds
  samples, count, incidents,
  late,          \* whether an overtaken answer was ever shown
  skipped        \* whether an event was ever taken for another that is listed

storage == <<telemetry, events>>
bounds == <<samples, count, incidents>>
history == <<late, skipped>>
vars == <<storage, polls, page, _eventsCache, bounds, history>>

NoSample == 0      \* {} for telemetry and score, [] for alerts
SampleType == 0..MaxHappenings
EventType == [no : 1..MaxHappenings, key : 1..MaxHappenings]

(* overtaken: history, whether another answer was shown meanwhile.         *)
NoPoll == [stage |-> "idle", telemetry |-> NoSample, events |-> <<>>,
           alerts |-> NoSample, overtaken |-> FALSE]

Init ==
  /\ telemetry = NoSample
  /\ events = <<>>
  /\ polls = [s \in Slots |-> NoPoll]
  /\ page = [live |-> "none", telemetry |-> NoSample, alerts |-> NoSample]
  /\ _eventsCache = <<>>
  /\ samples = 0 /\ count = 0 /\ incidents = 0
  /\ late = FALSE /\ skipped = FALSE

-----------------------------------------------------------------------------
(* on_message of the backend.                                              *)

MoreHappens == samples + count + incidents < MaxHappenings   \* bound

UpdateTelemetry ==
  /\ MoreHappens
  /\ samples' = samples + 1
  /\ telemetry' = samples + 1
  /\ UNCHANGED <<events, polls, page, _eventsCache, count, incidents, history>>

CutLate(ring) == IF Len(ring) > RingSize + 1 THEN Tail(ring) ELSE ring   \* variation
Cut(ring) == IF Len(ring) > RingSize THEN Tail(ring) ELSE ring

(* Storage.add_event, from the device or from /command.  An event may have *)
(* the second and the message of any other, whatever came in between.      *)
AddEvent ==
  /\ MoreHappens
  /\ count' = count + 1
  /\ \E key \in 1..(count + 1) :
       events' = Cut(Append(events, [no |-> count + 1, key |-> key]))
  /\ UNCHANGED <<telemetry, polls, page, _eventsCache, samples, incidents, history>>

-----------------------------------------------------------------------------
(* One poll: loadDashboard() up to its first await, then app.py.           *)

StartPoll ==
  \E s \in Slots :
    /\ polls[s].stage = "idle"
    /\ polls' = [polls EXCEPT ![s].stage = "telemetry"]
    /\ UNCHANGED <<storage, page, _eventsCache, bounds, history>>

PollGoesOn(s, poll) ==
  /\ polls' = [polls EXCEPT ![s] = poll]
  /\ UNCHANGED <<storage, page, _eventsCache, samples, count, history>>

ReadTelemetry(s) ==
  /\ polls[s].stage = "telemetry"
  /\ PollGoesOn(s, [polls[s] EXCEPT !.stage = "events", !.telemetry = telemetry])
  /\ UNCHANGED incidents

ReadEvents(s) ==
  /\ polls[s].stage = "events"
  /\ PollGoesOn(s, [polls[s] EXCEPT !.stage = "alerts", !.events = events])
  /\ UNCHANGED incidents

ReadAlerts(s) ==
  /\ polls[s].stage = "alerts"
  /\ PollGoesOn(s, [polls[s] EXCEPT !.stage = "answer", !.alerts = telemetry])
  /\ UNCHANGED incidents

(* A request to the backend fails or times out: app.py goes on without it. *)
WithoutRequest(poll) ==
  IF poll.stage = "alerts" THEN [poll EXCEPT !.stage = "answer"]
  ELSE [poll EXCEPT !.stage = "alerts", !.telemetry = NoSample]

RequestFails(s) ==
  /\ polls[s].stage \in {"telemetry", "events", "alerts"}
  /\ MoreHappens
  /\ incidents' = incidents + 1
  /\ PollGoesOn(s, WithoutRequest(polls[s]))

(* The backend keeps everything in memory; a request that has done one of  *)
(* its reads dies with it.                                                 *)
RestartBackend ==
  /\ MoreHappens
  /\ incidents' = incidents + 1
  /\ telemetry' = NoSample
  /\ events' = <<>>
  /\ polls' = [s \in Slots |-> IF polls[s].stage = "events" THEN WithoutRequest(polls[s])
                              ELSE polls[s]]
  /\ UNCHANGED <<page, _eventsCache, samples, count, history>>

-----------------------------------------------------------------------------
(* The page.                                                               *)

Keys(list) == {e.key : e \in ToSet(list)}

Fresh(list) == Selected(list, {e \in EventType : e.key \notin Keys(_eventsCache)})
Newest(list, size) ==
  SubSeq(list, (IF Len(list) > size THEN Len(list) - size ELSE 0) + 1, Len(list))

(* Variations: events are not told apart; one too few is kept.             *)
MergedBlindly(list) == Newest(_eventsCache \o list, CacheSize)
MergedShort(list) == Newest(_eventsCache \o Fresh(list), CacheSize - 1)

(* updateEvents                                                            *)
Merged(list) == Newest(_eventsCache \o Fresh(list), CacheSize)

(* An event of the list is not listed, and another with its key is.        *)
Mistakes(list) ==
  \E e \in ToSet(list) \ ToSet(_eventsCache) : e.key \in Keys(_eventsCache)

(* The answer of poll s is shown: its slot is free, and it has overtaken   *)
(* the polls that are still under way.                                     *)
Answered(s) ==
  /\ polls' = [o \in Slots |->
                 IF o = s \/ polls[o].stage = "idle" THEN NoPoll
                 ELSE [polls[o] EXCEPT !.overtaken = TRUE]]
  /\ late' = (late \/ polls[s].overtaken)
  /\ skipped' = (skipped \/ Mistakes(polls[s].events))

(* Variation: the panels are emptied.                                      *)
ShowNothingBlank(s) ==
  /\ polls[s].stage = "answer"
  /\ polls[s].telemetry = NoSample
  /\ page' = [live |-> "No data", telemetry |-> NoSample, alerts |-> NoSample]
  /\ polls' = [polls EXCEPT ![s] = NoPoll]
  /\ UNCHANGED <<storage, _eventsCache, bounds, history>>

ShowNothing(s) ==
  /\ polls[s].stage = "answer"
  /\ polls[s].telemetry = NoSample
  /\ page' = [page EXCEPT !.live = "No data"]
  /\ polls' = [polls EXCEPT ![s] = NoPoll]
  /\ UNCHANGED <<storage, _eventsCache, bounds, history>>

(* Variation: without an answer about alerts the panel stays as it is.     *)
ShowKeepingAlerts(s) ==
  /\ polls[s].stage = "answer"
  /\ polls[s].telemetry # NoSample
  /\ page' = [live |-> "Live", telemetry |-> polls[s].telemetry,
              alerts |-> IF polls[s].alerts = NoSample THEN page.alerts ELSE polls[s].alerts]
  /\ _eventsCache' = Merged(polls[s].events)
  /\ Answered(s)
  /\ UNCHANGED <<storage, bounds>>

Show(s) ==
  /\ polls[s].stage = "answer"
  /\ polls[s].telemetry # NoSample
  /\ page' = [live |-> "Live", telemetry |-> polls[s].telemetry, alerts |-> polls[s].alerts]
  /\ _eventsCache' = Merged(polls[s].events)
  /\ Answered(s)
  /\ UNCHANGED <<storage, bounds>>

(* The page's own request fails.                                           *)
PollFails(s) ==
  /\ polls[s].stage # "idle"
  /\ MoreHappens
  /\ incidents' = incidents + 1
  /\ page' = [page EXCEPT !.live = "Connection error"]
  /\ polls' = [polls EXCEPT ![s] = NoPoll]
  /\ UNCHANGED <<storage, _eventsCache, samples, count, history>>

ClearEventsView ==
  /\ MoreHappens
  /\ incidents' = incidents + 1
  /\ _eventsCache' = <<>>
  /\ UNCHANGED <<storage, polls, page, samples, count, history>>

Advance(s) == ReadTelemetry(s) \/ ReadEvents(s) \/ ReadAlerts(s)
                \/ ShowNothing(s) \/ Show(s)

Next ==
  \/ UpdateTelemetry
  \/ AddEvent
  \/ RestartBackend
  \/ StartPoll
  \/ \E s \in Slots : Advance(s) \/ RequestFails(s) \/ PollFails(s)
  \/ ClearEventsView

(* setInterval() starts polls for ever; each of their requests is answered *)
(* or runs into its timeout of two seconds.                                *)
Spec == Init /\ [][Next]_vars /\ WF_vars(StartPoll) /\ \A s \in Slots : WF_vars(Advance(s))

-----------------------------------------------------------------------------
(* PROPERTIES                                                              *)

(* Every variable keeps its type, and ring and cache their size.           *)
TypeOK ==
  /\ telemetry \in SampleType
  /\ events \in Seq(EventType) /\ Len(events) <= RingSize
  /\ \A s \in Slots :
       /\ polls[s].stage \in {"idle", "telemetry", "events", "alerts", "answer"}
       /\ {polls[s].telemetry, polls[s].alerts} \subseteq SampleType
       /\ polls[s].events \in Seq(EventType)
  /\ page.live \in {"none", "Live", "No data", "Connection error"}
  /\ {page.telemetry, page.alerts} \subseteq SampleType
  /\ _eventsCache \in Seq(EventType) /\ Len(_eventsCache) <= CacheSize

(* No event is listed twice, although every poll brings the whole ring and *)
(* answers arrive in any order.                                            *)
ListedOnce == IsInjective(_eventsCache)

(* The panels of one answer mix several reads, but only forward: the alert *)
(* panel is never older than the telemetry beside it, unless its request   *)
(* failed or the backend restarted.                                        *)
AlertsNotStale == page.alerts = NoSample \/ page.alerts >= page.telemetry

(* The screen goes back in time only with the answer of a poll that was    *)
(* under way while another answer was shown.                               *)
BackOnlyByOverlap ==
  [][page'.telemetry < page.telemetry
       => \E s \in Slots : polls[s].overtaken /\ polls'[s] = NoPoll]_vars

(* The list is in the order of the events as long as no answer came late   *)
(* and no event was taken for another of the same second and message.  One *)
(* late answer is enough to disorder it for several polls to come.  So is  *)
(* an event that was left out for its twin: it comes back as the newest    *)
(* when the twin has been pushed out, and may push out others in turn.     *)
InOrder(list) == \A i, j \in 1..Len(list) : i < j => list[i].no < list[j].no
DisorderExplained == late \/ skipped \/ InOrder(_eventsCache)

(* The list as a whole.                                                    *)
ListSound == ListedOnce /\ DisorderExplained

(* When the device falls silent, the list comes to show every event the    *)
(* backend holds and stays so, provided the backend has a sample, without  *)
(* which the page shows no events either: the merge of the whole ring into *)
(* a list of the same size does not push out in one poll what it added in  *)
(* another.                                                                *)
ListSettles == <>[](telemetry # NoSample => Keys(events) \subseteq Keys(_eventsCache))

-----------------------------------------------------------------------------
(* WHAT THE REPOSITORY SAYS OF THE PAGE, where the code does otherwise     *)

(* dashboard.js:140: an empty alert list reads "All systems nominal".      *)
NominalIsTrue ==
  (page.live = "Live" /\ page.alerts \notin Alarming)
     => page.telemetry \notin Alarming \/ page.alerts > page.telemetry
=============================================================================
