---------------------------- MODULE Notifications ----------------------------
(***************************************************************************)
(* The offer notifications of transaction_listener: the consumer of        *)
(* recommendations.created under its supervisor, the chain of channels it  *)
(* tries for an offer, and the channel written to the offer's row, which   *)
(* mobile_api writes as well when it shows the offer.                      *)
(*                                                                         *)
(* The topic has one partition, an offer one event.  Offsets are committed *)
(* automatically, past the whole batch: a killed process loses the rest of *)
(* its batch or gets it again.  The other loop of the process, the         *)
(* listener's, is there to be supervised; module ListenerOffsets has it.   *)
(***************************************************************************)
EXTENDS Integers, Sequences, FiniteSets, FiniteSetsExt

CONSTANTS Offers,      \* 1 .. n, in the order of their events
          Reach,       \* for each offer, the adapters whose can_handle holds
          BatchSize,   \* max_records of getmany
          MaxFaults,   \* bound: deliveries and records that fail
          MaxCrashes   \* bound: loops that crash or return, processes killed

Chain == <<"push", "in_app", "email", "sms">>
Adapters == {Chain[i] : i \in DOMAIN Chain}

ASSUME NotificationsAssumption ==
  /\ IsFiniteSet(Offers) /\ Offers = 1 .. Cardinality(Offers)
  /\ Reach \in [Offers -> SUBSET Adapters]
  /\ BatchSize \in Nat \ {0}
  /\ MaxFaults \in Nat /\ MaxCrashes \in Nat

None == "none"
Loops == {"listener", "notification"}

VARIABLES end,        \* events published so far
          confirmed,  \* the group's offset
          fetched,    \* events fetched so far
          task,       \* the event being processed, its channels, its progress
          loop,       \* the supervised loops
          stopping,   \* stop_event
          sent,       \* the channels by which an offer reached its client
          channel,    \* recommendations.channel
          handled,    \* events _process has returned for
          faults, crashes,
          killed      \* the process has been killed

noticeVars == <<end, confirmed, fetched, task, loop, stopping, sent, channel, handled,
                faults, crashes, killed>>

NoTask == [event |-> 0, phase |-> "poll", allowed |-> {}, tried |-> 0, by |-> None]

Running == loop["notification"] = "running"

\* The event after this one, or the next poll at the end of the batch.
NextEvent == IF task.event < fetched
             THEN [NoTask EXCEPT !.event = task.event + 1, !.phase = "decide"]
             ELSE NoTask

Finish == /\ handled' = handled \cup {task.event}
          /\ task' = NextEvent

-----------------------------------------------------------------------------
\* recommendation_api publishes after the offer's row is written.
Publish ==
  /\ end < Cardinality(Offers)
  /\ end' = end + 1
  /\ UNCHANGED <<confirmed, fetched, task, loop, stopping, sent, channel, handled,
                 faults, crashes, killed>>

\* run: getmany
Fetch ==
  /\ Running /\ task.phase = "poll" /\ ~stopping
  /\ fetched < end
  /\ \E n \in 1 .. BatchSize :
       /\ fetched + n <= end
       /\ fetched' = fetched + n
       /\ task' = [NoTask EXCEPT !.event = fetched + 1, !.phase = "decide"]
  /\ UNCHANGED <<end, confirmed, loop, stopping, sent, channel, handled, faults, crashes, killed>>

\* The consumer's background task commits what was fetched.
AutoCommit ==
  /\ Running
  /\ confirmed < fetched
  /\ confirmed' = fetched
  /\ UNCHANGED <<end, fetched, task, loop, stopping, sent, channel, handled,
                 faults, crashes, killed>>

\* _process, should_deliver_now: outside the client's hours only in_app is left.
Decide(active) ==
  /\ Running /\ task.phase = "decide"
  /\ task' = [task EXCEPT !.phase = "chain",
                          !.allowed = IF active THEN Reach[task.event]
                                      ELSE Reach[task.event] \cap {"in_app"}]
  /\ UNCHANGED <<end, confirmed, fetched, loop, stopping, sent, channel, handled,
                 faults, crashes, killed>>

\* The adapters after the last one tried that can handle the event.
Left == {i \in DOMAIN Chain : i > task.tried /\ Chain[i] \in task.allowed}

\* Its channel is recorded, once the adapter has delivered.
AfterAdapter(delivered) == IF delivered THEN "record" ELSE "chain"

\* ChannelSelector.deliver, one adapter: it delivers, it fails, or it fails
\* with the message on its way (a push that timed out, an LPUSH whose EXPIRE
\* failed).  The SMS adapter is a stub that never fails.
Deliver(delivered, effect) ==
  /\ Running /\ task.phase = "chain" /\ Left # {}
  /\ LET adapter == Chain[Min(Left)]
     IN /\ delivered => effect
        /\ ~delivered => adapter # "sms" /\ faults < MaxFaults
        /\ effect /\ ~delivered => adapter \in {"push", "in_app"}
        /\ sent' = [sent EXCEPT ![task.event] = IF effect THEN @ \cup {adapter} ELSE @]
        /\ task' = [task EXCEPT !.phase = AfterAdapter(delivered),
                                !.tried = Min(Left), !.by = adapter]
  /\ faults' = IF delivered THEN faults ELSE faults + 1
  /\ UNCHANGED <<end, confirmed, fetched, loop, stopping, channel, handled, crashes, killed>>

\* No adapter is left: no_channel.
NoChannel ==
  /\ Running /\ task.phase = "chain" /\ Left = {}
  /\ Finish
  /\ UNCHANGED <<end, confirmed, fetched, loop, stopping, sent, channel, faults, crashes, killed>>

\* Mutant: the UPDATE does not look at the channel there is.
Overwritten(old, new) == new

\* UPDATE ... SET channel WHERE channel IS NULL
Recorded(old, new) == IF old = None THEN new ELSE old

\* DeliveryChannelRecorder.record
Record ==
  /\ Running /\ task.phase = "record"
  /\ channel' = [channel EXCEPT ![task.event] = Recorded(@, task.by)]
  /\ Finish
  /\ UNCHANGED <<end, confirmed, fetched, loop, stopping, sent, faults, crashes, killed>>

\* ... best effort: Postgres may fail, and nobody tries again
RecordFails ==
  /\ Running /\ task.phase = "record"
  /\ faults < MaxFaults
  /\ faults' = faults + 1
  /\ Finish
  /\ UNCHANGED <<end, confirmed, fetched, loop, stopping, sent, channel, crashes, killed>>

\* Mutant: the exception ends the batch.
RestOfBatch == NoTask

\* An exception of _process, for one event; the next one is processed.
AfterError == NextEvent
ProcessFails ==
  /\ Running /\ task.phase \in {"decide", "chain", "record"}
  /\ faults < MaxFaults
  /\ faults' = faults + 1
  /\ handled' = handled \cup {task.event}
  /\ task' = AfterError
  /\ UNCHANGED <<end, confirmed, fetched, loop, stopping, sent, channel, crashes, killed>>

\* mobile_api shows the offer: GET recommendations marks it IN_APP.
ShowInApp(o) ==
  /\ "in_app" \notin sent[o] \/ channel[o] = None
  /\ sent' = [sent EXCEPT ![o] = @ \cup {"in_app"}]
  /\ channel' = [channel EXCEPT ![o] = Recorded(@, "in_app")]
  /\ UNCHANGED <<end, confirmed, fetched, task, loop, stopping, handled, faults, crashes, killed>>

-----------------------------------------------------------------------------
\* A loop's run() raises or returns.  The notification loop's does so at
\* getmany, between two batches, and closing its consumer commits.
LoopBreaks(l, how) ==
  /\ loop[l] = "running" /\ ~stopping
  /\ crashes < MaxCrashes
  /\ l = "notification" => task.phase = "poll"
  /\ loop' = [loop EXCEPT ![l] = how]
  /\ confirmed' = IF l = "notification" THEN fetched ELSE confirmed
  /\ crashes' = crashes + 1
  /\ UNCHANGED <<end, fetched, task, stopping, sent, channel, handled, faults, killed>>

\* supervise: both are followed by a pause and another run().
Again(how) == "running"
Supervise(l) ==
  /\ loop[l] \in {"crashed", "returned"} /\ ~stopping
  /\ loop' = [loop EXCEPT ![l] = Again(loop[l])]
  /\ UNCHANGED <<end, confirmed, fetched, task, stopping, sent, channel, handled,
                 faults, crashes, killed>>

\* SIGTERM, or, in _serve, a supervisor that came to its end
Stop ==
  /\ ~stopping
  /\ stopping' = TRUE
  /\ UNCHANGED <<end, confirmed, fetched, task, loop, sent, channel, handled,
                 faults, crashes, killed>>

\* _serve: the tasks are cancelled wherever they are, the consumer is closed.
Shutdown ==
  /\ stopping \/ \E l \in Loops : loop[l] = "ended"
  /\ \E l \in Loops : loop[l] # "stopped"
  /\ loop' = [l \in Loops |-> "stopped"]
  /\ confirmed' = fetched
  /\ task' = NoTask
  /\ UNCHANGED <<end, fetched, stopping, sent, channel, handled, faults, crashes, killed>>

\* The process is killed and started again, with nothing in memory.
Kill ==
  /\ ~stopping /\ crashes < MaxCrashes
  /\ loop' = [l \in Loops |-> "running"]
  /\ fetched' = confirmed
  /\ task' = NoTask
  /\ crashes' = crashes + 1
  /\ killed' = TRUE
  /\ UNCHANGED <<end, confirmed, stopping, sent, channel, handled, faults>>

-----------------------------------------------------------------------------
NoticesInit ==
  /\ end = 0 /\ confirmed = 0 /\ fetched = 0
  /\ task = NoTask
  /\ loop = [l \in Loops |-> "running"]
  /\ stopping = FALSE
  /\ sent = [o \in Offers |-> {}]
  /\ channel = [o \in Offers |-> None]
  /\ handled = {}
  /\ faults = 0 /\ crashes = 0 /\ killed = FALSE

Consumer == \/ Fetch \/ (\E active \in BOOLEAN : Decide(active))
            \/ (\E delivered, effect \in BOOLEAN : Deliver(delivered, effect))
            \/ NoChannel \/ Record \/ RecordFails \/ ProcessFails

NoticesNext ==
  \/ Publish \/ Consumer \/ AutoCommit
  \/ \E o \in Offers : ShowInApp(o)
  \/ \E l \in Loops : (\E how \in {"crashed", "returned"} : LoopBreaks(l, how)) \/ Supervise(l)
  \/ Stop \/ Shutdown \/ Kill

NoticesSpec == NoticesInit /\ [][NoticesNext]_noticeVars

\* The event loop runs the tasks; nobody has to publish, to show or to stop.
NoticesFairness ==
  /\ WF_noticeVars(Consumer) /\ WF_noticeVars(Shutdown)
  /\ \A l \in Loops : WF_noticeVars(Supervise(l))

FairNoticesSpec == NoticesSpec /\ NoticesFairness

-----------------------------------------------------------------------------
\* Every variable keeps its type; no offset lies beyond what it follows.
NoticesTypeOK ==
  /\ {end, confirmed, fetched} \subseteq Offers \cup {0}
  /\ confirmed <= fetched /\ fetched <= end
  /\ task \in [event : Offers \cup {0}, phase : {"poll", "decide", "chain", "record"},
               allowed : SUBSET Adapters, tried : 0 .. Len(Chain),
               by : Adapters \cup {None}]
  /\ loop \in [Loops -> {"running", "crashed", "returned", "ended", "stopped"}]
  /\ stopping \in BOOLEAN
  /\ sent \in [Offers -> SUBSET Adapters]
  /\ channel \in [Offers -> Adapters \cup {None}]
  /\ handled \subseteq Offers
  /\ faults \in 0 .. MaxFaults /\ crashes \in 0 .. MaxCrashes
  /\ killed \in BOOLEAN

(***************************************************************************)
(* delivery.py:3: the channel in an offer's row is one by which the offer  *)
(* really reached its client, whatever adapters failed on the way, with or *)
(* without an effect, and however often the event came.                    *)
(***************************************************************************)
RecordedWasDelivered == \A o \in Offers : channel[o] \in sent[o] \cup {None}

(***************************************************************************)
(* delivery.py:7: the channel is written once, by the dispatch or by the   *)
(* app; neither a second delivery nor a later show changes it.             *)
(***************************************************************************)
ChannelIsFinal ==
  [][\A o \in Offers : channel[o] # None => channel'[o] = channel[o]]_noticeVars

(***************************************************************************)
(* delivery.py: the channel in an offer's row is always one by which the   *)
(* offer reached its client, and no second delivery or later show changes  *)
(* it.                                                                     *)
(***************************************************************************)
ChannelIsTrue == []RecordedWasDelivered /\ ChannelIsFinal

(***************************************************************************)
(* main.py:215: whatever fails for one event of a batch, the others of the *)
(* batch are not skipped.  Until the process is killed or told to stop,    *)
(* an event that was fetched has been handled or is still in the batch,    *)
(* although its offset may be committed already.                           *)
(***************************************************************************)
InBatch == IF task.phase = "poll" THEN {} ELSE task.event .. fetched
FetchedIsHandled ==
  killed \/ stopping \/ \A e \in 1 .. fetched : e \in handled \cup InBatch

(***************************************************************************)
(* An event is processed in the end, unless the process was killed or is   *)
(* shut down: neither a failed event before it in its batch nor a crash of *)
(* either loop loses it (main.py:215, "best effort, per message").         *)
(***************************************************************************)
EventsAreHandled ==
  \A o \in Offers : o <= end ~> o \in handled \/ killed \/ stopping

(***************************************************************************)
(* main.py:9: a loop that crashed or returned runs again, and never takes  *)
(* the other loop down with it, until the process is told to stop.         *)
(***************************************************************************)
LoopsKeepRunning == \A l \in Loops : []<>(loop[l] = "running" \/ stopping)
=============================================================================
