--------------------------- MODULE ThroughputTest ---------------------------
(***************************************************************************)
(* The throughput test: one ThroughputPublisher and its subscribers, run   *)
(* with static types and without loans (the defaults of the command line). *)
(*                                                                         *)
(* Both mains are single threads that exchange commands; the subscriber's  *)
(* data callback counts samples.  For every payload size the publisher     *)
(* announces TYPE_NEW, waits for the matches, runs its tests (one for each *)
(* demand and recovery time) and disposes of the type; a test is           *)
(* READY_TO_START, a BEGIN of every subscriber, TEST_STARTS, the bursts,   *)
(* TEST_ENDS and a TEST_RESULTS of every subscriber.                       *)
(*                                                                         *)
(* Commands are reliable, acknowledged by the middleware when it has them, *)
(* and read in order.  The publisher reads with a timeout of 20 seconds.   *)
(* Samples may be lost, and those still on their way when a subscriber     *)
(* clears its reader are counted in the next test.  A match is one step of *)
(* discovery for each side; a removal is seen by the other side at once.   *)
(* The callbacks of discovery set matched_ and notify without the mutex of *)
(* the thread that waits for it: a thread between its predicate and its    *)
(* sleep misses the notification.                                          *)
(***************************************************************************)
EXTENDS Integers, Sequences, FiniteSets

CONSTANTS Subscribers,   \* the subscribers the publisher is told to expect
          Demands,       \* demand_payload_: for each payload size, the samples of a
                         \* burst in the tests it is used in
          Recoveries,    \* the number of recovery times for each demand
          MaxBursts,     \* bound on the bursts of a test
          MaxFaults      \* bound on failing calls and on reads that time out

ASSUME SubscribersAssumption == IsFiniteSet(Subscribers) /\ Subscribers # {}
ASSUME DemandsAssumption == /\ Demands \in Seq(Seq(Nat \ {0})) /\ Demands # <<>>
                            /\ \A i \in 1..Len(Demands) : Demands[i] # <<>>
ASSUME TestsAssumption == {Recoveries, MaxBursts} \subseteq Nat \ {0}
ASSUME MaxFaultsAssumption == MaxFaults \in Nat

VARIABLES
    pubPc,        \* where ThroughputPublisher::run or test is
    size, demand, recovery,   \* its three loops
    pubOpen,      \* its data writer exists
    last,         \* command of run(): what was written or taken last
    ready,        \* subscribers_ready, or num_results_received in test()
    samples,      \* the samples sent in this test
    results,      \* results_
    testFailure,  \* test_failure of run()
    subPc,        \* where each subscriber's run is
    subOpen,      \* its data reader exists
    enabled,      \* enable_ of its data listener
    lastSeq, lost, received,  \* the counters of its data listener
    subSaved,     \* what save_numbers kept
    pubMatches,   \* matched_ of the publisher's listeners, per subscriber
    subMatches,   \* matched_ of each subscriber's listeners
    linked,       \* each subscriber's reader has been told of the writer
    pubMissed,    \* the publisher sleeps on a notification it has missed
    subMissed,    \* and each subscriber
    commandTo,    \* the commands each subscriber has not read
    inbox,        \* the commands the publisher has not read
    data,         \* the samples on their way to each subscriber
    failures,     \* calls that failed
    test,         \* the number of the test, in the order they are started
    subTest,      \* the test each subscriber has been rigged for
    from,         \* the subscribers counted in the current reading loop
    timeouts,     \* reads that timed out for want of a subscriber's command
    late          \* a sample survived the clearing of its reader

pubVars == <<pubPc, size, demand, recovery, pubOpen, last, ready, samples, results,
             testFailure>>
listenerVars == <<enabled, lastSeq, lost, received, subSaved>>
subVars == <<subPc, subOpen, listenerVars>>
matchVars == <<pubMatches, subMatches, linked, pubMissed, subMissed>>
channelVars == <<commandTo, inbox, data>>
historyVars == <<failures, test, subTest, from, timeouts, late>>
vars == <<pubVars, subVars, matchVars, channelVars, historyVars>>

N == Cardinality(Subscribers)
Sizes == Len(Demands)
Burst == Demands[size][demand]
Commands == {"DEFAULT", "READY_TO_START", "BEGIN", "TEST_STARTS", "TEST_ENDS", "TYPE_NEW",
             "TYPE_DISPOSE", "TYPE_REMOVED", "ALL_STOPS", "TEST_RESULTS"}
Unmatched == [command |-> 0, data |-> 0]
NoNumbers == [last |-> 0, lost |-> 0, received |-> 0]

Init ==
    /\ pubPc = "match" /\ size = 1 /\ demand = 1 /\ recovery = 1
    /\ pubOpen = FALSE /\ last = "DEFAULT" /\ ready = 0 /\ samples = 0 /\ results = <<>>
    /\ testFailure = FALSE
    /\ subPc = [s \in Subscribers |-> "match"]
    /\ subOpen = [s \in Subscribers |-> FALSE]
    /\ enabled \in [Subscribers -> BOOLEAN]   \* it is not initialised
    /\ lastSeq = [s \in Subscribers |-> 0]
    /\ lost = [s \in Subscribers |-> 0]
    /\ received = [s \in Subscribers |-> 0]
    /\ subSaved = [s \in Subscribers |-> NoNumbers]
    /\ pubMatches = [s \in Subscribers |-> Unmatched]
    /\ subMatches = [s \in Subscribers |-> Unmatched]
    /\ linked = [s \in Subscribers |-> FALSE]
    /\ pubMissed = FALSE /\ subMissed = [s \in Subscribers |-> FALSE]
    /\ commandTo = [s \in Subscribers |-> <<>>]
    /\ inbox = <<>>
    /\ data = [s \in Subscribers |-> <<>>]
    /\ failures = 0 /\ test = 0 /\ subTest = [s \in Subscribers |-> 0]
    /\ from = {} /\ timeouts = 0 /\ late = FALSE

Command(kind) == [kind |-> kind, test |-> test]
Write(kind) == commandTo' = [s \in Subscribers |-> Append(commandTo[s], Command(kind))]
Answer(s, kind) == [kind |-> kind, from |-> s, numbers |-> subSaved[s]]
Fails == failures + timeouts < MaxFaults /\ failures' = failures + 1
TimesOut == failures + timeouts < MaxFaults /\ timeouts' = timeouts + 1

PubRuns == pubPc # "done"
SubRuns(s) == subPc[s] # "done"

(***************************************************************************)
(* Discovery                                                               *)
(***************************************************************************)
\* notify_one: a thread that waits in this place is woken, or misses it.
PubNotified(place) ==
    IF pubPc = place THEN pubMissed' \in BOOLEAN ELSE UNCHANGED pubMissed
SubNotified(s, place) ==
    IF subPc[s] = place
    THEN \E missed \in BOOLEAN : subMissed' = [subMissed EXCEPT ![s] = missed]
    ELSE UNCHANGED subMissed

PubOnCommandMatched(s) ==
    /\ PubRuns /\ pubMatches[s].command < 2
    /\ pubMatches' = [pubMatches EXCEPT ![s].command = @ + 1]
    /\ PubNotified("match")
    /\ UNCHANGED <<pubVars, subVars, subMatches, linked, subMissed, channelVars, historyVars>>

SubOnCommandMatched(s) ==
    /\ SubRuns(s) /\ subMatches[s].command < 2
    /\ subMatches' = [subMatches EXCEPT ![s].command = @ + 1]
    /\ SubNotified(s, "match")
    /\ UNCHANGED <<pubVars, subVars, pubMatches, linked, pubMissed, channelVars, historyVars>>

PubOnDataMatched(s) ==
    /\ pubOpen /\ subOpen[s] /\ pubMatches[s].data = 0
    /\ pubMatches' = [pubMatches EXCEPT ![s].data = 1]
    /\ PubNotified("discover")
    /\ UNCHANGED <<pubVars, subVars, subMatches, linked, subMissed, channelVars, historyVars>>

SubOnDataMatched(s) ==
    /\ pubOpen /\ subOpen[s] /\ ~linked[s]
    /\ subMatches' = [subMatches EXCEPT ![s].data = 1]
    /\ linked' = [linked EXCEPT ![s] = TRUE]
    /\ SubNotified(s, "discover")
    /\ UNCHANGED <<pubVars, subVars, pubMatches, pubMissed, channelVars, historyVars>>

\* A condition variable may wake its thread without being notified.
SpuriousWakeup ==
    /\ \/ pubMissed /\ pubMissed' = FALSE /\ UNCHANGED subMissed
       \/ /\ \E s \in Subscribers : subMissed[s] /\ subMissed' = [subMissed EXCEPT ![s] = FALSE]
          /\ UNCHANGED pubMissed
    /\ UNCHANGED <<pubVars, subVars, pubMatches, subMatches, linked, channelVars, historyVars>>

matches_of(matches, s) == matches[s].command + matches[s].data

\* The sum of matched_ over the publisher's listeners: one for every endpoint
\* of every subscriber that has been matched.
Endpoints == {<<"command", 1>>, <<"command", 2>>, <<"data", 1>>}
MatchedEndpoints ==
    {m \in Subscribers \X Endpoints : m[2][2] <= pubMatches[m[1]][m[2][1]]}
total_matches == Cardinality(MatchedEndpoints)

(***************************************************************************)
(* ThroughputPublisher::run                                                *)
(***************************************************************************)
PubCommandsDiscovered ==
    /\ pubPc = "match"
    /\ total_matches = 2 * N /\ ~pubMissed
    /\ pubPc' = "new"
    /\ UNCHANGED <<size, demand, recovery, pubOpen, last, ready, samples, results, testFailure,
                   subVars, matchVars, channelVars, historyVars>>

\* TYPE_NEW is written before the publisher's own writer is created.
PubTypeNew ==
    /\ pubPc = "new"
    /\ Write("TYPE_NEW") /\ last' = "TYPE_NEW"
    /\ pubPc' = "create"
    /\ UNCHANGED <<size, demand, recovery, pubOpen, ready, samples, results, testFailure,
                   subVars, matchVars, inbox, data, historyVars>>

PubCreatesWriter == pubOpen' = TRUE

PubCreate ==
    /\ pubPc = "create"
    /\ PubCreatesWriter
    /\ pubPc' = "discover"
    /\ UNCHANGED <<size, demand, recovery, last, ready, samples, results, testFailure,
                   subVars, matchVars, channelVars, historyVars>>

PubDataDiscovered ==
    /\ pubPc = "discover"
    /\ total_matches = 3 * N /\ ~pubMissed
    /\ pubPc' = "ready"
    /\ UNCHANGED <<size, demand, recovery, pubOpen, last, ready, samples, results, testFailure,
                   subVars, matchVars, channelVars, historyVars>>

PubReadyToStart ==
    /\ pubPc = "ready"
    /\ test' = test + 1
    /\ commandTo' = [s \in Subscribers |->
                        Append(commandTo[s], [kind |-> "READY_TO_START", test |-> test'])]
    /\ last' = "READY_TO_START" /\ ready' = 0 /\ from' = {}
    /\ pubPc' = "rig"
    /\ UNCHANGED <<size, demand, recovery, pubOpen, samples, results, testFailure, subVars, matchVars,
                   inbox, data, failures, subTest, timeouts, late>>

\* The two loops that wait till subscribers are rigged: a command is taken and
\* counted when it is the wanted one.
Awaited == CASE pubPc = "rig" -> "BEGIN"
             [] pubPc = "removed" -> "TYPE_REMOVED"
             [] OTHER -> "DEFAULT"

\* Mutant: one subscriber will do.
AnyRigged == ready # 0

AllRigged == ready >= N

PubTakes ==
    /\ pubPc \in {"rig", "removed"}
    /\ ~AllRigged
    /\ inbox # <<>>
    /\ LET command == Head(inbox) IN
       /\ last' = command.kind
       /\ ready' = IF command.kind = Awaited THEN ready + 1 ELSE ready
       /\ from' = IF command.kind = Awaited THEN from \cup {command.from} ELSE from
    /\ inbox' = Tail(inbox)
    /\ UNCHANGED <<pubPc, size, demand, recovery, pubOpen, samples, results, testFailure, subVars, matchVars,
                   commandTo, data, failures, test, subTest, timeouts, late>>

\* Nothing was taken in 20 seconds: the command and the info of the last take
\* are still there, and are counted once more.
PubTakesNothing ==
    /\ pubPc \in {"rig", "removed"}
    /\ ~AllRigged
    /\ inbox = <<>>
    /\ ready' = IF last = Awaited THEN ready + 1 ELSE ready
    /\ TimesOut
    /\ UNCHANGED <<pubPc, size, demand, recovery, pubOpen, last, samples, results, testFailure, subVars,
                   matchVars, channelVars, failures, test, subTest, from, late>>

PubRigged ==
    /\ pubPc = "rig"
    /\ AllRigged
    /\ pubPc' = "starts"
    /\ UNCHANGED <<size, demand, recovery, pubOpen, last, ready, samples, results, testFailure,
                   subVars, matchVars, channelVars, historyVars>>

(***************************************************************************)
(* ThroughputPublisher::test                                               *)
(***************************************************************************)
\* Mutant: one demand too many.
AfterTestOneMore(failed) ==
    /\ testFailure' = (testFailure \/ failed)
    /\ IF ~failed /\ recovery < Recoveries
       THEN pubPc' = "ready" /\ recovery' = recovery + 1 /\ demand' = demand
       ELSE /\ recovery' = 1
            /\ IF demand <= Len(Demands[size])
               THEN pubPc' = "ready" /\ demand' = demand + 1
               ELSE pubPc' = "dispose" /\ demand' = 1

\* Where run() goes on: a test that failed leaves the recovery times of its
\* demand, and only those.
AfterTest(failed) ==
    /\ testFailure' = (testFailure \/ failed)
    /\ IF ~failed /\ recovery < Recoveries
       THEN pubPc' = "ready" /\ recovery' = recovery + 1 /\ demand' = demand
       ELSE /\ recovery' = 1
            /\ IF demand < Len(Demands[size])
               THEN pubPc' = "ready" /\ demand' = demand + 1
               ELSE pubPc' = "dispose" /\ demand' = 1

PubTestStarts ==
    /\ pubPc = "starts"
    /\ Write("TEST_STARTS")
    /\ samples' = 0
    /\ pubPc' = "send"
    /\ UNCHANGED <<size, demand, recovery, pubOpen, last, ready, results, testFailure,
                   subVars, matchVars, inbox, data, historyVars>>

\* Bursts are sent until the test time is over, at least one.
PubSendsBurst ==
    /\ pubPc = "send"
    /\ samples < Burst * MaxBursts
    /\ samples' = samples + Burst
    /\ data' = [s \in Subscribers |-> data[s] \o [i \in 1..Burst |-> samples + i]]
    /\ UNCHANGED <<pubPc, size, demand, recovery, pubOpen, last, ready, results, testFailure,
                   subVars, matchVars, commandTo, inbox, historyVars>>

PubTestEnds ==
    /\ pubPc = "send"
    /\ samples > 0
    /\ Write("TEST_ENDS")
    /\ ready' = 0 /\ from' = {}
    /\ pubPc' = "results"
    /\ UNCHANGED <<size, demand, recovery, pubOpen, last, samples, results, testFailure, subVars,
                   matchVars, inbox, data, failures, test, subTest, timeouts, late>>

Add(entry, report) ==
    [entry EXCEPT !.send = @ + samples,
                  !.recv = @ + report.received,
                  !.lost = @ + (samples - report.received)]

NewEntry(report) ==
    [test |-> test, send |-> samples, recv |-> report.received, lost |-> samples - report.received]

PubTakesResults ==
    /\ pubPc = "results"
    /\ ready < N
    /\ inbox # <<>>
    /\ Head(inbox).kind = "TEST_RESULTS"
    /\ LET report == Head(inbox).numbers IN
       results' = IF ready = 0
                  THEN Append(results, NewEntry(report))
                  ELSE [results EXCEPT ![Len(results)] = Add(@, report)]
    /\ ready' = ready + 1
    /\ from' = from \cup {Head(inbox).from}
    /\ inbox' = Tail(inbox)
    /\ UNCHANGED <<pubPc, size, demand, recovery, pubOpen, last, samples, testFailure, subVars, matchVars,
                   commandTo, data, failures, test, subTest, timeouts, late>>

PubResultsIn ==
    /\ pubPc = "results"
    /\ ready = N
    /\ AfterTest(FALSE)
    /\ UNCHANGED <<size, pubOpen, last, ready, samples, results, subVars, matchVars,
                   channelVars, historyVars>>

\* "The test expected results, stopping"
PubUnexpectedCommand ==
    /\ pubPc = "results"
    /\ ready < N
    /\ inbox # <<>>
    /\ Head(inbox).kind # "TEST_RESULTS"
    /\ inbox' = Tail(inbox)
    /\ AfterTest(TRUE)
    /\ UNCHANGED <<size, pubOpen, last, ready, samples, results, subVars, matchVars,
                   commandTo, data, historyVars>>

\* "PROBLEM READING RESULTS"
PubResultsTimeout ==
    /\ pubPc = "results"
    /\ ready < N
    /\ inbox = <<>>
    /\ TimesOut
    /\ AfterTest(TRUE)
    /\ UNCHANGED <<size, pubOpen, last, ready, samples, results, subVars, matchVars,
                   channelVars, failures, test, subTest, from, late>>

\* The middleware reports no acknowledgement of TEST_STARTS or TEST_ENDS.
PubNotAcknowledged ==
    /\ Fails
    /\ \/ pubPc = "starts" /\ Write("TEST_STARTS")
       \/ pubPc = "send" /\ samples > 0 /\ Write("TEST_ENDS")
    /\ AfterTest(TRUE)
    /\ UNCHANGED <<size, pubOpen, last, ready, samples, results, subVars, matchVars, inbox, data,
                   test, subTest, from, timeouts, late>>

(***************************************************************************)
(* The end of a payload size, and of the run                               *)
(***************************************************************************)
PubTypeDispose ==
    /\ pubPc = "dispose"
    /\ Write("TYPE_DISPOSE") /\ last' = "TYPE_DISPOSE"
    /\ pubPc' = "destroy"
    /\ UNCHANGED <<size, demand, recovery, pubOpen, ready, samples, results, testFailure,
                   subVars, matchVars, inbox, data, historyVars>>

\* The subscribers' listeners are told that the writer has gone.
PubRemovesWriter ==
    /\ pubOpen' = FALSE
    /\ pubMatches' = [s \in Subscribers |-> [pubMatches[s] EXCEPT !.data = 0]]
    /\ subMatches' = [s \in Subscribers |-> [subMatches[s] EXCEPT !.data = 0]]
    /\ linked' = [s \in Subscribers |-> FALSE]
    /\ subMissed' = [s \in Subscribers |-> subMissed[s] /\ subPc[s] # "discover"]
    /\ UNCHANGED pubMissed

\* Mutant: subscribers_ready is not set to zero before the second loop.
PubDestroyKeepingReady ==
    /\ pubPc = "destroy"
    /\ PubRemovesWriter
    /\ pubPc' = "removed"
    /\ UNCHANGED <<size, demand, recovery, last, ready, samples, results, testFailure, subVars,
                   channelVars, historyVars>>

PubDestroy ==
    /\ pubPc = "destroy"
    /\ PubRemovesWriter
    /\ ready' = 0 /\ from' = {}
    /\ pubPc' = "removed"
    /\ UNCHANGED <<size, demand, recovery, last, samples, results, testFailure, subVars,
                   channelVars, failures, test, subTest, timeouts, late>>

PubTypeRemoved ==
    /\ pubPc = "removed"
    /\ AllRigged
    /\ size' = size + 1
    /\ pubPc' = IF size < Sizes THEN "new" ELSE "stop"
    /\ UNCHANGED <<demand, recovery, pubOpen, last, ready, samples, results, testFailure,
                   subVars, matchVars, channelVars, historyVars>>

\* The endpoints cannot be created or removed: the loop over the sizes ends.
PubFails ==
    /\ Fails
    /\ pubPc \in {"create", "destroy"}
    /\ testFailure' = TRUE
    /\ pubPc' = "stop"
    /\ UNCHANGED <<size, demand, recovery, pubOpen, last, ready, samples, results, subVars,
                   matchVars, channelVars, test, subTest, from, timeouts, late>>

\* run() returns: after a failed test at once, else when ALL_STOPS has been
\* acknowledged by all, or not within 20 seconds.
PubAllStops ==
    /\ pubPc = "stop"
    /\ Write("ALL_STOPS") /\ last' = "ALL_STOPS"
    /\ pubOpen' = FALSE
    /\ pubPc' = "done"
    /\ UNCHANGED <<size, demand, recovery, ready, samples, results, testFailure,
                   subVars, matchVars, inbox, data, historyVars>>

\* Only test() waits for the acknowledgement of its commands.
Acknowledged == {"TEST_STARTS", "TEST_ENDS"}

\* The last command to a subscriber that was not acknowledged is lost with the
\* publisher's writer.  Without a failed test it takes a subscriber that does
\* not acknowledge ALL_STOPS in 20 seconds.
CommandLost(s) ==
    /\ pubPc = "done"
    /\ commandTo[s] # <<>>
    /\ commandTo[s][Len(commandTo[s])].kind \notin Acknowledged
    /\ commandTo' = [commandTo EXCEPT ![s] = SubSeq(@, 1, Len(@) - 1)]
    /\ IF testFailure THEN UNCHANGED failures ELSE Fails
    /\ UNCHANGED <<pubVars, subVars, matchVars, inbox, data, test, subTest, from, timeouts, late>>

(***************************************************************************)
(* ThroughputSubscriber::run and process_message                           *)
(***************************************************************************)
SubCommandsDiscovered(s) ==
    /\ subPc[s] = "match"
    /\ matches_of(subMatches, s) = 2 /\ ~subMissed[s]
    /\ subPc' = [subPc EXCEPT ![s] = "idle"]
    /\ UNCHANGED <<pubVars, subOpen, listenerVars, matchVars, channelVars, historyVars>>

Reads(s, kind) ==
    /\ subPc[s] = "idle"
    /\ commandTo[s] # <<>>
    /\ Head(commandTo[s]).kind = kind
    /\ commandTo' = [commandTo EXCEPT ![s] = Tail(@)]

\* init_static_types and create_data_endpoints refuse to create the reader
\* while there is one; the application finishes.
SubCreatesReader(s) ==
    IF subOpen[s]
    THEN subOpen' = [subOpen EXCEPT ![s] = FALSE] /\ subPc' = [subPc EXCEPT ![s] = "done"]
    ELSE subOpen' = [subOpen EXCEPT ![s] = TRUE] /\ subPc' = [subPc EXCEPT ![s] = "discover"]

SubTypeNew(s) ==
    /\ Reads(s, "TYPE_NEW")
    /\ SubCreatesReader(s)
    /\ UNCHANGED <<pubVars, listenerVars, matchVars, inbox, data, historyVars>>

SubDataDiscovered(s) ==
    /\ subPc[s] = "discover"
    /\ matches_of(subMatches, s) = 3 /\ ~subMissed[s]
    /\ subPc' = [subPc EXCEPT ![s] = "idle"]
    /\ UNCHANGED <<pubVars, subOpen, listenerVars, matchVars, channelVars, historyVars>>

\* Mutant: the received samples are not reset.
ListenerResetKeepingReceived(s) ==
    /\ enabled' = [enabled EXCEPT ![s] = TRUE]
    /\ lastSeq' = [lastSeq EXCEPT ![s] = 0]
    /\ lost' = [lost EXCEPT ![s] = 0]
    /\ subMatches' = [subMatches EXCEPT ![s].data = 0]
    /\ UNCHANGED <<received, subSaved>>

\* data_reader_listener_.reset()
ListenerReset(s) ==
    /\ enabled' = [enabled EXCEPT ![s] = TRUE]
    /\ lastSeq' = [lastSeq EXCEPT ![s] = 0]
    /\ lost' = [lost EXCEPT ![s] = 0]
    /\ received' = [received EXCEPT ![s] = 0]
    /\ subMatches' = [subMatches EXCEPT ![s].data = 0]
    /\ UNCHANGED subSaved

\* What has arrived is thrown away; the last n samples are still on their way.
SubReadyToStart(s) ==
    /\ Reads(s, "READY_TO_START")
    /\ \E n \in 0..Len(data[s]) :
        /\ data' = [data EXCEPT ![s] = SubSeq(@, Len(@) - n + 1, Len(@))]
        /\ late' = (late \/ n > 0)
    /\ ListenerReset(s)
    /\ inbox' = Append(inbox, Answer(s, "BEGIN"))
    /\ subTest' = [subTest EXCEPT ![s] = Head(commandTo[s]).test]
    /\ UNCHANGED <<pubVars, subPc, subOpen, pubMatches, linked, pubMissed, subMissed,
                   failures, test, from, timeouts>>

SubTestStarts(s) ==
    /\ Reads(s, "TEST_STARTS")
    /\ UNCHANGED <<pubVars, subVars, matchVars, inbox, data, historyVars>>

SubTestEnds(s) ==
    /\ Reads(s, "TEST_ENDS")
    /\ subSaved' = [subSaved EXCEPT ![s] =
                      [last |-> lastSeq[s], lost |-> lost[s], received |-> received[s]]]
    /\ enabled' = [enabled EXCEPT ![s] = FALSE]
    /\ subPc' = [subPc EXCEPT ![s] = "report"]
    /\ UNCHANGED <<pubVars, subOpen, lastSeq, lost, received, matchVars, inbox, data, historyVars>>

SubReports(s) ==
    /\ subPc[s] = "report"
    /\ inbox' = Append(inbox, Answer(s, "TEST_RESULTS"))
    /\ subPc' = [subPc EXCEPT ![s] = "idle"]
    /\ UNCHANGED <<pubVars, subOpen, listenerVars, matchVars, commandTo, data, historyVars>>

\* Mutant: the reader is reset, but not deleted.
SubKeepsReader(s) ==
    /\ data' = [data EXCEPT ![s] = <<>>]
    /\ ListenerReset(s)
    /\ linked' = [linked EXCEPT ![s] = FALSE]
    /\ pubMatches' = [pubMatches EXCEPT ![s].data = 0]
    /\ pubMissed' = (pubMissed /\ pubPc # "discover")
    /\ UNCHANGED <<subOpen, subMissed>>

\* The publisher's listener is told that the reader has gone.
SubRemovesReader(s) ==
    /\ subOpen' = [subOpen EXCEPT ![s] = FALSE]
    /\ data' = [data EXCEPT ![s] = <<>>]
    /\ ListenerReset(s)
    /\ linked' = [linked EXCEPT ![s] = FALSE]
    /\ pubMatches' = [pubMatches EXCEPT ![s].data = 0]
    /\ pubMissed' = (pubMissed /\ pubPc # "discover")
    /\ UNCHANGED subMissed

\* Mutant: the removal is not announced.
SubTypeDisposeSilently(s) ==
    /\ Reads(s, "TYPE_DISPOSE")
    /\ SubRemovesReader(s)
    /\ UNCHANGED <<pubVars, subPc, inbox, historyVars>>

SubTypeDispose(s) ==
    /\ Reads(s, "TYPE_DISPOSE")
    /\ SubRemovesReader(s)
    /\ inbox' = Append(inbox, Answer(s, "TYPE_REMOVED"))
    /\ UNCHANGED <<pubVars, subPc, historyVars>>

SubAllStops(s) ==
    /\ Reads(s, "ALL_STOPS")
    /\ subPc' = [subPc EXCEPT ![s] = "done"]
    /\ subOpen' = [subOpen EXCEPT ![s] = FALSE]
    /\ UNCHANGED <<pubVars, listenerVars, matchVars, inbox, data, historyVars>>

\* The endpoints cannot be created or removed: the application finishes.
SubFails(s) ==
    /\ Fails
    /\ Reads(s, "TYPE_NEW") \/ Reads(s, "TYPE_DISPOSE")
    /\ subPc' = [subPc EXCEPT ![s] = "done"]
    /\ subOpen' = [subOpen EXCEPT ![s] = FALSE]
    /\ UNCHANGED <<pubVars, listenerVars, matchVars, inbox, data, test, subTest, from, timeouts, late>>

(***************************************************************************)
(* DataReaderListener::on_data_available, for one sample.  A listener that *)
(* is disabled leaves the samples in the reader.                           *)
(***************************************************************************)
\* Mutant: the sample itself is counted as lost.
GapWithSample(s, seq) == seq - lastSeq[s]

Gap(s, seq) == IF lastSeq[s] + 1 < seq THEN seq - lastSeq[s] - 1 ELSE 0

\* The k-th of the samples on their way arrives: those before it are lost.
SubOnData(s) ==
    /\ subOpen[s] /\ SubRuns(s)
    /\ enabled[s]
    /\ \E k \in 1..Len(data[s]) :
        LET seq == data[s][k] IN
        /\ lost' = [lost EXCEPT ![s] = @ + Gap(s, seq)]
        /\ lastSeq' = [lastSeq EXCEPT ![s] = seq]
        /\ received' = [received EXCEPT ![s] = @ + 1]
        /\ data' = [data EXCEPT ![s] = SubSeq(@, k + 1, Len(@))]
    /\ UNCHANGED <<pubVars, subPc, subOpen, enabled, subSaved, matchVars, commandTo, inbox, historyVars>>

-----------------------------------------------------------------------------
PubThread ==
    \/ PubCommandsDiscovered \/ PubTypeNew \/ PubCreate \/ PubDataDiscovered
    \/ PubReadyToStart \/ PubTakes \/ PubRigged
    \/ PubTestStarts \/ PubTestEnds \/ PubTakesResults \/ PubResultsIn \/ PubUnexpectedCommand
    \/ PubTypeDispose \/ PubDestroy \/ PubTypeRemoved \/ PubAllStops

SubThread(s) ==
    \/ SubCommandsDiscovered(s) \/ SubTypeNew(s) \/ SubDataDiscovered(s)
    \/ SubReadyToStart(s) \/ SubTestStarts(s) \/ SubTestEnds(s) \/ SubReports(s)
    \/ SubTypeDispose(s) \/ SubAllStops(s)

Discovery(s) == \/ PubOnCommandMatched(s) \/ SubOnCommandMatched(s)
                \/ PubOnDataMatched(s) \/ SubOnDataMatched(s)

Progress == \/ PubThread \/ PubSendsBurst
            \/ \E s \in Subscribers : SubThread(s) \/ Discovery(s)

Timeouts == PubTakesNothing \/ PubResultsTimeout

Faults == \/ PubFails \/ PubNotAcknowledged
          \/ \E s \in Subscribers : SubFails(s)

Next == \/ Progress \/ Timeouts \/ Faults \/ SpuriousWakeup
        \/ \E s \in Subscribers : SubOnData(s) \/ CommandLost(s)

Spec == Init /\ [][Next]_vars

\* Some thread that can run does: no sample need arrive, no call need fail, no
\* read need time out and no wakeup be spurious.
FairSpec == Spec /\ WF_vars(Progress)

-----------------------------------------------------------------------------
PubPlaces == {"match", "new", "create", "discover", "ready", "rig", "starts", "send", "results",
              "dispose", "destroy", "removed", "stop", "done"}
SubPlaces == {"match", "idle", "discover", "report", "done"}
Numbers == [last : Nat, lost : Nat, received : Nat]

\* Type invariant.  It contains the assertions of both total_matches.
TypeOK ==
    /\ pubPc \in PubPlaces
    /\ size \in 1..(Sizes + 1) /\ recovery \in 1..Recoveries
    /\ demand \in Nat /\ (pubPc \notin {"stop", "done"} => demand \in 1..Len(Demands[size]))
    /\ pubOpen \in BOOLEAN /\ last \in Commands /\ ready \in 0..N
    /\ samples \in Nat
    /\ results \in Seq([test : Nat, send : Nat, recv : Nat, lost : Int])
    /\ subPc \in [Subscribers -> SubPlaces]
    /\ {testFailure, pubMissed} \subseteq BOOLEAN
    /\ {subOpen, enabled, linked, subMissed} \subseteq [Subscribers -> BOOLEAN]
    /\ {lastSeq, lost, received, subTest} \subseteq [Subscribers -> Nat]
    /\ subSaved \in [Subscribers -> Numbers]
    /\ {pubMatches, subMatches} \subseteq [Subscribers -> [command : 0..2, data : 0..1]]
    /\ commandTo \in [Subscribers -> Seq([kind : Commands, test : Nat])]
    /\ inbox \in Seq([kind : Commands, from : Subscribers, numbers : Numbers])
    /\ data \in [Subscribers -> Seq(Nat)]
    /\ {failures, timeouts} \subseteq 0..MaxFaults /\ test \in Nat /\ from \subseteq Subscribers
    /\ late \in BOOLEAN

\* "wait till subscribers are rigged": while samples are sent, every subscriber
\* has cleared its reader and its counters for this very test.
RiggedBeforeTest ==
    pubPc \in {"starts", "send"} => \A s \in Subscribers : subTest[s] = test

\* The same, and that each of the awaited commands came from a subscriber of its
\* own, as long as no subscriber keeps the publisher waiting for 20 seconds.
PromptAreRigged ==
    timeouts = 0 /\ failures = 0 =>
        /\ RiggedBeforeTest
        /\ pubPc \in {"rig", "removed", "results"} => ready = Cardinality(from)
        /\ pubPc = "send" => \A s \in Subscribers : enabled[s] /\ linked[s]

\* What a subscriber's callback counts adds up: every number up to the last one
\* received is either received or lost, whatever gaps there are, as long as the
\* samples of two tests do not meet in one.
SamplesAccounted ==
    ~late /\ timeouts = 0 => \A s \in Subscribers : received[s] + lost[s] = lastSeq[s]

\* The publisher's assertion that nobody receives more than was sent, and that
\* the table adds up over all subscribers, for prompt subscribers and samples
\* that do not outlive their test.
ResultsAddUp ==
    timeouts = 0 /\ ~late /\ failures = 0 =>
        /\ \A i \in 1..Len(results) :
            /\ results[i].recv <= results[i].send
            /\ results[i].lost = results[i].send - results[i].recv
            /\ results[i].test = i
        /\ pubPc = "results" => \A s \in Subscribers : received[s] + lost[s] <= samples

\* TYPE_REMOVED separates the payload sizes: when the publisher goes on to the
\* next one, or to the end, no subscriber has a reader of this one left.
ReadersRemoved ==
    timeouts = 0 /\ failures = 0 /\ pubPc \in {"new", "stop"} => \A s \in Subscribers : ~subOpen[s]

\* "ERROR STATIC DATA type already initialized" is never reached: whatever
\* commands a subscriber is behind with and whatever fails, it has removed the
\* reader of one payload size when it comes to the TYPE_NEW of the next.
NoEarlierReader ==
    \A s \in Subscribers :
        subPc[s] = "idle" /\ commandTo[s] # <<>> /\ Head(commandTo[s]).kind = "TYPE_NEW" => ~subOpen[s]

\* What a failed test leads to: the publisher removes its writer while a slow
\* subscriber still waits to discover it, or leaves without waiting for the
\* acknowledgement of ALL_STOPS, and it is lost.
Stranded(s) == testFailure /\ ~pubOpen /\ subPc[s] = "discover"
NotTold(s) == testFailure /\ \A i \in 1..Len(commandTo[s]) : commandTo[s][i].kind # "ALL_STOPS"

\* The run ends for everybody, slow subscribers and lost and late samples
\* included.  What can prevent it: a failing call; a thread that sleeps on
\* a match it was not notified of; and, after a failed test, a subscriber
\* without a writer to discover or without ALL_STOPS.
AllStop ==
    \/ <>(failures > 0)
    \/ <>[](pubMissed \/ \E s \in Subscribers : subMissed[s] \/ Stranded(s))
    \/ <>(pubPc = "done" /\ \A s \in Subscribers : subPc[s] = "done" \/ NotTold(s))
=============================================================================
