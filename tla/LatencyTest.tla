---------------------------- MODULE LatencyTest ----------------------------
(***************************************************************************)
(* The latency test: one LatencyTestPublisher and its subscribers, run     *)
(* with static types and without loans (the defaults of the command line). *)
(*                                                                         *)
(* For every payload size the publisher creates its data endpoints, says   *)
(* READY, waits until everything is matched and every subscriber said      *)
(* BEGIN, sends its samples one by one, each time waiting at most 100 ms   *)
(* for the echoes, says STOP and waits for every subscriber's END.  Each   *)
(* process has a main thread (a program counter) and the DDS callbacks.    *)
(*                                                                         *)
(* The counters the waits read change under mutex_ and every change is     *)
(* notified, so a wait is the guard of the step that follows it.  The      *)
(* numbers and the start time of a sample are written without mutex_ while *)
(* the data callback, which holds it, compares, reads and resets them:     *)
(* each of these is a step of its own.                                     *)
(*                                                                         *)
(* Commands are reliable and transient local: channels that lose nothing.  *)
(* Data are best effort, or reliable and late: a sample or an echo may be  *)
(* lost, and a timeout may come at any time, also before an echo that is   *)
(* on its way.                                                             *)
(***************************************************************************)
EXTENDS Integers, Sequences, FiniteSets

CONSTANTS Subscribers,   \* the subscribers the publisher is told to expect
          Samples,       \* samples_
          Rounds,        \* the number of payload sizes
          MaxFailures    \* bound on calls of the middleware that fail

ASSUME SubscribersAssumption == IsFiniteSet(Subscribers) /\ Subscribers # {}
ASSUME SamplesAssumption == Samples \in Nat
ASSUME RoundsAssumption == Rounds \in Nat \ {0}
ASSUME MaxFailuresAssumption == MaxFailures \in Nat

VARIABLES
    pubPc,         \* where LatencyTestPublisher::run is
    pubRound,      \* the payload it works on
    pubOpen,       \* its data endpoints exist
    count,         \* the sample of the loop in test()
    seqOut,        \* latency_data_out_->seqnum
    seqIn,         \* latency_data_in_->seqnum
    startSeq,      \* the sample for which start_time_ was taken
    dataMsgCount,  \* data_msg_count_
    pubCommands,   \* command_msg_count_
    times,         \* times_: the echo timed and the sample its time starts at
    stats,         \* stats_: received_ and the number of times analysed
    pubCallback,   \* the echo its data callback has taken, or NoSample
    echoStep,      \* where that callback is while it holds mutex_, or "none"
    raced,         \* main has written shared data while it held mutex_
    subPc,         \* where each LatencyTestSubscriber::run is
    subRound,
    subOpen,
    subCommands,   \* command_msg_count_
    subStatus,     \* test_status_
    subCallback,   \* the seqnum a subscriber's data callback has taken, or -1
    pubMatches,    \* matched_ of the publisher's listeners, per subscriber
    subMatches,    \* matched_ of each subscriber's listeners
    commandTo, commandFrom,  \* the two command topics
    data, echo,    \* the two data topics
    failures,      \* calls that failed
    disturbed,     \* a wait timed out, or a roundtrip was discarded
    answered       \* the subscribers whose echo of this sample was processed

pubVars == <<pubPc, pubRound, pubOpen, count, startSeq, times, stats>>
sampleVars == <<seqOut, seqIn, dataMsgCount, pubCallback, echoStep, raced, answered>>
subVars == <<subPc, subRound, subOpen>>
commandVars == <<pubCommands, subCommands, subStatus, commandTo, commandFrom>>
matchVars == <<pubMatches, subMatches>>
dataVars == <<subCallback, data, echo>>
faultVars == <<failures, disturbed>>
vars == <<pubVars, sampleVars, subVars, commandVars, matchVars, dataVars, faultVars>>

N == Cardinality(Subscribers)
Commands == {"DEFAULT", "READY", "BEGIN", "STOP", "END", "STOP_ERROR"}
Unmatched == [command |-> 0, data |-> 0]
NoSample == <<>>
NoNumber == -1

Init ==
    /\ pubPc = "prepare" /\ pubRound = 1 /\ pubOpen = FALSE
    /\ count = 0 /\ seqOut = 0 /\ seqIn = 0 /\ startSeq = 0
    /\ dataMsgCount = 0 /\ pubCommands = 0
    /\ times = <<>> /\ stats = <<>> /\ pubCallback = NoSample
    /\ echoStep = "none" /\ raced = FALSE
    /\ subPc = [s \in Subscribers |-> "match"]
    /\ subRound = [s \in Subscribers |-> 1]
    /\ subOpen = [s \in Subscribers |-> FALSE]
    /\ subCommands = [s \in Subscribers |-> 0]
    /\ subStatus = [s \in Subscribers |-> 0]
    /\ subCallback = [s \in Subscribers |-> NoNumber]
    /\ pubMatches = [s \in Subscribers |-> Unmatched]
    /\ subMatches = [s \in Subscribers |-> Unmatched]
    /\ commandTo = [s \in Subscribers |-> <<>>]
    /\ commandFrom = [s \in Subscribers |-> <<>>]
    /\ data = [s \in Subscribers |-> <<>>]
    /\ echo = [s \in Subscribers |-> <<>>]
    /\ failures = 0 /\ disturbed = FALSE
    /\ answered = {}

ToAll(channel, message) == [s \in Subscribers |-> Append(channel[s], message)]
To(channel, s, message) == [channel EXCEPT ![s] = Append(@, message)]
Received(channel, s) == [channel EXCEPT ![s] = Tail(@)]
\* The k-th message on its way arrives; those before it are lost.
Arrived(channel, s, k) == [channel EXCEPT ![s] = SubSeq(@, k + 1, Len(@))]

PubRuns == pubPc \notin {"done", "failed", "crashed"}
SubRuns(s) == subPc[s] \notin {"done", "failed", "unacknowledged"}

\* mutex_ is held over several steps only by the publisher's data callback.
MutexFree == echoStep = "none"

(***************************************************************************)
(* Discovery.  Either side learns of a match in a callback of its own; the *)
(* command endpoints exist from the start, the data endpoints of a payload *)
(* match once both sides have created theirs.                              *)
(***************************************************************************)
Matched(matches, s, kind) ==
    /\ matches[s][kind] < 2
    /\ kind = "data" => pubOpen /\ subOpen[s]

PubOnMatched(s, kind) ==
    /\ PubRuns /\ MutexFree
    /\ Matched(pubMatches, s, kind)
    /\ pubMatches' = [pubMatches EXCEPT ![s][kind] = @ + 1]
    /\ UNCHANGED <<pubVars, sampleVars, subVars, commandVars, subMatches, dataVars, faultVars>>

SubOnMatched(s, kind) ==
    /\ SubRuns(s)
    /\ Matched(subMatches, s, kind)
    /\ subMatches' = [subMatches EXCEPT ![s][kind] = @ + 1]
    /\ UNCHANGED <<pubVars, sampleVars, subVars, commandVars, pubMatches, dataVars, faultVars>>

matches_of(matches, s) == matches[s].command + matches[s].data

\* The sum of matched_ over the publisher's listeners: one for every endpoint
\* of every subscriber that has been matched.
Endpoints == {"command", "data"} \X (1..2)
MatchedEndpoints ==
    {m \in Subscribers \X Endpoints : m[2][2] <= pubMatches[m[1]][m[2][1]]}
total_matches == Cardinality(MatchedEndpoints)

(***************************************************************************)
(* LatencyTestPublisher::test, up to the first sample                      *)
(***************************************************************************)
PubCreatesEndpoints == pubOpen' = TRUE

\* The numbers of the new samples are not initialised: see Unnumbered.
PubPrepare ==
    /\ pubPc = "prepare"
    /\ PubCreatesEndpoints
    /\ seqOut' = 0 /\ seqIn' = 0 /\ raced' = FALSE
    /\ times' = <<>>
    /\ commandTo' = ToAll(commandTo, "READY")
    /\ pubPc' = "discover"
    /\ UNCHANGED <<pubRound, count, startSeq, stats, dataMsgCount, pubCallback, echoStep, answered, subVars,
                   pubCommands, subCommands, subStatus, commandFrom, matchVars, dataVars, faultVars>>

PubDiscovered ==
    /\ pubPc = "discover" /\ MutexFree
    /\ total_matches = 4 * N
    /\ pubPc' = "begin"
    /\ UNCHANGED <<pubRound, pubOpen, count, startSeq, times, stats,
                   sampleVars, subVars, commandVars, matchVars, dataVars, faultVars>>

\* Mutant: as the subscribers' predicate, any command will do.
AnyCommandIn == pubCommands # 0
AllCommandsIn == pubCommands >= N

\* Mutant: the count is not reset after the wait.
PubBegunKeepingCount ==
    /\ pubPc = "begin" /\ MutexFree
    /\ AllCommandsIn
    /\ count' = 1
    /\ pubPc' = "number"
    /\ UNCHANGED <<pubRound, pubOpen, startSeq, times, stats, sampleVars, subVars,
                   commandVars, matchVars, dataVars, faultVars>>

PubBegun ==
    /\ pubPc = "begin" /\ MutexFree
    /\ AllCommandsIn
    /\ pubCommands' = 0
    /\ count' = 1
    /\ pubPc' = "number"
    /\ UNCHANGED <<pubRound, pubOpen, startSeq, times, stats, sampleVars, subVars,
                   subCommands, subStatus, commandTo, commandFrom, matchVars, dataVars, faultVars>>

(***************************************************************************)
(* The loop over the samples                                               *)
(***************************************************************************)
\* Main writes what the callback shares, without mutex_.
Unlocked == raced' = (raced \/ ~MutexFree)

PubNumber ==
    /\ pubPc = "number"
    /\ seqOut' = count
    /\ Unlocked
    /\ pubPc' = "clear"
    /\ UNCHANGED <<pubRound, pubOpen, count, startSeq, times, stats, seqIn, dataMsgCount, pubCallback,
                   echoStep, answered, subVars, commandVars, matchVars, dataVars, faultVars>>

PubClear ==
    /\ pubPc = "clear"
    /\ seqIn' = 0
    /\ Unlocked
    /\ pubPc' = "start"
    /\ UNCHANGED <<pubRound, pubOpen, count, startSeq, times, stats, seqOut, dataMsgCount, pubCallback,
                   echoStep, answered, subVars, commandVars, matchVars, dataVars, faultVars>>

PubStart ==
    /\ pubPc = "start"
    /\ startSeq' = count
    /\ Unlocked
    /\ pubPc' = "write"
    /\ UNCHANGED <<pubRound, pubOpen, count, times, stats, seqOut, seqIn, dataMsgCount, pubCallback,
                   echoStep, answered, subVars, commandVars, matchVars, dataVars, faultVars>>

\* What is sent is latency_data_out_, with the number it has now.
PubWrite ==
    /\ pubPc = "write"
    /\ data' = ToAll(data, seqOut)
    /\ Unlocked
    /\ pubPc' = "wait"
    /\ UNCHANGED <<pubRound, pubOpen, count, startSeq, times, stats, seqOut, seqIn, dataMsgCount,
                   pubCallback, echoStep, answered, subVars, commandVars, matchVars, subCallback, echo, faultVars>>

\* Mutant: one sample too many.
OneSampleMore ==
    /\ dataMsgCount' = 0 /\ answered' = {}
    /\ count' = count + 1
    /\ pubPc' = IF count' <= Samples + 2 THEN "number" ELSE "stop"
    /\ UNCHANGED <<pubRound, pubOpen, startSeq, times, stats, seqOut, seqIn, pubCallback, echoStep,
                   raced, subVars, commandVars, matchVars, dataVars, failures>>

\* Mutant: the echoes of one sample are still counted for the next.
EchoesNotReset ==
    /\ answered' = {}
    /\ count' = count + 1
    /\ pubPc' = IF count' <= Samples + 1 THEN "number" ELSE "stop"
    /\ UNCHANGED <<pubRound, pubOpen, startSeq, times, stats, seqOut, seqIn, dataMsgCount, pubCallback,
                   echoStep, raced, subVars, commandVars, matchVars, dataVars, failures>>

\* The end of the loop's body: for (count = 1; count <= samples_ + 1; ++count)
NextSample ==
    /\ dataMsgCount' = 0 /\ answered' = {}
    /\ count' = count + 1
    /\ pubPc' = IF count' <= Samples + 1 THEN "number" ELSE "stop"
    /\ UNCHANGED <<pubRound, pubOpen, startSeq, times, stats, seqOut, seqIn, pubCallback, echoStep,
                   raced, subVars, commandVars, matchVars, dataVars, failures>>

AllEchoesIn == dataMsgCount >= N

PubEchoesIn ==
    /\ pubPc = "wait" /\ MutexFree
    /\ AllEchoesIn
    /\ NextSample
    /\ UNCHANGED disturbed

PubTimeout ==
    /\ pubPc = "wait" /\ MutexFree
    /\ ~AllEchoesIn
    /\ NextSample
    /\ disturbed' = TRUE

(***************************************************************************)
(* The end of a payload                                                    *)
(***************************************************************************)
PubStop ==
    /\ pubPc = "stop"
    /\ commandTo' = ToAll(commandTo, "STOP")
    /\ pubPc' = "end"
    /\ UNCHANGED <<pubRound, pubOpen, count, startSeq, times, stats, sampleVars, subVars,
                   pubCommands, subCommands, subStatus, commandFrom, matchVars, dataVars, faultVars>>

\* Every END has come: the data are deleted, the endpoints not yet.
PubEnded ==
    /\ pubPc = "end" /\ MutexFree
    /\ AllCommandsIn
    /\ pubCommands' = 0
    /\ pubPc' = "destroy"
    /\ UNCHANGED <<pubRound, pubOpen, count, startSeq, times, stats, sampleVars, subVars,
                   subCommands, subStatus, commandTo, commandFrom, matchVars, dataVars, faultVars>>

\* received_count_ counts what times_ holds.  The first time is dropped; an
\* empty times_ has no first element, and the process crashes.
analyze_times == [received |-> Len(times) - 1, measured |-> Len(Tail(times))]

\* The endpoints go, with what they hold, once no callback is running.
PubRemovesEndpoints ==
    /\ pubCallback = NoSample
    /\ pubOpen' = FALSE
    /\ pubMatches' = [s \in Subscribers |-> [pubMatches[s] EXCEPT !.data = 0]]
    /\ echo' = [s \in Subscribers |-> <<>>]

PubDestroy ==
    /\ pubPc = "destroy"
    /\ PubRemovesEndpoints
    /\ IF times = <<>>
       THEN pubPc' = "crashed" /\ UNCHANGED <<stats, pubRound>>
       ELSE /\ stats' = Append(stats, analyze_times)
            /\ pubRound' = pubRound + 1
            /\ pubPc' = IF pubRound < Rounds THEN "prepare" ELSE "done"
    /\ UNCHANGED <<count, startSeq, times, sampleVars, subVars, commandVars,
                   subMatches, subCallback, data, faultVars>>

(***************************************************************************)
(* A call that fails: test() returns false and run() ends, whatever the    *)
(* subscribers wait for.  The result of writing STOP is not looked at.     *)
(***************************************************************************)
Fails == failures < MaxFailures /\ failures' = failures + 1

PubFails ==
    /\ Fails
    /\ pubPc \in {"prepare", "write", "destroy"}
    /\ pubPc' = "failed"
    /\ pubOpen' = FALSE
    /\ UNCHANGED <<pubRound, count, startSeq, times, stats, sampleVars, subVars,
                   commandVars, matchVars, dataVars, disturbed>>

PubStopFails ==
    /\ Fails
    /\ pubPc = "stop"
    /\ pubPc' = "end"
    /\ UNCHANGED <<pubRound, pubOpen, count, startSeq, times, stats, sampleVars, subVars,
                   commandVars, matchVars, dataVars, disturbed>>

(***************************************************************************)
(* The publisher's callbacks                                               *)
(***************************************************************************)
\* Mutant: END is not counted.
PubOnBegin(s) ==
    /\ PubRuns /\ MutexFree
    /\ commandFrom[s] # <<>>
    /\ commandFrom' = Received(commandFrom, s)
    /\ pubCommands' = IF Head(commandFrom[s]) = "BEGIN" THEN pubCommands + 1 ELSE pubCommands
    /\ UNCHANGED <<pubVars, sampleVars, subVars, subCommands, subStatus, commandTo,
                   matchVars, dataVars, faultVars>>

PubOnCommand(s) ==
    /\ PubRuns /\ MutexFree
    /\ commandFrom[s] # <<>>
    /\ commandFrom' = Received(commandFrom, s)
    /\ pubCommands' = IF Head(commandFrom[s]) \in {"BEGIN", "END"}
                      THEN pubCommands + 1 ELSE pubCommands
    /\ UNCHANGED <<pubVars, sampleVars, subVars, subCommands, subStatus, commandTo,
                   matchVars, dataVars, faultVars>>

\* The echo is taken into latency_data_in_ before the mutex is locked.
PubTakeEcho(s) ==
    /\ PubRuns /\ pubOpen
    /\ pubCallback = NoSample
    /\ \E k \in 1..Len(echo[s]) :
        /\ pubCallback' = <<s, echo[s][k]>>
        /\ echo' = Arrived(echo, s, k)
        /\ seqIn' = echo[s][k]
    /\ UNCHANGED <<pubVars, seqOut, dataMsgCount, echoStep, raced, answered, subVars,
                   commandVars, matchVars, subCallback, data, faultVars>>

\* Mutant: whatever comes is taken for the echo of this sample.
AnyEcho == TRUE
Expected == seqIn = seqOut

\* Before the first sample latency_data_out_ has no number yet: the comparison
\* may have either result.
Unnumbered == pubPc \in {"discover", "begin"}

\* The callback locks mutex_ and compares.
PubLocks == PubRuns /\ pubCallback # NoSample /\ MutexFree

\* The end of the callback: the echo is counted, mutex_ is unlocked, and what
\* was taken is not looked at again.
EchoCounted ==
    /\ dataMsgCount' = dataMsgCount + 1
    /\ answered' = IF pubCallback[2] = count THEN answered \cup {pubCallback[1]} ELSE answered
    /\ pubCallback' = NoSample
    /\ seqIn' = 0
    /\ echoStep' = "none"
    /\ UNCHANGED <<raced, subVars, commandVars, matchVars, dataVars, faultVars>>

PubUnexpected ==
    /\ PubLocks
    /\ ~Expected \/ Unnumbered
    /\ EchoCounted
    /\ UNCHANGED <<pubVars, seqOut>>

PubExpected ==
    /\ PubLocks
    /\ Expected \/ Unnumbered
    /\ echoStep' = "time"
    /\ UNCHANGED <<pubVars, seqOut, seqIn, dataMsgCount, pubCallback, raced, answered, subVars,
                   commandVars, matchVars, dataVars, faultVars>>

\* A roundtrip that is not positive, less the clock's overhead, is discarded.
PubTimes(timed) ==
    /\ PubRuns
    /\ echoStep = "time"
    /\ times' = IF timed THEN Append(times, [echo |-> pubCallback[2], start |-> startSeq]) ELSE times
    /\ disturbed' = (disturbed \/ ~timed)
    /\ echoStep' = "reset"
    /\ UNCHANGED <<pubPc, pubRound, pubOpen, count, startSeq, stats, seqOut, seqIn, dataMsgCount,
                   pubCallback, raced, answered, subVars, commandVars, matchVars, dataVars, failures>>

PubResets ==
    /\ PubRuns
    /\ echoStep = "reset"
    /\ seqOut' = 0
    /\ EchoCounted
    /\ UNCHANGED pubVars

(***************************************************************************)
(* LatencyTestSubscriber::run and test                                     *)
(***************************************************************************)
SubGoes(s, from, to) ==
    /\ subPc[s] = from
    /\ subPc' = [subPc EXCEPT ![s] = to]

SubDiscoversCommands(s) ==
    /\ SubGoes(s, "match", "ready")
    /\ matches_of(subMatches, s) = 2
    /\ UNCHANGED <<pubVars, sampleVars, subRound, subOpen, commandVars, matchVars, dataVars, faultVars>>

\* wait_for_command: the predicate, and the reset that follows it.
SubCommandWaited(s) ==
    /\ subCommands[s] # 0
    /\ subCommands' = [subCommands EXCEPT ![s] = 0]
    /\ UNCHANGED <<pubCommands, subStatus, commandTo, commandFrom>>

SubReady(s) ==
    /\ SubGoes(s, "ready", "prepare")
    /\ SubCommandWaited(s)
    /\ UNCHANGED <<pubVars, sampleVars, subRound, subOpen, matchVars, dataVars, faultVars>>

\* Endpoints that are still there are an error.
SubCreatesEndpoints(s) ==
    /\ ~subOpen[s]
    /\ subOpen' = [subOpen EXCEPT ![s] = TRUE]

SubPrepare(s) ==
    /\ SubGoes(s, "prepare", "discover")
    /\ SubCreatesEndpoints(s)
    /\ UNCHANGED <<pubVars, sampleVars, subRound, commandVars, matchVars, dataVars, faultVars>>

SubDiscovered(s) ==
    /\ SubGoes(s, "discover", "begin")
    /\ matches_of(subMatches, s) = 4
    /\ UNCHANGED <<pubVars, sampleVars, subRound, subOpen, commandVars, matchVars, dataVars, faultVars>>

SubBegin(s) ==
    /\ SubGoes(s, "begin", "stop")
    /\ subStatus' = [subStatus EXCEPT ![s] = 0]
    /\ commandFrom' = To(commandFrom, s, "BEGIN")
    /\ UNCHANGED <<pubVars, sampleVars, subRound, subOpen, pubCommands, subCommands, commandTo,
                   matchVars, dataVars, faultVars>>

\* After STOP the data are deleted while the reader is still there.
SubStopped(s) ==
    /\ SubGoes(s, "stop", "destroy")
    /\ SubCommandWaited(s)
    /\ UNCHANGED <<pubVars, sampleVars, subRound, subOpen, matchVars, dataVars, faultVars>>

SubRemovesEndpoints(s) ==
    /\ subCallback[s] = NoNumber
    /\ subOpen' = [subOpen EXCEPT ![s] = FALSE]
    /\ subMatches' = [subMatches EXCEPT ![s].data = 0]
    /\ data' = [data EXCEPT ![s] = <<>>]

SubDestroy(s) ==
    /\ SubGoes(s, "destroy", IF subStatus[s] = -1 THEN "failed" ELSE "end")
    /\ SubRemovesEndpoints(s)
    /\ UNCHANGED <<pubVars, sampleVars, subRound, commandVars, pubMatches, subCallback, echo, faultVars>>

\* A failure is only logged here; it is the next payload's preparation that
\* finds the endpoints still there and gives up.
SubDestroyFails(s) ==
    /\ Fails
    /\ SubGoes(s, "destroy", IF subStatus[s] = -1 THEN "failed" ELSE "end")
    /\ UNCHANGED <<pubVars, sampleVars, subRound, subOpen, commandVars, matchVars, dataVars, disturbed>>

SubCannotPrepare(s) ==
    /\ SubGoes(s, "prepare", "failed")
    /\ subOpen[s]
    /\ subOpen' = [subOpen EXCEPT ![s] = FALSE]
    /\ UNCHANGED <<pubVars, sampleVars, subRound, commandVars, matchVars, dataVars, faultVars>>

SubEnd(s) ==
    /\ SubGoes(s, "end", "acknowledge")
    /\ commandFrom' = To(commandFrom, s, "END")
    /\ UNCHANGED <<pubVars, sampleVars, subRound, subOpen, pubCommands, subCommands, subStatus,
                   commandTo, matchVars, dataVars, faultVars>>

SubAcknowledged(s) ==
    /\ SubGoes(s, "acknowledge", IF subRound[s] < Rounds THEN "ready" ELSE "done")
    /\ commandFrom[s] = <<>> \/ ~PubRuns
    /\ subRound' = [subRound EXCEPT ![s] = @ + 1]
    /\ UNCHANGED <<pubVars, sampleVars, subOpen, commandVars, matchVars, dataVars, faultVars>>

\* A failing wait for the acknowledgment of END ends a subscriber that the
\* publisher has heard of, or will.
SubFails(s) ==
    /\ Fails
    /\ \/ \E pc \in {"prepare", "begin", "end"} : SubGoes(s, pc, "failed")
       \/ SubGoes(s, "acknowledge", "unacknowledged")
    /\ subOpen' = [subOpen EXCEPT ![s] = FALSE]
    /\ UNCHANGED <<pubVars, sampleVars, subRound, commandVars, matchVars, dataVars, disturbed>>

(***************************************************************************)
(* The subscribers' callbacks                                              *)
(***************************************************************************)
SubOnCommand(s) ==
    /\ SubRuns(s)
    /\ subMatches[s].command > 0
    /\ commandTo[s] # <<>>
    /\ LET command == Head(commandTo[s]) IN
       /\ subStatus' = IF command = "STOP_ERROR" THEN [subStatus EXCEPT ![s] = -1] ELSE subStatus
       /\ subCommands' = IF command # "DEFAULT" THEN [subCommands EXCEPT ![s] = @ + 1] ELSE subCommands
    /\ commandTo' = Received(commandTo, s)
    /\ UNCHANGED <<pubVars, sampleVars, subVars, pubCommands, commandFrom, matchVars, dataVars, faultVars>>

SubTakeSample(s) ==
    /\ subOpen[s]
    /\ subCallback[s] = NoNumber
    /\ \E k \in 1..Len(data[s]) :
        /\ subCallback' = [subCallback EXCEPT ![s] = data[s][k]]
        /\ data' = Arrived(data, s, k)
    /\ UNCHANGED <<pubVars, sampleVars, subVars, commandVars, matchVars, echo, faultVars>>

SubEcho(s) ==
    /\ subOpen[s]
    /\ subCallback[s] # NoNumber
    /\ echo' = IF pubOpen THEN To(echo, s, subCallback[s]) ELSE echo
    /\ subCallback' = [subCallback EXCEPT ![s] = NoNumber]
    /\ UNCHANGED <<pubVars, sampleVars, subVars, commandVars, matchVars, data, faultVars>>

-----------------------------------------------------------------------------
PubThread ==
    \/ PubPrepare \/ PubDiscovered \/ PubBegun
    \/ PubNumber \/ PubClear \/ PubStart \/ PubWrite \/ PubEchoesIn \/ PubTimeout
    \/ PubStop \/ PubEnded \/ PubDestroy

SubThread(s) ==
    \/ SubDiscoversCommands(s) \/ SubReady(s) \/ SubPrepare(s) \/ SubCannotPrepare(s) \/ SubDiscovered(s)
    \/ SubBegin(s) \/ SubStopped(s) \/ SubDestroy(s) \/ SubEnd(s) \/ SubAcknowledged(s)

Discovery(s) == \E kind \in {"command", "data"} : PubOnMatched(s, kind) \/ SubOnMatched(s, kind)
CommandDelivered(s) == PubOnCommand(s) \/ SubOnCommand(s)
PubCallback == \/ PubUnexpected \/ PubExpected \/ PubResets
               \/ \E timed \in BOOLEAN : PubTimes(timed)
CallbackEnds == \/ PubCallback
                \/ \E s \in Subscribers : SubEcho(s)
DataArrives(s) == SubTakeSample(s) \/ PubTakeEcho(s)

Faults == \/ PubFails \/ PubStopFails
          \/ \E s \in Subscribers : SubFails(s) \/ SubDestroyFails(s)

Progress ==
    \/ PubThread
    \/ CallbackEnds
    \/ \E s \in Subscribers : SubThread(s) \/ Discovery(s) \/ CommandDelivered(s)

Next ==
    \/ Progress
    \/ \E s \in Subscribers : DataArrives(s)
    \/ Faults

Spec == Init /\ [][Next]_vars

\* Some thread that can run does: nothing forces a sample to arrive, nothing
\* forces a fault, and no thread is preferred to another.  After a failure the
\* specification asks for nothing more.
FairSpec == Spec /\ WF_vars(failures = 0 /\ Progress)

-----------------------------------------------------------------------------
PubPlaces == {"prepare", "discover", "begin", "number", "clear", "start", "write", "wait",
              "stop", "end", "destroy", "done", "failed", "crashed"}
SubPlaces == {"match", "ready", "prepare", "discover", "begin", "stop", "destroy", "end",
              "acknowledge", "done", "failed", "unacknowledged"}

\* Type invariant of both roles: the loop's counter stays within samples_ + 2,
\* no side ever has more matches than endpoints (the assertions of both
\* total_matches), no command is counted twice.
TypeOK ==
    /\ pubPc \in PubPlaces /\ pubRound \in 1..(Rounds + 1) /\ pubOpen \in BOOLEAN
    /\ {count, seqOut, seqIn, startSeq} \subseteq 0..(Samples + 2)
    /\ dataMsgCount \in Nat /\ pubCommands \in 0..N
    /\ times \in Seq([echo : 0..(Samples + 1), start : 0..(Samples + 1)])
    /\ stats \in Seq([received : Nat, measured : Nat])
    /\ pubCallback = NoSample \/ pubCallback \in Subscribers \X (0..(Samples + 1))
    /\ echoStep \in {"none", "time", "reset"} /\ raced \in BOOLEAN
    /\ subPc \in [Subscribers -> SubPlaces]
    /\ subRound \in [Subscribers -> 1..(Rounds + 1)]
    /\ subOpen \in [Subscribers -> BOOLEAN]
    /\ subCommands \in [Subscribers -> 0..1]
    /\ subStatus \in [Subscribers -> {-1, 0}]
    /\ subCallback \in [Subscribers -> -1..(Samples + 1)]
    /\ {pubMatches, subMatches} \subseteq [Subscribers -> [command : 0..2, data : 0..2]]
    /\ {commandTo, commandFrom} \subseteq [Subscribers -> Seq(Commands)]
    /\ {data, echo} \subseteq [Subscribers -> Seq(0..(Samples + 1))]
    /\ failures \in 0..MaxFailures
    /\ disturbed \in BOOLEAN
    /\ answered \subseteq Subscribers

\* "Assures that LatencyTestSubscriber|Publisher data endpoints creation and
\* destruction is sequential" (the wait for END and the wait for READY): a
\* subscriber has data endpoints only while the publisher has those of the
\* same payload, and the publisher removes its own only after all the others.
EndpointsNested ==
    failures = 0 => \A s \in Subscribers : subOpen[s] => pubOpen /\ subRound[s] = pubRound

\* The BEGIN commands synchronise: while the publisher sends samples, every
\* subscriber is there, for the same payload, matched, and waits for STOP.
SamplingTogether ==
    pubPc \in {"number", "clear", "start", "write", "wait", "stop"} =>
        \A s \in Subscribers :
            /\ subPc[s] = "stop" /\ subRound[s] = pubRound
            /\ subMatches[s].data = 2 /\ pubMatches[s].data = 2

\* What the shared numbers are for: whatever is late, no roundtrip is taken from
\* the start of an older sample than the one echoed (no time is too long by a
\* sample).  That it starts at the very sample echoed, and that no sample is
\* timed twice, holds as long as main's unlocked writes of seqnum and start_time_
\* do not fall between the callback's comparison and its reset; once they have,
\* a late echo is timed from the next sample, or a sample numbered 0 is sent.
RoundtripsMatch ==
    /\ \A i \in 1..Len(times) : times[i].echo <= times[i].start
    /\ ~raced /\ ~Unnumbered =>
        /\ \A i \in 1..Len(times) : times[i].echo = times[i].start
        /\ \A i, j \in 1..Len(times) : i < j => times[i].echo < times[j].echo

\* Data that a main thread has deleted are used by a callback, or will be by one
\* for what is on its way.
DeletedInUse ==
    \/ pubPc = "destroy" /\ (pubCallback # NoSample \/ \E s \in Subscribers : echo[s] # <<>>)
    \/ \E s \in Subscribers :
        subPc[s] = "destroy" /\ (subCallback[s] # NoNumber \/ data[s] # <<>>)

\* If no echo is lost, late or discarded, the table shows samples_ roundtrips
\* for every payload, the publisher does not crash on an empty times_, and no
\* callback uses data that a main thread has deleted.
UndisturbedMeasuresAll ==
    ~disturbed =>
        /\ \A i \in 1..Len(stats) : stats[i] = [received |-> Samples, measured |-> Samples]
        /\ pubPc # "crashed"
        /\ ~DeletedInUse

\* The handshake never blocks: unless a call fails or the publisher crashes for
\* want of any echo, all processes get through all payloads, though any number
\* of samples and echoes may be lost or late.
TestCompletes ==
    <>(\/ pubPc = "done" /\ \A s \in Subscribers : subPc[s] = "done"
       \/ failures > 0
       \/ pubPc = "crashed")

\* "The publication node will try in a loop to send a sample, wait for the reply
\* and calculate the time": a wait that does not time out has seen the replies
\* of all subscribers to the sample just sent.  It holds until a first wait times
\* out; the late echo of that sample is then counted for a later one.
WaitsForReply == [][PubEchoesIn /\ ~disturbed => answered = Subscribers]_vars
=============================================================================
