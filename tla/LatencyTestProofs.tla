--------------------------- MODULE LatencyTestProofs --------------------------
(***************************************************************************)
(* Theorems about the latency test, for any number of subscribers, samples *)
(* and payloads and any number of failing calls.                           *)
(***************************************************************************)
EXTENDS LatencyTest, FiniteSetTheorems, TLAPS

-----------------------------------------------------------------------------
(* The parts of the inductive invariant.                                   *)

Value == 1..(Samples + 1)
Message == 0..(Samples + 1)
Matches == [command : 0..2, data : 0..2]
Sending == {"clear", "start", "write"}
Sampling == {"number", "clear", "start", "write", "wait", "stop"}

\* Types, group by group, without the bounds that take several actors to see.
PubShape ==
    /\ pubPc \in PubPlaces /\ pubRound \in 1..(Rounds + 1) /\ pubOpen \in BOOLEAN
    /\ count \in 0..(Samples + 2) /\ startSeq \in 0..(Samples + 1)
    /\ times \in Seq([echo : Message, start : Message])
    /\ stats \in Seq([received : Nat, measured : Nat])
    /\ pubPc \in {"number", "wait"} \cup Sending => count \in Value
    /\ pubPc \in {"stop", "end", "destroy"} => count = Samples + 2
    /\ pubPc \in {"prepare", "discover", "begin"} => count \in {0, Samples + 2}
    /\ pubPc # "done" => pubRound <= Rounds
SampleShape ==
    /\ seqOut \in 0..(Samples + 1) /\ seqIn \in 0..(Samples + 1) /\ dataMsgCount \in Nat
    /\ pubCallback = NoSample \/ pubCallback \in Subscribers \X Message
    /\ echoStep \in {"none", "time", "reset"} /\ raced \in BOOLEAN
    /\ echoStep # "none" => pubCallback # NoSample
    /\ answered \subseteq Subscribers
SubShape ==
    /\ subPc \in [Subscribers -> SubPlaces]
    /\ subRound \in [Subscribers -> 1..(Rounds + 1)]
    /\ subOpen \in [Subscribers -> BOOLEAN]
    /\ \A s \in Subscribers : subPc[s] # "done" => subRound[s] <= Rounds
CommandShape ==
    /\ pubCommands \in Nat
    /\ subCommands \in [Subscribers -> Nat]
    /\ subStatus \in [Subscribers -> {-1, 0}]
    /\ commandTo \in [Subscribers -> Seq(Commands)]
    /\ commandFrom \in [Subscribers -> Seq(Commands)]
MatchShape ==
    /\ pubMatches \in [Subscribers -> Matches]
    /\ subMatches \in [Subscribers -> Matches]
DataShape ==
    /\ subCallback \in [Subscribers -> -1..(Samples + 1)]
    /\ data \in [Subscribers -> Seq(Message)]
    /\ echo \in [Subscribers -> Seq(Message)]
FaultShape == failures \in 0..MaxFailures /\ disturbed \in BOOLEAN

Shape == /\ PubShape /\ SampleShape /\ SubShape /\ CommandShape
         /\ MatchShape /\ DataShape /\ FaultShape

\* No command of the publisher, or one, has not been waited for.
Quiet(s) == commandTo[s] = <<>> /\ subCommands[s] = 0
Told(s) == \/ commandTo[s] \in {<<"READY">>, <<"STOP">>} /\ subCommands[s] = 0
           \/ commandTo[s] = <<>> /\ subCommands[s] = 1
Silent(s) == commandFrom[s] = <<>>
Said(s, command) == Silent(s) \/ commandFrom[s] = <<command>>

\* A subscriber is through with the payload before this one.
Resting(s, round) ==
    \/ subRound[s] = round /\ subPc[s] \in {"match", "ready", "done"}
    \/ subRound[s] = round - 1 /\ subPc[s] \in {"acknowledge", "unacknowledged"}

At(s, places) == subRound[s] = pubRound /\ subPc[s] \in places

\* What a subscriber may be doing, by what the publisher does.
Handshake(s) ==
    /\ pubPc \in {"prepare", "done"} => Resting(s, pubRound) /\ Quiet(s) /\ Silent(s)
    /\ pubPc \in {"discover", "begin"} =>
        \/ Resting(s, pubRound) /\ Told(s) /\ Silent(s)
        \/ At(s, {"prepare", "discover", "begin"}) /\ Quiet(s) /\ Silent(s)
        \/ At(s, {"stop"}) /\ Quiet(s) /\ Said(s, "BEGIN")
        \/ subPc[s] = "failed" /\ Quiet(s) /\ Silent(s)
    /\ pubPc \in Sampling => At(s, {"stop"}) /\ Quiet(s) /\ Silent(s)
    /\ pubPc = "end" =>
        \/ At(s, {"stop"}) /\ (Quiet(s) \/ Told(s)) /\ Silent(s)
        \/ At(s, {"destroy", "end"}) /\ Quiet(s) /\ Silent(s)
        \/ At(s, {"acknowledge", "unacknowledged"}) /\ Quiet(s) /\ Said(s, "END")
        \/ Resting(s, pubRound + 1) /\ Quiet(s) /\ Silent(s)
        \/ subPc[s] = "failed" /\ Quiet(s) /\ Silent(s)
    /\ pubPc \in {"destroy", "crashed"} => Resting(s, pubRound + 1) /\ Quiet(s) /\ Silent(s)
    /\ Quiet(s) \/ Told(s)

\* The subscribers whose BEGIN, or whose END, the publisher has counted.
Counts(s) ==
    /\ Silent(s)
    /\ \/ pubPc \in {"discover", "begin"} /\ subPc[s] = "stop"
       \/ pubPc = "end" /\ Resting(s, pubRound + 1)
Counted == {s \in Subscribers : Counts(s)}

CountsCommands == pubCommands = Cardinality(Counted)

\* Where endpoints exist, and where they are known to be matched.
PubOpened ==
    /\ pubOpen <=> pubPc \in {"discover", "begin", "end", "destroy"} \cup Sampling
    /\ pubPc = "failed" => failures > 0
    /\ pubPc \in {"begin", "end", "destroy"} \cup Sampling =>
        \A s \in Subscribers : pubMatches[s].data = 2
SubOpened(s) ==
    /\ subPc[s] \in {"discover", "begin", "stop", "destroy"} => subOpen[s]
    /\ failures = 0 /\ subOpen[s] => subPc[s] \in {"discover", "begin", "stop", "destroy"}
    /\ subPc[s] \in {"begin", "stop"} => subMatches[s].data = 2

Protocol == /\ CountsCommands /\ PubOpened
            /\ \A s \in Subscribers : Handshake(s) /\ SubOpened(s)

\* The number of the last sample written; what is on its way is not younger.
Written == IF pubPc = "wait" THEN count ELSE count - 1

OnTheWay ==
    /\ \A s \in Subscribers :
        /\ \A i \in 1..Len(data[s]) : data[s][i] <= Written
        /\ \A i \in 1..Len(echo[s]) : echo[s][i] <= Written
        /\ subCallback[s] # NoNumber => subCallback[s] <= Written
    /\ pubCallback # NoSample => pubCallback[2] <= Written

\* What the main thread has left in start_time_ and, unless the callback has
\* reset it since, in the sample it sends.
Numbering ==
    /\ Written >= 1 => startSeq >= Written
    /\ Written >= 1 /\ pubPc \notin {"write", "failed"} => startSeq = Written
    /\ pubPc = "write" => startSeq = count
    /\ pubPc \in Sending /\ seqOut # 0 => seqOut = count
    /\ pubPc \notin Sending \cup {"failed"} /\ seqOut # 0 => seqOut = Written
    /\ Unnumbered => seqOut = 0

Timed == \A i \in 1..Len(times) : times[i].echo <= times[i].start /\ times[i].echo <= Written

\* As long as no write of the main thread has met the callback in its critical
\* section: every sample has its number, and what the callback has compared is
\* still so when it uses it.
Numbered ==
    /\ \A s \in Subscribers :
        /\ \A i \in 1..Len(data[s]) : data[s][i] # 0
        /\ \A i \in 1..Len(echo[s]) : echo[s][i] # 0
        /\ subCallback[s] # 0
    /\ pubCallback # NoSample => pubCallback[2] # 0
    /\ pubPc \in Sending => seqOut = count
Compared ==
    /\ pubCallback # NoSample /\ echoStep = "none" =>
        /\ seqIn \in {0, pubCallback[2]}
        /\ seqIn = 0 => seqOut # 0
    /\ echoStep = "time" => seqOut = pubCallback[2] /\ startSeq = pubCallback[2]
    /\ echoStep # "none" => pubPc \notin Sending
Matching ==
    /\ \A i \in 1..Len(times) :
        /\ times[i].echo = times[i].start
        /\ seqOut # 0 /\ echoStep # "reset" => times[i].echo < seqOut
    /\ \A i, j \in 1..Len(times) : i < j => times[i].echo < times[j].echo
Clean == ~raced /\ ~Unnumbered
Unraced == Numbered /\ Compared /\ Matching

\* Nothing is on its way to or from a subscriber.
Empty(s) == data[s] = <<>> /\ echo[s] = <<>> /\ subCallback[s] = NoNumber

\* A subscriber that failed, or could not remove its endpoints: its samples
\* may outlive their payload, but then the next payload never begins.
Gone(s) == subPc[s] \in {"failed", "unacknowledged"}
Stale(s) ==
    \/ Gone(s)
    \/ subOpen[s] /\ subPc[s] \notin {"discover", "begin", "stop"}

Removed ==
    /\ \A s \in Subscribers :
        ~Gone(s) /\ ~subOpen[s] => data[s] = <<>> /\ subCallback[s] = NoNumber
    /\ pubPc \in {"prepare", "discover", "begin"} =>
        /\ \A s \in Subscribers : Stale(s) \/ Empty(s)
        /\ pubCallback # NoSample => Stale(pubCallback[1])
    /\ pubPc = "prepare" => pubCallback = NoSample /\ \A s \in Subscribers : echo[s] = <<>>
    /\ pubPc \in {"discover", "begin"} /\ times # <<>> => \E s \in Subscribers : Stale(s)

Samplings == OnTheWay /\ Numbering /\ Timed /\ Removed /\ (Clean => Unraced)

\* The one place where the current sample, or its echo, is.
Held(s) == pubCallback # NoSample /\ pubCallback[1] = s
Once(s) ==
    \/ data[s] = <<count>> /\ echo[s] = <<>> /\ subCallback[s] = NoNumber /\ ~Held(s) /\ s \notin answered
    \/ data[s] = <<>> /\ echo[s] = <<>> /\ subCallback[s] = count /\ ~Held(s) /\ s \notin answered
    \/ data[s] = <<>> /\ echo[s] = <<count>> /\ subCallback[s] = NoNumber /\ ~Held(s) /\ s \notin answered
    \/ Empty(s) /\ Held(s) /\ pubCallback[2] = count /\ s \notin answered
    \/ Empty(s) /\ ~Held(s) /\ s \in answered

Undisturbed ==
    /\ pubPc # "wait" => /\ \A s \in Subscribers : Empty(s)
                         /\ pubCallback = NoSample /\ dataMsgCount = 0 /\ answered = {}
    /\ pubPc = "wait" => /\ \A s \in Subscribers : Once(s)
                         /\ dataMsgCount = Cardinality(answered)
                         /\ seqOut = IF answered = {} THEN count ELSE 0
                         /\ pubCallback # NoSample => seqIn = count
                         /\ echoStep # "none" => answered = {}
    /\ pubPc \in {"discover", "begin"} => times = <<>>
    /\ pubPc \in {"number", "stop", "end", "destroy"} \cup Sending => Len(times) = count - 1
    /\ pubPc = "wait" =>
        Len(times) = IF answered = {} /\ echoStep # "reset" THEN count - 1 ELSE count
    /\ \A i \in 1..Len(stats) : stats[i] = [received |-> Samples, measured |-> Samples]
    /\ pubPc # "crashed"
    /\ ~raced

IInv == Shape /\ Protocol /\ Samplings /\ (~disturbed => Undisturbed)

-----------------------------------------------------------------------------
(* Types.                                                                  *)

\* The constants, in the form the provers use them.
LEMMA Constants ==
    /\ Samples \in Nat /\ Rounds \in Nat \ {0} /\ MaxFailures \in Nat
    /\ IsFiniteSet(Subscribers) /\ N \in Nat \ {0}
<1>1. Cardinality(Subscribers) \in Nat /\ Cardinality(Subscribers) # 0
  BY SubscribersAssumption, FS_CardinalityType, FS_EmptySet
<1> QED
  BY <1>1, SamplesAssumption, RoundsAssumption, MaxFailuresAssumption, SubscribersAssumption DEF N

\* The operations on channels keep their types.
LEMMA ChannelTypes ==
    ASSUME NEW S, NEW channel \in [Subscribers -> Seq(S)]
    PROVE  /\ \A m \in S : ToAll(channel, m) \in [Subscribers -> Seq(S)]
           /\ \A s \in Subscribers, m \in S : To(channel, s, m) \in [Subscribers -> Seq(S)]
           /\ \A s \in Subscribers :
                channel[s] # <<>> => /\ Received(channel, s) \in [Subscribers -> Seq(S)]
                                     /\ Head(channel[s]) \in S
           /\ \A s \in Subscribers : \A k \in 1..Len(channel[s]) :
                /\ Arrived(channel, s, k) \in [Subscribers -> Seq(S)]
                /\ channel[s][k] \in S
<1>1. ASSUME NEW m \in S PROVE ToAll(channel, m) \in [Subscribers -> Seq(S)]
  BY DEF ToAll
<1>2. ASSUME NEW s \in Subscribers, NEW m \in S PROVE To(channel, s, m) \in [Subscribers -> Seq(S)]
  BY DEF To
<1>3. ASSUME NEW s \in Subscribers, channel[s] # <<>>
      PROVE  Received(channel, s) \in [Subscribers -> Seq(S)] /\ Head(channel[s]) \in S
  BY <1>3 DEF Received
<1>4. ASSUME NEW s \in Subscribers, NEW k \in 1..Len(channel[s])
      PROVE  Arrived(channel, s, k) \in [Subscribers -> Seq(S)] /\ channel[s][k] \in S
  BY <1>4 DEF Arrived
<1> QED
  BY <1>1, <1>2, <1>3, <1>4

\* The elements of a sequence.
LEMMA ElementType ==
    ASSUME NEW S, NEW q \in Seq(S), NEW i \in 1..Len(q)
    PROVE  q[i] \in S
OBVIOUS

\* The elements of an appended sequence.
LEMMA AppendElements ==
    ASSUME NEW S, NEW q \in Seq(S), NEW x
    PROVE  /\ Len(q) \in Nat /\ Len(Append(q, x)) = Len(q) + 1
           /\ Append(q, x)[Len(q) + 1] = x
           /\ \A i \in 1..Len(q) : Append(q, x)[i] = q[i]
OBVIOUS

\* Appending to a sequence keeps its type.
LEMMA AppendType ==
    ASSUME NEW S, NEW q \in Seq(S), NEW x \in S
    PROVE  Append(q, x) \in Seq(S)
OBVIOUS

\* A step that leaves a group of variables alone keeps its types.
LEMMA ShapeFrames ==
    /\ PubShape /\ UNCHANGED pubVars => PubShape'
    /\ SampleShape /\ UNCHANGED sampleVars => SampleShape'
    /\ SubShape /\ UNCHANGED subVars => SubShape'
    /\ CommandShape /\ UNCHANGED commandVars => CommandShape'
    /\ MatchShape /\ UNCHANGED matchVars => MatchShape'
    /\ DataShape /\ UNCHANGED dataVars => DataShape'
    /\ FaultShape /\ UNCHANGED faultVars => FaultShape'
<1>1. PubShape /\ UNCHANGED pubVars => PubShape'
  BY DEF PubShape, pubVars
<1>2. SampleShape /\ UNCHANGED sampleVars => SampleShape'
  BY DEF SampleShape, sampleVars
<1>3. SubShape /\ UNCHANGED subVars => SubShape'
  BY DEF SubShape, subVars
<1>4. CommandShape /\ UNCHANGED commandVars => CommandShape'
  BY DEF CommandShape, commandVars
<1>5. MatchShape /\ UNCHANGED matchVars => MatchShape'
  BY DEF MatchShape, matchVars
<1>6. DataShape /\ UNCHANGED dataVars => DataShape'
  BY DEF DataShape, dataVars
<1>7. FaultShape /\ UNCHANGED faultVars => FaultShape'
  BY DEF FaultShape, faultVars
<1> QED
  BY <1>1, <1>2, <1>3, <1>4, <1>5, <1>6, <1>7

\* The initial state.
LEMMA ShapeInit == Init => Shape
<1> SUFFICES ASSUME Init PROVE Shape
  OBVIOUS
<1>0. /\ 0 \in 0..(Samples + 1) /\ 0 \in 0..(Samples + 2) /\ 0 \in 0..MaxFailures
      /\ 1 \in 1..(Rounds + 1) /\ 1 <= Rounds
  BY Constants
<1>1. PubShape
  <2>1. /\ pubPc = "prepare" /\ pubRound = 1 /\ pubOpen = FALSE
        /\ count = 0 /\ startSeq = 0 /\ times = <<>> /\ stats = <<>>
    BY DEF Init
  <2>2. /\ times \in Seq([echo : Message, start : Message])
        /\ stats \in Seq([received : Nat, measured : Nat])
    BY <2>1
  <2> QED
    BY <1>0, <2>1, <2>2 DEF PubShape, PubPlaces, Sending
<1>2. SampleShape /\ FaultShape
  BY <1>0 DEF Init, SampleShape, FaultShape, NoSample
<1>3. SubShape
  BY <1>0 DEF Init, SubShape, SubPlaces
<1>4. CommandShape
  BY DEF Init, CommandShape
<1>5. MatchShape
  BY DEF Init, MatchShape, Matches, Unmatched
<1>6. DataShape
  <2>1. /\ subCallback = [s \in Subscribers |-> -1] /\ data = [s \in Subscribers |-> <<>>]
        /\ echo = [s \in Subscribers |-> <<>>] /\ -1 \in -1..(Samples + 1)
    BY Constants DEF Init, NoNumber
  <2>2. <<>> \in Seq(Message)
    OBVIOUS
  <2> QED
    BY <1>0, <2>1, <2>2 DEF DataShape
<1> QED
  BY <1>1, <1>2, <1>3, <1>4, <1>5, <1>6 DEF Shape

\* A write without the mutex.
LEMMA UnlockedType == ASSUME SampleShape, Unlocked PROVE raced' \in BOOLEAN
BY DEF Unlocked

\* The publisher's thread.
LEMMA ShapePub == ASSUME Shape, PubThread PROVE Shape'
<1> USE Constants, ShapeFrames DEF Shape
<1>0. {"READY", "STOP", "BEGIN", "END"} \subseteq Commands
  BY DEF Commands
<1>1. CASE PubPrepare
  <2>1. PubShape'
    BY <1>1 DEF PubPrepare, PubCreatesEndpoints, PubShape, PubPlaces, Sending
  <2>2. CommandShape'
    BY <1>0, <1>1, ChannelTypes DEF PubPrepare, CommandShape
  <2>3. SampleShape'
    <3>1. /\ seqOut' = 0 /\ seqIn' = 0 /\ raced' = FALSE
          /\ UNCHANGED <<dataMsgCount, pubCallback, echoStep, answered>>
      BY <1>1 DEF PubPrepare
    <3>2. 0 \in 0..(Samples + 1)
      OBVIOUS
    <3> QED
      BY <3>1, <3>2 DEF SampleShape
  <2> QED
    BY <1>1, <2>1, <2>2, <2>3 DEF PubPrepare
<1>2. CASE PubDiscovered
  <2>1. PubShape'
    BY <1>2 DEF PubDiscovered, PubShape, PubPlaces, Sending
  <2> QED
    BY <1>2, <2>1 DEF PubDiscovered
<1>3. CASE PubBegun
  <2>1. PubShape'
    BY <1>3 DEF PubBegun, PubShape, PubPlaces, Value, Sending
  <2>2. CommandShape'
    BY <1>3 DEF PubBegun, CommandShape
  <2> QED
    BY <1>3, <2>1, <2>2 DEF PubBegun
<1>4. CASE PubNumber
  <2>1. PubShape'
    BY <1>4 DEF PubNumber, PubShape, PubPlaces, Sending
  <2>2. count \in 0..(Samples + 1)
    BY <1>4 DEF PubNumber, PubShape, Value
  <2>3. SampleShape'
    BY <1>4, <2>2, UnlockedType DEF PubNumber, SampleShape
  <2> QED
    BY <1>4, <2>1, <2>3 DEF PubNumber
<1>a. CASE PubClear
  <2>1. PubShape'
    BY <1>a DEF PubClear, PubShape, PubPlaces, Sending
  <2>2. SampleShape'
    BY <1>a, UnlockedType DEF PubClear, SampleShape
  <2> QED
    BY <1>a, <2>1, <2>2 DEF PubClear
<1>b. CASE PubStart
  <2>1. PubShape'
    BY <1>b DEF PubStart, PubShape, PubPlaces, Sending, Value
  <2>2. SampleShape'
    BY <1>b, UnlockedType DEF PubStart, SampleShape
  <2> QED
    BY <1>b, <2>1, <2>2 DEF PubStart
<1>5. CASE PubWrite
  <2>1. PubShape'
    BY <1>5 DEF PubWrite, PubShape, PubPlaces, Sending
  <2>2. SampleShape'
    BY <1>5, UnlockedType DEF PubWrite, SampleShape
  <2>3. DataShape'
    BY <1>5, ChannelTypes DEF PubWrite, DataShape, SampleShape, Message
  <2> QED
    BY <1>5, <2>1, <2>2, <2>3 DEF PubWrite
<1>6. CASE PubEchoesIn \/ PubTimeout
  <2>1. NextSample /\ pubPc = "wait"
    BY <1>6 DEF PubEchoesIn, PubTimeout
  <2>2. PubShape'
    BY <2>1 DEF NextSample, PubShape, PubPlaces, Value, Sending
  <2>3. SampleShape'
    BY <2>1 DEF NextSample, SampleShape
  <2>4. FaultShape'
    BY <1>6, <2>1 DEF PubEchoesIn, PubTimeout, NextSample, FaultShape
  <2> QED
    BY <2>1, <2>2, <2>3, <2>4 DEF NextSample
<1>7. CASE PubStop
  <2>1. PubShape'
    BY <1>7 DEF PubStop, PubShape, PubPlaces, Sending
  <2>2. CommandShape'
    BY <1>0, <1>7, ChannelTypes DEF PubStop, CommandShape
  <2> QED
    BY <1>7, <2>1, <2>2 DEF PubStop
<1>8. CASE PubEnded
  <2>1. PubShape' /\ CommandShape'
    BY <1>8 DEF PubEnded, PubShape, CommandShape, PubPlaces, Sending
  <2> QED
    BY <1>8, <2>1 DEF PubEnded
<1>9. CASE PubDestroy
  <2>1. PubShape'
    <3>1. stats' \in Seq([received : Nat, measured : Nat])
      <4>1. CASE times = <<>>
        BY <1>9, <4>1 DEF PubDestroy, PubShape
      <4>2. CASE times # <<>>
        <5>1. analyze_times \in [received : Nat, measured : Nat]
          BY <4>2 DEF analyze_times, PubShape
        <5>2. stats' = Append(stats, analyze_times) /\ stats \in Seq([received : Nat, measured : Nat])
          BY <1>9, <4>2 DEF PubDestroy, PubShape
        <5> QED
          BY <5>1, <5>2, AppendType
      <4> QED
        BY <4>1, <4>2
    <3>2. /\ pubPc' \in {"crashed", "prepare", "done"} /\ pubRound' \in 1..(Rounds + 1)
          /\ pubPc' # "done" => pubRound' <= Rounds
          /\ pubOpen' = FALSE /\ UNCHANGED <<count, startSeq, times>> /\ count = Samples + 2
      BY <1>9 DEF PubDestroy, PubRemovesEndpoints, PubShape
    <3> QED
      BY <3>1, <3>2 DEF PubShape, PubPlaces, Sending
  <2>2. MatchShape'
    <3>1. /\ pubMatches' = [s \in Subscribers |-> [pubMatches[s] EXCEPT !.data = 0]]
          /\ subMatches' = subMatches
      BY <1>9 DEF PubDestroy, PubRemovesEndpoints
    <3>2. \A m \in Matches : [m EXCEPT !.data = 0] \in Matches
      BY DEF Matches
    <3> QED
      BY <3>1, <3>2 DEF MatchShape
  <2>3. DataShape'
    BY <1>9 DEF PubDestroy, PubRemovesEndpoints, DataShape
  <2> QED
    BY <1>9, <2>1, <2>2, <2>3 DEF PubDestroy
<1> QED
  BY <1>1, <1>2, <1>3, <1>4, <1>a, <1>b, <1>5, <1>6, <1>7, <1>8, <1>9 DEF PubThread

\* The subscribers' threads.
LEMMA ShapeSub == ASSUME Shape, NEW s \in Subscribers, SubThread(s) PROVE Shape'
<1> USE Constants, ShapeFrames DEF Shape
<1>0. {"READY", "STOP", "BEGIN", "END"} \subseteq Commands
  BY DEF Commands
<1>1. CASE SubDiscoversCommands(s) \/ SubDiscovered(s)
  <2>1. SubShape'
    BY <1>1 DEF SubDiscoversCommands, SubDiscovered, SubGoes, SubShape, SubPlaces
  <2> QED
    BY <1>1, <2>1 DEF SubDiscoversCommands, SubDiscovered
<1>2. CASE SubReady(s) \/ SubStopped(s)
  <2>1. SubShape'
    BY <1>2 DEF SubReady, SubStopped, SubGoes, SubShape, SubPlaces
  <2>0. SubCommandWaited(s)
    BY <1>2 DEF SubReady, SubStopped
  <2>2. CommandShape'
    BY <2>0 DEF SubCommandWaited, CommandShape
  <2> QED
    BY <1>2, <2>1, <2>2 DEF SubReady, SubStopped
<1>3. CASE SubPrepare(s) \/ SubCannotPrepare(s)
  <2>1. SubShape'
    BY <1>3 DEF SubPrepare, SubCannotPrepare, SubCreatesEndpoints, SubGoes, SubShape, SubPlaces
  <2> QED
    BY <1>3, <2>1 DEF SubPrepare, SubCannotPrepare
<1>4. CASE SubBegin(s) \/ SubEnd(s)
  <2>1. SubShape'
    BY <1>4 DEF SubBegin, SubEnd, SubGoes, SubShape, SubPlaces
  <2>0. PICK m \in Commands : commandFrom' = To(commandFrom, s, m)
    BY <1>0, <1>4 DEF SubBegin, SubEnd
  <2>2. commandFrom' \in [Subscribers -> Seq(Commands)]
    BY <2>0, ChannelTypes DEF CommandShape
  <2>3. CommandShape'
    BY <1>4, <2>2 DEF SubBegin, SubEnd, CommandShape
  <2> QED
    BY <1>4, <2>1, <2>3 DEF SubBegin, SubEnd
<1>5. CASE SubDestroy(s)
  <2>1. SubShape'
    BY <1>5 DEF SubDestroy, SubRemovesEndpoints, SubGoes, SubShape, SubPlaces
  <2>2. MatchShape'
    BY <1>5 DEF SubDestroy, SubRemovesEndpoints, MatchShape, Matches
  <2>3. DataShape'
    BY <1>5 DEF SubDestroy, SubRemovesEndpoints, DataShape
  <2> QED
    BY <1>5, <2>1, <2>2, <2>3 DEF SubDestroy
<1>6. CASE SubAcknowledged(s)
  <2>1. SubShape'
    BY <1>6 DEF SubAcknowledged, SubGoes, SubShape, SubPlaces
  <2> QED
    BY <1>6, <2>1 DEF SubAcknowledged
<1> QED
  BY <1>1, <1>2, <1>3, <1>4, <1>5, <1>6 DEF SubThread

\* Discovery, commands, samples and echoes.
LEMMA ShapeCallbacks ==
    ASSUME Shape,
           \/ CallbackEnds
           \/ \E s \in Subscribers : Discovery(s) \/ CommandDelivered(s) \/ DataArrives(s)
    PROVE  Shape'
<1> USE Constants, ShapeFrames DEF Shape
<1>1. ASSUME NEW s \in Subscribers, NEW kind \in {"command", "data"},
             PubOnMatched(s, kind) \/ SubOnMatched(s, kind)
      PROVE  Shape'
  <2>1. MatchShape'
    <3>1. ASSUME NEW m \in Matches, m[kind] < 2
          PROVE  [m EXCEPT ![kind] = @ + 1] \in Matches
      BY <3>1 DEF Matches
    <3> QED
      BY <1>1, <3>1 DEF PubOnMatched, SubOnMatched, Matched, MatchShape
  <2> QED
    BY <1>1, <2>1 DEF PubOnMatched, SubOnMatched
<1>2. ASSUME NEW s \in Subscribers, PubOnCommand(s)
      PROVE  Shape'
  <2>1. CommandShape'
    BY <1>2, ChannelTypes DEF PubOnCommand, CommandShape
  <2> QED
    BY <1>2, <2>1 DEF PubOnCommand
<1>3. ASSUME NEW s \in Subscribers, SubOnCommand(s)
      PROVE  Shape'
  <2>1. commandTo' \in [Subscribers -> Seq(Commands)]
    BY <1>3, ChannelTypes DEF SubOnCommand, CommandShape
  <2>2. CommandShape'
    BY <1>3, <2>1 DEF SubOnCommand, CommandShape
  <2> QED
    BY <1>3, <2>2 DEF SubOnCommand
<1>4. ASSUME NEW s \in Subscribers, PubTakeEcho(s)
      PROVE  Shape'
  <2>1. PICK k \in 1..Len(echo[s]) : /\ pubCallback' = <<s, echo[s][k]>>
                                     /\ echo' = Arrived(echo, s, k) /\ seqIn' = echo[s][k]
    BY <1>4 DEF PubTakeEcho
  <2>2. echo' \in [Subscribers -> Seq(Message)] /\ echo[s][k] \in Message
    BY <2>1, ChannelTypes DEF DataShape
  <2>0. pubCallback' \in Subscribers \X Message /\ pubCallback' # NoSample
    BY <2>1, <2>2 DEF NoSample
  <2>3. SampleShape'
    BY <1>4, <2>0, <2>1, <2>2 DEF PubTakeEcho, SampleShape, Message
  <2>4. DataShape'
    BY <1>4, <2>2 DEF PubTakeEcho, DataShape
  <2> QED
    BY <1>4, <2>3, <2>4 DEF PubTakeEcho
<1>5. ASSUME NEW s \in Subscribers, SubTakeSample(s)
      PROVE  Shape'
  <2>1. PICK k \in 1..Len(data[s]) : /\ subCallback' = [subCallback EXCEPT ![s] = data[s][k]]
                                     /\ data' = Arrived(data, s, k)
    BY <1>5 DEF SubTakeSample
  <2>2. data' \in [Subscribers -> Seq(Message)] /\ data[s][k] \in Message
    BY <2>1, ChannelTypes DEF DataShape
  <2>4. subCallback' \in [Subscribers -> -1..(Samples + 1)]
    BY <2>1, <2>2 DEF DataShape, Message
  <2>3. DataShape'
    BY <1>5, <2>2, <2>4 DEF SubTakeSample, DataShape
  <2> QED
    BY <1>5, <2>3 DEF SubTakeSample
<1>6. CASE PubUnexpected \/ PubResets
  <2>1. EchoCounted /\ pubCallback # NoSample
    BY <1>6 DEF PubUnexpected, PubResets, PubLocks, SampleShape
  <2>2. pubCallback[1] \in Subscribers
    BY <2>1 DEF SampleShape
  <2>3. seqOut' \in 0..(Samples + 1)
    BY <1>6 DEF PubUnexpected, PubResets, SampleShape
  <2>4. SampleShape'
    BY <2>1, <2>2, <2>3 DEF EchoCounted, SampleShape
  <2> QED
    BY <1>6, <2>1, <2>4 DEF PubUnexpected, PubResets, EchoCounted
<1>8. CASE PubExpected
  <2>1. SampleShape'
    BY <1>8 DEF PubExpected, PubLocks, SampleShape
  <2> QED
    BY <1>8, <2>1 DEF PubExpected
<1>9. ASSUME NEW timed \in BOOLEAN, PubTimes(timed)
      PROVE  Shape'
  <2>1. pubCallback[2] \in Message
    BY <1>9 DEF PubTimes, SampleShape
  <2>2. PubShape'
    <3>1. times' \in Seq([echo : Message, start : Message])
      <4>1. times \in Seq([echo : Message, start : Message]) /\ startSeq \in Message
        BY DEF PubShape, Message
      <4>2. [echo |-> pubCallback[2], start |-> startSeq] \in [echo : Message, start : Message]
        BY <2>1, <4>1
      <4>3. Append(times, [echo |-> pubCallback[2], start |-> startSeq])
              \in Seq([echo : Message, start : Message])
        BY <4>1, <4>2, AppendType
      <4> QED
        BY <1>9, <4>1, <4>3 DEF PubTimes
    <3> QED
      BY <1>9, <3>1 DEF PubTimes, PubShape
  <2>3. SampleShape'
    BY <1>9 DEF PubTimes, SampleShape
  <2>4. FaultShape'
    BY <1>9 DEF PubTimes, FaultShape
  <2> QED
    BY <1>9, <2>2, <2>3, <2>4 DEF PubTimes
<1>7. ASSUME NEW s \in Subscribers, SubEcho(s)
      PROVE  Shape'
  <2>1. subCallback[s] \in Message
    BY <1>7 DEF SubEcho, DataShape, Message, NoNumber
  <2>2. echo' \in [Subscribers -> Seq(Message)]
    BY <1>7, <2>1, ChannelTypes DEF SubEcho, DataShape
  <2>3. DataShape'
    BY <1>7, <2>2 DEF SubEcho, DataShape, NoNumber
  <2> QED
    BY <1>7, <2>3 DEF SubEcho
<1> QED
  BY <1>1, <1>2, <1>3, <1>4, <1>5, <1>6, <1>7, <1>8, <1>9 DEF CallbackEnds, PubCallback, Discovery,
     CommandDelivered, DataArrives

\* Calls that fail.
LEMMA ShapeFaults == ASSUME Shape, Faults PROVE Shape'
<1> USE Constants, ShapeFrames DEF Shape
<1>1. CASE PubFails \/ PubStopFails
  <2>1. PubShape'
    BY <1>1 DEF PubFails, PubStopFails, PubShape, PubPlaces, Sending
  <2>2. FaultShape'
    BY <1>1 DEF PubFails, PubStopFails, Fails, FaultShape
  <2> QED
    BY <1>1, <2>1, <2>2 DEF PubFails, PubStopFails
<1>2. ASSUME NEW s \in Subscribers, SubFails(s) \/ SubDestroyFails(s)
      PROVE  Shape'
  <2>1. SubShape'
    BY <1>2 DEF SubFails, SubDestroyFails, SubGoes, SubShape, SubPlaces
  <2>2. FaultShape'
    BY <1>2 DEF SubFails, SubDestroyFails, Fails, FaultShape
  <2> QED
    BY <1>2, <2>1, <2>2 DEF SubFails, SubDestroyFails
<1> QED
  BY <1>1, <1>2 DEF Faults

\* Every step keeps the types.
LEMMA ShapeStep == Shape /\ [Next]_vars => Shape'
<1>1. Shape /\ UNCHANGED vars => Shape'
  BY ShapeFrames DEF Shape, vars
<1> QED
  BY <1>1, ShapePub, ShapeSub, ShapeCallbacks, ShapeFaults DEF Next, Progress

-----------------------------------------------------------------------------
(* The handshake.                                                          *)

\* A subscriber's part of the protocol, its endpoints, or the publisher's place
\* are not touched.
SameSub(s) ==
    /\ subPc'[s] = subPc[s] /\ subRound'[s] = subRound[s] /\ subCommands'[s] = subCommands[s]
    /\ commandTo'[s] = commandTo[s] /\ commandFrom'[s] = commandFrom[s]
SameOpened(s) ==
    /\ subPc'[s] = subPc[s] /\ subOpen'[s] = subOpen[s]
    /\ subMatches'[s].data = subMatches[s].data
SamePub == UNCHANGED <<pubPc, pubRound>>

\* A step that leaves a subscriber's part of the protocol alone.
LEMMA HandshakeFrame ==
    ASSUME NEW s \in Subscribers, Handshake(s), SameSub(s), SamePub
    PROVE  Handshake(s)' /\ (Counts(s)' <=> Counts(s))
BY DEF SameSub, SamePub, Handshake, Counts, Resting, At, Quiet, Told, Silent, Said

\* Nothing is counted but in the two waits.
LEMMA CountedNone ==
    ASSUME \A s \in Subscribers : ~Counts(s)
    PROVE  Cardinality(Counted) = 0
BY FS_EmptySet DEF Counted

\* The same after a step.
LEMMA CountedNoneNext ==
    ASSUME \A s \in Subscribers : ~Counts(s)'
    PROVE  Cardinality(Counted') = 0
BY FS_EmptySet DEF Counted

\* When N commands have been counted, every subscriber's has.
LEMMA CountedAll ==
    ASSUME CountsCommands, AllCommandsIn
    PROVE  \A s \in Subscribers : Counts(s)
<1>1. Counted \subseteq Subscribers /\ IsFiniteSet(Subscribers)
  BY Constants DEF Counted
<1>2. Cardinality(Counted) >= Cardinality(Subscribers)
  BY DEF CountsCommands, AllCommandsIn, N
<1>3. Cardinality(Counted) \in Nat /\ Cardinality(Subscribers) \in Nat
  BY <1>1, FS_Subset, FS_CardinalityType
<1>4. Counted = Subscribers
  BY <1>1, <1>2, <1>3, FS_Subset
<1> QED
  BY <1>4 DEF Counted

\* A step of one subscriber.
LEMMA SubscriberStep ==
    ASSUME Protocol, NEW s \in Subscribers, SamePub, UNCHANGED <<pubOpen, pubMatches, pubCommands>>,
           failures' = failures \/ failures' > 0,
           \A o \in Subscribers \ {s} : SameSub(o) /\ SameOpened(o),
           Handshake(s)', SubOpened(s)', Counts(s)' <=> Counts(s)
    PROVE  Protocol'
<1>1. \A o \in Subscribers : Handshake(o)' /\ (Counts(o)' <=> Counts(o))
  BY HandshakeFrame DEF Protocol
<1>2. CountsCommands'
  <2>1. Counted' = Counted
    BY <1>1 DEF Counted
  <2> QED
    BY <2>1 DEF CountsCommands, Protocol
<1>3. \A o \in Subscribers : SubOpened(o)'
  BY DEF SubOpened, SameOpened, Protocol
<1>4. PubOpened'
  BY DEF PubOpened, Protocol, SamePub
<1> QED
  BY <1>1, <1>2, <1>3, <1>4 DEF Protocol

\* A channel with one message.
LEMMA OneMessage == \A m : Head(<<m>>) = m /\ Tail(<<m>>) = <<>> /\ Append(<<>>, m) = <<m>>
OBVIOUS

\* A command that is written.
LEMMA AppendedCommand ==
    ASSUME NEW q \in Seq(Commands), NEW m \in {"READY", "STOP", "BEGIN", "END"}
    PROVE  /\ q = <<>> => Append(q, m) = <<m>>
           /\ Append(q, m) # <<>>
<1>1. q = <<>> => Append(q, m) = <<m>>
  OBVIOUS
<1>2. Append(q, m) # <<>>
  <2>1. Len(Append(q, m)) = Len(q) + 1 /\ Len(q) \in Nat
    BY DEF Commands
  <2> QED
    BY <2>1
<1> QED
  BY <1>1, <1>2

\* The subscribers' threads.
LEMMA ProtocolSub ==
    ASSUME Shape, Protocol, NEW s \in Subscribers, SubThread(s) \/ SubFails(s) \/ SubDestroyFails(s)
    PROVE  Protocol'
<1>0. /\ Handshake(s) /\ SubOpened(s) /\ pubRound \in Int /\ Rounds \in Nat /\ failures \in Nat
      /\ subPc \in [Subscribers -> SubPlaces] /\ subRound \in [Subscribers -> Int]
      /\ subOpen \in [Subscribers -> BOOLEAN] /\ subMatches \in [Subscribers -> Matches]
      /\ subCommands \in [Subscribers -> Nat] /\ commandTo \in [Subscribers -> Seq(Commands)]
      /\ commandFrom \in [Subscribers -> Seq(Commands)]
  BY Constants DEF Protocol, Shape, PubShape, SubShape, MatchShape, CommandShape, FaultShape
<1> DEFINE Others == /\ SamePub /\ UNCHANGED <<pubOpen, pubMatches, pubCommands>>
                     /\ failures' = failures \/ failures' > 0
                     /\ \A o \in Subscribers \ {s} : SameSub(o) /\ SameOpened(o)
<1> USE DEF SamePub, SameSub, SameOpened, SubGoes
<1>1. CASE SubDiscoversCommands(s)
  <2>1. Others
    BY <1>0, <1>1 DEF SubDiscoversCommands, pubVars, subVars, commandVars, matchVars, faultVars
  <2>2. /\ subPc[s] = "match" /\ subPc'[s] = "ready"
        /\ subRound'[s] = subRound[s] /\ subCommands'[s] = subCommands[s]
        /\ commandTo'[s] = commandTo[s] /\ commandFrom'[s] = commandFrom[s]
    BY <1>0, <1>1 DEF SubDiscoversCommands, commandVars
  <2>3. Handshake(s)' /\ (Counts(s)' <=> Counts(s))
    BY <1>0, <2>1, <2>2 DEF Handshake, Counts, Resting, At, Quiet, Told, Silent, Said, Sampling
  <2>4. SubOpened(s)'
    BY <1>0, <1>1, <2>2 DEF SubDiscoversCommands, SubOpened, Matches, matchVars, faultVars
  <2> QED
    BY <2>1, <2>3, <2>4, SubscriberStep
<1>2. CASE SubReady(s)
  <2>1. Others
    BY <1>0, <1>2 DEF SubReady, SubCommandWaited, pubVars, subVars, commandVars, matchVars, faultVars
  <2>2. /\ subPc[s] = "ready" /\ subPc'[s] = "prepare"
        /\ subRound'[s] = subRound[s] /\ subCommands[s] # 0 /\ subCommands'[s] = 0
        /\ commandTo'[s] = commandTo[s] /\ commandFrom'[s] = commandFrom[s]
    BY <1>0, <1>2 DEF SubReady, SubCommandWaited, commandVars
  <2>3. Handshake(s)' /\ (Counts(s)' <=> Counts(s))
    BY <1>0, <2>1, <2>2 DEF Handshake, Counts, Resting, At, Quiet, Told, Silent, Said, Sampling
  <2>4. SubOpened(s)'
    BY <1>0, <1>2, <2>2 DEF SubReady, SubCommandWaited, SubOpened, Matches, matchVars, faultVars
  <2> QED
    BY <2>1, <2>3, <2>4, SubscriberStep
<1>3. CASE SubPrepare(s)
  <2>1. Others
    BY <1>0, <1>3 DEF SubPrepare, SubCreatesEndpoints, pubVars, subVars, commandVars, matchVars, faultVars
  <2>2. /\ subPc[s] = "prepare" /\ subPc'[s] = "discover"
        /\ subRound'[s] = subRound[s] /\ subCommands'[s] = subCommands[s]
        /\ commandTo'[s] = commandTo[s] /\ commandFrom'[s] = commandFrom[s]
    BY <1>0, <1>3 DEF SubPrepare, SubCreatesEndpoints, commandVars
  <2>3. Handshake(s)' /\ (Counts(s)' <=> Counts(s))
    BY <1>0, <2>1, <2>2 DEF Handshake, Counts, Resting, At, Quiet, Told, Silent, Said, Sampling
  <2>4. SubOpened(s)'
    BY <1>0, <1>3, <2>2 DEF SubPrepare, SubCreatesEndpoints, SubOpened, Matches, matchVars, faultVars
  <2> QED
    BY <2>1, <2>3, <2>4, SubscriberStep
<1>4. CASE SubCannotPrepare(s)
  <2>1. Others
    BY <1>0, <1>4 DEF SubCannotPrepare, pubVars, subVars, commandVars, matchVars, faultVars
  <2>2. /\ subPc[s] = "prepare" /\ subPc'[s] = "failed"
        /\ subRound'[s] = subRound[s] /\ subCommands'[s] = subCommands[s]
        /\ commandTo'[s] = commandTo[s] /\ commandFrom'[s] = commandFrom[s]
    BY <1>0, <1>4 DEF SubCannotPrepare, commandVars
  <2>3. Handshake(s)' /\ (Counts(s)' <=> Counts(s))
    BY <1>0, <2>1, <2>2 DEF Handshake, Counts, Resting, At, Quiet, Told, Silent, Said, Sampling
  <2>4. SubOpened(s)'
    BY <1>0, <1>4, <2>2 DEF SubCannotPrepare, SubOpened, Matches, matchVars, faultVars
  <2> QED
    BY <2>1, <2>3, <2>4, SubscriberStep
<1>5. CASE SubDiscovered(s)
  <2>1. Others
    BY <1>0, <1>5 DEF SubDiscovered, matches_of, pubVars, subVars, commandVars, matchVars, faultVars
  <2>2. /\ subPc[s] = "discover" /\ subPc'[s] = "begin"
        /\ subRound'[s] = subRound[s] /\ subCommands'[s] = subCommands[s]
        /\ commandTo'[s] = commandTo[s] /\ commandFrom'[s] = commandFrom[s]
    BY <1>0, <1>5 DEF SubDiscovered, matches_of, commandVars
  <2>3. Handshake(s)' /\ (Counts(s)' <=> Counts(s))
    BY <1>0, <2>1, <2>2 DEF Handshake, Counts, Resting, At, Quiet, Told, Silent, Said, Sampling
  <2>4. SubOpened(s)'
    <3>1. subMatches[s].command \in 0..2 /\ subMatches[s].data \in 0..2
      BY <1>0 DEF Matches
    <3>2. subMatches[s].command + subMatches[s].data = 4 /\ UNCHANGED <<subOpen, subMatches, failures>>
      BY <1>5 DEF SubDiscovered, matches_of, matchVars, faultVars
    <3>3. subMatches'[s].data = 2
      BY <3>1, <3>2
    <3> QED
      BY <1>0, <2>2, <3>2, <3>3 DEF SubOpened
  <2> QED
    BY <2>1, <2>3, <2>4, SubscriberStep
<1>6. CASE SubBegin(s)
  <2>1. Others
    BY <1>0, <1>6 DEF SubBegin, To, pubVars, subVars, commandVars, matchVars, faultVars
  <2>2. /\ subPc[s] = "begin" /\ subPc'[s] = "stop"
        /\ subRound'[s] = subRound[s] /\ subCommands'[s] = subCommands[s]
        /\ commandTo'[s] = commandTo[s] /\ commandFrom'[s] = Append(commandFrom[s], "BEGIN")
    BY <1>0, <1>6 DEF SubBegin, To, commandVars
  <2>3. Handshake(s)' /\ (Counts(s)' <=> Counts(s))
    <3>1. /\ commandFrom[s] = <<>> => commandFrom'[s] = <<"BEGIN">>
          /\ commandFrom'[s] # <<>>
      BY <1>0, <2>2, AppendedCommand
    <3> QED
      BY <1>0, <2>1, <2>2, <3>1 DEF Handshake, Counts, Resting, At, Quiet, Told, Silent, Said, Sampling
  <2>4. SubOpened(s)'
    BY <1>0, <1>6, <2>2 DEF SubBegin, To, SubOpened, Matches, matchVars, faultVars
  <2> QED
    BY <2>1, <2>3, <2>4, SubscriberStep
<1>7. CASE SubStopped(s)
  <2>1. Others
    BY <1>0, <1>7 DEF SubStopped, SubCommandWaited, pubVars, subVars, commandVars, matchVars, faultVars
  <2>2. /\ subPc[s] = "stop" /\ subPc'[s] = "destroy"
        /\ subRound'[s] = subRound[s] /\ subCommands[s] # 0 /\ subCommands'[s] = 0
        /\ commandTo'[s] = commandTo[s] /\ commandFrom'[s] = commandFrom[s]
    BY <1>0, <1>7 DEF SubStopped, SubCommandWaited, commandVars
  <2>3. Handshake(s)' /\ (Counts(s)' <=> Counts(s))
    BY <1>0, <2>1, <2>2 DEF Handshake, Counts, Resting, At, Quiet, Told, Silent, Said, Sampling
  <2>4. SubOpened(s)'
    BY <1>0, <1>7, <2>2 DEF SubStopped, SubCommandWaited, SubOpened, Matches, matchVars, faultVars
  <2> QED
    BY <2>1, <2>3, <2>4, SubscriberStep
<1>8. CASE SubDestroy(s)
  <2>1. Others
    BY <1>0, <1>8 DEF SubDestroy, SubRemovesEndpoints, pubVars, subVars, commandVars, matchVars, faultVars
  <2>2. /\ subPc[s] = "destroy" /\ subPc'[s] \in {"failed", "end"}
        /\ subRound'[s] = subRound[s] /\ subCommands'[s] = subCommands[s]
        /\ commandTo'[s] = commandTo[s] /\ commandFrom'[s] = commandFrom[s]
    BY <1>0, <1>8 DEF SubDestroy, SubRemovesEndpoints, commandVars
  <2>3. Handshake(s)' /\ (Counts(s)' <=> Counts(s))
    BY <1>0, <2>1, <2>2 DEF Handshake, Counts, Resting, At, Quiet, Told, Silent, Said, Sampling
  <2>4. SubOpened(s)'
    BY <1>0, <1>8, <2>2 DEF SubDestroy, SubRemovesEndpoints, SubOpened, Matches, matchVars, faultVars
  <2> QED
    BY <2>1, <2>3, <2>4, SubscriberStep
<1>9. CASE SubEnd(s)
  <2>1. Others
    BY <1>0, <1>9 DEF SubEnd, To, pubVars, subVars, commandVars, matchVars, faultVars
  <2>2. /\ subPc[s] = "end" /\ subPc'[s] = "acknowledge"
        /\ subRound'[s] = subRound[s] /\ subCommands'[s] = subCommands[s]
        /\ commandTo'[s] = commandTo[s] /\ commandFrom'[s] = Append(commandFrom[s], "END")
    BY <1>0, <1>9 DEF SubEnd, To, commandVars
  <2>3. Handshake(s)' /\ (Counts(s)' <=> Counts(s))
    <3>1. /\ commandFrom[s] = <<>> => commandFrom'[s] = <<"END">>
          /\ commandFrom'[s] # <<>>
      BY <1>0, <2>2, AppendedCommand
    <3> QED
      BY <1>0, <2>1, <2>2, <3>1 DEF Handshake, Counts, Resting, At, Quiet, Told, Silent, Said, Sampling
  <2>4. SubOpened(s)'
    BY <1>0, <1>9, <2>2 DEF SubEnd, To, SubOpened, Matches, matchVars, faultVars
  <2> QED
    BY <2>1, <2>3, <2>4, SubscriberStep
<1>10. CASE SubAcknowledged(s)
  <2>1. Others
    BY <1>0, <1>10 DEF SubAcknowledged, PubRuns, pubVars, subVars, commandVars, matchVars, faultVars
  <2>2. /\ subPc[s] = "acknowledge" /\ subPc'[s] \in {"ready", "done"} /\ (commandFrom[s] = <<>> \/ ~PubRuns)
        /\ subRound'[s] = subRound[s] + 1 /\ subCommands'[s] = subCommands[s]
        /\ commandTo'[s] = commandTo[s] /\ commandFrom'[s] = commandFrom[s]
    BY <1>0, <1>10 DEF SubAcknowledged, PubRuns, commandVars
  <2>3. Handshake(s)' /\ (Counts(s)' <=> Counts(s))
    BY <1>0, <2>1, <2>2 DEF Handshake, Counts, Resting, At, Quiet, Told, Silent, Said, Sampling, PubRuns
  <2>4. SubOpened(s)'
    BY <1>0, <1>10, <2>2 DEF SubAcknowledged, PubRuns, SubOpened, Matches, matchVars, faultVars
  <2> QED
    BY <2>1, <2>3, <2>4, SubscriberStep
<1>11. CASE SubFails(s)
  <2>1. Others
    BY <1>0, <1>11 DEF SubFails, Fails, pubVars, subVars, commandVars, matchVars, faultVars
  <2>2. /\ \/ subPc[s] \in {"prepare", "begin", "end"} /\ subPc'[s] = "failed"
           \/ subPc[s] = "acknowledge" /\ subPc'[s] = "unacknowledged"
        /\ subRound'[s] = subRound[s] /\ subCommands'[s] = subCommands[s]
        /\ commandTo'[s] = commandTo[s] /\ commandFrom'[s] = commandFrom[s]
    BY <1>0, <1>11 DEF SubFails, Fails, commandVars
  <2>3. Handshake(s)' /\ (Counts(s)' <=> Counts(s))
    BY <1>0, <2>1, <2>2 DEF Handshake, Counts, Resting, At, Quiet, Told, Silent, Said, Sampling
  <2>4. SubOpened(s)'
    BY <1>0, <1>11, <2>2 DEF SubFails, Fails, SubOpened, Matches, matchVars, faultVars
  <2> QED
    BY <2>1, <2>3, <2>4, SubscriberStep
<1>12. CASE SubDestroyFails(s)
  <2>1. Others
    BY <1>0, <1>12 DEF SubDestroyFails, Fails, pubVars, subVars, commandVars, matchVars, faultVars
  <2>2. /\ subPc[s] = "destroy" /\ subPc'[s] \in {"failed", "end"}
        /\ subRound'[s] = subRound[s] /\ subCommands'[s] = subCommands[s]
        /\ commandTo'[s] = commandTo[s] /\ commandFrom'[s] = commandFrom[s]
    BY <1>0, <1>12 DEF SubDestroyFails, Fails, commandVars
  <2>3. Handshake(s)' /\ (Counts(s)' <=> Counts(s))
    BY <1>0, <2>1, <2>2 DEF Handshake, Counts, Resting, At, Quiet, Told, Silent, Said, Sampling
  <2>4. SubOpened(s)'
    BY <1>0, <1>12, <2>2 DEF SubDestroyFails, Fails, SubOpened, Matches, matchVars, faultVars
  <2> QED
    BY <2>1, <2>3, <2>4, SubscriberStep
<1> QED
  BY <1>1, <1>2, <1>3, <1>4, <1>5, <1>6, <1>7, <1>8, <1>9, <1>10, <1>11, <1>12 DEF SubThread

\* 4 * N matches are matches of every endpoint of every subscriber.
LEMMA AllMatched ==
    ASSUME MatchShape, total_matches = 4 * N
    PROVE  \A s \in Subscribers : pubMatches[s].data = 2
<1>1. IsFiniteSet(Endpoints) /\ Cardinality(Endpoints) = 4
  <2>1. IsFiniteSet(1..2) /\ Cardinality(1..2) = 2
    <3>1. IsFiniteSet({2}) /\ Cardinality({2}) = 1
      BY FS_Singleton
    <3>2. 1..2 = {2} \cup {1} /\ 1 \notin {2}
      OBVIOUS
    <3> QED
      BY <3>1, <3>2, FS_AddElement
  <2>2. IsFiniteSet({"command", "data"}) /\ Cardinality({"command", "data"}) = 2
    <3>1. IsFiniteSet({"data"}) /\ Cardinality({"data"}) = 1
      BY FS_Singleton
    <3>2. {"command", "data"} = {"data"} \cup {"command"} /\ "command" \notin {"data"}
      OBVIOUS
    <3> QED
      BY <3>1, <3>2, FS_AddElement
  <2>3. /\ IsFiniteSet({"command", "data"} \X (1..2))
        /\ Cardinality({"command", "data"} \X (1..2)) = Cardinality({"command", "data"}) * Cardinality(1..2)
    BY <2>1, <2>2, FS_Product
  <2>4. Cardinality({"command", "data"} \X (1..2)) = 2 * 2
    BY <2>1, <2>2, <2>3
  <2> QED
    BY <2>3, <2>4 DEF Endpoints
<1>2. IsFiniteSet(Subscribers \X Endpoints) /\ Cardinality(Subscribers \X Endpoints) = N * 4
  BY <1>1, Constants, FS_Product DEF N
<1>3. MatchedEndpoints \subseteq Subscribers \X Endpoints
  BY DEF MatchedEndpoints
<1>4. Cardinality(MatchedEndpoints) = Cardinality(Subscribers \X Endpoints)
  BY <1>2, Constants DEF total_matches
<1>5. MatchedEndpoints = Subscribers \X Endpoints
  BY <1>2, <1>3, <1>4, FS_Subset
<1>6. ASSUME NEW s \in Subscribers PROVE pubMatches[s].data = 2
  <2>1. <<s, <<"data", 2>>>> \in Subscribers \X Endpoints
    BY DEF Endpoints
  <2>2. 2 <= pubMatches[s]["data"]
    BY <1>5, <2>1 DEF MatchedEndpoints
  <2>3. pubMatches[s].data \in 0..2
    BY DEF MatchShape, Matches
  <2> QED
    BY <2>2, <2>3
<1> QED
  BY <1>6

\* The publisher's thread.
LEMMA ProtocolPub ==
    ASSUME Shape, Protocol, PubThread \/ PubFails \/ PubStopFails
    PROVE  Protocol'
<1>0. /\ \A s \in Subscribers : Handshake(s) /\ SubOpened(s)
      /\ CountsCommands /\ PubOpened /\ pubRound \in Int /\ failures \in Nat
      /\ pubCommands \in Nat /\ commandTo \in [Subscribers -> Seq(Commands)]
  BY Constants DEF Protocol, Shape, PubShape, CommandShape, FaultShape
<1>u. UNCHANGED <<subPc, subRound, subOpen, subCommands, subMatches, commandFrom>>
  BY DEF PubThread, PubPrepare, PubDiscovered, PubBegun, PubNumber, PubClear, PubStart, PubWrite, PubEchoesIn, PubTimeout,
     NextSample, PubStop, PubEnded, PubDestroy, PubFails, PubStopFails, subVars, commandVars, matchVars
<1>f. failures' = failures \/ failures' > 0
  BY <1>0 DEF PubThread, PubPrepare, PubDiscovered, PubBegun, PubNumber, PubClear, PubStart, PubWrite, PubEchoesIn, PubTimeout,
     NextSample, PubStop, PubEnded, PubDestroy, PubFails, PubStopFails, Fails, faultVars
<1>o. \A s \in Subscribers : SubOpened(s)'
  BY <1>0, <1>u, <1>f DEF SubOpened
<1> SUFFICES /\ \A s \in Subscribers : Handshake(s)'
             /\ CountsCommands' /\ PubOpened'
  BY <1>o DEF Protocol
<1>1. CASE PubPrepare
  <2>1. \A s \in Subscribers : Handshake(s)' /\ ~Counts(s) /\ ~Counts(s)'
    <3> TAKE s \in Subscribers
    <3>1. commandTo[s] = <<>> => commandTo'[s] = <<"READY">>
      BY <1>0, <1>1, AppendedCommand DEF PubPrepare, ToAll
    <3>2. pubPc = "prepare" /\ pubPc' = "discover" /\ pubRound' = pubRound
      BY <1>1 DEF PubPrepare
    <3> QED
      BY <1>0, <1>u, <3>1, <3>2 DEF Handshake, Counts, Resting, At, Quiet, Told, Silent, Said, Sampling
  <2>2. CountsCommands'
    BY <1>0, <1>1, <2>1, CountedNone, CountedNoneNext DEF PubPrepare, CountsCommands
  <2>3. PubOpened'
    BY <1>0, <1>1 DEF PubPrepare, PubCreatesEndpoints, PubOpened, Sampling
  <2> QED
    BY <2>1, <2>2, <2>3
<1>2. CASE PubDiscovered
  <2>1. \A s \in Subscribers : Handshake(s)' /\ (Counts(s)' <=> Counts(s))
    <3> TAKE s \in Subscribers
    <3>2. pubPc = "discover" /\ pubPc' = "begin" /\ UNCHANGED <<pubRound, commandTo>>
      BY <1>2 DEF PubDiscovered, commandVars
    <3> QED
      BY <1>0, <1>u, <3>2 DEF Handshake, Counts, Resting, At, Quiet, Told, Silent, Said, Sampling
  <2>2. CountsCommands'
    <3>1. Counted' = Counted
      BY <2>1 DEF Counted
    <3> QED
      BY <1>0, <1>2, <3>1 DEF PubDiscovered, CountsCommands, commandVars
  <2>3. PubOpened'
    <3>1. \A s \in Subscribers : pubMatches'[s].data = 2
      BY <1>2, AllMatched DEF PubDiscovered, Shape, matchVars
    <3> QED
      BY <1>0, <1>2, <3>1 DEF PubDiscovered, PubOpened, Sampling
  <2> QED
    BY <2>1, <2>2, <2>3
<1>3. CASE PubBegun
  <2>1. \A s \in Subscribers : Handshake(s)' /\ ~Counts(s)'
    <3> TAKE s \in Subscribers
    <3>1. Counts(s)
      BY <1>0, <1>3, CountedAll DEF PubBegun
    <3>2. pubPc = "begin" /\ pubPc' = "number" /\ UNCHANGED <<pubRound, commandTo>>
      BY <1>3 DEF PubBegun
    <3> QED
      BY <1>0, <1>u, <3>1, <3>2 DEF Handshake, Counts, Resting, At, Quiet, Told, Silent, Said, Sampling
  <2>2. CountsCommands'
    BY <1>3, <2>1, CountedNoneNext DEF PubBegun, CountsCommands
  <2>3. PubOpened'
    BY <1>0, <1>3 DEF PubBegun, PubOpened, Sampling, matchVars
  <2> QED
    BY <2>1, <2>2, <2>3
<1>4. CASE PubNumber \/ PubClear \/ PubStart \/ PubWrite \/ PubEchoesIn \/ PubTimeout
  <2>0. pubPc \in Sampling /\ pubPc' \in Sampling
        /\ UNCHANGED <<pubRound, pubOpen, pubMatches, commandTo, pubCommands, failures>>
    BY <1>4 DEF PubNumber, PubClear, PubStart, PubWrite, PubEchoesIn, PubTimeout, NextSample, Sampling, commandVars,
       matchVars, faultVars
  <2>1. \A s \in Subscribers : Handshake(s)' /\ ~Counts(s) /\ ~Counts(s)'
    <3> TAKE s \in Subscribers
    <3> QED
      BY <1>0, <1>u, <2>0 DEF Handshake, Counts, Resting, At, Quiet, Told, Silent, Said, Sampling
  <2>2. CountsCommands'
    BY <1>0, <2>0, <2>1, CountedNone, CountedNoneNext DEF CountsCommands
  <2>3. PubOpened'
    BY <1>0, <2>0 DEF PubOpened, Sampling
  <2> QED
    BY <2>1, <2>2, <2>3
<1>5. CASE PubStop \/ PubStopFails
  <2>0. pubPc = "stop" /\ pubPc' = "end" /\ UNCHANGED <<pubRound, pubOpen, pubMatches, pubCommands>>
    BY <1>5 DEF PubStop, PubStopFails, commandVars, matchVars
  <2>1. \A s \in Subscribers : Handshake(s)' /\ ~Counts(s) /\ ~Counts(s)'
    <3> TAKE s \in Subscribers
    <3>1. commandTo[s] = <<>> => commandTo'[s] \in {<<"STOP">>, <<>>}
      BY <1>0, <1>5, AppendedCommand DEF PubStop, PubStopFails, ToAll, commandVars
    <3> QED
      BY <1>0, <1>u, <2>0, <3>1 DEF Handshake, Counts, Resting, At, Quiet, Told, Silent, Said, Sampling
  <2>2. CountsCommands'
    BY <1>0, <2>0, <2>1, CountedNone, CountedNoneNext DEF CountsCommands
  <2>3. PubOpened'
    BY <1>0, <2>0 DEF PubOpened, Sampling
  <2> QED
    BY <2>1, <2>2, <2>3
<1>6. CASE PubEnded
  <2>1. \A s \in Subscribers : Handshake(s)' /\ ~Counts(s)'
    <3> TAKE s \in Subscribers
    <3>1. Counts(s)
      BY <1>0, <1>6, CountedAll DEF PubEnded
    <3>2. pubPc = "end" /\ pubPc' = "destroy" /\ UNCHANGED <<pubRound, commandTo>>
      BY <1>6 DEF PubEnded
    <3> QED
      BY <1>0, <1>u, <3>1, <3>2 DEF Handshake, Counts, Resting, At, Quiet, Told, Silent, Said, Sampling
  <2>2. CountsCommands'
    BY <1>6, <2>1, CountedNoneNext DEF PubEnded, CountsCommands
  <2>3. PubOpened'
    BY <1>0, <1>6 DEF PubEnded, PubOpened, Sampling, matchVars
  <2> QED
    BY <2>1, <2>2, <2>3
<1>7. CASE PubDestroy
  <2>0. /\ pubPc = "destroy" /\ UNCHANGED <<commandTo, pubCommands>> /\ pubOpen' = FALSE
        /\ \/ pubPc' = "crashed" /\ pubRound' = pubRound
           \/ pubPc' \in {"prepare", "done"} /\ pubRound' = pubRound + 1
    BY <1>7 DEF PubDestroy, PubRemovesEndpoints, commandVars
  <2>1. \A s \in Subscribers : Handshake(s)' /\ ~Counts(s) /\ ~Counts(s)'
    <3> TAKE s \in Subscribers
    <3> QED
      BY <1>0, <1>u, <2>0 DEF Handshake, Counts, Resting, At, Quiet, Told, Silent, Said, Sampling
  <2>2. CountsCommands'
    BY <1>0, <2>0, <2>1, CountedNone, CountedNoneNext DEF CountsCommands
  <2>3. PubOpened'
    BY <2>0 DEF PubOpened, Sampling
  <2> QED
    BY <2>1, <2>2, <2>3
<1>8. CASE PubFails
  <2>0. /\ pubPc \in {"prepare", "write", "destroy"} /\ pubPc' = "failed" /\ pubOpen' = FALSE
        /\ UNCHANGED <<pubRound, commandTo, pubCommands>> /\ failures' > 0
    BY <1>0, <1>8 DEF PubFails, Fails, commandVars
  <2>1. \A s \in Subscribers : Handshake(s)' /\ ~Counts(s) /\ ~Counts(s)'
    <3> TAKE s \in Subscribers
    <3> QED
      BY <1>0, <1>u, <2>0 DEF Handshake, Counts, Resting, At, Quiet, Told, Silent, Said, Sampling
  <2>2. CountsCommands'
    BY <1>0, <2>0, <2>1, CountedNone, CountedNoneNext DEF CountsCommands
  <2>3. PubOpened'
    BY <2>0 DEF PubOpened, Sampling
  <2> QED
    BY <2>1, <2>2, <2>3
<1> QED
  BY <1>1, <1>2, <1>3, <1>4, <1>5, <1>6, <1>7, <1>8 DEF PubThread

\* Discovery, commands, samples and echoes.
LEMMA ProtocolCallbacks ==
    ASSUME Shape, Protocol,
           \/ CallbackEnds
           \/ \E s \in Subscribers : Discovery(s) \/ CommandDelivered(s) \/ DataArrives(s)
    PROVE  Protocol'
<1>0. /\ \A s \in Subscribers : Handshake(s) /\ SubOpened(s)
      /\ CountsCommands /\ PubOpened /\ pubRound \in Int /\ pubCommands \in Nat
      /\ subCommands \in [Subscribers -> Nat] /\ commandTo \in [Subscribers -> Seq(Commands)]
      /\ commandFrom \in [Subscribers -> Seq(Commands)]
      /\ pubMatches \in [Subscribers -> Matches] /\ subMatches \in [Subscribers -> Matches]
  BY DEF Protocol, Shape, PubShape, CommandShape, MatchShape
<1>1. ASSUME UNCHANGED <<pubPc, pubRound, pubOpen, subVars, commandVars, failures>>,
             \A s \in Subscribers : /\ pubMatches[s].data = 2 => pubMatches'[s].data = 2
                                    /\ subMatches[s].data = 2 => subMatches'[s].data = 2
      PROVE  Protocol'
  <2>1. \A s \in Subscribers : Handshake(s)' /\ (Counts(s)' <=> Counts(s))
    BY <1>0, <1>1, HandshakeFrame DEF SameSub, SamePub, subVars, commandVars
  <2>2. CountsCommands'
    <3>1. Counted' = Counted
      BY <2>1 DEF Counted
    <3> QED
      BY <1>0, <1>1, <3>1 DEF CountsCommands, commandVars
  <2>3. PubOpened'
    BY <1>0, <1>1 DEF PubOpened
  <2>4. \A s \in Subscribers : SubOpened(s)'
    BY <1>0, <1>1 DEF SubOpened, subVars
  <2> QED
    BY <2>1, <2>2, <2>3, <2>4 DEF Protocol
<1>2. ASSUME NEW s \in Subscribers, NEW kind \in {"command", "data"},
             PubOnMatched(s, kind) \/ SubOnMatched(s, kind)
      PROVE  Protocol'
  <2>1. UNCHANGED <<pubPc, pubRound, pubOpen, subVars, commandVars, failures>>
    BY <1>2 DEF PubOnMatched, SubOnMatched, pubVars, faultVars
  <2>0. ASSUME NEW matches \in [Subscribers -> Matches], Matched(matches, s, kind), NEW o \in Subscribers,
               matches[o].data = 2
        PROVE  [matches EXCEPT ![s][kind] = @ + 1][o].data = 2
    <3>1. o # s \/ kind = "command"
      BY <2>0 DEF Matched
    <3> QED
      BY <2>0, <3>1 DEF Matches
  <2>2. \A o \in Subscribers : pubMatches[o].data = 2 => pubMatches'[o].data = 2
    BY <1>0, <1>2, <2>0 DEF PubOnMatched, SubOnMatched
  <2>3. \A o \in Subscribers : subMatches[o].data = 2 => subMatches'[o].data = 2
    BY <1>0, <1>2, <2>0 DEF PubOnMatched, SubOnMatched
  <2> QED
    BY <1>1, <2>1, <2>2, <2>3
<1>3. ASSUME \/ CallbackEnds
             \/ \E s \in Subscribers : DataArrives(s)
      PROVE  Protocol'
  <2>1. UNCHANGED <<pubPc, pubRound, pubOpen, subVars, commandVars, failures, pubMatches, subMatches>>
    BY <1>3 DEF CallbackEnds, PubCallback, PubUnexpected, PubExpected, PubTimes, PubResets, EchoCounted,
       DataArrives, SubEcho, SubTakeSample, PubTakeEcho, pubVars, matchVars, faultVars
  <2> QED
    BY <1>1, <2>1
<1>4. ASSUME NEW s \in Subscribers, SubOnCommand(s)
      PROVE  Protocol'
  <2>1. /\ SamePub /\ UNCHANGED <<pubOpen, pubMatches, pubCommands, failures, subPc, subRound,
                                  subOpen, subMatches, commandFrom>>
        /\ commandTo[s] # <<>> /\ commandTo' = Received(commandTo, s)
        /\ subCommands' = IF Head(commandTo[s]) # "DEFAULT"
                           THEN [subCommands EXCEPT ![s] = @ + 1] ELSE subCommands
    BY <1>4 DEF SubOnCommand, SamePub, pubVars, matchVars, faultVars, subVars
  <2>2. \A o \in Subscribers \ {s} : SameSub(o) /\ SameOpened(o)
    BY <1>0, <2>1 DEF SameSub, SameOpened, Received
  <2>3. Told(s) /\ subCommands[s] = 0 /\ commandTo[s] \in {<<"READY">>, <<"STOP">>}
    BY <1>0, <2>1 DEF Handshake, Told, Quiet
  <2>4. commandTo'[s] = <<>> /\ subCommands'[s] = 1
    <3>0. PICK m \in {"READY", "STOP"} : commandTo[s] = <<m>>
      BY <2>3
    <3>1. Tail(commandTo[s]) = <<>> /\ Head(commandTo[s]) = m /\ m # "DEFAULT"
      BY <3>0, OneMessage
    <3> QED
      BY <1>0, <2>1, <2>3, <3>1 DEF Received
  <2>5. Handshake(s)' /\ (Counts(s)' <=> Counts(s))
    BY <1>0, <2>1, <2>3, <2>4 DEF Handshake, Counts, Resting, At, Quiet, Told, Silent, Said, SamePub
  <2>6. SubOpened(s)'
    BY <1>0, <2>1 DEF SubOpened
  <2> QED
    BY <2>1, <2>2, <2>5, <2>6, SubscriberStep
<1>5. ASSUME NEW s \in Subscribers, PubOnCommand(s)
      PROVE  Protocol'
  <2>1. /\ PubRuns /\ commandFrom[s] # <<>>
        /\ commandFrom' = Received(commandFrom, s)
        /\ pubCommands' = IF Head(commandFrom[s]) \in {"BEGIN", "END"}
                           THEN pubCommands + 1 ELSE pubCommands
        /\ UNCHANGED <<pubPc, pubRound, pubOpen, pubMatches, failures, subPc, subRound, subOpen,
                       subMatches, subCommands, commandTo>>
    BY <1>5 DEF PubOnCommand, pubVars, matchVars, faultVars, subVars
  <2>2. \A o \in Subscribers \ {s} : Handshake(o)' /\ (Counts(o)' <=> Counts(o))
    BY <1>0, <2>1, HandshakeFrame DEF SameSub, SamePub, Received
  <2>3. \/ pubPc \in {"discover", "begin"} /\ At(s, {"stop"}) /\ Quiet(s) /\ commandFrom[s] = <<"BEGIN">>
        \/ pubPc = "end" /\ At(s, {"acknowledge", "unacknowledged"}) /\ Quiet(s) /\ commandFrom[s] = <<"END">>
    <3>1. pubPc \in PubPlaces
      BY DEF Shape, PubShape
    <3> QED
      BY <1>0, <2>1, <3>1 DEF Handshake, Silent, Said, PubRuns, PubPlaces, Sampling
  <2>4. commandFrom'[s] = <<>> /\ pubCommands' = pubCommands + 1
    <3>1. Tail(commandFrom[s]) = <<>> /\ Head(commandFrom[s]) \in {"BEGIN", "END"}
      BY <2>3, OneMessage
    <3> QED
      BY <1>0, <2>1, <3>1 DEF Received
  <2>5. Handshake(s)' /\ ~Counts(s) /\ Counts(s)'
    BY <1>0, <2>1, <2>3, <2>4 DEF Handshake, Counts, Resting, At, Quiet, Told, Silent, Said, Sampling
  <2>6. CountsCommands'
    <3>1. Counted' = Counted \cup {s} /\ s \notin Counted
      BY <2>2, <2>5 DEF Counted
    <3>2. IsFiniteSet(Counted)
      BY Constants, FS_Subset DEF Counted
    <3>3. Cardinality(Counted') = Cardinality(Counted) + 1
      BY <3>1, <3>2, FS_AddElement
    <3> QED
      BY <1>0, <2>4, <3>3 DEF CountsCommands
  <2>7. PubOpened' /\ \A o \in Subscribers : SubOpened(o)'
    BY <1>0, <2>1 DEF PubOpened, SubOpened
  <2> QED
    BY <2>2, <2>5, <2>6, <2>7 DEF Protocol
<1> QED
  BY <1>2, <1>3, <1>4, <1>5 DEF Discovery, CommandDelivered

\* The initial state.
LEMMA ProtocolInit == Init => Protocol
<1> SUFFICES ASSUME Init PROVE Protocol
  OBVIOUS
<1>1. \A s \in Subscribers : Handshake(s) /\ SubOpened(s) /\ ~Counts(s)
  BY DEF Init, Handshake, SubOpened, Counts, Resting, At, Quiet, Told, Silent, Said, Sampling
<1>2. CountsCommands
  BY <1>1, CountedNone DEF Init, CountsCommands
<1>3. PubOpened
  BY DEF Init, PubOpened, Sampling
<1> QED
  BY <1>1, <1>2, <1>3 DEF Protocol

\* Every step keeps the handshake.
LEMMA ProtocolStep == Shape /\ Protocol /\ [Next]_vars => Protocol'
<1>1. Protocol /\ UNCHANGED vars => Protocol'
  BY DEF vars, Protocol, CountsCommands, Counted, Counts, PubOpened, Handshake, SubOpened, Resting, At,
     Quiet, Told, Silent, Said, pubVars, subVars, commandVars, matchVars, faultVars
<1> QED
  BY <1>1, ProtocolPub, ProtocolSub, ProtocolCallbacks DEF Next, Progress, Faults

\* Endpoints of a subscriber exist only within those of the publisher: the
\* creation and the removal of data endpoints are sequential.
THEOREM SequentialEndpoints == Spec => []EndpointsNested
<1>1. Shape /\ Protocol => EndpointsNested
  <2> SUFFICES ASSUME Shape, Protocol, failures = 0, NEW s \in Subscribers, subOpen[s]
               PROVE  pubOpen /\ subRound[s] = pubRound
    BY DEF EndpointsNested
  <2>1. subPc[s] \in {"discover", "begin", "stop", "destroy"}
    BY DEF Protocol, SubOpened
  <2>2. pubPc \in PubPlaces \ {"failed"}
    BY DEF Shape, PubShape, Protocol, PubOpened
  <2> QED
    BY <2>1, <2>2 DEF Protocol, PubOpened, Handshake, Resting, At, PubPlaces, Sampling
<1> QED
  BY <1>1, ShapeInit, ShapeStep, ProtocolInit, ProtocolStep, PTL DEF Spec

\* While the publisher sends samples, every subscriber is matched and waits
\* for STOP.
THEOREM BeginSynchronises == Spec => []SamplingTogether
<1>1. Protocol => SamplingTogether
  BY DEF Protocol, PubOpened, SubOpened, Handshake, At, Sampling, SamplingTogether
<1> QED
  BY <1>1, ShapeInit, ShapeStep, ProtocolInit, ProtocolStep, PTL DEF Spec

-----------------------------------------------------------------------------
(* Samples, echoes and the times taken.                                    *)

\* What the subscribers' threads do to endpoints and samples.
SubMoves(s, from, to) == subPc[s] \in from /\ subPc'[s] \in to
SubMove(s) ==
    /\ \A o \in Subscribers \ {s} :
        subPc'[o] = subPc[o] /\ subOpen'[o] = subOpen[o] /\ data'[o] = data[o]
    /\ \/ /\ subOpen'[s] = subOpen[s] /\ data'[s] = data[s]
          /\ \/ SubMoves(s, {"match", "acknowledge"}, {"ready", "done"})
             \/ SubMoves(s, {"ready"}, {"prepare"})
             \/ SubMoves(s, {"discover"}, {"begin"}) \/ SubMoves(s, {"begin"}, {"stop"})
             \/ SubMoves(s, {"stop"}, {"destroy"}) \/ SubMoves(s, {"destroy"}, {"failed", "end"})
             \/ SubMoves(s, {"end"}, {"acknowledge"})
       \/ /\ SubMoves(s, {"prepare"}, {"discover"})
          /\ ~subOpen[s] /\ subOpen'[s] /\ data'[s] = data[s]
       \/ /\ \/ SubMoves(s, {"prepare", "begin", "end"}, {"failed"})
             \/ SubMoves(s, {"acknowledge"}, {"unacknowledged"})
          /\ ~subOpen'[s] /\ data'[s] = data[s]
       \/ /\ SubMoves(s, {"destroy"}, {"failed", "end"})
          /\ ~subOpen'[s] /\ data'[s] = <<>> /\ subCallback[s] = NoNumber

\* Each of their actions is one of these.
LEMMA SubThreadMoves ==
    ASSUME Shape, NEW s \in Subscribers, SubThread(s) \/ SubFails(s) \/ SubDestroyFails(s)
    PROVE  SubMove(s)
<1> USE DEF SubGoes, SubMoves, subVars, dataVars
<1>0. /\ subPc \in [Subscribers -> SubPlaces] /\ subOpen \in [Subscribers -> BOOLEAN]
      /\ data \in [Subscribers -> Seq(Message)]
  BY DEF Shape, SubShape, DataShape
<1>1. CASE SubDiscoversCommands(s) \/ SubReady(s) \/ SubDiscovered(s)
  BY <1>0, <1>1 DEF SubDiscoversCommands, SubReady, SubDiscovered, SubMove
<1>2. CASE SubPrepare(s) \/ SubCannotPrepare(s)
  BY <1>0, <1>2 DEF SubPrepare, SubCannotPrepare, SubCreatesEndpoints, SubMove
<1>3. CASE SubBegin(s) \/ SubStopped(s)
  BY <1>0, <1>3 DEF SubBegin, SubStopped, SubMove
<1>4. CASE SubDestroy(s)
  BY <1>0, <1>4 DEF SubDestroy, SubRemovesEndpoints, SubMove
<1>5. CASE SubEnd(s) \/ SubAcknowledged(s)
  BY <1>0, <1>5 DEF SubEnd, SubAcknowledged, SubMove
<1>6. CASE SubFails(s) \/ SubDestroyFails(s)
  BY <1>0, <1>6 DEF SubFails, SubDestroyFails, SubMove
<1> QED
  BY <1>1, <1>2, <1>3, <1>4, <1>5, <1>6 DEF SubThread

\* The subscribers' threads move no sample; one that removes its endpoints
\* drops what is on its way to it.
LEMMA SamplingsSub ==
    ASSUME Shape, Protocol, Samplings,
           NEW s \in Subscribers, SubThread(s) \/ SubFails(s) \/ SubDestroyFails(s)
    PROVE  Samplings'
<1>0. /\ Handshake(s) /\ SubOpened(s) /\ OnTheWay /\ Numbering /\ Timed /\ Removed
      /\ Clean => Unraced
  BY DEF Protocol, Samplings
<1>1. UNCHANGED <<pubPc, count, startSeq, times, seqOut, seqIn, pubCallback, echoStep, raced, echo, subCallback>>
  BY DEF SubThread, SubFails, SubDestroyFails, SubDiscoversCommands, SubReady, SubPrepare, SubCannotPrepare,
     SubDiscovered, SubBegin, SubStopped, SubDestroy, SubRemovesEndpoints, SubEnd, SubAcknowledged,
     pubVars, sampleVars, dataVars
<1>2. SubMove(s)
  BY SubThreadMoves
<1>3. \A o \in Subscribers : data'[o] = data[o] \/ data'[o] = <<>>
  BY <1>2 DEF SubMove
<1>4. ASSUME subPc[s] \notin {"destroy", "end"}, Stale(s)
      PROVE  Stale(s)'
  BY <1>2, <1>4 DEF SubMove, SubMoves, Stale, Gone
<1>5. ~Gone(s)
  BY <1>2 DEF SubMove, SubMoves, Gone
<1>6. OnTheWay'
  <2>1. Written' = Written
    BY <1>1 DEF Written
  <2> QED
    BY <1>0, <1>1, <1>3, <2>1 DEF OnTheWay
<1>7. Numbering' /\ Timed'
  BY <1>0, <1>1 DEF Numbering, Timed, Written, Unnumbered
<1>c. Clean' => Unraced'
  <2> SUFFICES ASSUME Clean' PROVE Unraced'
    OBVIOUS
  <2>0. Unraced
    BY <1>0, <1>1 DEF Clean, Unnumbered
  <2>1. Numbered'
    BY <1>1, <1>3, <2>0 DEF Unraced, Numbered
  <2>2. Compared' /\ Matching'
    BY <1>1, <2>0 DEF Unraced, Compared, Matching
  <2> QED
    BY <2>1, <2>2 DEF Unraced
<1>8. Removed'
  <2>1. ASSUME NEW o \in Subscribers, ~Gone(o)', ~subOpen'[o]
        PROVE  data'[o] = <<>> /\ subCallback'[o] = NoNumber
    BY <1>0, <1>1, <1>2, <2>1 DEF Removed, SubMove, SubMoves, Gone
  <2>2. ASSUME pubPc \in {"prepare", "discover", "begin"}
        PROVE  \A o \in Subscribers : (Stale(o) => Stale(o)') /\ (Empty(o) => Empty(o)')
    <3>1. subPc[s] \notin {"destroy", "end"}
      BY <1>0, <1>5, <2>2 DEF Handshake, Resting, At, Gone
    <3> QED
      BY <1>1, <1>2, <1>4, <3>1 DEF Stale, Gone, Empty, SubMove, SubMoves
  <2>3. pubCallback # NoSample => pubCallback[1] \in Subscribers
    BY DEF Shape, SampleShape
  <2> QED
    BY <1>0, <1>1, <2>1, <2>2, <2>3 DEF Removed
<1> QED
  BY <1>6, <1>7, <1>8, <1>c DEF Samplings

\* The entries of times_.
LEMMA TimesTyped ==
    ASSUME Shape, NEW i \in 1..Len(times)
    PROVE  times[i].echo \in Int /\ times[i].start \in Int
<1>1. times \in Seq([echo : Message, start : Message])
  BY DEF Shape, PubShape
<1>2. times[i] \in [echo : Message, start : Message]
  BY <1>1, ElementType
<1>3. times[i].echo \in Message /\ times[i].start \in Message
  BY <1>2
<1> QED
  BY <1>3 DEF Message

\* A write without the mutex that does not meet the callback.
LEMMA UnlockedClean ==
    ASSUME Unlocked, Clean', ~Unnumbered
    PROVE  Clean /\ echoStep = "none"
BY DEF Unlocked, Clean, MutexFree

\* The publisher's thread.
LEMMA SamplingsPub ==
    ASSUME Shape, Protocol, Samplings, PubThread \/ PubFails \/ PubStopFails
    PROVE  Samplings'
<1>0. /\ OnTheWay /\ Numbering /\ Timed /\ Removed /\ PubOpened
      /\ \A s \in Subscribers : Handshake(s) /\ SubOpened(s)
      /\ count \in Int /\ startSeq \in Int /\ seqOut \in 0..(Samples + 1) /\ Samples \in Nat
      /\ times \in Seq([echo : Message, start : Message])
      /\ data \in [Subscribers -> Seq(Message)] /\ echo \in [Subscribers -> Seq(Message)]
      /\ subCallback \in [Subscribers -> -1..(Samples + 1)]
      /\ pubCallback = NoSample \/ pubCallback \in Subscribers \X Message
      /\ echoStep # "none" => pubCallback # NoSample
      /\ pubPc \in {"number", "wait", "clear", "start", "write"} => count \in Value
  BY Constants DEF Protocol, Samplings, Shape, PubShape, SampleShape, DataShape, Sending
<1>c. Clean => Unraced
  BY DEF Samplings
<1>t. \A i \in 1..Len(times) : times[i].echo \in Int /\ times[i].start \in Int
  BY TimesTyped
<1>w. Written \in Int
  BY <1>0 DEF Written
<1>1. CASE PubPrepare \/ PubDiscovered
  \* Only the places and, for the preparation, the numbers and times_ change.
  <2>1. /\ UNCHANGED <<count, startSeq, pubCallback, subVars, dataVars>>
        /\ pubPc \in {"prepare", "discover"} /\ pubPc' \in {"discover", "begin"}
        /\ \/ times' = times /\ seqOut' = seqOut /\ pubPc = "discover"
           \/ times' = <<>> /\ seqOut' = 0
    BY <1>1 DEF PubPrepare, PubDiscovered, pubVars, sampleVars
  <2>2. Written' = Written
    BY <2>1 DEF Written
  <2>3. OnTheWay'
    BY <1>0, <2>1, <2>2 DEF OnTheWay, dataVars
  <2>4. Numbering'
    BY <1>0, <2>1, <2>2 DEF Numbering, Unnumbered, Sending
  <2>5. Timed'
    BY <1>0, <2>1, <2>2 DEF Timed
  <2>6. Removed'
    BY <1>0, <2>1 DEF Removed, Stale, Gone, Empty, subVars, dataVars
  <2>7. ~Clean'
    BY <2>1 DEF Clean, Unnumbered
  <2> QED
    BY <2>3, <2>4, <2>5, <2>6, <2>7 DEF Samplings
<1>2. CASE PubStop \/ PubEnded \/ PubFails \/ PubStopFails
  <2>1. /\ UNCHANGED <<count, startSeq, times, sampleVars, subVars, dataVars>>
        /\ pubPc \in {"stop", "end", "prepare", "write", "destroy"} /\ pubPc' \in {"end", "destroy", "failed"}
        /\ pubPc = "write" => pubPc' = "failed"
    BY <1>2 DEF PubStop, PubEnded, PubFails, PubStopFails, pubVars
  <2>2. Written' = Written
    BY <2>1 DEF Written
  <2>3. OnTheWay'
    BY <1>0, <2>1, <2>2 DEF OnTheWay, sampleVars, dataVars
  <2>4. Numbering'
    BY <1>0, <2>1, <2>2 DEF Numbering, Unnumbered, Sending, sampleVars
  <2>5. Timed'
    BY <1>0, <2>1, <2>2 DEF Timed
  <2>6. Removed'
    BY <1>0, <2>1 DEF Removed, Gone, sampleVars, subVars, dataVars
  <2>7. ASSUME Clean' PROVE Unraced'
    <3>1. Unraced
      BY <1>c, <2>1, <2>7 DEF Clean, Unnumbered, sampleVars
    <3>2. Numbered'
      BY <2>1, <3>1 DEF Unraced, Numbered, Sending, sampleVars, dataVars
    <3>3. Compared' /\ Matching'
      BY <2>1, <3>1 DEF Unraced, Compared, Matching, Sending, sampleVars
    <3> QED
      BY <3>2, <3>3 DEF Unraced
  <2> QED
    BY <2>3, <2>4, <2>5, <2>6, <2>7 DEF Samplings
<1>3. CASE PubBegun
  \* Every subscriber is there: nothing of an earlier payload is left.
  <2>1. \A s \in Subscribers : ~Stale(s)
    <3>1. \A s \in Subscribers : Counts(s)
      BY <1>3, CountedAll DEF PubBegun, Protocol
    <3> QED
      BY <1>3, <3>1 DEF PubBegun, Counts, Stale, Gone
  <2>2. /\ UNCHANGED <<startSeq, times, sampleVars, subVars, dataVars>> /\ pubPc = "begin"
        /\ pubPc' = "number" /\ count' = 1
    BY <1>3 DEF PubBegun
  <2>3. pubCallback = NoSample /\ times = <<>> /\ \A s \in Subscribers : Empty(s)
    BY <1>0, <2>1, <2>2 DEF Removed
  <2>4. Written' = 0 /\ seqOut = 0 /\ echoStep = "none"
    BY <1>0, <2>2, <2>3 DEF Written, Numbering, Unnumbered
  <2>5. OnTheWay'
    BY <2>2, <2>3 DEF OnTheWay, Empty, sampleVars, dataVars
  <2>6. Numbering'
    BY <2>2, <2>4 DEF Numbering, Unnumbered, Sending, sampleVars
  <2>7. Timed' /\ Matching'
    BY <2>2, <2>3 DEF Timed, Matching
  <2>8. Removed'
    BY <1>0, <2>2 DEF Removed, Gone, sampleVars, subVars, dataVars
  <2>9. Numbered'
    BY <2>2, <2>3 DEF Numbered, Empty, Sending, NoNumber, sampleVars, dataVars
  <2>10. Compared'
    BY <2>2, <2>3, <2>4 DEF Compared, sampleVars
  <2> QED
    BY <2>5, <2>6, <2>7, <2>8, <2>9, <2>10 DEF Samplings, Unraced
<1>4. CASE PubNumber
  <2>1. /\ UNCHANGED <<count, startSeq, times, seqIn, pubCallback, echoStep, subVars, dataVars>>
        /\ pubPc = "number" /\ pubPc' = "clear" /\ seqOut' = count /\ count \in Value /\ Unlocked
    BY <1>0, <1>4 DEF PubNumber
  <2>2. Written' = Written /\ Written = count - 1
    BY <2>1 DEF Written
  <2>3. OnTheWay'
    BY <1>0, <2>1, <2>2 DEF OnTheWay, dataVars
  <2>4. Numbering'
    BY <1>0, <2>1, <2>2 DEF Numbering, Unnumbered, Sending
  <2>5. Timed'
    BY <1>0, <2>1, <2>2 DEF Timed
  <2>6. Removed'
    BY <1>0, <2>1 DEF Removed, Gone, subVars, dataVars
  <2>7. ASSUME Clean' PROVE Unraced'
    <3>1. Unraced /\ echoStep = "none"
      BY <1>c, <2>1, <2>7, UnlockedClean DEF Unnumbered
    <3>2. Numbered'
      BY <2>1, <3>1 DEF Unraced, Numbered, dataVars
    <3>3. count # 0
      BY <2>1 DEF Value
    <3>4. Compared'
      BY <2>1, <3>1, <3>3 DEF Unraced, Compared
    <3>5. ASSUME NEW i \in 1..Len(times) PROVE times[i].echo < count
      <4>1. times[i].echo <= Written
        BY <1>0 DEF Timed
      <4>2. times[i].echo \in Int /\ count \in Int
        BY <1>0, <1>t
      <4> QED
        BY <2>2, <4>1, <4>2
    <3>6. Matching'
      BY <2>1, <3>1, <3>5 DEF Unraced, Matching
    <3> QED
      BY <3>2, <3>4, <3>6 DEF Unraced
  <2> QED
    BY <2>3, <2>4, <2>5, <2>6, <2>7 DEF Samplings
<1>5. CASE PubClear \/ PubStart
  <2>1. /\ UNCHANGED <<count, times, seqOut, pubCallback, echoStep, subVars, dataVars>>
        /\ seqIn' = 0 \/ seqIn' = seqIn
        /\ pubPc \in {"clear", "start"} /\ count \in Value /\ Unlocked
        /\ \/ pubPc' = "start" /\ startSeq' = startSeq
           \/ pubPc' = "write" /\ startSeq' = count
    BY <1>0, <1>5 DEF PubClear, PubStart
  <2>2. Written' = Written /\ Written = count - 1
    BY <2>1 DEF Written
  <2>3. OnTheWay'
    BY <1>0, <2>1, <2>2 DEF OnTheWay, dataVars
  <2>4. Numbering'
    BY <1>0, <2>1, <2>2 DEF Numbering, Unnumbered, Sending
  <2>5. Timed'
    BY <1>0, <2>1, <2>2 DEF Timed
  <2>6. Removed'
    BY <1>0, <2>1 DEF Removed, Gone, subVars, dataVars
  <2>7. ASSUME Clean' PROVE Unraced'
    <3>1. Unraced /\ echoStep = "none"
      BY <1>c, <2>1, <2>7, UnlockedClean DEF Unnumbered
    <3>2. seqOut = count /\ count # 0
      BY <2>1, <3>1 DEF Unraced, Numbered, Sending, Value
    <3>3. Numbered'
      BY <2>1, <3>1, <3>2 DEF Unraced, Numbered, dataVars
    <3>4. Compared'
      BY <2>1, <3>1, <3>2 DEF Unraced, Compared
    <3>5. Matching'
      BY <2>1, <3>1 DEF Unraced, Matching
    <3> QED
      BY <3>3, <3>4, <3>5 DEF Unraced
  <2> QED
    BY <2>3, <2>4, <2>5, <2>6, <2>7 DEF Samplings
<1>6. CASE PubWrite
  <2>1. /\ UNCHANGED <<count, startSeq, times, seqOut, seqIn, pubCallback, echoStep, subVars, subCallback, echo>>
        /\ pubPc = "write" /\ pubPc' = "wait" /\ count \in Value /\ Unlocked
        /\ data' = ToAll(data, seqOut)
    BY <1>0, <1>6 DEF PubWrite
  <2>2. Written' = count /\ Written = count - 1
    BY <2>1 DEF Written
  <2>0. seqOut \in Message /\ seqOut <= count
    BY <1>0, <2>1 DEF Numbering, Sending, Message, Value
  <2>a. ASSUME NEW s \in Subscribers
        PROVE  /\ data[s] \in Seq(Message) /\ data'[s] = Append(data[s], seqOut)
               /\ Len(data[s]) \in Nat /\ Len(data'[s]) = Len(data[s]) + 1
               /\ data'[s][Len(data[s]) + 1] = seqOut
               /\ \A i \in 1..Len(data[s]) : data'[s][i] = data[s][i]
    <3>1. data[s] \in Seq(Message) /\ data'[s] = Append(data[s], seqOut)
      BY <1>0, <2>1 DEF ToAll
    <3> QED
      BY <3>1, AppendElements
  <2>3. OnTheWay'
    <3>1. ASSUME NEW s \in Subscribers, NEW i \in 1..Len(data'[s])
          PROVE  data'[s][i] <= count
      <4>1. CASE i = Len(data[s]) + 1
        BY <2>0, <2>a, <4>1
      <4>2. CASE i # Len(data[s]) + 1
        <5>1. i \in 1..Len(data[s])
          BY <2>a, <4>2
        <5>2. data[s][i] <= Written /\ data[s][i] \in Message
          BY <1>0, <5>1, ElementType DEF OnTheWay
        <5> QED
          <6>1. data'[s][i] = data[s][i]
            BY <2>a, <5>1
          <6> QED
            BY <1>0, <2>1, <2>2, <5>2, <6>1 DEF Message, Value
      <4> QED
        BY <4>1, <4>2
    <3>2. ASSUME NEW s \in Subscribers
          PROVE  /\ \A i \in 1..Len(echo[s]) : echo[s][i] <= count
                 /\ subCallback[s] # NoNumber => subCallback[s] <= count
      <4>1. ASSUME NEW i \in 1..Len(echo[s]) PROVE echo[s][i] <= count
        <5>1. echo[s][i] <= Written /\ echo[s][i] \in Message
          BY <1>0, ElementType DEF OnTheWay
        <5> QED
          BY <1>0, <2>2, <5>1 DEF Message
      <4>2. subCallback[s] # NoNumber => subCallback[s] <= count
        BY <1>0, <2>2 DEF OnTheWay
      <4> QED
        BY <4>1, <4>2
    <3>3. pubCallback # NoSample => pubCallback[2] <= count
      BY <1>0, <2>2 DEF OnTheWay, Message
    <3> QED
      BY <2>1, <2>2, <3>1, <3>2, <3>3 DEF OnTheWay
  <2>4. Numbering'
    BY <1>0, <2>1, <2>2 DEF Numbering, Unnumbered, Sending
  <2>5. Timed'
    <3>1. ASSUME NEW i \in 1..Len(times)
          PROVE  times[i].echo <= times[i].start /\ times[i].echo <= count
      <4>1. times[i].echo <= Written /\ times[i].echo <= times[i].start
        BY <1>0 DEF Timed
      <4>2. times[i].echo \in Int /\ count \in Int
        BY <1>0, <1>t
      <4> QED
        BY <2>2, <4>1, <4>2
    <3> QED
      BY <2>1, <2>2, <3>1 DEF Timed
  <2>6. Removed'
    BY <1>0, <2>1 DEF Removed, Gone, Handshake, At, SubOpened, Sampling, subVars
  <2>7. ASSUME Clean' PROVE Unraced'
    <3>1. Unraced /\ echoStep = "none"
      BY <1>c, <2>1, <2>7, UnlockedClean DEF Unnumbered
    <3>2. seqOut # 0
      BY <2>1, <3>1 DEF Unraced, Numbered, Sending, Value
    <3>3. ASSUME NEW s \in Subscribers, NEW i \in 1..Len(data'[s])
          PROVE  data'[s][i] # 0
      <4>1. i = Len(data[s]) + 1 \/ i \in 1..Len(data[s])
        BY <2>a
      <4> QED
        BY <2>a, <3>1, <3>2, <4>1 DEF Unraced, Numbered
    <3>4. Numbered'
      BY <2>1, <3>1, <3>3 DEF Unraced, Numbered, Sending
    <3>5. Compared'
      BY <2>1, <3>1 DEF Unraced, Compared
    <3>6. Matching'
      BY <2>1, <3>1 DEF Unraced, Matching
    <3> QED
      BY <3>4, <3>5, <3>6 DEF Unraced
  <2> QED
    BY <2>3, <2>4, <2>5, <2>6, <2>7 DEF Samplings
<1>7. CASE PubEchoesIn \/ PubTimeout
  <2>1. /\ UNCHANGED <<startSeq, times, seqOut, seqIn, pubCallback, echoStep, raced, subVars, dataVars>>
        /\ pubPc = "wait" /\ pubPc' \in {"number", "stop"} /\ count' = count + 1 /\ count \in Value
    BY <1>0, <1>7 DEF PubEchoesIn, PubTimeout, NextSample
  <2>2. Written' = Written /\ Written = count
    BY <2>1 DEF Written, Value
  <2>3. OnTheWay'
    BY <1>0, <2>1, <2>2 DEF OnTheWay, dataVars
  <2>4. Numbering'
    BY <1>0, <2>1, <2>2 DEF Numbering, Unnumbered, Sending
  <2>5. Timed'
    BY <1>0, <2>1, <2>2 DEF Timed
  <2>6. Removed'
    BY <1>0, <2>1 DEF Removed, Gone, subVars, dataVars
  <2>7. ASSUME Clean' PROVE Unraced'
    <3>1. Unraced
      BY <1>c, <2>1, <2>7 DEF Clean, Unnumbered
    <3>2. Numbered'
      BY <2>1, <3>1 DEF Unraced, Numbered, Sending, dataVars
    <3>3. Compared' /\ Matching'
      BY <2>1, <3>1 DEF Unraced, Compared, Matching, Sending
    <3> QED
      BY <3>2, <3>3 DEF Unraced
  <2> QED
    BY <2>3, <2>4, <2>5, <2>6, <2>7 DEF Samplings
<1>8. CASE PubDestroy
  <2>1. /\ UNCHANGED <<count, startSeq, times, sampleVars, subVars, subCallback, data>>
        /\ pubPc = "destroy" /\ pubPc' \in {"prepare", "done", "crashed"}
        /\ pubCallback = NoSample /\ echo' = [s \in Subscribers |-> <<>>]
    BY <1>8 DEF PubDestroy, PubRemovesEndpoints
  <2>2. Written' = Written
    BY <2>1 DEF Written
  <2>3. OnTheWay'
    BY <1>0, <2>1, <2>2 DEF OnTheWay, sampleVars
  <2>4. Numbering'
    BY <1>0, <2>1, <2>2 DEF Numbering, Unnumbered, Sending, sampleVars
  <2>5. Timed'
    BY <1>0, <2>1, <2>2 DEF Timed
  <2>6. Removed'
    <3>1. \A s \in Subscribers : subPc[s] \notin {"discover", "begin", "stop"}
      BY <1>0, <2>1 DEF Handshake, Resting
    <3>2. \A s \in Subscribers : Stale(s)' \/ Empty(s)'
      BY <1>0, <2>1, <3>1 DEF Removed, Stale, Gone, Empty, subVars
    <3> QED
      BY <1>0, <2>1, <3>2 DEF Removed, Gone, sampleVars, subVars
  <2>7. ASSUME Clean' PROVE Unraced'
    <3>1. Unraced
      BY <1>c, <2>1, <2>7 DEF Clean, Unnumbered, sampleVars
    <3>2. Numbered'
      BY <2>1, <3>1 DEF Unraced, Numbered, Sending, sampleVars
    <3>3. Compared' /\ Matching'
      BY <2>1, <3>1 DEF Unraced, Compared, Matching, Sending, sampleVars
    <3> QED
      BY <3>2, <3>3 DEF Unraced
  <2> QED
    BY <2>3, <2>4, <2>5, <2>6, <2>7 DEF Samplings
<1> QED
  BY <1>1, <1>2, <1>3, <1>4, <1>5, <1>6, <1>7, <1>8 DEF PubThread

\* What is left of a channel whose k-th message arrives was there before.
LEMMA ArrivedRest ==
    ASSUME NEW channel \in [Subscribers -> Seq(Message)], NEW s \in Subscribers, NEW k \in 1..Len(channel[s]),
           NEW o \in Subscribers, NEW i \in 1..Len(Arrived(channel, s, k)[o])
    PROVE  \E j \in 1..Len(channel[o]) : Arrived(channel, s, k)[o][i] = channel[o][j]
<1>1. CASE o # s
  BY <1>1 DEF Arrived
<1>2. CASE o = s
  <2>1. Arrived(channel, s, k)[o] = SubSeq(channel[s], k + 1, Len(channel[s]))
    BY <1>2 DEF Arrived
  <2>2. /\ Len(channel[s]) \in Nat /\ k + i \in 1..Len(channel[s])
        /\ SubSeq(channel[s], k + 1, Len(channel[s]))[i] = channel[s][k + i]
    BY <2>1
  <2> QED
    BY <1>2, <2>1, <2>2
<1> QED
  BY <1>1, <1>2

\* The data callbacks.
LEMMA SamplingsCallbacks ==
    ASSUME Shape, Protocol, Samplings,
           CallbackEnds \/ \E s \in Subscribers : DataArrives(s)
    PROVE  Samplings'
<1>0. /\ OnTheWay /\ Numbering /\ Timed /\ Removed /\ PubOpened
      /\ count \in Int /\ startSeq \in 0..(Samples + 1) /\ seqOut \in Int /\ seqIn \in Int /\ Samples \in Nat
      /\ times \in Seq([echo : Message, start : Message])
      /\ data \in [Subscribers -> Seq(Message)] /\ echo \in [Subscribers -> Seq(Message)]
      /\ subCallback \in [Subscribers -> -1..(Samples + 1)]
      /\ pubCallback = NoSample \/ pubCallback \in Subscribers \X Message
      /\ echoStep # "none" => pubCallback # NoSample
  BY Constants DEF Protocol, Samplings, Shape, PubShape, SampleShape, DataShape
<1>c. Clean => Unraced
  BY DEF Samplings
<1>w. Written \in Int
  BY <1>0 DEF Written
<1>1. ASSUME NEW s \in Subscribers, SubTakeSample(s)
      PROVE  Samplings'
  <2>1. PICK k \in 1..Len(data[s]) : /\ subCallback' = [subCallback EXCEPT ![s] = data[s][k]]
                                     /\ data' = Arrived(data, s, k)
    BY <1>1 DEF SubTakeSample
  <2>2. /\ UNCHANGED <<pubPc, count, startSeq, times, seqOut, seqIn, pubCallback, echoStep, raced,
                       subPc, subOpen, echo>>
        /\ subOpen[s] /\ Written' = Written
    BY <1>1 DEF SubTakeSample, pubVars, sampleVars, subVars, Written
  <2>a. ASSUME NEW o \in Subscribers, NEW i \in 1..Len(data'[o])
        PROVE  \E j \in 1..Len(data[o]) : data'[o][i] = data[o][j]
    BY <1>0, <2>1, <2>a, ArrivedRest
  <2>3. OnTheWay'
    <3>1. ASSUME NEW o \in Subscribers, NEW i \in 1..Len(data'[o])
          PROVE  data'[o][i] <= Written
      BY <1>0, <2>a DEF OnTheWay
    <3>2. \A o \in Subscribers : subCallback'[o] # NoNumber => subCallback'[o] <= Written
      BY <1>0, <2>1 DEF OnTheWay
    <3> QED
      BY <1>0, <2>2, <3>1, <3>2 DEF OnTheWay
  <2>4. Numbering' /\ Timed'
    BY <1>0, <2>2 DEF Numbering, Timed, Unnumbered
  <2>5. Removed'
    <3>1. /\ data[s] # <<>>
          /\ \A o \in Subscribers \ {s} : data'[o] = data[o] /\ subCallback'[o] = subCallback[o]
      BY <1>0, <2>1 DEF Arrived
    <3>2. \A o \in Subscribers : (Stale(o)' <=> Stale(o)) /\ (Gone(o)' <=> Gone(o))
      BY <2>2 DEF Stale, Gone
    <3>3. \A o \in Subscribers \ {s} : Empty(o)' <=> Empty(o)
      BY <2>2, <3>1 DEF Empty
    <3>4. ~Empty(s)
      BY <3>1 DEF Empty
    <3>5. pubCallback # NoSample => (Stale(pubCallback[1])' <=> Stale(pubCallback[1]))
      BY <2>2 DEF Stale, Gone
    <3> QED
      BY <1>0, <2>2, <3>1, <3>2, <3>3, <3>4, <3>5 DEF Removed
  <2>6. ASSUME Clean' PROVE Unraced'
    <3>1. Unraced
      BY <1>c, <2>2, <2>6 DEF Clean, Unnumbered
    <3>2. ASSUME NEW o \in Subscribers, NEW i \in 1..Len(data'[o])
          PROVE  data'[o][i] # 0
      BY <2>a, <3>1 DEF Unraced, Numbered
    <3>3. \A o \in Subscribers : subCallback'[o] # 0
      BY <1>0, <2>1, <3>1 DEF Unraced, Numbered
    <3>4. Numbered'
      BY <2>2, <3>1, <3>2, <3>3 DEF Unraced, Numbered
    <3>5. Compared' /\ Matching'
      BY <2>2, <3>1 DEF Unraced, Compared, Matching
    <3> QED
      BY <3>4, <3>5 DEF Unraced
  <2> QED
    BY <2>3, <2>4, <2>5, <2>6 DEF Samplings
<1>2. ASSUME NEW s \in Subscribers, PubTakeEcho(s)
      PROVE  Samplings'
  <2>1. PICK k \in 1..Len(echo[s]) : /\ pubCallback' = <<s, echo[s][k]>>
                                     /\ echo' = Arrived(echo, s, k) /\ seqIn' = echo[s][k]
    BY <1>2 DEF PubTakeEcho
  <2>2. /\ UNCHANGED <<pubPc, count, startSeq, times, seqOut, echoStep, raced, subPc, subOpen, data, subCallback>>
        /\ pubOpen /\ Written' = Written /\ echoStep = "none"
    BY <1>0, <1>2 DEF PubTakeEcho, pubVars, subVars, Written
  <2>0. pubCallback'[1] = s /\ pubCallback'[2] = echo[s][k]
    BY <2>1
  <2>a. ASSUME NEW o \in Subscribers, NEW i \in 1..Len(echo'[o])
        PROVE  \E j \in 1..Len(echo[o]) : echo'[o][i] = echo[o][j]
    BY <1>0, <2>1, <2>a, ArrivedRest
  <2>3. OnTheWay'
    <3>1. ASSUME NEW o \in Subscribers, NEW i \in 1..Len(echo'[o])
          PROVE  echo'[o][i] <= Written
      BY <1>0, <2>a DEF OnTheWay
    <3>2. pubCallback'[2] <= Written
      BY <1>0, <2>0 DEF OnTheWay
    <3> QED
      BY <1>0, <2>2, <3>1, <3>2 DEF OnTheWay
  <2>4. Numbering' /\ Timed'
    BY <1>0, <2>2 DEF Numbering, Timed, Unnumbered
  <2>5. Removed'
    <3>1. echo[s] # <<>> /\ \A o \in Subscribers \ {s} : echo'[o] = echo[o]
      BY <1>0, <2>1 DEF Arrived
    <3>2. \A o \in Subscribers : (Stale(o)' <=> Stale(o)) /\ (Gone(o)' <=> Gone(o))
      BY <2>2 DEF Stale, Gone
    <3>3. \A o \in Subscribers \ {s} : Empty(o)' <=> Empty(o)
      BY <2>2, <3>1 DEF Empty
    <3>4. ~Empty(s) /\ pubPc # "prepare"
      BY <1>0, <2>2, <3>1 DEF Empty, PubOpened, Sampling
    <3>5. pubPc \in {"discover", "begin"} => Stale(s)
      BY <1>0, <3>4 DEF Removed
    <3>6. Stale(s) => Stale(pubCallback[1])'
      BY <2>0, <2>2 DEF Stale, Gone
    <3> QED
      BY <1>0, <2>2, <3>2, <3>3, <3>4, <3>5, <3>6 DEF Removed
  <2>6. ASSUME Clean' PROVE Unraced'
    <3>1. Unraced
      BY <1>c, <2>2, <2>6 DEF Clean, Unnumbered
    <3>2. ASSUME NEW o \in Subscribers, NEW i \in 1..Len(echo'[o])
          PROVE  echo'[o][i] # 0
      <4>1. PICK j \in 1..Len(echo[o]) : echo'[o][i] = echo[o][j]
        BY <2>a, <3>2
      <4>2. echo[o][j] # 0
        BY <3>1 DEF Unraced, Numbered
      <4> QED
        BY <4>1, <4>2
    <3>3. echo[s][k] # 0
      BY <3>1 DEF Unraced, Numbered
    <3>4. Numbered'
      BY <2>0, <2>2, <3>1, <3>2, <3>3 DEF Unraced, Numbered
    <3>5. Compared'
      BY <2>0, <2>1, <2>2, <3>3 DEF Compared
    <3>6. Matching'
      BY <2>2, <3>1 DEF Unraced, Matching
    <3> QED
      BY <3>4, <3>5, <3>6 DEF Unraced
  <2> QED
    BY <2>3, <2>4, <2>5, <2>6 DEF Samplings
<1>3. ASSUME NEW s \in Subscribers, SubEcho(s)
      PROVE  Samplings'
  <2>1. /\ UNCHANGED <<pubPc, count, startSeq, times, seqOut, seqIn, pubCallback, echoStep, raced,
                       subPc, subOpen, data>>
        /\ subOpen[s] /\ subCallback[s] # NoNumber /\ Written' = Written
        /\ subCallback' = [subCallback EXCEPT ![s] = NoNumber]
        /\ echo' = IF pubOpen THEN To(echo, s, subCallback[s]) ELSE echo
    BY <1>3 DEF SubEcho, pubVars, sampleVars, subVars, Written
  <2>2. subCallback[s] \in Message /\ subCallback[s] <= Written
    BY <1>0, <2>1 DEF Message, OnTheWay, NoNumber
  <2>a. ASSUME NEW o \in Subscribers, NEW i \in 1..Len(echo'[o])
        PROVE  \/ echo'[o][i] = subCallback[s]
               \/ \E j \in 1..Len(echo[o]) : echo'[o][i] = echo[o][j]
    <3>1. echo[o] \in Seq(Message)
      BY <1>0
    <3>2. echo'[o] = echo[o] \/ echo'[o] = Append(echo[o], subCallback[s])
      BY <1>0, <2>1 DEF To
    <3>3. CASE echo'[o] = echo[o]
      BY <3>3
    <3>4. CASE echo'[o] = Append(echo[o], subCallback[s])
      <4>1. /\ Len(echo[o]) \in Nat /\ Len(echo'[o]) = Len(echo[o]) + 1
            /\ echo'[o][Len(echo[o]) + 1] = subCallback[s]
            /\ \A j \in 1..Len(echo[o]) : echo'[o][j] = echo[o][j]
        BY <3>1, <3>4, AppendElements
      <4>2. i = Len(echo[o]) + 1 \/ i \in 1..Len(echo[o])
        BY <4>1
      <4> QED
        BY <4>1, <4>2
    <3> QED
      BY <3>2, <3>3, <3>4
  <2>3. OnTheWay'
    <3>1. ASSUME NEW o \in Subscribers, NEW i \in 1..Len(echo'[o])
          PROVE  echo'[o][i] <= Written
      BY <1>0, <2>2, <2>a DEF OnTheWay
    <3>2. \A o \in Subscribers : subCallback'[o] # NoNumber => subCallback'[o] <= Written
      BY <1>0, <2>1 DEF OnTheWay
    <3> QED
      BY <1>0, <2>1, <3>1, <3>2 DEF OnTheWay
  <2>4. Numbering' /\ Timed'
    BY <1>0, <2>1 DEF Numbering, Timed, Unnumbered
  <2>5. Removed'
    <3>1. \A o \in Subscribers \ {s} : echo'[o] = echo[o] /\ subCallback'[o] = subCallback[o]
      BY <1>0, <2>1 DEF To
    <3>2. \A o \in Subscribers : Stale(o)' <=> Stale(o)
      BY <2>1 DEF Stale, Gone
    <3>3. \A o \in Subscribers \ {s} : Empty(o)' <=> Empty(o)
      BY <2>1, <3>1 DEF Empty
    <3>4. ~Empty(s)
      BY <2>1 DEF Empty
    <3>5. pubPc = "prepare" => echo' = echo
      BY <1>0, <2>1 DEF PubOpened, Sampling
    <3>6. \A o \in Subscribers : ~Gone(o)' /\ ~subOpen[o] => data'[o] = <<>> /\ subCallback'[o] = NoNumber
      BY <1>0, <2>1, <3>1 DEF Removed, Gone
    <3>7. pubCallback # NoSample => (Stale(pubCallback[1])' <=> Stale(pubCallback[1]))
      BY <2>1 DEF Stale, Gone
    <3> QED
      BY <1>0, <2>1, <3>2, <3>3, <3>4, <3>5, <3>6, <3>7 DEF Removed
  <2>6. ASSUME Clean' PROVE Unraced'
    <3>1. Unraced
      BY <1>c, <2>1, <2>6 DEF Clean, Unnumbered
    <3>2. ASSUME NEW o \in Subscribers, NEW i \in 1..Len(echo'[o])
          PROVE  echo'[o][i] # 0
      BY <2>a, <3>1 DEF Unraced, Numbered
    <3>3. \A o \in Subscribers : subCallback'[o] # 0
      BY <1>0, <2>1, <3>1 DEF Unraced, Numbered, NoNumber
    <3>4. Numbered'
      BY <2>1, <3>1, <3>2, <3>3 DEF Unraced, Numbered
    <3>5. Compared' /\ Matching'
      BY <2>1, <3>1 DEF Unraced, Compared, Matching
    <3> QED
      BY <3>4, <3>5 DEF Unraced
  <2> QED
    BY <2>3, <2>4, <2>5, <2>6 DEF Samplings
<1>4. CASE PubUnexpected \/ PubResets
  <2>1. /\ UNCHANGED <<pubPc, count, startSeq, times, raced, subPc, subOpen, data, echo, subCallback>>
        /\ pubCallback' = NoSample /\ echoStep' = "none" /\ Written' = Written
        /\ \/ seqOut' = 0 /\ echoStep = "reset"
           \/ seqOut' = seqOut /\ echoStep = "none"
    BY <1>4 DEF PubUnexpected, PubResets, PubLocks, MutexFree, EchoCounted, pubVars, subVars, dataVars, Written
  <2>2. OnTheWay'
    BY <1>0, <2>1 DEF OnTheWay
  <2>3. Numbering' /\ Timed'
    BY <1>0, <2>1 DEF Numbering, Timed, Unnumbered
  <2>4. Removed'
    BY <1>0, <2>1 DEF Removed, Stale, Gone, Empty
  <2>5. ASSUME Clean' PROVE Unraced'
    <3>1. Unraced
      BY <1>c, <2>1, <2>5 DEF Clean, Unnumbered
    <3>2. Numbered'
      BY <2>1, <3>1 DEF Unraced, Numbered, Compared
    <3>3. Compared'
      BY <2>1 DEF Compared
    <3>4. Matching'
      BY <2>1, <3>1 DEF Unraced, Matching
    <3> QED
      BY <3>2, <3>3, <3>4 DEF Unraced
  <2> QED
    BY <2>2, <2>3, <2>4, <2>5 DEF Samplings
<1>5. CASE PubExpected
  <2>1. /\ UNCHANGED <<pubPc, count, startSeq, times, seqOut, seqIn, pubCallback, raced, subPc, subOpen,
                       data, echo, subCallback>>
        /\ pubCallback # NoSample /\ echoStep = "none" /\ echoStep' = "time" /\ Written' = Written
        /\ PubRuns /\ (Expected \/ Unnumbered)
    BY <1>5 DEF PubExpected, PubLocks, MutexFree, pubVars, subVars, dataVars, Written
  <2>2. OnTheWay'
    BY <1>0, <2>1 DEF OnTheWay
  <2>3. Numbering' /\ Timed'
    BY <1>0, <2>1 DEF Numbering, Timed, Unnumbered
  <2>4. Removed'
    BY <1>0, <2>1 DEF Removed, Stale, Gone, Empty
  <2>5. ASSUME Clean' PROVE Unraced'
    <3>1. Unraced /\ seqIn = seqOut
      BY <1>c, <2>1, <2>5 DEF Clean, Unnumbered, Expected
    <3>2. seqOut = pubCallback[2] /\ seqOut # 0
      BY <2>1, <3>1 DEF Unraced, Numbered, Compared
    <3>3. pubCallback[2] \in Message /\ pubCallback[2] <= Written
      BY <1>0, <2>1 DEF OnTheWay
    <3>4. pubPc \notin Sending
      <4>1. pubPc \in Sending => seqOut = count /\ Written = count - 1
        BY <3>1 DEF Unraced, Numbered, Written, Sending
      <4> QED
        BY <1>0, <3>2, <3>3, <4>1 DEF Message
    <3>5. seqOut = Written /\ Written >= 1
      BY <1>0, <2>1, <3>2, <3>3, <3>4 DEF Numbering, PubRuns, Message
    <3>6. startSeq = pubCallback[2]
      BY <1>0, <2>1, <3>2, <3>4, <3>5 DEF Numbering, PubRuns, Sending
    <3>7. Numbered' /\ Matching'
      BY <2>1, <3>1 DEF Unraced, Numbered, Matching
    <3>8. Compared'
      BY <2>1, <3>2, <3>4, <3>6 DEF Compared
    <3> QED
      BY <3>7, <3>8 DEF Unraced
  <2> QED
    BY <2>2, <2>3, <2>4, <2>5 DEF Samplings
<1>6. ASSUME NEW timed \in BOOLEAN, PubTimes(timed)
      PROVE  Samplings'
  <2>1. /\ UNCHANGED <<pubPc, count, startSeq, seqOut, seqIn, pubCallback, raced, subPc, subOpen, data,
                       echo, subCallback>>
        /\ times' = IF timed THEN Append(times, [echo |-> pubCallback[2], start |-> startSeq]) ELSE times
        /\ echoStep = "time" /\ echoStep' = "reset" /\ Written' = Written /\ PubRuns
    BY <1>6 DEF PubTimes, subVars, dataVars, Written
  <2>2. pubCallback[1] \in Subscribers /\ pubCallback[2] \in Message /\ pubCallback[2] <= Written
        /\ pubCallback # NoSample
    BY <1>0, <2>1 DEF OnTheWay
  <2>3. pubCallback[2] <= startSeq
    BY <1>0, <1>w, <2>2 DEF Numbering, Message
  <2> DEFINE n == Len(times)
             e == [echo |-> pubCallback[2], start |-> startSeq]
  <2>4. timed => /\ n \in Nat /\ Len(times') = n + 1 /\ times'[n + 1] = e
                 /\ \A i \in 1..n : times'[i] = times[i]
    <3>1. timed => times' = Append(times, e)
      BY <2>1
    <3> QED
      BY <1>0, <3>1, AppendElements
  <2>5. e.echo = pubCallback[2] /\ e.start = startSeq
    OBVIOUS
  <2> HIDE DEF e
  <2>6. OnTheWay'
    BY <1>0, <2>1 DEF OnTheWay
  <2>7. Numbering'
    BY <1>0, <2>1 DEF Numbering, Unnumbered
  <2>8. Timed'
    <3>1. CASE ~timed
      BY <1>0, <2>1, <3>1 DEF Timed
    <3>2. CASE timed
      <4>1. ASSUME NEW i \in 1..(n + 1)
            PROVE  times'[i].echo <= times'[i].start /\ times'[i].echo <= Written
        <5>1. CASE i = n + 1
          BY <2>2, <2>3, <2>4, <2>5, <3>2, <5>1
        <5>2. CASE i \in 1..n
          BY <1>0, <2>4, <3>2, <5>2 DEF Timed
        <5> QED
          BY <2>4, <3>2, <5>1, <5>2
      <4> QED
        BY <2>1, <2>4, <3>2, <4>1 DEF Timed
    <3> QED
      BY <3>1, <3>2
  <2>9. Removed'
    <3>1. \A o \in Subscribers : (Stale(o)' <=> Stale(o)) /\ (Empty(o)' <=> Empty(o)) /\ (Gone(o)' <=> Gone(o))
      BY <2>1 DEF Stale, Gone, Empty
    <3>2. pubPc \in {"discover", "begin"} => \E o \in Subscribers : Stale(o)
      BY <1>0, <2>2 DEF Removed
    <3>3. Stale(pubCallback[1])' <=> Stale(pubCallback[1])
      BY <2>1 DEF Stale, Gone
    <3> QED
      BY <1>0, <2>1, <3>1, <3>2, <3>3 DEF Removed
  <2>10. ASSUME Clean' PROVE Unraced'
    <3>1. Unraced
      BY <1>c, <2>1, <2>10 DEF Clean, Unnumbered
    <3>2. Numbered' /\ Compared'
      BY <2>1, <3>1 DEF Unraced, Numbered, Compared
    <3>3. seqOut = pubCallback[2] /\ startSeq = pubCallback[2] /\ seqOut # 0
      BY <2>1, <2>2, <3>1 DEF Unraced, Numbered, Compared
    <3>4. \A i \in 1..n : /\ times[i].echo \in Int /\ times[i].echo < pubCallback[2]
                           /\ times[i].echo = times[i].start
                           /\ \A j \in 1..n : i < j => times[i].echo < times[j].echo
      BY <2>1, <3>1, <3>3, TimesTyped DEF Unraced, Matching
    <3>5. Matching'
      <4>1. CASE ~timed
        BY <2>1, <3>1, <4>1 DEF Unraced, Matching
      <4>2. CASE timed
        <5> HIDE DEF n
        <5>1. ASSUME NEW i \in 1..(n + 1)
              PROVE  /\ times'[i].echo = times'[i].start
                     /\ \A j \in 1..(n + 1) : i < j => times'[i].echo < times'[j].echo
          <6>1. CASE i = n + 1
            BY <2>4, <2>5, <3>3, <4>2, <6>1
          <6>2. CASE i \in 1..n
            BY <2>4, <2>5, <3>4, <4>2, <6>2
          <6> QED
            BY <2>4, <4>2, <6>1, <6>2
        <5> QED
          BY <2>1, <2>4, <4>2, <5>1 DEF Matching
      <4> QED
        BY <4>1, <4>2
    <3> QED
      BY <3>2, <3>5 DEF Unraced
  <2> QED
    BY <2>6, <2>7, <2>8, <2>9, <2>10 DEF Samplings
<1> QED
  BY <1>1, <1>2, <1>3, <1>4, <1>5, <1>6 DEF CallbackEnds, PubCallback, DataArrives

\* A step that is about neither samples nor times_.
LEMMA SamplingsFrame ==
    ASSUME Samplings, UNCHANGED <<pubVars, sampleVars, subVars, dataVars>>
    PROVE  Samplings'
<1>1. UNCHANGED <<pubPc, count, startSeq, times, seqOut, seqIn, pubCallback, echoStep, raced,
                  subPc, subOpen, data, echo, subCallback>>
  BY DEF pubVars, sampleVars, subVars, dataVars
<1>2. Written' = Written
  BY <1>1 DEF Written
<1>3. OnTheWay' /\ Numbering'
  BY <1>1, <1>2 DEF Samplings, OnTheWay, Numbering, Unnumbered
<1>4. Timed'
  BY <1>1, <1>2 DEF Samplings, Timed
<1>5. Removed'
  BY <1>1 DEF Samplings, Removed, Stale, Gone, Empty
<1>6. ASSUME Clean' PROVE Unraced'
  <2>1. Unraced
    BY <1>1, <1>6 DEF Samplings, Clean, Unnumbered
  <2> QED
    BY <1>1, <2>1 DEF Unraced, Numbered, Compared, Matching
<1> QED
  BY <1>3, <1>4, <1>5, <1>6 DEF Samplings

\* The initial state.
LEMMA SamplingsInit == Init => Samplings
<1> SUFFICES ASSUME Init PROVE Samplings
  OBVIOUS
<1>1. OnTheWay /\ Numbering
  BY DEF Init, OnTheWay, Numbering, Written, Unnumbered, Sending
<1>2. Timed /\ Matching
  BY DEF Init, Timed, Matching
<1>3. Removed
  BY DEF Init, Removed, Stale, Gone, Empty
<1>4. Numbered /\ Compared
  BY DEF Init, Numbered, Compared, Sending, NoNumber
<1> QED
  BY <1>1, <1>2, <1>3, <1>4 DEF Samplings, Unraced

\* Every step keeps them.
LEMMA SamplingsStep == Shape /\ Protocol /\ Samplings /\ [Next]_vars => Samplings'
<1> SUFFICES ASSUME Shape, Protocol, Samplings, [Next]_vars
             PROVE  Samplings'
  OBVIOUS
<1>1. CASE UNCHANGED vars
  BY <1>1, SamplingsFrame DEF vars
<1>2. CASE \E s \in Subscribers : Discovery(s) \/ CommandDelivered(s)
  <2>1. UNCHANGED <<pubVars, sampleVars, subVars, dataVars>>
    BY <1>2 DEF Discovery, CommandDelivered, PubOnMatched, SubOnMatched, PubOnCommand, SubOnCommand
  <2> QED
    BY <2>1, SamplingsFrame
<1> QED
  BY <1>1, <1>2, SamplingsPub, SamplingsSub, SamplingsCallbacks DEF Next, Progress, Faults

\* No roundtrip is taken from an older sample than the one echoed; and until a
\* write of the main thread meets the callback in its critical section, it is
\* taken from the very sample echoed, and no sample is timed twice.
THEOREM RoundtripsCorrect == Spec => []RoundtripsMatch
<1>1. Samplings => RoundtripsMatch
  BY DEF Samplings, Timed, Clean, Unraced, Matching, RoundtripsMatch
<1> QED
  BY <1>1, ShapeInit, ShapeStep, ProtocolInit, ProtocolStep, SamplingsInit, SamplingsStep, PTL DEF Spec

-----------------------------------------------------------------------------
(* Bounds.                                                                 *)

\* The first of the times of a payload is dropped.
LEMMA AnalysedTimes ==
    ASSUME Shape, times # <<>>
    PROVE  analyze_times = [received |-> Len(times) - 1, measured |-> Len(times) - 1]
           /\ Len(times) - 1 \in Nat
<1>1. times \in Seq([echo : Message, start : Message])
  BY DEF Shape, PubShape
<1>2. Len(times) \in Nat \ {0} /\ Len(Tail(times)) = Len(times) - 1
  BY <1>1
<1> QED
  BY <1>2 DEF analyze_times

\* Type correctness: the bounds of the counters, of the matches and of the
\* commands counted.
THEOREM TypeCorrect == Spec => []TypeOK
<1>1. Shape /\ Protocol => TypeOK
  <2> SUFFICES ASSUME Shape, Protocol
               PROVE  TypeOK
    OBVIOUS
  <2>0. Samples \in Nat
    BY Constants
  <2>1. pubCommands \in 0..N
    <3>1. Counted \subseteq Subscribers
      BY DEF Counted
    <3>2. Cardinality(Counted) \in Nat /\ Cardinality(Counted) <= Cardinality(Subscribers)
      BY <3>1, Constants, FS_Subset, FS_CardinalityType
    <3> QED
      BY <3>2, Constants DEF N, Protocol, CountsCommands
  <2>3. subCommands \in [Subscribers -> 0..1]
    BY DEF Shape, CommandShape, Protocol, Handshake, Quiet, Told
  <2>4. /\ pubPc \in PubPlaces /\ pubRound \in 1..(Rounds + 1) /\ pubOpen \in BOOLEAN
        /\ {count, seqOut, seqIn, startSeq} \subseteq 0..(Samples + 2)
        /\ dataMsgCount \in Nat
        /\ times \in Seq([echo : 0..(Samples + 1), start : 0..(Samples + 1)])
        /\ stats \in Seq([received : Nat, measured : Nat])
        /\ pubCallback = NoSample \/ pubCallback \in Subscribers \X (0..(Samples + 1))
        /\ echoStep \in {"none", "time", "reset"} /\ raced \in BOOLEAN
        /\ answered \subseteq Subscribers
    BY <2>0 DEF Shape, PubShape, SampleShape, Message
  <2>5. /\ subPc \in [Subscribers -> SubPlaces]
        /\ subRound \in [Subscribers -> 1..(Rounds + 1)]
        /\ subOpen \in [Subscribers -> BOOLEAN]
        /\ subStatus \in [Subscribers -> {-1, 0}]
        /\ {commandTo, commandFrom} \subseteq [Subscribers -> Seq(Commands)]
    BY DEF Shape, SubShape, CommandShape
  <2>6. /\ subCallback \in [Subscribers -> -1..(Samples + 1)]
        /\ {pubMatches, subMatches} \subseteq [Subscribers -> [command : 0..2, data : 0..2]]
        /\ {data, echo} \subseteq [Subscribers -> Seq(0..(Samples + 1))]
        /\ failures \in 0..MaxFailures /\ disturbed \in BOOLEAN
    BY DEF Shape, MatchShape, DataShape, FaultShape, Message, Matches
  <2> QED
    BY <2>1, <2>3, <2>4, <2>5, <2>6 DEF TypeOK
<1> QED
  BY <1>1, ShapeInit, ShapeStep, ProtocolInit, ProtocolStep, PTL DEF Spec

-----------------------------------------------------------------------------
(* A test that no timeout and no discarded roundtrip disturbs.             *)

\* The samples of a subscriber stay where they are.
SameSample(s) ==
    /\ data'[s] = data[s] /\ echo'[s] = echo[s] /\ subCallback'[s] = subCallback[s]
    /\ (s \in answered') <=> (s \in answered)
    /\ Held(s)' <=> Held(s)
    /\ Held(s) => pubCallback' = pubCallback

\* A sample that is not touched is where it was.
LEMMA SampleFrame ==
    ASSUME NEW s \in Subscribers, SameSample(s)
    PROVE  /\ Empty(s) => Empty(s)'
           /\ Once(s) /\ count' = count => Once(s)'
BY DEF SameSample, Empty, Once, Held

\* The subscribers' threads: while samples are sent they wait for STOP.
LEMMA UndisturbedSub ==
    ASSUME Shape, Protocol, Undisturbed,
           NEW s \in Subscribers, SubThread(s) \/ SubFails(s) \/ SubDestroyFails(s)
    PROVE  Undisturbed'
<1>1. UNCHANGED <<pubPc, count, times, stats, seqOut, seqIn, dataMsgCount, answered, pubCallback, echoStep,
                  raced, echo, subCallback>>
  BY DEF SubThread, SubFails, SubDestroyFails, SubDiscoversCommands, SubReady, SubPrepare, SubCannotPrepare,
     SubDiscovered, SubBegin, SubStopped, SubDestroy, SubRemovesEndpoints, SubEnd, SubAcknowledged,
     pubVars, sampleVars, dataVars
<1>2. SubMove(s)
  BY SubThreadMoves
<1>3. ASSUME pubPc # "wait", NEW o \in Subscribers
      PROVE  Empty(o)'
  BY <1>1, <1>2, <1>3 DEF SubMove, Undisturbed, Empty
<1>4. ASSUME pubPc = "wait", NEW o \in Subscribers
      PROVE  Once(o)'
  <2>1. subPc[s] # "destroy"
    BY <1>4 DEF Protocol, Handshake, At, Sampling
  <2>2. data'[o] = data[o]
    BY <1>2, <2>1 DEF SubMove, SubMoves
  <2>3. SameSample(o)
    BY <1>1, <2>2 DEF SameSample, Held
  <2> QED
    BY <1>1, <1>4, <2>3, SampleFrame DEF Undisturbed
<1> QED
  BY <1>1, <1>3, <1>4 DEF Undisturbed

\* A step that is about none of this.
LEMMA UndisturbedFrame ==
    ASSUME Undisturbed, UNCHANGED <<pubVars, sampleVars, dataVars>>
    PROVE  Undisturbed'
<1>1. \A s \in Subscribers : (Empty(s)' <=> Empty(s)) /\ (Once(s)' <=> Once(s))
  BY DEF Empty, Once, Held, pubVars, sampleVars, dataVars
<1> QED
  BY <1>1 DEF Undisturbed, pubVars, sampleVars, dataVars

\* When the echoes of a sample are in, every subscriber has answered it.
LEMMA AllAnswered ==
    ASSUME Shape, Undisturbed, pubPc = "wait", AllEchoesIn
    PROVE  answered = Subscribers
<1>1. answered \subseteq Subscribers /\ IsFiniteSet(Subscribers)
  BY Constants DEF Shape, SampleShape
<1>2. Cardinality(answered) >= Cardinality(Subscribers)
  BY DEF Undisturbed, AllEchoesIn, N
<1>3. Cardinality(answered) \in Nat /\ Cardinality(Subscribers) \in Nat
  BY <1>1, FS_Subset, FS_CardinalityType
<1> QED
  BY <1>1, <1>2, <1>3, FS_Subset

\* The publisher's thread.
LEMMA UndisturbedPub ==
    ASSUME Shape, Protocol, Samplings, Undisturbed, PubThread \/ PubFails \/ PubStopFails, ~disturbed'
    PROVE  Undisturbed'
<1>0. /\ count \in Int /\ Samples \in Nat
      /\ times \in Seq([echo : Message, start : Message])
      /\ stats \in Seq([received : Nat, measured : Nat])
      /\ data \in [Subscribers -> Seq(Message)]
      /\ pubPc \in {"number", "wait", "clear", "start", "write"} => count \in Value
      /\ pubPc \in {"stop", "end", "destroy"} => count = Samples + 2
      /\ echoStep # "none" => pubCallback # NoSample
  BY Constants DEF Shape, PubShape, SampleShape, DataShape, Sending
<1>s. pubPc # "wait" => echoStep = "none" /\ (Unlocked => ~raced')
  BY <1>0 DEF Undisturbed, Unlocked, MutexFree
<1>1. CASE PubPrepare \/ PubDiscovered \/ PubStop \/ PubEnded \/ PubFails \/ PubStopFails
  <2>1. /\ UNCHANGED <<count, stats, dataMsgCount, pubCallback, answered, dataVars>>
        /\ raced' = raced \/ raced' = FALSE
        /\ pubPc \notin {"wait", "begin"} /\ pubPc' \in {"discover", "begin", "end", "destroy", "failed"}
        /\ pubPc' = "discover" => times' = <<>>
        /\ pubPc' # "discover" => times' = times
        /\ pubPc' = "begin" => pubPc = "discover"
        /\ pubPc' \in {"end", "destroy"} => pubPc \in {"stop", "end"}
    BY <1>1 DEF PubPrepare, PubDiscovered, PubStop, PubEnded, PubFails, PubStopFails, sampleVars
  <2>2. \A s \in Subscribers : Empty(s)'
    BY <2>1 DEF Undisturbed, Empty, dataVars
  <2>3. ~raced'
    BY <2>1 DEF Undisturbed
  <2> QED
    BY <2>1, <2>2, <2>3 DEF Undisturbed, Sending
<1>2. CASE PubBegun \/ PubNumber \/ PubClear \/ PubStart
  <2>1. /\ UNCHANGED <<times, stats, dataMsgCount, pubCallback, answered, dataVars>>
        /\ Unlocked \/ raced' = raced
        /\ \/ pubPc = "begin" /\ pubPc' = "number" /\ count' = 1
           \/ pubPc \in {"number", "clear", "start"} /\ pubPc' \in Sending /\ count' = count
    BY <1>2 DEF PubBegun, PubNumber, PubClear, PubStart, Sending, sampleVars
  <2>2. \A s \in Subscribers : Empty(s)'
    BY <2>1 DEF Undisturbed, Empty, dataVars
  <2>3. Len(times') = count' - 1
    BY <1>0, <2>1 DEF Undisturbed, Sending
  <2>4. ~raced'
    BY <1>s, <2>1 DEF Undisturbed
  <2> QED
    BY <2>1, <2>2, <2>3, <2>4 DEF Undisturbed, Sending
<1>3. CASE PubWrite
  <2>0. seqOut = count /\ pubPc = "write" /\ count \in Value
    <3>1. Clean /\ pubPc = "write"
      BY <1>3 DEF PubWrite, Undisturbed, Clean, Unnumbered
    <3> QED
      BY <1>0, <3>1 DEF Samplings, Unraced, Numbered, Sending
  <2>1. /\ UNCHANGED <<count, times, stats, seqOut, dataMsgCount, pubCallback, echoStep, answered, subCallback, echo>>
        /\ pubPc' = "wait" /\ data' = ToAll(data, count) /\ Unlocked
    BY <1>3, <2>0 DEF PubWrite
  <2>2. /\ \A s \in Subscribers : Empty(s)
        /\ pubCallback = NoSample /\ dataMsgCount = 0 /\ answered = {}
    BY <2>0 DEF Undisturbed
  <2>3. ASSUME NEW s \in Subscribers PROVE Once(s)'
    <3>1. data'[s] = Append(<<>>, count)
      BY <2>1, <2>2 DEF Empty, ToAll
    <3>2. data'[s] = <<count>>
      BY <3>1, OneMessage
    <3> QED
      BY <2>1, <2>2, <3>2 DEF Once, Held, Empty
  <2>4. Cardinality(answered) = 0
    BY <2>2, FS_EmptySet
  <2>5. Len(times') = count' - 1 /\ echoStep' = "none" /\ ~raced'
    BY <1>s, <2>0, <2>1 DEF Undisturbed, Sending
  <2> QED
    BY <2>0, <2>1, <2>2, <2>3, <2>4, <2>5 DEF Undisturbed, Sending
<1>4. CASE PubEchoesIn
  <2>1. /\ UNCHANGED <<times, stats, pubCallback, raced, dataVars>> /\ AllEchoesIn
        /\ pubPc = "wait" /\ pubPc' \in {"number", "stop"} /\ count' = count + 1 /\ dataMsgCount' = 0
        /\ answered' = {}
    BY <1>4 DEF PubEchoesIn, NextSample
  <2>2. answered = Subscribers
    BY <2>1, AllAnswered
  <2>3. \A s \in Subscribers : Empty(s) /\ ~Held(s)
    BY <2>1, <2>2 DEF Undisturbed, Once
  <2>4. pubCallback = NoSample
    BY <2>3 DEF Held, Shape, SampleShape
  <2>5. Len(times') = count' - 1
    BY <1>0, <2>1, <2>2, SubscribersAssumption DEF Undisturbed
  <2>6. \A s \in Subscribers : Empty(s)'
    BY <2>1, <2>3 DEF Empty, dataVars
  <2> QED
    BY <2>1, <2>4, <2>5, <2>6 DEF Undisturbed, Sending
<1>5. CASE PubTimeout
  BY <1>5 DEF PubTimeout
<1>6. CASE PubDestroy
  <2>1. pubPc = "destroy" /\ Len(times) = Samples + 1
    BY <1>0, <1>6 DEF PubDestroy, Undisturbed
  <2>2. times # <<>>
    BY <1>0, <2>1
  <2>3. analyze_times = [received |-> Samples, measured |-> Samples]
    BY <1>0, <2>1, <2>2, AnalysedTimes
  <2>4. /\ UNCHANGED <<count, times, sampleVars, subCallback, data>>
        /\ stats' = Append(stats, analyze_times) /\ pubPc' \in {"prepare", "done"}
        /\ echo' = [s \in Subscribers |-> <<>>]
    BY <1>6, <2>2 DEF PubDestroy, PubRemovesEndpoints
  <2>5. \A s \in Subscribers : Empty(s)'
    BY <2>1, <2>4 DEF Undisturbed, Empty
  <2>6. \A i \in 1..Len(stats') : stats'[i] = [received |-> Samples, measured |-> Samples]
    <3>1. /\ Len(stats) \in Nat /\ Len(stats') = Len(stats) + 1
          /\ stats'[Len(stats) + 1] = analyze_times
          /\ \A i \in 1..Len(stats) : stats'[i] = stats[i]
      BY <1>0, <2>4, AppendElements
    <3>2. \A i \in 1..Len(stats) : stats[i] = [received |-> Samples, measured |-> Samples]
      BY DEF Undisturbed
    <3> TAKE i \in 1..Len(stats')
    <3>3. i \in 1..Len(stats) \/ i = Len(stats) + 1
      BY <3>1
    <3> QED
      BY <2>3, <3>1, <3>2, <3>3
  <2> QED
    BY <2>1, <2>4, <2>5, <2>6 DEF Undisturbed, Sending, sampleVars
<1> QED
  BY <1>1, <1>2, <1>3, <1>4, <1>5, <1>6 DEF PubThread

\* A channel with one sample is empty once the sample has arrived.
LEMMA OneArrives ==
    ASSUME NEW channel \in [Subscribers -> Seq(Message)], NEW s \in Subscribers, Len(channel[s]) = 1,
           NEW k \in 1..Len(channel[s])
    PROVE  /\ k = 1 /\ Arrived(channel, s, k)[s] = <<>>
           /\ \A o \in Subscribers \ {s} : Arrived(channel, s, k)[o] = channel[o]
<1>1. k = 1 /\ Len(channel[s]) = 1
  OBVIOUS
<1>2. Arrived(channel, s, k)[s] = SubSeq(channel[s], 2, 1)
  BY <1>1 DEF Arrived
<1>3. SubSeq(channel[s], 2, 1) = <<>>
  OBVIOUS
<1> QED
  BY <1>1, <1>2, <1>3 DEF Arrived

\* The data callbacks hand the current sample on, from one place to the next.
LEMMA UndisturbedCallbacks ==
    ASSUME Shape, Protocol, Samplings, Undisturbed,
           CallbackEnds \/ \E s \in Subscribers : DataArrives(s), ~disturbed'
    PROVE  Undisturbed'
<1>0. /\ count \in Int /\ Samples \in Nat
      /\ times \in Seq([echo : Message, start : Message])
      /\ data \in [Subscribers -> Seq(Message)] /\ echo \in [Subscribers -> Seq(Message)]
      /\ subCallback \in [Subscribers -> -1..(Samples + 1)]
      /\ pubCallback = NoSample \/ pubCallback \in Subscribers \X Message
      /\ pubPc = "wait" => count \in Value
      /\ answered \subseteq Subscribers /\ echoStep \in {"none", "time", "reset"}
      /\ echoStep # "none" => pubCallback # NoSample
  BY Constants DEF Shape, PubShape, SampleShape, DataShape
<1>w. ASSUME pubPc = "wait", NEW s \in Subscribers
      PROVE  subPc[s] = "stop" /\ pubOpen
  BY <1>w DEF Protocol, Handshake, At, PubOpened, Sampling
<1>1. ASSUME NEW s \in Subscribers, SubTakeSample(s)
      PROVE  Undisturbed'
  <2>1. PICK k \in 1..Len(data[s]) : /\ subCallback' = [subCallback EXCEPT ![s] = data[s][k]]
                                     /\ data' = Arrived(data, s, k)
    BY <1>1 DEF SubTakeSample
  <2>2. UNCHANGED <<pubPc, count, times, stats, seqOut, seqIn, dataMsgCount, answered, pubCallback,
                    echoStep, raced, echo>>
    BY <1>1 DEF SubTakeSample, pubVars, sampleVars
  <2>3. data[s] # <<>>
    BY <2>1
  <2>4. pubPc = "wait" /\ Once(s)
    BY <2>3 DEF Undisturbed, Empty
  <2>5. data[s] = <<count>> /\ echo[s] = <<>> /\ ~Held(s) /\ s \notin answered
    BY <2>3, <2>4 DEF Once, Empty
  <2>6. /\ data'[s] = <<>> /\ data[s][k] = count
        /\ \A o \in Subscribers \ {s} : data'[o] = data[o] /\ subCallback'[o] = subCallback[o]
    <3>0. data \in [Subscribers -> Seq(Message)]
      BY <1>0
    <3>1. Len(data[s]) = 1 /\ data[s][1] = count
      BY <2>5
    <3>2. /\ k = 1 /\ Arrived(data, s, k)[s] = <<>>
          /\ \A o \in Subscribers \ {s} : Arrived(data, s, k)[o] = data[o]
      BY <3>0, <3>1, OneArrives
    <3> QED
      BY <1>0, <2>1, <3>1, <3>2
  <2>7. Once(s)'
    BY <1>0, <2>1, <2>2, <2>5, <2>6 DEF Once, Held
  <2>8. \A o \in Subscribers : Once(o)'
    <3>1. \A o \in Subscribers \ {s} : SameSample(o)
      BY <2>2, <2>6 DEF SameSample, Held
    <3> QED
      BY <2>2, <2>4, <2>7, <3>1, SampleFrame DEF Undisturbed
  <2> QED
    BY <2>2, <2>4, <2>8 DEF Undisturbed, Sending
<1>2. ASSUME NEW s \in Subscribers, SubEcho(s)
      PROVE  Undisturbed'
  <2>2. /\ UNCHANGED <<pubPc, count, times, stats, seqOut, seqIn, dataMsgCount, answered, pubCallback,
                       echoStep, raced, data>>
        /\ subCallback[s] # NoNumber /\ subCallback' = [subCallback EXCEPT ![s] = NoNumber]
        /\ echo' = IF pubOpen THEN To(echo, s, subCallback[s]) ELSE echo
    BY <1>2 DEF SubEcho, pubVars, sampleVars
  <2>4. pubPc = "wait" /\ Once(s)
    BY <2>2 DEF Undisturbed, Empty
  <2>5. data[s] = <<>> /\ echo[s] = <<>> /\ subCallback[s] = count /\ ~Held(s) /\ s \notin answered
    BY <2>2, <2>4 DEF Once, Empty
  <2>6. /\ echo'[s] = <<count>> /\ subCallback'[s] = NoNumber
        /\ \A o \in Subscribers \ {s} : echo'[o] = echo[o] /\ subCallback'[o] = subCallback[o]
    <3>1. echo' = [echo EXCEPT ![s] = Append(echo[s], subCallback[s])]
      BY <1>w, <2>2, <2>4 DEF To
    <3>2. Append(echo[s], subCallback[s]) = <<count>>
      BY <2>5, OneMessage
    <3> QED
      BY <1>0, <2>2, <3>1, <3>2
  <2>7. Once(s)'
    BY <2>2, <2>5, <2>6 DEF Once, Held
  <2>8. \A o \in Subscribers : Once(o)'
    <3>1. \A o \in Subscribers \ {s} : SameSample(o)
      BY <2>2, <2>6 DEF SameSample, Held
    <3> QED
      BY <2>2, <2>4, <2>7, <3>1, SampleFrame DEF Undisturbed
  <2> QED
    BY <2>2, <2>4, <2>8 DEF Undisturbed, Sending
<1>3. ASSUME NEW s \in Subscribers, PubTakeEcho(s)
      PROVE  Undisturbed'
  <2>1. PICK k \in 1..Len(echo[s]) : /\ pubCallback' = <<s, echo[s][k]>>
                                     /\ echo' = Arrived(echo, s, k) /\ seqIn' = echo[s][k]
    BY <1>3 DEF PubTakeEcho
  <2>2. /\ UNCHANGED <<pubPc, count, times, stats, seqOut, dataMsgCount, answered, echoStep, raced, data, subCallback>>
        /\ pubCallback = NoSample
    BY <1>3 DEF PubTakeEcho, pubVars
  <2>3. echo[s] # <<>>
    BY <2>1
  <2>4. pubPc = "wait" /\ Once(s)
    BY <2>3 DEF Undisturbed, Empty
  <2>5. data[s] = <<>> /\ echo[s] = <<count>> /\ subCallback[s] = NoNumber /\ s \notin answered
    BY <2>3, <2>4 DEF Once, Empty
  <2>6. /\ echo'[s] = <<>> /\ echo[s][k] = count
        /\ \A o \in Subscribers \ {s} : echo'[o] = echo[o]
    <3>0. echo \in [Subscribers -> Seq(Message)]
      BY <1>0
    <3>1. Len(echo[s]) = 1 /\ echo[s][1] = count
      BY <2>5
    <3>2. /\ k = 1 /\ Arrived(echo, s, k)[s] = <<>>
          /\ \A o \in Subscribers \ {s} : Arrived(echo, s, k)[o] = echo[o]
      BY <3>0, <3>1, OneArrives
    <3> QED
      BY <1>0, <2>1, <3>1, <3>2
  <2>a. pubCallback' # NoSample /\ pubCallback'[1] = s /\ pubCallback'[2] = count
    BY <2>1, <2>6 DEF NoSample
  <2>7. Once(s)'
    BY <2>2, <2>5, <2>6, <2>a DEF Once, Held, Empty
  <2>8. \A o \in Subscribers : Once(o)'
    <3>1. \A o \in Subscribers \ {s} : SameSample(o)
      BY <2>2, <2>6, <2>a DEF SameSample, Held
    <3> QED
      BY <2>2, <2>4, <2>7, <3>1, SampleFrame DEF Undisturbed
  <2> QED
    BY <2>1, <2>2, <2>4, <2>6, <2>8 DEF Undisturbed, Sending
<1>4. ASSUME pubCallback # NoSample
      PROVE  /\ pubPc = "wait" /\ seqIn = count /\ (Expected <=> answered = {})
             /\ pubCallback[1] \in Subscribers /\ Empty(pubCallback[1])
             /\ pubCallback[2] = count /\ pubCallback[1] \notin answered
  <2>1. pubPc = "wait"
    BY <1>4 DEF Undisturbed
  <2>2. PICK h \in Subscribers : h = pubCallback[1]
    BY <1>0, <1>4
  <2>3. Once(h) /\ Held(h)
    BY <1>4, <2>1, <2>2 DEF Undisturbed, Held
  <2>4. Empty(h) /\ pubCallback[2] = count /\ h \notin answered
    BY <2>3 DEF Once
  <2>5. Expected <=> answered = {}
    <3>1. seqIn = count /\ seqOut = IF answered = {} THEN count ELSE 0
      BY <1>4, <2>1 DEF Undisturbed
    <3>2. count # 0
      BY <1>0, <2>1 DEF Value
    <3> QED
      BY <3>1, <3>2 DEF Expected
  <2>6. seqIn = count
    BY <1>4, <2>1 DEF Undisturbed
  <2> QED
    BY <2>1, <2>2, <2>4, <2>5, <2>6
<1>5. CASE PubUnexpected \/ PubResets
  <2>0. pubCallback # NoSample
    BY <1>0, <1>5 DEF PubUnexpected, PubResets, PubLocks
  <2>1. /\ UNCHANGED <<pubPc, count, times, stats, raced, data, echo, subCallback>>
        /\ dataMsgCount' = dataMsgCount + 1 /\ pubCallback' = NoSample /\ echoStep' = "none"
        /\ answered' = IF pubCallback[2] = count THEN answered \cup {pubCallback[1]} ELSE answered
    BY <1>5 DEF PubUnexpected, PubResets, EchoCounted, pubVars, dataVars
  <2>2. pubPc = "wait"
    BY <1>4, <2>0
  <2>3. PICK h \in Subscribers : h = pubCallback[1]
    BY <1>4, <2>0
  <2>5. Empty(h) /\ h \notin answered /\ answered' = answered \cup {h}
    BY <1>4, <2>0, <2>1, <2>3
  <2>7. \A o \in Subscribers : Once(o)'
    <3>1. \A o \in Subscribers \ {h} : SameSample(o)
      BY <2>1, <2>3, <2>5 DEF SameSample, Held
    <3>2. Once(h)'
      BY <2>1, <2>5 DEF Once, Held, Empty
    <3> QED
      BY <2>1, <2>2, <3>1, <3>2, SampleFrame DEF Undisturbed
  <2>8. dataMsgCount' = Cardinality(answered')
    <3>1. IsFiniteSet(answered)
      BY <1>0, Constants, FS_Subset
    <3> QED
      <4>1. dataMsgCount = Cardinality(answered)
        BY <2>2 DEF Undisturbed
      <4>2. Cardinality(answered \cup {h}) = Cardinality(answered) + 1
        BY <2>5, <3>1, FS_AddElement
      <4> QED
        BY <2>1, <2>5, <4>1, <4>2
  <2>9. seqOut' = 0 /\ Len(times') = count
    <3>1. CASE PubResets
      BY <2>1, <2>2, <3>1 DEF PubResets, Undisturbed
    <3>2. CASE PubUnexpected
      <4>1. answered # {} /\ seqOut' = seqOut /\ echoStep = "none"
        BY <1>4, <2>0, <2>2, <3>2 DEF PubUnexpected, PubLocks, MutexFree, Unnumbered
      <4> QED
        BY <2>1, <2>2, <4>1 DEF Undisturbed
    <3> QED
      BY <1>5, <3>1, <3>2
  <2>10. answered' # {}
    BY <2>5
  <2> QED
    BY <2>1, <2>2, <2>7, <2>8, <2>9, <2>10 DEF Undisturbed, Sending
<1>6. CASE PubExpected
  <2>1. /\ UNCHANGED <<pubPc, count, times, stats, seqOut, seqIn, dataMsgCount, pubCallback, raced, answered,
                       data, echo, subCallback>>
        /\ pubCallback # NoSample /\ echoStep = "none" /\ echoStep' = "time"
        /\ Expected \/ Unnumbered
    BY <1>6 DEF PubExpected, PubLocks, MutexFree, pubVars, dataVars
  <2>2. pubPc = "wait" /\ answered = {}
    BY <1>4, <2>1 DEF Unnumbered
  <2>3. \A o \in Subscribers : Once(o)'
    <3>1. \A o \in Subscribers : SameSample(o)
      BY <2>1 DEF SameSample, Held
    <3> QED
      BY <2>1, <2>2, <3>1, SampleFrame DEF Undisturbed
  <2> QED
    BY <2>1, <2>2, <2>3 DEF Undisturbed, Sending
<1>7. ASSUME NEW timed \in BOOLEAN, PubTimes(timed)
      PROVE  Undisturbed'
  <2>1. /\ UNCHANGED <<pubPc, count, stats, seqOut, seqIn, dataMsgCount, pubCallback, raced, answered,
                       data, echo, subCallback>>
        /\ pubCallback # NoSample /\ echoStep = "time" /\ echoStep' = "reset"
        /\ times' = IF timed THEN Append(times, [echo |-> pubCallback[2], start |-> startSeq]) ELSE times
        /\ disturbed' = (disturbed \/ ~timed)
    BY <1>0, <1>7 DEF PubTimes, dataVars
  <2>2. pubPc = "wait" /\ timed
    BY <1>4, <2>1
  <2>3. answered = {} /\ Len(times) = count - 1
    BY <2>1, <2>2 DEF Undisturbed
  <2>4. Len(times') = Len(times) + 1
    BY <1>0, <2>1, <2>2, AppendElements
  <2>5. Len(times') = count
    BY <1>0, <2>3, <2>4
  <2>6. \A o \in Subscribers : Once(o)'
    <3>1. \A o \in Subscribers : SameSample(o)
      BY <2>1 DEF SameSample, Held
    <3> QED
      BY <2>1, <2>2, <3>1, SampleFrame DEF Undisturbed
  <2> QED
    BY <2>1, <2>2, <2>3, <2>5, <2>6 DEF Undisturbed, Sending
<1> QED
  BY <1>1, <1>2, <1>3, <1>5, <1>6, <1>7 DEF CallbackEnds, PubCallback, DataArrives

-----------------------------------------------------------------------------
(* The inductive invariant as a whole, and what it says of an undisturbed  *)
(* test.                                                                   *)

\* The initial state.
LEMMA IInvInit == Init => IInv
<1> SUFFICES ASSUME Init PROVE IInv
  OBVIOUS
<1>1. /\ \A s \in Subscribers : Empty(s)
      /\ pubPc = "prepare" /\ pubCallback = NoSample /\ dataMsgCount = 0 /\ stats = <<>> /\ raced = FALSE
      /\ answered = {}
  BY DEF Init, Empty
<1>2. Undisturbed
  BY <1>1 DEF Undisturbed, Sending
<1> QED
  BY <1>2, ShapeInit, ProtocolInit, SamplingsInit DEF IInv

\* No step takes disturbed back.
LEMMA DisturbedStays == [Next]_vars => (disturbed => disturbed')
<1> SUFFICES ASSUME [Next]_vars, disturbed PROVE disturbed'
  OBVIOUS
<1>1. CASE PubThread \/ PubFails \/ PubStopFails
  BY <1>1 DEF PubThread, PubPrepare, PubDiscovered, PubBegun, PubNumber, PubClear, PubStart, PubWrite, PubEchoesIn,
     PubTimeout, NextSample, PubStop, PubEnded, PubDestroy, PubFails, PubStopFails, faultVars
<1>2. CASE \E s \in Subscribers : SubThread(s) \/ SubFails(s) \/ SubDestroyFails(s)
  BY <1>2 DEF SubThread, SubFails, SubDestroyFails, SubDiscoversCommands, SubReady, SubPrepare,
     SubCannotPrepare, SubDiscovered, SubBegin, SubStopped, SubDestroy, SubEnd, SubAcknowledged, faultVars
<1>3. CASE \/ CallbackEnds
           \/ \E s \in Subscribers : Discovery(s) \/ CommandDelivered(s) \/ DataArrives(s)
  BY <1>3 DEF CallbackEnds, Discovery, CommandDelivered, DataArrives, PubOnMatched, SubOnMatched,
     PubOnCommand, SubOnCommand, PubTakeEcho, PubCallback, PubUnexpected, PubExpected, PubTimes, PubResets,
     EchoCounted, SubTakeSample, SubEcho, faultVars
<1> QED
  BY <1>1, <1>2, <1>3 DEF Next, Progress, Faults, vars, faultVars

\* Every step.
LEMMA IInvStep == IInv /\ [Next]_vars => IInv'
<1> SUFFICES ASSUME IInv, [Next]_vars PROVE IInv'
  OBVIOUS
<1>1. Shape' /\ Protocol' /\ Samplings'
  BY ShapeStep, ProtocolStep, SamplingsStep DEF IInv
<1>2. ASSUME ~disturbed' PROVE Undisturbed'
  <2>1. Shape /\ Protocol /\ Samplings /\ Undisturbed
    BY <1>2, DisturbedStays DEF IInv
  <2>2. CASE UNCHANGED vars
    BY <2>1, <2>2, UndisturbedFrame DEF vars
  <2>3. CASE \E s \in Subscribers : Discovery(s) \/ CommandDelivered(s)
    <3>1. UNCHANGED <<pubVars, sampleVars, dataVars>>
      BY <2>3 DEF Discovery, CommandDelivered, PubOnMatched, SubOnMatched, PubOnCommand, SubOnCommand
    <3> QED
      BY <2>1, <3>1, UndisturbedFrame
  <2> QED
    BY <1>2, <2>1, <2>2, <2>3, UndisturbedPub, UndisturbedSub, UndisturbedCallbacks
       DEF Next, Progress, Faults
<1> QED
  BY <1>1, <1>2 DEF IInv

\* The inductive invariant holds.
THEOREM Invariance == Spec => []IInv
BY IInvInit, IInvStep, PTL DEF Spec

\* If no echo is lost, late or discarded, every payload has samples_ results,
\* the publisher does not crash, and no callback uses deleted data.
THEOREM UndisturbedComplete == Spec => []UndisturbedMeasuresAll
<1>1. IInv => UndisturbedMeasuresAll
  <2> SUFFICES ASSUME IInv, ~disturbed
               PROVE  /\ \A i \in 1..Len(stats) : stats[i] = [received |-> Samples, measured |-> Samples]
                      /\ pubPc # "crashed" /\ ~DeletedInUse
    BY DEF UndisturbedMeasuresAll
  <2>1. Undisturbed /\ Protocol
    BY DEF IInv
  <2>2. \A s \in Subscribers : subPc[s] = "destroy" => pubPc # "wait"
    BY <2>1 DEF Protocol, Handshake, At, Sampling
  <2>3. ~DeletedInUse
    BY <2>1, <2>2 DEF DeletedInUse, Undisturbed, Empty
  <2> QED
    BY <2>1, <2>3 DEF Undisturbed
<1> QED
  BY <1>1, Invariance, PTL

\* Until a first wait times out, a wait that ends has seen the replies of all
\* subscribers to the sample just sent.
THEOREM RepliesAwaited == Spec => WaitsForReply
<1>1. IInv /\ [Next]_vars => [PubEchoesIn /\ ~disturbed => answered = Subscribers]_vars
  BY AllAnswered DEF IInv, PubEchoesIn
<1> QED
  BY <1>1, Invariance, PTL DEF Spec, WaitsForReply
=============================================================================
