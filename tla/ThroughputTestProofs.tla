-------------------------- MODULE ThroughputTestProofs -------------------------
(***************************************************************************)
(* Theorems about the throughput test, for any number of subscribers,      *)
(* sizes, demands and recovery times, any bursts and any number of faults. *)
(***************************************************************************)
EXTENDS ThroughputTest, FiniteSetTheorems, TLAPS

-----------------------------------------------------------------------------
(* The parts of the inductive invariant.                                   *)

CommandType == [kind : Commands, test : Nat]
AnswerType == [kind : Commands, from : Subscribers, numbers : Numbers]
Matches == [command : 0..2, data : 0..1]
Entry == [test : Nat, send : Nat, recv : Nat, lost : Int]

\* The loops of run(): outside the tests the one over the demands is at its start.
Outside == {"match", "new", "create", "discover", "dispose", "destroy", "removed"}
Looping ==
    /\ recovery \in 1..Recoveries /\ demand \in Nat
    /\ size <= Sizes => demand \in 1..Len(Demands[size])
    /\ pubPc \in Outside => demand = 1

\* Types, group by group.
PubShape ==
    /\ pubPc \in PubPlaces
    /\ size \in 1..(Sizes + 1) /\ Looping
    /\ pubOpen \in BOOLEAN /\ last \in Commands /\ ready \in 0..N
    /\ samples \in Nat
    /\ results \in Seq(Entry)
    /\ pubPc \notin {"stop", "done"} => size <= Sizes
    /\ pubPc = "results" /\ ready > 0 => results # <<>>
SubShape ==
    /\ subPc \in [Subscribers -> SubPlaces]
    /\ subOpen \in [Subscribers -> BOOLEAN]
ListenerShape ==
    /\ enabled \in [Subscribers -> BOOLEAN]
    /\ lastSeq \in [Subscribers -> Nat]
    /\ lost \in [Subscribers -> Nat]
    /\ received \in [Subscribers -> Nat]
    /\ subSaved \in [Subscribers -> Numbers]
MatchShape ==
    /\ pubMatches \in [Subscribers -> Matches]
    /\ subMatches \in [Subscribers -> Matches]
    /\ linked \in [Subscribers -> BOOLEAN]
    /\ \A s \in Subscribers : subMatches[s].data = 1 => linked[s]
CommandShape ==
    /\ commandTo \in [Subscribers -> Seq(CommandType)]
    /\ inbox \in Seq(AnswerType)
DataShape == data \in [Subscribers -> Seq(Nat)]
TestShape ==
    /\ test \in Nat /\ subTest \in [Subscribers -> Nat]
    /\ from \subseteq Subscribers /\ late \in BOOLEAN
FaultShape == failures \in Nat /\ timeouts \in Nat /\ failures + timeouts <= MaxFaults

\* Those that no other part depends on.
Flags == /\ testFailure \in BOOLEAN /\ pubMissed \in BOOLEAN
         /\ subMissed \in [Subscribers -> BOOLEAN]

Shape == /\ PubShape /\ SubShape /\ ListenerShape /\ MatchShape
         /\ CommandShape /\ DataShape /\ TestShape /\ FaultShape

\* No message of a set, or exactly one, is in a channel.
None(q, H) == \A i \in 1..Len(q) : q[i] \notin H
One(q, H) == \E i \in 1..Len(q) : q[i] \in H /\ \A j \in 1..Len(q) : q[j] \in H => j = i

\* READY_TO_START and its BEGIN, faults of calls included: while the publisher
\* waits, the one or the other is on its way or has been counted.
Readies == {m \in CommandType : m.kind = "READY_TO_START"}
Answers(s) == {m \in AnswerType : m.from = s}
Kind(s, kind) == {m \in AnswerType : m.from = s /\ m.kind = kind}
NoReady(s) == None(commandTo[s], Readies)
OneReady(s) == /\ One(commandTo[s], Readies)
               /\ \A i \in 1..Len(commandTo[s]) :
                    commandTo[s][i] \in Readies => commandTo[s][i].test = test
NoBegin(s) == None(inbox, Kind(s, "BEGIN"))
OneBegin(s) == One(inbox, Kind(s, "BEGIN"))
Rigging(s) ==
    /\ pubPc # "rig" => NoReady(s) /\ NoBegin(s)
    /\ pubPc = "rig" =>
        \/ OneReady(s) /\ NoBegin(s) /\ s \notin from /\ subTest[s] # test
        \/ NoReady(s) /\ OneBegin(s) /\ s \notin from /\ subTest[s] = test
        \/ NoReady(s) /\ NoBegin(s) /\ s \in from /\ subTest[s] = test
    /\ pubPc \in {"starts", "send"} => subTest[s] = test
    /\ subTest[s] <= test
Rigs == /\ \A s \in Subscribers : Rigging(s)
        /\ pubPc = "rig" => ready = Cardinality(from)

\* The samples of one test: those on their way follow the last one received.
Ordered(q, low) ==
    /\ \A i \in 1..Len(q) : low < q[i]
    /\ \A i, j \in 1..Len(q) : i < j => q[i] < q[j]
Counted(s) ==
    /\ Ordered(data[s], lastSeq[s])
    /\ received[s] + lost[s] = lastSeq[s]
    /\ pubPc \in {"rig", "starts"} /\ subTest[s] = test => data[s] = <<>> /\ lastSeq[s] = 0
    /\ pubPc \in {"send", "results"} => /\ lastSeq[s] <= samples
                                        /\ \A i \in 1..Len(data[s]) : data[s][i] <= samples

Counts == \A s \in Subscribers : Counted(s)

\* A channel from or to a subscriber that no fault has touched.
Has0(s) == commandTo[s] = <<>>
Has1(s, kind) == Len(commandTo[s]) = 1 /\ commandTo[s][1].kind = kind
Has2(s, kind1, kind2) == /\ Len(commandTo[s]) = 2
                         /\ commandTo[s][1].kind = kind1 /\ commandTo[s][2].kind = kind2
Silent(s) == None(inbox, Answers(s))
Said(s, kind) == One(inbox, Answers(s)) /\ One(inbox, Kind(s, kind))
Told(s, kind) == \/ Said(s, kind) /\ s \notin from
                 \/ Silent(s) /\ s \in from

Closed(s) == ~subOpen[s] /\ pubMatches[s].data = 0
Linked(s) == subOpen[s] /\ linked[s]
Found(s) == /\ subOpen[s]
            /\ \/ subPc[s] = "discover"
               \/ subPc[s] = "idle" /\ linked[s]
Rigged(s) == subPc[s] = "idle" /\ Linked(s) /\ enabled[s]

\* What a subscriber may be doing, by what the publisher does.
Handshake(s) ==
    /\ pubPc \in {"match", "new"} => subPc[s] \in {"match", "idle"} /\ Closed(s) /\ Has0(s) /\ Silent(s)
    /\ pubPc \in {"create", "discover"} =>
        /\ Silent(s)
        /\ \/ subPc[s] \in {"match", "idle"} /\ Closed(s) /\ Has1(s, "TYPE_NEW")
           \/ Found(s) /\ Has0(s)
    /\ pubPc = "ready" => Found(s) /\ Has0(s) /\ Silent(s)
    /\ pubPc = "rig" =>
        \/ Found(s) /\ Has1(s, "READY_TO_START") /\ Silent(s) /\ s \notin from
        \/ Rigged(s) /\ Has0(s) /\ Told(s, "BEGIN")
    /\ pubPc = "starts" => Rigged(s) /\ Has0(s) /\ Silent(s)
    /\ pubPc = "send" => Rigged(s) /\ (Has0(s) \/ Has1(s, "TEST_STARTS")) /\ Silent(s)
    /\ pubPc = "results" =>
        /\ Linked(s)
        /\ \/ /\ subPc[s] = "idle" /\ Silent(s) /\ s \notin from
              /\ Has1(s, "TEST_ENDS") \/ Has2(s, "TEST_STARTS", "TEST_ENDS")
           \/ subPc[s] = "report" /\ Has0(s) /\ Silent(s) /\ s \notin from
           \/ subPc[s] = "idle" /\ Has0(s) /\ Told(s, "TEST_RESULTS")
    /\ pubPc = "dispose" => subPc[s] = "idle" /\ Linked(s) /\ Has0(s) /\ Silent(s)
    /\ pubPc = "destroy" =>
        /\ subPc[s] = "idle"
        /\ \/ Linked(s) /\ Has1(s, "TYPE_DISPOSE") /\ Silent(s)
           \/ Closed(s) /\ Has0(s) /\ Said(s, "TYPE_REMOVED")
    /\ pubPc = "removed" =>
        /\ subPc[s] = "idle"
        /\ \/ subOpen[s] /\ Has1(s, "TYPE_DISPOSE") /\ Silent(s) /\ s \notin from
           \/ Closed(s) /\ Has0(s) /\ Told(s, "TYPE_REMOVED")
    /\ pubPc = "stop" => subPc[s] = "idle" /\ Closed(s) /\ Has0(s) /\ Silent(s)
Prompt ==
    /\ \A s \in Subscribers : Handshake(s)
    /\ pubPc \in {"rig", "removed", "results"} => ready = Cardinality(from)

\* The table of results, for prompt subscribers and samples that are not late:
\* one entry for each test that has had a report, and what is still to be added.
Entries == \A i \in 1..Len(results) :
    /\ results[i].recv <= results[i].send
    /\ results[i].lost = results[i].send - results[i].recv
    /\ results[i].test = i
Lengths ==
    /\ pubPc \in {"rig", "starts", "send"} => Len(results) = test - 1
    /\ pubPc = "results" => Len(results) = IF ready = 0 THEN test - 1 ELSE test
    /\ pubPc \notin {"rig", "starts", "send", "results"} => Len(results) = test
Reports == pubPc = "results" =>
    /\ \A s \in Subscribers : subPc[s] = "report" => subSaved[s].received <= samples
    /\ \A i \in 1..Len(inbox) : inbox[i].numbers.received <= samples
Table == Entries /\ Lengths /\ Reports

\* The commands a subscriber has not read yet, whatever fails or is late: two
\* TYPE_NEW have a TYPE_DISPOSE between them, the first one has it before it if
\* there is a reader, and the last one has it after it when the next may come.
IsNew(q, i) == q[i].kind = "TYPE_NEW"
IsDispose(q, i) == q[i].kind = "TYPE_DISPOSE"
Spaced(q) == \A i, j \in 1..Len(q) : i < j /\ IsNew(q, i) /\ IsNew(q, j) =>
                \E k \in 1..Len(q) : i < k /\ k < j /\ IsDispose(q, k)
Cleared(q) == \A j \in 1..Len(q) : IsNew(q, j) => \E k \in 1..Len(q) : k < j /\ IsDispose(q, k)
Ended(q) == \A i \in 1..Len(q) : IsNew(q, i) => \E k \in 1..Len(q) : i < k /\ IsDispose(q, k)
Disposing(q) == \E k \in 1..Len(q) : IsDispose(q, k)
Disposed == {"match", "new", "destroy", "removed"}
Alternating(s) ==
    /\ Spaced(commandTo[s])
    /\ subOpen[s] => Cleared(commandTo[s])
    /\ pubPc \in Disposed => Ended(commandTo[s]) /\ (subOpen[s] => Disposing(commandTo[s]))
Alternate == \A s \in Subscribers : Alternating(s)

IInv ==
    /\ Shape
    /\ Alternate
    /\ timeouts = 0 => Rigs
    /\ timeouts = 0 /\ ~late => Counts
    /\ timeouts = 0 /\ failures = 0 => Prompt
    /\ timeouts = 0 /\ failures = 0 /\ ~late => Table

-----------------------------------------------------------------------------
(* Types.                                                                  *)

\* The constants, in the form the provers use them.
LEMMA Constants ==
    /\ Sizes \in Nat \ {0} /\ Recoveries \in Nat \ {0}
    /\ MaxBursts \in Nat \ {0} /\ MaxFaults \in Nat
    /\ IsFiniteSet(Subscribers) /\ N \in Nat \ {0}
<1>1. Cardinality(Subscribers) \in Nat /\ Cardinality(Subscribers) # 0
  BY SubscribersAssumption, FS_CardinalityType, FS_EmptySet
<1>2. Len(Demands) \in Nat \ {0}
  BY DemandsAssumption
<1> QED
  BY <1>1, <1>2, SubscribersAssumption, TestsAssumption, MaxFaultsAssumption DEF N, Sizes

\* Every payload size has demands.
LEMMA DemandTypes ==
    \A i \in 1..Sizes : /\ Len(Demands[i]) \in Nat \ {0}
                        /\ \A d \in 1..Len(Demands[i]) : Demands[i][d] \in Nat \ {0}
<1> SUFFICES ASSUME NEW i \in 1..Sizes
             PROVE  /\ Len(Demands[i]) \in Nat \ {0}
                    /\ \A d \in 1..Len(Demands[i]) : Demands[i][d] \in Nat \ {0}
  OBVIOUS
<1>1. Demands[i] \in Seq(Nat \ {0}) /\ Demands[i] # <<>>
  BY DemandsAssumption DEF Sizes
<1> QED
  BY <1>1

\* A burst has samples.
LEMMA BurstType == ASSUME Shape, pubPc \notin {"stop", "done"} PROVE Burst \in Nat \ {0}
<1>1. size \in 1..Sizes /\ demand \in 1..Len(Demands[size])
  BY Constants DEF Shape, PubShape, Looping
<1> QED
  BY <1>1, DemandTypes DEF Burst

\* The elements of a sequence.
LEMMA ElementType ==
    ASSUME NEW S, NEW q \in Seq(S), NEW i \in 1..Len(q)
    PROVE  q[i] \in S
OBVIOUS

\* Appending to a sequence keeps its type.
LEMMA AppendType ==
    ASSUME NEW S, NEW q \in Seq(S), NEW x \in S
    PROVE  Append(q, x) \in Seq(S)
OBVIOUS

\* The elements of an appended sequence.
LEMMA AppendElements ==
    ASSUME NEW S, NEW q \in Seq(S), NEW x
    PROVE  /\ Len(q) \in Nat /\ Len(Append(q, x)) = Len(q) + 1
           /\ Append(q, x)[Len(q) + 1] = x
           /\ \A i \in 1..Len(q) : Append(q, x)[i] = q[i]
OBVIOUS

\* The first element of a sequence, and the others.
LEMMA TailElements ==
    ASSUME NEW S, NEW q \in Seq(S), q # <<>>
    PROVE  /\ Len(q) \in Nat \ {0} /\ Tail(q) \in Seq(S) /\ Len(Tail(q)) = Len(q) - 1
           /\ Head(q) \in S /\ Head(q) = q[1]
           /\ \A i \in 1..(Len(q) - 1) : Tail(q)[i] = q[i + 1]
OBVIOUS

\* The elements of a sequence after the k-th.
LEMMA RestElements ==
    ASSUME NEW S, NEW q \in Seq(S), NEW k \in 0..Len(q)
    PROVE  /\ SubSeq(q, k + 1, Len(q)) \in Seq(S)
           /\ Len(SubSeq(q, k + 1, Len(q))) = Len(q) - k
           /\ \A i \in 1..(Len(q) - k) : SubSeq(q, k + 1, Len(q))[i] = q[k + i]
OBVIOUS

\* The types of the commands and answers that are written.
LEMMA MessageTypes ==
    /\ \A kind \in Commands, n \in Nat : [kind |-> kind, test |-> n] \in CommandType
    /\ \A s \in Subscribers, kind \in Commands :
         ListenerShape => Answer(s, kind) \in AnswerType
BY DEF CommandType, AnswerType, Answer, ListenerShape

\* What the publisher writes is appended to every subscriber's commands.
LEMMA WriteTypes ==
    ASSUME Shape, NEW kind \in Commands, Write(kind)
    PROVE  /\ commandTo' \in [Subscribers -> Seq(CommandType)]
           /\ \A s \in Subscribers : commandTo'[s] = Append(commandTo[s], Command(kind))
           /\ Command(kind) \in CommandType
           /\ Command(kind).kind = kind
<1>1. Command(kind) \in CommandType /\ Command(kind).kind = kind
  BY MessageTypes DEF Command, Shape, TestShape
<1>2. commandTo \in [Subscribers -> Seq(CommandType)]
  BY DEF Shape, CommandShape
<1>3. \A s \in Subscribers : Append(commandTo[s], Command(kind)) \in Seq(CommandType)
  BY <1>1, <1>2, AppendType
<1>4. commandTo' = [s \in Subscribers |-> Append(commandTo[s], Command(kind))]
  BY DEF Write
<1> QED
  BY <1>1, <1>3, <1>4

\* What a subscriber reads is the first of its commands.
LEMMA ReadTypes ==
    ASSUME Shape, NEW s \in Subscribers, NEW kind, Reads(s, kind)
    PROVE  /\ commandTo' \in [Subscribers -> Seq(CommandType)]
           /\ Len(commandTo[s]) \in Nat \ {0}
           /\ commandTo[s][1] \in CommandType /\ Head(commandTo[s]) = commandTo[s][1]
           /\ commandTo[s][1].kind = kind /\ commandTo[s][1].test \in Nat
           /\ commandTo'[s] = Tail(commandTo[s])
           /\ \A t \in Subscribers : t # s => commandTo'[t] = commandTo[t]
<1>1. /\ commandTo \in [Subscribers -> Seq(CommandType)] /\ commandTo[s] \in Seq(CommandType)
      /\ commandTo[s] # <<>>
  BY DEF Shape, CommandShape, Reads
<1>2. /\ Tail(commandTo[s]) \in Seq(CommandType) /\ Head(commandTo[s]) = commandTo[s][1]
      /\ Head(commandTo[s]) \in CommandType /\ Len(commandTo[s]) \in Nat \ {0}
  BY <1>1, TailElements
<1>3. commandTo' = [commandTo EXCEPT ![s] = Tail(commandTo[s])] /\ Head(commandTo[s]).kind = kind
  BY DEF Reads
<1>4. commandTo[s][1].test \in Nat
  BY <1>2 DEF CommandType
<1> QED
  BY <1>1, <1>2, <1>3, <1>4

\* An answer is appended to the publisher's inbox.
LEMMA AnswerTypes ==
    ASSUME Shape, NEW s \in Subscribers, NEW kind \in Commands,
           inbox' = Append(inbox, Answer(s, kind))
    PROVE  inbox' \in Seq(AnswerType)
<1>1. inbox \in Seq(AnswerType) /\ Answer(s, kind) \in AnswerType
  BY MessageTypes DEF Shape, CommandShape
<1> QED
  BY <1>1, AppendType

\* The first answer is taken from the publisher's inbox.
LEMMA TakeTypes ==
    ASSUME Shape, inbox # <<>>
    PROVE  /\ Tail(inbox) \in Seq(AnswerType) /\ Len(inbox) \in Nat \ {0}
           /\ Head(inbox) = inbox[1] /\ Head(inbox) \in AnswerType
           /\ Head(inbox).kind \in Commands /\ Head(inbox).from \in Subscribers
           /\ Head(inbox).numbers.received \in Nat
<1>1. /\ Tail(inbox) \in Seq(AnswerType) /\ Len(inbox) \in Nat \ {0}
      /\ Head(inbox) = inbox[1] /\ Head(inbox) \in AnswerType
  BY TailElements DEF Shape, CommandShape
<1> QED
  BY <1>1 DEF AnswerType, Numbers

\* A step that goes on within the loops.
LEMMA LoopsKept ==
    Looping /\ UNCHANGED <<size, demand, recovery>> /\ (pubPc' \in Outside => pubPc \in Outside) => Looping'
BY DEF Looping

\* A step that leaves a group of variables alone keeps its types.
LEMMA ShapeFrames ==
    /\ PubShape /\ UNCHANGED pubVars => PubShape'
    /\ SubShape /\ UNCHANGED <<subPc, subOpen>> => SubShape'
    /\ ListenerShape /\ UNCHANGED listenerVars => ListenerShape'
    /\ MatchShape /\ UNCHANGED matchVars => MatchShape'
    /\ MatchShape /\ UNCHANGED <<pubMatches, subMatches, linked>> => MatchShape'
    /\ CommandShape /\ UNCHANGED <<commandTo, inbox>> => CommandShape'
    /\ DataShape /\ UNCHANGED data => DataShape'
    /\ TestShape /\ UNCHANGED <<test, subTest, from, late>> => TestShape'
    /\ FaultShape /\ UNCHANGED <<failures, timeouts>> => FaultShape'
<1>1. PubShape /\ UNCHANGED pubVars => PubShape'
  BY LoopsKept DEF PubShape, pubVars
<1>2. SubShape /\ UNCHANGED <<subPc, subOpen>> => SubShape'
  BY DEF SubShape
<1>3. ListenerShape /\ UNCHANGED listenerVars => ListenerShape'
  BY DEF ListenerShape, listenerVars
<1>4. /\ MatchShape /\ UNCHANGED matchVars => MatchShape'
      /\ MatchShape /\ UNCHANGED <<pubMatches, subMatches, linked>> => MatchShape'
  BY DEF MatchShape, matchVars
<1>5. CommandShape /\ UNCHANGED <<commandTo, inbox>> => CommandShape'
  BY DEF CommandShape
<1>6. DataShape /\ UNCHANGED data => DataShape'
  BY DEF DataShape
<1>7. TestShape /\ UNCHANGED <<test, subTest, from, late>> => TestShape'
  BY DEF TestShape
<1>8. FaultShape /\ UNCHANGED <<failures, timeouts>> => FaultShape'
  BY DEF FaultShape
<1> QED
  BY <1>1, <1>2, <1>3, <1>4, <1>5, <1>6, <1>7, <1>8

\* The initial state.
LEMMA ShapeInit == Init => Shape
<1> SUFFICES ASSUME Init PROVE Shape
  OBVIOUS
<1> USE Constants
<1>1. PubShape
  <2>1. /\ pubPc = "match" /\ size = 1 /\ demand = 1 /\ recovery = 1 /\ pubOpen = FALSE
        /\ last = "DEFAULT" /\ ready = 0 /\ samples = 0 /\ results = <<>>
    BY DEF Init
  <2>2. results \in Seq(Entry)
    BY <2>1
  <2>3. 1 \in 1..Sizes /\ 1 \in 1..Recoveries /\ 1 \in 1..Len(Demands[1])
    BY DemandTypes
  <2>4. Looping
    BY <2>1, <2>3 DEF Looping
  <2>5. size \in 1..(Sizes + 1) /\ ready \in 0..N /\ size <= Sizes
    BY <2>1
  <2> QED
    BY <2>1, <2>2, <2>4, <2>5 DEF PubShape, PubPlaces, Commands
<1>2. SubShape
  BY DEF Init, SubShape, SubPlaces
<1>3. ListenerShape
  BY DEF Init, ListenerShape, Numbers, NoNumbers
<1>4. MatchShape
  BY DEF Init, MatchShape, Matches, Unmatched
<1>5. CommandShape
  <2>1. commandTo = [s \in Subscribers |-> <<>>] /\ inbox = <<>>
    BY DEF Init
  <2>2. <<>> \in Seq(CommandType) /\ <<>> \in Seq(AnswerType)
    OBVIOUS
  <2> QED
    BY <2>1, <2>2 DEF CommandShape
<1>6. DataShape
  <2>1. data = [s \in Subscribers |-> <<>>]
    BY DEF Init
  <2>2. <<>> \in Seq(Nat)
    OBVIOUS
  <2> QED
    BY <2>1, <2>2 DEF DataShape
<1>7. TestShape /\ FaultShape
  <2>1. /\ failures = 0 /\ test = 0 /\ subTest = [s \in Subscribers |-> 0]
        /\ from = {} /\ timeouts = 0 /\ late = FALSE
    BY DEF Init
  <2>2. TestShape
    BY <2>1 DEF TestShape
  <2>3. FaultShape
    BY <2>1 DEF FaultShape
  <2> QED
    BY <2>2, <2>3
<1> QED
  BY <1>1, <1>2, <1>3, <1>4, <1>5, <1>6, <1>7 DEF Shape

\* The kinds that are written.
LEMMA Kinds ==
    {"READY_TO_START", "BEGIN", "TEST_STARTS", "TEST_ENDS", "TYPE_NEW", "TYPE_DISPOSE",
     "TYPE_REMOVED", "ALL_STOPS", "TEST_RESULTS"} \subseteq Commands
BY DEF Commands

\* Where run() goes on after a test keeps the types.
LEMMA AfterTestShape ==
    ASSUME PubShape, NEW failed \in BOOLEAN, AfterTest(failed),
           pubPc \in {"starts", "send", "results"},
           UNCHANGED <<size, pubOpen, last, ready, samples, results>>
    PROVE  PubShape' /\ pubPc' \in {"ready", "dispose"}
<1>1. size \in 1..Sizes /\ demand \in 1..Len(Demands[size]) /\ recovery \in 1..Recoveries
  BY Constants DEF PubShape, Looping
<1>2. Len(Demands[size]) \in Nat \ {0}
  BY <1>1, DemandTypes
<1>3. /\ pubPc' \in {"ready", "dispose"}
      /\ recovery' \in 1..Recoveries /\ demand' \in 1..Len(Demands[size])
      /\ pubPc' = "dispose" => demand' = 1
  BY <1>1, <1>2, Constants DEF AfterTest
<1>4. Looping'
  BY <1>1, <1>2, <1>3 DEF Looping, Outside
<1> QED
  BY <1>1, <1>3, <1>4 DEF PubShape, PubPlaces

\* The steps of the publisher that only go on.
LEMMA ShapePubGoes ==
    ASSUME Shape, PubCommandsDiscovered \/ PubCreate \/ PubDataDiscovered \/ PubRigged \/ PubTypeRemoved
    PROVE  Shape'
<1> USE Constants, ShapeFrames DEF Shape
<1>1. /\ UNCHANGED <<subVars, matchVars, channelVars, historyVars>>
      /\ UNCHANGED <<demand, recovery, last, ready, samples, results>> /\ pubOpen' \in BOOLEAN
      /\ pubPc' \in PubPlaces /\ size' \in 1..(Sizes + 1) /\ pubPc' # "results"
      /\ pubPc' \in Outside => pubPc \in Outside
      /\ size' = size \/ pubPc = "removed"
      /\ pubPc' \notin {"stop", "done"} => size' <= Sizes
  <2>1. CASE PubCommandsDiscovered
    BY <2>1 DEF PubCommandsDiscovered, PubShape, PubPlaces, Outside
  <2>2. CASE PubCreate
    BY <2>2 DEF PubCreate, PubCreatesWriter, PubShape, PubPlaces, Outside
  <2>3. CASE PubDataDiscovered
    BY <2>3 DEF PubDataDiscovered, PubShape, PubPlaces, Outside
  <2>4. CASE PubRigged
    BY <2>4 DEF PubRigged, PubShape, PubPlaces, Outside
  <2>5. CASE PubTypeRemoved
    BY <2>5 DEF PubTypeRemoved, PubShape, PubPlaces, Outside
  <2> QED
    BY <2>1, <2>2, <2>3, <2>4, <2>5
<1>2. Looping'
  <2>1. CASE size' = size
    BY <1>1, <2>1, LoopsKept DEF PubShape
  <2>2. CASE pubPc = "removed"
    <3>1. demand = 1 /\ recovery \in 1..Recoveries
      BY <2>2 DEF PubShape, Looping, Outside
    <3>2. size' <= Sizes => 1 \in 1..Len(Demands[size'])
      BY <1>1, DemandTypes
    <3> QED
      BY <1>1, <3>1, <3>2 DEF Looping
  <2> QED
    BY <1>1, <2>1, <2>2
<1>3. PubShape'
  BY <1>1, <1>2 DEF PubShape
<1> QED
  BY <1>1, <1>3 DEF subVars, channelVars, historyVars

\* The steps of the publisher that write a command.
LEMMA ShapePubWrites ==
    ASSUME Shape, PubTypeNew \/ PubReadyToStart \/ PubTestStarts \/ PubTestEnds \/ PubTypeDispose
                  \/ PubAllStops
    PROVE  Shape'
<1> USE Constants, ShapeFrames DEF Shape
<1>1. /\ UNCHANGED <<size, demand, recovery, results>> /\ pubOpen' \in BOOLEAN
      /\ pubPc' \in PubPlaces /\ last' \in Commands
      /\ ready' \in 0..N /\ samples' \in {samples, 0} /\ (pubPc' = "results" => ready' = 0)
      /\ pubPc' \notin {"stop", "done"} => size' <= Sizes
      /\ pubPc' \in Outside => pubPc \in Outside
  <2>1. CASE PubTypeNew
    BY <2>1 DEF PubTypeNew, PubShape, PubPlaces, Commands, Outside
  <2>2. CASE PubReadyToStart
    BY <2>2 DEF PubReadyToStart, PubShape, PubPlaces, Commands, Outside
  <2>3. CASE PubTestStarts
    BY <2>3 DEF PubTestStarts, PubShape, PubPlaces, Commands, Outside
  <2>4. CASE PubTestEnds
    BY <2>4 DEF PubTestEnds, PubShape, PubPlaces, Commands, Outside
  <2>5. CASE PubTypeDispose
    BY <2>5 DEF PubTypeDispose, PubShape, PubPlaces, Commands, Outside
  <2>6. CASE PubAllStops
    BY <2>6 DEF PubAllStops, PubShape, PubPlaces, Commands, Outside
  <2> QED
    BY <2>1, <2>2, <2>3, <2>4, <2>5, <2>6
<1>2. PubShape'
  <2>1. Looping'
    BY <1>1, LoopsKept DEF PubShape
  <2> QED
    BY <1>1, <2>1 DEF PubShape
<1>3. CommandShape'
  <2>1. CASE PubReadyToStart
    <3>1. /\ commandTo' = [s \in Subscribers |->
                Append(commandTo[s], [kind |-> "READY_TO_START", test |-> test'])]
          /\ inbox' = inbox /\ test' \in Nat
      BY <2>1 DEF PubReadyToStart, TestShape
    <3>2. [kind |-> "READY_TO_START", test |-> test'] \in CommandType
      BY <3>1, MessageTypes, Kinds
    <3>3. ASSUME NEW s \in Subscribers
          PROVE  Append(commandTo[s], [kind |-> "READY_TO_START", test |-> test']) \in Seq(CommandType)
      <4>1. commandTo[s] \in Seq(CommandType)
        BY DEF CommandShape
      <4> QED
        BY <3>2, <4>1, AppendType
    <3> QED
      BY <3>1, <3>3 DEF CommandShape
  <2>2. CASE ~PubReadyToStart
    <3>1. PICK kind \in Commands : Write(kind)
      BY <2>2, Kinds DEF PubTypeNew, PubTestStarts, PubTestEnds, PubTypeDispose, PubAllStops
    <3>2. inbox' = inbox
      BY <2>2 DEF PubTypeNew, PubTestStarts, PubTestEnds, PubTypeDispose, PubAllStops
    <3> QED
      BY <3>1, <3>2, WriteTypes DEF CommandShape
  <2> QED
    BY <2>1, <2>2
<1>4. /\ UNCHANGED <<subVars, matchVars, data, failures, timeouts>>
      /\ test' \in {test, test + 1} /\ UNCHANGED <<subTest, late>> /\ from' \in {from, {}}
  BY DEF PubTypeNew, PubReadyToStart, PubTestStarts, PubTestEnds, PubTypeDispose, PubAllStops, historyVars
<1>5. TestShape'
  BY <1>4 DEF TestShape
<1> QED
  BY <1>2, <1>3, <1>4, <1>5 DEF subVars

\* The loop that waits for the awaited commands, with or without one.
LEMMA ShapePubTakes == ASSUME Shape, PubTakes \/ PubTakesNothing PROVE Shape'
<1> USE ShapeFrames DEF Shape
<1>0. N \in Nat \ {0}
  BY Constants
<1>1. CASE PubTakes
  <2>1. /\ pubPc \in {"rig", "removed"} /\ ready \in 0..N /\ ~(ready >= N)
    BY <1>1 DEF PubTakes, PubShape, AllRigged
  <2>2. /\ ready' \in {ready, ready + 1} /\ last' = Head(inbox).kind
        /\ from' \in {from, from \cup {Head(inbox).from}}
        /\ inbox # <<>> /\ inbox' = Tail(inbox)
    BY <1>1 DEF PubTakes
  <2>3. /\ UNCHANGED <<pubPc, size, demand, recovery, pubOpen, samples, results>>
        /\ UNCHANGED <<subVars, matchVars, commandTo, data, failures, test, subTest, timeouts, late>>
    BY <1>1 DEF PubTakes
  <2>4. last' \in Commands /\ Head(inbox).from \in Subscribers /\ Tail(inbox) \in Seq(AnswerType)
    BY <2>2, TakeTypes
  <2>5. ready' \in 0..N
    BY <1>0, <2>1, <2>2
  <2>6. PubShape'
    BY <2>1, <2>3, <2>4, <2>5, LoopsKept DEF PubShape
  <2>7. CommandShape'
    BY <2>2, <2>3, <2>4 DEF CommandShape
  <2>8. TestShape'
    BY <2>2, <2>3, <2>4 DEF TestShape
  <2> QED
    BY <2>3, <2>6, <2>7, <2>8 DEF subVars
<1>2. CASE PubTakesNothing
  <2>1. /\ pubPc \in {"rig", "removed"} /\ ready \in 0..N /\ ~(ready >= N)
        /\ ready' \in {ready, ready + 1} /\ TimesOut
    BY <1>2 DEF PubTakesNothing, PubShape, AllRigged
  <2>2. /\ UNCHANGED <<pubPc, size, demand, recovery, pubOpen, last, samples, results>>
        /\ UNCHANGED <<subVars, matchVars, channelVars, failures, test, subTest, from, late>>
    BY <1>2 DEF PubTakesNothing
  <2>3. ready' \in 0..N
    BY <1>0, <2>1
  <2>4. PubShape'
    BY <2>1, <2>2, <2>3, LoopsKept DEF PubShape
  <2>5. FaultShape'
    BY <2>1, <2>2, Constants DEF TimesOut, FaultShape
  <2> QED
    BY <2>2, <2>4, <2>5 DEF subVars, channelVars
<1> QED
  BY <1>1, <1>2

\* A burst.
LEMMA ShapePubSends == ASSUME Shape, PubSendsBurst PROVE Shape'
<1> USE ShapeFrames DEF Shape
<1>1. /\ pubPc = "send" /\ samples' = samples + Burst
      /\ data' = [s \in Subscribers |-> data[s] \o [i \in 1..Burst |-> samples + i]]
      /\ UNCHANGED <<pubPc, size, demand, recovery, pubOpen, last, ready, results>>
      /\ UNCHANGED <<subVars, matchVars, commandTo, inbox, historyVars>>
  BY DEF PubSendsBurst
<1>2. Burst \in Nat \ {0} /\ samples \in Nat
  BY <1>1, BurstType DEF PubShape
<1>7. [i \in 1..Burst |-> samples + i] \in Seq(Nat)
  BY <1>2
<1>8. ASSUME NEW s \in Subscribers PROVE data[s] \o [i \in 1..Burst |-> samples + i] \in Seq(Nat)
  <2>1. data[s] \in Seq(Nat)
    BY DEF DataShape
  <2> QED
    BY <1>7, <2>1
<1>9. DataShape'
  BY <1>1, <1>8 DEF DataShape
<1>10. PubShape'
  <2>1. Looping' /\ samples' \in Nat
    BY <1>1, <1>2, LoopsKept DEF PubShape
  <2> QED
    BY <1>1, <2>1 DEF PubShape
<1> QED
  BY <1>1, <1>9, <1>10 DEF subVars, historyVars

\* Adding a report to an entry of the table.
LEMMA AddFields ==
    ASSUME NEW e \in Entry, NEW report, samples \in Nat, report.received \in Nat
    PROVE  /\ Add(e, report) \in Entry
           /\ Add(e, report).test = e.test /\ Add(e, report).send = e.send + samples
           /\ Add(e, report).recv = e.recv + report.received
           /\ Add(e, report).lost = e.lost + (samples - report.received)
<1>1. e.test \in Nat /\ e.send \in Nat /\ e.recv \in Nat /\ e.lost \in Int
  BY DEF Entry
<1> DEFINE x == e.send + samples
           y == e.recv + report.received
           z == e.lost + (samples - report.received)
           f == [e EXCEPT !.send = x, !.recv = y, !.lost = z]
<1>2. x \in Nat /\ y \in Nat /\ z \in Int
  BY <1>1
<1> HIDE DEF x, y, z
<1>3. f.test = e.test
  BY DEF Entry
<1>4. f.send = x
  BY DEF Entry
<1>5. f.recv = y
  BY DEF Entry
<1>6. f.lost = z
  BY DEF Entry
<1>7. f \in Entry
  BY <1>2 DEF Entry
<1>8. Add(e, report) = f
  BY DEF Add, x, y, z
<1> HIDE DEF f
<1> QED
  BY <1>3, <1>4, <1>5, <1>6, <1>7, <1>8 DEF x, y, z

\* Reading the results, and the ends of a test.
LEMMA ShapePubResults == ASSUME Shape, PubTakesResults PROVE Shape'
<1> USE ShapeFrames DEF Shape
<1>0. N \in Nat \ {0}
  BY Constants
<1> DEFINE report == Head(inbox).numbers
<1>1. /\ pubPc = "results" /\ ready < N /\ inbox # <<>>
      /\ results' = IF ready = 0 THEN Append(results, NewEntry(report))
                    ELSE [results EXCEPT ![Len(results)] = Add(results[Len(results)], report)]
      /\ ready' = ready + 1 /\ from' = from \cup {Head(inbox).from} /\ inbox' = Tail(inbox)
  BY DEF PubTakesResults
<1>2. /\ UNCHANGED <<pubPc, size, demand, recovery, pubOpen, last, samples>>
      /\ UNCHANGED <<subVars, matchVars, commandTo, data, failures, test, subTest, timeouts, late>>
  BY DEF PubTakesResults
<1>3. /\ Head(inbox).from \in Subscribers /\ Tail(inbox) \in Seq(AnswerType)
      /\ report.received \in Nat
  BY <1>1, TakeTypes
<1> HIDE DEF report
<1>4. samples \in Nat
  BY DEF PubShape
<1>5. results' \in Seq(Entry) /\ results' # <<>>
  <2>1. results \in Seq(Entry) /\ test \in Nat
    BY DEF PubShape, TestShape
  <2>2. CASE ready = 0
    <3>1. NewEntry(report) \in Entry
      BY <1>3, <1>4, <2>1 DEF NewEntry, Entry
    <3>2. results' = Append(results, NewEntry(report))
      BY <1>1, <2>2
    <3> QED
      BY <2>1, <3>1, <3>2, AppendType, AppendElements
  <2>3. CASE ready # 0
    <3>1. results # <<>>
      BY <1>1, <2>3 DEF PubShape
    <3>2. Len(results) \in Nat \ {0} /\ results[Len(results)] \in Entry
      BY <2>1, <3>1
    <3>3. Add(results[Len(results)], report) \in Entry
      BY <1>3, <1>4, <3>2, AddFields
    <3>4. results' = [results EXCEPT ![Len(results)] = Add(results[Len(results)], report)]
      BY <1>1, <2>3
    <3> HIDE DEF Entry
    <3>5. results \in [1..Len(results) -> Entry]
      BY <2>1
    <3>6. results' \in [1..Len(results) -> Entry]
      BY <3>3, <3>4, <3>5
    <3>7. results' \in Seq(Entry) /\ Len(results') = Len(results)
      BY <3>2, <3>6
    <3> QED
      BY <3>2, <3>7
  <2> QED
    BY <2>2, <2>3
<1>6. PubShape'
  BY <1>0, <1>1, <1>2, <1>5, LoopsKept DEF PubShape
<1>7. CommandShape' /\ TestShape'
  BY <1>1, <1>2, <1>3 DEF CommandShape, TestShape
<1> QED
  BY <1>2, <1>6, <1>7 DEF subVars

\* The ends of a test.
LEMMA ShapePubTestEnds ==
    ASSUME Shape, PubResultsIn \/ PubUnexpectedCommand \/ PubResultsTimeout \/ PubNotAcknowledged
    PROVE  Shape'
<1> USE ShapeFrames DEF Shape
<1>1. /\ UNCHANGED <<size, pubOpen, last, ready, samples, results>>
      /\ pubPc \in {"starts", "send", "results"}
      /\ \E failed \in BOOLEAN : AfterTest(failed)
      /\ UNCHANGED <<subVars, matchVars, data, test, subTest, from, late>>
  BY DEF PubResultsIn, PubUnexpectedCommand, PubResultsTimeout, PubNotAcknowledged, historyVars,
         channelVars
<1>2. PubShape'
  BY <1>1, AfterTestShape
<1>3. CommandShape' /\ FaultShape'
  <2>1. CASE PubResultsIn
    BY <2>1 DEF PubResultsIn, channelVars, historyVars
  <2>2. CASE PubUnexpectedCommand
    <3>1. CommandShape'
      BY <2>2, TakeTypes DEF PubUnexpectedCommand, CommandShape
    <3> QED
      BY <2>2, <3>1 DEF PubUnexpectedCommand, historyVars
  <2>3. CASE PubResultsTimeout
    <3>1. FaultShape'
      BY <2>3, Constants DEF PubResultsTimeout, TimesOut, FaultShape
    <3> QED
      BY <2>3, <3>1 DEF PubResultsTimeout, channelVars
  <2>4. CASE PubNotAcknowledged
    <3>1. FaultShape'
      BY <2>4, Constants DEF PubNotAcknowledged, Fails, FaultShape
    <3>2. PICK kind \in Commands : Write(kind)
      BY <2>4, Kinds DEF PubNotAcknowledged
    <3>3. inbox' = inbox
      BY <2>4 DEF PubNotAcknowledged
    <3> QED
      BY <3>1, <3>2, <3>3, WriteTypes DEF CommandShape
  <2> QED
    BY <2>1, <2>2, <2>3, <2>4
<1> QED
  BY <1>1, <1>2, <1>3 DEF subVars

\* The publisher's writer goes, or a call fails.
LEMMA ShapePubRest == ASSUME Shape, PubDestroy \/ PubFails PROVE Shape'
<1> USE ShapeFrames DEF Shape
<1>1. CASE PubDestroy
  <2>0. 0 \in 0..N
    BY Constants
  <2>1. PubShape'
    BY <1>1, <2>0, LoopsKept DEF PubDestroy, PubRemovesWriter, PubShape, PubPlaces, Outside
  <2>2. MatchShape'
    <3>1. \A m \in Matches : [m EXCEPT !.data = 0] \in Matches /\ [m EXCEPT !.data = 0].data = 0
      BY DEF Matches
    <3>2. /\ pubMatches' = [s \in Subscribers |-> [pubMatches[s] EXCEPT !.data = 0]]
          /\ subMatches' = [s \in Subscribers |-> [subMatches[s] EXCEPT !.data = 0]]
          /\ linked' = [s \in Subscribers |-> FALSE]
      BY <1>1 DEF PubDestroy, PubRemovesWriter
    <3>3. /\ pubMatches \in [Subscribers -> Matches] /\ subMatches \in [Subscribers -> Matches]
      BY DEF MatchShape
    <3>4. /\ pubMatches' \in [Subscribers -> Matches] /\ subMatches' \in [Subscribers -> Matches]
          /\ \A s \in Subscribers : subMatches'[s].data = 0
      BY <3>1, <3>2, <3>3
    <3> QED
      BY <3>2, <3>4 DEF MatchShape
  <2>3. TestShape'
    BY <1>1 DEF PubDestroy, TestShape
  <2> QED
    BY <1>1, <2>1, <2>2, <2>3 DEF PubDestroy, subVars, channelVars
<1>2. CASE PubFails
  <2>1. PubShape'
    BY <1>2, LoopsKept DEF PubFails, PubShape, PubPlaces, Outside
  <2>2. FaultShape'
    BY <1>2, Constants DEF PubFails, Fails, FaultShape
  <2> QED
    BY <1>2, <2>1, <2>2 DEF PubFails, subVars, channelVars
<1> QED
  BY <1>1, <1>2

\* Setting one field of the matches of a subscriber.
LEMMA MatchTypes ==
    /\ \A m \in Matches : /\ [m EXCEPT !.data = 0] \in Matches /\ [m EXCEPT !.data = 1] \in Matches
                          /\ [m EXCEPT !.data = 0].data = 0 /\ [m EXCEPT !.data = 1].data = 1
                          /\ [m EXCEPT !.data = 0].command = m.command
                          /\ [m EXCEPT !.data = 1].command = m.command
    /\ \A m \in Matches : m.command < 2 =>
            /\ [m EXCEPT !.command = m.command + 1] \in Matches
            /\ [m EXCEPT !.command = m.command + 1].data = m.data
    /\ \A m \in Matches : m.command \in 0..2 /\ m.data \in 0..1
<1>1. ASSUME NEW m \in Matches
      PROVE  /\ [m EXCEPT !.data = 0] \in Matches /\ [m EXCEPT !.data = 1] \in Matches
             /\ [m EXCEPT !.data = 0].data = 0 /\ [m EXCEPT !.data = 1].data = 1
             /\ [m EXCEPT !.data = 0].command = m.command
             /\ [m EXCEPT !.data = 1].command = m.command
  BY DEF Matches
<1>2. ASSUME NEW m \in Matches, m.command < 2
      PROVE  /\ [m EXCEPT !.command = m.command + 1] \in Matches
             /\ [m EXCEPT !.command = m.command + 1].data = m.data
  BY <1>2 DEF Matches
<1>3. ASSUME NEW m \in Matches PROVE m.command \in 0..2 /\ m.data \in 0..1
  BY DEF Matches
<1> QED
  BY <1>1, <1>2, <1>3

\* Resetting a listener.
LEMMA ResetShape ==
    ASSUME Shape, NEW s \in Subscribers, ListenerReset(s)
    PROVE  /\ ListenerShape'
           /\ subMatches' \in [Subscribers -> Matches]
           /\ subMatches'[s].data = 0 /\ enabled'[s] /\ lastSeq'[s] = 0 /\ lost'[s] = 0 /\ received'[s] = 0
           /\ \A t \in Subscribers : t # s =>
                /\ subMatches'[t] = subMatches[t] /\ enabled'[t] = enabled[t]
                /\ lastSeq'[t] = lastSeq[t] /\ lost'[t] = lost[t] /\ received'[t] = received[t]
<1>1. ListenerShape /\ MatchShape
  BY DEF Shape
<1>2. ListenerShape'
  BY <1>1 DEF ListenerReset, ListenerShape
<1>3. subMatches' = [subMatches EXCEPT ![s] = [subMatches[s] EXCEPT !.data = 0]]
  BY DEF ListenerReset
<1>4. subMatches \in [Subscribers -> Matches] /\ subMatches[s] \in Matches
  BY <1>1 DEF MatchShape
<1>5. subMatches' \in [Subscribers -> Matches] /\ subMatches'[s].data = 0
  BY <1>3, <1>4, MatchTypes
<1>6. /\ enabled'[s] /\ lastSeq'[s] = 0 /\ lost'[s] = 0 /\ received'[s] = 0
      /\ \A t \in Subscribers : t # s =>
                /\ enabled'[t] = enabled[t]
                /\ lastSeq'[t] = lastSeq[t] /\ lost'[t] = lost[t] /\ received'[t] = received[t]
  BY <1>1 DEF ListenerReset, ListenerShape
<1>7. \A t \in Subscribers : t # s => subMatches'[t] = subMatches[t]
  BY <1>3, <1>4
<1> QED
  BY <1>2, <1>5, <1>6, <1>7

\* The subscribers' threads.
LEMMA ShapeSub == ASSUME Shape, NEW s \in Subscribers, SubThread(s) PROVE Shape'
<1> USE ShapeFrames DEF Shape
<1>1. CASE SubCommandsDiscovered(s) \/ SubDataDiscovered(s)
  <2>1. SubShape'
    BY <1>1 DEF SubCommandsDiscovered, SubDataDiscovered, SubShape, SubPlaces
  <2> QED
    BY <1>1, <2>1 DEF SubCommandsDiscovered, SubDataDiscovered, channelVars, historyVars
<1>2. CASE SubTypeNew(s)
  <2>1. SubShape'
    BY <1>2 DEF SubTypeNew, SubCreatesReader, SubShape, SubPlaces
  <2>2. CommandShape'
    BY <1>2, ReadTypes DEF SubTypeNew, CommandShape
  <2> QED
    BY <1>2, <2>1, <2>2 DEF SubTypeNew, historyVars
<1>3. CASE SubReadyToStart(s)
  <2>1. Reads(s, "READY_TO_START") /\ ListenerReset(s) /\ inbox' = Append(inbox, Answer(s, "BEGIN"))
    BY <1>3 DEF SubReadyToStart
  <2>2. PICK n \in 0..Len(data[s]) :
            /\ data' = [data EXCEPT ![s] = SubSeq(data[s], Len(data[s]) - n + 1, Len(data[s]))]
            /\ late' = (late \/ n > 0)
    BY <1>3 DEF SubReadyToStart
  <2>3. /\ subTest' = [subTest EXCEPT ![s] = Head(commandTo[s]).test]
        /\ UNCHANGED <<pubVars, subPc, subOpen, pubMatches, linked, failures, test, from, timeouts>>
    BY <1>3 DEF SubReadyToStart
  <2>4. CommandShape'
    <3>1. inbox' \in Seq(AnswerType)
      BY <2>1, AnswerTypes, Kinds
    <3>2. commandTo' \in [Subscribers -> Seq(CommandType)]
      BY <2>1, ReadTypes
    <3> QED
      BY <3>1, <3>2 DEF CommandShape
  <2>5. TestShape'
    <3>1. Head(commandTo[s]).test \in Nat
      BY <2>1, ReadTypes
    <3>2. late' \in BOOLEAN
      BY <2>2
    <3> QED
      BY <2>3, <3>1, <3>2 DEF TestShape
  <2>6. DataShape'
    <3>1. data[s] \in Seq(Nat) /\ Len(data[s]) \in Nat
      BY DEF DataShape
    <3>2. Len(data[s]) - n \in 0..Len(data[s])
      BY <3>1
    <3>3. SubSeq(data[s], Len(data[s]) - n + 1, Len(data[s])) \in Seq(Nat)
      BY <3>1, <3>2, RestElements
    <3> QED
      BY <2>2, <3>3 DEF DataShape
  <2>7. ListenerShape'
    BY <2>1, ResetShape
  <2>8. MatchShape'
    BY <2>1, <2>3, ResetShape DEF MatchShape
  <2> QED
    BY <2>3, <2>4, <2>5, <2>6, <2>7, <2>8
<1>4. CASE SubTestStarts(s)
  <2>1. CommandShape'
    BY <1>4, ReadTypes DEF SubTestStarts, CommandShape
  <2> QED
    BY <1>4, <2>1 DEF SubTestStarts, subVars, historyVars
<1>5. CASE SubTestEnds(s)
  <2>1. CommandShape'
    BY <1>5, ReadTypes DEF SubTestEnds, CommandShape
  <2>2. SubShape'
    BY <1>5 DEF SubTestEnds, SubShape, SubPlaces
  <2>3. [last |-> lastSeq[s], lost |-> lost[s], received |-> received[s]] \in Numbers
    BY DEF ListenerShape, Numbers
  <2>4. ListenerShape'
    BY <1>5, <2>3 DEF SubTestEnds, ListenerShape
  <2> QED
    BY <1>5, <2>1, <2>2, <2>4 DEF SubTestEnds, historyVars
<1>6. CASE SubReports(s)
  <2>1. inbox' \in Seq(AnswerType)
    BY <1>6, AnswerTypes, Kinds DEF SubReports
  <2>2. CommandShape'
    BY <1>6, <2>1 DEF SubReports, CommandShape
  <2>3. SubShape'
    BY <1>6 DEF SubReports, SubShape, SubPlaces
  <2> QED
    BY <1>6, <2>2, <2>3 DEF SubReports, historyVars
<1>7. CASE SubTypeDispose(s)
  <2>1. Reads(s, "TYPE_DISPOSE") /\ ListenerReset(s) /\ inbox' = Append(inbox, Answer(s, "TYPE_REMOVED"))
    BY <1>7 DEF SubTypeDispose, SubRemovesReader
  <2>2. /\ subOpen' = [subOpen EXCEPT ![s] = FALSE]
        /\ data' = [data EXCEPT ![s] = <<>>]
        /\ linked' = [linked EXCEPT ![s] = FALSE]
        /\ pubMatches' = [pubMatches EXCEPT ![s] = [pubMatches[s] EXCEPT !.data = 0]]
        /\ UNCHANGED <<pubVars, subPc, historyVars>>
    BY <1>7 DEF SubTypeDispose, SubRemovesReader
  <2>3. CommandShape'
    <3>1. inbox' \in Seq(AnswerType)
      BY <2>1, AnswerTypes, Kinds
    <3>2. commandTo' \in [Subscribers -> Seq(CommandType)]
      BY <2>1, ReadTypes
    <3> QED
      BY <3>1, <3>2 DEF CommandShape
  <2>4. SubShape'
    BY <2>2 DEF SubShape
  <2>5. DataShape'
    <3>1. <<>> \in Seq(Nat)
      OBVIOUS
    <3> QED
      BY <2>2, <3>1 DEF DataShape
  <2>6. MatchShape'
    <3>1. pubMatches' \in [Subscribers -> Matches]
      BY <2>2, MatchTypes DEF MatchShape
    <3>2. linked' \in [Subscribers -> BOOLEAN] /\ \A t \in Subscribers : t # s => linked'[t] = linked[t]
      BY <2>2 DEF MatchShape
    <3> QED
      BY <2>1, <3>1, <3>2, ResetShape DEF MatchShape
  <2>7. ListenerShape'
    BY <2>1, ResetShape
  <2> QED
    BY <2>2, <2>3, <2>4, <2>5, <2>6, <2>7 DEF historyVars
<1>8. CASE SubAllStops(s)
  <2>1. CommandShape'
    BY <1>8, ReadTypes DEF SubAllStops, CommandShape
  <2>2. SubShape'
    BY <1>8 DEF SubAllStops, SubShape, SubPlaces
  <2> QED
    BY <1>8, <2>1, <2>2 DEF SubAllStops, historyVars
<1> QED
  BY <1>1, <1>2, <1>3, <1>4, <1>5, <1>6, <1>7, <1>8 DEF SubThread

\* The commands but the last.
LEMMA FrontElements ==
    ASSUME NEW S, NEW q \in Seq(S), q # <<>>
    PROVE  /\ SubSeq(q, 1, Len(q) - 1) \in Seq(S) /\ Len(q) \in Nat \ {0}
           /\ Len(SubSeq(q, 1, Len(q) - 1)) = Len(q) - 1
           /\ \A i \in 1..(Len(q) - 1) : SubSeq(q, 1, Len(q) - 1)[i] = q[i]
<1>1. Len(q) \in Nat \ {0}
  BY TailElements
<1>2. PICK n \in Nat : n = Len(q) - 1 /\ \A i \in 1..n : i \in 1..Len(q) /\ q[i] \in S
  BY <1>1
<1>3. SubSeq(q, 1, n) = [i \in 1..n |-> q[i]]
  BY <1>1, <1>2
<1>4. [i \in 1..n |-> q[i]] \in Seq(S) /\ Len([i \in 1..n |-> q[i]]) = n
  BY <1>2
<1> QED
  BY <1>1, <1>2, <1>3, <1>4

\* A command lost with the publisher's writer.
LEMMA LostCommand ==
    ASSUME Shape, NEW s \in Subscribers, CommandLost(s)
    PROVE  /\ commandTo' \in [Subscribers -> Seq(CommandType)]
           /\ commandTo[s] \in Seq(CommandType) /\ commandTo[s] # <<>>
           /\ commandTo'[s] = SubSeq(commandTo[s], 1, Len(commandTo[s]) - 1)
           /\ \A t \in Subscribers : t # s => commandTo'[t] = commandTo[t]
           /\ pubPc = "done" /\ UNCHANGED <<pubVars, subVars, matchVars, inbox, data>>
           /\ UNCHANGED <<test, subTest, from, timeouts, late>>
<1>1. commandTo \in [Subscribers -> Seq(CommandType)]
  BY DEF Shape, CommandShape
<1>2. /\ commandTo' = [commandTo EXCEPT ![s] = SubSeq(commandTo[s], 1, Len(commandTo[s]) - 1)]
      /\ commandTo[s] # <<>> /\ pubPc = "done" /\ UNCHANGED <<pubVars, subVars, matchVars, inbox, data>>
      /\ UNCHANGED <<test, subTest, from, timeouts, late>>
  BY DEF CommandLost
<1>3. SubSeq(commandTo[s], 1, Len(commandTo[s]) - 1) \in Seq(CommandType)
  BY <1>1, <1>2, FrontElements
<1> QED
  BY <1>1, <1>2, <1>3

\* A command that is lost, and a wakeup without a cause.
LEMMA ShapeLosses ==
    ASSUME Shape, SpuriousWakeup \/ \E s \in Subscribers : CommandLost(s)
    PROVE  Shape'
<1> USE ShapeFrames DEF Shape
<1>1. CASE SpuriousWakeup
  BY <1>1 DEF SpuriousWakeup, subVars, channelVars, historyVars
<1>2. ASSUME NEW s \in Subscribers, CommandLost(s) PROVE Shape'
  <2>1. CommandShape'
    BY <1>2, LostCommand DEF CommandShape
  <2>2. FaultShape'
    BY <1>2, Constants DEF CommandLost, Fails, FaultShape
  <2> QED
    BY <1>2, <2>1, <2>2, LostCommand DEF subVars
<1> QED
  BY <1>1, <1>2

\* Discovery, a sample that arrives and a subscriber's call that fails.
LEMMA ShapeSubRest ==
    ASSUME Shape, NEW s \in Subscribers, Discovery(s) \/ SubOnData(s) \/ SubFails(s)
    PROVE  Shape'
<1> USE ShapeFrames DEF Shape
<1>1. CASE PubOnCommandMatched(s)
  <2>1. MatchShape'
    BY <1>1, MatchTypes DEF PubOnCommandMatched, MatchShape
  <2> QED
    BY <1>1, <2>1 DEF PubOnCommandMatched, subVars, channelVars, historyVars
<1>2. CASE SubOnCommandMatched(s)
  <2>1. MatchShape'
    BY <1>2, MatchTypes DEF SubOnCommandMatched, MatchShape
  <2> QED
    BY <1>2, <2>1 DEF SubOnCommandMatched, subVars, channelVars, historyVars
<1>3. CASE PubOnDataMatched(s)
  <2>1. MatchShape'
    BY <1>3, MatchTypes DEF PubOnDataMatched, MatchShape
  <2> QED
    BY <1>3, <2>1 DEF PubOnDataMatched, subVars, channelVars, historyVars
<1>4. CASE SubOnDataMatched(s)
  <2>1. MatchShape'
    BY <1>4, MatchTypes DEF SubOnDataMatched, MatchShape
  <2> QED
    BY <1>4, <2>1 DEF SubOnDataMatched, subVars, channelVars, historyVars
<1>5. CASE SubOnData(s)
  <2>1. PICK k \in 1..Len(data[s]) :
            /\ lost' = [lost EXCEPT ![s] = lost[s] + Gap(s, data[s][k])]
            /\ lastSeq' = [lastSeq EXCEPT ![s] = data[s][k]]
            /\ received' = [received EXCEPT ![s] = received[s] + 1]
            /\ data' = [data EXCEPT ![s] = SubSeq(data[s], k + 1, Len(data[s]))]
    BY <1>5 DEF SubOnData
  <2>2. UNCHANGED <<pubVars, subPc, subOpen, enabled, subSaved, matchVars, commandTo, inbox, historyVars>>
    BY <1>5 DEF SubOnData
  <2>3. data[s] \in Seq(Nat) /\ data[s][k] \in Nat /\ SubSeq(data[s], k + 1, Len(data[s])) \in Seq(Nat)
    <3>1. data[s] \in Seq(Nat) /\ Len(data[s]) \in Nat
      BY DEF DataShape
    <3>2. k \in 0..Len(data[s])
      BY <3>1
    <3> QED
      BY <3>1, <3>2, ElementType, RestElements
  <2>4. data[s][k] \in Nat
    BY <2>3
  <2>5. Gap(s, data[s][k]) \in Nat
    BY <2>4 DEF Gap, ListenerShape
  <2>6. ListenerShape'
    BY <2>1, <2>2, <2>4, <2>5 DEF ListenerShape
  <2>7. DataShape'
    BY <2>1, <2>3 DEF DataShape
  <2> QED
    BY <2>2, <2>6, <2>7 DEF historyVars
<1>6. CASE SubFails(s)
  <2>1. PICK kind \in {"TYPE_NEW", "TYPE_DISPOSE"} : Reads(s, kind)
    BY <1>6 DEF SubFails
  <2>2. CommandShape'
    BY <1>6, <2>1, ReadTypes DEF SubFails, CommandShape
  <2>3. SubShape'
    BY <1>6 DEF SubFails, SubShape, SubPlaces
  <2>4. FaultShape'
    BY <1>6, Constants DEF SubFails, Fails, FaultShape
  <2> QED
    BY <1>6, <2>2, <2>3, <2>4 DEF SubFails
<1> QED
  BY <1>1, <1>2, <1>3, <1>4, <1>5, <1>6 DEF Discovery

\* Every step keeps the types.
LEMMA ShapeStep == Shape /\ [Next]_vars => Shape'
<1> SUFFICES ASSUME Shape, [Next]_vars PROVE Shape'
  OBVIOUS
<1>1. CASE UNCHANGED vars
  BY <1>1, ShapeFrames DEF Shape, vars, subVars, channelVars, historyVars
<1>2. CASE PubThread
  BY <1>2, ShapePubGoes, ShapePubWrites, ShapePubTakes, ShapePubResults, ShapePubTestEnds,
     ShapePubRest DEF PubThread
<1>3. CASE PubSendsBurst \/ Timeouts \/ PubFails \/ PubNotAcknowledged
  BY <1>3, ShapePubSends, ShapePubTakes, ShapePubTestEnds, ShapePubRest DEF Timeouts
<1>4. ASSUME NEW s \in Subscribers, SubThread(s) \/ Discovery(s) \/ SubOnData(s) \/ SubFails(s)
      PROVE  Shape'
  BY <1>4, ShapeSub, ShapeSubRest
<1> QED
  BY <1>1, <1>2, <1>3, <1>4, ShapeLosses DEF Next, Progress, Faults

\* The flags that no other part depends on.
LEMMA FlagsStep == Flags /\ [Next]_vars => Flags'
<1> SUFFICES ASSUME Flags, [Next]_vars PROVE Flags'
  OBVIOUS
<1>1. testFailure' \in BOOLEAN
  <2>1. CASE UNCHANGED testFailure
    BY <2>1 DEF Flags
  <2>2. ASSUME NEW failed \in BOOLEAN, AfterTest(failed) PROVE testFailure' \in BOOLEAN
    BY <2>2 DEF AfterTest
  <2>3. CASE PubThread
    BY <2>1, <2>2, <2>3 DEF PubThread, PubCommandsDiscovered, PubTypeNew, PubCreate, PubDataDiscovered,
       PubReadyToStart, PubTakes, PubRigged, PubTestStarts, PubTestEnds, PubTakesResults, PubResultsIn,
       PubUnexpectedCommand, PubTypeDispose, PubDestroy, PubTypeRemoved, PubAllStops
  <2>4. CASE PubSendsBurst \/ Timeouts \/ PubFails \/ PubNotAcknowledged
    BY <2>1, <2>2, <2>4 DEF PubSendsBurst, Timeouts, PubTakesNothing, PubResultsTimeout, PubFails,
       PubNotAcknowledged
  <2>5. ASSUME NEW s \in Subscribers, SubThread(s) PROVE UNCHANGED pubVars
    BY <2>5 DEF SubThread, SubCommandsDiscovered, SubTypeNew, SubDataDiscovered, SubReadyToStart,
       SubTestStarts, SubTestEnds, SubReports, SubTypeDispose, SubAllStops
  <2>6. ASSUME NEW s \in Subscribers, Discovery(s) \/ SubOnData(s) \/ SubFails(s) \/ CommandLost(s)
        PROVE  UNCHANGED pubVars
    BY <2>6 DEF Discovery, PubOnCommandMatched, SubOnCommandMatched, PubOnDataMatched,
       SubOnDataMatched, SubOnData, SubFails, CommandLost
  <2>7. CASE SpuriousWakeup \/ UNCHANGED vars
    BY <2>1, <2>7 DEF SpuriousWakeup, vars, pubVars
  <2>8. UNCHANGED pubVars => UNCHANGED testFailure
    BY DEF pubVars
  <2> QED
    BY <2>1, <2>3, <2>4, <2>5, <2>6, <2>7, <2>8 DEF Next, Progress, Faults
<1>2. pubMissed' \in BOOLEAN /\ subMissed' \in [Subscribers -> BOOLEAN]
  <2>1. CASE UNCHANGED <<pubMissed, subMissed>>
    BY <2>1 DEF Flags
  <2>2. CASE PubThread
    <3>1. CASE PubDestroy
      BY <3>1 DEF PubDestroy, PubRemovesWriter, Flags
    <3>2. CASE ~PubDestroy
      BY <2>1, <2>2, <3>2 DEF PubThread, PubCommandsDiscovered, PubTypeNew, PubCreate, PubDataDiscovered,
         PubReadyToStart, PubTakes, PubRigged, PubTestStarts, PubTestEnds, PubTakesResults, PubResultsIn,
         PubUnexpectedCommand, PubTypeDispose, PubTypeRemoved, PubAllStops, matchVars
    <3> QED
      BY <3>1, <3>2
  <2>3. CASE PubSendsBurst \/ Timeouts \/ PubFails \/ PubNotAcknowledged
    BY <2>1, <2>3 DEF PubSendsBurst, Timeouts, PubTakesNothing, PubResultsTimeout, PubFails,
       PubNotAcknowledged, matchVars
  <2>4. ASSUME NEW s \in Subscribers, SubThread(s)
        PROVE  pubMissed' \in BOOLEAN /\ subMissed' \in [Subscribers -> BOOLEAN]
    <3>1. CASE SubTypeDispose(s)
      BY <3>1 DEF SubTypeDispose, SubRemovesReader, Flags
    <3>2. CASE ~SubTypeDispose(s)
      BY <2>1, <2>4, <3>2 DEF SubThread, SubCommandsDiscovered, SubTypeNew, SubDataDiscovered,
         SubReadyToStart, SubTestStarts, SubTestEnds, SubReports, SubAllStops, matchVars
    <3> QED
      BY <3>1, <3>2
  <2>5. ASSUME NEW s \in Subscribers, Discovery(s)
        PROVE  pubMissed' \in BOOLEAN /\ subMissed' \in [Subscribers -> BOOLEAN]
    BY <2>5 DEF Discovery, PubOnCommandMatched, SubOnCommandMatched, PubOnDataMatched,
       SubOnDataMatched, PubNotified, SubNotified, Flags
  <2>6. ASSUME NEW s \in Subscribers, SubOnData(s) \/ SubFails(s) \/ CommandLost(s)
        PROVE  UNCHANGED <<pubMissed, subMissed>>
    BY <2>6 DEF SubOnData, SubFails, CommandLost, matchVars
  <2>7. CASE SpuriousWakeup
    BY <2>7 DEF SpuriousWakeup, Flags
  <2>8. CASE UNCHANGED vars
    BY <2>1, <2>8 DEF vars, matchVars
  <2> QED
    BY <2>1, <2>2, <2>3, <2>4, <2>5, <2>6, <2>7, <2>8 DEF Next, Progress, Faults
<1> QED
  BY <1>1, <1>2 DEF Flags

\* The types hold, whatever fails or times out.
THEOREM TypeCorrect == Spec => []TypeOK
<1>1. Shape /\ Flags => TypeOK
  <2> SUFFICES ASSUME Shape, Flags PROVE TypeOK
    OBVIOUS
  <2>1. {failures, timeouts} \subseteq 0..MaxFaults
    BY Constants DEF Shape, FaultShape
  <2>2. /\ recovery \in 1..Recoveries /\ demand \in Nat
        /\ pubPc \notin {"stop", "done"} => demand \in 1..Len(Demands[size])
    BY DEF Shape, PubShape, Looping
  <2> QED
    BY <2>1, <2>2 DEF Shape, Flags, TypeOK, PubShape, SubShape, ListenerShape, MatchShape, CommandShape,
       DataShape, TestShape, CommandType, AnswerType, Matches, Entry
<1>2. Init => Flags
  BY DEF Init, Flags
<1> QED
  BY <1>1, <1>2, ShapeInit, ShapeStep, FlagsStep, PTL DEF Spec

-----------------------------------------------------------------------------
(* What is on its way.                                                     *)

\* The members of a set in a channel, when a message is appended or taken.
LEMMA NoneOne ==
    ASSUME NEW T, NEW q \in Seq(T), NEW H
    PROVE  /\ None(<<>>, H)
           /\ ~(None(q, H) /\ One(q, H))
           /\ \A x : x \notin H /\ None(q, H) => None(Append(q, x), H)
           /\ \A x : x \notin H /\ One(q, H) => One(Append(q, x), H)
           /\ \A x : x \in H /\ None(q, H) => One(Append(q, x), H)
           /\ q # <<>> /\ None(q, H) => q[1] \notin H /\ None(Tail(q), H)
           /\ q # <<>> /\ One(q, H) /\ q[1] \in H => None(Tail(q), H)
           /\ q # <<>> /\ One(q, H) /\ q[1] \notin H => One(Tail(q), H)
<1>1. None(<<>>, H)
  BY DEF None
<1>2. ~(None(q, H) /\ One(q, H))
  BY DEF None, One
<1>3. ASSUME NEW x
      PROVE  /\ x \notin H /\ None(q, H) => None(Append(q, x), H)
             /\ x \notin H /\ One(q, H) => One(Append(q, x), H)
             /\ x \in H /\ None(q, H) => One(Append(q, x), H)
  <2> DEFINE r == Append(q, x)
  <2>1. /\ Len(q) \in Nat /\ Len(r) = Len(q) + 1 /\ r[Len(q) + 1] = x
        /\ \A i \in 1..Len(q) : r[i] = q[i]
    BY AppendElements
  <2>2. \A i \in 1..Len(r) : i \in 1..Len(q) \/ i = Len(q) + 1
    BY <2>1
  <2>3. Len(q) + 1 \in 1..Len(r) /\ \A i \in 1..Len(q) : i \in 1..Len(r) /\ i # Len(q) + 1
    BY <2>1
  <2> HIDE DEF r
  <2>4. ASSUME x \notin H, None(q, H) PROVE None(r, H)
    BY <2>1, <2>2, <2>4 DEF None
  <2>5. ASSUME x \notin H, One(q, H) PROVE One(r, H)
    <3>1. PICK i \in 1..Len(q) : q[i] \in H /\ \A j \in 1..Len(q) : q[j] \in H => j = i
      BY <2>5 DEF One
    <3>2. i \in 1..Len(r) /\ r[i] \in H /\ \A j \in 1..Len(r) : r[j] \in H => j = i
      BY <2>1, <2>2, <2>3, <2>5, <3>1
    <3> QED
      BY <3>2 DEF One
  <2>6. ASSUME x \in H, None(q, H) PROVE One(r, H)
    <3>1. \A j \in 1..Len(r) : r[j] \in H => j = Len(q) + 1
      BY <2>1, <2>2, <2>6 DEF None
    <3> QED
      BY <2>1, <2>3, <2>6, <3>1 DEF One
  <2> QED
    BY <2>4, <2>5, <2>6 DEF r
<1>4. ASSUME q # <<>>
      PROVE  /\ None(q, H) => q[1] \notin H /\ None(Tail(q), H)
             /\ One(q, H) /\ q[1] \in H => None(Tail(q), H)
             /\ One(q, H) /\ q[1] \notin H => One(Tail(q), H)
  <2> DEFINE r == Tail(q)
  <2>1. /\ Len(q) \in Nat \ {0} /\ Len(r) = Len(q) - 1 /\ r \in Seq(T)
        /\ \A i \in 1..(Len(q) - 1) : r[i] = q[i + 1]
    BY <1>4, TailElements
  <2>2. /\ 1 \in 1..Len(q)
        /\ \A i \in 1..Len(r) : i + 1 \in 1..Len(q) /\ i + 1 # 1 /\ r[i] = q[i + 1]
    BY <2>1
  <2> HIDE DEF r
  <2>3. ASSUME None(q, H) PROVE q[1] \notin H /\ None(r, H)
    BY <2>2, <2>3 DEF None
  <2>4. ASSUME One(q, H), q[1] \in H PROVE None(r, H)
    <3>1. \A j \in 1..Len(q) : q[j] \in H => j = 1
      BY <2>2, <2>4 DEF One
    <3> QED
      BY <2>2, <3>1 DEF None
  <2>5. ASSUME One(q, H), q[1] \notin H PROVE One(r, H)
    <3>1. PICK i \in 1..Len(q) : q[i] \in H /\ \A j \in 1..Len(q) : q[j] \in H => j = i
      BY <2>5 DEF One
    <3>2. i # 1
      BY <2>5, <3>1
    <3>3. i - 1 \in 1..Len(r) /\ (i - 1) + 1 = i
      BY <2>1, <3>1, <3>2
    <3>4. r[i - 1] \in H
      BY <2>2, <3>1, <3>3
    <3>5. ASSUME NEW j \in 1..Len(r), r[j] \in H PROVE j = i - 1
      <4>1. j + 1 = i
        BY <2>2, <3>1, <3>5
      <4> QED
        BY <4>1, <2>1
    <3> QED
      BY <3>3, <3>4, <3>5 DEF One
  <2> QED
    BY <2>3, <2>4, <2>5 DEF r
<1> QED
  BY <1>1, <1>2, <1>3, <1>4

\* An answer on its way to the publisher: what it means for its subscriber and
\* for the others.
LEMMA Answered ==
    ASSUME Shape, NEW s \in Subscribers, NEW kind \in Commands,
           inbox' = Append(inbox, Answer(s, kind))
    PROVE  /\ \A t \in Subscribers : t # s =>
                /\ Silent(t) => Silent(t)'
                /\ \A k : Said(t, k) => Said(t, k)'
           /\ \A t \in Subscribers : t # s \/ kind # "BEGIN" =>
                (NoBegin(t) => NoBegin(t)') /\ (OneBegin(t) => OneBegin(t)')
           /\ Silent(s) => Said(s, kind)'
           /\ kind = "BEGIN" /\ NoBegin(s) => OneBegin(s)'
<1> DEFINE m == Answer(s, kind)
<1>1. inbox \in Seq(AnswerType) /\ m \in AnswerType /\ m.from = s /\ m.kind = kind
  BY MessageTypes DEF Shape, CommandShape, Answer
<1>2. m \in Answers(s) /\ m \in Kind(s, kind) /\ \A t \in Subscribers : t # s => m \notin Answers(t)
  BY <1>1 DEF Answers, Kind
<1>3. \A t, k : t # s \/ k # kind => m \notin Kind(t, k)
  BY <1>1 DEF Kind
<1>4. inbox' = Append(inbox, m)
  OBVIOUS
<1> HIDE DEF m
<1>5. ASSUME NEW H
      PROVE  /\ m \notin H /\ None(inbox, H) => None(inbox', H)
             /\ m \notin H /\ One(inbox, H) => One(inbox', H)
             /\ m \in H /\ None(inbox, H) => One(inbox', H)
  BY <1>1, <1>4, NoneOne
<1>6. None(inbox, Answers(s)) => None(inbox, Kind(s, kind))
  BY DEF None, Answers, Kind
<1>7. ASSUME NEW t \in Subscribers, t # s
      PROVE  (Silent(t) => Silent(t)') /\ \A k : Said(t, k) => Said(t, k)'
  <2>1. Silent(t) => Silent(t)'
    BY <1>2, <1>5, <1>7 DEF Silent, Answers
  <2>2. ASSUME NEW k, Said(t, k) PROVE Said(t, k)'
    BY <1>2, <1>3, <1>5, <1>7, <2>2 DEF Said, Answers, Kind
  <2> QED
    BY <2>1, <2>2
<1>8. ASSUME NEW t \in Subscribers, t # s \/ kind # "BEGIN"
      PROVE  (NoBegin(t) => NoBegin(t)') /\ (OneBegin(t) => OneBegin(t)')
  BY <1>3, <1>5, <1>8 DEF NoBegin, OneBegin
<1>9. Silent(s) => Said(s, kind)'
  BY <1>2, <1>5, <1>6 DEF Silent, Said
<1>10. kind = "BEGIN" /\ NoBegin(s) => OneBegin(s)'
  BY <1>2, <1>5 DEF NoBegin, OneBegin
<1> QED
  BY <1>7, <1>8, <1>9, <1>10

\* The first answer is taken.
LEMMA Taken ==
    ASSUME Shape, inbox # <<>>, inbox' = Tail(inbox),
           NEW s, s = Head(inbox).from, NEW kind, kind = Head(inbox).kind
    PROVE  /\ s \in Subscribers /\ kind \in Commands
           /\ \A t \in Subscribers : t # s =>
                /\ Silent(t) => Silent(t)'
                /\ \A k : Said(t, k) => Said(t, k)'
           /\ \A t \in Subscribers : NoBegin(t) => NoBegin(t)'
           /\ \A t \in Subscribers : t # s \/ kind # "BEGIN" => (OneBegin(t) => OneBegin(t)')
           /\ ~Silent(s)
           /\ \A k : Said(s, k) => kind = k /\ Silent(s)'
           /\ kind = "BEGIN" => ~NoBegin(s) /\ (OneBegin(s) => NoBegin(s)')
<1> DEFINE m == inbox[1]
<1>1. /\ inbox \in Seq(AnswerType) /\ m \in AnswerType /\ m.from = s /\ m.kind = kind
      /\ s \in Subscribers /\ kind \in Commands
  BY TakeTypes DEF Shape, CommandShape
<1>2. /\ m \in Answers(s) /\ m \in Kind(s, kind)
      /\ \A t \in Subscribers : t # s => m \notin Answers(t)
  BY <1>1 DEF Answers, Kind
<1>3. \A t, k : t # s \/ k # kind => m \notin Kind(t, k)
  BY <1>1 DEF Kind
<1>4. ASSUME NEW H
      PROVE  /\ None(inbox, H) => m \notin H /\ None(inbox', H)
             /\ One(inbox, H) /\ m \in H => None(inbox', H)
             /\ One(inbox, H) /\ m \notin H => One(inbox', H)
  BY <1>1, NoneOne
<1>5. \A k : One(inbox, Answers(s)) /\ One(inbox, Kind(s, k)) => m \in Kind(s, k)
  <2> SUFFICES ASSUME NEW k, One(inbox, Answers(s)), One(inbox, Kind(s, k)) PROVE m \in Kind(s, k)
    OBVIOUS
  <2>1. PICK i \in 1..Len(inbox) : inbox[i] \in Kind(s, k)
    BY DEF One
  <2>2. inbox[i] \in Answers(s)
    BY <2>1 DEF Kind, Answers
  <2>3. 1 \in 1..Len(inbox)
    BY TakeTypes
  <2>4. i = 1
    BY <1>2, <2>2, <2>3 DEF One
  <2> QED
    BY <2>1, <2>4
<1> HIDE DEF m
<1>6. ASSUME NEW t \in Subscribers, t # s
      PROVE  (Silent(t) => Silent(t)') /\ \A k : Said(t, k) => Said(t, k)'
  <2>1. Silent(t) => Silent(t)'
    BY <1>4 DEF Silent, Answers
  <2>2. ASSUME NEW k, Said(t, k) PROVE Said(t, k)'
    BY <1>2, <1>3, <1>4, <1>6, <2>2 DEF Said, Answers, Kind
  <2> QED
    BY <2>1, <2>2
<1>7. \A t \in Subscribers : NoBegin(t) => NoBegin(t)'
  BY <1>4 DEF NoBegin
<1>8. \A t \in Subscribers : t # s \/ kind # "BEGIN" => (OneBegin(t) => OneBegin(t)')
  BY <1>3, <1>4 DEF OneBegin
<1>9. ~Silent(s)
  BY <1>2, <1>4 DEF Silent
<1>10. \A k : Said(s, k) => kind = k /\ Silent(s)'
  BY <1>2, <1>3, <1>4, <1>5 DEF Said, Silent
<1>11. kind = "BEGIN" => ~NoBegin(s) /\ (OneBegin(s) => NoBegin(s)')
  BY <1>2, <1>4 DEF NoBegin, OneBegin
<1> QED
  BY <1>1, <1>6, <1>7, <1>8, <1>9, <1>10, <1>11

\* A command other than READY_TO_START is written.
LEMMA Written ==
    ASSUME Shape, NEW kind \in Commands, Write(kind), test' = test, NEW s \in Subscribers
    PROVE  /\ kind # "READY_TO_START" => (NoReady(s) => NoReady(s)') /\ (OneReady(s) => OneReady(s)')
           /\ Has0(s) => Has1(s, kind)'
           /\ \A k : Has1(s, k) => Has2(s, k, kind)'
<1> DEFINE m == Command(kind)
<1>1. /\ commandTo[s] \in Seq(CommandType) /\ m \in CommandType /\ m.kind = kind
      /\ commandTo'[s] = Append(commandTo[s], m)
  BY WriteTypes DEF Shape, CommandShape
<1> HIDE DEF m
<1>2. /\ Len(commandTo[s]) \in Nat /\ Len(commandTo'[s]) = Len(commandTo[s]) + 1
      /\ commandTo'[s][Len(commandTo[s]) + 1] = m
      /\ \A i \in 1..Len(commandTo[s]) : commandTo'[s][i] = commandTo[s][i]
  BY <1>1, AppendElements
<1>3. ASSUME kind # "READY_TO_START"
      PROVE  (NoReady(s) => NoReady(s)') /\ (OneReady(s) => OneReady(s)')
  <2>1. m \notin Readies
    BY <1>1, <1>3 DEF Readies
  <2>2. /\ None(commandTo[s], Readies) => None(commandTo'[s], Readies)
        /\ One(commandTo[s], Readies) => One(commandTo'[s], Readies)
    BY <1>1, <2>1, NoneOne
  <2>3. (\A i \in 1..Len(commandTo[s]) : commandTo[s][i] \in Readies => commandTo[s][i].test = test)
        => (\A i \in 1..Len(commandTo'[s]) : commandTo'[s][i] \in Readies => commandTo'[s][i].test = test')
    <3>1. \A i \in 1..Len(commandTo'[s]) : i \in 1..Len(commandTo[s]) \/ i = Len(commandTo[s]) + 1
      BY <1>2
    <3> QED
      BY <1>2, <2>1, <3>1
  <2> QED
    BY <2>2, <2>3 DEF NoReady, OneReady
<1>4. Has0(s) => Has1(s, kind)'
  BY <1>1, <1>2 DEF Has0, Has1
<1>5. \A k : Has1(s, k) => Has2(s, k, kind)'
  BY <1>1, <1>2 DEF Has1, Has2
<1> QED
  BY <1>3, <1>4, <1>5

\* READY_TO_START is written.
LEMMA WrittenReady ==
    ASSUME Shape, PubReadyToStart, NEW s \in Subscribers
    PROVE  /\ NoReady(s) => OneReady(s)'
           /\ Has0(s) => Has1(s, "READY_TO_START")'
<1> DEFINE m == [kind |-> "READY_TO_START", test |-> test']
<1>1. test' \in Nat
  BY DEF PubReadyToStart, Shape, TestShape
<1>2. /\ commandTo[s] \in Seq(CommandType) /\ m \in CommandType /\ m.kind = "READY_TO_START"
      /\ m.test = test' /\ commandTo'[s] = Append(commandTo[s], m)
  BY <1>1, MessageTypes, Kinds DEF PubReadyToStart, Shape, CommandShape
<1> HIDE DEF m
<1>3. /\ Len(commandTo[s]) \in Nat /\ Len(commandTo'[s]) = Len(commandTo[s]) + 1
      /\ commandTo'[s][Len(commandTo[s]) + 1] = m
      /\ \A i \in 1..Len(commandTo[s]) : commandTo'[s][i] = commandTo[s][i]
  BY <1>2, AppendElements
<1>4. ASSUME NoReady(s) PROVE OneReady(s)'
  <2>1. m \in Readies
    BY <1>2 DEF Readies
  <2>2. None(commandTo[s], Readies)
    BY <1>4 DEF NoReady
  <2>3. One(commandTo'[s], Readies)
    BY <1>2, <2>1, <2>2, NoneOne
  <2>4. \A i \in 1..Len(commandTo'[s]) : i \in 1..Len(commandTo[s]) \/ i = Len(commandTo[s]) + 1
    BY <1>3
  <2>5. \A i \in 1..Len(commandTo'[s]) : commandTo'[s][i] \in Readies => commandTo'[s][i].test = test'
    BY <1>2, <1>3, <2>2, <2>4 DEF None
  <2> QED
    BY <2>3, <2>5 DEF OneReady
<1>5. Has0(s) => Has1(s, "READY_TO_START")'
  BY <1>2, <1>3 DEF Has0, Has1
<1> QED
  BY <1>4, <1>5

\* A subscriber reads a command.
LEMMA ReadOne ==
    ASSUME Shape, NEW s \in Subscribers, NEW kind, Reads(s, kind), test' = test
    PROVE  /\ kind # "READY_TO_START" => (NoReady(s) => NoReady(s)') /\ (OneReady(s) => OneReady(s)')
           /\ kind = "READY_TO_START" =>
                /\ ~NoReady(s)
                /\ OneReady(s) => NoReady(s)' /\ Head(commandTo[s]).test = test
           /\ ~Has0(s)
           /\ \A k : Has1(s, k) => k = kind /\ Has0(s)'
           /\ \A k1, k2 : Has2(s, k1, k2) => k1 = kind /\ Has1(s, k2)'
           /\ \A t \in Subscribers : t # s => commandTo'[t] = commandTo[t]
<1> DEFINE m == commandTo[s][1]
<1>1. /\ commandTo[s] \in Seq(CommandType) /\ m \in CommandType /\ m.kind = kind
      /\ commandTo'[s] = Tail(commandTo[s]) /\ Head(commandTo[s]) = m /\ commandTo[s] # <<>>
      /\ \A t \in Subscribers : t # s => commandTo'[t] = commandTo[t]
  BY ReadTypes DEF Shape, CommandShape, Reads
<1>2. /\ Len(commandTo[s]) \in Nat \ {0} /\ Len(commandTo'[s]) = Len(commandTo[s]) - 1
      /\ \A i \in 1..(Len(commandTo[s]) - 1) : commandTo'[s][i] = commandTo[s][i + 1]
      /\ commandTo'[s] \in Seq(CommandType)
  BY <1>1, TailElements
<1>3. /\ None(commandTo[s], Readies) => m \notin Readies /\ None(commandTo'[s], Readies)
      /\ One(commandTo[s], Readies) /\ m \in Readies => None(commandTo'[s], Readies)
      /\ One(commandTo[s], Readies) /\ m \notin Readies => One(commandTo'[s], Readies)
  BY <1>1, NoneOne
<1>4. m \in Readies <=> kind = "READY_TO_START"
  BY <1>1 DEF Readies
<1>5. \A i \in 1..Len(commandTo'[s]) : i + 1 \in 1..Len(commandTo[s]) /\ commandTo'[s][i] = commandTo[s][i + 1]
  BY <1>2
<1>6. 1 \in 1..Len(commandTo[s])
  BY <1>2
<1>7. ASSUME kind # "READY_TO_START"
      PROVE  (NoReady(s) => NoReady(s)') /\ (OneReady(s) => OneReady(s)')
  BY <1>3, <1>4, <1>5, <1>7 DEF NoReady, OneReady
<1>8. ASSUME kind = "READY_TO_START"
      PROVE  ~NoReady(s) /\ (OneReady(s) => NoReady(s)' /\ Head(commandTo[s]).test = test)
  BY <1>1, <1>3, <1>4, <1>6, <1>8 DEF NoReady, OneReady
<1>9. ~Has0(s)
  BY <1>1 DEF Has0
<1>10. \A k : Has1(s, k) => k = kind /\ Has0(s)'
  <2>1. Len(commandTo'[s]) = 0 => commandTo'[s] = <<>>
    BY <1>2
  <2> QED
    BY <1>1, <1>2, <2>1 DEF Has0, Has1
<1>11. \A k1, k2 : Has2(s, k1, k2) => k1 = kind /\ Has1(s, k2)'
  BY <1>1, <1>2 DEF Has1, Has2
<1> QED
  BY <1>1, <1>7, <1>8, <1>9, <1>10, <1>11

-----------------------------------------------------------------------------
(* READY_TO_START and BEGIN.                                               *)

\* Counting subscribers.
LEMMA FromCount ==
    ASSUME NEW F, F \subseteq Subscribers
    PROVE  /\ Cardinality(F) \in Nat /\ Cardinality(F) <= N
           /\ Cardinality(F) >= N => F = Subscribers
           /\ \A s \in Subscribers : s \notin F => Cardinality(F \cup {s}) = Cardinality(F) + 1
           /\ Cardinality({}) = 0
<1>1. IsFiniteSet(Subscribers) /\ N = Cardinality(Subscribers) /\ N \in Nat
  BY Constants DEF N
<1>2. IsFiniteSet(F) /\ Cardinality(F) <= N /\ (Cardinality(F) = N => F = Subscribers)
  BY <1>1, FS_Subset
<1>3. Cardinality(F) \in Nat
  BY <1>2, FS_CardinalityType
<1>4. ASSUME NEW s, s \notin F PROVE Cardinality(F \cup {s}) = Cardinality(F) + 1
  BY <1>2, <1>4, FS_AddElement
<1> QED
  BY <1>1, <1>2, <1>3, <1>4, FS_EmptySet

\* A step that leaves the publisher alone and moves a subscriber's commands and
\* answers by others than READY_TO_START and BEGIN.
LEMMA RiggingFrame ==
    ASSUME NEW t \in Subscribers, Rigging(t), UNCHANGED <<pubPc, test, from>>,
           subTest'[t] = subTest[t],
           NoReady(t) => NoReady(t)', OneReady(t) => OneReady(t)',
           NoBegin(t) => NoBegin(t)', OneBegin(t) => OneBegin(t)'
    PROVE  Rigging(t)'
BY DEF Rigging

\* A step of the publisher outside the loop that waits for BEGIN.
LEMMA RiggingElsewhere ==
    ASSUME NEW t \in Subscribers, Rigging(t), UNCHANGED <<test, subTest>>,
           pubPc # "rig", pubPc' # "rig",
           pubPc' \in {"starts", "send"} => pubPc \in {"starts", "send"},
           NoReady(t) => NoReady(t)', NoBegin(t) => NoBegin(t)'
    PROVE  Rigging(t)'
BY DEF Rigging

\* Steps of the publisher that leave the channels of commands alone.
LEMMA RigsPubGoes ==
    ASSUME Shape, Rigs,
           \/ PubCommandsDiscovered \/ PubCreate \/ PubDataDiscovered \/ PubTypeRemoved
           \/ PubSendsBurst \/ PubResultsIn \/ PubDestroy \/ PubFails
    PROVE  Rigs'
<1>1. /\ pubPc # "rig" /\ pubPc' # "rig" /\ (pubPc' \in {"starts", "send"} => pubPc \in {"starts", "send"})
      /\ UNCHANGED <<test, subTest, commandTo, inbox>>
  <2>1. CASE PubCommandsDiscovered \/ PubCreate \/ PubDataDiscovered \/ PubTypeRemoved
    BY <2>1 DEF PubCommandsDiscovered, PubCreate, PubDataDiscovered, PubTypeRemoved, historyVars,
       channelVars
  <2>2. CASE PubSendsBurst \/ PubDestroy \/ PubFails
    BY <2>2 DEF PubSendsBurst, PubDestroy, PubFails, historyVars, channelVars
  <2>3. CASE PubResultsIn
    BY <2>3, AfterTestShape DEF PubResultsIn, historyVars, channelVars, Shape
  <2> QED
    BY <2>1, <2>2, <2>3
<1>2. ASSUME NEW t \in Subscribers PROVE (NoReady(t) => NoReady(t)') /\ (NoBegin(t) => NoBegin(t)')
  BY <1>1 DEF NoReady, NoBegin, Kind, Readies
<1> QED
  BY <1>1, <1>2, RiggingElsewhere DEF Rigs

\* Steps of the publisher that write another command, or take one elsewhere.
LEMMA RigsPubWrites ==
    ASSUME Shape, Rigs,
           \/ PubTypeNew \/ PubTestStarts \/ PubTestEnds \/ PubTypeDispose \/ PubAllStops
           \/ PubNotAcknowledged \/ PubTakesResults \/ PubUnexpectedCommand \/ (PubTakes /\ pubPc # "rig")
    PROVE  Rigs'
<1>1. CASE PubTypeNew \/ PubTestStarts \/ PubTestEnds \/ PubTypeDispose \/ PubAllStops \/ PubNotAcknowledged
  <2>1. PICK kind \in Commands : Write(kind) /\ kind # "READY_TO_START"
    BY <1>1, Kinds DEF PubTypeNew, PubTestStarts, PubTestEnds, PubTypeDispose, PubAllStops, PubNotAcknowledged
  <2>2. /\ pubPc # "rig" /\ pubPc' # "rig" /\ (pubPc' \in {"starts", "send"} => pubPc \in {"starts", "send"})
        /\ UNCHANGED <<test, subTest, inbox>>
    <3>1. CASE PubTypeNew \/ PubTestStarts \/ PubTestEnds \/ PubTypeDispose \/ PubAllStops
      BY <3>1 DEF PubTypeNew, PubTestStarts, PubTestEnds, PubTypeDispose, PubAllStops, historyVars
    <3>2. CASE PubNotAcknowledged
      BY <3>2, AfterTestShape DEF PubNotAcknowledged, Shape
    <3> QED
      BY <1>1, <3>1, <3>2
  <2>3. ASSUME NEW t \in Subscribers PROVE (NoReady(t) => NoReady(t)') /\ (NoBegin(t) => NoBegin(t)')
    <3>1. NoReady(t) => NoReady(t)'
      BY <2>1, <2>2, Written
    <3>2. NoBegin(t) => NoBegin(t)'
      BY <2>2 DEF NoBegin, Kind
    <3> QED
      BY <3>1, <3>2
  <2> QED
    BY <2>2, <2>3, RiggingElsewhere DEF Rigs
<1>2. CASE PubTakesResults \/ PubUnexpectedCommand \/ (PubTakes /\ pubPc # "rig")
  <2>1. /\ pubPc # "rig" /\ pubPc' # "rig" /\ (pubPc' \in {"starts", "send"} => pubPc \in {"starts", "send"})
        /\ UNCHANGED <<test, subTest, commandTo>> /\ inbox # <<>> /\ inbox' = Tail(inbox)
    <3>1. CASE PubTakesResults
      BY <3>1 DEF PubTakesResults
    <3>2. CASE PubUnexpectedCommand
      BY <3>2, AfterTestShape DEF PubUnexpectedCommand, historyVars, Shape
    <3>3. CASE (PubTakes /\ pubPc # "rig")
      BY <3>3 DEF PubTakes
    <3> QED
      BY <1>2, <3>1, <3>2, <3>3
  <2>2. ASSUME NEW t \in Subscribers PROVE (NoReady(t) => NoReady(t)') /\ (NoBegin(t) => NoBegin(t)')
    <3>1. NoReady(t) => NoReady(t)'
      BY <2>1 DEF NoReady, Readies
    <3>2. NoBegin(t) => NoBegin(t)'
      BY <2>1, Taken
    <3> QED
      BY <3>1, <3>2
  <2> QED
    BY <2>1, <2>2, RiggingElsewhere DEF Rigs
<1> QED
  BY <1>1, <1>2

\* The loop that waits for BEGIN.
LEMMA RigsPubRigs ==
    ASSUME Shape, Rigs, PubReadyToStart \/ (PubTakes /\ pubPc = "rig") \/ PubRigged
    PROVE  Rigs'
<1>0. from \subseteq Subscribers /\ ready \in 0..N /\ N \in Nat /\ test \in Nat /\ subTest \in [Subscribers -> Nat]
  BY Constants DEF Shape, TestShape, PubShape
<1>1. CASE PubReadyToStart
  <2>1. /\ pubPc = "ready" /\ pubPc' = "rig" /\ test' = test + 1 /\ from' = {} /\ ready' = 0
        /\ UNCHANGED <<subTest, inbox>>
    BY <1>1 DEF PubReadyToStart
  <2>2. ASSUME NEW t \in Subscribers PROVE Rigging(t)'
    <3>1. NoReady(t) /\ NoBegin(t) /\ subTest[t] <= test
      BY <2>1 DEF Rigs, Rigging
    <3>2. OneReady(t)'
      BY <1>1, <3>1, WrittenReady
    <3>3. NoBegin(t)'
      BY <2>1, <3>1 DEF NoBegin, Kind
    <3>4. subTest'[t] # test' /\ subTest'[t] <= test'
      BY <1>0, <2>1, <3>1
    <3> QED
      BY <2>1, <3>2, <3>3, <3>4 DEF Rigging
  <2> QED
    BY <2>1, <2>2, FromCount DEF Rigs
<1>2. CASE (PubTakes /\ pubPc = "rig")
  <2> DEFINE s == Head(inbox).from kind == Head(inbox).kind
  <2>1. /\ pubPc = "rig" /\ inbox # <<>> /\ inbox' = Tail(inbox)
        /\ UNCHANGED <<pubPc, commandTo, test, subTest>>
        /\ ready' = (IF kind = "BEGIN" THEN ready + 1 ELSE ready)
        /\ from' = (IF kind = "BEGIN" THEN from \cup {s} ELSE from)
    BY <1>2 DEF PubTakes, Awaited
  <2>2. PICK u, k : u = s /\ k = kind
    OBVIOUS
  <2> HIDE DEF s, kind
  <2>3. /\ u \in Subscribers
        /\ \A t \in Subscribers : NoBegin(t) => NoBegin(t)'
        /\ \A t \in Subscribers : t # u \/ k # "BEGIN" => (OneBegin(t) => OneBegin(t)')
        /\ k = "BEGIN" => ~NoBegin(u) /\ (OneBegin(u) => NoBegin(u)')
    BY <2>1, <2>2, Taken DEF s, kind
  <2>4. \A t \in Subscribers : (NoReady(t) => NoReady(t)') /\ (OneReady(t) => OneReady(t)')
    BY <2>1 DEF NoReady, OneReady, Readies
  <2>5. CASE k # "BEGIN"
    <3>1. UNCHANGED <<pubPc, test, from, ready, subTest>>
      BY <2>1, <2>2, <2>5
    <3> QED
      BY <2>3, <2>4, <2>5, <3>1, RiggingFrame DEF Rigs
  <2>6. CASE k = "BEGIN"
    <3>1. from' = from \cup {u} /\ ready' = ready + 1
      BY <2>1, <2>2, <2>6
    <3>2. ASSUME NEW t \in Subscribers, t # u PROVE Rigging(t)'
      <4>1. t \in from' <=> t \in from
        BY <3>1, <3>2
      <4> QED
        BY <2>1, <2>3, <2>4, <3>2, <4>1 DEF Rigs, Rigging
    <3>3. NoReady(u) /\ OneBegin(u) /\ u \notin from /\ subTest[u] = test
      BY <2>1, <2>3, <2>6 DEF Rigs, Rigging
    <3>4. Rigging(u)'
      <4>1. NoReady(u)' /\ NoBegin(u)' /\ u \in from' /\ subTest'[u] = test' /\ subTest'[u] <= test'
        BY <1>0, <2>1, <2>3, <2>4, <2>6, <3>1, <3>3
      <4> QED
        BY <2>1, <4>1 DEF Rigging
    <3>5. Cardinality(from') = Cardinality(from) + 1
      BY <1>0, <2>3, <3>1, <3>3, FromCount
    <3>6. ready' = Cardinality(from')
      BY <2>1, <3>1, <3>5 DEF Rigs
    <3> QED
      BY <3>2, <3>4, <3>6 DEF Rigs
  <2> QED
    BY <2>5, <2>6
<1>3. CASE PubRigged
  <2>1. pubPc = "rig" /\ pubPc' = "starts" /\ ready >= N /\ UNCHANGED <<commandTo, inbox, test, subTest, from>>
    BY <1>3 DEF PubRigged, AllRigged, channelVars, historyVars
  <2>2. from = Subscribers
    BY <1>0, <2>1, FromCount DEF Rigs
  <2>3. ASSUME NEW t \in Subscribers PROVE Rigging(t)'
    <3>1. NoReady(t) /\ NoBegin(t) /\ subTest[t] = test /\ subTest[t] <= test
      BY <2>1, <2>2 DEF Rigs, Rigging
    <3>2. NoReady(t)' /\ NoBegin(t)'
      BY <2>1, <3>1 DEF NoReady, NoBegin, Readies, Kind
    <3> QED
      BY <2>1, <3>1, <3>2 DEF Rigging
  <2> QED
    BY <2>1, <2>3 DEF Rigs
<1> QED
  BY <1>1, <1>2, <1>3

\* Steps that leave the publisher and the channels of commands alone.
LEMMA RigsUntouched ==
    ASSUME Rigs, UNCHANGED <<pubVars, commandTo, inbox, test, subTest, from>>
    PROVE  Rigs'
<1>1. UNCHANGED <<pubPc, ready, test, from, subTest, commandTo, inbox>>
  BY DEF pubVars
<1>2. ASSUME NEW t \in Subscribers
      PROVE  /\ NoReady(t) => NoReady(t)'
             /\ OneReady(t) => OneReady(t)'
             /\ NoBegin(t) => NoBegin(t)'
             /\ OneBegin(t) => OneBegin(t)'
  BY <1>1 DEF NoReady, OneReady, NoBegin, OneBegin, Readies, Kind
<1> QED
  BY <1>1, <1>2, RiggingFrame DEF Rigs

\* Steps of the subscribers.
LEMMA RigsSub ==
    ASSUME Shape, Rigs, NEW s \in Subscribers,
           SubThread(s) \/ Discovery(s) \/ SubOnData(s) \/ SubFails(s)
    PROVE  Rigs'
<1>0. test \in Nat /\ subTest \in [Subscribers -> Nat]
  BY DEF Shape, TestShape
<1>1. CASE SubCommandsDiscovered(s) \/ SubDataDiscovered(s) \/ Discovery(s) \/ SubOnData(s)
  <2>1. UNCHANGED <<pubVars, commandTo, inbox, test, subTest, from>>
    BY <1>1 DEF SubCommandsDiscovered, SubDataDiscovered, Discovery, PubOnCommandMatched,
       SubOnCommandMatched, PubOnDataMatched, SubOnDataMatched, SubOnData, channelVars, historyVars
  <2> QED
    BY <2>1, RigsUntouched
<1>2. CASE SubTypeNew(s) \/ SubTestStarts(s) \/ SubTestEnds(s) \/ SubAllStops(s) \/ SubFails(s)
           \/ SubReports(s) \/ SubTypeDispose(s)
  <2>1. UNCHANGED <<pubVars, test, subTest, from>>
    BY <1>2 DEF SubTypeNew, SubTestStarts, SubTestEnds, SubAllStops, SubFails, SubReports,
       SubTypeDispose, historyVars
  <2>2. \A t \in Subscribers : (NoReady(t) => NoReady(t)') /\ (OneReady(t) => OneReady(t)')
    <3>1. CASE SubReports(s)
      BY <2>1, <3>1 DEF SubReports, NoReady, OneReady, Readies
    <3>2. CASE ~SubReports(s)
      <4>1. PICK kind : Reads(s, kind) /\ kind # "READY_TO_START"
        BY <1>2, <3>2 DEF SubTypeNew, SubTestStarts, SubTestEnds, SubAllStops, SubFails, SubTypeDispose
      <4>2. (NoReady(s) => NoReady(s)') /\ (OneReady(s) => OneReady(s)')
        BY <2>1, <4>1, ReadOne
      <4>3. \A t \in Subscribers : t # s => commandTo'[t] = commandTo[t]
        BY <2>1, <4>1, ReadOne
      <4>4. \A t \in Subscribers : t # s => (NoReady(t) => NoReady(t)') /\ (OneReady(t) => OneReady(t)')
        BY <2>1, <4>3 DEF NoReady, OneReady, Readies
      <4> QED
        BY <4>2, <4>4
    <3> QED
      BY <3>1, <3>2
  <2>3. \A t \in Subscribers : (NoBegin(t) => NoBegin(t)') /\ (OneBegin(t) => OneBegin(t)')
    <3>1. CASE SubReports(s) \/ SubTypeDispose(s)
      <4>1. PICK kind \in Commands : kind # "BEGIN" /\ inbox' = Append(inbox, Answer(s, kind))
        BY <3>1, Kinds DEF SubReports, SubTypeDispose
      <4> QED
        BY <4>1, Answered
    <3>2. CASE ~(SubReports(s) \/ SubTypeDispose(s))
      <4>1. inbox' = inbox
        BY <1>2, <3>2 DEF SubTypeNew, SubTestStarts, SubTestEnds, SubAllStops, SubFails
      <4> QED
        BY <4>1 DEF NoBegin, OneBegin, Kind
    <3> QED
      BY <3>1, <3>2
  <2> QED
    BY <2>1, <2>2, <2>3, RiggingFrame DEF Rigs, pubVars
<1>3. CASE SubReadyToStart(s)
  <2>1. /\ UNCHANGED <<pubVars, test, from>> /\ Reads(s, "READY_TO_START")
        /\ inbox' = Append(inbox, Answer(s, "BEGIN"))
        /\ subTest' = [subTest EXCEPT ![s] = Head(commandTo[s]).test]
    BY <1>3 DEF SubReadyToStart
  <2>2. UNCHANGED <<pubPc, ready>>
    BY <2>1 DEF pubVars
  <2>3. /\ ~NoReady(s) /\ (OneReady(s) => NoReady(s)' /\ Head(commandTo[s]).test = test)
        /\ \A t \in Subscribers : t # s => commandTo'[t] = commandTo[t]
    BY <2>1, ReadOne
  <2>4. pubPc = "rig" /\ OneReady(s) /\ NoBegin(s) /\ s \notin from
    BY <2>3 DEF Rigs, Rigging
  <2>5. \A t \in Subscribers : t # s => (NoBegin(t) => NoBegin(t)') /\ (OneBegin(t) => OneBegin(t)')
    BY <2>1, Answered, Kinds
  <2>6. OneBegin(s)'
    BY <2>1, <2>4, Answered, Kinds
  <2>7. \A t \in Subscribers : t # s => (NoReady(t) => NoReady(t)') /\ (OneReady(t) => OneReady(t)')
    BY <2>1, <2>3 DEF NoReady, OneReady, Readies
  <2>8. subTest'[s] = test' /\ subTest'[s] <= test' /\ \A t \in Subscribers : t # s => subTest'[t] = subTest[t]
    BY <1>0, <2>1, <2>3, <2>4
  <2>9. \A t \in Subscribers : t # s => Rigging(t)'
    BY <2>1, <2>2, <2>5, <2>7, <2>8, RiggingFrame DEF Rigs
  <2>10. Rigging(s)'
    BY <2>1, <2>2, <2>3, <2>4, <2>6, <2>8 DEF Rigging
  <2> QED
    BY <2>1, <2>2, <2>9, <2>10 DEF Rigs
<1> QED
  BY <1>1, <1>2, <1>3 DEF SubThread

\* The initial state.
LEMMA RigsInit == Init => Rigs
<1> SUFFICES ASSUME Init PROVE Rigs
  OBVIOUS
<1>1. /\ pubPc = "match" /\ commandTo = [s \in Subscribers |-> <<>>] /\ inbox = <<>>
      /\ test = 0 /\ subTest = [s \in Subscribers |-> 0]
  BY DEF Init
<1>2. ASSUME NEW H PROVE None(<<>>, H)
  BY DEF None
<1>3. ASSUME NEW s \in Subscribers PROVE Rigging(s)
  <2>0. commandTo[s] = <<>>
    BY <1>1
  <2>1. NoReady(s) /\ NoBegin(s)
    BY <1>1, <1>2, <2>0 DEF NoReady, NoBegin
  <2>2. subTest[s] <= test
    BY <1>1
  <2> QED
    BY <1>1, <2>1, <2>2 DEF Rigging
<1> QED
  BY <1>1, <1>3 DEF Rigs

\* A command lost with the publisher's writer.
LEMMA RigsLost == ASSUME Shape, Rigs, NEW s \in Subscribers, CommandLost(s) PROVE Rigs'
<1>1. UNCHANGED <<pubPc, ready, inbox, test, subTest, from>> /\ pubPc = "done"
  BY LostCommand DEF pubVars
<1>2. ASSUME NEW t \in Subscribers PROVE NoReady(t) => NoReady(t)'
  <2>1. CASE t = s
    <3> DEFINE q == commandTo[s] r == commandTo'[s]
    <3>1. q \in Seq(CommandType) /\ q # <<>> /\ r = SubSeq(q, 1, Len(q) - 1)
      BY LostCommand
    <3> HIDE DEF q, r
    <3>2. Len(q) \in Nat \ {0} /\ Len(r) = Len(q) - 1 /\ \A i \in 1..(Len(q) - 1) : r[i] = q[i]
      BY <3>1, FrontElements
    <3>3. None(q, Readies) => None(r, Readies)
      BY <3>2 DEF None
    <3> QED
      BY <2>1, <3>3 DEF NoReady, q, r, Readies
  <2>2. CASE t # s
    BY <2>2, LostCommand DEF NoReady, None, Readies
  <2> QED
    BY <2>1, <2>2
<1>3. ASSUME NEW t \in Subscribers PROVE NoBegin(t) => NoBegin(t)'
  BY <1>1 DEF NoBegin, Kind
<1>4. \A t \in Subscribers : Rigging(t)'
  BY <1>1, <1>2, <1>3, RiggingElsewhere DEF Rigs
<1> QED
  BY <1>1, <1>4 DEF Rigs

\* Every step but a read that times out, whatever calls fail.
LEMMA RigsStep == Shape /\ Rigs /\ [Next]_vars /\ ~Timeouts => Rigs'
<1> SUFFICES ASSUME Shape, Rigs, [Next]_vars, ~Timeouts PROVE Rigs'
  OBVIOUS
<1>1. CASE UNCHANGED vars
  BY <1>1, RigsUntouched DEF vars, channelVars, historyVars
<1>2. CASE \/ PubCommandsDiscovered \/ PubCreate \/ PubDataDiscovered \/ PubTypeRemoved
           \/ PubSendsBurst \/ PubResultsIn \/ PubDestroy \/ PubFails
  BY <1>2, RigsPubGoes
<1>3. CASE \/ PubTypeNew \/ PubTestStarts \/ PubTestEnds \/ PubTypeDispose \/ PubAllStops
           \/ PubNotAcknowledged \/ PubTakesResults \/ PubUnexpectedCommand
  BY <1>3, RigsPubWrites
<1>5. CASE PubReadyToStart \/ PubTakes \/ PubRigged
  BY <1>5, RigsPubRigs, RigsPubWrites
<1>4. ASSUME NEW s \in Subscribers, SubThread(s) \/ Discovery(s) \/ SubOnData(s) \/ SubFails(s)
      PROVE  Rigs'
  BY <1>4, RigsSub
<1>6. CASE SpuriousWakeup
  BY <1>6, RigsUntouched DEF SpuriousWakeup, channelVars, historyVars
<1>7. ASSUME NEW s \in Subscribers, CommandLost(s) PROVE Rigs'
  BY <1>7, RigsLost
<1> QED
  BY <1>1, <1>2, <1>3, <1>4, <1>5, <1>6, <1>7 DEF Next, Progress, Faults, PubThread

-----------------------------------------------------------------------------
(* Samples.                                                                *)

\* A step that moves neither samples nor the publisher into another phase.
LEMMA CountedFrame ==
    ASSUME NEW t \in Subscribers, Counted(t), UNCHANGED <<test, samples>>,
           data'[t] = data[t], lastSeq'[t] = lastSeq[t], lost'[t] = lost[t], received'[t] = received[t],
           subTest'[t] = subTest[t],
           pubPc' \in {"rig", "starts"} => pubPc \in {"rig", "starts"},
           pubPc' \in {"send", "results"} => pubPc \in {"send", "results"}
    PROVE  Counted(t)'
BY DEF Counted, Ordered

\* Steps of the publisher.
LEMMA CountsPub ==
    ASSUME Shape, Rigs, Counts,
           \/ PubThread \/ PubFails \/ PubNotAcknowledged \/ PubTakesNothing \/ PubResultsTimeout
    PROVE  Counts'
<1>0. test \in Nat /\ subTest \in [Subscribers -> Nat]
  BY DEF Shape, TestShape
<1>1. ASSUME UNCHANGED <<data, listenerVars, test, subTest, samples>>,
             pubPc' \in {"rig", "starts"} => pubPc \in {"rig", "starts"},
             pubPc' \in {"send", "results"} => pubPc \in {"send", "results"}
      PROVE  Counts'
  BY <1>1, CountedFrame DEF Counts, listenerVars
<1>2. CASE PubCommandsDiscovered \/ PubCreate \/ PubDataDiscovered \/ PubRigged \/ PubTypeRemoved
  BY <1>1, <1>2 DEF PubCommandsDiscovered, PubCreate, PubDataDiscovered, PubRigged, PubTypeRemoved,
     subVars, channelVars, historyVars
<1>3. CASE PubTypeNew \/ PubTypeDispose \/ PubAllStops \/ PubDestroy \/ PubFails \/ PubTestEnds
  BY <1>1, <1>3 DEF PubTypeNew, PubTypeDispose, PubAllStops, PubDestroy, PubFails, PubTestEnds,
     subVars, channelVars, historyVars
<1>4. CASE PubTakes \/ PubTakesNothing \/ PubTakesResults
  BY <1>1, <1>4 DEF PubTakes, PubTakesNothing, PubTakesResults, subVars, channelVars
<1>5. CASE PubResultsIn \/ PubUnexpectedCommand \/ PubResultsTimeout \/ PubNotAcknowledged
  <2>1. UNCHANGED <<data, listenerVars, test, subTest, samples>>
    BY <1>5 DEF PubResultsIn, PubUnexpectedCommand, PubResultsTimeout, PubNotAcknowledged,
       subVars, channelVars, historyVars
  <2>2. pubPc' \in {"ready", "dispose"}
    BY <1>5 DEF PubResultsIn, PubUnexpectedCommand, PubResultsTimeout, PubNotAcknowledged, AfterTest
  <2> QED
    BY <1>1, <2>1, <2>2
<1>6. CASE PubReadyToStart
  <2>1. pubPc = "ready" /\ pubPc' = "rig" /\ test' = test + 1 /\ UNCHANGED <<data, listenerVars, subTest, samples>>
    BY <1>6 DEF PubReadyToStart, subVars
  <2>2. ASSUME NEW t \in Subscribers PROVE Counted(t)'
    <3>1. subTest[t] <= test /\ subTest'[t] # test'
      BY <1>0, <2>1 DEF Rigs, Rigging
    <3> QED
      BY <2>1, <3>1 DEF Counts, Counted, Ordered, listenerVars
  <2> QED
    BY <2>2 DEF Counts
<1>7. CASE PubTestStarts
  <2>1. pubPc = "starts" /\ pubPc' = "send" /\ samples' = 0 /\ UNCHANGED <<data, listenerVars, test, subTest>>
    BY <1>7 DEF PubTestStarts, subVars, historyVars
  <2>2. ASSUME NEW t \in Subscribers PROVE Counted(t)'
    <3>1. subTest[t] = test
      BY <2>1 DEF Rigs, Rigging
    <3>2. data[t] = <<>> /\ lastSeq[t] = 0
      BY <2>1, <3>1 DEF Counts, Counted
    <3>3. data'[t] = <<>> /\ lastSeq'[t] = 0 /\ Len(data'[t]) = 0
      BY <2>1, <3>2 DEF listenerVars
    <3>4. lastSeq'[t] <= samples' /\ \A i \in 1..Len(data'[t]) : data'[t][i] <= samples'
      BY <2>1, <3>3
    <3> QED
      BY <2>1, <3>4 DEF Counts, Counted, Ordered, listenerVars
  <2> QED
    BY <2>2 DEF Counts
<1> QED
  BY <1>2, <1>3, <1>4, <1>5, <1>6, <1>7 DEF PubThread

\* The elements of two sequences, one after the other.
LEMMA ConcatElements ==
    ASSUME NEW q \in Seq(Nat), NEW b \in Seq(Nat)
    PROVE  /\ Len(q \o b) = Len(q) + Len(b)
           /\ \A i \in 1..Len(q) : (q \o b)[i] = q[i]
           /\ \A i \in 1..(Len(q) + Len(b)) : i > Len(q) => (q \o b)[i] = b[i - Len(q)]
OBVIOUS

\* A burst follows the samples that are on their way.
LEMMA CountsBurst == ASSUME Shape, Counts, PubSendsBurst PROVE Counts'
<1>1. /\ pubPc = "send" /\ UNCHANGED <<pubPc, listenerVars, test, subTest>> /\ samples' = samples + Burst
      /\ data' = [s \in Subscribers |-> data[s] \o [i \in 1..Burst |-> samples + i]]
  BY DEF PubSendsBurst, subVars, historyVars
<1>2. Burst \in Nat
  BY <1>1, BurstType
<1>3. samples \in Nat
  BY DEF Shape, PubShape
<1>4. ASSUME NEW t \in Subscribers PROVE Counted(t)'
  <2> DEFINE q == data[t] r == data'[t]
  <2>1. q \in Seq(Nat) /\ Len(q) \in Nat /\ \A i \in 1..Len(q) : q[i] \in Nat
    <3>1. q \in Seq(Nat)
      BY DEF Shape, DataShape
    <3>2. \A i \in 1..Len(q) : q[i] \in Nat
      BY <3>1, ElementType
    <3> QED
      BY <3>1, <3>2
  <2>2. r = q \o [i \in 1..Burst |-> samples + i]
    BY <1>1
  <2>3. [i \in 1..Burst |-> samples + i] \in Seq(Nat) /\ Len([i \in 1..Burst |-> samples + i]) = Burst
    BY <1>2, <1>3
  <2>4. /\ Len(r) = Len(q) + Burst
        /\ \A i \in 1..Len(q) : r[i] = q[i]
        /\ \A i \in 1..Len(r) : i > Len(q) => r[i] = samples + (i - Len(q))
    <3> DEFINE b == [i \in 1..Burst |-> samples + i]
    <3>1. b \in Seq(Nat) /\ Len(b) = Burst /\ r = q \o b
      BY <2>2, <2>3
    <3>2. \A i \in 1..Burst : b[i] = samples + i
      OBVIOUS
    <3> HIDE DEF b, q, r
    <3>3. /\ Len(r) = Len(q) + Burst
          /\ \A i \in 1..Len(q) : r[i] = q[i]
          /\ \A i \in 1..Len(r) : i > Len(q) => r[i] = b[i - Len(q)]
      BY <2>1, <3>1, ConcatElements
    <3>4. ASSUME NEW i \in 1..Len(r), i > Len(q) PROVE i - Len(q) \in 1..Burst
      BY <1>2, <2>1, <3>3, <3>4
    <3> QED
      BY <3>2, <3>3, <3>4
  <2>5. /\ lastSeq[t] <= samples /\ \A i \in 1..Len(q) : q[i] <= samples /\ lastSeq[t] < q[i]
        /\ \A i, j \in 1..Len(q) : i < j => q[i] < q[j]
        /\ received[t] + lost[t] = lastSeq[t] /\ lastSeq[t] \in Nat
    BY <1>1 DEF Counts, Counted, Ordered, Shape, ListenerShape
  <2> HIDE DEF q, r
  <2>6. ASSUME NEW i \in 1..Len(r)
        PROVE  lastSeq[t] < r[i] /\ r[i] <= samples + Burst /\ (i > Len(q) => r[i] > samples)
               /\ (i <= Len(q) => i \in 1..Len(q))
    <3>1. CASE i > Len(q)
      BY <1>2, <1>3, <2>1, <2>4, <2>5, <3>1
    <3>2. CASE i <= Len(q)
      <4>1. i \in 1..Len(q)
        BY <2>1, <3>2
      <4> QED
        BY <1>2, <1>3, <2>1, <2>4, <2>5, <3>2, <4>1
    <3> QED
      BY <2>1, <3>1, <3>2
  <2>7. ASSUME NEW i \in 1..Len(r), NEW j \in 1..Len(r), i < j PROVE r[i] < r[j]
    <3>1. CASE i > Len(q)
      BY <1>2, <1>3, <2>1, <2>4, <2>7, <3>1
    <3>2. CASE j <= Len(q)
      <4>1. i \in 1..Len(q) /\ j \in 1..Len(q)
        BY <2>1, <2>7, <3>2
      <4> QED
        BY <2>4, <2>5, <2>7, <4>1
    <3>3. CASE i <= Len(q) /\ j > Len(q)
      <4>1. i \in 1..Len(q)
        BY <2>1, <3>3
      <4>2. r[i] = q[i] /\ q[i] <= samples /\ r[j] > samples /\ q[i] \in Nat
        BY <2>1, <2>4, <2>5, <2>6, <3>3, <4>1
      <4>3. r[j] \in Int
        BY <1>3, <2>1, <2>4, <3>3
      <4> QED
        BY <1>3, <4>2, <4>3
    <3> QED
      BY <2>1, <2>7, <3>1, <3>2, <3>3
  <2>8. lastSeq'[t] = lastSeq[t] /\ received'[t] = received[t] /\ lost'[t] = lost[t]
    BY <1>1 DEF listenerVars
  <2>9. Ordered(r, lastSeq[t])
    BY <2>6, <2>7 DEF Ordered
  <2>10. lastSeq[t] <= samples'
    BY <1>1, <1>2, <1>3, <2>5
  <2>11. \A i \in 1..Len(r) : r[i] <= samples'
    BY <1>1, <2>6
  <2> QED
    BY <1>1, <2>5, <2>8, <2>9, <2>10, <2>11 DEF Counted, r
<1> QED
  BY <1>4 DEF Counts

\* An empty channel and counters that have been reset.
LEMMA CountedReset ==
    ASSUME NEW t \in Subscribers, data[t] = <<>>, lastSeq[t] = 0, lost[t] = 0, received[t] = 0,
           samples \in Nat
    PROVE  Counted(t)
<1>1. Len(data[t]) = 0
  OBVIOUS
<1>2. Ordered(data[t], lastSeq[t])
  BY <1>1 DEF Ordered
<1>3. \A i \in 1..Len(data[t]) : data[t][i] <= samples
  BY <1>1
<1> QED
  BY <1>2, <1>3 DEF Counted

\* The same after a step.
LEMMA CountedResetNext ==
    ASSUME NEW t \in Subscribers, data'[t] = <<>>, lastSeq'[t] = 0, lost'[t] = 0, received'[t] = 0,
           samples' \in Nat
    PROVE  Counted(t)'
<1>1. Len(data'[t]) = 0
  OBVIOUS
<1>2. Ordered(data'[t], lastSeq'[t])
  BY <1>1 DEF Ordered
<1>3. \A i \in 1..Len(data'[t]) : data'[t][i] <= samples'
  BY <1>1
<1> QED
  BY <1>2, <1>3 DEF Counted

\* The samples of a test are a natural number.
LEMMA SamplesNatural == Shape => samples \in Nat
  BY DEF Shape, PubShape

\* The gap before a sample, and the sample itself, are what was missing.
LEMMA GapAccounts ==
    ASSUME ListenerShape, NEW s \in Subscribers, NEW x \in Nat,
           received[s] + lost[s] = lastSeq[s], lastSeq[s] < x
    PROVE  (received[s] + 1) + (lost[s] + Gap(s, x)) = x
<1>1. \A a, b, c \in Nat : a + b = c /\ c < x =>
         (a + 1) + (b + (IF c + 1 < x THEN x - c - 1 ELSE 0)) = x
  OBVIOUS
<1>2. received[s] \in Nat /\ lost[s] \in Nat /\ lastSeq[s] \in Nat
  BY DEF ListenerShape
<1> QED
  BY <1>1, <1>2, Zenon DEF Gap

\* A sample arrives: those before it are lost, and it becomes the last one.
LEMMA CountedSample ==
    ASSUME Shape, NEW s \in Subscribers, Counted(s), NEW k \in 1..Len(data[s]),
           lost'[s] = lost[s] + Gap(s, data[s][k]), lastSeq'[s] = data[s][k],
           received'[s] = received[s] + 1, data'[s] = SubSeq(data[s], k + 1, Len(data[s])),
           UNCHANGED <<pubPc, samples, test, subTest>>
    PROVE  Counted(s)'
<1> DEFINE q == data[s] r == data'[s]
<1>1. q \in Seq(Nat) /\ Len(q) \in Nat /\ (\A i \in 1..Len(q) : q[i] \in Nat)
  <2>1. q \in Seq(Nat)
    BY DEF Shape, DataShape
  <2>2. \A i \in 1..Len(q) : q[i] \in Nat
    BY <2>1, ElementType
  <2> QED
    BY <2>1, <2>2
<1>2. Len(r) = Len(q) - k /\ \A i \in 1..(Len(q) - k) : r[i] = q[k + i]
  <2>1. k \in 0..Len(q) /\ r = SubSeq(q, k + 1, Len(q))
    BY <1>1
  <2> HIDE DEF q, r
  <2> QED
    BY <1>1, <2>1, RestElements
<1>3. /\ \A i \in 1..Len(q) : lastSeq[s] < q[i]
      /\ \A i, j \in 1..Len(q) : i < j => q[i] < q[j]
      /\ received[s] + lost[s] = lastSeq[s]
      /\ lastSeq[s] \in Nat /\ received[s] \in Nat /\ lost[s] \in Nat
  BY DEF Counted, Ordered, Shape, ListenerShape
<1>4. q[k] \in Nat /\ lastSeq[s] < q[k]
  BY <1>1, <1>3
<1>5. received'[s] + lost'[s] = lastSeq'[s]
  <2>1. (received[s] + 1) + (lost[s] + Gap(s, q[k])) = q[k]
    BY <1>3, <1>4, GapAccounts, Zenon DEF Shape
  <2> QED
    BY <2>1, Zenon
<1>6. \A i \in 1..Len(r) : k + i \in 1..Len(q) /\ k < k + i /\ r[i] = q[k + i]
  BY <1>1, <1>2
<1>7. ~(pubPc \in {"rig", "starts"} /\ subTest[s] = test)
  <2>1. q # <<>>
    BY <1>1
  <2> QED
    BY <2>1 DEF Counted
<1>8. pubPc \in {"send", "results"} => \A i \in 1..Len(q) : q[i] <= samples
  BY DEF Counted
<1>9. lastSeq'[s] = q[k] /\ k \in 1..Len(q)
  OBVIOUS
<1> HIDE DEF q, r
<1>10. Ordered(r, q[k])
  <2>1. \A i \in 1..Len(r) : q[k] < r[i]
    BY <1>3, <1>6, <1>9
  <2>2. \A i, j \in 1..Len(r) : i < j => k + i < k + j
    BY <1>1
  <2>3. \A i, j \in 1..Len(r) : i < j => r[i] < r[j]
    BY <1>3, <1>6, <2>2
  <2> QED
    BY <2>1, <2>3 DEF Ordered
<1>11. pubPc \in {"send", "results"} => q[k] <= samples /\ \A i \in 1..Len(r) : r[i] <= samples
  <2>1. k \in 1..Len(q)
    BY DEF q
  <2> QED
    BY <1>6, <1>8, <2>1
<1> QED
  BY <1>5, <1>7, <1>9, <1>10, <1>11 DEF Counted, r

\* Steps of the subscribers, as long as no sample is late.
LEMMA CountsSub ==
    ASSUME Shape, Counts, NEW s \in Subscribers, ~late',
           SubThread(s) \/ Discovery(s) \/ SubOnData(s) \/ SubFails(s)
    PROVE  Counts'
<1>1. ASSUME UNCHANGED <<pubVars, data, lastSeq, lost, received, test, subTest>>
      PROVE  Counts'
  BY <1>1, CountedFrame DEF Counts, pubVars
<1>2. CASE SubCommandsDiscovered(s) \/ SubDataDiscovered(s) \/ Discovery(s)
  BY <1>1, <1>2 DEF SubCommandsDiscovered, SubDataDiscovered, Discovery, PubOnCommandMatched,
     SubOnCommandMatched, PubOnDataMatched, SubOnDataMatched, subVars, listenerVars, channelVars, historyVars
<1>3. CASE SubTypeNew(s) \/ SubTestStarts(s) \/ SubTestEnds(s) \/ SubReports(s) \/ SubAllStops(s) \/ SubFails(s)
  BY <1>1, <1>3 DEF SubTypeNew, SubTestStarts, SubTestEnds, SubReports, SubAllStops, SubFails,
     subVars, listenerVars, channelVars, historyVars
<1>4. CASE SubReadyToStart(s)
  <2>1. ListenerReset(s) /\ UNCHANGED <<pubVars, test>>
        /\ subTest' = [subTest EXCEPT ![s] = Head(commandTo[s]).test]
    BY <1>4 DEF SubReadyToStart
  <2>2. PICK n \in 0..Len(data[s]) :
            /\ data' = [data EXCEPT ![s] = SubSeq(data[s], Len(data[s]) - n + 1, Len(data[s]))]
            /\ late' = (late \/ n > 0)
    BY <1>4 DEF SubReadyToStart
  <2>3. data \in [Subscribers -> Seq(Nat)] /\ Len(data[s]) \in Nat /\ subTest \in [Subscribers -> Nat]
    BY DEF Shape, DataShape, TestShape
  <2>4. n = 0
    <3>1. ~(n > 0)
      BY <2>2, Zenon
    <3> QED
      BY <2>3, <3>1
  <2>5. data'[s] = <<>>
    <3>1. data'[s] = SubSeq(data[s], Len(data[s]) + 1, Len(data[s]))
      BY <2>2, <2>3, <2>4
    <3>2. data'[s] \in Seq(Nat) /\ Len(data'[s]) = 0
      BY <2>3, <3>1, RestElements
    <3> QED
      BY <3>2
  <2>6. lastSeq'[s] = 0 /\ lost'[s] = 0 /\ received'[s] = 0
    BY <2>1, ResetShape
  <2>7. samples' \in Nat
    BY <2>1, SamplesNatural DEF pubVars
  <2>8. Counted(s)'
    BY <2>5, <2>6, <2>7, CountedResetNext
  <2>9. ASSUME NEW t \in Subscribers, t # s PROVE Counted(t)'
    <3>1. /\ lastSeq'[t] = lastSeq[t] /\ lost'[t] = lost[t] /\ received'[t] = received[t]
          /\ data'[t] = data[t] /\ subTest'[t] = subTest[t]
      BY <2>1, <2>2, <2>3, <2>9, ResetShape
    <3> QED
      BY <2>1, <3>1, CountedFrame DEF Counts, pubVars
  <2> QED
    BY <2>8, <2>9 DEF Counts
<1>5. CASE SubTypeDispose(s)
  <2>1. ListenerReset(s) /\ UNCHANGED <<pubVars, test, subTest>> /\ data' = [data EXCEPT ![s] = <<>>]
    BY <1>5 DEF SubTypeDispose, SubRemovesReader, historyVars
  <2>2. data \in [Subscribers -> Seq(Nat)]
    BY DEF Shape, DataShape
  <2>3. lastSeq'[s] = 0 /\ lost'[s] = 0 /\ received'[s] = 0 /\ data'[s] = <<>>
    BY <2>1, <2>2, ResetShape
  <2>4. samples' \in Nat
    BY <2>1, SamplesNatural DEF pubVars
  <2>5. Counted(s)'
    BY <2>3, <2>4, CountedResetNext
  <2>6. ASSUME NEW t \in Subscribers, t # s PROVE Counted(t)'
    <3>1. /\ lastSeq'[t] = lastSeq[t] /\ lost'[t] = lost[t] /\ received'[t] = received[t]
          /\ data'[t] = data[t]
      BY <2>1, <2>2, <2>6, ResetShape
    <3> QED
      BY <2>1, <3>1, CountedFrame DEF Counts, pubVars
  <2> QED
    BY <2>5, <2>6 DEF Counts
<1>6. CASE SubOnData(s)
  <2>1. PICK k \in 1..Len(data[s]) :
            /\ lost' = [lost EXCEPT ![s] = lost[s] + Gap(s, data[s][k])]
            /\ lastSeq' = [lastSeq EXCEPT ![s] = data[s][k]]
            /\ received' = [received EXCEPT ![s] = received[s] + 1]
            /\ data' = [data EXCEPT ![s] = SubSeq(data[s], k + 1, Len(data[s]))]
    BY <1>6 DEF SubOnData
  <2>2. UNCHANGED <<pubPc, samples, test, subTest>>
    BY <1>6 DEF SubOnData, pubVars, historyVars
  <2>3. /\ data \in [Subscribers -> Seq(Nat)] /\ lost \in [Subscribers -> Nat]
        /\ lastSeq \in [Subscribers -> Nat] /\ received \in [Subscribers -> Nat]
    BY DEF Shape, DataShape, ListenerShape
  <2>4. /\ lost'[s] = lost[s] + Gap(s, data[s][k]) /\ lastSeq'[s] = data[s][k]
        /\ received'[s] = received[s] + 1 /\ data'[s] = SubSeq(data[s], k + 1, Len(data[s]))
    BY <2>1, <2>3
  <2>5. Counted(s)'
    BY <2>2, <2>4, CountedSample DEF Counts
  <2>6. ASSUME NEW t \in Subscribers, t # s PROVE Counted(t)'
    <3>1. /\ lastSeq'[t] = lastSeq[t] /\ lost'[t] = lost[t] /\ received'[t] = received[t]
          /\ data'[t] = data[t]
      BY <2>1, <2>3, <2>6
    <3> QED
      BY <2>2, <3>1, CountedFrame DEF Counts
  <2> QED
    BY <2>5, <2>6 DEF Counts
<1> QED
  BY <1>2, <1>3, <1>4, <1>5, <1>6 DEF SubThread

\* The initial state.
LEMMA CountsInit == Init => Counts
<1> SUFFICES ASSUME Init, NEW s \in Subscribers PROVE Counted(s)
  BY DEF Counts
<1>1. /\ data = [t \in Subscribers |-> <<>>] /\ lastSeq = [t \in Subscribers |-> 0] /\ samples = 0
      /\ lost = [t \in Subscribers |-> 0] /\ received = [t \in Subscribers |-> 0]
  BY DEF Init
<1>2. data[s] = <<>> /\ lastSeq[s] = 0 /\ lost[s] = 0 /\ received[s] = 0 /\ samples \in Nat
  BY <1>1
<1> QED
  BY <1>2, CountedReset

\* Every step but a read that times out, as long as no sample is late.
LEMMA CountsStep == Shape /\ Rigs /\ Counts /\ [Next]_vars /\ ~late' => Counts'
<1> SUFFICES ASSUME Shape, Rigs, Counts, [Next]_vars, ~late' PROVE Counts'
  OBVIOUS
<1>1. CASE UNCHANGED vars
  BY <1>1, CountedFrame DEF Counts, vars, pubVars, subVars, listenerVars, channelVars, historyVars
<1>2. CASE PubThread \/ PubFails \/ PubNotAcknowledged \/ Timeouts
  BY <1>2, CountsPub DEF Timeouts
<1>3. CASE PubSendsBurst
  BY <1>3, CountsBurst
<1>4. ASSUME NEW s \in Subscribers, SubThread(s) \/ Discovery(s) \/ SubOnData(s) \/ SubFails(s)
      PROVE  Counts'
  BY <1>4, CountsSub
<1>5. ASSUME SpuriousWakeup \/ \E s \in Subscribers : CommandLost(s) PROVE Counts'
  <2>1. UNCHANGED <<pubVars, subVars, data, test, subTest>>
    BY <1>5 DEF SpuriousWakeup, CommandLost, channelVars, historyVars
  <2> QED
    BY <2>1, CountedFrame DEF Counts, pubVars, subVars, listenerVars
<1> QED
  BY <1>1, <1>2, <1>3, <1>4, <1>5 DEF Next, Progress, Faults

-----------------------------------------------------------------------------
(* The handshakes of prompt subscribers.                                   *)

\* 3 * N matches are matches of every endpoint of every subscriber.
LEMMA AllMatched ==
    ASSUME MatchShape, total_matches = 3 * N
    PROVE  \A s \in Subscribers : pubMatches[s].data = 1
<1>1. IsFiniteSet(Endpoints) /\ Cardinality(Endpoints) = 3
  <2> DEFINE a == <<"command", 1>> b == <<"command", 2>> c == <<"data", 1>>
  <2>1. a # b /\ a # c /\ b # c
    OBVIOUS
  <2>2. Endpoints = ({a} \cup {b}) \cup {c}
    BY DEF Endpoints
  <2> HIDE DEF a, b, c
  <2>3. IsFiniteSet({a}) /\ Cardinality({a}) = 1
    BY FS_Singleton
  <2>4. IsFiniteSet({a} \cup {b}) /\ Cardinality({a} \cup {b}) = 2
    BY <2>1, <2>3, FS_AddElement
  <2>5. c \notin {a} \cup {b}
    BY <2>1
  <2> QED
    BY <2>2, <2>4, <2>5, FS_AddElement
<1>2. IsFiniteSet(Subscribers \X Endpoints) /\ Cardinality(Subscribers \X Endpoints) = N * 3
  BY <1>1, Constants, FS_Product DEF N
<1>3. MatchedEndpoints \subseteq Subscribers \X Endpoints
  BY DEF MatchedEndpoints
<1>4. Cardinality(MatchedEndpoints) = Cardinality(Subscribers \X Endpoints)
  BY <1>2, Constants DEF total_matches
<1>5. MatchedEndpoints = Subscribers \X Endpoints
  BY <1>2, <1>3, <1>4, FS_Subset
<1>6. ASSUME NEW s \in Subscribers PROVE pubMatches[s].data = 1
  <2>1. <<s, <<"data", 1>>>> \in Subscribers \X Endpoints
    BY DEF Endpoints
  <2>2. 1 <= pubMatches[s]["data"]
    BY <1>5, <2>1 DEF MatchedEndpoints
  <2>3. pubMatches[s].data \in 0..1
    BY DEF MatchShape, Matches
  <2> QED
    BY <2>2, <2>3
<1> QED
  BY <1>6

\* What is unchanged for a subscriber, in the terms of Handshake.
Same(t) ==
    /\ subPc'[t] = subPc[t] /\ subOpen'[t] = subOpen[t]
    /\ linked[t] => linked'[t]
    /\ enabled[t] => enabled'[t]
    /\ Closed(t) => Closed(t)'
SameChannels(t) ==
    /\ commandTo'[t] = commandTo[t]
    /\ Silent(t) => Silent(t)'
    /\ \A k : Said(t, k) => Said(t, k)'

\* The parts of Handshake for a subscriber that nothing happens to.
LEMMA SameParts ==
    ASSUME NEW t \in Subscribers, Same(t)
    PROVE  /\ Linked(t) => Linked(t)'
           /\ Found(t) => Found(t)'
           /\ Rigged(t) => Rigged(t)'
BY DEF Same, Linked, Found, Rigged

\* The same for its channels.
LEMMA SameMessages ==
    ASSUME NEW t \in Subscribers, SameChannels(t)
    PROVE  /\ Has0(t) => Has0(t)'
           /\ \A k : Has1(t, k) => Has1(t, k)'
           /\ \A j, k : Has2(t, j, k) => Has2(t, j, k)'
           /\ (t \in from' <=> t \in from) => \A k : Told(t, k) => Told(t, k)'
BY DEF SameChannels, Has0, Has1, Has2, Told

\* Nothing happens to a subscriber while the publisher stays where it is.
LEMMA HandshakeFrame ==
    ASSUME NEW t \in Subscribers, Handshake(t), Same(t), SameChannels(t),
           pubPc' = pubPc, t \in from' <=> t \in from
    PROVE  Handshake(t)'
<1>1. /\ Linked(t) => Linked(t)'
      /\ Found(t) => Found(t)'
      /\ Rigged(t) => Rigged(t)'
  BY SameParts
<1>2. /\ Has0(t) => Has0(t)'
      /\ \A k : Has1(t, k) => Has1(t, k)'
      /\ \A j, k : Has2(t, j, k) => Has2(t, j, k)'
      /\ \A k : Told(t, k) => Told(t, k)'
  BY SameMessages
<1>3. /\ subPc'[t] = subPc[t] /\ subOpen'[t] = subOpen[t]
      /\ Closed(t) => Closed(t)'
      /\ Silent(t) => Silent(t)'
      /\ \A k : Said(t, k) => Said(t, k)'
  BY DEF Same, SameChannels
<1> QED
  BY <1>1, <1>2, <1>3 DEF Handshake

\* All that are counted in a reading loop are all the subscribers.
LEMMA AllIn ==
    ASSUME Shape, Prompt, pubPc \in {"rig", "removed", "results"}, ready >= N
    PROVE  from = Subscribers
<1>1. from \subseteq Subscribers /\ ready = Cardinality(from)
  BY DEF Shape, TestShape, Prompt
<1> QED
  BY <1>1, FromCount

\* Steps of the publisher that leave its channels of commands alone.
LEMMA PromptPubGoes ==
    ASSUME Shape, Prompt,
           \/ PubCommandsDiscovered \/ PubCreate \/ PubDataDiscovered \/ PubRigged
           \/ PubSendsBurst \/ PubResultsIn \/ PubTypeRemoved
    PROVE  Prompt'
<1>1. ASSUME NEW t \in Subscribers
      PROVE  Same(t) /\ SameChannels(t) /\ from' = from
  <2>1. UNCHANGED <<subPc, subOpen, linked, enabled, pubMatches, commandTo, inbox, from>>
    BY DEF PubCommandsDiscovered, PubCreate, PubDataDiscovered, PubRigged, PubSendsBurst, PubResultsIn,
       PubTypeRemoved, subVars, listenerVars, matchVars, channelVars, historyVars
  <2> QED
    BY <2>1 DEF Same, SameChannels, Closed, Silent, Said, Answers, Kind
<1>2. ASSUME NEW t \in Subscribers
      PROVE  /\ Linked(t) => Linked(t)'
             /\ Found(t) => Found(t)'
             /\ Rigged(t) => Rigged(t)'
             /\ Has0(t) => Has0(t)'
             /\ \A k : Has1(t, k) => Has1(t, k)'
             /\ subPc'[t] = subPc[t] /\ subOpen'[t] = subOpen[t]
             /\ Closed(t) => Closed(t)'
             /\ Silent(t) => Silent(t)'
  BY <1>1, SameParts, SameMessages DEF Same, SameChannels
<1>3. CASE PubCommandsDiscovered
  <2>1. pubPc = "match" /\ pubPc' = "new"
    BY <1>3 DEF PubCommandsDiscovered
  <2> QED
    BY <1>2, <2>1 DEF Prompt, Handshake
<1>4. CASE PubCreate
  <2>1. pubPc = "create" /\ pubPc' = "discover"
    BY <1>4 DEF PubCreate
  <2> QED
    BY <1>2, <2>1 DEF Prompt, Handshake
<1>5. CASE PubDataDiscovered
  <2>1. pubPc = "discover" /\ pubPc' = "ready" /\ total_matches = 3 * N
    BY <1>5 DEF PubDataDiscovered
  <2>2. \A t \in Subscribers : ~Closed(t)
    BY <2>1, AllMatched DEF Shape, Closed
  <2> QED
    BY <1>2, <2>1, <2>2 DEF Prompt, Handshake
<1>6. CASE PubRigged
  <2>1. pubPc = "rig" /\ pubPc' = "starts" /\ ready >= N
    BY <1>6 DEF PubRigged, AllRigged
  <2>2. from = Subscribers
    BY <2>1, AllIn
  <2>3. \A t \in Subscribers : Rigged(t) /\ Has0(t) /\ Silent(t)
    BY <2>1, <2>2 DEF Prompt, Handshake, Told
  <2> QED
    BY <1>2, <2>1, <2>3 DEF Prompt, Handshake
<1>7. CASE PubSendsBurst
  <2>1. pubPc = "send" /\ pubPc' = "send"
    BY <1>7 DEF PubSendsBurst
  <2> QED
    BY <1>2, <2>1 DEF Prompt, Handshake
<1>8. CASE PubResultsIn
  <2>1. pubPc = "results" /\ ready = N /\ pubPc' \in {"ready", "dispose"}
    BY <1>8 DEF PubResultsIn, AfterTest
  <2>2. from = Subscribers
    BY <2>1, AllIn, Constants
  <2>3. \A t \in Subscribers : subPc[t] = "idle" /\ Linked(t) /\ Has0(t) /\ Silent(t)
    BY <2>1, <2>2 DEF Prompt, Handshake, Told
  <2>4. \A t \in Subscribers : Found(t)
    BY <2>3 DEF Found, Linked
  <2> QED
    BY <1>2, <2>1, <2>3, <2>4 DEF Prompt, Handshake
<1>9. CASE PubTypeRemoved
  <2>1. pubPc = "removed" /\ ready >= N /\ pubPc' \in {"new", "stop"}
    BY <1>9 DEF PubTypeRemoved, AllRigged
  <2>2. from = Subscribers
    BY <2>1, AllIn
  <2>3. \A t \in Subscribers : subPc[t] = "idle" /\ Closed(t) /\ Has0(t) /\ Silent(t)
    BY <2>1, <2>2 DEF Prompt, Handshake, Told
  <2> QED
    BY <1>2, <2>1, <2>3 DEF Prompt, Handshake
<1> QED
  BY <1>3, <1>4, <1>5, <1>6, <1>7, <1>8, <1>9

\* Steps of the publisher that write a command.
LEMMA PromptPubWrites ==
    ASSUME Shape, Prompt,
           \/ PubTypeNew \/ PubReadyToStart \/ PubTestStarts \/ PubTestEnds \/ PubTypeDispose \/ PubAllStops
    PROVE  Prompt'
<1>1. ASSUME NEW t \in Subscribers
      PROVE  /\ Linked(t) => Linked(t)'
             /\ Found(t) => Found(t)'
             /\ Rigged(t) => Rigged(t)'
             /\ subPc'[t] = subPc[t] /\ subOpen'[t] = subOpen[t]
             /\ Closed(t) => Closed(t)'
             /\ Silent(t) => Silent(t)'
  <2>1. UNCHANGED <<subPc, subOpen, linked, enabled, pubMatches, inbox>>
    BY DEF PubTypeNew, PubReadyToStart, PubTestStarts, PubTestEnds, PubTypeDispose, PubAllStops,
       subVars, listenerVars, matchVars
  <2>2. Same(t) /\ (Silent(t) => Silent(t)')
    BY <2>1 DEF Same, Closed, Silent, Answers
  <2> QED
    BY <2>2, SameParts DEF Same
<1>2. CASE PubTypeNew
  <2>1. pubPc = "new" /\ pubPc' = "create" /\ Write("TYPE_NEW") /\ test' = test
    BY <1>2 DEF PubTypeNew, historyVars
  <2>2. \A t \in Subscribers : Has0(t) => Has1(t, "TYPE_NEW")'
    BY <2>1, Written, Kinds
  <2> QED
    BY <1>1, <2>1, <2>2 DEF Prompt, Handshake
<1>3. CASE PubReadyToStart
  <2>1. pubPc = "ready" /\ pubPc' = "rig" /\ from' = {} /\ ready' = 0
    BY <1>3 DEF PubReadyToStart
  <2>2. \A t \in Subscribers : Has0(t) => Has1(t, "READY_TO_START")'
    BY <1>3, WrittenReady
  <2>3. ready' = Cardinality(from')
    BY <2>1, FromCount
  <2> QED
    BY <1>1, <2>1, <2>2, <2>3 DEF Prompt, Handshake
<1>4. CASE PubTestStarts
  <2>1. pubPc = "starts" /\ pubPc' = "send" /\ Write("TEST_STARTS") /\ test' = test
    BY <1>4 DEF PubTestStarts, historyVars
  <2>2. \A t \in Subscribers : Has0(t) => Has1(t, "TEST_STARTS")'
    BY <2>1, Written, Kinds
  <2> QED
    BY <1>1, <2>1, <2>2 DEF Prompt, Handshake
<1>5. CASE PubTestEnds
  <2>1. /\ pubPc = "send" /\ pubPc' = "results" /\ Write("TEST_ENDS") /\ test' = test
        /\ from' = {} /\ ready' = 0
    BY <1>5 DEF PubTestEnds
  <2>2. \A t \in Subscribers : /\ Has0(t) => Has1(t, "TEST_ENDS")'
                               /\ Has1(t, "TEST_STARTS") => Has2(t, "TEST_STARTS", "TEST_ENDS")'
    BY <2>1, Written, Kinds
  <2>3. ready' = Cardinality(from')
    BY <2>1, FromCount
  <2>4. \A t \in Subscribers : Rigged(t) => Linked(t) /\ subPc[t] = "idle"
    BY DEF Rigged
  <2> QED
    BY <1>1, <2>1, <2>2, <2>3, <2>4 DEF Prompt, Handshake
<1>6. CASE PubTypeDispose
  <2>1. pubPc = "dispose" /\ pubPc' = "destroy" /\ Write("TYPE_DISPOSE") /\ test' = test
    BY <1>6 DEF PubTypeDispose, historyVars
  <2>2. \A t \in Subscribers : Has0(t) => Has1(t, "TYPE_DISPOSE")'
    BY <2>1, Written, Kinds
  <2> QED
    BY <1>1, <2>1, <2>2 DEF Prompt, Handshake
<1>7. CASE PubAllStops
  <2>1. pubPc' = "done"
    BY <1>7 DEF PubAllStops
  <2> QED
    BY <2>1 DEF Prompt, Handshake
<1> QED
  BY <1>2, <1>3, <1>4, <1>5, <1>6, <1>7

\* The publisher's writer goes.
LEMMA PromptPubDestroys == ASSUME Shape, Prompt, PubDestroy PROVE Prompt'
<1>1. /\ pubPc = "destroy" /\ pubPc' = "removed" /\ from' = {} /\ ready' = 0
      /\ UNCHANGED <<subPc, subOpen, commandTo, inbox>>
      /\ pubMatches' = [s \in Subscribers |-> [pubMatches[s] EXCEPT !.data = 0]]
  BY DEF PubDestroy, PubRemovesWriter, subVars, channelVars
<1>2. ASSUME NEW t \in Subscribers
      PROVE  /\ subPc'[t] = subPc[t] /\ subOpen'[t] = subOpen[t] /\ t \notin from'
             /\ Closed(t) => Closed(t)'
             /\ Has0(t) => Has0(t)'
             /\ Has1(t, "TYPE_DISPOSE") => Has1(t, "TYPE_DISPOSE")'
             /\ Silent(t) => Silent(t)'
             /\ Said(t, "TYPE_REMOVED") => Said(t, "TYPE_REMOVED")'
  <2>1. pubMatches'[t].data = 0
    BY <1>1, MatchTypes DEF Shape, MatchShape
  <2>2. SameChannels(t)
    BY <1>1 DEF SameChannels, Silent, Said, Answers, Kind
  <2> QED
    BY <1>1, <2>1, <2>2, SameMessages DEF Closed, SameChannels
<1>3. ready' = Cardinality(from')
  BY <1>1, FromCount
<1>4. ASSUME NEW t \in Subscribers PROVE Handshake(t)'
  <2>1. /\ subPc[t] = "idle"
        /\ \/ Linked(t) /\ Has1(t, "TYPE_DISPOSE") /\ Silent(t)
           \/ Closed(t) /\ Has0(t) /\ Said(t, "TYPE_REMOVED")
    BY <1>1 DEF Prompt, Handshake
  <2>2. \/ subOpen'[t] /\ Has1(t, "TYPE_DISPOSE")' /\ Silent(t)' /\ t \notin from'
        \/ Closed(t)' /\ Has0(t)' /\ Told(t, "TYPE_REMOVED")'
    BY <1>2, <2>1 DEF Linked, Told
  <2> QED
    BY <1>1, <2>1, <2>2 DEF Handshake
<1> QED
  BY <1>1, <1>3, <1>4 DEF Prompt

\* What the publisher takes from prompt subscribers is what it waits for, from
\* one that it has not counted.
LEMMA PromptTakes ==
    ASSUME Shape, Prompt, PubTakes \/ PubTakesResults \/ PubUnexpectedCommand
    PROVE  ~PubUnexpectedCommand /\ Prompt'
<1> DEFINE wanted == IF pubPc = "rig" THEN "BEGIN"
                     ELSE IF pubPc = "removed" THEN "TYPE_REMOVED" ELSE "TEST_RESULTS"
<1>1. /\ pubPc \in {"rig", "removed", "results"} /\ inbox # <<>> /\ inbox' = Tail(inbox)
      /\ UNCHANGED <<subVars, matchVars, commandTo>>
  BY DEF PubTakes, PubTakesResults, PubUnexpectedCommand
<1>2. PICK u, k : u = Head(inbox).from /\ k = Head(inbox).kind
  OBVIOUS
<1>3. /\ u \in Subscribers /\ ~Silent(u)
      /\ \A t \in Subscribers : t # u => (Silent(t) => Silent(t)') /\ \A j : Said(t, j) => Said(t, j)'
      /\ \A j : Said(u, j) => k = j /\ Silent(u)'
  BY <1>1, <1>2, Taken
<1>4. Told(u, wanted) /\ Said(u, wanted) /\ u \notin from
  BY <1>1, <1>3 DEF Prompt, Handshake, Told
<1>5. k = wanted /\ Silent(u)'
  BY <1>3, <1>4
<1>6. ~PubUnexpectedCommand
  BY <1>1, <1>2, <1>5 DEF PubUnexpectedCommand
<1>7. ready' = ready + 1 /\ from' = from \cup {u} /\ pubPc' = pubPc
  <2>1. CASE PubTakes
    <3>1. Awaited = wanted
      BY <2>1 DEF PubTakes, Awaited
    <3> QED
      BY <1>2, <1>5, <2>1, <3>1 DEF PubTakes
  <2>2. CASE PubTakesResults
    BY <1>2, <2>2 DEF PubTakesResults
  <2> QED
    BY <1>6, <2>1, <2>2
<1>8. from \subseteq Subscribers /\ ready = Cardinality(from)
  BY <1>1 DEF Shape, TestShape, Prompt
<1>9. ready' = Cardinality(from')
  BY <1>3, <1>4, <1>7, <1>8, FromCount
<1>10. ASSUME NEW t \in Subscribers
       PROVE  Same(t) /\ commandTo'[t] = commandTo[t]
  BY <1>1 DEF Same, Closed, subVars, listenerVars, matchVars
<1>11. ASSUME NEW t \in Subscribers, t # u PROVE Handshake(t)'
  <2>1. SameChannels(t)
    BY <1>3, <1>10, <1>11 DEF SameChannels
  <2>2. t \in from' <=> t \in from
    BY <1>7, <1>11
  <2> QED
    BY <1>7, <1>10, <2>1, <2>2, HandshakeFrame DEF Prompt
<1>12. Handshake(u)'
  <2>1. u \in from' /\ Told(u, wanted)'
    BY <1>5, <1>7 DEF Told
  <2>2. /\ Linked(u) => Linked(u)'
        /\ Rigged(u) => Rigged(u)'
        /\ Closed(u) => Closed(u)'
        /\ Has0(u) => Has0(u)'
        /\ subPc'[u] = subPc[u]
    BY <1>3, <1>10, SameParts DEF Same, Has0
  <2>3. CASE pubPc = "rig"
    <3>1. Rigged(u) /\ Has0(u)
      BY <1>3, <2>3 DEF Prompt, Handshake
    <3> QED
      BY <1>7, <2>1, <2>2, <2>3, <3>1 DEF Handshake
  <2>4. CASE pubPc = "removed"
    <3>1. subPc[u] = "idle" /\ Closed(u) /\ Has0(u)
      BY <1>3, <2>4 DEF Prompt, Handshake
    <3> QED
      BY <1>7, <2>1, <2>2, <2>4, <3>1 DEF Handshake
  <2>5. CASE pubPc = "results"
    <3>1. subPc[u] = "idle" /\ Linked(u) /\ Has0(u)
      BY <1>3, <2>5 DEF Prompt, Handshake
    <3> QED
      BY <1>7, <2>1, <2>2, <2>5, <3>1 DEF Handshake
  <2> QED
    BY <1>1, <2>3, <2>4, <2>5
<1> QED
  BY <1>6, <1>9, <1>11, <1>12 DEF Prompt

\* A step of one subscriber.
LEMMA PromptSubscriber ==
    ASSUME Prompt, NEW s \in Subscribers, UNCHANGED pubVars, from' = from, Handshake(s)',
           \A t \in Subscribers : t # s => Same(t) /\ SameChannels(t)
    PROVE  Prompt'
<1>1. UNCHANGED <<pubPc, ready, from>>
  BY DEF pubVars
<1>2. ASSUME NEW t \in Subscribers, t # s PROVE Handshake(t)'
  BY <1>1, <1>2, HandshakeFrame DEF Prompt
<1> QED
  BY <1>1, <1>2 DEF Prompt

\* Discovery, and samples.
LEMMA PromptDiscovery ==
    ASSUME Shape, Prompt, NEW s \in Subscribers, Discovery(s) \/ SubOnData(s)
    PROVE  Prompt'
<1>1. UNCHANGED <<pubVars, from, subPc, subOpen, enabled, commandTo, inbox>>
  <2>1. CASE Discovery(s)
    BY <2>1 DEF Discovery, PubOnCommandMatched, SubOnCommandMatched, PubOnDataMatched, SubOnDataMatched,
       subVars, listenerVars, channelVars, historyVars
  <2>2. CASE SubOnData(s)
    BY <2>2 DEF SubOnData, historyVars
  <2> QED
    BY <2>1, <2>2
<1>2. ASSUME NEW t \in Subscribers
      PROVE  (linked[t] => linked'[t]) /\ (Closed(t) => Closed(t)')
  <2>0. pubMatches \in [Subscribers -> Matches] /\ linked \in [Subscribers -> BOOLEAN]
    BY DEF Shape, MatchShape
  <2>1. CASE PubOnCommandMatched(s)
    <3>1. /\ pubMatches' = [pubMatches EXCEPT ![s] = [pubMatches[s] EXCEPT !.command = pubMatches[s].command + 1]]
          /\ pubMatches[s].command < 2 /\ linked' = linked
      BY <2>1 DEF PubOnCommandMatched
    <3>2. pubMatches'[t].data = pubMatches[t].data
      BY <2>0, <3>1, MatchTypes
    <3> QED
      BY <1>1, <3>1, <3>2 DEF Closed
  <2>2. CASE SubOnCommandMatched(s) \/ SubOnData(s)
    BY <1>1, <2>2 DEF SubOnCommandMatched, SubOnData, matchVars, Closed
  <2>3. CASE PubOnDataMatched(s)
    <3>1. /\ pubMatches' = [pubMatches EXCEPT ![s] = [pubMatches[s] EXCEPT !.data = 1]]
          /\ subOpen[s] /\ linked' = linked
      BY <2>3 DEF PubOnDataMatched
    <3>2. t # s => pubMatches'[t] = pubMatches[t]
      BY <2>0, <3>1
    <3> QED
      BY <1>1, <3>1, <3>2 DEF Closed
  <2>4. CASE SubOnDataMatched(s)
    BY <1>1, <2>0, <2>4 DEF SubOnDataMatched, Closed
  <2> QED
    BY <2>1, <2>2, <2>3, <2>4 DEF Discovery
<1>3. ASSUME NEW t \in Subscribers PROVE Same(t) /\ SameChannels(t)
  BY <1>1, <1>2 DEF Same, SameChannels, Silent, Said, Answers, Kind
<1>4. Handshake(s)'
  BY <1>1, <1>3, HandshakeFrame DEF Prompt, pubVars
<1> QED
  BY <1>1, <1>3, <1>4, PromptSubscriber

\* The steps of a subscriber's thread that write nothing.
LEMMA PromptSubReads ==
    ASSUME Shape, Prompt, NEW s \in Subscribers,
           \/ SubCommandsDiscovered(s) \/ SubDataDiscovered(s) \/ SubTypeNew(s) \/ SubTestStarts(s)
           \/ SubTestEnds(s) \/ SubAllStops(s)
    PROVE  Prompt'
<1>0. /\ pubPc \in PubPlaces /\ subPc \in [Subscribers -> SubPlaces] /\ subOpen \in [Subscribers -> BOOLEAN]
      /\ enabled \in [Subscribers -> BOOLEAN]
  BY DEF Shape, PubShape, SubShape, ListenerShape
<1>1. /\ UNCHANGED <<pubVars, linked, pubMatches, inbox, test, from>> /\ pubPc' = pubPc
  BY DEF SubCommandsDiscovered, SubDataDiscovered, SubTypeNew, SubTestStarts, SubTestEnds, SubAllStops,
     matchVars, channelVars, historyVars, pubVars
<1>2. /\ Silent(s) => Silent(s)'
      /\ \A k : Said(s, k) => Said(s, k)'
  BY <1>1 DEF Silent, Said, Answers, Kind
<1>3. ASSUME NEW t \in Subscribers, t # s PROVE Same(t) /\ SameChannels(t)
  <2>1. commandTo'[t] = commandTo[t]
    <3>1. CASE SubCommandsDiscovered(s) \/ SubDataDiscovered(s)
      BY <3>1 DEF SubCommandsDiscovered, SubDataDiscovered, channelVars
    <3>2. CASE ~(SubCommandsDiscovered(s) \/ SubDataDiscovered(s))
      <4>1. \E k : Reads(s, k)
        BY <3>2 DEF SubTypeNew, SubTestStarts, SubTestEnds, SubAllStops
      <4> QED
        BY <1>3, <4>1, ReadTypes
    <3> QED
      BY <3>1, <3>2
  <2>2. /\ subPc' \in {subPc, [subPc EXCEPT ![s] = subPc'[s]]}
        /\ subOpen' \in {subOpen, [subOpen EXCEPT ![s] = subOpen'[s]]}
        /\ enabled' \in {enabled, [enabled EXCEPT ![s] = enabled'[s]]}
    <3>1. CASE SubCommandsDiscovered(s) \/ SubDataDiscovered(s) \/ SubTestStarts(s)
      BY <1>0, <3>1 DEF SubCommandsDiscovered, SubDataDiscovered, SubTestStarts, subVars, listenerVars
    <3>2. CASE SubTypeNew(s) \/ SubAllStops(s)
      BY <1>0, <3>2 DEF SubTypeNew, SubCreatesReader, SubAllStops, listenerVars
    <3>3. CASE SubTestEnds(s)
      BY <1>0, <3>3 DEF SubTestEnds
    <3> QED
      BY <3>1, <3>2, <3>3
  <2>3. subPc'[t] = subPc[t] /\ subOpen'[t] = subOpen[t] /\ enabled'[t] = enabled[t]
    BY <1>0, <1>3, <2>2
  <2> QED
    BY <1>1, <2>1, <2>3 DEF Same, SameChannels, Closed, Silent, Said, Answers, Kind
<1>4. Handshake(s)
  BY DEF Prompt
<1>5. Handshake(s)'
  <2>1. CASE SubCommandsDiscovered(s)
    <3>1. subPc[s] = "match" /\ subPc'[s] = "idle" /\ UNCHANGED <<subOpen, commandTo>>
      BY <1>0, <2>1 DEF SubCommandsDiscovered, channelVars
    <3>2. pubPc \in {"match", "new", "create", "discover", "done"} /\ ~Found(s)
      BY <1>0, <1>4, <3>1 DEF Handshake, PubPlaces, Found, Rigged
    <3>3. /\ Closed(s) => Closed(s)'
          /\ Has0(s) => Has0(s)'
          /\ Has1(s, "TYPE_NEW") => Has1(s, "TYPE_NEW")'
      BY <1>1, <3>1 DEF Closed, Has0, Has1
    <3> QED
      BY <1>1, <1>2, <1>4, <3>1, <3>2, <3>3 DEF Handshake
  <2>2. CASE SubDataDiscovered(s)
    <3>1. /\ subPc[s] = "discover" /\ subPc'[s] = "idle" /\ UNCHANGED <<subOpen, commandTo>>
          /\ matches_of(subMatches, s) = 3
      BY <1>0, <2>2 DEF SubDataDiscovered, channelVars
    <3>2. linked[s]
      <4>1. /\ subMatches[s].command \in 0..2 /\ subMatches[s].data \in 0..1
            /\ subMatches[s].data = 1 => linked[s]
        BY MatchTypes DEF Shape, MatchShape
      <4>2. subMatches[s].data = 1
        BY <3>1, <4>1 DEF matches_of
      <4> QED
        BY <4>1, <4>2
    <3>3. pubPc \in {"create", "discover", "ready", "rig", "done"} /\ (pubPc # "done" => Found(s) /\ ~Rigged(s))
      BY <1>0, <1>4, <3>1 DEF Handshake, PubPlaces, Rigged
    <3>4. /\ Found(s) => Found(s)'
          /\ Has0(s) => Has0(s)'
          /\ Has1(s, "READY_TO_START") => Has1(s, "READY_TO_START")'
      BY <1>1, <3>1, <3>2 DEF Found, Has0, Has1
    <3> QED
      BY <1>1, <1>2, <1>4, <3>1, <3>3, <3>4 DEF Handshake
  <2>3. CASE SubTypeNew(s)
    <3>0. Reads(s, "TYPE_NEW") /\ subPc[s] = "idle" /\ SubCreatesReader(s)
      BY <2>3 DEF SubTypeNew, Reads
    <3>1. ~subOpen[s] => subPc'[s] = "discover" /\ subOpen'[s]
      BY <1>0, <3>0 DEF SubCreatesReader
    <3>2. /\ ~Has0(s) /\ \A k : Has1(s, k) => k = "TYPE_NEW" /\ Has0(s)'
          /\ \A k1, k2 : Has2(s, k1, k2) => k1 = "TYPE_NEW" /\ Has1(s, k2)'
      BY <1>1, <3>0, ReadOne
    <3>3. pubPc \in {"create", "discover", "done"}
      BY <1>0, <1>4, <3>0, <3>2 DEF Handshake, PubPlaces
    <3>4. pubPc # "done" => Silent(s) /\ Has0(s)' /\ ~subOpen[s]
      BY <1>4, <3>2, <3>3 DEF Handshake, Closed
    <3>5. pubPc # "done" => Found(s)'
      BY <3>1, <3>4 DEF Found
    <3> QED
      BY <1>1, <1>2, <3>3, <3>4, <3>5 DEF Handshake
  <2>4. CASE SubTestStarts(s)
    <3>1. Reads(s, "TEST_STARTS") /\ UNCHANGED <<subPc, subOpen, enabled>>
      BY <2>4 DEF SubTestStarts, subVars, listenerVars
    <3>2. /\ ~Has0(s) /\ \A k : Has1(s, k) => k = "TEST_STARTS" /\ Has0(s)'
          /\ \A k1, k2 : Has2(s, k1, k2) => k1 = "TEST_STARTS" /\ Has1(s, k2)'
      BY <1>1, <3>1, ReadOne
    <3>3. /\ pubPc \in {"send", "results", "done"}
          /\ pubPc = "send" => Rigged(s) /\ Has0(s)' /\ Silent(s)
          /\ pubPc = "results" =>
                Linked(s) /\ subPc[s] = "idle" /\ Silent(s) /\ s \notin from /\ Has1(s, "TEST_ENDS")'
      BY <1>0, <1>4, <3>2 DEF Handshake, PubPlaces
    <3>4. /\ Rigged(s) => Rigged(s)'
          /\ Linked(s) => Linked(s)'
      BY <1>1, <3>1 DEF Rigged, Linked
    <3> QED
      BY <1>1, <1>2, <3>1, <3>3, <3>4 DEF Handshake
  <2>5. CASE SubTestEnds(s)
    <3>1. Reads(s, "TEST_ENDS") /\ subPc'[s] = "report" /\ UNCHANGED subOpen
      BY <1>0, <2>5 DEF SubTestEnds
    <3>2. /\ ~Has0(s) /\ \A k : Has1(s, k) => k = "TEST_ENDS" /\ Has0(s)'
          /\ \A k1, k2 : Has2(s, k1, k2) => k1 = "TEST_ENDS" /\ Has1(s, k2)'
      BY <1>1, <3>1, ReadOne
    <3>3. /\ pubPc \in {"results", "done"}
          /\ pubPc = "results" => Linked(s) /\ Silent(s) /\ s \notin from /\ Has0(s)'
      BY <1>0, <1>4, <3>2 DEF Handshake, PubPlaces
    <3>4. Linked(s) => Linked(s)'
      BY <1>1, <3>1 DEF Linked
    <3> QED
      BY <1>1, <1>2, <3>1, <3>3, <3>4 DEF Handshake
  <2>6. CASE SubAllStops(s)
    <3>1. Reads(s, "ALL_STOPS")
      BY <2>6 DEF SubAllStops
    <3>2. /\ ~Has0(s) /\ \A k : Has1(s, k) => k = "ALL_STOPS"
          /\ \A k1, k2 : Has2(s, k1, k2) => k1 = "ALL_STOPS"
      BY <1>1, <3>1, ReadOne
    <3>3. pubPc = "done"
      BY <1>0, <1>4, <3>2 DEF Handshake, PubPlaces
    <3> QED
      BY <1>1, <3>3 DEF Handshake
  <2> QED
    BY <2>1, <2>2, <2>3, <2>4, <2>5, <2>6
<1> QED
  BY <1>1, <1>3, <1>5, PromptSubscriber

\* The steps of a subscriber's thread that answer.
LEMMA PromptSubAnswers ==
    ASSUME Shape, Prompt, NEW s \in Subscribers,
           SubReadyToStart(s) \/ SubReports(s) \/ SubTypeDispose(s)
    PROVE  Prompt'
<1>0. /\ pubPc \in PubPlaces /\ subPc \in [Subscribers -> SubPlaces] /\ subOpen \in [Subscribers -> BOOLEAN]
      /\ linked \in [Subscribers -> BOOLEAN] /\ pubMatches \in [Subscribers -> Matches]
  BY DEF Shape, PubShape, SubShape, MatchShape
<1>1. UNCHANGED <<pubVars, test, from>> /\ pubPc' = pubPc
  BY DEF SubReadyToStart, SubReports, SubTypeDispose, historyVars, pubVars
<1>2. Handshake(s)
  BY DEF Prompt
<1>3. ASSUME NEW kind \in Commands, inbox' = Append(inbox, Answer(s, kind)), NEW t \in Subscribers, t # s,
             commandTo'[t] = commandTo[t]
      PROVE  SameChannels(t)
  BY <1>3, Answered DEF SameChannels
<1>4. CASE SubReadyToStart(s)
  <2>1. /\ Reads(s, "READY_TO_START") /\ ListenerReset(s) /\ inbox' = Append(inbox, Answer(s, "BEGIN"))
        /\ UNCHANGED <<subPc, subOpen, pubMatches, linked>> /\ subPc[s] = "idle"
    BY <1>4 DEF SubReadyToStart, Reads
  <2>2. /\ ~Has0(s) /\ \A k : Has1(s, k) => k = "READY_TO_START" /\ Has0(s)'
        /\ \A k1, k2 : Has2(s, k1, k2) => k1 = "READY_TO_START"
        /\ \A t \in Subscribers : t # s => commandTo'[t] = commandTo[t]
    BY <1>1, <2>1, ReadOne
  <2>3. enabled'[s] /\ \A t \in Subscribers : t # s => enabled'[t] = enabled[t]
    BY <2>1, ResetShape
  <2>4. \A t \in Subscribers : t # s => Same(t) /\ SameChannels(t)
    <3>1. ASSUME NEW t \in Subscribers, t # s PROVE Same(t)
      BY <2>1, <2>3, <3>1 DEF Same, Closed
    <3>2. ASSUME NEW t \in Subscribers, t # s PROVE SameChannels(t)
      BY <1>3, <2>1, <2>2, <3>2, Kinds
    <3> QED
      BY <3>1, <3>2
  <2>5. /\ pubPc \in {"rig", "done"}
        /\ pubPc = "rig" => Found(s) /\ Has0(s)' /\ Silent(s) /\ s \notin from
    BY <1>0, <1>2, <2>2 DEF Handshake, PubPlaces
  <2>6. Silent(s) => Said(s, "BEGIN")'
    BY <2>1, Answered, Kinds
  <2>7. Found(s) => Rigged(s)'
    BY <2>1, <2>3 DEF Found, Rigged, Linked
  <2>8. Handshake(s)'
    BY <1>1, <2>5, <2>6, <2>7 DEF Handshake, Told
  <2> QED
    BY <1>1, <2>4, <2>8, PromptSubscriber
<1>5. CASE SubReports(s)
  <2>1. /\ subPc[s] = "report" /\ subPc' = [subPc EXCEPT ![s] = "idle"]
        /\ inbox' = Append(inbox, Answer(s, "TEST_RESULTS"))
        /\ UNCHANGED <<subOpen, enabled, pubMatches, linked, commandTo>>
    BY <1>5 DEF SubReports, listenerVars, matchVars
  <2>2. subPc'[s] = "idle" /\ \A t \in Subscribers : t # s => subPc'[t] = subPc[t]
    BY <1>0, <2>1
  <2>3. \A t \in Subscribers : t # s => Same(t) /\ SameChannels(t)
    <3>1. ASSUME NEW t \in Subscribers, t # s PROVE Same(t)
      BY <2>1, <2>2, <3>1 DEF Same, Closed
    <3>2. ASSUME NEW t \in Subscribers, t # s PROVE SameChannels(t)
      BY <1>3, <2>1, <3>2, Kinds
    <3> QED
      BY <3>1, <3>2
  <2>4. /\ pubPc \in {"results", "done"}
        /\ pubPc = "results" => Linked(s) /\ Has0(s) /\ Silent(s) /\ s \notin from
    BY <1>0, <1>2, <2>1 DEF Handshake, PubPlaces, Found, Rigged
  <2>5. Silent(s) => Said(s, "TEST_RESULTS")'
    BY <2>1, Answered, Kinds
  <2>6. /\ Linked(s) => Linked(s)'
        /\ Has0(s) => Has0(s)'
    BY <2>1 DEF Linked, Has0
  <2>7. Handshake(s)'
    BY <1>1, <2>2, <2>4, <2>5, <2>6 DEF Handshake, Told
  <2> QED
    BY <1>1, <2>3, <2>7, PromptSubscriber
<1>6. CASE SubTypeDispose(s)
  <2>1. /\ Reads(s, "TYPE_DISPOSE") /\ ListenerReset(s) /\ inbox' = Append(inbox, Answer(s, "TYPE_REMOVED"))
        /\ subOpen' = [subOpen EXCEPT ![s] = FALSE] /\ linked' = [linked EXCEPT ![s] = FALSE]
        /\ pubMatches' = [pubMatches EXCEPT ![s] = [pubMatches[s] EXCEPT !.data = 0]]
        /\ UNCHANGED subPc /\ subPc[s] = "idle"
    BY <1>6 DEF SubTypeDispose, SubRemovesReader, Reads
  <2>2. /\ ~Has0(s) /\ \A k : Has1(s, k) => k = "TYPE_DISPOSE" /\ Has0(s)'
        /\ \A k1, k2 : Has2(s, k1, k2) => k1 = "TYPE_DISPOSE"
        /\ \A t \in Subscribers : t # s => commandTo'[t] = commandTo[t]
    BY <1>1, <2>1, ReadOne
  <2>3. /\ \A t \in Subscribers : t # s =>
            /\ enabled'[t] = enabled[t] /\ subOpen'[t] = subOpen[t] /\ linked'[t] = linked[t]
            /\ pubMatches'[t] = pubMatches[t]
    BY <1>0, <2>1, ResetShape
  <2>4. \A t \in Subscribers : t # s => Same(t) /\ SameChannels(t)
    <3>1. ASSUME NEW t \in Subscribers, t # s PROVE Same(t)
      BY <2>1, <2>3, <3>1 DEF Same, Closed
    <3>2. ASSUME NEW t \in Subscribers, t # s PROVE SameChannels(t)
      BY <1>3, <2>1, <2>2, <3>2, Kinds
    <3> QED
      BY <3>1, <3>2
  <2>5. Closed(s)'
    <3>1. ~subOpen'[s] /\ pubMatches'[s].data = 0
      BY <1>0, <2>1, MatchTypes
    <3> QED
      BY <3>1 DEF Closed
  <2>6. /\ pubPc \in {"destroy", "removed", "done"}
        /\ pubPc # "done" => Has0(s)' /\ Silent(s)
        /\ pubPc = "removed" => s \notin from
    BY <1>0, <1>2, <2>2 DEF Handshake, PubPlaces
  <2>7. Silent(s) => Said(s, "TYPE_REMOVED")'
    BY <2>1, Answered, Kinds
  <2>8. Handshake(s)'
    BY <1>1, <2>1, <2>5, <2>6, <2>7 DEF Handshake, Told
  <2> QED
    BY <1>1, <2>4, <2>8, PromptSubscriber
<1> QED
  BY <1>4, <1>5, <1>6

\* The initial state.
LEMMA PromptInit == Init => Prompt
<1> SUFFICES ASSUME Init PROVE Prompt
  OBVIOUS
<1>1. /\ pubPc = "match" /\ commandTo = [s \in Subscribers |-> <<>>] /\ inbox = <<>>
      /\ subPc = [s \in Subscribers |-> "match"] /\ subOpen = [s \in Subscribers |-> FALSE]
      /\ pubMatches = [s \in Subscribers |-> Unmatched]
  BY DEF Init
<1>2. ASSUME NEW H PROVE None(<<>>, H)
  BY DEF None
<1>3. ASSUME NEW s \in Subscribers PROVE Handshake(s)
  <2>1. subPc[s] = "match" /\ Closed(s) /\ Has0(s)
    BY <1>1 DEF Closed, Has0, Unmatched
  <2>2. Silent(s)
    BY <1>1, <1>2 DEF Silent
  <2> QED
    BY <1>1, <2>1, <2>2 DEF Handshake
<1> QED
  BY <1>1, <1>3 DEF Prompt

\* Every step but a failing call and a read that times out.
LEMMA PromptStep == Shape /\ Prompt /\ [Next]_vars /\ ~Timeouts /\ ~Faults => Prompt'
<1> SUFFICES ASSUME Shape, Prompt, [Next]_vars, ~Timeouts, ~Faults PROVE Prompt'
  OBVIOUS
<1>1. ASSUME UNCHANGED vars \/ SpuriousWakeup PROVE Prompt'
  <2>1. UNCHANGED <<pubVars, from, subPc, subOpen, linked, enabled, pubMatches, commandTo, inbox>>
    BY <1>1 DEF vars, SpuriousWakeup, subVars, listenerVars, matchVars, channelVars, historyVars
  <2>2. \A t \in Subscribers : Same(t) /\ SameChannels(t)
    BY <2>1 DEF Same, SameChannels, Closed, Silent, Said, Answers, Kind
  <2>3. \A t \in Subscribers : Handshake(t)'
    BY <2>1, <2>2, HandshakeFrame DEF Prompt, pubVars
  <2> QED
    BY <2>1, <2>3 DEF Prompt, pubVars
<1>2. CASE \/ PubCommandsDiscovered \/ PubCreate \/ PubDataDiscovered \/ PubRigged
           \/ PubSendsBurst \/ PubResultsIn \/ PubTypeRemoved
  BY <1>2, PromptPubGoes
<1>3. CASE \/ PubTypeNew \/ PubReadyToStart \/ PubTestStarts \/ PubTestEnds \/ PubTypeDispose \/ PubAllStops
  BY <1>3, PromptPubWrites
<1>4. CASE PubDestroy
  BY <1>4, PromptPubDestroys
<1>5. CASE PubTakes \/ PubTakesResults \/ PubUnexpectedCommand
  BY <1>5, PromptTakes
<1>6. ASSUME NEW s \in Subscribers, SubThread(s) \/ Discovery(s) \/ SubOnData(s)
      PROVE  Prompt'
  BY <1>6, PromptDiscovery, PromptSubReads, PromptSubAnswers DEF SubThread
<1>7. ASSUME NEW s \in Subscribers, CommandLost(s) PROVE Prompt'
  <2>1. pubPc' = "done"
    BY <1>7 DEF CommandLost, pubVars
  <2> QED
    BY <2>1 DEF Prompt, Handshake
<1> QED
  BY <1>1, <1>2, <1>3, <1>4, <1>5, <1>6, <1>7 DEF Next, Progress, PubThread

-----------------------------------------------------------------------------
(* The table of results.                                                   *)

\* The initial state.
LEMMA TableInit == Init => Table
<1> SUFFICES ASSUME Init PROVE Table
  OBVIOUS
<1>1. pubPc = "match" /\ results = <<>> /\ test = 0
  BY DEF Init
<1>2. Len(results) = 0
  BY <1>1
<1> QED
  BY <1>1, <1>2 DEF Table, Entries, Lengths, Reports

\* The steps of the publisher that touch neither the table nor the reports.
LEMMA TablePub ==
    ASSUME Shape, Table,
           \/ PubCommandsDiscovered \/ PubTypeNew \/ PubCreate \/ PubDataDiscovered \/ PubReadyToStart
           \/ PubTakes \/ PubRigged \/ PubTestStarts \/ PubSendsBurst \/ PubResultsIn
           \/ PubTypeDispose \/ PubDestroy \/ PubTypeRemoved \/ PubAllStops
    PROVE  Table'
<1>1. Len(results) \in Nat /\ test \in Nat /\ N \in Nat \ {0} /\ PubShape
  BY Constants DEF Shape, PubShape, TestShape
<1>2. results' = results
  BY DEF PubCommandsDiscovered, PubTypeNew, PubCreate, PubDataDiscovered, PubReadyToStart, PubTakes,
         PubRigged, PubTestStarts, PubSendsBurst, PubResultsIn, PubTypeDispose, PubDestroy,
         PubTypeRemoved, PubAllStops
<1> DEFINE Running == {"rig", "starts", "send"}
<1>3. CASE PubReadyToStart
  <2>1. pubPc = "ready" /\ pubPc' = "rig" /\ test' = test + 1
    BY <1>3 DEF PubReadyToStart
  <2>2. Len(results) = test
    BY <2>1 DEF Table, Lengths
  <2> QED
    BY <1>1, <1>2, <2>1, <2>2 DEF Table, Entries, Lengths, Reports
<1>4. CASE PubTakes \/ PubRigged \/ PubTestStarts \/ PubSendsBurst
  <2>1. /\ test' = test
        /\ \/ pubPc \in Running /\ pubPc' \in Running
           \/ pubPc = "removed" /\ pubPc' = "removed"
    BY <1>4 DEF PubTakes, PubRigged, PubTestStarts, PubSendsBurst, historyVars
  <2> QED
    BY <1>2, <2>1 DEF Table, Entries, Lengths, Reports
<1>5. CASE PubResultsIn
  <2>1. /\ pubPc = "results" /\ ready = N /\ pubPc' \in {"ready", "dispose"} /\ test' = test
    BY <1>1, <1>5, AfterTestShape DEF PubResultsIn, historyVars
  <2>2. Len(results) = test
    BY <1>1, <2>1 DEF Table, Lengths
  <2> QED
    BY <1>2, <2>1, <2>2 DEF Table, Entries, Lengths, Reports
<1>6. CASE \/ PubCommandsDiscovered \/ PubTypeNew \/ PubCreate \/ PubDataDiscovered
           \/ PubTypeDispose \/ PubDestroy \/ PubTypeRemoved \/ PubAllStops
  <2>1. /\ test' = test
        /\ pubPc \notin Running \cup {"results"} /\ pubPc' \notin Running \cup {"results"}
    BY <1>6 DEF PubCommandsDiscovered, PubTypeNew, PubCreate, PubDataDiscovered, PubTypeDispose,
                PubDestroy, PubTypeRemoved, PubAllStops, historyVars
  <2>2. Len(results) = test
    BY <2>1 DEF Table, Lengths
  <2> QED
    BY <1>2, <2>1, <2>2 DEF Table, Entries, Lengths, Reports
<1> QED
  BY <1>3, <1>4, <1>5, <1>6

\* TEST_ENDS finds no report on its way.
LEMMA TableTestEnds == ASSUME Shape, Prompt, Table, PubTestEnds PROVE Table'
<1>1. /\ pubPc = "send" /\ pubPc' = "results" /\ ready' = 0
      /\ UNCHANGED <<results, test, samples, inbox, subPc, subSaved>>
  BY DEF PubTestEnds, subVars, listenerVars
<1>2. ASSUME NEW i \in 1..Len(inbox) PROVE FALSE
  <2>1. inbox[i] \in AnswerType
    BY ElementType DEF Shape, CommandShape
  <2>2. inbox[i].from \in Subscribers
    BY <2>1 DEF AnswerType
  <2>3. PICK s \in Subscribers : s = inbox[i].from
    BY <2>2
  <2>4. Silent(s)
    BY <1>1 DEF Prompt, Handshake
  <2>5. inbox[i] \notin Answers(s)
    BY <2>4 DEF Silent, None
  <2> QED
    BY <2>1, <2>3, <2>5 DEF Answers
<1>3. ASSUME NEW s \in Subscribers PROVE subPc[s] = "idle"
  BY <1>1 DEF Prompt, Handshake, Rigged
<1>4. Reports'
  BY <1>1, <1>2, <1>3 DEF Reports
<1>5. Lengths' /\ Entries'
  BY <1>1 DEF Table, Lengths, Entries
<1> QED
  BY <1>4, <1>5 DEF Table

\* A report starts the entry of its test, or is added to it.
LEMMA TableTakes == ASSUME Shape, Table, PubTakesResults PROVE Table'
<1> DEFINE report == Head(inbox).numbers
<1>1. /\ pubPc = "results" /\ pubPc' = "results" /\ inbox # <<>> /\ inbox' = Tail(inbox)
      /\ results' = IF ready = 0 THEN Append(results, NewEntry(report))
                    ELSE [results EXCEPT ![Len(results)] = Add(results[Len(results)], report)]
      /\ ready' = ready + 1
      /\ UNCHANGED <<test, samples, subPc, subSaved>>
  BY DEF PubTakesResults, subVars, listenerVars
<1>2. /\ Len(inbox) \in Nat \ {0} /\ Head(inbox) = inbox[1] /\ report.received \in Nat
  BY <1>1, TakeTypes
<1>3. report.received <= samples
  BY <1>1, <1>2 DEF Table, Reports
<1>4. /\ results \in Seq(Entry) /\ test \in Nat /\ ready \in Nat /\ samples \in Nat
      /\ Len(results) \in Nat
  BY SamplesNatural, Constants DEF Shape, PubShape, TestShape
<1>5. Reports'
  <2>1. /\ Len(Tail(inbox)) = Len(inbox) - 1
        /\ \A i \in 1..(Len(inbox) - 1) : Tail(inbox)[i] = inbox[i + 1]
    BY <1>1, TailElements DEF Shape, CommandShape
  <2>2. ASSUME NEW i \in 1..Len(Tail(inbox)) PROVE Tail(inbox)[i].numbers.received <= samples
    <3>1. i \in 1..(Len(inbox) - 1) /\ i + 1 \in 1..Len(inbox)
      BY <1>2, <2>1
    <3> QED
      BY <1>1, <2>1, <3>1 DEF Table, Reports
  <2> QED
    BY <1>1, <2>2 DEF Table, Reports
<1> HIDE DEF report
<1>6. CASE ready = 0
  <2>1. Len(results) = test - 1 /\ results' = Append(results, NewEntry(report)) /\ ready' = 1
    BY <1>1, <1>6 DEF Table, Lengths
  <2>2. /\ Len(results') = Len(results) + 1 /\ results'[Len(results) + 1] = NewEntry(report)
        /\ \A i \in 1..Len(results) : results'[i] = results[i]
    BY <1>4, <2>1, AppendElements
  <2>3. /\ NewEntry(report).recv <= NewEntry(report).send
        /\ NewEntry(report).lost = NewEntry(report).send - NewEntry(report).recv
        /\ NewEntry(report).test = test
    BY <1>3, <1>4 DEF NewEntry
  <2>4. Lengths'
    BY <1>1, <1>4, <2>1, <2>2 DEF Lengths
  <2>5. ASSUME NEW i \in 1..Len(results')
        PROVE  /\ results'[i].recv <= results'[i].send
               /\ results'[i].lost = results'[i].send - results'[i].recv
               /\ results'[i].test = i
    <3>1. i \in 1..Len(results) \/ i = Len(results) + 1
      BY <1>4, <2>2
    <3>2. CASE i \in 1..Len(results)
      BY <2>2, <3>2 DEF Table, Entries
    <3>3. CASE i = Len(results) + 1
      <4>1. i = test /\ results'[i] = NewEntry(report)
        BY <1>4, <2>1, <2>2, <3>3
      <4> QED
        BY <2>3, <4>1
    <3> QED
      BY <3>1, <3>2, <3>3
  <2> QED
    BY <1>5, <2>4, <2>5 DEF Table, Entries
<1>7. CASE ready # 0
  <2> DEFINE n == Len(results)
             e == results[n]
             f == Add(e, report)
  <2>1. n = test /\ results' = [results EXCEPT ![n] = f] /\ results # <<>> /\ ready' # 0
    BY <1>1, <1>4, <1>7 DEF Table, Lengths, Shape, PubShape
  <2>2. n \in 1..Len(results) /\ e \in Entry
    BY <1>4, <2>1, ElementType
  <2>3. /\ f.test = e.test /\ f.send = e.send + samples
        /\ f.recv = e.recv + report.received
        /\ f.lost = e.lost + (samples - report.received)
    BY <1>2, <1>4, <2>2, AddFields DEF report
  <2>4. e.recv <= e.send /\ e.lost = e.send - e.recv /\ e.test = n
    BY <2>2 DEF Table, Entries
  <2>5. e.recv \in Nat /\ e.send \in Nat
    BY <2>2 DEF Entry
  <2>6. /\ Len(results') = n /\ results'[n] = f
        /\ \A i \in 1..n : i # n => results'[i] = results[i]
    BY <1>4, <2>1, <2>2
  <2> HIDE DEF e, f
  <2>7. f.recv <= f.send /\ f.lost = f.send - f.recv /\ f.test = n
    BY <1>2, <1>3, <1>4, <2>3, <2>4, <2>5 DEF report
  <2>8. Lengths'
    BY <1>1, <2>1, <2>6 DEF Lengths
  <2>9. ASSUME NEW i \in 1..Len(results')
        PROVE  /\ results'[i].recv <= results'[i].send
               /\ results'[i].lost = results'[i].send - results'[i].recv
               /\ results'[i].test = i
    <3>1. CASE i = n
      BY <2>6, <2>7, <3>1
    <3>2. CASE i # n
      BY <2>6, <3>2 DEF Table, Entries
    <3> QED
      BY <3>1, <3>2
  <2> QED
    BY <1>5, <2>8, <2>9 DEF Table, Entries
<1> QED
  BY <1>6, <1>7

\* While results are awaited a subscriber reads TEST_STARTS and TEST_ENDS only.
LEMMA ReadsInResults ==
    ASSUME Shape, Prompt, pubPc = "results", NEW s \in Subscribers, NEW kind, Reads(s, kind)
    PROVE  kind \in {"TEST_STARTS", "TEST_ENDS"}
<1>1. commandTo[s][1].kind = kind /\ Len(commandTo[s]) # 0
  BY ReadTypes
<1>2. Has0(s) \/ Has1(s, "TEST_ENDS") \/ Has2(s, "TEST_STARTS", "TEST_ENDS")
  BY DEF Prompt, Handshake
<1> QED
  BY <1>1, <1>2 DEF Has0, Has1, Has2

\* The steps of a subscriber: what it saves and reports was received in this test.
LEMMA TableSub ==
    ASSUME Shape, Counts, Prompt, Table, NEW s \in Subscribers,
           SubThread(s) \/ Discovery(s) \/ SubOnData(s)
    PROVE  Table'
<1>1. UNCHANGED <<pubVars, test>>
  BY DEF SubThread, SubCommandsDiscovered, SubTypeNew, SubDataDiscovered, SubReadyToStart, SubTestStarts,
         SubTestEnds, SubReports, SubTypeDispose, SubAllStops, Discovery, PubOnCommandMatched,
         SubOnCommandMatched, PubOnDataMatched, SubOnDataMatched, SubOnData, historyVars
<1>2. UNCHANGED <<pubPc, ready, samples, results, test>>
  BY <1>1 DEF pubVars
<1>3. Entries' /\ Lengths'
  BY <1>2 DEF Table, Entries, Lengths
<1>4. Reports' \/ pubPc = "results"
  BY <1>2 DEF Reports
<1>5. ASSUME pubPc = "results" PROVE Reports'
  <2>1. /\ \A t \in Subscribers : subPc[t] = "report" => subSaved[t].received <= samples
        /\ \A i \in 1..Len(inbox) : inbox[i].numbers.received <= samples
    BY <1>5 DEF Table, Reports
  <2>2. CASE SubReadyToStart(s) \/ SubTypeDispose(s)
    <3>1. \E kind \in {"READY_TO_START", "TYPE_DISPOSE"} : Reads(s, kind)
      BY <2>2 DEF SubReadyToStart, SubTypeDispose
    <3> QED
      BY <1>5, <3>1, ReadsInResults
  <2>3. CASE SubTestEnds(s)
    <3>1. /\ subSaved' = [subSaved EXCEPT ![s] =
                            [last |-> lastSeq[s], lost |-> lost[s], received |-> received[s]]]
          /\ subPc' = [subPc EXCEPT ![s] = "report"] /\ inbox' = inbox
      BY <2>3 DEF SubTestEnds
    <3>2. subPc \in [Subscribers -> SubPlaces] /\ subSaved \in [Subscribers -> Numbers]
      BY DEF Shape, SubShape, ListenerShape
    <3>3. received[s] \in Nat /\ lost[s] \in Nat /\ lastSeq[s] \in Nat /\ samples \in Nat
      BY SamplesNatural DEF Shape, ListenerShape
    <3>4. received[s] + lost[s] = lastSeq[s] /\ lastSeq[s] <= samples
      BY <1>5 DEF Counts, Counted
    <3>5. received[s] <= samples
      BY <3>3, <3>4
    <3>6. /\ subSaved'[s].received = received[s]
          /\ \A t \in Subscribers : t # s => subSaved'[t] = subSaved[t] /\ subPc'[t] = subPc[t]
      BY <3>1, <3>2
    <3>7. \A t \in Subscribers : subPc'[t] = "report" => subSaved'[t].received <= samples
      BY <2>1, <3>5, <3>6
    <3> QED
      BY <1>2, <2>1, <3>1, <3>7 DEF Reports
  <2>4. CASE SubReports(s)
    <3>1. /\ subPc[s] = "report" /\ inbox' = Append(inbox, Answer(s, "TEST_RESULTS"))
          /\ subPc' = [subPc EXCEPT ![s] = "idle"] /\ subSaved' = subSaved
      BY <2>4 DEF SubReports, listenerVars
    <3>2. inbox \in Seq(AnswerType) /\ subPc \in [Subscribers -> SubPlaces]
      BY DEF Shape, CommandShape, SubShape
    <3>3. /\ Len(inbox) \in Nat /\ Len(inbox') = Len(inbox) + 1
          /\ inbox'[Len(inbox) + 1] = Answer(s, "TEST_RESULTS")
          /\ \A i \in 1..Len(inbox) : inbox'[i] = inbox[i]
      BY <3>1, <3>2, AppendElements
    <3>4. Answer(s, "TEST_RESULTS").numbers.received <= samples
      BY <2>1, <3>1 DEF Answer
    <3>5. ASSUME NEW i \in 1..Len(inbox') PROVE inbox'[i].numbers.received <= samples
      <4>1. i \in 1..Len(inbox) \/ i = Len(inbox) + 1
        BY <3>3
      <4> QED
        BY <2>1, <3>3, <3>4, <4>1
    <3>6. \A t \in Subscribers : subPc'[t] = "report" => subPc[t] = "report"
      BY <3>1, <3>2
    <3> QED
      BY <1>2, <2>1, <3>1, <3>5, <3>6 DEF Reports
  <2>5. CASE \/ SubCommandsDiscovered(s) \/ SubTypeNew(s) \/ SubDataDiscovered(s)
             \/ SubTestStarts(s) \/ SubAllStops(s) \/ Discovery(s) \/ SubOnData(s)
    <3>1. inbox' = inbox /\ subSaved' = subSaved
      BY <2>5 DEF SubCommandsDiscovered, SubTypeNew, SubDataDiscovered, SubTestStarts, SubAllStops,
                  Discovery, PubOnCommandMatched, SubOnCommandMatched, PubOnDataMatched,
                  SubOnDataMatched, SubOnData, channelVars, subVars, listenerVars
    <3>2. subPc' = subPc \/ \E place \in {"idle", "discover", "done"} :
                              subPc' = [subPc EXCEPT ![s] = place]
      BY <2>5 DEF SubCommandsDiscovered, SubTypeNew, SubCreatesReader, SubDataDiscovered, SubTestStarts,
                  SubAllStops, Discovery, PubOnCommandMatched, SubOnCommandMatched, PubOnDataMatched,
                  SubOnDataMatched, SubOnData, subVars
    <3>3. \A t \in Subscribers : subPc'[t] = "report" => subPc[t] = "report"
      BY <3>2 DEF Shape, SubShape
    <3> QED
      BY <1>2, <2>1, <3>1, <3>3 DEF Reports
  <2> QED
    BY <2>2, <2>3, <2>4, <2>5 DEF SubThread
<1> QED
  BY <1>3, <1>4, <1>5 DEF Table

\* Every step but a failing call and a read that times out.
LEMMA TableStep ==
    Shape /\ Counts /\ Prompt /\ Table /\ [Next]_vars /\ ~Timeouts /\ ~Faults => Table'
<1> SUFFICES ASSUME Shape, Counts, Prompt, Table, [Next]_vars, ~Timeouts, ~Faults PROVE Table'
  OBVIOUS
<1>1. CASE UNCHANGED vars
  <2>1. UNCHANGED <<pubPc, ready, samples, results, test, subPc, subSaved, inbox>>
    BY <1>1 DEF vars, pubVars, subVars, listenerVars, channelVars, historyVars
  <2> QED
    BY <2>1 DEF Table, Entries, Lengths, Reports
<1>2. CASE \/ PubCommandsDiscovered \/ PubTypeNew \/ PubCreate \/ PubDataDiscovered \/ PubReadyToStart
           \/ PubTakes \/ PubRigged \/ PubTestStarts \/ PubSendsBurst \/ PubResultsIn
           \/ PubTypeDispose \/ PubDestroy \/ PubTypeRemoved \/ PubAllStops
  BY <1>2, TablePub
<1>3. CASE PubTestEnds
  BY <1>3, TableTestEnds
<1>4. CASE PubTakesResults
  BY <1>4, TableTakes
<1>5. ~PubUnexpectedCommand
  BY PromptTakes
<1>6. ASSUME NEW s \in Subscribers, SubThread(s) \/ Discovery(s) \/ SubOnData(s)
      PROVE  Table'
  BY <1>6, TableSub
<1>7. ASSUME SpuriousWakeup \/ \E s \in Subscribers : CommandLost(s) PROVE Table'
  <2>1. UNCHANGED <<pubPc, ready, samples, results, test, subPc, subSaved, inbox>>
    BY <1>7 DEF SpuriousWakeup, CommandLost, pubVars, subVars, listenerVars, channelVars, historyVars
  <2> QED
    BY <2>1 DEF Table, Entries, Lengths, Reports
<1> QED
  BY <1>1, <1>2, <1>3, <1>4, <1>5, <1>6, <1>7 DEF Next, Progress, PubThread

-----------------------------------------------------------------------------
(* The payload sizes, one after the other.                                 *)

\* A command is written.
LEMMA AlternatesAppend ==
    ASSUME NEW q \in Seq(CommandType), NEW x \in CommandType
    PROVE  /\ Spaced(q) /\ (x.kind = "TYPE_NEW" => Ended(q)) => Spaced(Append(q, x))
           /\ Cleared(q) /\ (x.kind = "TYPE_NEW" => Disposing(q)) => Cleared(Append(q, x))
           /\ x.kind = "TYPE_DISPOSE" => Ended(Append(q, x)) /\ Disposing(Append(q, x))
<1> DEFINE r == Append(q, x)
<1>1. /\ Len(q) \in Nat /\ Len(r) = Len(q) + 1 /\ r[Len(q) + 1] = x
      /\ \A i \in 1..Len(q) : r[i] = q[i]
  BY AppendElements
<1> HIDE DEF r
<1>2. \A i \in 1..Len(r) : i \in 1..Len(q) \/ i = Len(q) + 1
  BY <1>1
<1>3. \A i \in 1..Len(q) : i \in 1..Len(r) /\ i < Len(q) + 1
  BY <1>1
<1>4. ASSUME Spaced(q), x.kind = "TYPE_NEW" => Ended(q) PROVE Spaced(r)
  <2> SUFFICES ASSUME NEW i \in 1..Len(r), NEW j \in 1..Len(r), i < j, IsNew(r, i), IsNew(r, j)
               PROVE  \E k \in 1..Len(r) : i < k /\ k < j /\ IsDispose(r, k)
    BY DEF Spaced
  <2>1. i \in 1..Len(q) /\ IsNew(q, i)
    BY <1>1, <1>2 DEF IsNew
  <2>2. CASE j \in 1..Len(q)
    <3>1. IsNew(q, j)
      BY <1>1, <2>2 DEF IsNew
    <3>2. PICK k \in 1..Len(q) : i < k /\ k < j /\ IsDispose(q, k)
      BY <1>4, <2>1, <2>2, <3>1 DEF Spaced
    <3> QED
      BY <1>1, <1>3, <3>2 DEF IsDispose
  <2>3. CASE j = Len(q) + 1
    <3>1. PICK k \in 1..Len(q) : i < k /\ IsDispose(q, k)
      BY <1>1, <1>4, <2>1, <2>3 DEF Ended, IsNew
    <3> QED
      BY <1>1, <1>3, <2>3, <3>1 DEF IsDispose
  <2> QED
    BY <1>2, <2>2, <2>3
<1>5. ASSUME Cleared(q), x.kind = "TYPE_NEW" => Disposing(q) PROVE Cleared(r)
  <2> SUFFICES ASSUME NEW j \in 1..Len(r), IsNew(r, j)
               PROVE  \E k \in 1..Len(r) : k < j /\ IsDispose(r, k)
    BY DEF Cleared
  <2>1. \E k \in 1..Len(q) : k < j /\ IsDispose(q, k)
    <3>1. CASE j \in 1..Len(q)
      BY <1>1, <1>5, <3>1 DEF Cleared, IsNew
    <3>2. CASE j = Len(q) + 1
      BY <1>1, <1>3, <1>5, <3>2 DEF Disposing, IsNew
    <3> QED
      BY <1>2, <3>1, <3>2
  <2> QED
    BY <1>1, <1>3, <2>1 DEF IsDispose
<1>6. ASSUME x.kind = "TYPE_DISPOSE" PROVE Ended(r) /\ Disposing(r)
  <2>1. Len(q) + 1 \in 1..Len(r) /\ IsDispose(r, Len(q) + 1) /\ ~IsNew(r, Len(q) + 1)
    BY <1>1, <1>6 DEF IsDispose, IsNew
  <2> QED
    BY <1>2, <1>3, <2>1 DEF Ended, Disposing
<1> QED
  BY <1>4, <1>5, <1>6 DEF r

\* A command is read.
LEMMA AlternatesTail ==
    ASSUME NEW q \in Seq(CommandType), q # <<>>
    PROVE  /\ Spaced(q) => Spaced(Tail(q))
           /\ Ended(q) => Ended(Tail(q))
           /\ Cleared(q) => Head(q).kind # "TYPE_NEW"
           /\ Head(q).kind = "TYPE_NEW" /\ Spaced(q) => Cleared(Tail(q))
           /\ Head(q).kind = "TYPE_NEW" /\ Ended(q) => Disposing(Tail(q))
           /\ Head(q).kind # "TYPE_DISPOSE" /\ Cleared(q) => Cleared(Tail(q))
           /\ Head(q).kind # "TYPE_DISPOSE" /\ Disposing(q) => Disposing(Tail(q))
<1> DEFINE r == Tail(q) h == Head(q)
<1>1. /\ Len(q) \in Nat \ {0} /\ Len(r) = Len(q) - 1 /\ h = q[1]
      /\ \A i \in 1..(Len(q) - 1) : r[i] = q[i + 1]
  BY TailElements
<1> HIDE DEF r, h
<1>2. \A i \in 1..Len(r) : i + 1 \in 1..Len(q) /\ 1 < i + 1
  BY <1>1
<1>3. \A i \in 1..Len(r) : (IsNew(r, i) => IsNew(q, i + 1)) /\ (IsDispose(r, i) => IsDispose(q, i + 1))
  BY <1>1 DEF IsNew, IsDispose
<1>4. \A k \in 1..Len(q) : 1 < k /\ IsDispose(q, k) => k - 1 \in 1..Len(r) /\ IsDispose(r, k - 1)
  <2> SUFFICES ASSUME NEW k \in 1..Len(q), 1 < k, IsDispose(q, k)
               PROVE  k - 1 \in 1..Len(r) /\ IsDispose(r, k - 1)
    OBVIOUS
  <2>1. k - 1 \in 1..Len(r) /\ k - 1 \in 1..(Len(q) - 1) /\ (k - 1) + 1 = k
    BY <1>1
  <2> QED
    BY <1>1, <2>1 DEF IsDispose
<1>5. ASSUME Spaced(q) PROVE Spaced(r)
  <2> SUFFICES ASSUME NEW i \in 1..Len(r), NEW j \in 1..Len(r), i < j, IsNew(r, i), IsNew(r, j)
               PROVE  \E k \in 1..Len(r) : i < k /\ k < j /\ IsDispose(r, k)
    BY DEF Spaced
  <2>1. i + 1 \in 1..Len(q) /\ j + 1 \in 1..Len(q) /\ i + 1 < j + 1 /\ IsNew(q, i + 1) /\ IsNew(q, j + 1)
    BY <1>2, <1>3
  <2>2. PICK k \in 1..Len(q) : i + 1 < k /\ k < j + 1 /\ IsDispose(q, k)
    BY <1>5, <2>1 DEF Spaced
  <2>3. 1 < k /\ i < k - 1 /\ k - 1 < j
    BY <2>2
  <2> QED
    BY <1>4, <2>2, <2>3
<1>6. ASSUME Ended(q) PROVE Ended(r)
  <2> SUFFICES ASSUME NEW i \in 1..Len(r), IsNew(r, i)
               PROVE  \E k \in 1..Len(r) : i < k /\ IsDispose(r, k)
    BY DEF Ended
  <2>1. PICK k \in 1..Len(q) : i + 1 < k /\ IsDispose(q, k)
    BY <1>2, <1>3, <1>6 DEF Ended
  <2>2. 1 < k /\ i < k - 1
    BY <2>1
  <2> QED
    BY <1>4, <2>1, <2>2
<1>7. 1 \in 1..Len(q) /\ \A k \in 1..Len(q) : ~(k < 1)
  BY <1>1
<1>8. ASSUME Cleared(q) PROVE h.kind # "TYPE_NEW"
  BY <1>1, <1>7, <1>8 DEF Cleared, IsNew
<1>9. ASSUME h.kind = "TYPE_NEW", Spaced(q) PROVE Cleared(r)
  <2> SUFFICES ASSUME NEW j \in 1..Len(r), IsNew(r, j)
               PROVE  \E k \in 1..Len(r) : k < j /\ IsDispose(r, k)
    BY DEF Cleared
  <2>1. j + 1 \in 1..Len(q) /\ 1 < j + 1 /\ IsNew(q, j + 1) /\ IsNew(q, 1)
    BY <1>1, <1>2, <1>3, <1>9 DEF IsNew
  <2>2. PICK k \in 1..Len(q) : 1 < k /\ k < j + 1 /\ IsDispose(q, k)
    BY <1>7, <1>9, <2>1 DEF Spaced
  <2>3. k - 1 < j
    BY <2>2
  <2> QED
    BY <1>4, <2>2, <2>3
<1>10. ASSUME h.kind = "TYPE_NEW", Ended(q) PROVE Disposing(r)
  <2>1. PICK k \in 1..Len(q) : 1 < k /\ IsDispose(q, k)
    BY <1>1, <1>7, <1>10 DEF Ended, IsNew
  <2> QED
    BY <1>4, <2>1 DEF Disposing
<1>11. ASSUME h.kind # "TYPE_DISPOSE", NEW k \in 1..Len(q), IsDispose(q, k) PROVE 1 < k
  <2>1. k # 1
    BY <1>1, <1>11 DEF IsDispose
  <2> QED
    BY <2>1
<1>12. ASSUME h.kind # "TYPE_DISPOSE", Cleared(q) PROVE Cleared(r)
  <2> SUFFICES ASSUME NEW j \in 1..Len(r), IsNew(r, j)
               PROVE  \E k \in 1..Len(r) : k < j /\ IsDispose(r, k)
    BY DEF Cleared
  <2>1. PICK k \in 1..Len(q) : k < j + 1 /\ IsDispose(q, k)
    BY <1>2, <1>3, <1>12 DEF Cleared
  <2>2. 1 < k /\ k - 1 < j
    BY <1>11, <1>12, <2>1
  <2> QED
    BY <1>4, <2>1, <2>2
<1>13. ASSUME h.kind # "TYPE_DISPOSE", Disposing(q) PROVE Disposing(r)
  BY <1>4, <1>11, <1>13 DEF Disposing
<1> QED
  BY <1>5, <1>6, <1>8, <1>9, <1>10, <1>12, <1>13 DEF r, h

\* The last command is lost.
LEMMA AlternatesFront ==
    ASSUME NEW q \in Seq(CommandType), q # <<>>
    PROVE  /\ Spaced(q) => Spaced(SubSeq(q, 1, Len(q) - 1))
           /\ Cleared(q) => Cleared(SubSeq(q, 1, Len(q) - 1))
<1> DEFINE r == SubSeq(q, 1, Len(q) - 1)
<1>1. Len(q) \in Nat \ {0} /\ Len(r) = Len(q) - 1 /\ \A i \in 1..(Len(q) - 1) : r[i] = q[i]
  BY FrontElements
<1> HIDE DEF r
<1>2. \A i \in 1..Len(r) : i \in 1..Len(q) /\ r[i] = q[i]
  BY <1>1
<1>3. \A j \in 1..Len(r) : \A k \in 1..Len(q) : k < j => k \in 1..Len(r)
  BY <1>1
<1> QED
  BY <1>2, <1>3 DEF Spaced, Cleared, IsNew, IsDispose, r

\* The initial state.
LEMMA AlternateInit == Init => Alternate
<1> SUFFICES ASSUME Init, NEW s \in Subscribers PROVE Alternating(s)
  BY DEF Alternate
<1>1. Len(commandTo[s]) = 0 /\ ~subOpen[s]
  BY DEF Init
<1> QED
  BY <1>1 DEF Alternating, Spaced, Ended

\* A step of the publisher, or of another thread, that writes no command.
LEMMA AlternatingFrame ==
    ASSUME NEW s \in Subscribers, Alternating(s), commandTo'[s] = commandTo[s],
           subOpen'[s] => subOpen[s], pubPc' \in Disposed => pubPc \in Disposed
    PROVE  Alternating(s)'
BY DEF Alternating

\* The publisher writes a command to everybody.
LEMMA AlternateWrites ==
    ASSUME Shape, Alternate,
           \/ PubTypeNew \/ PubReadyToStart \/ PubTestStarts \/ PubTestEnds
           \/ PubTypeDispose \/ PubAllStops \/ PubNotAcknowledged
    PROVE  Alternate'
<1>1. PICK kind \in Commands, x \in CommandType :
        /\ x.kind = kind /\ \A s \in Subscribers : commandTo'[s] = Append(commandTo[s], x)
        /\ UNCHANGED subOpen
        /\ kind = "TYPE_NEW" => pubPc \in Disposed
        /\ pubPc' \in Disposed => kind = "TYPE_DISPOSE"
  <2>1. CASE PubReadyToStart
    <3> DEFINE x == [kind |-> "READY_TO_START", test |-> test']
    <3>1. "READY_TO_START" \in Commands /\ test' \in Nat
      BY <2>1 DEF PubReadyToStart, Shape, TestShape, Commands
    <3>2. x \in CommandType /\ x.kind = "READY_TO_START"
      BY <3>1, MessageTypes
    <3>3. \A s \in Subscribers : commandTo'[s] = Append(commandTo[s], x)
      BY <2>1 DEF PubReadyToStart
    <3>4. pubPc' = "rig" /\ UNCHANGED subOpen
      BY <2>1 DEF PubReadyToStart, subVars
    <3> QED
      BY <3>1, <3>2, <3>3, <3>4 DEF Disposed
  <2>2. CASE ~PubReadyToStart
    <3>1. \E kind \in Commands : /\ Write(kind) /\ UNCHANGED subOpen
                                 /\ kind = "TYPE_NEW" => pubPc \in Disposed
                                 /\ pubPc' \in Disposed => kind = "TYPE_DISPOSE"
      <4>1. CASE PubTypeNew \/ PubTestStarts \/ PubTestEnds
        BY <4>1 DEF PubTypeNew, PubTestStarts, PubTestEnds, subVars, Disposed, Commands
      <4>2. CASE PubTypeDispose \/ PubAllStops
        BY <4>2 DEF PubTypeDispose, PubAllStops, subVars, Disposed, Commands
      <4>3. CASE PubNotAcknowledged
        BY <4>3 DEF PubNotAcknowledged, AfterTest, subVars, Disposed, Commands
      <4> QED
        BY <2>2, <4>1, <4>2, <4>3
    <3> QED
      BY <3>1, WriteTypes
  <2> QED
    BY <2>1, <2>2
<1>2. ASSUME NEW s \in Subscribers PROVE Alternating(s)'
  <2>1. commandTo[s] \in Seq(CommandType) /\ commandTo'[s] = Append(commandTo[s], x) /\ subOpen'[s] = subOpen[s]
    BY <1>1 DEF Shape, CommandShape
  <2> QED
    BY <1>1, <2>1, AlternatesAppend DEF Alternate, Alternating
<1> QED
  BY <1>2 DEF Alternate

\* A subscriber reads a command.
LEMMA AlternateReads ==
    ASSUME Shape, Alternate, NEW s \in Subscribers, NEW kind, Reads(s, kind), UNCHANGED pubPc,
           \A t \in Subscribers : t # s => subOpen'[t] = subOpen[t],
           \/ kind = "TYPE_NEW"
           \/ kind # "TYPE_DISPOSE" /\ (subOpen'[s] => subOpen[s])
           \/ ~subOpen'[s]
    PROVE  Alternate'
<1>1. ASSUME NEW t \in Subscribers, t # s PROVE Alternating(t)'
  <2>1. commandTo'[t] = commandTo[t]
    BY <1>1 DEF Reads, Shape, CommandShape
  <2> QED
    BY <1>1, <2>1, AlternatingFrame DEF Alternate
<1>2. Alternating(s)'
  <2>1. /\ commandTo[s] \in Seq(CommandType) /\ commandTo[s] # <<>> /\ commandTo'[s] = Tail(commandTo[s])
        /\ Head(commandTo[s]).kind = kind
    BY DEF Reads, Shape, CommandShape
  <2> QED
    BY <2>1, AlternatesTail DEF Alternate, Alternating
<1> QED
  BY <1>1, <1>2 DEF Alternate

\* Steps of the publisher that write nothing.
LEMMA AlternateGoes ==
    ASSUME Shape, Alternate,
           \/ PubCommandsDiscovered \/ PubCreate \/ PubDataDiscovered \/ PubTakes \/ PubRigged
           \/ PubSendsBurst \/ PubTakesResults \/ PubResultsIn \/ PubUnexpectedCommand
           \/ PubDestroy \/ PubTypeRemoved \/ PubFails \/ Timeouts
    PROVE  Alternate'
<1>1. UNCHANGED <<commandTo, subOpen>> /\ (pubPc' \in Disposed => pubPc \in Disposed)
  <2>1. CASE PubCommandsDiscovered \/ PubCreate \/ PubDataDiscovered \/ PubTakes \/ PubRigged
    BY <2>1 DEF PubCommandsDiscovered, PubCreate, PubDataDiscovered, PubTakes, PubRigged, subVars,
       channelVars, Disposed
  <2>2. CASE PubSendsBurst \/ PubTakesResults \/ PubDestroy \/ PubTypeRemoved \/ PubFails
    BY <2>2 DEF PubSendsBurst, PubTakesResults, PubDestroy, PubTypeRemoved, PubFails, subVars,
       channelVars, Disposed
  <2>3. CASE PubResultsIn \/ PubUnexpectedCommand \/ Timeouts
    BY <2>3 DEF PubResultsIn, PubUnexpectedCommand, Timeouts, PubTakesNothing, PubResultsTimeout,
       AfterTest, subVars, channelVars, Disposed
  <2> QED
    BY <2>1, <2>2, <2>3
<1> QED
  BY <1>1, AlternatingFrame DEF Alternate

\* Every step.
LEMMA AlternateStep == Shape /\ Alternate /\ [Next]_vars => Alternate'
<1> SUFFICES ASSUME Shape, Alternate, [Next]_vars PROVE Alternate'
  OBVIOUS
<1>1. ASSUME UNCHANGED <<pubPc, commandTo, subOpen>> PROVE Alternate'
  BY <1>1, AlternatingFrame DEF Alternate
<1>2. CASE UNCHANGED vars
  BY <1>1, <1>2 DEF vars, pubVars, subVars, channelVars
<1>3. CASE PubThread \/ PubSendsBurst \/ Timeouts \/ PubFails \/ PubNotAcknowledged
  BY <1>3, AlternateWrites, AlternateGoes DEF PubThread
<1>4. ASSUME NEW s \in Subscribers, SubThread(s) \/ SubFails(s) PROVE Alternate'
  <2>1. subOpen \in [Subscribers -> BOOLEAN]
    BY DEF Shape, SubShape
  <2>2. CASE SubCommandsDiscovered(s) \/ SubDataDiscovered(s) \/ SubReports(s)
    BY <1>1, <2>2 DEF SubCommandsDiscovered, SubDataDiscovered, SubReports, pubVars, channelVars
  <2>3. CASE SubTypeNew(s)
    <3>1. Reads(s, "TYPE_NEW") /\ UNCHANGED pubPc /\ \A t \in Subscribers : t # s => subOpen'[t] = subOpen[t]
      BY <2>1, <2>3 DEF SubTypeNew, SubCreatesReader, pubVars
    <3> QED
      BY <3>1, AlternateReads
  <2>4. CASE SubReadyToStart(s) \/ SubTestStarts(s) \/ SubTestEnds(s)
    <3>1. PICK kind \in {"READY_TO_START", "TEST_STARTS", "TEST_ENDS"} :
            Reads(s, kind) /\ UNCHANGED <<pubPc, subOpen>>
      BY <2>4 DEF SubReadyToStart, SubTestStarts, SubTestEnds, pubVars, subVars
    <3> QED
      BY <3>1, AlternateReads
  <2>5. CASE SubTypeDispose(s) \/ SubAllStops(s) \/ SubFails(s)
    <3>1. PICK kind \in {"TYPE_NEW", "TYPE_DISPOSE", "ALL_STOPS"} : Reads(s, kind)
      BY <2>5 DEF SubTypeDispose, SubAllStops, SubFails
    <3>2. UNCHANGED pubPc /\ subOpen' = [subOpen EXCEPT ![s] = FALSE]
      BY <2>5 DEF SubTypeDispose, SubRemovesReader, SubAllStops, SubFails, pubVars
    <3>3. ~subOpen'[s] /\ \A t \in Subscribers : t # s => subOpen'[t] = subOpen[t]
      BY <2>1, <3>2
    <3> QED
      BY <3>1, <3>2, <3>3, AlternateReads
  <2> QED
    BY <1>4, <2>2, <2>3, <2>4, <2>5 DEF SubThread
<1>5. ASSUME NEW s \in Subscribers, Discovery(s) \/ SubOnData(s) PROVE Alternate'
  BY <1>1, <1>5 DEF Discovery, PubOnCommandMatched, SubOnCommandMatched, PubOnDataMatched,
     SubOnDataMatched, SubOnData, pubVars, subVars, channelVars
<1>6. ASSUME NEW s \in Subscribers, CommandLost(s) PROVE Alternate'
  <2>1. pubPc' = pubPc /\ pubPc = "done" /\ subOpen' = subOpen
    BY <1>6, LostCommand DEF pubVars, subVars
  <2>2. ASSUME NEW t \in Subscribers, t # s PROVE Alternating(t)'
    BY <1>6, <2>1, <2>2, LostCommand, AlternatingFrame DEF Alternate
  <2>3. Alternating(s)'
    <3>1. /\ commandTo[s] \in Seq(CommandType) /\ commandTo[s] # <<>>
          /\ commandTo'[s] = SubSeq(commandTo[s], 1, Len(commandTo[s]) - 1)
      BY <1>6, LostCommand
    <3> QED
      BY <2>1, <3>1, AlternatesFront DEF Alternate, Alternating, Disposed
  <2> QED
    BY <2>2, <2>3 DEF Alternate
<1>7. CASE SpuriousWakeup
  BY <1>1, <1>7 DEF SpuriousWakeup, pubVars, subVars, channelVars
<1> QED
  BY <1>2, <1>3, <1>4, <1>5, <1>6, <1>7 DEF Next, Progress, Faults

-----------------------------------------------------------------------------
(* The theorems.                                                           *)

\* The counters of faults only grow, and a late sample is not forgotten.
LEMMA Monotone ==
    ASSUME Shape, [Next]_vars
    PROVE  /\ timeouts' = 0 => timeouts = 0 /\ ~Timeouts
           /\ failures' = 0 => failures = 0 /\ ~Faults
           /\ ~late' => ~late
<1>1. timeouts \in Nat /\ failures \in Nat /\ late \in BOOLEAN
  BY DEF Shape, FaultShape, TestShape
<1>2. ASSUME Timeouts
      PROVE  timeouts' = timeouts + 1 /\ failures' = failures /\ late' = late
  BY <1>2 DEF Timeouts, PubTakesNothing, PubResultsTimeout, TimesOut
<1>3. ASSUME Faults
      PROVE  failures' = failures + 1 /\ timeouts' = timeouts /\ late' = late
  BY <1>3 DEF Faults, PubFails, PubNotAcknowledged, SubFails, Fails
<1>4. ASSUME PubThread \/ PubSendsBurst
      PROVE  UNCHANGED <<timeouts, failures, late>>
  BY <1>4 DEF PubThread, PubCommandsDiscovered, PubTypeNew, PubCreate, PubDataDiscovered,
              PubReadyToStart, PubTakes, PubRigged, PubTestStarts, PubTestEnds, PubTakesResults,
              PubResultsIn, PubUnexpectedCommand, PubTypeDispose, PubDestroy, PubTypeRemoved,
              PubAllStops, PubSendsBurst, historyVars
<1>5. ASSUME NEW s \in Subscribers, SubThread(s) \/ Discovery(s) \/ SubOnData(s)
      PROVE  UNCHANGED <<timeouts, failures>> /\ (late => late')
  <2>1. CASE SubReadyToStart(s)
    <3>1. UNCHANGED <<timeouts, failures>>
      BY <2>1 DEF SubReadyToStart
    <3>2. PICK n \in 0..Len(data[s]) : late' = (late \/ n > 0)
      BY <2>1 DEF SubReadyToStart
    <3>3. late => late'
      BY <3>2, Zenon
    <3> QED
      BY <3>1, <3>3
  <2>2. CASE ~SubReadyToStart(s)
    BY <1>5, <2>2 DEF SubThread, SubCommandsDiscovered, SubTypeNew, SubDataDiscovered, SubTestStarts,
         SubTestEnds, SubReports, SubTypeDispose, SubAllStops, Discovery, PubOnCommandMatched,
         SubOnCommandMatched, PubOnDataMatched, SubOnDataMatched, SubOnData, historyVars
  <2> QED
    BY <2>1, <2>2
<1>6. ASSUME UNCHANGED vars
      PROVE  UNCHANGED <<timeouts, failures, late>>
  BY <1>6 DEF vars, historyVars
<1>11. ASSUME SpuriousWakeup \/ \E s \in Subscribers : CommandLost(s)
       PROVE  UNCHANGED <<timeouts, late>> /\ (failures' = failures \/ failures' = failures + 1)
  BY <1>11 DEF SpuriousWakeup, CommandLost, Fails, historyVars
<1>7. (timeouts' = timeouts \/ timeouts' = timeouts + 1) /\ (failures' = failures \/ failures' = failures + 1)
  BY <1>2, <1>3, <1>4, <1>5, <1>6, <1>11 DEF Next, Progress
<1>8. late => late'
  BY <1>2, <1>3, <1>4, <1>5, <1>6, <1>11 DEF Next, Progress
<1>9. timeouts' = 0 => timeouts = 0 /\ ~Timeouts
  BY <1>1, <1>2, <1>7
<1>10. failures' = 0 => failures = 0 /\ ~Faults
  BY <1>1, <1>3, <1>7
<1> QED
  BY <1>8, <1>9, <1>10

\* The invariant holds initially and is kept by every step.
LEMMA IInvInductive == (Init => IInv) /\ (IInv /\ [Next]_vars => IInv')
<1>1. Init => IInv
  BY ShapeInit, AlternateInit, RigsInit, CountsInit, PromptInit, TableInit DEF IInv
<1>2. ASSUME IInv, [Next]_vars PROVE IInv'
  <2>1. Shape /\ Shape'
    BY <1>2, ShapeStep DEF IInv
  <2>2. /\ timeouts' = 0 => timeouts = 0 /\ ~Timeouts
        /\ failures' = 0 => failures = 0 /\ ~Faults
        /\ ~late' => ~late
    BY <1>2, <2>1, Monotone
  <2>3. timeouts' = 0 => Rigs'
    BY <1>2, <2>1, <2>2, RigsStep DEF IInv
  <2>4. timeouts' = 0 /\ ~late' => Counts'
    BY <1>2, <2>1, <2>2, CountsStep DEF IInv
  <2>5. timeouts' = 0 /\ failures' = 0 => Prompt'
    BY <1>2, <2>1, <2>2, PromptStep DEF IInv
  <2>6. timeouts' = 0 /\ failures' = 0 /\ ~late' => Table'
    BY <1>2, <2>1, <2>2, TableStep DEF IInv
  <2>7. Alternate'
    BY <1>2, <2>1, AlternateStep DEF IInv
  <2> QED
    BY <2>1, <2>3, <2>4, <2>5, <2>6, <2>7 DEF IInv
<1> QED
  BY <1>1, <1>2

\* The inductive invariant, for any number of subscribers, sizes and faults.
THEOREM Invariance == Spec => []IInv
BY IInvInductive, PTL DEF Spec

\* What a subscriber's callback counts adds up, whatever samples are lost and
\* whatever calls fail, as long as no sample outlives its test and no read of
\* the publisher times out.
THEOREM SamplesSound == Spec => []SamplesAccounted
<1>1. IInv => SamplesAccounted
  BY DEF IInv, SamplesAccounted, Counts, Counted
<1> QED
  BY <1>1, Invariance, PTL

\* A test is started and its samples are sent only when every subscriber has
\* been rigged for it, and every command that was awaited came from a
\* subscriber of its own.
THEOREM PromptRigged == Spec => []PromptAreRigged
<1>1. IInv => PromptAreRigged
  <2> SUFFICES ASSUME IInv, timeouts = 0, failures = 0
               PROVE  /\ RiggedBeforeTest
                      /\ pubPc \in {"rig", "removed", "results"} => ready = Cardinality(from)
                      /\ pubPc = "send" => \A s \in Subscribers : enabled[s] /\ linked[s]
    BY DEF PromptAreRigged
  <2>1. Rigs /\ Prompt
    BY DEF IInv
  <2>2. RiggedBeforeTest
    BY <2>1 DEF RiggedBeforeTest, Rigs, Rigging
  <2>3. pubPc = "send" => \A s \in Subscribers : Rigged(s)
    BY <2>1 DEF Prompt, Handshake
  <2>4. pubPc = "send" => \A s \in Subscribers : enabled[s] /\ linked[s]
    BY <2>3 DEF Rigged, Linked
  <2> QED
    BY <2>1, <2>2, <2>4 DEF Prompt
<1> QED
  BY <1>1, Invariance, PTL

\* That every subscriber is rigged needs only that no read times out: calls
\* that fail cannot make the publisher start a test too early.
THEOREM RiggedDespiteFailures == Spec => [](timeouts = 0 => RiggedBeforeTest)
<1>1. IInv => (timeouts = 0 => RiggedBeforeTest)
  BY DEF IInv, RiggedBeforeTest, Rigs, Rigging
<1> QED
  BY <1>1, Invariance, PTL

\* Nobody receives more than was sent, and the entries of the table add up.
THEOREM TableAddsUp == Spec => []ResultsAddUp
<1>1. IInv => ResultsAddUp
  <2> SUFFICES ASSUME IInv, timeouts = 0, ~late, failures = 0
               PROVE  /\ Entries
                      /\ pubPc = "results" => \A s \in Subscribers : received[s] + lost[s] <= samples
    BY DEF ResultsAddUp, Entries
  <2>1. Table /\ Counts
    BY DEF IInv
  <2>2. pubPc = "results" => \A s \in Subscribers : received[s] + lost[s] <= samples
    BY <2>1 DEF Counts, Counted
  <2> QED
    BY <2>1, <2>2 DEF Table
<1> QED
  BY <1>1, Invariance, PTL

\* When the publisher goes on to the next payload size, or to the end, no
\* subscriber has a reader of the last one.
THEOREM SizesSeparated == Spec => []ReadersRemoved
<1>1. IInv => ReadersRemoved
  <2> SUFFICES ASSUME IInv, timeouts = 0, failures = 0, pubPc \in {"new", "stop"},
                      NEW s \in Subscribers
               PROVE  ~subOpen[s]
    BY DEF ReadersRemoved
  <2>1. Closed(s)
    BY DEF IInv, Prompt, Handshake
  <2> QED
    BY <2>1 DEF Closed
<1> QED
  BY <1>1, Invariance, PTL

\* No subscriber ever meets the TYPE_NEW of one payload size with the reader of
\* an earlier one, whatever commands are late or lost and whatever fails or
\* times out: the "already initialized" error of process_message is not reached.
THEOREM NoReaderTwice == Spec => []NoEarlierReader
<1>1. IInv => NoEarlierReader
  <2> SUFFICES ASSUME IInv, NEW s \in Subscribers, subPc[s] = "idle", commandTo[s] # <<>>,
                      Head(commandTo[s]).kind = "TYPE_NEW"
               PROVE  ~subOpen[s]
    BY DEF NoEarlierReader
  <2>1. commandTo[s] \in Seq(CommandType)
    BY DEF IInv, Shape, CommandShape
  <2> QED
    BY <2>1, AlternatesTail DEF IInv, Alternate, Alternating
<1> QED
  BY <1>1, Invariance, PTL
=============================================================================
