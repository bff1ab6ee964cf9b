--------------------------- MODULE ClientAppProofs ---------------------------
(***************************************************************************)
(* Theorems about the client, for every set of servers, any number of      *)
(* requests and every value of the bounds.                                 *)
(***************************************************************************)
EXTENDS ClientApp, TLAPS

\* Where the run thread is tells how many requests it has written: none before
\* send_requests, all of them after it.
RunShape ==
    /\ main_pc \in {"constructor", "failed"} => stage = "none"
    /\ stage \in {"none", "done"} => phase = "lock"
    /\ stage \in {"server", "settle", "replies"} => phase \in {"lock", "blocking", "waiting"}
    /\ stage \in {"none", "server", "settle"} => written = 0
    /\ stage = "send" => /\ phase \in {"lock", "recording", "stamp"}
                         /\ phase = "lock" => written < NumRequests
                         /\ phase = "recording" => written >= 1
                         /\ phase = "stamp" => written = 1
    /\ stage = "replies" => written = NumRequests

\* requests_status_ has an entry for every request written, but for the one
\* that send_request is recording.
Recorded == IF phase = "recording" THEN written - 1 ELSE written
EntriesMade ==
    \A n \in Numbers : requests_status_[n] = "absent" <=> n > Recorded

\* A reply is related to no request of this client, or to one it was given for.
Known(reply) == reply[2] = Stray \/ reply \in replied
RepliesKnown ==
    /\ \A reply \in replied : reply[2] <= written
    /\ \A i \in DOMAIN reader_history : Known(reader_history[i])
    /\ taken # None => Known(taken)

\* Without a signal the flag is set by the last reply only, and run() ends
\* only when it is set.
StopMeansComplete ==
    /\ stage = "done" => stop_
    /\ stop_ /\ signals = 0 => AllResponsesReceived(requests_status_)

\* time_req has been assigned when the second request is written.
Stamped == time_req \/ written = 0 \/ (written = 1 /\ phase \in {"recording", "stamp"})

Safe == NoOwnReplyUnknown /\ AnswersAreReplies /\ OnlyFirstUntimed

IInv == /\ TypeOK /\ RunShape /\ EntriesMade /\ RepliesKnown
        /\ StopMeansComplete /\ Stamped /\ Safe

-----------------------------------------------------------------------------
\* The initial state.
LEMMA InitIInv == Init => IInv
<1> SUFFICES ASSUME Init PROVE IInv
  OBVIOUS
<1> USE ConstantsAssumption
<1>1. TypeOK
  <2>1. /\ matched \in [Servers -> SUBSET ServerEndpoints]
        /\ endpoints \in [Servers -> SUBSET ServerEndpoints]
    BY DEF Init, NoneMatched
  <2>2. /\ requests_status_ \in [Numbers -> {"absent", "waiting", "answered"}]
        /\ reader_history \in Seq(Replies)
    BY DEF Init
  <2>3. written \in 0 .. NumRequests /\ signals \in 0 .. MaxSignals /\ strays \in 0 .. MaxStrays
    BY DEF Init
  <2> QED
    BY <2>1, <2>2, <2>3 DEF Init, TypeOK
<1>2. RunShape /\ StopMeansComplete /\ Stamped
  BY DEF Init, RunShape, StopMeansComplete, Stamped
<1>3. EntriesMade /\ RepliesKnown
  BY DEF Init, EntriesMade, Recorded, RepliesKnown, Numbers
<1>4. Safe
  BY DEF Init, Safe, NoOwnReplyUnknown, AnswersAreReplies, OnlyFirstUntimed
<1> QED
  BY <1>1, <1>2, <1>3, <1>4 DEF IInv

\* A step that touches neither requests nor replies keeps what is said of them.
bookVars == <<requests_status_, written, replied, unknown, unstamped, reader_history, taken>>

\* A step that touches no bookkeeping keeps the facts about it.
LEMMA BookUnchanged ==
    ASSUME IInv, UNCHANGED bookVars, Recorded' = Recorded
    PROVE  EntriesMade' /\ RepliesKnown' /\ Safe'
<1> USE DEF IInv, bookVars
<1>1. EntriesMade'
  BY DEF EntriesMade
<1>2. RepliesKnown'
  BY DEF RepliesKnown, Known
<1>3. Safe'
  BY DEF Safe, NoOwnReplyUnknown, AnswersAreReplies, OnlyFirstUntimed
<1> QED
  BY <1>1, <1>2, <1>3

\* Constructor, join and destructor.
LEMMA MainIInv ==
    ASSUME IInv, Construct \/ ConstructorThrows \/ Destructor
    PROVE  IInv'
<1> USE DEF Construct, ConstructorThrows, Destructor, runner, stopper, data, network
<1>1. TypeOK'
  <2>1. matched' \in [Servers -> SUBSET ServerEndpoints]
    BY DEF IInv, TypeOK, NoneMatched
  <2> QED
    BY <2>1 DEF IInv, TypeOK
<1>2. RunShape' /\ StopMeansComplete' /\ Stamped'
  BY DEF IInv, RunShape, StopMeansComplete, Stamped, AllResponsesReceived
<1>3. UNCHANGED bookVars /\ Recorded' = Recorded
  BY DEF bookVars, Recorded
<1> QED
  BY <1>1, <1>2, <1>3, BookUnchanged DEF IInv

\* The three waits of run: predicate, sleep, wakeup, timeout.
LEMMA WaitIInv ==
    ASSUME IInv,
           WaitForServer \/ WaitToSettle \/ WaitForReplies \/ WaitBlocks
             \/ SpuriousWakeup \/ SettleTimeout
    PROVE  IInv'
<1> USE DEF WaitForServer, WaitToSettle, WaitForReplies, WaitBlocks, SpuriousWakeup,
            SettleTimeout, WaitEnds, WaitBegins, CheckingWait, stopper, data, network
<1>0. UNCHANGED <<main_pc, written, time_req, stopper, data, network, matched, requests_status_>>
  OBVIOUS
<1>1. TypeOK'
  BY DEF IInv, TypeOK
<1>2. RunShape'
  BY ConstantsAssumption DEF IInv, RunShape
<1>3. StopMeansComplete' /\ Stamped'
  BY DEF IInv, RunShape, StopMeansComplete, Stamped, AllResponsesReceived
<1>4. UNCHANGED bookVars /\ Recorded' = Recorded
  BY DEF bookVars, Recorded
<1> QED
  BY <1>1, <1>2, <1>3, <1>4, BookUnchanged DEF IInv

\* send_requests: write, record and, after the first request, take the time.
LEMMA WriteIInv == ASSUME IInv, WriteRequest \/ WriteFails PROVE IInv'
<1> USE ConstantsAssumption DEF WriteRequest, WriteFails, runner, stopper, data, network
<1>1. TypeOK'
  BY DEF IInv, TypeOK, RunShape
<1>2. RunShape' /\ Stamped'
  BY DEF IInv, TypeOK, RunShape, Stamped
<1>3. StopMeansComplete'
  BY DEF IInv, StopMeansComplete, AllResponsesReceived
<1>4. Recorded' = Recorded
  BY DEF IInv, TypeOK, Recorded
<1>5. EntriesMade'
  BY <1>4 DEF IInv, EntriesMade
<1>6. RepliesKnown'
  <2>1. \A reply \in replied : reply[2] <= written'
    <3>1. \A reply \in replied : reply[2] \in Int
      BY DEF IInv, TypeOK, Numbers
    <3>2. written \in Int /\ written' \in Int /\ written <= written'
      BY DEF IInv, TypeOK
    <3> QED
      BY <3>1, <3>2 DEF IInv, RepliesKnown
  <2> QED
    BY <2>1 DEF IInv, RepliesKnown, Known
<1>7. Safe'
  BY DEF IInv, Safe, NoOwnReplyUnknown, AnswersAreReplies, OnlyFirstUntimed
<1> QED
  BY <1>1, <1>2, <1>3, <1>5, <1>6, <1>7 DEF IInv

\* send_request enters the request it has just written.
LEMMA RecordIInv == ASSUME IInv, RecordRequest PROVE IInv'
<1> USE ConstantsAssumption DEF RecordRequest, NextRequest, stopper, data, network
<1>0. stage = "send" /\ written \in Numbers /\ Recorded = written - 1 /\ Recorded' = written
  BY DEF IInv, TypeOK, RunShape, Recorded, Numbers
<1>1. /\ requests_status_'[written] = "waiting"
      /\ \A n \in Numbers : n # written => requests_status_'[n] = requests_status_[n]
      /\ requests_status_' \in [Numbers -> {"absent", "waiting", "answered"}]
  BY <1>0 DEF IInv, TypeOK
<1>2. TypeOK'
  BY <1>1 DEF IInv, TypeOK
<1>3. RunShape' /\ Stamped'
  BY <1>0 DEF IInv, TypeOK, RunShape, Stamped
<1>4. StopMeansComplete'
  <2>1. requests_status_[written] = "absent"
    BY <1>0 DEF IInv, EntriesMade, Numbers
  <2>2. ~(stop_ /\ signals = 0)
    BY <1>0, <2>1 DEF IInv, StopMeansComplete, AllResponsesReceived
  <2> QED
    BY <1>0, <2>2 DEF StopMeansComplete
<1>5. EntriesMade'
  BY <1>0, <1>1 DEF IInv, EntriesMade, Numbers
<1>6. RepliesKnown'
  BY DEF IInv, RepliesKnown, Known
<1>7. Safe'
  <2>1. AnswersAreReplies'
    BY <1>0, <1>1 DEF IInv, Safe, AnswersAreReplies
  <2> QED
    BY <2>1 DEF IInv, Safe, NoOwnReplyUnknown, OnlyFirstUntimed
<1> QED
  BY <1>2, <1>3, <1>4, <1>5, <1>6, <1>7 DEF IInv

\* send_request takes the time of the first request.
LEMMA StampIInv == ASSUME IInv, StampTime PROVE IInv'
<1> USE ConstantsAssumption DEF StampTime, NextRequest, stopper, data, network
<1>0. stage = "send"
  BY DEF IInv, TypeOK, RunShape
<1>1. TypeOK'
  BY DEF IInv, TypeOK
<1>2. RunShape' /\ Stamped'
  BY <1>0 DEF IInv, TypeOK, RunShape, Stamped
<1>3. StopMeansComplete'
  BY <1>0 DEF IInv, StopMeansComplete, AllResponsesReceived
<1>4. UNCHANGED bookVars /\ Recorded' = Recorded
  BY DEF bookVars, Recorded
<1> QED
  BY <1>1, <1>2, <1>3, <1>4, BookUnchanged DEF IInv

\* stop(), called by the signal handler.
LEMMA StopIInv == ASSUME IInv, StopStore \/ StopNotify PROVE IInv'
<1> USE ConstantsAssumption DEF StopStore, StopNotify, Woken, runner, data, network
<1>1. TypeOK'
  <2>1. CASE StopStore
    <3>1. signals' \in 0 .. MaxSignals
      BY <2>1 DEF IInv, TypeOK
    <3> QED
      BY <2>1, <3>1 DEF IInv, TypeOK
  <2>2. CASE StopNotify
    BY <2>2 DEF IInv, TypeOK
  <2> QED
    BY <2>1, <2>2
<1>2. RunShape' /\ Stamped'
  BY DEF IInv, RunShape, Stamped
<1>3. StopMeansComplete'
  <2>1. CASE StopStore
    <3>1. signals' # 0
      BY <2>1 DEF IInv, TypeOK
    <3> QED
      BY <2>1, <3>1 DEF IInv, StopMeansComplete
  <2>2. CASE StopNotify
    BY <2>2 DEF IInv, StopMeansComplete, AllResponsesReceived
  <2> QED
    BY <2>1, <2>2
<1>4. UNCHANGED bookVars /\ Recorded' = Recorded
  BY DEF bookVars, Recorded
<1> QED
  BY <1>1, <1>2, <1>3, <1>4, BookUnchanged DEF IInv

\* The match callbacks, and the servers that cause them.
LEMMA DiscoveryIInv ==
    ASSUME IInv, NEW s \in Servers,
           \/ OnPublicationMatched(s) \/ OnSubscriptionMatched(s) \/ ServerLeaves(s)
           \/ \E endpoint \in ServerEndpoints : EndpointMatched(s, endpoint)
    PROVE  IInv'
<1> USE DEF runner, stopper, data
<1>1. ASSUME NEW e \in ServerEndpoints, NEW change \in {1, -1}, OnMatched(s, e, change)
      PROVE  IInv'
  <2> USE <1>1 DEF OnMatched, Woken
  <2>1. TypeOK'
    BY DEF IInv, TypeOK, Match
  <2>2. RunShape' /\ StopMeansComplete' /\ Stamped'
    BY DEF IInv, RunShape, StopMeansComplete, Stamped, AllResponsesReceived
  <2>3. UNCHANGED bookVars /\ Recorded' = Recorded
    BY DEF bookVars, Recorded
  <2> QED
    BY <2>1, <2>2, <2>3, BookUnchanged DEF IInv
<1>2. CASE ServerLeaves(s) \/ \E endpoint \in ServerEndpoints : EndpointMatched(s, endpoint)
  <2> USE <1>2 DEF ServerLeaves, EndpointMatched
  <2>1. TypeOK'
    BY DEF IInv, TypeOK
  <2>2. RunShape' /\ StopMeansComplete' /\ Stamped'
    BY DEF IInv, RunShape, StopMeansComplete, Stamped, AllResponsesReceived
  <2>3. UNCHANGED bookVars /\ Recorded' = Recorded
    BY DEF bookVars, Recorded
  <2> QED
    BY <2>1, <2>2, <2>3, BookUnchanged DEF IInv
<1> QED
  BY <1>1, <1>2 DEF OnPublicationMatched, OnSubscriptionMatched, ServerEndpoints
\* A server's reply is appended to the reader's history.
LEMMA DeliverIInv ==
    ASSUME IInv, NEW s \in Servers,
           StrayReply(s) \/ \E n \in Numbers : ServerReplies(s, n)
    PROVE  IInv'
<1> USE ConstantsAssumption DEF runner, stopper, Deliver
<1>1. PICK n \in Numbers \cup {Stray} :
        /\ reader_history' = Append(reader_history, <<s, n>>)
        /\ replied \subseteq replied'
        /\ replied' \subseteq replied \cup {<<s, n>>}
        /\ n # Stray => <<s, n>> \in replied'
        /\ <<s, n>> \in replied' \ replied => n \in Numbers /\ n <= written
        /\ strays' \in 0 .. MaxStrays
  <2>1. CASE StrayReply(s)
    <3>1. /\ reader_history' = Append(reader_history, <<s, Stray>>)
          /\ replied' = replied /\ strays' \in 0 .. MaxStrays
      BY <2>1 DEF StrayReply, IInv, TypeOK
    <3> QED
      BY <3>1
  <2>2. CASE \E n \in Numbers : ServerReplies(s, n)
    <3>1. PICK n \in Numbers : ServerReplies(s, n)
      BY <2>2
    <3>2. /\ reader_history' = Append(reader_history, <<s, n>>)
          /\ replied' = replied \cup {<<s, n>>} /\ n <= written
          /\ strays' \in 0 .. MaxStrays
      BY <3>1 DEF ServerReplies, IInv, TypeOK
    <3> QED
      BY <3>2
  <2> QED
    BY <2>1, <2>2
<1>2. UNCHANGED <<main_pc, runner, stopper, matched, requests_status_, taken,
                  skipped, unknown, unstamped, endpoints, gone, notices>>
  BY DEF StrayReply, ServerReplies
<1>3. <<s, n>> \in Replies
  BY DEF Replies
<1>4. reader_history \in Seq(Replies)
  BY DEF IInv, TypeOK
<1>5. /\ reader_history' \in Seq(Replies)
      /\ \A i \in DOMAIN reader_history' :
            \/ reader_history'[i] = <<s, n>>
            \/ i \in DOMAIN reader_history /\ reader_history'[i] = reader_history[i]
  BY <1>1, <1>3, <1>4
<1>6. TypeOK'
  <2>1. replied' \subseteq Servers \X Numbers
    <3>1. replied \subseteq Servers \X Numbers
      BY DEF IInv, TypeOK
    <3> QED
      BY <1>1, <3>1
  <2> QED
    BY <1>1, <1>2, <1>5, <2>1 DEF IInv, TypeOK
<1>7. RunShape' /\ StopMeansComplete' /\ Stamped'
  BY <1>2 DEF IInv, RunShape, StopMeansComplete, Stamped, AllResponsesReceived
<1>8. EntriesMade'
  BY <1>2 DEF IInv, EntriesMade, Recorded
<1>9. RepliesKnown'
  <2>1. ASSUME NEW reply \in replied' PROVE reply[2] <= written'
    BY <1>1, <1>2, <2>1 DEF IInv, RepliesKnown
  <2>2. ASSUME NEW i \in DOMAIN reader_history'
      PROVE  reader_history'[i][2] = Stray \/ reader_history'[i] \in replied'
    <3>1. CASE reader_history'[i] = <<s, n>>
      BY <1>1, <3>1 DEF Known
    <3>2. CASE i \in DOMAIN reader_history /\ reader_history'[i] = reader_history[i]
      BY <1>1, <3>2 DEF IInv, RepliesKnown, Known
    <3> QED
      BY <1>5, <3>1, <3>2
  <2>3. taken' # None => taken'[2] = Stray \/ taken' \in replied'
    BY <1>1, <1>2 DEF IInv, RepliesKnown, Known
  <2> QED
    BY <2>1, <2>2, <2>3 DEF RepliesKnown, Known
<1>10. Safe'
  BY <1>1, <1>2 DEF IInv, Safe, NoOwnReplyUnknown, AnswersAreReplies, OnlyFirstUntimed
<1> QED
  BY <1>6, <1>7, <1>8, <1>9, <1>10 DEF IInv

\* The callback takes a sample, or skips one of an instance that is not alive.
LEMMA TakeIInv == ASSUME IInv, TakeReply \/ SkipReply PROVE IInv'
<1> USE DEF runner, stopper, network
<1>1. UNCHANGED <<main_pc, runner, stopper, network, matched, requests_status_, unknown, unstamped>>
  BY DEF TakeReply, SkipReply
<1>2. /\ reader_history' \in Seq(Replies)
      /\ \A i \in DOMAIN reader_history' :
            \E j \in DOMAIN reader_history : reader_history'[i] = reader_history[j]
      /\ taken' # None => 1 \in DOMAIN reader_history /\ taken' = reader_history[1]
      /\ taken' \in Replies \cup {None}
  <2>1. reader_history \in Seq(Replies)
    BY DEF IInv, TypeOK
  <2>2. CASE TakeReply
    <3>1. /\ reader_history' = Tail(reader_history) /\ reader_history # <<>>
          /\ taken' = Head(reader_history)
      BY <2>2 DEF TakeReply
    <3>2. \A i \in DOMAIN Tail(reader_history) :
            i + 1 \in DOMAIN reader_history /\ Tail(reader_history)[i] = reader_history[i + 1]
      BY <2>1, <3>1
    <3> QED
      BY <2>1, <3>1, <3>2
  <2>3. CASE SkipReply
    BY <2>1, <2>3 DEF SkipReply
  <2> QED
    BY <2>2, <2>3
<1>3. TypeOK'
  <2>1. skipped' \subseteq Replies
    BY DEF TakeReply, SkipReply, IInv, TypeOK
  <2> QED
    BY <1>1, <1>2, <2>1 DEF IInv, TypeOK
<1>4. RunShape' /\ StopMeansComplete' /\ Stamped'
  BY <1>1 DEF IInv, RunShape, StopMeansComplete, Stamped, AllResponsesReceived
<1>5. EntriesMade'
  BY <1>1 DEF IInv, EntriesMade, Recorded
<1>6. RepliesKnown'
  BY <1>1, <1>2 DEF IInv, RepliesKnown, Known
<1>7. Safe'
  BY <1>1 DEF IInv, Safe, NoOwnReplyUnknown, AnswersAreReplies, OnlyFirstUntimed
<1> QED
  BY <1>3, <1>4, <1>5, <1>6, <1>7 DEF IInv

\* A reply in the callback's hands is related to no request of this client, or
\* to one that has its entry: send_request holds mtx_ until the entry is made.
LEMMA OwnReplyHasEntry ==
    ASSUME IInv, taken # None, MutexFree, Related(taken) # Stray
    PROVE  /\ Related(taken) \in Numbers
           /\ taken \in replied
           /\ taken \in Servers \X Numbers
           /\ Related(taken) <= written
           /\ Entry(Related(taken)) # "absent"
<1>1. taken \in replied /\ taken[2] <= written
  BY DEF IInv, RepliesKnown, Known, Related
<1>2. taken \in Servers \X Numbers
  BY <1>1 DEF IInv, TypeOK
<1>3. taken[2] \in Numbers
  BY <1>2
<1>4. Recorded = written
  BY DEF MutexFree, Recorded
<1>5. ~(taken[2] > Recorded)
  BY <1>1, <1>3, <1>4 DEF IInv, TypeOK, Numbers
<1>6. requests_status_[taken[2]] # "absent"
  BY <1>3, <1>5 DEF IInv, EntriesMade
<1> QED
  BY <1>1, <1>2, <1>3, <1>6 DEF Related, Entry

\* The callback rejects a reply, ignores a duplicate or accepts the first one.
LEMMA RejectIInv == ASSUME IInv, RejectUnknown \/ IgnoreDuplicate PROVE IInv'
<1> USE DEF Processing, network
<1>1. UNCHANGED <<main_pc, stage, phase, written, time_req, stop_, stop_pc, signals, network,
                  matched, requests_status_, reader_history, skipped, unstamped>> /\ taken' = None
  BY DEF RejectUnknown, IgnoreDuplicate
<1>2. unknown' \subseteq {Stray}
  <2>1. unknown \subseteq {Stray}
    BY DEF IInv, Safe, NoOwnReplyUnknown
  <2>2. CASE RejectUnknown
    <3>1. Related(taken) = Stray
      BY <2>2, OwnReplyHasEntry DEF RejectUnknown
    <3> QED
      BY <2>1, <2>2, <3>1 DEF RejectUnknown
  <2>3. CASE IgnoreDuplicate
    BY <2>1, <2>3 DEF IgnoreDuplicate
  <2> QED
    BY <2>2, <2>3
<1>3. TypeOK'
  BY <1>1, <1>2 DEF IInv, TypeOK
<1>4. RunShape' /\ StopMeansComplete' /\ Stamped'
  BY <1>1 DEF IInv, RunShape, StopMeansComplete, Stamped, AllResponsesReceived
<1>5. EntriesMade' /\ RepliesKnown'
  BY <1>1 DEF IInv, EntriesMade, Recorded, RepliesKnown, Known
<1>6. Safe'
  BY <1>1, <1>2 DEF IInv, Safe, NoOwnReplyUnknown, AnswersAreReplies, OnlyFirstUntimed
<1> QED
  BY <1>3, <1>4, <1>5, <1>6 DEF IInv

\* on_data_available counts a reply to one of the client's requests.
LEMMA AcceptIInv == ASSUME IInv, AcceptReply PROVE IInv'
<1> USE ConstantsAssumption DEF Processing, network
<1> DEFINE n == Related(taken)
<1>1. n \in Numbers /\ requests_status_[n] = "waiting" /\ n # Stray
  BY DEF AcceptReply, Entry, Numbers, Stray
<1>2. /\ taken \in replied /\ taken \in Servers \X Numbers /\ n <= written
      /\ MutexFree
  BY <1>1, OwnReplyHasEntry DEF AcceptReply
<1>3. taken = <<taken[1], n>> /\ taken[1] \in Servers
  BY <1>2 DEF Related
<1> HIDE DEF n
<1>4. /\ requests_status_'[n] = "answered"
      /\ \A k \in Numbers : k # n => requests_status_'[k] = requests_status_[k]
      /\ requests_status_' \in [Numbers -> {"absent", "waiting", "answered"}]
  BY <1>1 DEF AcceptReply, n, IInv, TypeOK
<1>5. UNCHANGED <<main_pc, stage, written, time_req, stop_pc, signals, network,
                  matched, reader_history, skipped, unknown>> /\ taken' = None
  BY DEF AcceptReply
<1>6. /\ phase' = phase \/ (phase = "waiting" /\ phase' = "lock")
      /\ stop_' \in BOOLEAN
      /\ stop_ => stop_'
      /\ stop_' => stop_ \/ AllResponsesReceived(requests_status_')
  BY DEF AcceptReply, Woken, IInv, TypeOK
<1>7. unstamped' \subseteq {1} /\ unstamped' \subseteq Numbers
  <2>1. unstamped \subseteq {1} /\ unstamped \subseteq Numbers
    BY DEF IInv, Safe, OnlyFirstUntimed, TypeOK
  <2>2. unstamped' = unstamped \/ (~time_req /\ unstamped' = unstamped \cup {n})
    BY DEF AcceptReply, n
  <2>3. ~time_req => n = 1
    BY <1>1, <1>2 DEF IInv, TypeOK, Stamped, Numbers
  <2> QED
    BY <2>1, <2>2, <2>3, <1>1
<1>8. TypeOK'
  BY <1>4, <1>5, <1>6, <1>7 DEF IInv, TypeOK
<1>9. RunShape' /\ Stamped'
  BY <1>5, <1>6 DEF IInv, RunShape, Stamped
<1>10. StopMeansComplete'
  <2>1. stop_ /\ signals = 0 => FALSE
    BY <1>1 DEF IInv, StopMeansComplete, AllResponsesReceived
  <2> QED
    BY <1>5, <1>6, <2>1 DEF IInv, StopMeansComplete
<1>11. EntriesMade'
  <2>1. Recorded' = Recorded
    BY <1>5, <1>6 DEF Recorded
  <2> QED
    BY <1>1, <1>4, <2>1 DEF IInv, EntriesMade
<1>12. RepliesKnown'
  BY <1>5 DEF IInv, RepliesKnown, Known
<1>13. AnswersAreReplies'
  <2> SUFFICES ASSUME NEW k \in Numbers, requests_status_'[k] = "answered"
               PROVE  \E s \in Servers : <<s, k>> \in replied
    BY <1>5 DEF AnswersAreReplies
  <2>1. CASE k = n
    BY <1>2, <1>3, <2>1
  <2>2. CASE k # n
    BY <1>4, <2>2 DEF IInv, Safe, AnswersAreReplies
  <2> QED
    BY <2>1, <2>2
<1>14. Safe'
  BY <1>5, <1>7, <1>13 DEF IInv, Safe, NoOwnReplyUnknown, OnlyFirstUntimed
<1> QED
  BY <1>8, <1>9, <1>10, <1>11, <1>12, <1>14 DEF IInv

\* Every step of the client and its environment keeps the invariant.
LEMMA StepIInv == IInv /\ [Next]_vars => IInv'
<1> SUFFICES ASSUME IInv, [Next]_vars PROVE IInv'
  OBVIOUS
<1>1. CASE UNCHANGED vars
  <2>1. TypeOK'
    BY <1>1 DEF IInv, TypeOK, vars, runner, stopper, data, network
  <2>2. RunShape' /\ StopMeansComplete' /\ Stamped'
    BY <1>1 DEF IInv, RunShape, StopMeansComplete, Stamped, AllResponsesReceived,
       vars, runner, stopper
  <2>3. UNCHANGED bookVars /\ Recorded' = Recorded
    BY <1>1 DEF bookVars, Recorded, vars, runner, data, network
  <2> QED
    BY <2>1, <2>2, <2>3, BookUnchanged DEF IInv
<1>2. CASE Next
  BY <1>2, MainIInv, WaitIInv, WriteIInv, RecordIInv, StampIInv, StopIInv, DiscoveryIInv,
     DeliverIInv, TakeIInv, RejectIInv, AcceptIInv DEF Next, Run, ProcessReply
<1> QED
  BY <1>1, <1>2

\* The invariant holds in every state.
LEMMA Invariance == Spec => []IInv
  BY InitIInv, StepIInv, PTL DEF Spec

-----------------------------------------------------------------------------
\* Every variable of the client keeps its type, for all servers, numbers of
\* requests and bounds.
THEOREM TypeCorrect == Spec => []TypeOK
<1>1. IInv => TypeOK
  BY DEF IInv
<1> QED
  BY <1>1, Invariance, PTL

\* However fast and however many the servers, no reply to a request of this
\* client is rejected as unknown (send_request, on_data_available).
THEOREM FastRepliesKnown == Spec => []NoOwnReplyUnknown
<1>1. IInv => NoOwnReplyUnknown
  BY DEF IInv, Safe
<1> QED
  BY <1>1, Invariance, PTL

\* A request is answered only by a reply to that very request
\* (requests_status_ in on_data_available).
THEOREM AnsweredByReply == Spec => []AnswersAreReplies
<1>1. IInv => AnswersAreReplies
  BY DEF IInv, Safe
<1> QED
  BY <1>1, Invariance, PTL

\* Without a signal, run() returns only when all requests are answered (run,
\* on_data_available).
THEOREM EndIsComplete == Spec => []EndsComplete
<1>1. IInv => EndsComplete
  BY DEF IInv, StopMeansComplete, EndsComplete, AllResponsesReceived
<1> QED
  BY <1>1, Invariance, PTL

\* Only a reply to the first request can be timed before time_req is assigned
\* (send_requests, on_data_available).
THEOREM LaterRepliesTimed == Spec => []OnlyFirstUntimed
<1>1. IInv => OnlyFirstUntimed
  BY DEF IInv, Safe
<1> QED
  BY <1>1, Invariance, PTL
=============================================================================
