--------------------------- MODULE ServerAppProofs ---------------------------
(***************************************************************************)
(* Theorems about the server, for every set of clients, every sequence of  *)
(* operations and every value of the bounds.                               *)
(***************************************************************************)
EXTENDS ServerApp, TLAPS

\* The mark for "no sample" is no request.
LEMMA NoneIsNoRequest == None \notin Requests
BY DEF None, Requests

\* on_data_available holds a sample exactly between the take and the push.
CallbackHolds == cb_pc \in {"take", "push"} <=> taking # None

TypeInv == TypeOK /\ CallbackHolds

\* Types hold initially, and every group of actions keeps them.
LEMMA TypeInit == Init => TypeInv
<1> SUFFICES ASSUME Init PROVE TypeInv
  OBVIOUS
<1>1. /\ matched \in [Clients -> SUBSET ClientEndpoints]
      /\ endpoints \in [Clients -> SUBSET ClientEndpoints]
  BY DEF Init, NoneMatched
<1>2. /\ outcome \in [Requests -> Outcomes]
      /\ sent \in [Clients -> 0 .. Len(Operations)]
  BY ConstantsAssumption DEF Init, Outcomes
<1>3. /\ heap \in Seq(Requests \cup {None})
      /\ requests_ \in Seq([info : Requests, request : Nat])
      /\ reader_history \in Seq(Requests)
  BY DEF Init
<1>4. signals \in 0 .. MaxSignals /\ failures \in 0 .. MaxWriteFailures
  BY ConstantsAssumption DEF Init
<1>5. /\ main_pc = "create_participant" /\ run_pc = "none" /\ reply_pc = "lock"
      /\ stop_ = FALSE /\ stop_pc = "idle" /\ cb_pc = "idle"
      /\ taking = None /\ gone = {} /\ notices = {}
  BY DEF Init
<1> QED
  BY <1>1, <1>2, <1>3, <1>4, <1>5 DEF TypeInv, TypeOK, CallbackHolds

\* Constructor, join and destructor.
LEMMA TypeMain == ASSUME TypeInv, Main \/ ConstructorThrows PROVE TypeInv'
<1> USE DEF TypeInv, TypeOK, CallbackHolds, data, network
<1>1. ASSUME NEW from, NEW to \in {"create_request_entities", "create_reply_entities",
                "assign_reply_writer", "spawn", "terminated"},
             ConstructorStep(from, to)
      PROVE  TypeInv'
  BY <1>1 DEF ConstructorStep
<1>2. CASE Spawn \/ JoinRun
  BY <1>2 DEF Spawn, JoinRun
<1>3. CASE Destructor
  <2>1. outcome' \in [Requests -> Outcomes]
    BY <1>3 DEF Destructor, Outcomes
  <2>2. matched' \in [Clients -> SUBSET ClientEndpoints]
    BY <1>3 DEF Destructor, NoneMatched
  <2>3. requests_' \in Seq([info : Requests, request : Nat])
    BY <1>3 DEF Destructor
  <2> QED
    BY <1>3, <2>1, <2>2, <2>3 DEF Destructor
<1> QED
  BY <1>1, <1>2, <1>3 DEF Main, ConstructorThrows, CreateParticipant, CreateRequestEntities,
     CreateReplyEntities, AssignReplyWriter

\* The run thread, stop and the waits of the reply thread.
LEMMA TypeThreads ==
    ASSUME TypeInv,
           RunCheck \/ RunBlock \/ StopStore \/ StopNotify \/ SpuriousWakeup
             \/ ReplyWait \/ ReplyBlock \/ ReplyExit
    PROVE  TypeInv'
<1> USE DEF TypeInv, TypeOK, CallbackHolds, data, network
<1>1. CASE RunCheck \/ RunBlock
  BY <1>1 DEF RunCheck, RunBlock
<1>2. CASE StopStore
  BY <1>2, ConstantsAssumption DEF StopStore
<1>3. CASE StopNotify \/ SpuriousWakeup
  BY <1>3 DEF StopNotify, SpuriousWakeup, Woken
<1>4. CASE ReplyWait \/ ReplyBlock \/ ReplyExit
  BY <1>4 DEF ReplyWait, ReplyBlock, ReplyExit
<1> QED
  BY <1>1, <1>2, <1>3, <1>4

\* The queue after one request is taken from its front, and after that
\* request is pushed again.
LEMMA QueueType ==
    ASSUME NEW S, NEW q \in Seq(S), q # <<>>
    PROVE  /\ Head(q) \in S
           /\ Tail(q) \in Seq(S)
           /\ Append(Tail(q), Head(q)) \in Seq(S)
OBVIOUS

\* Appending to a sequence keeps its type.
LEMMA AppendType ==
    ASSUME NEW S, NEW q \in Seq(S), NEW x \in S
    PROVE  Append(q, x) \in Seq(S)
OBVIOUS

\* Overwriting the last element of a sequence.
LEMMA UpdatedSeq ==
    ASSUME NEW S, NEW s \in Seq(S), NEW x \in S
    PROVE  [s EXCEPT ![Len(s)] = x] \in Seq(S)
<1> DEFINE t == [s EXCEPT ![Len(s)] = x]
<1>1. s \in [1 .. Len(s) -> S] /\ Len(s) \in Nat
  OBVIOUS
<1>2. t \in [1 .. Len(s) -> S]
  BY <1>1
<1> HIDE DEF t
<1>3. t \in Seq(S)
  BY <1>1, <1>2
<1> QED
  BY <1>3 DEF t

\* An iteration of reply_routine.
LEMMA TypeReply == ASSUME TypeInv, ReplyIteration PROVE TypeInv'
<1> USE DEF TypeInv, TypeOK, CallbackHolds, data, network, Processing
<1>1. requests_ # <<>>
  BY DEF ReplyIteration, ProcessIgnore, ProcessSave, ProcessMalformed, ProcessReply,
     ProcessWriteFails, ProcessNullWriter
<1>0. Front \in [info : Requests, request : Nat]
  BY <1>1, QueueType DEF Front
<1>2. /\ Front.info \in Requests
      /\ Tail(requests_) \in Seq([info : Requests, request : Nat])
      /\ Append(Tail(requests_), Front) \in Seq([info : Requests, request : Nat])
  BY <1>0, <1>1, QueueType DEF Front
<1>3. ASSUME NEW what \in Outcomes, Settle(what)
      PROVE  outcome' \in [Requests -> Outcomes]
  BY <1>3, <1>2 DEF Settle
<1>4. {"ignored", "malformed", "answered"} \subseteq Outcomes
  BY DEF Outcomes
<1>5. CASE ProcessIgnore \/ ProcessMalformed \/ ProcessReply
  <2>1. outcome' \in [Requests -> Outcomes]
    BY <1>3, <1>4, <1>5 DEF ProcessIgnore, ProcessMalformed, ProcessReply
  <2>2. requests_' = Tail(requests_) /\ Processing /\ UNCHANGED <<main_pc, failures>>
    BY <1>5 DEF ProcessIgnore, ProcessMalformed, ProcessReply
  <2> QED
    BY <1>2, <2>1, <2>2
<1>7. CASE ProcessSave
  BY <1>2, <1>7 DEF ProcessSave, SaveForLater
<1>8. CASE ProcessWriteFails
  BY <1>2, <1>8, ConstantsAssumption DEF ProcessWriteFails, SaveForLater
<1>6. CASE ProcessNullWriter
  BY <1>6 DEF ProcessNullWriter
<1> QED
  BY <1>5, <1>6, <1>7, <1>8 DEF ReplyIteration

\* The steps of on_data_available.
LEMMA TypeCallback ==
    ASSUME TypeInv,
           OnDataAvailable \/ TakeNextSample \/ SampleTaken \/ PushRequest \/ CallbackReturns
    PROVE  TypeInv'
<1> USE DEF TypeInv, TypeOK, CallbackHolds, threads, network
<1>1. CASE OnDataAvailable \/ TakeNextSample
  <2>1. /\ Head(reader_history) \in Requests
        /\ Tail(reader_history) \in Seq(Requests)
    BY <1>1, QueueType DEF OnDataAvailable, TakeNextSample, Take
  <2>2. heap' \in Seq(Requests \cup {None})
    <3>1. heap' = heap \/ heap' = Append(heap, None)
      BY <1>1 DEF OnDataAvailable, TakeNextSample
    <3>2. heap \in Seq(Requests \cup {None}) /\ None \in Requests \cup {None}
      OBVIOUS
    <3>3. Append(heap, None) \in Seq(Requests \cup {None})
      <4> HIDE DEF TypeInv, TypeOK, CallbackHolds
      <4> QED
        BY <3>2, AppendType
    <3> HIDE DEF TypeInv, TypeOK, CallbackHolds
    <3> QED
      BY <3>1, <3>2, <3>3
  <2>3. Take
    BY <1>1 DEF OnDataAvailable, TakeNextSample
  <2>4. TypeOK'
    BY <2>1, <2>2, <2>3 DEF Take
  <2>5. CallbackHolds'
    BY <2>1, <2>3, NoneIsNoRequest DEF Take
  <2> QED
    BY <2>4, <2>5
<1>2. CASE SampleTaken
  <2>1. heap' \in Seq(Requests \cup {None})
    <3>1. heap' = [heap EXCEPT ![Len(heap)] = taking]
      BY <1>2 DEF SampleTaken
    <3> QED
      BY <3>1, UpdatedSeq
  <2>2. taking \in Requests
    BY <1>2 DEF SampleTaken
  <2>3. outcome' \in [Requests -> Outcomes]
    BY <1>2, <2>2 DEF SampleTaken, Outcomes
  <2>4. TypeOK'
    BY <1>2, <2>1, <2>3 DEF SampleTaken
  <2>5. CallbackHolds'
    BY <1>2 DEF SampleTaken
  <2> QED
    BY <2>4, <2>5
<1>3. CASE PushRequest
  <2>1. requests_' \in Seq([info : Requests, request : Nat])
    BY <1>3 DEF PushRequest
  <2> QED
    BY <1>3, <2>1 DEF PushRequest, Woken
<1>4. CASE CallbackReturns
  BY <1>4 DEF CallbackReturns
<1> QED
  BY <1>1, <1>2, <1>3, <1>4

\* The match and participant callbacks.
LEMMA TypeDiscovery ==
    ASSUME TypeInv, NEW c \in Clients,
           OnPublicationMatched(c) \/ OnSubscriptionMatched(c) \/ OnParticipantDiscovery(c)
    PROVE  TypeInv'
<1> USE DEF TypeInv, TypeOK, CallbackHolds, data, network, Notified
<1>1. ASSUME NEW e \in ClientEndpoints, OnMatched(c, e)
      PROVE  TypeInv'
  BY <1>1 DEF OnMatched, Match
<1>2. ASSUME NEW e \in ClientEndpoints, OnUnmatched(c, e)
      PROVE  TypeInv'
  BY <1>2 DEF OnUnmatched, Match, ClearIfNoneMatched
<1>3. CASE OnParticipantDiscovery(c)
  BY <1>3 DEF OnParticipantDiscovery, Match
<1> QED
  BY <1>1, <1>2, <1>3 DEF OnPublicationMatched, OnSubscriptionMatched, ClientEndpoints

\* Clients and the middleware.
LEMMA TypeEnvironment ==
    ASSUME TypeInv, NEW c \in Clients,
           SendRequest(c) \/ ClientLeaves(c)
             \/ \E e \in ClientEndpoints : EndpointMatched(c, e)
    PROVE  TypeInv'
<1> USE DEF TypeInv, TypeOK, CallbackHolds, data, threads
<1>1. CASE SendRequest(c)
  <2>1. <<c, sent[c] + 1>> \in Requests
    BY <1>1, ConstantsAssumption DEF SendRequest, Requests
  <2> QED
    BY <1>1, <2>1, ConstantsAssumption DEF SendRequest
<1>2. CASE ClientLeaves(c)
  BY <1>2 DEF ClientLeaves
<1>3. CASE \E e \in ClientEndpoints : EndpointMatched(c, e)
  BY <1>3 DEF EndpointMatched
<1> QED
  BY <1>1, <1>2, <1>3

\* Every step keeps the types.
LEMMA TypeStep == TypeInv /\ [Next]_vars => TypeInv'
<1> SUFFICES ASSUME TypeInv, [Next]_vars PROVE TypeInv'
  OBVIOUS
<1>1. CASE UNCHANGED vars
  BY <1>1 DEF TypeInv, TypeOK, CallbackHolds, vars, threads, data, network
<1>2. CASE Next
  BY <1>2, TypeMain, TypeThreads, TypeReply, TypeCallback, TypeDiscovery, TypeEnvironment
  DEF Next
<1> QED
  BY <1>1, <1>2

\* The variables of the server always hold values of their types.
THEOREM TypeCorrect == Spec => []TypeOK
<1>1. TypeInv => TypeOK
  BY DEF TypeInv
<1> QED
  BY <1>1, TypeInit, TypeStep, PTL DEF Spec

-----------------------------------------------------------------------------
(* Requests are accounted for.                                             *)

\* Taking the first element of a sequence without duplicates.
LEMMA ReaderTail ==
    ASSUME NEW S, NEW s \in Seq(S), s # <<>>,
           \A i, j \in DOMAIN s : s[i] = s[j] => i = j
    PROVE  LET t == Tail(s)
           IN  /\ Head(s) \in {s[i] : i \in DOMAIN s}
               /\ {t[i] : i \in DOMAIN t} = {s[i] : i \in DOMAIN s} \ {Head(s)}
               /\ \A i, j \in DOMAIN t : t[i] = t[j] => i = j
<1> DEFINE t == Tail(s)
<1>1. /\ Len(s) \in Nat /\ Len(s) >= 1 /\ DOMAIN s = 1 .. Len(s)
      /\ DOMAIN t = 1 .. (Len(s) - 1)
      /\ \A i \in 1 .. (Len(s) - 1) : t[i] = s[i + 1]
      /\ Head(s) = s[1]
  OBVIOUS
<1> HIDE DEF t
<1>2. \A i, j \in DOMAIN t : t[i] = t[j] => i = j
  BY <1>1
<1>3. ASSUME NEW i \in DOMAIN t
      PROVE  t[i] \in {s[k] : k \in DOMAIN s} \ {Head(s)}
  BY <1>1
<1>4. ASSUME NEW k \in DOMAIN s, s[k] # Head(s)
      PROVE  s[k] \in {t[i] : i \in DOMAIN t}
  <2>1. k - 1 \in DOMAIN t /\ t[k - 1] = s[k]
    BY <1>1, <1>4
  <2> QED
    BY <2>1
<1>5. Head(s) \in {s[i] : i \in DOMAIN s}
  BY <1>1
<1>6. {t[i] : i \in DOMAIN t} = {s[i] : i \in DOMAIN s} \ {Head(s)}
  BY <1>3, <1>4
<1> QED
  BY <1>2, <1>5, <1>6 DEF t

\* Appending a new element to a sequence without duplicates.
LEMMA ReaderAppend ==
    ASSUME NEW S, NEW s \in Seq(S), NEW x \in S, x \notin {s[i] : i \in DOMAIN s},
           \A i, j \in DOMAIN s : s[i] = s[j] => i = j
    PROVE  LET t == Append(s, x)
           IN  /\ {t[i] : i \in DOMAIN t} = {s[i] : i \in DOMAIN s} \cup {x}
               /\ \A i, j \in DOMAIN t : t[i] = t[j] => i = j
<1> DEFINE t == Append(s, x)
<1>1. /\ Len(s) \in Nat /\ DOMAIN s = 1 .. Len(s)
      /\ DOMAIN t = 1 .. (Len(s) + 1)
      /\ \A i \in 1 .. Len(s) : t[i] = s[i]
      /\ t[Len(s) + 1] = x
  OBVIOUS
<1> HIDE DEF t
<1>2. \A i, j \in DOMAIN t : t[i] = t[j] => i = j
  BY <1>1
<1>3. ASSUME NEW i \in DOMAIN t
      PROVE  t[i] \in {s[k] : k \in DOMAIN s} \cup {x}
  BY <1>1
<1>4. ASSUME NEW k \in DOMAIN s
      PROVE  s[k] \in {t[i] : i \in DOMAIN t}
  BY <1>1
<1>5. x \in {t[i] : i \in DOMAIN t}
  BY <1>1
<1>6. {t[i] : i \in DOMAIN t} = {s[i] : i \in DOMAIN s} \cup {x}
  BY <1>3, <1>4, <1>5
<1> QED
  BY <1>2, <1>6 DEF t

\* The same for the queue, whose elements are told apart by their info.
LEMMA QueueTail ==
    ASSUME NEW q \in Seq([info : Requests, request : Nat]), q # <<>>,
           \A i, j \in DOMAIN q : q[i].info = q[j].info => i = j
    PROVE  LET t == Tail(q)
           IN  /\ Head(q).info \in {q[i].info : i \in DOMAIN q}
               /\ {t[i].info : i \in DOMAIN t} = {q[i].info : i \in DOMAIN q} \ {Head(q).info}
               /\ \A i, j \in DOMAIN t : t[i].info = t[j].info => i = j
<1> DEFINE t == Tail(q)
<1>1. /\ Len(q) \in Nat /\ Len(q) >= 1 /\ DOMAIN q = 1 .. Len(q)
      /\ DOMAIN t = 1 .. (Len(q) - 1)
      /\ \A i \in 1 .. (Len(q) - 1) : t[i] = q[i + 1]
      /\ Head(q) = q[1]
  OBVIOUS
<1> HIDE DEF t
<1>0. ASSUME NEW i \in DOMAIN t
      PROVE  i + 1 \in DOMAIN q /\ i + 1 # 1 /\ i \in Int /\ t[i].info = q[i + 1].info
  BY <1>1
<1>2. ASSUME NEW i \in DOMAIN t, NEW j \in DOMAIN t, t[i].info = t[j].info
      PROVE  i = j
  <2>1. i + 1 = j + 1
    BY <1>0, <1>2
  <2> QED
    BY <2>1, <1>0
<1>7. 1 \in DOMAIN q
  BY <1>1
<1>3. ASSUME NEW i \in DOMAIN t
      PROVE  t[i].info \in {q[k].info : k \in DOMAIN q} \ {Head(q).info}
  <2>1. q[i + 1].info # q[1].info
    BY <1>0, <1>7
  <2> QED
    BY <1>0, <1>1, <2>1
<1>4. ASSUME NEW k \in DOMAIN q, q[k].info # Head(q).info
      PROVE  q[k].info \in {t[i].info : i \in DOMAIN t}
  <2>1. k - 1 \in DOMAIN t /\ t[k - 1] = q[k]
    BY <1>1, <1>4
  <2> QED
    BY <2>1
<1>5. Head(q).info \in {q[i].info : i \in DOMAIN q}
  <2>1. Head(q).info = q[1].info
    BY <1>1
  <2> QED
    BY <1>7, <2>1
<1>6. {t[i].info : i \in DOMAIN t} = {q[i].info : i \in DOMAIN q} \ {Head(q).info}
  BY <1>3, <1>4
<1> QED
  BY <1>2, <1>5, <1>6 DEF t

\* Pushing a request that is not in the queue.
LEMMA QueueAppend ==
    ASSUME NEW q \in Seq([info : Requests, request : Nat]),
           NEW e \in [info : Requests, request : Nat],
           e.info \notin {q[i].info : i \in DOMAIN q},
           \A i, j \in DOMAIN q : q[i].info = q[j].info => i = j
    PROVE  LET t == Append(q, e)
           IN  /\ {t[i].info : i \in DOMAIN t} = {q[i].info : i \in DOMAIN q} \cup {e.info}
               /\ \A i, j \in DOMAIN t : t[i].info = t[j].info => i = j
<1> DEFINE t == Append(q, e)
<1>1. /\ Len(q) \in Nat /\ DOMAIN q = 1 .. Len(q)
      /\ DOMAIN t = 1 .. (Len(q) + 1)
      /\ \A i \in 1 .. Len(q) : t[i] = q[i]
      /\ t[Len(q) + 1] = e
  OBVIOUS
<1> HIDE DEF t
<1>2. \A i, j \in DOMAIN t : t[i].info = t[j].info => i = j
  BY <1>1
<1>3. ASSUME NEW i \in DOMAIN t
      PROVE  t[i].info \in {q[k].info : k \in DOMAIN q} \cup {e.info}
  BY <1>1
<1>4. ASSUME NEW k \in DOMAIN q
      PROVE  q[k].info \in {t[i].info : i \in DOMAIN t}
  BY <1>1
<1>5. e.info \in {t[i].info : i \in DOMAIN t}
  BY <1>1
<1>6. {t[i].info : i \in DOMAIN t} = {q[i].info : i \in DOMAIN q} \cup {e.info}
  BY <1>3, <1>4, <1>5
<1> QED
  BY <1>2, <1>6 DEF t

\* A request that has not been sent has not been settled.
UnsentUntouched == \A id \in Requests : ~WasSent(id) => outcome[id] = "none"

Accounted == RequestsAccounted /\ UnsentUntouched

\* What Accounted depends on.
accounts == <<reader_history, taking, requests_, outcome, sent>>

\* Nothing has been sent, and nothing is anywhere.
LEMMA AccountedInit == Init => Accounted
<1> SUFFICES ASSUME Init PROVE Accounted
  OBVIOUS
<1>1. InReader = {} /\ InQueue = {} /\ InCallback = {}
  BY DEF Init, InReader, InQueue, InCallback
<1>2. \A id \in Requests : ~WasSent(id) /\ outcome[id] = "none"
  BY DEF Init, Requests, WasSent, Client
<1>3. OnceInReader /\ OnceInQueue
  BY DEF Init, OnceInReader, OnceInQueue
<1> QED
  BY <1>1, <1>2, <1>3 DEF Accounted, RequestsAccounted, UnsentUntouched, Unsettled

\* Most steps move no request.
LEMMA AccountedFrame == ASSUME Accounted, UNCHANGED accounts PROVE Accounted'
BY DEF Accounted, accounts, RequestsAccounted, UnsentUntouched, OnceInReader, OnceInQueue,
   InReader, InCallback, InQueue, Unsettled, WasSent, Client

\* The take of on_data_available moves one request to the callback.
LEMMA AccountedTake ==
    ASSUME TypeInv, Accounted, OnDataAvailable \/ TakeNextSample
    PROVE  Accounted'
<1> DEFINE id == Head(reader_history)
<1>1. /\ reader_history # <<>> /\ reader_history' = Tail(reader_history)
      /\ taking' = id /\ taking = None
      /\ UNCHANGED <<requests_, outcome, sent>>
  BY DEF OnDataAvailable, TakeNextSample, Take, TypeInv, CallbackHolds, network
<1>2. reader_history \in Seq(Requests) /\ id \in Requests
  BY <1>1, QueueType DEF TypeInv, TypeOK
<1>3. OnceInReader' /\ InReader' = InReader \ {id} /\ id \in InReader
  <2>1. \A i, j \in DOMAIN reader_history : reader_history[i] = reader_history[j] => i = j
    BY DEF Accounted, RequestsAccounted, OnceInReader
  <2> DEFINE t == Tail(reader_history)
  <2>2. /\ id \in {reader_history[i] : i \in DOMAIN reader_history}
        /\ {t[i] : i \in DOMAIN t}
             = {reader_history[i] : i \in DOMAIN reader_history} \ {id}
        /\ \A i, j \in DOMAIN t : t[i] = t[j] => i = j
    BY <1>1, <1>2, <2>1, ReaderTail
  <2> HIDE DEF t, id
  <2>3. reader_history' = t
    BY <1>1 DEF t
  <2> QED
    BY <2>2, <2>3 DEF OnceInReader, InReader
<1>4. InCallback = {} /\ InCallback' = {id}
  BY <1>1, <1>2, NoneIsNoRequest DEF InCallback
<1>5. InQueue' = InQueue /\ OnceInQueue' /\ Unsettled' = Unsettled /\ UnsentUntouched'
  BY <1>1 DEF Accounted, RequestsAccounted, InQueue, OnceInQueue, Unsettled, WasSent, Client,
     UnsentUntouched
<1> HIDE DEF id
<1> QED
  BY <1>3, <1>4, <1>5 DEF Accounted, RequestsAccounted

\* A request that leaves its place leaves it settled.
LEMMA SettledLeaves ==
    ASSUME TypeInv, Accounted, NEW id \in Unsettled, NEW what \in Outcomes \ {"none"},
           outcome' = [outcome EXCEPT ![id] = what], UNCHANGED sent
    PROVE  Unsettled' = Unsettled \ {id} /\ UnsentUntouched'
<1>1. id \in Requests /\ WasSent(id)
  BY DEF Unsettled
<1>2. \A other \in Requests : WasSent(other)' = WasSent(other)
  BY DEF WasSent, Client
<1>3. \A other \in Requests : outcome'[other] = IF other = id THEN what ELSE outcome[other]
  BY <1>1 DEF TypeInv, TypeOK
<1> QED
  BY <1>1, <1>2, <1>3 DEF Unsettled, UnsentUntouched, Accounted

\* A sample that was taken is kept for the push or settled as skipped.
LEMMA AccountedSampleTaken ==
    ASSUME TypeInv, Accounted, SampleTaken
    PROVE  Accounted'
<1>1. CASE UNCHANGED <<taking, outcome>>
  BY <1>1, AccountedFrame DEF SampleTaken, accounts, network
<1>2. CASE taking' = None /\ outcome' = [outcome EXCEPT ![taking] = "skipped"]
  <2>1. taking # None /\ UNCHANGED <<reader_history, requests_, sent>>
    BY DEF SampleTaken, TypeInv, CallbackHolds, network
  <2>2. InCallback = {taking} /\ InCallback' = {}
    BY <1>2, <2>1 DEF InCallback
  <2>3. taking \in Unsettled
    BY <2>2 DEF Accounted, RequestsAccounted
  <2>4. Unsettled' = Unsettled \ {taking} /\ UnsentUntouched'
    BY <1>2, <2>1, <2>3, SettledLeaves DEF Outcomes
  <2>5. InReader' = InReader /\ InQueue' = InQueue /\ OnceInReader' /\ OnceInQueue'
    BY <2>1 DEF InReader, InQueue, OnceInReader, OnceInQueue, Accounted, RequestsAccounted
  <2> QED
    BY <2>2, <2>4, <2>5 DEF Accounted, RequestsAccounted
<1> QED
  BY <1>1, <1>2 DEF SampleTaken

\* The push moves the request from the callback to the queue.
LEMMA AccountedPush ==
    ASSUME TypeInv, Accounted, PushRequest
    PROVE  Accounted'
<1> DEFINE e == [info |-> taking, request |-> Len(heap)]
<1>1. /\ requests_' = Append(requests_, e) /\ taking' = None /\ taking # None
      /\ UNCHANGED <<reader_history, outcome, sent>>
  BY DEF PushRequest, TypeInv, CallbackHolds, network
<1>2. e \in [info : Requests, request : Nat] /\ e.info = taking
  BY <1>1 DEF TypeInv, TypeOK
<1>3. InCallback = {taking} /\ InCallback' = {}
  BY <1>1 DEF InCallback
<1>4. e.info \notin InQueue
  BY <1>2, <1>3 DEF Accounted, RequestsAccounted
<1>5. requests_ \in Seq([info : Requests, request : Nat])
  BY DEF TypeInv, TypeOK
<1>6. OnceInQueue
  BY DEF Accounted, RequestsAccounted
<1> HIDE DEF e
<1>7. InQueue' = InQueue \cup {taking} /\ OnceInQueue'
  BY <1>1, <1>2, <1>4, <1>5, <1>6, QueueAppend DEF InQueue, OnceInQueue
<1>8. InReader' = InReader /\ OnceInReader' /\ Unsettled' = Unsettled /\ UnsentUntouched'
  BY <1>1 DEF Accounted, RequestsAccounted, InReader, OnceInReader, Unsettled, WasSent, Client,
     UnsentUntouched
<1> QED
  BY <1>3, <1>7, <1>8 DEF Accounted, RequestsAccounted

\* An iteration of reply_routine settles the front or moves it to the back.
LEMMA AccountedReply ==
    ASSUME TypeInv, Accounted, ReplyIteration
    PROVE  Accounted'
<1>1. requests_ # <<>> /\ UNCHANGED <<reader_history, taking, sent>>
  BY DEF ReplyIteration, ProcessIgnore, ProcessSave, ProcessMalformed, ProcessReply,
     ProcessWriteFails, ProcessNullWriter, Processing, data, network
<1>2. requests_ \in Seq([info : Requests, request : Nat]) /\ OnceInQueue
  BY DEF TypeInv, TypeOK, Accounted, RequestsAccounted
<1>3. /\ Front \in [info : Requests, request : Nat]
      /\ Tail(requests_) \in Seq([info : Requests, request : Nat])
  BY <1>1, <1>2, QueueType DEF Front
<1> DEFINE rest == Tail(requests_)
           left == {rest[i].info : i \in DOMAIN rest}
<1>4. /\ Front.info \in InQueue
      /\ left = InQueue \ {Front.info}
      /\ \A i, j \in DOMAIN rest : rest[i].info = rest[j].info => i = j
  BY <1>1, <1>2, QueueTail DEF InQueue, OnceInQueue, Front
<1>5. InReader' = InReader /\ InCallback' = InCallback /\ OnceInReader'
  BY <1>1 DEF InReader, InCallback, OnceInReader, Accounted, RequestsAccounted
<1>6. ASSUME NEW what \in Outcomes \ {"none"}, Settle(what), requests_' = Tail(requests_)
      PROVE  Accounted'
  <2>1. InQueue' = InQueue \ {Front.info} /\ OnceInQueue'
    BY <1>4, <1>6 DEF InQueue, OnceInQueue
  <2>2. Front.info \in Unsettled
    BY <1>4 DEF Accounted, RequestsAccounted
  <2>3. Unsettled' = Unsettled \ {Front.info} /\ UnsentUntouched'
    BY <1>1, <1>6, <2>2, SettledLeaves DEF Settle
  <2> QED
    BY <1>4, <1>5, <2>1, <2>3 DEF Accounted, RequestsAccounted
<1>7. ASSUME SaveForLater, UNCHANGED outcome
      PROVE  Accounted'
  <2>1. Front.info \notin left
    BY <1>4
  <2>2. requests_' = Append(rest, Front)
    BY <1>7 DEF SaveForLater
  <2> HIDE DEF rest
  <2>3. InQueue' = left \cup {Front.info} /\ OnceInQueue'
    <3>1. rest \in Seq([info : Requests, request : Nat])
      BY <1>3 DEF rest
    <3> DEFINE t == Append(rest, Front)
    <3>2. /\ {t[i].info : i \in DOMAIN t} = left \cup {Front.info}
          /\ \A i, j \in DOMAIN t : t[i].info = t[j].info => i = j
      BY <1>3, <1>4, <2>1, <3>1, QueueAppend
    <3>3. requests_' = t
      BY <2>2
    <3> HIDE DEF t, left
    <3> QED
      BY <3>2, <3>3 DEF InQueue, OnceInQueue
  <2>4. InQueue' = InQueue
    BY <1>4, <2>3
  <2>5. Unsettled' = Unsettled /\ UnsentUntouched'
    BY <1>1, <1>7 DEF Accounted, Unsettled, WasSent, Client, UnsentUntouched
  <2> QED
    BY <1>5, <2>3, <2>4, <2>5 DEF Accounted, RequestsAccounted
<1>8. {"ignored", "malformed", "answered"} \subseteq Outcomes \ {"none"}
  BY DEF Outcomes
<1>9. CASE ProcessIgnore \/ ProcessMalformed \/ ProcessReply
  BY <1>6, <1>8, <1>9 DEF ProcessIgnore, ProcessMalformed, ProcessReply
<1>10. CASE ProcessSave \/ ProcessWriteFails
  BY <1>7, <1>10 DEF ProcessSave, ProcessWriteFails
<1>11. CASE ProcessNullWriter
  BY <1>1, <1>11, AccountedFrame DEF ProcessNullWriter, accounts
<1> QED
  BY <1>9, <1>10, <1>11 DEF ReplyIteration

\* A client's next request is new.
LEMMA AccountedSend ==
    ASSUME TypeInv, Accounted, NEW c \in Clients, SendRequest(c)
    PROVE  Accounted'
<1> DEFINE id == <<c, sent[c] + 1>>
<1>1. /\ reader_history' = Append(reader_history, id)
      /\ sent' = [sent EXCEPT ![c] = @ + 1]
      /\ UNCHANGED <<taking, requests_, outcome>>
  BY DEF SendRequest
<1>2. id \in Requests /\ sent \in [Clients -> Nat] /\ reader_history \in Seq(Requests)
  BY ConstantsAssumption DEF SendRequest, Requests, TypeInv, TypeOK
<1>3. \A other \in Requests :
        /\ other[1] \in Clients /\ other[2] \in Nat
        /\ other = <<other[1], other[2]>>
  BY ConstantsAssumption DEF Requests
<1>4. ~WasSent(id)
  BY <1>2 DEF WasSent, Client
<1>5. \A other \in Requests : WasSent(other)' <=> WasSent(other) \/ other = id
  BY <1>1, <1>2, <1>3 DEF WasSent, Client
<1>6. id \notin InReader /\ id \notin InCallback /\ id \notin InQueue
  BY <1>4 DEF Accounted, RequestsAccounted, Unsettled
<1>7. outcome[id] = "none"
  BY <1>2, <1>4 DEF Accounted, UnsentUntouched
<1> HIDE DEF id
<1>8. Unsettled' = Unsettled \cup {id} /\ UnsentUntouched'
  BY <1>1, <1>2, <1>5, <1>7 DEF Unsettled, UnsentUntouched, Accounted
<1>9. InReader' = InReader \cup {id} /\ OnceInReader'
  <2> DEFINE t == Append(reader_history, id)
  <2>1. \A i, j \in DOMAIN reader_history : reader_history[i] = reader_history[j] => i = j
    BY DEF Accounted, RequestsAccounted, OnceInReader
  <2>2. /\ {t[i] : i \in DOMAIN t} = {reader_history[i] : i \in DOMAIN reader_history} \cup {id}
        /\ \A i, j \in DOMAIN t : t[i] = t[j] => i = j
    BY <1>2, <1>6, <2>1, ReaderAppend DEF InReader
  <2>3. reader_history' = t
    BY <1>1
  <2> HIDE DEF t
  <2> QED
    BY <2>2, <2>3 DEF OnceInReader, InReader
<1>10. InQueue' = InQueue /\ InCallback' = InCallback /\ OnceInQueue'
  BY <1>1 DEF InQueue, InCallback, OnceInQueue, Accounted, RequestsAccounted
<1> QED
  BY <1>6, <1>8, <1>9, <1>10 DEF Accounted, RequestsAccounted

\* The destructor settles all that is queued.
LEMMA AccountedDestructor ==
    ASSUME TypeInv, Accounted, Destructor
    PROVE  Accounted'
<1>1. /\ requests_' = <<>> /\ UNCHANGED <<reader_history, taking, sent>>
      /\ \A id \in Requests : outcome'[id] = IF id \in InQueue THEN "discarded" ELSE outcome[id]
  BY DEF Destructor, data, network
<1>2. InQueue' = {} /\ OnceInQueue'
  BY <1>1 DEF InQueue, OnceInQueue
<1>3. InReader' = InReader /\ InCallback' = InCallback /\ OnceInReader'
  BY <1>1 DEF InReader, InCallback, OnceInReader, Accounted, RequestsAccounted
<1>4. \A id \in Requests : WasSent(id)' = WasSent(id)
  BY <1>1 DEF WasSent, Client
<1>5. InQueue \subseteq Unsettled
  BY DEF Accounted, RequestsAccounted
<1>6. Unsettled' = Unsettled \ InQueue /\ UnsentUntouched'
  BY <1>1, <1>4, <1>5 DEF Unsettled, UnsentUntouched, Accounted
<1> QED
  BY <1>2, <1>3, <1>6 DEF Accounted, RequestsAccounted

\* All other steps move no request.
LEMMA AccountedOther ==
    ASSUME Accounted,
           \/ (Main /\ ~Destructor) \/ ConstructorThrows
           \/ RunCheck \/ RunBlock \/ StopStore \/ StopNotify \/ SpuriousWakeup
           \/ ReplyWait \/ ReplyBlock \/ ReplyExit \/ CallbackReturns
           \/ \E c \in Clients :
                \/ OnPublicationMatched(c) \/ OnSubscriptionMatched(c)
                \/ OnParticipantDiscovery(c) \/ ClientLeaves(c)
                \/ \E endpoint \in ClientEndpoints : EndpointMatched(c, endpoint)
    PROVE  Accounted'
<1>1. CASE (Main /\ ~Destructor) \/ ConstructorThrows
  BY <1>1, AccountedFrame DEF Main, CreateParticipant, CreateRequestEntities, CreateReplyEntities,
     AssignReplyWriter, ConstructorThrows, ConstructorStep, Spawn, JoinRun, accounts, data, network
<1>2. CASE RunCheck \/ RunBlock \/ StopStore \/ StopNotify \/ SpuriousWakeup
  BY <1>2, AccountedFrame DEF RunCheck, RunBlock, StopStore, StopNotify, SpuriousWakeup,
     accounts, data, network
<1>3. CASE ReplyWait \/ ReplyBlock \/ ReplyExit \/ CallbackReturns
  BY <1>3, AccountedFrame DEF ReplyWait, ReplyBlock, ReplyExit, CallbackReturns,
     accounts, data, network
<1>4. ASSUME NEW c \in Clients,
             OnPublicationMatched(c) \/ OnSubscriptionMatched(c) \/ OnParticipantDiscovery(c)
      PROVE  Accounted'
  BY <1>4, AccountedFrame DEF OnPublicationMatched, OnSubscriptionMatched, OnMatched, OnUnmatched,
     OnParticipantDiscovery, Notified, accounts, data, network
<1>5. ASSUME NEW c \in Clients,
             ClientLeaves(c) \/ \E endpoint \in ClientEndpoints : EndpointMatched(c, endpoint)
      PROVE  Accounted'
  BY <1>5, AccountedFrame DEF ClientLeaves, EndpointMatched, accounts, data
<1> QED
  BY <1>1, <1>2, <1>3, <1>4, <1>5

\* The inductive invariant behind the theorems that follow.
AccountInv == TypeInv /\ Accounted

\* The accounts are an invariant, together with the types.
LEMMA AccountInvariant == Spec => []AccountInv
<1>1. Init => AccountInv
  BY TypeInit, AccountedInit DEF AccountInv
<1>2. AccountInv /\ [Next]_vars => AccountInv'
  <2> SUFFICES ASSUME TypeInv, Accounted, [Next]_vars PROVE Accounted'
    BY TypeStep DEF AccountInv
  <2>1. CASE UNCHANGED vars
    BY <2>1, AccountedFrame DEF vars, accounts, data, network
  <2>2. CASE Next
    BY <2>2, AccountedTake, AccountedSampleTaken, AccountedPush, AccountedReply, AccountedSend,
       AccountedDestructor, AccountedOther DEF Next
  <2> QED
    BY <2>1, <2>2
<1> QED
  BY <1>1, <1>2, PTL DEF Spec

\* No request is lost, none is duplicated and none is answered twice, for
\* any number of clients and requests (on_data_available, reply_routine).
THEOREM NoRequestLost == Spec => []RequestsAccounted
<1>1. AccountInv => RequestsAccounted
  BY DEF AccountInv, Accounted
<1> QED
  BY <1>1, AccountInvariant, PTL

-----------------------------------------------------------------------------
(* Clients that are there are seen to be there.                            *)

\* No end of a match is reported for a client that has not left.
NoFalseNotice ==
    \A c \in Clients \ gone : \A what \in ClientEndpoints \cup {"participant"} :
        <<c, what, -1>> \notin notices

\* If match callbacks come first, a client that has sent something and has
\* not left has an endpoint matched.
SenderSeen ==
    MatchCallbackFirst /\ Alive => \A c \in Clients \ gone : sent[c] > 0 => matched[c] # {}

\* A client that was replied to and has not left is fully matched.
RepliedSeen ==
    \A r \in reply_history :
        /\ r.related \in Requests
        /\ Alive /\ Client(r.related) \notin gone => is_client_matched(matched, Client(r.related))

IgnoredGone == MatchCallbackFirst => OnlyGoneClientsIgnored

Presence == NoFalseNotice /\ SenderSeen /\ RepliedSeen /\ IgnoredGone

\* Nobody has been seen yet.
LEMMA PresenceInit == Init => Presence
<1> SUFFICES ASSUME Init PROVE Presence
  OBVIOUS
<1>1. NoFalseNotice /\ RepliedSeen
  BY DEF Init, NoFalseNotice, RepliedSeen
<1>2. SenderSeen
  BY DEF Init, SenderSeen
<1>3. IgnoredGone
  BY DEF Init, IgnoredGone, OnlyGoneClientsIgnored
<1> QED
  BY <1>1, <1>2, <1>3 DEF Presence

\* Of a client.
LEMMA ClientOfRequest ==
    ASSUME NEW id \in Requests
    PROVE  Client(id) \in Clients /\ id[2] \in Nat /\ id[2] >= 1
BY ConstantsAssumption DEF Requests, Client

\* A step that neither unmatches a client that is there, nor takes back a
\* departure, nor sends, replies or ignores, keeps Presence.
LEMMA PresenceFrame ==
    ASSUME TypeInv, Presence, Alive' => Alive, gone \subseteq gone',
           \A c \in Clients \ gone' : matched[c] \subseteq matched'[c] \/ ~Alive',
           \A c \in Clients \ gone' : \A what \in ClientEndpoints \cup {"participant"} :
                <<c, what, -1>> \in notices' => <<c, what, -1>> \in notices,
           reply_history' \subseteq reply_history,
           \A id \in Requests : outcome'[id] = "ignored" => outcome[id] = "ignored",
           matched' \in [Clients -> SUBSET ClientEndpoints],
           UNCHANGED sent
    PROVE  Presence'
<1>1. NoFalseNotice'
  BY DEF Presence, NoFalseNotice
<1>2. SenderSeen'
  BY DEF Presence, SenderSeen
<1>3. RepliedSeen'
  <2> SUFFICES ASSUME NEW r \in reply_history', Alive', Client(r.related) \notin gone'
               PROVE  is_client_matched(matched', Client(r.related))
    BY DEF Presence, RepliedSeen, Client
  <2>1. r.related \in Requests /\ is_client_matched(matched, Client(r.related))
    BY DEF Presence, RepliedSeen
  <2>2. Client(r.related) \in Clients \ gone'
    BY <2>1, ClientOfRequest
  <2>3. matched[Client(r.related)] \subseteq matched'[Client(r.related)]
    BY <2>2
  <2> QED
    BY <2>1, <2>2, <2>3 DEF is_client_matched
<1>4. IgnoredGone'
  BY DEF Presence, IgnoredGone, OnlyGoneClientsIgnored, Client
<1> QED
  BY <1>1, <1>2, <1>3, <1>4 DEF Presence

\* Steps that touch neither clients nor replies nor outcomes.
LEMMA PresenceUnchanged ==
    ASSUME TypeInv, Presence, Alive' => Alive,
           UNCHANGED <<matched, notices, reply_history, outcome, sent, gone>>
    PROVE  Presence'
BY PresenceFrame DEF TypeInv, TypeOK

\* The steps of main, of the waits and of stop.
LEMMA PresenceThreads ==
    ASSUME TypeInv, Presence,
           \/ (Main /\ ~Destructor) \/ ConstructorThrows
           \/ RunCheck \/ RunBlock \/ StopStore \/ StopNotify \/ SpuriousWakeup
           \/ ReplyWait \/ ReplyBlock \/ ReplyExit
           \/ OnDataAvailable \/ TakeNextSample \/ PushRequest \/ CallbackReturns
    PROVE  Presence'
<1>1. CASE (Main /\ ~Destructor) \/ ConstructorThrows
  BY <1>1, PresenceUnchanged DEF Main, CreateParticipant, CreateRequestEntities,
     CreateReplyEntities, AssignReplyWriter, ConstructorThrows, ConstructorStep, Spawn, JoinRun,
     network, Alive
<1>2. CASE RunCheck \/ RunBlock \/ StopStore \/ StopNotify \/ SpuriousWakeup
  BY <1>2, PresenceUnchanged DEF RunCheck, RunBlock, StopStore, StopNotify, SpuriousWakeup,
     network, Alive
<1>3. CASE ReplyWait \/ ReplyBlock \/ ReplyExit
  BY <1>3, PresenceUnchanged DEF ReplyWait, ReplyBlock, ReplyExit, network, Alive
<1>4. CASE OnDataAvailable \/ TakeNextSample \/ PushRequest \/ CallbackReturns
  BY <1>4, PresenceUnchanged DEF OnDataAvailable, TakeNextSample, Take, PushRequest,
     CallbackReturns, threads, network, Alive
<1> QED
  BY <1>1, <1>2, <1>3, <1>4

\* The destructor ignores nobody.
LEMMA PresenceDestructor == ASSUME TypeInv, TypeInv', Presence, Destructor PROVE Presence'
<1>1. /\ ~Alive' /\ UNCHANGED <<notices, reply_history, sent, gone>>
      /\ \A id \in Requests : outcome'[id] = "ignored" => outcome[id] = "ignored"
  BY DEF Destructor, Alive, network
<1>2. matched' \in [Clients -> SUBSET ClientEndpoints]
  BY DEF TypeInv, TypeOK
<1> QED
  BY <1>1, <1>2, PresenceFrame

\* Skipping a sample ignores nobody.
LEMMA PresenceSampleTaken == ASSUME TypeInv, TypeInv', Presence, SampleTaken PROVE Presence'
<1>1. UNCHANGED <<main_pc, matched, notices, reply_history, sent, gone>>
  BY DEF SampleTaken, threads, network
<1>2. \A id \in Requests : outcome'[id] = "ignored" => outcome[id] = "ignored"
  BY DEF SampleTaken, TypeInv, TypeOK
<1>3. matched' \in [Clients -> SUBSET ClientEndpoints]
  BY DEF TypeInv, TypeOK
<1> QED
  BY <1>1, <1>2, <1>3, PresenceFrame DEF Alive

\* reply_routine answers and ignores according to the match status.
LEMMA PresenceReply == ASSUME AccountInv, Presence, ReplyIteration PROVE Presence'
<1> USE DEF AccountInv
<1>1. /\ requests_ # <<>> /\ Alive
      /\ UNCHANGED <<matched, notices, sent, gone>>
  BY DEF ReplyIteration, ProcessIgnore, ProcessSave, ProcessMalformed, ProcessReply,
     ProcessWriteFails, ProcessNullWriter, Processing, network
<1>2. matched' \in [Clients -> SUBSET ClientEndpoints] /\ outcome \in [Requests -> Outcomes]
  BY <1>1 DEF TypeInv, TypeOK
<1>3. Front.info \in InQueue
  BY <1>1, QueueTail DEF TypeInv, TypeOK, Accounted, RequestsAccounted, OnceInQueue, InQueue, Front
<1>4. Front.info \in Requests /\ WasSent(Front.info)
  BY <1>3 DEF Accounted, RequestsAccounted, Unsettled
<1>5. CASE ProcessIgnore
  <2>1. /\ matched[FrontClient] = {} /\ UNCHANGED <<main_pc, reply_history>>
        /\ outcome' = [outcome EXCEPT ![Front.info] = "ignored"]
    BY <1>5 DEF ProcessIgnore, is_fully_unmatched, Settle
  <2>2. FrontClient \in Clients /\ sent[FrontClient] > 0
    <3>1. sent[FrontClient] \in Nat /\ Front.info[2] <= sent[FrontClient]
      BY <1>4, ClientOfRequest, ConstantsAssumption DEF TypeInv, TypeOK, FrontClient, WasSent
    <3> QED
      BY <1>4, <3>1, ClientOfRequest DEF FrontClient
  <2>3. MatchCallbackFirst => FrontClient \in gone
    BY <1>1, <2>1, <2>2 DEF Presence, SenderSeen
  <2>4. IgnoredGone'
    BY <1>1, <1>2, <1>4, <2>1, <2>3 DEF Presence, IgnoredGone, OnlyGoneClientsIgnored, FrontClient,
       Client
  <2>5. NoFalseNotice' /\ SenderSeen' /\ RepliedSeen'
    BY <1>1, <2>1 DEF Presence, NoFalseNotice, SenderSeen, RepliedSeen, Alive, Client
  <2> QED
    BY <2>4, <2>5 DEF Presence
<1>6. CASE ProcessReply
  <2>1. PICK p \in Readable(Front.request) : reply_history' = reply_history \cup {Reply(p)}
    BY <1>6 DEF ProcessReply
  <2>2. Reply(p).related = Front.info
    BY DEF Reply
  <2>3. /\ is_client_matched(matched, Client(Front.info)) /\ UNCHANGED main_pc
        /\ outcome' = [outcome EXCEPT ![Front.info] = "answered"]
    BY <1>6 DEF ProcessReply, FrontClient, Settle
  <2>4. RepliedSeen'
    <3> SUFFICES ASSUME NEW r \in reply_history'
                 PROVE  /\ r.related \in Requests
                        /\ Alive' /\ Client(r.related) \notin gone'
                             => is_client_matched(matched', Client(r.related))
      BY DEF RepliedSeen, Client
    <3>1. CASE r \in reply_history
      BY <1>1, <2>3, <3>1 DEF Presence, RepliedSeen, Alive
    <3>2. CASE r = Reply(p)
      BY <1>1, <1>4, <2>2, <2>3, <3>2
    <3> QED
      BY <2>1, <3>1, <3>2
  <2>5. NoFalseNotice' /\ SenderSeen'
    BY <1>1, <2>3 DEF Presence, NoFalseNotice, SenderSeen, Alive
  <2>6. IgnoredGone'
    BY <1>1, <1>2, <1>4, <2>3 DEF Presence, IgnoredGone, OnlyGoneClientsIgnored, Client
  <2> QED
    BY <2>4, <2>5, <2>6 DEF Presence
<1>7. CASE ProcessMalformed
  <2>1. \A id \in Requests : outcome'[id] = "ignored" => outcome[id] = "ignored"
    BY <1>2, <1>4, <1>7 DEF ProcessMalformed, Settle
  <2>2. UNCHANGED <<main_pc, reply_history>>
    BY <1>7 DEF ProcessMalformed
  <2> QED
    BY <1>1, <1>2, <2>1, <2>2, PresenceFrame
<1>8. CASE ProcessSave \/ ProcessWriteFails \/ ProcessNullWriter
  BY <1>1, <1>8, PresenceUnchanged DEF ProcessSave, ProcessWriteFails, ProcessNullWriter
<1> QED
  BY <1>5, <1>6, <1>7, <1>8 DEF ReplyIteration

\* A client that has not left keeps its bits: callbacks that reset them come
\* only for clients that left.
LEMMA BitsKept ==
    ASSUME TypeInv, Presence, NEW c \in Clients,
           OnPublicationMatched(c) \/ OnSubscriptionMatched(c) \/ OnParticipantDiscovery(c)
    PROVE  \A d \in Clients \ gone : matched[d] \subseteq matched'[d]
<1>1. matched \in [Clients -> SUBSET ClientEndpoints]
  BY DEF TypeInv, TypeOK
<1>2. ASSUME NEW e \in ClientEndpoints, OnMatched(c, e)
      PROVE  \A d \in Clients : matched[d] \subseteq matched'[d]
  BY <1>1, <1>2 DEF OnMatched, Match
<1>3. ASSUME NEW e \in ClientEndpoints, OnUnmatched(c, e)
      PROVE  c \in gone /\ \A d \in Clients \ {c} : matched[d] = matched'[d]
  BY <1>1, <1>3 DEF OnUnmatched, Match, Notified, Presence, NoFalseNotice
<1>4. CASE OnParticipantDiscovery(c)
  <2>1. c \in gone
    BY <1>4 DEF OnParticipantDiscovery, Notified, Presence, NoFalseNotice
  <2>2. \A d \in Clients \ {c} : matched[d] = matched'[d]
    BY <1>1, <1>4 DEF OnParticipantDiscovery, Match
  <2> QED
    BY <2>1, <2>2
<1> QED
  BY <1>2, <1>3, <1>4 DEF OnPublicationMatched, OnSubscriptionMatched, ClientEndpoints

\* The callbacks reset bits of clients that left only.
LEMMA PresenceDiscovery ==
    ASSUME TypeInv, TypeInv', Presence, NEW c \in Clients,
           OnPublicationMatched(c) \/ OnSubscriptionMatched(c) \/ OnParticipantDiscovery(c)
    PROVE  Presence'
<1>1. /\ Alive /\ notices' \subseteq notices /\ UNCHANGED <<outcome, sent, gone>>
      /\ reply_history' \subseteq reply_history
  BY DEF OnPublicationMatched, OnSubscriptionMatched, OnParticipantDiscovery, OnMatched,
     OnUnmatched, ClearIfNoneMatched, Notified, network
<1>2. matched' \in [Clients -> SUBSET ClientEndpoints]
  BY DEF TypeInv, TypeOK
<1> QED
  BY <1>1, <1>2, BitsKept, PresenceFrame

\* A client that sends has been seen; one that leaves is gone.
LEMMA PresenceEnvironment ==
    ASSUME TypeInv, TypeInv', Presence, NEW c \in Clients,
           SendRequest(c) \/ ClientLeaves(c)
             \/ \E e \in ClientEndpoints : EndpointMatched(c, e)
    PROVE  Presence'
<1>0. matched' \in [Clients -> SUBSET ClientEndpoints]
  BY DEF TypeInv, TypeOK
<1>1. CASE SendRequest(c)
  <2>1. /\ UNCHANGED <<main_pc, matched, notices, reply_history, outcome, gone>>
        /\ sent' = [sent EXCEPT ![c] = @ + 1]
        /\ MatchCallbackFirst => matched[c] # {}
    BY <1>1 DEF SendRequest, threads
  <2>2. NoFalseNotice' /\ RepliedSeen' /\ IgnoredGone'
    BY <2>1 DEF Presence, NoFalseNotice, RepliedSeen, IgnoredGone, OnlyGoneClientsIgnored, Alive,
       Client
  <2>3. SenderSeen'
    BY <2>1 DEF Presence, SenderSeen, TypeInv, TypeOK, Alive
  <2> QED
    BY <2>2, <2>3 DEF Presence
<1>2. CASE ClientLeaves(c)
  <2>1. /\ gone' = gone \cup {c}
        /\ UNCHANGED <<main_pc, matched, reply_history, outcome, sent>>
    BY <1>2 DEF ClientLeaves, threads
  <2>2. \A d \in Clients \ gone' : \A what \in ClientEndpoints \cup {"participant"} :
            <<d, what, -1>> \in notices' => <<d, what, -1>> \in notices
    BY <1>2 DEF ClientLeaves
  <2> QED
    BY <1>0, <2>1, <2>2, PresenceFrame DEF Alive
<1>3. ASSUME NEW e \in ClientEndpoints, EndpointMatched(c, e)
      PROVE  Presence'
  <2>1. UNCHANGED <<main_pc, matched, reply_history, outcome, sent, gone>>
    BY <1>3 DEF EndpointMatched, threads
  <2>2. notices' = notices \cup {<<c, e, 1>>}
    BY <1>3 DEF EndpointMatched
  <2>3. \A d \in Clients \ gone' : \A what \in ClientEndpoints \cup {"participant"} :
            <<d, what, -1>> \in notices' => <<d, what, -1>> \in notices
    BY <2>2
  <2> QED
    BY <1>0, <2>1, <2>3, PresenceFrame DEF Alive
<1> QED
  BY <1>1, <1>2, <1>3

\* Presence is an invariant of the server.
LEMMA PresenceInvariant == Spec => []Presence
<1>1. AccountInv /\ AccountInv' /\ Presence /\ [Next]_vars => Presence'
  <2> SUFFICES ASSUME AccountInv, TypeInv, TypeInv', Presence, [Next]_vars PROVE Presence'
    BY DEF AccountInv
  <2>1. CASE UNCHANGED vars
    BY <2>1, PresenceUnchanged DEF vars, threads, network, Alive
  <2>2. CASE Next
    BY <2>2, PresenceThreads, PresenceDestructor, PresenceSampleTaken, PresenceReply,
       PresenceDiscovery, PresenceEnvironment DEF Next
  <2> QED
    BY <2>1, <2>2
<1> QED
  BY <1>1, PresenceInit, AccountInvariant, PTL DEF Spec

\* If every request comes after a match callback of its client, no request of
\* a client that is still there is ever ignored (reply_routine, "ignore the
\* request as the client is gone").
THEOREM PresentNotIgnored ==
    ASSUME MatchCallbackFirst
    PROVE  Spec => []OnlyGoneClientsIgnored
<1>1. Presence => OnlyGoneClientsIgnored
  BY DEF Presence, IgnoredGone
<1> QED
  BY <1>1, PresenceInvariant, PTL

\* The history is cleared only of replies to clients that left
\* (on_publication_matched and on_subscription_matched).
THEOREM ClearKeepsWanted == Spec => ClearedRepliesUnwanted
<1>1. AccountInv /\ Presence /\ [Next]_vars
        => [\A r \in reply_history \ reply_history' : Client(r.related) \in gone]_vars
  <2> SUFFICES ASSUME TypeInv, Presence, Next, NEW r \in reply_history, r \notin reply_history'
               PROVE  Client(r.related) \in gone
    BY DEF AccountInv
  <2>1. PICK c \in Clients, e \in ClientEndpoints : OnUnmatched(c, e)
    <3>1. ~ReplyIteration
      BY DEF ReplyIteration, ProcessIgnore, ProcessSave, ProcessMalformed, ProcessReply,
         ProcessWriteFails, ProcessNullWriter
    <3>2. ~(Main \/ ConstructorThrows)
      BY DEF Main, CreateParticipant, CreateRequestEntities, CreateReplyEntities,
         AssignReplyWriter, ConstructorThrows, ConstructorStep, Spawn, JoinRun, Destructor
    <3>3. ~(RunCheck \/ RunBlock \/ StopStore \/ StopNotify \/ SpuriousWakeup
              \/ ReplyWait \/ ReplyBlock \/ ReplyExit)
      BY DEF RunCheck, RunBlock, StopStore, StopNotify, SpuriousWakeup, ReplyWait, ReplyBlock,
         ReplyExit
    <3>4. ~(OnDataAvailable \/ TakeNextSample \/ SampleTaken \/ PushRequest \/ CallbackReturns)
      BY DEF OnDataAvailable, TakeNextSample, Take, SampleTaken, PushRequest, CallbackReturns
    <3>5. ASSUME NEW c \in Clients
          PROVE  ~(OnParticipantDiscovery(c) \/ SendRequest(c) \/ ClientLeaves(c)
                    \/ \E e \in ClientEndpoints : EndpointMatched(c, e) \/ OnMatched(c, e))
      BY DEF OnParticipantDiscovery, SendRequest, ClientLeaves, EndpointMatched, OnMatched
    <3> QED
      BY <3>1, <3>2, <3>3, <3>4, <3>5 DEF Next, OnPublicationMatched, OnSubscriptionMatched,
         ClientEndpoints
  <2>2. Alive /\ no_client_matched(matched')
    BY <2>1 DEF OnUnmatched, ClearIfNoneMatched, Notified
  <2>3. matched' = Match(matched, c, e, FALSE)
    BY <2>1 DEF OnUnmatched
  <2>4. DOMAIN matched' = Clients
    BY <2>3 DEF Match, TypeInv, TypeOK
  <2>5. c \in gone /\ \A d \in Clients \ {c} : matched'[d] = matched[d]
    BY <2>1, <2>3 DEF OnUnmatched, Match, Notified, Presence, NoFalseNotice, TypeInv, TypeOK
  <2>6. r.related \in Requests
    BY DEF Presence, RepliedSeen
  <2>7. Client(r.related) \in Clients
    BY <2>6, ClientOfRequest
  <2>8. ASSUME Client(r.related) \notin gone
        PROVE  FALSE
    <3>1. matched[Client(r.related)] = ClientEndpoints
      BY <2>2, <2>8 DEF Presence, RepliedSeen, is_client_matched
    <3>2. matched'[Client(r.related)] = {}
      BY <2>2, <2>4, <2>7 DEF no_client_matched
    <3>3. matched'[Client(r.related)] = matched[Client(r.related)]
      BY <2>5, <2>7, <2>8
    <3> QED
      BY <3>1, <3>2, <3>3 DEF ClientEndpoints
  <2> QED
    BY <2>8
<1> QED
  BY <1>1, AccountInvariant, PresenceInvariant, PTL DEF Spec, ClearedRepliesUnwanted
=============================================================================
