------------------------ MODULE ServerServiceProofs -------------------------
(***************************************************************************)
(* What the server makes of the requests it received: its replies belong   *)
(* to the requests they are related to, and its steps are steps of the     *)
(* service of ReplyService.  Both rest on samples arriving one at a time:  *)
(* on_data_available takes all the samples it finds into one object.       *)
(***************************************************************************)
EXTENDS ServerAppProofs, SequenceTheorems

-----------------------------------------------------------------------------
(* Every queued request still has the object it was pushed with.           *)

\* The samples a callback finds are one, and no other comes until it ended.
OneAtATime ==
    /\ Len(reader_history) <= 1
    /\ cb_pc # "idle" => reader_history = <<>>

\* What was taken is in the newest object once the take is complete.
ObjectWritten ==
    /\ cb_pc # "idle" => heap # <<>>
    /\ cb_pc = "push" => heap[Len(heap)] = taking

Entries == {requests_[i] : i \in DOMAIN requests_}

\* A queued request's object holds its sample and is not the one that a
\* running callback is writing.
ObjectsKept ==
    \A e \in Entries :
        /\ e.request \in 1 .. Len(heap)
        /\ heap[e.request] = e.info
        /\ cb_pc \in {"take", "push"} => e.request < Len(heap)

Intact == OneAtATime /\ ObjectWritten /\ ObjectsKept /\ RepliesMatchRequests

\* Without its first element a sequence has no new ones.
LEMMA TailElements ==
    ASSUME NEW S, NEW s \in Seq(S), s # <<>>
    PROVE  LET t == Tail(s)
           IN  /\ Head(s) \in {s[i] : i \in DOMAIN s}
               /\ {t[i] : i \in DOMAIN t} \subseteq {s[i] : i \in DOMAIN s}
<1> DEFINE t == Tail(s)
<1>1. /\ Len(s) \in Nat /\ Len(s) >= 1 /\ DOMAIN s = 1 .. Len(s)
      /\ DOMAIN t = 1 .. (Len(s) - 1)
      /\ \A i \in 1 .. (Len(s) - 1) : t[i] = s[i + 1]
      /\ Head(s) = s[1]
  OBVIOUS
<1> HIDE DEF t
<1>2. ASSUME NEW i \in DOMAIN t
      PROVE  t[i] \in {s[k] : k \in DOMAIN s}
  BY <1>1
<1>3. Head(s) \in {s[i] : i \in DOMAIN s}
  BY <1>1
<1> QED
  BY <1>2, <1>3 DEF t

\* One more entry at the end of a queue is the only new one.
LEMMA AppendElements ==
    ASSUME NEW s \in Seq([info : Requests, request : Nat]),
           NEW x \in [info : Requests, request : Nat]
    PROVE  LET t == Append(s, x)
           IN  {t[i] : i \in DOMAIN t} = {s[i] : i \in DOMAIN s} \cup {x}
<1> DEFINE t == Append(s, x)
<1>1. /\ Len(s) \in Nat /\ DOMAIN s = 1 .. Len(s)
      /\ DOMAIN t = 1 .. (Len(s) + 1)
      /\ \A i \in 1 .. Len(s) : t[i] = s[i]
      /\ t[Len(s) + 1] = x
  OBVIOUS
<1> HIDE DEF t
<1>2. ASSUME NEW i \in DOMAIN t
      PROVE  t[i] \in {s[k] : k \in DOMAIN s} \cup {x}
  BY <1>1
<1>3. ASSUME NEW k \in DOMAIN s
      PROVE  s[k] \in {t[i] : i \in DOMAIN t}
  BY <1>1
<1>4. x \in {t[i] : i \in DOMAIN t}
  <2>1. Len(s) + 1 \in DOMAIN t
    BY <1>1
  <2> QED
    BY <1>1, <2>1
<1>5. {t[i] : i \in DOMAIN t} = {s[i] : i \in DOMAIN s} \cup {x}
  BY <1>2, <1>3, <1>4
<1> QED
  BY <1>5 DEF t

\* Nothing is left of a sequence with one element.
LEMMA SingleTail ==
    ASSUME NEW S, NEW s \in Seq(S), s # <<>>, Len(s) <= 1
    PROVE  Tail(s) = <<>>
<1>1. Len(s) \in Nat /\ Len(s) # 0
  BY EmptySeq
<1>2. Tail(s) \in Seq(S) /\ Len(Tail(s)) = Len(s) - 1
  BY HeadTailProperties
<1>3. Len(Tail(s)) = 0
  BY <1>1, <1>2
<1> QED
  BY <1>2, <1>3, EmptySeq

\* Overwriting the last element changes nothing else.
LEMMA LastReplaced ==
    ASSUME NEW S, NEW s \in Seq(S), s # <<>>, NEW x \in S
    PROVE  LET t == [s EXCEPT ![Len(s)] = x]
           IN  /\ Len(t) = Len(s) /\ t # <<>> /\ t[Len(s)] = x
               /\ \A k \in 1 .. Len(s) : k # Len(s) => t[k] = s[k]
<1> DEFINE t == [s EXCEPT ![Len(s)] = x]
<1>1. Len(s) \in Nat /\ Len(s) # 0
  BY EmptySeq
<1>2. DOMAIN s = 1 .. Len(s)
  OBVIOUS
<1>3. Len(s) \in DOMAIN s
  BY <1>1, <1>2
<1>4. t \in Seq(S) /\ DOMAIN t = DOMAIN s
  BY UpdatedSeq
<1>5. t[Len(s)] = x /\ \A k \in DOMAIN s : k # Len(s) => t[k] = s[k]
  BY <1>3
<1> HIDE DEF t
<1>6. DOMAIN t = 1 .. Len(t) /\ Len(t) \in Nat
  BY <1>4
<1>7. Len(t) = Len(s)
  BY <1>1, <1>2, <1>4, <1>6
<1>8. t # <<>>
  BY <1>1, <1>4, <1>7, EmptySeq
<1> QED
  BY <1>2, <1>5, <1>7, <1>8 DEF t

\* Steps that touch neither the queue, the objects, the replies nor the
\* outcomes, and that let no callback start and no sample arrive.
LEMMA IntactFrame ==
    ASSUME Intact,
           UNCHANGED <<requests_, heap, cb_pc, taking, reader_history, outcome>>,
           reply_history' \subseteq reply_history
    PROVE  Intact'
<1>1. OneAtATime' /\ ObjectWritten' /\ ObjectsKept'
  BY DEF Intact, OneAtATime, ObjectWritten, ObjectsKept, Entries
<1>2. RepliesMatchRequests'
  BY DEF Intact, RepliesMatchRequests
<1> QED
  BY <1>1, <1>2 DEF Intact

\* Nothing is queued, written or answered yet.
LEMMA IntactInit == Init => Intact
<1> SUFFICES ASSUME Init PROVE Intact
  OBVIOUS
<1>1. OneAtATime /\ ObjectWritten /\ ObjectsKept
  BY DEF Init, OneAtATime, ObjectWritten, ObjectsKept, Entries
<1>2. RepliesMatchRequests
  BY DEF Init, RepliesMatchRequests
<1> QED
  BY <1>1, <1>2 DEF Intact

\* Threads, constructor, discovery and departures touch no request.
LEMMA IntactOther ==
    ASSUME Intact,
           \/ (Main /\ ~Destructor) \/ ConstructorThrows
           \/ RunCheck \/ RunBlock \/ StopStore \/ StopNotify \/ SpuriousWakeup
           \/ ReplyWait \/ ReplyBlock \/ ReplyExit
           \/ \E c \in Clients :
                \/ OnPublicationMatched(c) \/ OnSubscriptionMatched(c)
                \/ OnParticipantDiscovery(c) \/ ClientLeaves(c)
                \/ \E endpoint \in ClientEndpoints : EndpointMatched(c, endpoint)
    PROVE  Intact'
<1>1. CASE (Main /\ ~Destructor) \/ ConstructorThrows
  BY <1>1, IntactFrame DEF Main, CreateParticipant, CreateRequestEntities, CreateReplyEntities,
     AssignReplyWriter, ConstructorThrows, ConstructorStep, Spawn, JoinRun, data
<1>2. CASE RunCheck \/ RunBlock \/ StopStore \/ StopNotify \/ SpuriousWakeup
  BY <1>2, IntactFrame DEF RunCheck, RunBlock, StopStore, StopNotify, SpuriousWakeup, data
<1>3. CASE ReplyWait \/ ReplyBlock \/ ReplyExit
  BY <1>3, IntactFrame DEF ReplyWait, ReplyBlock, ReplyExit, data
<1>4. ASSUME NEW c \in Clients,
             OnPublicationMatched(c) \/ OnSubscriptionMatched(c) \/ OnParticipantDiscovery(c)
      PROVE  Intact'
  BY <1>4, IntactFrame DEF OnPublicationMatched, OnSubscriptionMatched, OnMatched, OnUnmatched,
     ClearIfNoneMatched, OnParticipantDiscovery, Notified, data
<1>5. ASSUME NEW c \in Clients,
             ClientLeaves(c) \/ \E endpoint \in ClientEndpoints : EndpointMatched(c, endpoint)
      PROVE  Intact'
  BY <1>5, IntactFrame DEF ClientLeaves, EndpointMatched, data
<1> QED
  BY <1>1, <1>2, <1>3, <1>4, <1>5

\* The destructor empties the queue.
LEMMA IntactDestructor == ASSUME Intact, Destructor PROVE Intact'
<1>1. /\ requests_' = <<>> /\ UNCHANGED <<heap, cb_pc, taking, reader_history, reply_history>>
      /\ \A id \in Requests : outcome'[id] = "malformed" => outcome[id] = "malformed"
  BY DEF Destructor, data
<1>2. OneAtATime' /\ ObjectWritten' /\ ObjectsKept'
  BY <1>1 DEF Intact, OneAtATime, ObjectWritten, ObjectsKept, Entries
<1>3. RepliesMatchRequests'
  BY <1>1 DEF Intact, RepliesMatchRequests
<1> QED
  BY <1>2, <1>3 DEF Intact

\* A callback starts with an object of its own, for the only sample there is.
LEMMA IntactTake ==
    ASSUME TypeInv, Intact, OnDataAvailable \/ TakeNextSample
    PROVE  Intact'
<1>1. OnDataAvailable
  BY DEF TakeNextSample, Take, Intact, OneAtATime
<1>2. /\ reader_history # <<>> /\ reader_history' = Tail(reader_history)
      /\ cb_pc' = "take" /\ heap' = Append(heap, None)
      /\ UNCHANGED <<requests_, reply_history, outcome>>
  BY <1>1 DEF OnDataAvailable, Take
<1>3. reader_history \in Seq(Requests) /\ heap \in Seq(Requests \cup {None})
  BY DEF TypeInv, TypeOK
<1>4. /\ Len(heap') = Len(heap) + 1 /\ Len(heap) \in Nat /\ heap' # <<>>
      /\ \A k \in 1 .. Len(heap) : heap'[k] = heap[k]
  BY <1>2, <1>3
<1>5. OneAtATime'
  <2>1. Len(reader_history) <= 1
    BY DEF Intact, OneAtATime
  <2>2. reader_history' = <<>>
    BY <1>2, <1>3, <2>1, SingleTail
  <2> QED
    BY <2>2 DEF OneAtATime
<1>6. ObjectWritten'
  BY <1>2, <1>4 DEF ObjectWritten
<1>7. ObjectsKept'
  <2> SUFFICES ASSUME NEW e \in Entries
               PROVE  /\ e.request \in 1 .. Len(heap')
                      /\ heap'[e.request] = e.info
                      /\ e.request < Len(heap')
    BY <1>2 DEF ObjectsKept, Entries
  <2>1. e.request \in 1 .. Len(heap) /\ heap[e.request] = e.info
    BY DEF Intact, ObjectsKept
  <2> QED
    BY <1>4, <2>1
<1>8. RepliesMatchRequests'
  BY <1>2 DEF Intact, RepliesMatchRequests
<1> QED
  BY <1>5, <1>6, <1>7, <1>8 DEF Intact

\* The take writes an object no queued request has.
LEMMA IntactSampleTaken ==
    ASSUME TypeInv, Intact, SampleTaken
    PROVE  Intact'
<1>1. /\ cb_pc = "take" /\ cb_pc' \in {"push", "loop"}
      /\ cb_pc' = "push" => taking' = taking
      /\ heap' = [heap EXCEPT ![Len(heap)] = taking]
      /\ UNCHANGED <<requests_, reply_history, reader_history>>
  BY DEF SampleTaken
<1>2. heap \in Seq(Requests \cup {None}) /\ heap # <<>>
  BY <1>1 DEF TypeInv, TypeOK, Intact, ObjectWritten
<1>3. Len(heap) \in Nat /\ taking \in Requests \cup {None}
  BY <1>2 DEF TypeInv, TypeOK
<1>4. /\ Len(heap') = Len(heap) /\ heap' # <<>> /\ heap'[Len(heap)] = taking
      /\ \A k \in 1 .. Len(heap) : k # Len(heap) => heap'[k] = heap[k]
  BY <1>1, <1>2, <1>3, LastReplaced
<1>5. OneAtATime'
  BY <1>1 DEF Intact, OneAtATime
<1>6. ObjectWritten'
  BY <1>1, <1>4 DEF ObjectWritten
<1>7. ObjectsKept'
  <2> SUFFICES ASSUME NEW e \in Entries
               PROVE  /\ e.request \in 1 .. Len(heap)
                      /\ heap'[e.request] = e.info
                      /\ e.request < Len(heap)
    BY <1>1, <1>4 DEF ObjectsKept, Entries
  <2>1. e.request \in 1 .. Len(heap) /\ heap[e.request] = e.info /\ e.request < Len(heap)
    BY <1>1 DEF Intact, ObjectsKept
  <2> QED
    BY <1>3, <1>4, <2>1
<1>8. RepliesMatchRequests'
  <2>1. \A id \in Requests : outcome'[id] = "malformed" => outcome[id] = "malformed"
    BY DEF SampleTaken, TypeInv, TypeOK
  <2> QED
    BY <1>1, <2>1 DEF Intact, RepliesMatchRequests
<1> QED
  BY <1>5, <1>6, <1>7, <1>8 DEF Intact

\* The push queues the sample with the object that holds it, and the
\* callback writes that object no more.
LEMMA IntactPush == ASSUME TypeInv, Intact, PushRequest PROVE Intact'
<1> DEFINE new == [info |-> taking, request |-> Len(heap)]
<1>1. /\ cb_pc = "push" /\ cb_pc' = "loop"
      /\ requests_' = Append(requests_, new)
      /\ UNCHANGED <<heap, reply_history, reader_history, outcome>>
  BY DEF PushRequest
<1>2. heap \in Seq(Requests \cup {None}) /\ heap # <<>> /\ heap[Len(heap)] = taking
  BY <1>1 DEF TypeInv, TypeOK, Intact, ObjectWritten
<1>3. Len(heap) \in Nat /\ Len(heap) >= 1
  BY <1>2
<1>4. new \in [info : Requests, request : Nat]
  BY <1>1, <1>3 DEF TypeInv, TypeOK, CallbackHolds
<1>5. new.info = taking /\ new.request = Len(heap)
  OBVIOUS
<1> HIDE DEF new
<1>6. Entries' = Entries \cup {new}
  <2>1. requests_ \in Seq([info : Requests, request : Nat])
    BY DEF TypeInv, TypeOK
  <2> DEFINE t == Append(requests_, new)
  <2>2. {t[i] : i \in DOMAIN t} = Entries \cup {new}
    BY <1>4, <2>1, AppendElements DEF Entries
  <2>3. requests_' = t
    BY <1>1
  <2> HIDE DEF t
  <2> QED
    BY <2>2, <2>3 DEF Entries
<1>7. OneAtATime' /\ ObjectWritten' /\ RepliesMatchRequests'
  BY <1>1, <1>2 DEF Intact, OneAtATime, ObjectWritten, RepliesMatchRequests
<1>8. ObjectsKept'
  <2> SUFFICES ASSUME NEW e \in Entries'
               PROVE  e.request \in 1 .. Len(heap) /\ heap[e.request] = e.info
    BY <1>1 DEF ObjectsKept
  <2>1. CASE e \in Entries
    BY <2>1 DEF Intact, ObjectsKept
  <2>2. CASE e = new
    BY <1>2, <1>3, <1>5, <2>2
  <2> QED
    BY <1>6, <2>1, <2>2
<1> QED
  BY <1>7, <1>8 DEF Intact

\* Every request of the queue is read as it was sent.
LEMMA FrontIntact ==
    ASSUME TypeInv, Intact, requests_ # <<>>
    PROVE  /\ Front.info \in Requests
           /\ Readable(Front.request) = {Payload(Front.info)}
<1>1. requests_ \in Seq([info : Requests, request : Nat])
  BY DEF TypeInv, TypeOK
<1>2. Front \in Entries /\ Front \in [info : Requests, request : Nat]
  BY <1>1, TailElements, QueueType DEF Front, Entries
<1>3. /\ heap[Front.request] = Front.info
      /\ cb_pc = "take" => Front.request < Len(heap)
      /\ Front.request \in 1 .. Len(heap)
  BY <1>2 DEF Intact, ObjectsKept
<1>4. ~(cb_pc = "take" /\ Front.request = Len(heap))
  BY <1>3 DEF TypeInv, TypeOK
<1> QED
  BY <1>2, <1>3, <1>4 DEF Readable

\* An iteration of reply_routine answers, drops or saves what it reads.
LEMMA IntactReply == ASSUME TypeInv, Intact, ReplyIteration PROVE Intact'
<1>1. requests_ # <<>> /\ UNCHANGED <<heap, cb_pc, taking, reader_history>>
  BY DEF ReplyIteration, ProcessIgnore, ProcessSave, ProcessMalformed, ProcessReply,
     ProcessWriteFails, ProcessNullWriter, Processing, data
<1>2. requests_ \in Seq([info : Requests, request : Nat]) /\ outcome \in [Requests -> Outcomes]
  BY DEF TypeInv, TypeOK
<1>3. Front.info \in Requests /\ Readable(Front.request) = {Payload(Front.info)}
  BY <1>1, FrontIntact
<1>4. Entries' \subseteq Entries
  <2> DEFINE rest == Tail(requests_)
  <2>1. /\ Front \in Entries /\ Front \in [info : Requests, request : Nat]
        /\ rest \in Seq([info : Requests, request : Nat])
        /\ {rest[i] : i \in DOMAIN rest} \subseteq Entries
    BY <1>1, <1>2, TailElements, QueueType DEF Front, Entries
  <2> HIDE DEF rest
  <2>2. requests_' \in {requests_, rest, Append(rest, Front)}
    BY DEF rest, ReplyIteration, ProcessIgnore, ProcessSave, ProcessMalformed, ProcessReply,
       ProcessWriteFails, ProcessNullWriter, SaveForLater
  <2>3. CASE requests_' = requests_
    BY <2>3 DEF Entries
  <2>4. CASE requests_' = rest
    BY <2>1, <2>4 DEF Entries
  <2>5. CASE requests_' = Append(rest, Front)
    <3>1. Entries' = {rest[i] : i \in DOMAIN rest} \cup {Front}
      <4> DEFINE t == Append(rest, Front)
      <4>1. {t[i] : i \in DOMAIN t} = {rest[i] : i \in DOMAIN rest} \cup {Front}
        BY <2>1, AppendElements
      <4>2. requests_' = t
        BY <2>5
      <4> HIDE DEF t
      <4> QED
        BY <4>1, <4>2 DEF Entries
    <3> QED
      BY <2>1, <3>1
  <2> QED
    BY <2>2, <2>3, <2>4, <2>5
<1>5. OneAtATime' /\ ObjectWritten' /\ ObjectsKept'
  BY <1>1, <1>4 DEF Intact, OneAtATime, ObjectWritten, ObjectsKept
<1>6. RepliesMatchRequests'
  <2>1. CASE ProcessReply
    <3>1. /\ CanCalculate(Payload(Front.info))
          /\ reply_history' = reply_history \cup {Reply(Payload(Front.info))}
      BY <1>3, <2>1 DEF ProcessReply
    <3>2. /\ Reply(Payload(Front.info)).related = Front.info
          /\ Reply(Payload(Front.info)).client_id = Client(Front.info)
          /\ Reply(Payload(Front.info)).result = Calculate(Payload(Front.info))
      BY DEF Reply, Payload
    <3>3. \A id \in Requests : outcome'[id] = "malformed" => outcome[id] = "malformed"
      BY <1>2, <1>3, <2>1 DEF ProcessReply, Settle
    <3> QED
      BY <3>1, <3>2, <3>3 DEF Intact, RepliesMatchRequests
  <2>2. CASE ProcessMalformed
    <3>1. ~CanCalculate(Payload(Front.info)) /\ UNCHANGED reply_history
      BY <1>3, <2>2 DEF ProcessMalformed
    <3>2. \A id \in Requests :
            outcome'[id] = "malformed" => outcome[id] = "malformed" \/ id = Front.info
      BY <1>2, <1>3, <2>2 DEF ProcessMalformed, Settle
    <3> QED
      BY <3>1, <3>2 DEF Intact, RepliesMatchRequests
  <2>3. CASE ProcessIgnore
    <3>1. \A id \in Requests : outcome'[id] = "malformed" => outcome[id] = "malformed"
      BY <1>2, <1>3, <2>3 DEF ProcessIgnore, Settle
    <3> QED
      BY <2>3, <3>1 DEF ProcessIgnore, Intact, RepliesMatchRequests
  <2>4. CASE ProcessSave \/ ProcessWriteFails \/ ProcessNullWriter
    BY <2>4 DEF ProcessSave, ProcessWriteFails, ProcessNullWriter, Intact, RepliesMatchRequests
  <2> QED
    BY <2>1, <2>2, <2>3, <2>4 DEF ReplyIteration
<1> QED
  BY <1>5, <1>6 DEF Intact

\* The callback returns; if samples arrive one at a time, the next one
\* arrives when no callback is running and the reader is empty.
LEMMA IntactDelivery ==
    ASSUME SerialDelivery, TypeInv, Intact,
           CallbackReturns \/ \E c \in Clients : SendRequest(c)
    PROVE  Intact'
<1>1. CASE CallbackReturns
  <2>1. cb_pc' = "idle"
        /\ UNCHANGED <<requests_, heap, reader_history, reply_history, outcome>>
    BY <1>1 DEF CallbackReturns
  <2> QED
    BY <2>1 DEF Intact, OneAtATime, ObjectWritten, ObjectsKept, Entries, RepliesMatchRequests
<1>2. ASSUME NEW c \in Clients, SendRequest(c)
      PROVE  Intact'
  <2>1. /\ cb_pc = "idle" /\ reader_history = <<>>
        /\ reader_history' = Append(reader_history, <<c, sent[c] + 1>>)
        /\ UNCHANGED <<requests_, heap, cb_pc, taking, reply_history, outcome>>
    BY <1>2 DEF SendRequest
  <2>2. Len(reader_history') = 1
    BY <2>1
  <2> QED
    BY <2>1, <2>2 DEF Intact, OneAtATime, ObjectWritten, ObjectsKept, Entries,
       RepliesMatchRequests
<1> QED
  BY <1>1, <1>2

\* Intact is an invariant of a server whose samples arrive one at a time.
LEMMA IntactInvariant == ASSUME SerialDelivery PROVE Spec => []Intact
<1>1. TypeInv /\ Intact /\ [Next]_vars => Intact'
  <2> SUFFICES ASSUME TypeInv, Intact, [Next]_vars PROVE Intact'
    OBVIOUS
  <2>1. CASE UNCHANGED vars
    BY <2>1, IntactFrame DEF vars, data
  <2>2. CASE Next
    BY <2>2, IntactOther, IntactDestructor, IntactTake, IntactSampleTaken, IntactPush, IntactReply,
       IntactDelivery DEF Next
  <2> QED
    BY <2>1, <2>2
<1> QED
  BY <1>1, IntactInit, TypeInit, TypeStep, PTL DEF Spec

\* If samples arrive one at a time, every reply carries the result and the
\* client of the request it is related to, and only malformed requests are
\* dropped as malformed (reply_routine).
THEOREM RepliesCorrect == ASSUME SerialDelivery PROVE Spec => []RepliesMatchRequests
<1>1. Intact => RepliesMatchRequests
  BY DEF Intact
<1> QED
  BY <1>1, IntactInvariant, PTL

-----------------------------------------------------------------------------
(* The server implements the service.                                      *)

\* A thread has ended, and the destructor runs, only after a stop.
EndedByStop ==
    /\ run_pc = "done" \/ reply_pc = "done" => stop_
    /\ main_pc = "destructor" => stop_

\* Everything the refinement needs to know of a state.
ServiceInv == AccountInv /\ Presence /\ Intact /\ EndedByStop

\* The abstract variables, under the names the service gives them.
Received == {id \in Requests : id \in InQueue \/ outcome[id] \notin {"none", "skipped"}}
Answered == {id \in Requests : outcome[id] = "answered"}
Dropped == {id \in Requests : outcome[id] \in {"ignored", "malformed", "discarded"}}
Abandoned == {id \in Requests : Client(id) \in gone}
MalformedRequests == {id \in Requests : ~CanCalculate(Payload(id))}

\* Threads end only when they see the flag, which is never reset.
LEMMA EndedByStopStep ==
    ASSUME TypeInv, EndedByStop, [Next]_vars
    PROVE  EndedByStop'
<1> USE DEF EndedByStop
<1>1. CASE UNCHANGED <<run_pc, reply_pc, stop_>> /\ main_pc' # "destructor"
  BY <1>1
<1>2. CASE UNCHANGED <<run_pc, reply_pc, stop_, main_pc>>
  BY <1>2
<1>3. CASE Main \/ ConstructorThrows
  BY <1>3 DEF Main, CreateParticipant, CreateRequestEntities, CreateReplyEntities,
     AssignReplyWriter, ConstructorThrows, ConstructorStep, Spawn, JoinRun, Destructor
<1>4. CASE RunCheck \/ RunBlock \/ StopStore \/ StopNotify \/ SpuriousWakeup
  BY <1>4 DEF RunCheck, RunBlock, StopStore, StopNotify, SpuriousWakeup, Woken
<1>5. CASE ReplyWait \/ ReplyBlock \/ ReplyExit \/ PushRequest
  BY <1>5 DEF ReplyWait, ReplyBlock, ReplyExit, PushRequest, Woken
<1>6. CASE ReplyIteration
  BY <1>1, <1>2, <1>6 DEF ReplyIteration, ProcessIgnore, ProcessSave, ProcessMalformed,
     ProcessReply, ProcessWriteFails, ProcessNullWriter, Processing
<1>7. CASE OnDataAvailable \/ TakeNextSample \/ SampleTaken \/ CallbackReturns
  BY <1>2, <1>7 DEF OnDataAvailable, TakeNextSample, Take, SampleTaken, CallbackReturns, threads
<1>8. ASSUME NEW c \in Clients,
             OnPublicationMatched(c) \/ OnSubscriptionMatched(c) \/ OnParticipantDiscovery(c)
      PROVE  EndedByStop'
  BY <1>1, <1>2, <1>8 DEF OnPublicationMatched, OnSubscriptionMatched, OnMatched, OnUnmatched,
     ClearIfNoneMatched, OnParticipantDiscovery, Notified
<1>9. ASSUME NEW c \in Clients,
             \/ SendRequest(c) \/ ClientLeaves(c)
             \/ \E endpoint \in ClientEndpoints : EndpointMatched(c, endpoint)
      PROVE  EndedByStop'
  BY <1>2, <1>9 DEF SendRequest, ClientLeaves, EndpointMatched, threads
<1>10. CASE UNCHANGED vars
  BY <1>2, <1>10 DEF vars, threads
<1> QED
  BY <1>3, <1>4, <1>5, <1>6, <1>7, <1>8, <1>9, <1>10 DEF Next

\* ServiceInv is an invariant.
LEMMA ServiceInvariant == ASSUME SerialDelivery PROVE Spec => []ServiceInv
<1>1. Init => EndedByStop
  BY DEF Init, EndedByStop
<1>2. AccountInv /\ EndedByStop /\ [Next]_vars => EndedByStop'
  BY EndedByStopStep DEF AccountInv
<1> QED
  BY <1>1, <1>2, AccountInvariant, PresenceInvariant, IntactInvariant, PTL DEF Spec, ServiceInv

\* Steps that the service does not see.
LEMMA ServiceStutter ==
    ASSUME InQueue' = InQueue, UNCHANGED <<outcome, gone, stop_>>
    PROVE  UNCHANGED Service!vars
<1>1. Received' = Received /\ Answered' = Answered /\ Dropped' = Dropped /\ Abandoned' = Abandoned
  BY DEF Received, Answered, Dropped, Abandoned, Client
<1> QED
  BY <1>1 DEF Service!vars, Received, Answered, Dropped, Abandoned

\* A request the reply thread settles was pending in the service.
LEMMA QueuedIsPending ==
    ASSUME AccountInv, NEW id \in InQueue
    PROVE  id \in Requests /\ outcome[id] = "none" /\ id \in Service!Pending
<1>1. id \in Unsettled
  BY DEF AccountInv, Accounted, RequestsAccounted
<1> QED
  BY <1>1 DEF Unsettled, Service!Pending

\* The initial state is the initial state of the service.
LEMMA ServiceInit == Init => Service!Init
BY DEF Init, Service!Init, InQueue

\* The push of on_data_available is the arrival of a request.
LEMMA ServicePush == ASSUME ServiceInv, PushRequest PROVE Service!Next
<1>0. AccountInv
  BY DEF ServiceInv
<1>1. PICK id \in Requests : id = taking
  BY <1>0 DEF AccountInv, TypeInv, TypeOK, CallbackHolds, PushRequest
<1>2. id \notin InQueue /\ outcome[id] = "none"
  BY <1>0, <1>1, NoneIsNoRequest DEF AccountInv, Accounted, RequestsAccounted, InCallback, Unsettled
<1>3. UNCHANGED <<outcome, gone, stop_>>
  BY DEF PushRequest, network
<1>4. InQueue' = InQueue \cup {id}
  <2> DEFINE e == [info |-> id, request |-> Len(heap)]
             t == Append(requests_, e)
  <2>1. e \in [info : Requests, request : Nat] /\ e.info = id
    BY <1>0 DEF AccountInv, TypeInv, TypeOK
  <2>2. requests_' = t
    BY <1>1 DEF PushRequest
  <2>3. requests_ \in Seq([info : Requests, request : Nat]) /\ OnceInQueue
    BY <1>0 DEF AccountInv, TypeInv, TypeOK, Accounted, RequestsAccounted
  <2> HIDE DEF e
  <2>4. {t[i].info : i \in DOMAIN t} = InQueue \cup {id}
    BY <1>2, <2>1, <2>3, QueueAppend DEF InQueue, OnceInQueue
  <2> HIDE DEF t
  <2> QED
    BY <2>2, <2>4 DEF InQueue
<1>5. /\ id \notin Received /\ Received' = Received \cup {id}
      /\ Answered' = Answered /\ Dropped' = Dropped /\ Abandoned' = Abandoned
  BY <1>2, <1>3, <1>4 DEF Received, Answered, Dropped, Abandoned, Client
<1>6. Service!Receive(id)
  BY <1>3, <1>5 DEF Service!Receive, Received, Answered, Dropped, Abandoned
<1> QED
  BY <1>6 DEF Service!Next

\* What an iteration of reply_routine that pops a request does to the queue.
LEMMA FrontPopped ==
    ASSUME AccountInv, requests_ # <<>>
    PROVE  Front.info \in InQueue /\ (requests_' = Tail(requests_) => InQueue' = InQueue \ {Front.info})
<1>1. requests_ \in Seq([info : Requests, request : Nat]) /\ OnceInQueue
  BY DEF AccountInv, TypeInv, TypeOK, Accounted, RequestsAccounted
<1> DEFINE t == Tail(requests_)
<1>2. Front.info \in InQueue /\ {t[i].info : i \in DOMAIN t} = InQueue \ {Front.info}
  BY <1>1, QueueTail DEF InQueue, OnceInQueue, Front
<1> HIDE DEF t
<1>3. requests_' = t => InQueue' = InQueue \ {Front.info}
  BY <1>2 DEF InQueue
<1> QED
  BY <1>2, <1>3 DEF t

\* The front goes to the back: nothing the service sees.
LEMMA FrontSaved ==
    ASSUME AccountInv, requests_ # <<>>, SaveForLater
    PROVE  InQueue' = InQueue
<1> DEFINE rest == Tail(requests_)
           t == Append(rest, Front)
<1>1. requests_ \in Seq([info : Requests, request : Nat]) /\ OnceInQueue
  BY DEF AccountInv, TypeInv, TypeOK, Accounted, RequestsAccounted
<1>2. /\ Front.info \in InQueue /\ {rest[i].info : i \in DOMAIN rest} = InQueue \ {Front.info}
      /\ \A i, j \in DOMAIN rest : rest[i].info = rest[j].info => i = j
  BY <1>1, QueueTail DEF InQueue, OnceInQueue, Front
<1>3. Front \in [info : Requests, request : Nat] /\ rest \in Seq([info : Requests, request : Nat])
  BY <1>1, QueueType DEF Front
<1>4. requests_' = t
  BY DEF SaveForLater
<1> HIDE DEF rest
<1>5. {t[i].info : i \in DOMAIN t} = {rest[i].info : i \in DOMAIN rest} \cup {Front.info}
  BY <1>2, <1>3, QueueAppend
<1> HIDE DEF t
<1>6. InQueue' = (InQueue \ {Front.info}) \cup {Front.info}
  BY <1>2, <1>4, <1>5 DEF InQueue
<1> QED
  BY <1>2, <1>6

\* An iteration of reply_routine replies to a request, drops it, or does
\* nothing the service sees.
LEMMA ServiceReply ==
    ASSUME MatchCallbackFirst, ServiceInv, ReplyIteration
    PROVE  Service!Next \/ UNCHANGED Service!vars
<1>0. AccountInv /\ TypeInv /\ Intact /\ Presence
  BY DEF ServiceInv, AccountInv
<1>1. requests_ # <<>> /\ Alive /\ UNCHANGED <<gone, stop_>>
  BY DEF ReplyIteration, ProcessIgnore, ProcessSave, ProcessMalformed, ProcessReply,
     ProcessWriteFails, ProcessNullWriter, Processing, network
<1>2. PICK id \in Requests : id = Front.info
  BY <1>0, <1>1, FrontIntact
<1>3. /\ id \in InQueue /\ outcome[id] = "none" /\ id \in Service!Pending
      /\ outcome \in [Requests -> Outcomes]
  BY <1>0, <1>1, <1>2, FrontPopped, QueuedIsPending DEF TypeInv, TypeOK
<1>4. Readable(Front.request) = {Payload(id)}
  BY <1>0, <1>1, <1>2, FrontIntact
<1>5. ASSUME NEW what \in {"ignored", "malformed", "answered"}, Settle(what),
             requests_' = Tail(requests_)
      PROVE  /\ Received' = Received /\ Abandoned' = Abandoned
             /\ Answered' = Answered \cup (IF what = "answered" THEN {id} ELSE {})
             /\ Dropped' = Dropped \cup (IF what = "answered" THEN {} ELSE {id})
  <2>1. InQueue' = InQueue \ {id}
    BY <1>0, <1>1, <1>2, <1>5, FrontPopped
  <2>2. outcome' = [outcome EXCEPT ![id] = what]
    BY <1>2, <1>5 DEF Settle
  <2>3. \A other \in Requests : outcome'[other] = IF other = id THEN what ELSE outcome[other]
    BY <1>3, <2>2
  <2> QED
    BY <1>1, <1>3, <2>1, <2>3 DEF Received, Answered, Dropped, Abandoned, Client
<1>6. CASE ProcessReply
  <2>1. Received' = Received /\ Abandoned' = Abandoned /\ Answered' = Answered \cup {id}
        /\ Dropped' = Dropped
    BY <1>5, <1>6 DEF ProcessReply
  <2>2. id \notin MalformedRequests
    BY <1>4, <1>6 DEF ProcessReply, MalformedRequests
  <2>3. Service!ReplyTo(id)
    BY <1>1, <1>3, <2>1, <2>2 DEF Service!ReplyTo, Received, Answered, Dropped, Abandoned,
       MalformedRequests
  <2> QED
    BY <2>3 DEF Service!Next
<1>7. CASE ProcessMalformed \/ ProcessIgnore
  <2>1. Received' = Received /\ Abandoned' = Abandoned /\ Answered' = Answered
        /\ Dropped' = Dropped \cup {id}
    BY <1>5, <1>7 DEF ProcessMalformed, ProcessIgnore
  <2>2. id \in MalformedRequests \cup Abandoned
    <3>1. CASE ProcessMalformed
      BY <1>4, <3>1 DEF ProcessMalformed, MalformedRequests
    <3>2. CASE ProcessIgnore
      <4>1. matched[Client(id)] = {}
        BY <1>2, <3>2 DEF ProcessIgnore, is_fully_unmatched, FrontClient
      <4>2. WasSent(id)
        BY <1>0, <1>3 DEF AccountInv, Accounted, RequestsAccounted, Unsettled
      <4>3. Client(id) \in Clients /\ sent[Client(id)] > 0
        <5>1. sent[Client(id)] \in Nat /\ id[2] <= sent[Client(id)]
          BY <1>0, <4>2, ClientOfRequest, ConstantsAssumption DEF TypeInv, TypeOK, WasSent
        <5> QED
          BY <5>1, ClientOfRequest
      <4>4. Client(id) \in gone
        BY <1>0, <1>1, <4>1, <4>3 DEF Presence, SenderSeen
      <4> QED
        BY <4>4 DEF Abandoned
    <3> QED
      BY <1>7, <3>1, <3>2
  <2>3. Service!Drop({id})
    BY <1>1, <1>3, <2>1, <2>2 DEF Service!Drop, Received, Answered, Dropped, Abandoned,
       MalformedRequests
  <2> QED
    BY <2>3 DEF Service!Next
<1>8. CASE ProcessSave \/ ProcessWriteFails
  <2>1. InQueue' = InQueue /\ UNCHANGED outcome
    BY <1>0, <1>1, <1>8, FrontSaved DEF ProcessSave, ProcessWriteFails
  <2> QED
    BY <1>1, <2>1, ServiceStutter
<1>9. CASE ProcessNullWriter
  BY <1>1, <1>9, ServiceStutter DEF ProcessNullWriter, InQueue
<1> QED
  BY <1>6, <1>7, <1>8, <1>9 DEF ReplyIteration

\* The destructor drops what is queued, after the server was told to stop.
LEMMA ServiceDestructor ==
    ASSUME ServiceInv, Destructor
    PROVE  Service!Next \/ UNCHANGED Service!vars
<1>0. AccountInv /\ stop_
  BY DEF ServiceInv, EndedByStop, Destructor
<1>1. /\ requests_' = <<>> /\ UNCHANGED <<gone, stop_>>
      /\ \A id \in Requests : outcome'[id] = IF id \in InQueue THEN "discarded" ELSE outcome[id]
  BY DEF Destructor, network
<1>2. InQueue' = {}
  BY <1>1 DEF InQueue
<1>3. PICK ids \in SUBSET Requests : ids = InQueue
  BY <1>0, QueuedIsPending
<1>4. \A id \in ids : outcome[id] = "none" /\ id \in Service!Pending
  BY <1>0, <1>3, QueuedIsPending
<1>5. /\ Received' = Received /\ Answered' = Answered /\ Abandoned' = Abandoned
      /\ Dropped' = Dropped \cup ids
  BY <1>1, <1>2, <1>3, <1>4 DEF Received, Answered, Dropped, Abandoned, Client
<1>6. CASE ids = {}
  BY <1>1, <1>5, <1>6 DEF Service!vars, Received, Answered, Dropped, Abandoned
<1>7. CASE ids # {}
  <2>1. Service!Drop(ids)
    BY <1>0, <1>1, <1>4, <1>5, <1>7 DEF Service!Drop, Received, Answered, Dropped, Abandoned
  <2> QED
    BY <2>1 DEF Service!Next
<1> QED
  BY <1>6, <1>7

\* A sample skipped by on_data_available never was a request of the service.
LEMMA ServiceSampleTaken ==
    ASSUME ServiceInv, SampleTaken
    PROVE  UNCHANGED Service!vars
<1>0. AccountInv
  BY DEF ServiceInv
<1>1. PICK id \in Requests : id = taking
  BY <1>0 DEF AccountInv, TypeInv, TypeOK, CallbackHolds, SampleTaken
<1>2. id \notin InQueue /\ outcome[id] = "none" /\ outcome \in [Requests -> Outcomes]
  BY <1>0, <1>1, NoneIsNoRequest DEF AccountInv, Accounted, RequestsAccounted, InCallback,
     Unsettled, TypeInv, TypeOK
<1>3. InQueue' = InQueue /\ UNCHANGED <<gone, stop_>>
  BY DEF SampleTaken, InQueue, threads, network
<1>4. outcome' = outcome \/ outcome' = [outcome EXCEPT ![id] = "skipped"]
  BY <1>1 DEF SampleTaken
<1>5. \A other \in Requests :
        outcome'[other] = outcome[other] \/ (other = id /\ outcome'[other] = "skipped")
  BY <1>2, <1>4
<1>6. Received' = Received /\ Answered' = Answered /\ Dropped' = Dropped /\ Abandoned' = Abandoned
  BY <1>2, <1>3, <1>5 DEF Received, Answered, Dropped, Abandoned, Client
<1> QED
  BY <1>3, <1>6 DEF Service!vars, Received, Answered, Dropped, Abandoned

\* stop() closes the service; a client that leaves takes all its
\* requests with it.
LEMMA ServiceEnvironment ==
    ASSUME ServiceInv, StopStore \/ \E c \in Clients : ClientLeaves(c)
    PROVE  Service!Next
<1>1. CASE StopStore
  <2>1. InQueue' = InQueue /\ UNCHANGED <<outcome, gone>> /\ stop_' = TRUE
    BY <1>1 DEF StopStore, InQueue, network
  <2>2. /\ Received' = Received /\ Answered' = Answered /\ Dropped' = Dropped
        /\ Abandoned' = Abandoned
    BY <2>1 DEF Received, Answered, Dropped, Abandoned, Client
  <2>3. Service!Close
    BY <2>1, <2>2 DEF Service!Close, Received, Answered, Dropped, Abandoned
  <2> QED
    BY <2>3 DEF Service!Next
<1>2. ASSUME NEW c \in Clients, ClientLeaves(c)
      PROVE  Service!Next
  <2>1. /\ InQueue' = InQueue /\ UNCHANGED <<outcome, stop_>>
        /\ gone' = gone \cup {c}
    BY <1>2 DEF ClientLeaves, InQueue, threads
  <2> DEFINE ids == {id \in Requests : Client(id) = c}
  <2>2. /\ Received' = Received /\ Answered' = Answered /\ Dropped' = Dropped
        /\ Abandoned' = Abandoned \cup ids
    BY <2>1 DEF Received, Answered, Dropped, Abandoned, Client
  <2>3. ids \in SUBSET Requests
    OBVIOUS
  <2> HIDE DEF ids
  <2>4. Service!ClientLeaves(ids)
    BY <2>1, <2>2 DEF Service!ClientLeaves, Received, Answered, Dropped, Abandoned
  <2> QED
    BY <2>3, <2>4 DEF Service!Next
<1> QED
  BY <1>1, <1>2

\* All other steps are none of the service's.
LEMMA ServiceOther ==
    ASSUME \/ (Main /\ ~Destructor) \/ ConstructorThrows
           \/ RunCheck \/ RunBlock \/ StopNotify \/ SpuriousWakeup
           \/ ReplyWait \/ ReplyBlock \/ ReplyExit
           \/ OnDataAvailable \/ TakeNextSample \/ CallbackReturns
           \/ \E c \in Clients :
                \/ OnPublicationMatched(c) \/ OnSubscriptionMatched(c)
                \/ OnParticipantDiscovery(c) \/ SendRequest(c)
                \/ \E endpoint \in ClientEndpoints : EndpointMatched(c, endpoint)
           \/ UNCHANGED vars
    PROVE  UNCHANGED Service!vars
<1>0. ASSUME UNCHANGED <<requests_, outcome, gone, stop_>>
      PROVE  UNCHANGED Service!vars
  BY <1>0, ServiceStutter DEF InQueue
<1>1. CASE (Main /\ ~Destructor) \/ ConstructorThrows
  BY <1>0, <1>1 DEF Main, CreateParticipant, CreateRequestEntities, CreateReplyEntities,
     AssignReplyWriter, ConstructorThrows, ConstructorStep, Spawn, JoinRun, network
<1>2. CASE RunCheck \/ RunBlock \/ StopNotify \/ SpuriousWakeup
  BY <1>0, <1>2 DEF RunCheck, RunBlock, StopNotify, SpuriousWakeup, network
<1>3. CASE ReplyWait \/ ReplyBlock \/ ReplyExit
  BY <1>0, <1>3 DEF ReplyWait, ReplyBlock, ReplyExit, network
<1>4. CASE OnDataAvailable \/ TakeNextSample \/ CallbackReturns
  BY <1>0, <1>4 DEF OnDataAvailable, TakeNextSample, Take, CallbackReturns, threads, network
<1>5. ASSUME NEW c \in Clients,
             OnPublicationMatched(c) \/ OnSubscriptionMatched(c) \/ OnParticipantDiscovery(c)
      PROVE  UNCHANGED Service!vars
  BY <1>0, <1>5 DEF OnPublicationMatched, OnSubscriptionMatched, OnMatched, OnUnmatched,
     OnParticipantDiscovery, Notified, network
<1>6. ASSUME NEW c \in Clients,
             \/ SendRequest(c)
             \/ \E endpoint \in ClientEndpoints : EndpointMatched(c, endpoint)
      PROVE  UNCHANGED Service!vars
  BY <1>0, <1>6 DEF SendRequest, EndpointMatched, threads
<1>7. CASE UNCHANGED vars
  BY <1>0, <1>7 DEF vars, threads, network
<1> QED
  BY <1>1, <1>2, <1>3, <1>4, <1>5, <1>6, <1>7

\* A server whose samples arrive one at a time, and only after a match
\* callback of their client, implements the service: every request that
\* reaches the queue is answered or dropped at most once, and dropped only
\* because it is malformed, its client left or the server is closing
\* (on_data_available, reply_routine and the destructor).
THEOREM ServerImplementsService ==
    ASSUME SerialDelivery, MatchCallbackFirst
    PROVE  Spec => ImplementsService
<1>1. ServiceInv /\ [Next]_vars => [Service!Next]_(Service!vars)
  <2> SUFFICES ASSUME ServiceInv, [Next]_vars
               PROVE  Service!Next \/ UNCHANGED Service!vars
    OBVIOUS
  <2> QED
    BY ServicePush, ServiceReply, ServiceDestructor, ServiceSampleTaken, ServiceEnvironment,
       ServiceOther DEF Next
<1> QED
  BY <1>1, ServiceInit, ServiceInvariant, PTL DEF Spec, ImplementsService, Service!Spec
=============================================================================
