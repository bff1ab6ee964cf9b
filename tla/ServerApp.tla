------------------------------ MODULE ServerApp ------------------------------
(***************************************************************************)
(* The server of the request-reply example: ServerApp, started by main.    *)
(*                                                                         *)
(* Threads: main (constructor, join, destructor), the run thread, the      *)
(* reply thread, the middleware's data thread (on_data_available) and its  *)
(* discovery thread (the other callbacks), and a signal handler that calls *)
(* stop().  A handler that holds mtx_ from its first to its last statement *)
(* is one action; the mutex is only visible as the window in which a       *)
(* thread has found its wait predicate false and is not yet asleep.        *)
(*                                                                         *)
(* Clients and the middleware are the environment.                         *)
(***************************************************************************)
EXTENDS Calculator, MatchedStatus, FiniteSets, Sequences

CONSTANTS
    Clients,            \* GUID prefixes of the client participants
    Operations,         \* the operations a client requests, in order
    Operands,           \* the [x, y] of every client
    MaxSignals,         \* bound: signals delivered to the server
    MaxWriteFailures,   \* bound: failing calls of reply_writer_->write
    SerialDelivery,     \* no sample arrives while another is being consumed
    MatchCallbackFirst, \* no sample arrives before a match callback ended
    EarlyClients,       \* clients are discovered while the server starts
    SignalInWaitWindow  \* a signal may fall between predicate and sleep

ASSUME ConstantsAssumption ==
    /\ Operations \in Seq(OperationKinds \cup {UnknownOperation})
    /\ Operands \in [Clients -> [x : Short, y : Short]]
    /\ MaxSignals \in Nat
    /\ MaxWriteFailures \in Nat
    /\ SerialDelivery \in BOOLEAN
    /\ MatchCallbackFirst \in BOOLEAN
    /\ EarlyClients \in BOOLEAN
    /\ SignalInWaitWindow \in BOOLEAN

\* A request is identified by its sample identity: writer and number.
Requests == Clients \X (1 .. Len(Operations))
Client(id) == id[1]
None == <<>>   \* no sample

\* ClientApp::send_requests: what the sample with identity id carries.
Payload(id) ==
    [client_id |-> Client(id), operation |-> Operations[id[2]],
     x |-> Operands[Client(id)].x, y |-> Operands[Client(id)].y]

VARIABLES
    main_pc,        \* where main is: constructor, join, destructor
    run_pc,         \* where the thread of ServerApp::run is
    reply_pc,       \* where the thread of ServerApp::reply_routine is
    stop_,          \* std::atomic<bool> stop_
    stop_pc,        \* where the signal handler's call of stop() is
    matched,        \* client_matched_status_
    requests_,      \* std::queue<Request>: sample identity and object
    heap,           \* what each CalculatorRequestType object holds
    cb_pc,          \* where on_data_available is
    taking,         \* the sample on_data_available is working on
    reader_history, \* samples request_reader_ holds, not yet taken
    reply_history,  \* replies reply_writer_ keeps for its readers
    outcome,        \* what became of every request
    sent,           \* how many requests each client has sent
    endpoints,      \* the endpoints of each client DDS has matched
    gone,           \* clients that left
    notices,        \* callbacks the discovery thread still has to make
    signals,        \* signals delivered
    failures        \* failed writes

threads == <<main_pc, run_pc, reply_pc, stop_, stop_pc, signals>>
data    == <<heap, cb_pc, taking, reader_history>>
network == <<sent, endpoints, gone>>
vars == <<threads, data, network, matched, requests_, reply_history, outcome,
          notices, failures>>

\* The process is neither gone nor ended by std::terminate or a null pointer.
Alive == main_pc \notin {"exited", "terminated", "crashed"}

\* mtx_ is held across steps only by a thread about to block in cv_.wait.
MutexFree == run_pc # "blocking" /\ reply_pc # "blocking"

\* The DDS entities exist, and the pointer reply_writer_ has been assigned.
RequestReaderExists == main_pc \in {"create_reply_entities",
    "assign_reply_writer", "spawn", "join", "destructor"}
ReplyWriterExists == main_pc \in {"assign_reply_writer", "spawn", "join", "destructor"}
ReplyWriterAssigned == main_pc \in {"spawn", "join", "destructor"}

\* cv_.notify_all: a sleeping thread goes back to locking mtx_ and to its
\* predicate.
Woken(pc) == IF pc = "waiting" THEN "lock" ELSE pc

\* The requests in requests_.
InQueue == {requests_[i].info : i \in DOMAIN requests_}

Init ==
    /\ main_pc = "create_participant" /\ run_pc = "none" /\ reply_pc = "lock"
    /\ stop_ = FALSE /\ stop_pc = "idle" /\ signals = 0
    /\ matched = NoneMatched(Clients)
    /\ requests_ = <<>> /\ heap = <<>> /\ cb_pc = "idle" /\ taking = None
    /\ reader_history = <<>> /\ reply_history = {}
    /\ outcome = [id \in Requests |-> "none"]
    /\ sent = [c \in Clients |-> 0]
    /\ endpoints = [c \in Clients |-> {}]
    /\ gone = {} /\ notices = {} /\ failures = 0

-----------------------------------------------------------------------------
(* main: constructor, run thread and handlers, join, destructor.           *)

ConstructorStep(from, to) ==
    /\ main_pc = from
    /\ main_pc' = to
    /\ UNCHANGED <<run_pc, reply_pc, stop_, stop_pc, signals, data, network,
                   matched, requests_, reply_history, outcome, notices, failures>>

CreateParticipant == ConstructorStep("create_participant", "create_request_entities")
CreateRequestEntities == ConstructorStep("create_request_entities", "create_reply_entities")
\* create_datawriter enables the writer before its result is assigned.
CreateReplyEntities == ConstructorStep("create_reply_entities", "assign_reply_writer")
AssignReplyWriter == ConstructorStep("assign_reply_writer", "spawn")

\* A create_ function throws.  The reply thread is already running, so the
\* destructor of the joinable member reply_thread_ calls std::terminate.
ConstructorThrows ==
    \E from \in {"create_participant", "create_request_entities", "create_reply_entities"} :
        ConstructorStep(from, "terminated")

\* main starts the run thread and installs the signal handlers.
Spawn ==
    /\ main_pc = "spawn"
    /\ main_pc' = "join" /\ run_pc' = "lock"
    /\ UNCHANGED <<reply_pc, stop_, stop_pc, signals, data, network, matched,
                   requests_, reply_history, outcome, notices, failures>>

\* thread.join() returns; main returns and destroys the application.
JoinRun ==
    /\ main_pc = "join" /\ run_pc = "done"
    /\ main_pc' = "destructor"
    /\ UNCHANGED <<run_pc, reply_pc, stop_, stop_pc, signals, data, network,
                   matched, requests_, reply_history, outcome, notices, failures>>

\* ServerApp::~ServerApp: join the reply thread, delete the entities (which
\* waits for a running callback), drop the pending requests.
Destructor ==
    /\ main_pc = "destructor" /\ reply_pc = "done" /\ cb_pc = "idle"
    /\ main_pc' = "exited"
    /\ outcome' = [id \in Requests |->
            IF id \in InQueue THEN "discarded" ELSE outcome[id]]
    /\ requests_' = <<>>
    /\ matched' = NoneMatched(Clients)
    /\ UNCHANGED <<run_pc, reply_pc, stop_, stop_pc, signals, data, network,
                   reply_history, notices, failures>>

-----------------------------------------------------------------------------
(* ServerApp::run and ServerApp::stop.                                     *)

\* run: lock mtx_ and evaluate the predicate of cv_.wait.
RunCheck ==
    /\ Alive /\ run_pc = "lock" /\ MutexFree
    /\ run_pc' = IF stop_ THEN "done" ELSE "blocking"
    /\ UNCHANGED <<main_pc, reply_pc, stop_, stop_pc, signals, data, network,
                   matched, requests_, reply_history, outcome, notices, failures>>

\* cv_.wait releases mtx_ and sleeps.
RunBlock ==
    /\ Alive /\ run_pc = "blocking"
    /\ run_pc' = "waiting"
    /\ UNCHANGED <<main_pc, reply_pc, stop_, stop_pc, signals, data, network,
                   matched, requests_, reply_history, outcome, notices, failures>>

\* Bug: stop() wakes one waiting thread only.
StopNotifyOne ==
    /\ Alive /\ stop_pc = "notify"
    /\ stop_pc' = "idle"
    /\ reply_pc' = Woken(reply_pc)
    /\ run_pc' = IF reply_pc = "waiting" THEN run_pc ELSE Woken(run_pc)
    /\ UNCHANGED <<main_pc, stop_, signals, data, network, matched, requests_,
                   reply_history, outcome, notices, failures>>

\* A signal arrives: stop() stores the flag ...
StopStore ==
    /\ main_pc \in {"join", "destructor"}
    /\ stop_pc = "idle" /\ signals < MaxSignals
    /\ SignalInWaitWindow \/ MutexFree
    /\ stop_' = TRUE /\ stop_pc' = "notify" /\ signals' = signals + 1
    /\ UNCHANGED <<main_pc, run_pc, reply_pc, data, network, matched, requests_,
                   reply_history, outcome, notices, failures>>

\* ... and notifies, without ever holding mtx_.
StopNotify ==
    /\ Alive /\ stop_pc = "notify"
    /\ stop_pc' = "idle"
    /\ run_pc' = Woken(run_pc) /\ reply_pc' = Woken(reply_pc)
    /\ UNCHANGED <<main_pc, stop_, signals, data, network, matched, requests_,
                   reply_history, outcome, notices, failures>>

\* A condition variable may wake without a notification.
SpuriousWakeup ==
    /\ Alive
    /\ \/ run_pc = "waiting" /\ run_pc' = "lock" /\ UNCHANGED reply_pc
       \/ reply_pc = "waiting" /\ reply_pc' = "lock" /\ UNCHANGED run_pc
    /\ UNCHANGED <<main_pc, stop_, stop_pc, signals, data, network, matched,
                   requests_, reply_history, outcome, notices, failures>>

-----------------------------------------------------------------------------
(* ServerApp::reply_routine.                                               *)

\* The predicate is false: the thread is about to sleep, then sleeps.
ReplyWait ==
    /\ Alive /\ reply_pc = "lock" /\ MutexFree
    /\ requests_ = <<>> /\ ~stop_
    /\ reply_pc' = "blocking"
    /\ UNCHANGED <<main_pc, run_pc, stop_, stop_pc, signals, data, network,
                   matched, requests_, reply_history, outcome, notices, failures>>

ReplyBlock ==
    /\ Alive /\ reply_pc = "blocking"
    /\ reply_pc' = "waiting"
    /\ UNCHANGED <<main_pc, run_pc, stop_, stop_pc, signals, data, network,
                   matched, requests_, reply_history, outcome, notices, failures>>

\* The loop ends once the flag is set, whatever is still queued.
ReplyExit ==
    /\ Alive /\ reply_pc = "lock" /\ MutexFree /\ stop_
    /\ reply_pc' = "done"
    /\ UNCHANGED <<main_pc, run_pc, stop_, stop_pc, signals, data, network,
                   matched, requests_, reply_history, outcome, notices, failures>>

\* An iteration that pops a request starts in these states and ends, mtx_
\* released, where the next one starts.
Processing ==
    /\ Alive /\ reply_pc = "lock" /\ MutexFree
    /\ requests_ # <<>> /\ ~stop_
    /\ UNCHANGED <<run_pc, reply_pc, stop_, stop_pc, signals, data, network,
                   matched, notices>>

\* What the reply thread may read in the object of the request in front.
\* While on_data_available deserialises the next sample into that same
\* object, without mtx_, each field is the old or the new one.
Mixtures(p, q) ==
    [client_id : {p.client_id, q.client_id}, operation : {p.operation, q.operation},
     x : {p.x, q.x}, y : {p.y, q.y}]

Readable(object) ==
    IF cb_pc = "take" /\ object = Len(heap)
    THEN Mixtures(Payload(heap[object]), Payload(taking))
    ELSE {Payload(heap[object])}

Front == Head(requests_)
FrontClient == Client(Front.info)
Settle(what) == outcome' = [outcome EXCEPT ![Front.info] = what]

\* Bug: the request is pushed again without having been popped.
SaveACopy == requests_' = Append(requests_, Front)

SaveForLater == requests_' = Append(Tail(requests_), Front)

\* None of the client's endpoints is matched: the client is taken for gone.
ProcessIgnore ==
    /\ Processing
    /\ ~is_fully_unmatched(matched, FrontClient)
    /\ requests_' = Tail(requests_)
    /\ Settle("ignored")
    /\ UNCHANGED <<main_pc, reply_history, failures>>

\* The client is not fully matched: the request goes to the back.
ProcessSave ==
    /\ Processing
    /\ is_fully_unmatched(matched, FrontClient)
    /\ ~is_client_matched(matched, FrontClient)
    /\ SaveForLater
    /\ UNCHANGED <<main_pc, reply_history, outcome, failures>>

\* calculate fails: the request is dropped as malformed.
ProcessMalformed ==
    /\ Processing
    /\ is_client_matched(matched, FrontClient)
    /\ \E p \in Readable(Front.request) : ~CanCalculate(p)
    /\ requests_' = Tail(requests_)
    /\ Settle("malformed")
    /\ UNCHANGED <<main_pc, reply_history, failures>>

\* calculate succeeds; the reply names the client the object names and is
\* related to the sample the SampleInfo names.
Reply(p) == [related |-> Front.info, client_id |-> p.client_id, result |-> Calculate(p)]

ProcessReply ==
    /\ Processing
    /\ is_client_matched(matched, FrontClient)
    /\ ReplyWriterAssigned
    /\ \E p \in Readable(Front.request) :
        /\ CanCalculate(p)
        /\ reply_history' = reply_history \cup {Reply(p)}
    /\ requests_' = Tail(requests_)
    /\ Settle("answered")
    /\ UNCHANGED <<main_pc, failures>>

\* reply_writer_->write fails: the request goes to the back, for a retry.
ProcessWriteFails ==
    /\ Processing
    /\ is_client_matched(matched, FrontClient)
    /\ ReplyWriterAssigned
    /\ failures < MaxWriteFailures
    /\ \E p \in Readable(Front.request) : CanCalculate(p)
    /\ SaveForLater
    /\ failures' = failures + 1
    /\ UNCHANGED <<main_pc, reply_history, outcome>>

\* reply_writer_ is still null when the reply is to be written.
ProcessNullWriter ==
    /\ Processing
    /\ is_client_matched(matched, FrontClient)
    /\ ~ReplyWriterAssigned
    /\ \E p \in Readable(Front.request) : CanCalculate(p)
    /\ main_pc' = "crashed"
    /\ UNCHANGED <<requests_, reply_history, outcome, failures>>

ReplyIteration ==
    \/ ProcessIgnore \/ ProcessSave \/ ProcessMalformed
    \/ ProcessReply \/ ProcessWriteFails \/ ProcessNullWriter

-----------------------------------------------------------------------------
(* ServerApp::on_data_available.  One invocation allocates one object and  *)
(* takes every sample into it, until the reader has none left.             *)

Take ==
    /\ Alive /\ ~stop_ /\ reader_history # <<>>
    /\ taking' = Head(reader_history)
    /\ reader_history' = Tail(reader_history)
    /\ cb_pc' = "take"
    /\ UNCHANGED <<threads, network, matched, requests_, reply_history, outcome,
                   notices, failures>>

\* Bug: the object is a member, allocated by the first invocation only.
OnDataAvailableShared ==
    cb_pc = "idle" /\ Take /\ heap' = IF heap = <<>> THEN <<None>> ELSE heap

\* The callback starts: a new object and the first take.
OnDataAvailable == cb_pc = "idle" /\ Take /\ heap' = Append(heap, None)

\* The loop goes on: the next take, into the same object.
TakeNextSample == cb_pc = "loop" /\ Take /\ UNCHANGED heap

\* take_next_sample has written the sample into the object.  The instance of
\* a client that left may be found not alive: then nothing is queued.
SampleTaken ==
    /\ Alive /\ cb_pc = "take"
    /\ heap' = [heap EXCEPT ![Len(heap)] = taking]
    /\ \/ /\ cb_pc' = "push"
          /\ UNCHANGED <<taking, outcome>>
       \/ /\ Client(taking) \in gone
          /\ cb_pc' = "loop" /\ taking' = None
          /\ outcome' = [outcome EXCEPT ![taking] = "skipped"]
    /\ UNCHANGED <<threads, network, reader_history, matched, requests_,
                   reply_history, notices, failures>>

\* Bug: the request is pushed and nobody is notified.
PushWithoutNotify ==
    /\ Alive /\ cb_pc = "push" /\ MutexFree
    /\ requests_' = Append(requests_, [info |-> taking, request |-> Len(heap)])
    /\ cb_pc' = "loop" /\ taking' = None
    /\ UNCHANGED <<threads, network, heap, reader_history, matched,
                   reply_history, outcome, notices, failures>>

\* Under mtx_: push the SampleInfo with the shared pointer and notify.
PushRequest ==
    /\ Alive /\ cb_pc = "push" /\ MutexFree
    /\ requests_' = Append(requests_, [info |-> taking, request |-> Len(heap)])
    /\ cb_pc' = "loop" /\ taking' = None
    /\ run_pc' = Woken(run_pc) /\ reply_pc' = Woken(reply_pc)
    /\ UNCHANGED <<main_pc, stop_, stop_pc, signals, network, heap,
                   reader_history, matched, reply_history, outcome, notices, failures>>

\* Nothing left to take, or stopped: the callback returns.
CallbackReturns ==
    /\ Alive /\ cb_pc = "loop" /\ (stop_ \/ reader_history = <<>>)
    /\ cb_pc' = "idle"
    /\ UNCHANGED <<threads, network, heap, taking, reader_history, matched,
                   requests_, reply_history, outcome, notices, failures>>

-----------------------------------------------------------------------------
(* The discovery callbacks.  A notice is <<client, what, change>>.         *)

\* The discovery thread makes one callback, under mtx_.  The callback for a
\* match precedes the one for the end of that match.
Notified(c, what, change) ==
    /\ Alive /\ MutexFree
    /\ <<c, what, change>> \in notices
    /\ change = -1 => \A e \in ClientEndpoints :
            what \in {e, "participant"} => <<c, e, 1>> \notin notices
    /\ notices' = notices \ {<<c, what, change>>}
    /\ UNCHANGED <<run_pc, reply_pc, stop_, stop_pc, signals, data, network,
                   requests_, outcome, failures>>

\* The branch current_count_change == -1 once the bit is reset: remove the
\* old replies if no client is matched.
ClearIfNoneMatched(status) ==
    \/ /\ ~no_client_matched(status)
       /\ UNCHANGED <<main_pc, reply_history>>
    \/ /\ no_client_matched(status) /\ ReplyWriterAssigned
       /\ reply_history' = {}
       /\ UNCHANGED main_pc
    \/ /\ no_client_matched(status) /\ ~ReplyWriterAssigned
       /\ main_pc' = "crashed"
       /\ UNCHANGED reply_history

OnMatched(c, endpoint) ==
    /\ Notified(c, endpoint, 1)
    /\ matched' = Match(matched, c, endpoint, TRUE)
    /\ UNCHANGED <<main_pc, reply_history>>

OnUnmatched(c, endpoint) ==
    /\ Notified(c, endpoint, -1)
    /\ matched' = Match(matched, c, endpoint, FALSE)
    /\ ClearIfNoneMatched(matched')

OnPublicationMatched(c) == OnMatched(c, "reply_reader") \/ OnUnmatched(c, "reply_reader")
OnSubscriptionMatched(c) == OnMatched(c, "request_writer") \/ OnUnmatched(c, "request_writer")

\* REMOVED_PARTICIPANT or DROPPED_PARTICIPANT of a client: both bits are
\* reset.  For the other statuses the callback only logs.
OnParticipantDiscovery(c) ==
    /\ Notified(c, "participant", -1)
    /\ matched' = Match(Match(matched, c, "reply_reader", FALSE), c, "request_writer", FALSE)
    /\ UNCHANGED <<main_pc, reply_history>>

-----------------------------------------------------------------------------
(* The environment: clients, and the middleware that connects them.        *)

LocalEndpointReady(endpoint) ==
    IF EarlyClients
    THEN IF endpoint = "request_writer" THEN RequestReaderExists ELSE ReplyWriterExists
    ELSE ReplyWriterAssigned

\* DDS matches an endpoint of a client with the server's.
EndpointMatched(c, endpoint) ==
    /\ LocalEndpointReady(endpoint)
    /\ c \notin gone /\ endpoint \notin endpoints[c]
    /\ endpoints' = [endpoints EXCEPT ![c] = @ \cup {endpoint}]
    /\ notices' = notices \cup {<<c, endpoint, 1>>}
    /\ UNCHANGED <<threads, data, sent, gone, matched, requests_, reply_history,
                   outcome, failures>>

\* A client sends its next request and DDS delivers it.
SendRequest(c) ==
    /\ Alive
    /\ c \notin gone /\ "request_writer" \in endpoints[c]
    /\ sent[c] < Len(Operations)
    /\ SerialDelivery => reader_history = <<>> /\ cb_pc = "idle"
    /\ MatchCallbackFirst => matched[c] # {}
    /\ sent' = [sent EXCEPT ![c] = @ + 1]
    /\ reader_history' = Append(reader_history, <<c, sent[c] + 1>>)
    /\ UNCHANGED <<threads, heap, cb_pc, taking, endpoints, gone, matched,
                   requests_, reply_history, outcome, notices, failures>>

\* A client ends or its lease expires: DDS ends its matches.
ClientLeaves(c) ==
    /\ Alive /\ c \notin gone /\ endpoints[c] # {}
    /\ gone' = gone \cup {c}
    /\ endpoints' = [endpoints EXCEPT ![c] = {}]
    /\ notices' = notices \cup {<<c, e, -1>> : e \in endpoints[c]}
                          \cup {<<c, "participant", -1>>}
    /\ UNCHANGED <<threads, data, sent, matched, requests_, reply_history,
                   outcome, failures>>

-----------------------------------------------------------------------------
Main == \/ CreateParticipant \/ CreateRequestEntities \/ CreateReplyEntities
        \/ AssignReplyWriter \/ Spawn \/ JoinRun \/ Destructor

Next ==
    \/ Main \/ ConstructorThrows
    \/ RunCheck \/ RunBlock \/ StopStore \/ StopNotify \/ SpuriousWakeup
    \/ ReplyWait \/ ReplyBlock \/ ReplyExit \/ ReplyIteration
    \/ OnDataAvailable \/ TakeNextSample \/ SampleTaken \/ PushRequest
    \/ CallbackReturns
    \/ \E c \in Clients :
        \/ OnPublicationMatched(c) \/ OnSubscriptionMatched(c)
        \/ OnParticipantDiscovery(c)
        \/ SendRequest(c) \/ ClientLeaves(c)
        \/ \E endpoint \in ClientEndpoints : EndpointMatched(c, endpoint)

Spec == Init /\ [][Next]_vars

\* Threads that can go on do so, and a thread that asks for mtx_ again and
\* again gets it: the scheduler and the mutex starve nobody.  Discovery is
\* reliable.  Clients need not send anything, writes may fail, nobody has to
\* press Ctrl+C and wakeups need not be spurious.
Fairness ==
    /\ WF_vars(Main)
    /\ SF_vars(RunCheck) /\ WF_vars(RunBlock) /\ WF_vars(StopNotify)
    /\ SF_vars(ReplyWait \/ ReplyExit \/ ReplyIteration) /\ WF_vars(ReplyBlock)
    /\ WF_vars(OnDataAvailable \/ TakeNextSample \/ SampleTaken \/ CallbackReturns)
    /\ SF_vars(PushRequest)
    /\ \A c \in Clients :
        /\ SF_vars(OnPublicationMatched(c))
        /\ SF_vars(OnSubscriptionMatched(c))
        /\ SF_vars(OnParticipantDiscovery(c))
        /\ \A endpoint \in ClientEndpoints : WF_vars(EndpointMatched(c, endpoint))

FairSpec == Spec /\ Fairness

-----------------------------------------------------------------------------
(* Properties.                                                             *)

Outcomes == {"none", "skipped", "ignored", "malformed", "answered", "discarded"}

\* Every variable holds a value its C++ counterpart can hold.
TypeOK ==
    /\ main_pc \in {"create_participant", "create_request_entities",
                    "create_reply_entities", "assign_reply_writer", "spawn", "join",
                    "destructor", "exited", "terminated", "crashed"}
    /\ run_pc \in {"none", "lock", "blocking", "waiting", "done"}
    /\ reply_pc \in {"lock", "blocking", "waiting", "done"}
    /\ stop_ \in BOOLEAN
    /\ stop_pc \in {"idle", "notify"}
    /\ signals \in 0 .. MaxSignals
    /\ matched \in [Clients -> SUBSET ClientEndpoints]
    /\ heap \in Seq(Requests \cup {None})
    /\ requests_ \in Seq([info : Requests, request : Nat])
    /\ cb_pc \in {"idle", "loop", "take", "push"}
    /\ taking \in Requests \cup {None}
    /\ reader_history \in Seq(Requests)
    /\ outcome \in [Requests -> Outcomes]
    /\ sent \in [Clients -> 0 .. Len(Operations)]
    /\ endpoints \in [Clients -> SUBSET ClientEndpoints]
    /\ gone \subseteq Clients
    /\ notices \subseteq Clients \X (ClientEndpoints \cup {"participant"}) \X {1, -1}
    /\ failures \in 0 .. MaxWriteFailures

\* Where else requests are: in the reader, in the data callback's hands.
InReader   == {reader_history[i] : i \in DOMAIN reader_history}
InCallback == {taking} \ {None}

\* No request is twice in the reader or in the queue.
OnceInReader ==
    \A i, j \in DOMAIN reader_history : reader_history[i] = reader_history[j] => i = j
OnceInQueue ==
    \A i, j \in DOMAIN requests_ : requests_[i].info = requests_[j].info => i = j

WasSent(id) == id[2] <= sent[Client(id)]
Unsettled == {id \in Requests : WasSent(id) /\ outcome[id] = "none"}

\* The server neither loses nor duplicates a request while its threads pass
\* it on: one that was sent is in exactly one place, once, until it is
\* settled, and then it is in none, so that no request is answered twice
\* although those that cannot be answered yet and those whose write failed
\* go round the queue again (requests_.push in on_data_available and, twice,
\* in reply_routine).
RequestsAccounted ==
    /\ OnceInReader
    /\ OnceInQueue
    /\ InReader \cap InQueue = {}
    /\ InCallback \cap (InReader \cup InQueue) = {}
    /\ InReader \cup InCallback \cup InQueue = Unsettled

\* A reply carries the result and the client of the request it is related
\* to, and a request is dropped as malformed only if it is: the object the
\* reply thread reads still holds the sample whose SampleInfo was queued
\* with it (reply_routine, "Prepare the reply" and "Prepare the WriteParams
\* to link the reply to the request").
RepliesMatchRequests ==
    /\ \A r \in reply_history :
        /\ CanCalculate(Payload(r.related))
        /\ r.client_id = Client(r.related)
        /\ r.result = Calculate(Payload(r.related))
    /\ \A id \in Requests :
        outcome[id] = "malformed" => ~CanCalculate(Payload(id))

\* Only requests of clients that left are ignored (reply_routine, "ignore
\* the request as the client is gone"); one that arrives while the client is
\* still being matched is saved for later.
OnlyGoneClientsIgnored ==
    \A id \in Requests : outcome[id] = "ignored" => Client(id) \in gone

\* clear_history removes only replies nobody waits for: as long as a client
\* is there, the replies to it stay available to its reader
\* (on_publication_matched and on_subscription_matched, "Remove old replies
\* since no one is waiting for them").
ClearedRepliesUnwanted ==
    [][\A r \in reply_history \ reply_history' : Client(r.related) \in gone]_vars

\* No queued request is forgotten: each is answered or dropped, as long as
\* the server is neither stopped nor ended by an error.  Requests whose
\* client is not fully matched, and those whose write failed, circulate in
\* the queue with the others and the reply thread sleeps only on an empty
\* queue (reply_routine).
EveryRequestSettled ==
    \A id \in Requests :
        id \in InQueue ~> (outcome[id] # "none" \/ stop_ \/ ~Alive)

\* stop() ends the server: run() returns, the destructor joins the reply
\* thread and main returns (Application.hpp, "Trigger the end of execution").
StopTerminates == stop_ ~> ~Alive

\* The server implements the service its clients rely on.
Service == INSTANCE ReplyService WITH
    Malformed <- {id \in Requests : ~CanCalculate(Payload(id))},
    received  <- {id \in Requests : id \in InQueue \/ outcome[id] \notin {"none", "skipped"}},
    replied   <- {id \in Requests : outcome[id] = "answered"},
    dropped   <- {id \in Requests : outcome[id] \in {"ignored", "malformed", "discarded"}},
    abandoned <- {id \in Requests : Client(id) \in gone},
    closing   <- stop_

\* Every step of the server is a step of the service or none: each request
\* that reaches the queue is answered or dropped at most once, and dropped
\* only for one of the service's reasons (on_data_available and
\* reply_routine).
ImplementsService == Service!Spec
=============================================================================
