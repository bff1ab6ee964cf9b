------------------------------ MODULE ClientApp ------------------------------
(***************************************************************************)
(* The client of the request-reply example: ClientApp, started by main.    *)
(*                                                                         *)
(* Threads: main (constructor, join, destructor), the run thread (wait for *)
(* a server, let the matching settle, send the requests, wait for the      *)
(* replies), the middleware's data thread (on_data_available) and its      *)
(* discovery thread (the match callbacks), and a signal handler that calls *)
(* stop().  Servers and the middleware are the environment; a server is    *)
(* what ReplyService says: it replies at most once to a request.           *)
(***************************************************************************)
EXTENDS MatchedStatus, Integers, Sequences

CONSTANTS
    Servers,            \* GUID prefixes of the server participants
    NumRequests,        \* requests a client sends; 4 in the code
    MaxSignals,         \* bound: signals delivered to the client
    MaxStrays,          \* bound: replies related to no request of the client
    SignalInWaitWindow  \* a signal may fall between predicate and sleep

ASSUME ConstantsAssumption ==
    /\ NumRequests \in Nat \ {0}
    /\ MaxSignals \in Nat
    /\ MaxStrays \in Nat
    /\ SignalInWaitWindow \in BOOLEAN

Numbers == 1 .. NumRequests
Stray == 0                                  \* related to nobody's request
Replies == Servers \X (Numbers \cup {Stray})
None == <<>>                                \* no sample

VARIABLES
    main_pc,          \* where main is
    stage,            \* which part of ClientApp::run its thread is in
    phase,            \* where it is in that part
    written,          \* how many requests DDS has accepted
    time_req,         \* whether time_req has been assigned
    stop_,            \* std::atomic<bool> stop_
    stop_pc,          \* where the signal handler's call of stop() is
    signals,          \* signals delivered
    matched,          \* server_matched_status_
    requests_status_, \* per request: no entry, or its flag
    taken,            \* the reply on_data_available has taken
    reader_history,   \* samples reply_reader_ holds, not yet taken
    unknown,          \* numbers of the replies rejected as unknown
    unstamped,        \* requests timed before time_req was assigned
    skipped,          \* replies found in an instance that is not alive
    replied,          \* replies servers have sent
    strays,           \* stray replies sent
    endpoints,        \* the endpoints of each server DDS has matched
    gone,             \* servers that left
    notices           \* callbacks the discovery thread still has to make

runner  == <<stage, phase, written, time_req>>
stopper == <<stop_, stop_pc, signals>>
data    == <<taken, reader_history, skipped, unknown, unstamped>>
network == <<replied, strays, endpoints, gone, notices>>
vars == <<main_pc, runner, stopper, data, network, matched, requests_status_>>

Alive == main_pc \notin {"exited", "failed", "terminated"}

\* Bug: send_request does not take the mutex.
MutexFreeWhileSending == phase # "blocking"

\* mtx_ is held across steps by a thread about to block in cv_.wait and by
\* send_request between the write and the entry in requests_status_.
MutexFree == phase \notin {"blocking", "recording"}

\* Bug: cv_.notify_all is forgotten.
NotWoken == phase

\* cv_.notify_all: the run thread, if asleep, goes back to locking mtx_.
Woken == IF phase = "waiting" THEN "lock" ELSE phase

Init ==
    /\ main_pc = "constructor" /\ stage = "none" /\ phase = "lock"
    /\ written = 0 /\ time_req = FALSE
    /\ stop_ = FALSE /\ stop_pc = "idle" /\ signals = 0
    /\ matched = NoneMatched(Servers)
    /\ requests_status_ = [n \in Numbers |-> "absent"]
    /\ taken = None /\ reader_history = <<>>
    /\ skipped = {} /\ unknown = {} /\ unstamped = {}
    /\ replied = {} /\ strays = 0
    /\ endpoints = [s \in Servers |-> {}] /\ gone = {} /\ notices = {}

-----------------------------------------------------------------------------
(* main: constructor, run thread and handlers, join, destructor.           *)

\* The entities are created; main starts the run thread.
Construct ==
    /\ main_pc = "constructor"
    /\ main_pc' = "join" /\ stage' = "server"
    /\ UNCHANGED <<phase, written, time_req, stopper, data, network, matched,
                   requests_status_>>

\* A create_ function throws and main returns EXIT_FAILURE.
ConstructorThrows ==
    /\ main_pc = "constructor"
    /\ main_pc' = "failed"
    /\ UNCHANGED <<runner, stopper, data, network, matched, requests_status_>>

\* thread.join() returns; the destructor deletes the entities, which waits
\* for a running callback.
Destructor ==
    /\ main_pc = "join" /\ stage = "done" /\ taken = None
    /\ main_pc' = "exited"
    /\ matched' = NoneMatched(Servers)
    /\ UNCHANGED <<runner, stopper, data, network, requests_status_>>

-----------------------------------------------------------------------------
(* ClientApp::run.                                                         *)

\* Lock mtx_ in one of the three waits and evaluate its predicate.
CheckingWait(s) ==
    /\ Alive /\ stage = s /\ phase = "lock"
    /\ UNCHANGED <<main_pc, written, time_req, stopper, data, network, matched,
                   requests_status_>>

\* The predicate is true.  is_stopped() then skips all that is left of run.
WaitEnds(s, over, next) ==
    /\ CheckingWait(s) /\ over
    /\ stage' = IF stop_ THEN "done" ELSE next
    /\ UNCHANGED phase

\* The predicate is false: about to sleep, mtx_ still held.
WaitBegins(s, over) ==
    /\ CheckingWait(s) /\ ~over
    /\ phase' = "blocking"
    /\ UNCHANGED stage

\* Wait for a server to be available.
ServerAvailable == is_any_server_matched(matched) \/ stop_
WaitForServer == WaitEnds("server", ServerAvailable, "settle") \/ WaitBegins("server", ServerAvailable)

\* cv_.wait_for one second: over when stopped, or by SettleTimeout.
WaitToSettle == WaitEnds("settle", stop_, "send") \/ WaitBegins("settle", stop_)

WaitForReplies == WaitEnds("replies", stop_, "done") \/ WaitBegins("replies", stop_)

\* cv_.wait releases mtx_ and sleeps.
WaitBlocks ==
    /\ Alive /\ phase = "blocking"
    /\ phase' = "waiting"
    /\ UNCHANGED <<main_pc, stage, written, time_req, stopper, data, network,
                   matched, requests_status_>>

SpuriousWakeup ==
    /\ Alive /\ phase = "waiting"
    /\ phase' = "lock"
    /\ UNCHANGED <<main_pc, stage, written, time_req, stopper, data, network,
                   matched, requests_status_>>

\* The second has passed: wait_for takes mtx_ and returns.
SettleTimeout ==
    /\ Alive /\ stage = "settle" /\ phase \in {"lock", "waiting"}
    /\ stage' = IF stop_ THEN "done" ELSE "send"
    /\ phase' = "lock"
    /\ UNCHANGED <<main_pc, written, time_req, stopper, data, network, matched,
                   requests_status_>>

\* send_request locks mtx_ and writes the request ...
WriteRequest ==
    /\ Alive /\ stage = "send" /\ phase = "lock"
    /\ written' = written + 1
    /\ phase' = "recording"
    /\ UNCHANGED <<main_pc, stage, time_req, stopper, data, network, matched,
                   requests_status_>>

\* ... or fails to: run throws, and an exception that leaves a thread's
\* function ends the process.
WriteFails ==
    /\ Alive /\ stage = "send" /\ phase = "lock"
    /\ main_pc' = "terminated"
    /\ UNCHANGED <<runner, stopper, data, network, matched, requests_status_>>

\* Bug: one operation too many is requested.
OneRequestMore == /\ phase' = "lock"
                  /\ stage' = IF written > NumRequests THEN "replies" ELSE "send"

\* send_requests goes on to the next operation, and run to wait_for_replies
\* after the last one.
NextRequest == /\ phase' = "lock"
               /\ stage' = IF written = NumRequests THEN "replies" ELSE "send"

\* Bug: time_req is assigned when the last request has been sent.
RecordStampingLast ==
    /\ Alive /\ phase = "recording"
    /\ requests_status_' = [requests_status_ EXCEPT ![written] = "waiting"]
    /\ \/ written = NumRequests /\ phase' = "stamp" /\ UNCHANGED stage
       \/ written < NumRequests /\ NextRequest
    /\ UNCHANGED <<main_pc, written, time_req, stopper, data, network, matched>>

\* ... makes the entry in requests_status_ and releases mtx_.
RecordRequest ==
    /\ Alive /\ phase = "recording"
    /\ requests_status_' = [requests_status_ EXCEPT ![written] = "waiting"]
    /\ \/ written = 1 /\ phase' = "stamp" /\ UNCHANGED stage
       \/ written > 1 /\ NextRequest
    /\ UNCHANGED <<main_pc, written, time_req, stopper, data, network, matched>>

\* send_requests assigns time_req after the first request, without mtx_.
StampTime ==
    /\ Alive /\ phase = "stamp"
    /\ time_req' = TRUE
    /\ NextRequest
    /\ UNCHANGED <<main_pc, written, stopper, data, network, matched,
                   requests_status_>>

-----------------------------------------------------------------------------
(* ClientApp::stop, called by the signal handler without mtx_.             *)

StopStore ==
    /\ main_pc = "join" /\ stop_pc = "idle" /\ signals < MaxSignals
    /\ SignalInWaitWindow \/ phase # "blocking"
    /\ stop_' = TRUE /\ stop_pc' = "notify" /\ signals' = signals + 1
    /\ UNCHANGED <<main_pc, runner, data, network, matched, requests_status_>>

\* Bug: the run thread is not notified.
StopSilently ==
    /\ Alive /\ stop_pc = "notify"
    /\ stop_pc' = "idle"
    /\ UNCHANGED <<main_pc, runner, stop_, signals, data, network, matched,
                   requests_status_>>

StopNotify ==
    /\ Alive /\ stop_pc = "notify"
    /\ stop_pc' = "idle"
    /\ phase' = Woken
    /\ UNCHANGED <<main_pc, stage, written, time_req, stop_, signals, data,
                   network, matched, requests_status_>>

-----------------------------------------------------------------------------
(* ClientApp::on_data_available.                                           *)

\* Take a sample, without mtx_; the loop ends once the client is stopped.
TakeReply ==
    /\ main_pc = "join" /\ taken = None
    /\ ~stop_ /\ reader_history # <<>>
    /\ taken' = Head(reader_history)
    /\ reader_history' = Tail(reader_history)
    /\ UNCHANGED <<main_pc, runner, stopper, network, matched, requests_status_,
                   skipped, unknown, unstamped>>

\* The writer of the sample is gone and its instance is not alive.
SkipReply ==
    /\ Alive /\ taken # None
    /\ taken[1] \in gone
    /\ skipped' = skipped \cup {taken}
    /\ taken' = None
    /\ UNCHANGED <<main_pc, runner, stopper, network, matched, requests_status_,
                   reader_history, unknown, unstamped>>

\* Bug: requests_status_ is keyed by the sequence number alone, and a reply
\* to another writer's request has the number of one of this client's.
RelatedNumber(reply) == IF reply[2] = Stray THEN 1 ELSE reply[2]

\* info.related_sample_identity
Related(reply) == reply[2]

\* requests_status_.find
Entry(n) == IF n \in Numbers THEN requests_status_[n] ELSE "absent"

\* Under mtx_, the entry of the request the reply is related to is looked up.
Processing ==
    /\ Alive /\ taken # None /\ MutexFree
    /\ taken' = None
    /\ UNCHANGED <<main_pc, stage, written, time_req, stop_pc, signals, network,
                   matched, reader_history, skipped>>

RejectUnknown ==
    /\ Processing
    /\ Entry(Related(taken)) = "absent"
    /\ unknown' = unknown \cup {Related(taken)}
    /\ UNCHANGED <<phase, stop_, requests_status_, unstamped>>

IgnoreDuplicate ==
    /\ Processing
    /\ Entry(Related(taken)) = "answered"
    /\ UNCHANGED <<phase, stop_, requests_status_, unknown, unstamped>>

\* Bug: the size of requests_status_ is not checked.
AllSentAreAnswered(status) == \A n \in Numbers : status[n] # "waiting"

\* requests_status_ has all its entries and all are true.
AllResponsesReceived(status) == \A n \in Numbers : status[n] = "answered"

\* The first reply: print the time and, if it was the last one missing,
\* call stop(), mtx_ still held.
AcceptReply ==
    /\ Processing
    /\ Entry(Related(taken)) = "waiting"
    /\ requests_status_' = [requests_status_ EXCEPT ![Related(taken)] = "answered"]
    /\ unstamped' = IF time_req THEN unstamped ELSE unstamped \cup {Related(taken)}
    /\ IF AllResponsesReceived(requests_status_')
       THEN stop_' = TRUE /\ phase' = Woken
       ELSE UNCHANGED <<stop_, phase>>
    /\ UNCHANGED unknown

ProcessReply == RejectUnknown \/ IgnoreDuplicate \/ AcceptReply

-----------------------------------------------------------------------------
(* The match callbacks.  A notice is <<server, endpoint, change>>.  The    *)
(* participant callback of a client only logs.                             *)

OnMatched(s, endpoint, change) ==
    /\ Alive /\ MutexFree
    /\ <<s, endpoint, change>> \in notices
    /\ change = -1 => <<s, endpoint, 1>> \notin notices
    /\ notices' = notices \ {<<s, endpoint, change>>}
    /\ matched' = Match(matched, s, endpoint, change = 1)
    /\ phase' = Woken
    /\ UNCHANGED <<main_pc, stage, written, time_req, stopper, data, replied,
                   strays, endpoints, gone, requests_status_>>

OnPublicationMatched(s) == \E change \in {1, -1} : OnMatched(s, "request_reader", change)
OnSubscriptionMatched(s) == \E change \in {1, -1} : OnMatched(s, "reply_writer", change)

-----------------------------------------------------------------------------
(* The environment: servers, and the middleware that connects them.        *)

EndpointMatched(s, endpoint) ==
    /\ Alive /\ s \notin gone /\ endpoint \notin endpoints[s]
    /\ endpoints' = [endpoints EXCEPT ![s] = @ \cup {endpoint}]
    /\ notices' = notices \cup {<<s, endpoint, 1>>}
    /\ UNCHANGED <<main_pc, runner, stopper, data, matched, requests_status_,
                   replied, strays, gone>>

ServerLeaves(s) ==
    /\ Alive /\ s \notin gone /\ endpoints[s] # {}
    /\ gone' = gone \cup {s}
    /\ endpoints' = [endpoints EXCEPT ![s] = {}]
    /\ notices' = notices \cup {<<s, e, -1>> : e \in endpoints[s]}
    /\ UNCHANGED <<main_pc, runner, stopper, data, matched, requests_status_,
                   replied, strays>>

\* DDS delivers a reply of a server with both endpoints matched.
Deliver(reply) ==
    /\ main_pc = "join" /\ endpoints[reply[1]] = ServerEndpoints
    /\ reader_history' = Append(reader_history, reply)
    /\ UNCHANGED <<main_pc, runner, stopper, matched, requests_status_, taken,
                   skipped, unknown, unstamped, endpoints, gone, notices>>

\* A server replies, once, to a request that was written.
ServerReplies(s, n) ==
    /\ n <= written /\ <<s, n>> \notin replied
    /\ Deliver(<<s, n>>)
    /\ replied' = replied \cup {<<s, n>>}
    /\ UNCHANGED strays

\* A reply with this client's client_id but related to another's request.
StrayReply(s) ==
    /\ strays < MaxStrays
    /\ Deliver(<<s, Stray>>)
    /\ strays' = strays + 1
    /\ UNCHANGED replied

-----------------------------------------------------------------------------
Run == \/ WaitForServer \/ WaitToSettle \/ WaitForReplies \/ WaitBlocks
       \/ SettleTimeout \/ WriteRequest \/ RecordRequest \/ StampTime

Next ==
    \/ Construct \/ ConstructorThrows \/ Destructor
    \/ Run \/ SpuriousWakeup \/ WriteFails \/ StopStore \/ StopNotify
    \/ TakeReply \/ SkipReply \/ ProcessReply
    \/ \E s \in Servers :
        \/ OnPublicationMatched(s) \/ OnSubscriptionMatched(s)
        \/ ServerLeaves(s) \/ StrayReply(s)
        \/ \E endpoint \in ServerEndpoints : EndpointMatched(s, endpoint)
        \/ \E n \in Numbers : ServerReplies(s, n)

Spec == Init /\ [][Next]_vars

\* Threads that can go on do so, and mtx_ starves nobody.  Servers need not
\* appear, reply or stay.
Fairness ==
    /\ WF_vars(Construct) /\ WF_vars(Destructor)
    /\ WF_vars(Run) /\ WF_vars(StopNotify)
    /\ WF_vars(TakeReply) /\ SF_vars(ProcessReply)
    /\ \A s \in Servers : SF_vars(OnPublicationMatched(s)) /\ SF_vars(OnSubscriptionMatched(s))

FairSpec == Spec /\ Fairness

-----------------------------------------------------------------------------
(* Properties.                                                             *)

\* Every variable holds a value its C++ counterpart can hold.
TypeOK ==
    /\ main_pc \in {"constructor", "join", "exited", "failed", "terminated"}
    /\ stage \in {"none", "server", "settle", "send", "replies", "done"}
    /\ phase \in {"lock", "blocking", "waiting", "recording", "stamp"}
    /\ written \in 0 .. NumRequests
    /\ time_req \in BOOLEAN
    /\ stop_ \in BOOLEAN
    /\ stop_pc \in {"idle", "notify"}
    /\ signals \in 0 .. MaxSignals
    /\ matched \in [Servers -> SUBSET ServerEndpoints]
    /\ requests_status_ \in [Numbers -> {"absent", "waiting", "answered"}]
    /\ taken \in Replies \cup {None}
    /\ reader_history \in Seq(Replies)
    /\ skipped \subseteq Replies
    /\ unknown \subseteq Numbers \cup {Stray}
    /\ unstamped \subseteq Numbers
    /\ replied \subseteq Servers \X Numbers
    /\ strays \in 0 .. MaxStrays
    /\ endpoints \in [Servers -> SUBSET ServerEndpoints]
    /\ gone \subseteq Servers
    /\ notices \subseteq Servers \X ServerEndpoints \X {1, -1}

\* However fast a server is, no reply to a request of this client is
\* rejected as unknown: the entry is there when the callback looks
\* (send_request, "to avoid taking a reply on the on_data_available callback
\* coming from a very fast server").
NoOwnReplyUnknown == unknown \subseteq {Stray}

\* Unless a signal stopped it, the run thread ends only after every request
\* was sent and answered, whatever order replies and duplicates of several
\* servers come in (on_data_available, "Check if all responses have been
\* received").
EndsComplete ==
    stage = "done" /\ signals = 0 => \A n \in Numbers : requests_status_[n] = "answered"

\* A request counts as answered only because a server replied to that very
\* request of this client: not for a reply that the content filter let
\* through but that is related to another writer's request, and not for one
\* to another of its own requests (requests_status_ in on_data_available).
AnswersAreReplies ==
    \A n \in Numbers :
        requests_status_[n] = "answered" => \E s \in Servers : <<s, n>> \in replied

\* A reply to any request but the first is timed from a time_req that has been
\* assigned, however fast it comes: the second request is written only after
\* the assignment (send_requests; on_data_available, "From request to server
\* time").  A fast reply to the first one is not: it finds the initial value.
OnlyFirstUntimed == unstamped \subseteq {1}

\* When every request has been replied to, the client ends, unless a reply
\* was in an instance found not alive: the wakeup of the stop() that
\* on_data_available makes is not lost.
RepliesEndClient ==
    (\A n \in Numbers : \E s \in Servers : <<s, n>> \in replied)
        ~> (~Alive \/ skipped # {})

\* stop() ends the client in whichever of its waits, or between which of its
\* requests, the run thread is (run, stop; ClientApp.hpp, "Trigger the end of
\* execution").
StopEndsClient == stop_ ~> ~Alive
=============================================================================
