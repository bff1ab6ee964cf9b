# Verification of the DDS applications and the dual-mode timer

This directory holds a TLA+ development for the repository's own applications.
The repository is a collection: a request-reply service over Fast DDS, two
performance tests (latency and throughput), a delivery-mechanism example,
several timers, and a large number of language exercises beside vendored and
generated code. The parts with logic of their own (threads, callbacks, commands
between processes, retries, timeouts and shutdown) are modelled: the
request-reply server and client, both performance tests and the dual-mode timer.
Paths below are relative to `src/other/pubsub/dds/request-response/` unless they
start with `src/`; in the sections on the performance tests and the timer they
are relative to their directories.

## Inventory

| Component | State | Operations | What makes it correct |
|---|---|---|---|
| Calculator (`ServerApp::calculate`, `CLIParser::consume_int16_argument`, `types/Calculator.idl`) | none | parse two operands, calculate | results fit 32 bits, division truncates, malformed requests are recognised |
| Matching (`app_utils.hpp`) | per peer, two bits | set and reset a bit, queries | queries agree with what the discovery callbacks reported |
| Server (`ServerApp.cpp`) | queue `requests_`, `client_matched_status_`, `stop_`, the objects queued requests point to, the reply writer's history | constructor, `run`, `reply_routine`, `on_data_available`, three discovery callbacks, `stop`, destructor | no request lost, doubled or answered for another; only malformed requests and those of gone clients are dropped; every request is settled; stop ends it |
| Client (`ClientApp.cpp`) | `server_matched_status_`, `requests_status_`, `stop_`, `time_req` | the three waits of `run`, `send_requests`, `on_data_available`, match callbacks, `stop` | no own reply is unknown; it ends when, and only when, all is answered or it is stopped |
| Process frame (`main.cpp`, `Application.cpp`) | the application, the run thread | construct, spawn, signals, join | Ctrl+C ends the program at any time |
| Latency test (`src/other/pubsub/dds/performance/latency`) | discovery and command counts, the numbers of the sample sent and received, times | READY, BEGIN, samples and echoes with a timeout, STOP, END | the handshake cannot block; endpoints of two payloads never meet; a roundtrip belongs to its sample as far as the unlocked numbers allow; statistics defined |
| Throughput test (`src/other/pubsub/dds/performance/throughout`) | the last command, counts, last sequence number, lost and received samples, results | TYPE_NEW, READY_TO_START, BEGIN, bursts, TEST_ENDS, TEST_RESULTS, TYPE_DISPOSE, ALL_STOPS | a test starts when all are rigged; received and lost add up; readers of two payload sizes never meet; everybody ends |
| Dual-mode timer (`src/other/timer/twomodestimer.cpp`) | the queue `tasks_`, the map `active_tasks_`, `running_`, the time | `start`, `stop`, add (blocking or not), cancel, expiry | a timer is fired or cancelled, not both; in order and not too early; stop ends |
| Delivery mechanisms (`src/other/pubsub/dds/delivery_mechanisms`) | `matched_`, `stop_`, a loaned sample | wait for a match, loan, write, stop | no lost wakeup; each loan written or returned |
| Other timers (`src/other/timer/testtimer`, `dualTimer`) | task lists | schedule, cancel, expiry | as above |

Components interact as follows. `main` constructs an application, starts a
thread for `run`, installs a handler that calls `stop` and joins. Fast DDS calls
the listener: one thread for discovery (`on_participant_discovery`,
`on_publication_matched`, `on_subscription_matched`), one for data
(`on_data_available`). The server adds a reply thread. Inside an application the
threads share `mtx_`, `cv_` and the atomic `stop_`; clients and servers share
two topics, one for requests and one for replies, and a reply names the request
it is related to. A performance test is one publisher and several subscriber
processes that exchange commands over two topics and samples over one or two
more; each has a main thread, and callbacks that count. The timer is a class:
any thread calls it, one manager thread and detached callback threads work.

What is hard: the order of match callbacks and samples, a sample taken while
another is being processed, the window between a wait's predicate and its sleep,
callbacks during construction, retries in a shared queue, redundant servers,
answers that come after the timeout that gave up on them, commands counted for
the wrong wait, and shutdown at any of these points. `PROJECT.json` lists each
at its line under "hazards".

## Modules

| Module | Models | Used by |
|---|---|---|
| `Calculator` | operand range, `calculate` (pure operators) | `CalculatorUse`, `ServerApp` |
| `CalculatorUse` | a client's operands parsed and a request calculated, again and again | `MCCalculatorUse`, `CalculatorProofs` |
| `MatchedStatus` | the two classes of `app_utils.hpp` (pure operators) | `ServerApp`, `ClientApp` |
| `ReplyService` | the abstract service: a received request is answered, or dropped for a reason, once | `ServerApp` (refinement) |
| `ServerApp` | the server with its threads; clients and DDS as environment | `MCServerApp`, `ServerAppProofs`, `ServerServiceProofs` |
| `ClientApp` | the client with its threads; servers and DDS as environment | `MCClientApp`, `ClientAppProofs` |
| `LatencyTest` | the latency publisher composed with its subscribers over the four topics | `MCLatencyTest`, `LatencyTestProofs` |
| `ThroughputTest` | the throughput publisher composed with its subscribers | `MCThroughputTest`, `ThroughputTestProofs` |
| `DualModeTimer` | the timer, its callers, its manager and its callbacks | `MCDualModeTimer`, `DualModeTimerProofs` |
| `CalculatorProofs`, `ServerAppProofs`, `ServerServiceProofs`, `ClientAppProofs`, `LatencyTestProofs`, `ThroughputTestProofs`, `DualModeTimerProofs` | theorems; `ServerServiceProofs` builds on `ServerAppProofs` | |
| `MC...` | constants of the runs | the `.cfg` files |

### Correspondence with the code: request-reply

**Mutex.** A handler that holds `mtx_` from its first to its last statement is
one action. `mtx_` is visible across steps in two places only: a thread that has
found its wait predicate false and is not yet asleep (`"blocking"`; a callback
cannot run then, a signal handler can), and the client's `send_request` between
the write and the entry in `requests_status_` (`"recording"`). Every other use
is a guard `MutexFree`.

**Condition variable.** `"waiting"` is asleep; `notify_all` moves every waiting
thread back to `"lock"`, where it competes for `mtx_` and evaluates its
predicate again. Wakeups may be spurious.

**`ServerApp::reply_routine`.** One iteration is one action, with one disjunct
for each of its exits: ignore, save for later, malformed, reply, failed write,
and the use of a null `reply_writer_`. The iteration runs under `mtx_`; the one
thing that can overlap with it is a `take_next_sample` of the data callback, and
the part of it that matters, the read of an object that is being overwritten, is
modelled by `Readable`: each field read is the old or the new one (`Mixtures`).

**`ServerApp::on_data_available`.** Four steps per sample: `Take` (the sample
leaves the reader and starts to be written into the object), `SampleTaken`,
`PushRequest` under `mtx_`, and the return. `heap` records what every
`CalculatorRequestType` object holds. One invocation allocates one object and
takes every sample into it, as the code does; queue entries are pairs of a sample
identity (`info`) and an object.

**Discovery callbacks.** `notices` is what the discovery thread still has to
report. The environment changes `endpoints` and `gone`; a callback updates
`matched` later. A leaving client causes up to three callbacks, in any order.

**Instance state.** A sample of a peer that left may be found in an instance that
is not alive; then it is skipped (`SampleTaken`, `SkipReply`). Samples that carry no
data (`valid_data` false: a peer's disposal) are taken and change nothing; they are
left out.

**History variables.** `outcome` (what became of a request), `sent`, `replied`,
`unknown`, `skipped` and `unstamped` record what happened; no action's guard
depends on them except to bound the environment (a client's next number, a
server that replies once).

**Data.** A request is `<<client, number>>`; its contents come from `Payload`. A
GUID prefix is a model value. `Half` stands for 2^15: TLC's integers have 32
bits, so that the runs use a short of three bits and a long of six, while the
proofs hold for every `Half`. The client's four operations are `NumRequests`
numbered requests.

**Environment constants.** They say how benign the middleware is.
`SerialDelivery`: no sample arrives while another is being consumed.
`MatchCallbackFirst`: no sample arrives before a match callback of its client has
run. `EarlyClients`: clients are discovered while the server is under
construction. `SignalInWaitWindow`: a signal may fall between predicate and
sleep. The code guarantees none of the benign values; each is used where a
property needs it, and what happens otherwise is said below.

### Correspondence with the code: performance tests

Both tests are modelled with static types and without loans, the defaults of
their command lines. A payload size, a demand or a recovery time is its number
in the order of the loops.

**Threads.** `pubPc` and `subPc[s]` are the places of the main threads between
two waits, writes or reads.

In the latency test the counters the waits read change under `mutex_` and every
change is notified, so that a wait is the guard of the step that follows. A data
callback takes its sample before it locks (`PubTakeEcho`, `SubTakeSample`). What
the publisher's callback then does under `mutex_` is several steps (`echoStep`):
the comparison of the two numbers (`PubUnexpected` or `PubExpected`), the
roundtrip, which reads `start_time_` (`PubTimes`), and the reset of the outgoing
number with the count (`PubResets`, `EchoCounted`). The main thread writes the
outgoing number (`PubNumber`, line 806), the incoming one (`PubClear`, 848) and
`start_time_` (`PubStart`, 852) and hands the sample to the writer with the number
it has then (`PubWrite`, 855), each a step of its own and none of them under
`mutex_`: they fall anywhere among the callback's steps. `raced` records that one
has. The comparison is one step although it loads two numbers: if the incoming one
is loaded first, only the outgoing one changes in between, and the result is that
of comparing at the second load. The other order could in addition find 0 = 0, if
the outgoing number is loaded after a reset and `PubNumber` and `PubClear` fall
between the two loads; it is left out, as it needs a late echo and a race, and all
that is claimed of such runs (no time starts at an older sample) does not depend on
the comparison. The numbers of the
samples created for a payload are uninitialised until the first `PubNumber`
(`LatencyTestTypes.cpp:98`), and a comparison before it may have either result
(`Unnumbered`).

In the throughput test `matched_` is set and notified without the mutex of the
thread that waits for it, so that a notification may fall between its predicate
and its sleep. A match callback that finds its main thread in the wait leaves it
awake or, as one of the outcomes, asleep on a notification it has missed
(`PubNotified`, `SubNotified`; `pubMissed`, `subMissed`); another callback of the
same condition variable or a spurious wakeup ends that. Every other wait of the
throughput test is a read of the command reader, which polls.

**Topics.** Commands are reliable and keep their order for each pair. Samples
and echoes may be lost (`Arrived` drops those before the one that arrives) or
late; they are not reordered, as the numbers of one writer never are. A timeout
may come whenever its wait has not been satisfied: 100 ms and 20 s have no length
here. Deleting an endpoint waits for its callbacks. `ALL_STOPS` is the exception to
reliability: after a failed test `ThroughputPublisher::run` returns without waiting
for its acknowledgement (line 682), and commands that were never acknowledged are
lost with the writer (`CommandLost`), from the last one back; without a failed test
that takes a subscriber that does not acknowledge within 20 seconds and counts as a
failing call.

**Matches.** `matched_` is the count the middleware reports for the endpoint,
"the actual number of matches" in the words of `ThroughputSubscriber.cpp:64`. A
match is reported to each side in a step of its own. A publisher's
`total_matches` is the sum of `matched_` over its listeners; the model counts the
matched endpoints of all subscribers, which is the same number. In the latency test the
end of a match is not: it would lower a count that is reset with the endpoint
before anyone waits on it again.

**Failure.** `PubFails`, `SubFails`, `PubStopFails`, `SubDestroyFails` and
`PubNotAcknowledged` are the `return false` and `break` paths, `MaxFailures` or
`MaxFaults` their bound. `test_failure` is `testFailure`. A throughput subscriber that
is told to create a reader while it has one refuses and finishes
(`SubCreatesReader`). An erase on an empty `times_` is undefined; the model
lets the publisher crash. `enable_` of the throughput listener is not
initialised and starts with either value.

**History variables.** `disturbed` (a wait timed out, or a roundtrip was not
positive), `raced`, `answered`, `failures`; `test`, `subTest`, `from`,
`timeouts`, `late`. No guard depends on them except through the bounds.

### Correspondence with the code: dual-mode timer

One iteration of `managerThread` runs under `tasks_mutex_` and is one step; the
test of `running_` before it is another (`"check"`), without the mutex. The
place `"locked"` is the window in which a `stop` is lost; `StopInWindow` says
whether one may fall there. `tasks` is a set and `Top` picks a timer that is due
first: `TimerTask::operator<` leaves the order of equal times open. A timer
cancelled stays in `tasks` and leaves `active`, as in the code. A blocked
caller (`waiting`) goes on when its own `finished` flag is set by the callback
thread. Only identifiers that a caller has been given can be cancelled, so never
those of `addBlockingTimer`. `now` is the steady clock, bounded by `MaxTime`.

## Runs

| Run | Instance | Result |
|---|---|---|
| `calculator` | `Half` = 4, all inputs in -9 .. 9, all operations and an unknown one | passes: `TypeOK`, `ResultFits`, `DivisionTruncates` |
| `server_queue` | 2 clients, early clients, overlapping samples, 1 failing write | passes: `TypeOK`, `RequestsAccounted`, `ClearedRepliesUnwanted` (about 960,000 states) |
| `server_service` | 2 clients (one with a malformed request), serial delivery, 1 signal at any point | passes: `RepliesMatchRequests`, `OnlyGoneClientsIgnored`, `ImplementsService` (about 717,000 states) |
| `server_progress` | 1 client, 2 operations, 1 failing write, 1 signal outside the wait window, fair | passes: `EveryRequestSettled`, `StopTerminates` |
| `server_aliasing` | 1 client, 2 operations, overlapping samples | violates `RepliesMatchRequests` |
| `server_lost_wakeup` | 1 client, 1 operation, a signal in the wait window, fair | violates `StopTerminates` |
| `client_replies` | 2 redundant servers, 2 requests, 1 stray reply | passes: `TypeOK`, `NoOwnReplyUnknown`, `EndsComplete`, `AnswersAreReplies`, `OnlyFirstUntimed` (about 1,210,000 states) |
| `client_ends` | 1 server, 4 requests, 1 signal outside the wait window, fair | passes: `RepliesEndClient`, `StopEndsClient` |
| `latency` | 2 subscribers, 2 payloads, 2 samples each (`samples_` = 1), 1 failing call, fair | passes: `TypeOK`, `EndpointsNested`, `SamplingTogether`, `RoundtripsMatch`, `UndisturbedMeasuresAll`, `TestCompletes`, `WaitsForReply` (about 1,850,000 states) |
| `throughput` | 2 subscribers, 2 sizes, the first with a test of 1 sample, the second with tests of 1 and 2, 1 timeout or failing call, fair | passes: `TypeOK`, `PromptAreRigged`, `SamplesAccounted`, `ResultsAddUp`, `ReadersRemoved`, `NoEarlierReader`, `AllStop` (about 525,000 states) |
| `throughput_stale_begin` | 2 subscribers, 1 test, 1 timeout | violates `RiggedBeforeTest` |
| `timer` | 3 timers of 0, 1 or 2 ticks, 2 ticks of time, stop outside the window, fair | passes: `TypeOK`, `TimersAccounted`, `BlockedLongEnough`, `EarliestFirst`, `TimersEnd`, `StopEnds` (about 212,000 states) |

Deadlock is checked in `calculator` only: a server without clients and a client
without servers wait, and every other system ends.

**Bounds.** Two clients are the fewest for which one is matched while the other
leaves, and for which requests overtake each other in the queue; two operations of
one client the fewest for which one callback takes two samples. One failed write
sends a request round the queue. One signal ends the server; a second changes
nothing that the first has not. Two servers give duplicates, two requests a
reply that arrives before the last request is sent; `client_ends` uses the code's
four. Two subscribers are the fewest for which one command or echo can be
mistaken for another's, two payloads or tests the fewest for which something of
the first reaches the second, two samples the fewest for which an echo is late
for the first. Three timers are the fewest for which one is added before and one
after the one being waited for. A missed notification needs no bound. `throughput`
has two sizes and, in the second, two demands, so that a test, a demand and a size
each follow another; it was also run with up to three timeouts and failures and two
sizes of one test (1,470,000 states), since a subscriber is left without a writer
(`Stranded`) only after three, and its safety properties with two faults (6,230,000
states), with the same results. All bounds are constants of the modules.

**Fairness.** Request-reply: a thread that can go on does (weak fairness of each
thread's steps), and one that asks for `mtx_` again and again gets it (strong
fairness of the steps that lock it: pthread mutexes do not promise it, and
without it the reply thread, which spins on a request of a half-matched client,
could keep the callback that would match it away for ever). Discovery is reliable
and makes its callbacks. Nothing is assumed about clients sending, servers
replying, signals, failures or spurious wakeups. Performance tests: some thread
that can run does (`WF_vars(Progress)`), discovery and command delivery included,
because commands are reliable; no sample or echo need ever arrive, and no spurious
wakeup happen. In the latency test this is assumed only until a call fails, since
`TestCompletes` says nothing of a run after that. A wait for echoes may end by
its timeout, which the clock guarantees. Timer: the manager,
the callbacks, the steps of a `stop` that was called, and the clock; nobody has
to call anything.

### What the violations show

1. **One object for several requests** (`ServerApp.cpp:254`). The object is
   allocated outside the loop, so two samples taken by one callback share it. The
   reply to the first is calculated from the second, or, since the take is not
   locked, from a mixture of their fields; a well-formed request can be dropped
   as malformed.
2. **Lost wakeup** (`ServerApp.cpp:128-132`, `ClientApp.cpp:138-142`): `stop()`
   neither holds `mtx_` while storing nor while notifying. `DualModeTimer::stop`
   has the same window; with `StopInWindow` TRUE, TLC finds `StopEnds` violated.
3. **Stale BEGIN** (`ThroughputPublisher.cpp:619-621`). A read that times out
   after 20 seconds leaves the last command in place, and if that was a BEGIN it
   is counted once more: the test starts with a subscriber that is not rigged.
   The loop for TYPE_REMOVED has the same shape.

What the passing properties except, and why they have to:

- A request ahead of its match callback (`ServerApp.cpp:446`) is ignored "as the
  client is gone": `OnlyGoneClientsIgnored` needs `MatchCallbackFirst`. The
  client's one second wait (`ClientApp.cpp:119`, with its TODO) makes it unlikely.
- The listener and the reply thread of the server are active before line 411
  assigns `reply_writer_`; `ProcessNullWriter` and the callbacks' use of it
  (`ServerApp.cpp:239`) end the process in `server_queue`.
- The first request's time may be measured from nothing (`ClientApp.cpp:465`):
  `OnlyFirstUntimed` says that no other is.
- Nobody answers a division by zero, and the client waits for all four replies
  (`ClientApp.cpp:290`), whereas `README.md:8` says it exits on any response.
- After a first timeout of the latency test a late echo is counted for a later
  sample, whose wait then ends early (`WaitsForReply` holds until the first timeout).
  Its time is not recorded, unless the callback has compared the numbers before the
  main thread writes those of the next sample (`LatencyTestPublisher.cpp:806-852`
  do not lock): then it is timed from the start of the next sample, the number of
  which is reset to 0 and may be sent so. `RoundtripsMatch` therefore claims the
  equality of echo and start while this has not happened in the payload (`raced`),
  and throughout only that no time starts at an older sample than the one echoed.
- A thread of the throughput test may sleep for ever on a match it was not notified
  of (`ThroughputPublisher.cpp:61`, `87`, `105`, `ThroughputSubscriber.cpp:84`, `203`,
  `229`): `AllStop` excepts a run in which that remains so.
- After a failed test a throughput subscriber may never be told to stop, since
  nobody waits for ALL_STOPS to be acknowledged (`NotTold`,
  `ThroughputPublisher.cpp:682`), or may wait for a writer that is no longer there
  (`Stranded`): `AllStop` says that the others end.
- Samples that outlive the clearing of a reader, and results that come after their
  timeout, spoil the counts of the throughput test: `SamplesAccounted` and
  `ResultsAddUp` except them (`late`, `timeouts`), and only `AllStop` and
  `NoEarlierReader` speak of such runs.
- A late sample may find the latency subscriber's buffer deleted
  (`LatencyTestSubscriber.cpp:739`); the comment at line 475 says that the
  commands exclude it, which they do as long as nothing is late.
- A call that fails in the latency publisher, or in the throughput publisher
  between TYPE_NEW and the creation of its writer, leaves subscribers waiting for
  ever (`TestCompletes` and `AllStop` except failures).

## Proofs

Every theorem holds for all values of the constants that the named assumptions
of the modules allow, not only for those of the runs. All safety invariants of
the passing runs, their safety action properties and the refinement are proved;
the liveness properties are not.

`CalculatorProofs` proves `TypeOK`, `ResultFits` and `DivisionTruncates` for every
`Half` and every set of inputs. The argument is arithmetic: an operand's absolute
value is at most `Half`, a product's at most `Half` squared, and truncating
division does not increase the absolute value; all of these leave room in a long,
-2^15 / -1 and -2^15 * -2^15 included. That quotient and remainder give the
dividend back (`QuotientTruncates`) is shown for absolute values and carried over
to the four combinations of signs.

`ServerAppProofs` proves, for all sets of clients, sequences of operations and
bounds, and, except where said, all environments:

- `TypeCorrect`: `TypeOK`, strengthened by `CallbackHolds` (the callback holds a
  sample exactly between the take and the push), without which `SampleTaken` and
  `PushRequest` could handle a sample that is none.
- `NoRequestLost`: `RequestsAccounted`, strengthened by `UnsentUntouched` (a
  request that was not sent has no outcome), which the step that sends one needs.
  The lemmas say what a take, a push and a rotation do to a sequence without
  duplicates.
- `PresentNotIgnored`: `OnlyGoneClientsIgnored` under `MatchCallbackFirst`, and
  `ClearKeepsWanted`: the action property `ClearedRepliesUnwanted`. Both follow
  from `Presence`: no end of a match is reported for a client that is there
  (`NoFalseNotice`), a client that sent something is seen (`SenderSeen`), and one
  that was replied to is fully matched (`RepliedSeen`). Neither property is
  inductive without these, since the reply thread and the callbacks act on
  `matched` and the properties speak of `gone`.

`ServerServiceProofs` proves two results that rest on how the middleware delivers:

- `RepliesCorrect`: `RepliesMatchRequests` under `SerialDelivery`. The reply is
  calculated from an object, the property speaks of the request, and `Intact`
  ties them: a callback finds one sample and no other comes until it has ended
  (`OneAtATime`), the newest object holds it once the take is complete
  (`ObjectWritten`), and the object of every queued request holds its sample and
  is not the one being written (`ObjectsKept`). `server_aliasing` shows that the
  assumption cannot be dropped.
- `ServerImplementsService`: the refinement `ImplementsService`, under
  `SerialDelivery` and `MatchCallbackFirst`. Initial states map to initial states;
  a push is the abstract receipt, an iteration of the reply thread that replies
  or drops is the abstract answer or drop, the destructor drops what is queued,
  the departure of a client and the stop are the abstract ones, and every other
  step, retries and failed writes included, is a stutter. It needs
  `ServiceInv`: the invariants above and `EndedByStop` (threads end, and the
  destructor runs, only after a stop), without which a request could be
  discarded for no reason.

`ClientAppProofs` proves, for all sets of servers and any number of requests,
`TypeOK`, `NoOwnReplyUnknown`, `AnswersAreReplies`, `EndsComplete` and
`OnlyFirstUntimed`, duplicates, stray replies, signals and replies that overtake
`send_request` included. The inductive invariant says where the run thread is for
each number of requests written (`RunShape`), that `requests_status_` has an entry
for every request but the one being recorded (`EntriesMade`; while it is, `mtx_`
is held, and no callback can look it up), that replies on their way are replies to
requests that were written (`RepliesKnown`), that without a signal the flag means
that all is answered (`StopMeansComplete`), and that `time_req` is set before a
second request (`Stamped`).

`LatencyTestProofs` proves, for any number of subscribers, payloads, samples and
failing calls, `TypeOK`, `EndpointsNested`, `SamplingTogether`, `RoundtripsMatch`,
`UndisturbedMeasuresAll` and the action property `WaitsForReply`. Its invariant
has four parts:

- `Shape`: types, group by group.
- `Protocol`: a table of what a subscriber may be doing, and which command is on
  its way to or from it, for each place of the publisher (`Handshake`);
  `pubCommands` is the number of subscribers whose BEGIN or END was counted, and
  endpoints exist where these places say. That the publisher's wait for 4 * N
  matches means that every endpoint of every subscriber is matched is a counting
  argument over `MatchedEndpoints` (`AllMatched`).
- `Samplings`: numbers on their way are not above the last one written
  (`OnTheWay`), what the main thread has left in the outgoing number and the start
  time (`Numbering`), no recorded echo is younger than its start (`Timed`), and
  nothing of a payload is left when the next begins, except at a subscriber
  that failed (`Stale`), whose missing BEGIN keeps the publisher from sampling
  (`Removed`). While no unlocked write has met the callback (`Clean`), also
  `Unraced`: every sample carries its number, what the callback has compared is
  still so when it uses it (`Compared`), and the times ascend and start at the
  samples echoed (`Matching`).
- `Undisturbed`, as long as nothing timed out: the current sample, or its echo, is
  in exactly one place for each subscriber (`Once`).

`ThroughputTestProofs` proves, for any number of subscribers, sizes, demands,
recovery times, samples and faults, `TypeOK`, `PromptAreRigged`, `SamplesAccounted`,
`ResultsAddUp`, `ReadersRemoved` and `NoEarlierReader`. The parts of its invariant
hold under different conditions, and none can be had under weaker ones, since a
timeout counts a stale command and a late sample mixes two tests:

- `Shape` always; it knows where the loops over sizes and demands are (`Looping`),
  which the size of a burst needs.
- `Alternate`, always: among the commands a subscriber has not read, two TYPE_NEW
  have a TYPE_DISPOSE between them, the first has one before it if there is a reader,
  and the last has one after it by the time the publisher may write the next. So
  `NoEarlierReader` holds whatever is late, lost or fails, whereas `ReadersRemoved`,
  which compares the subscribers with the publisher, needs prompt ones.
- `Rigs`, without timeouts: while the publisher waits, a READY_TO_START or the
  BEGIN that answers it is on its way exactly once, or has been counted. It
  survives failing calls, hence the separate theorem `RiggedDespiteFailures`: only
  the timeout of `throughput_stale_begin` can start a test too early.
- `Counts`, without timeouts and late samples: the samples on their way ascend and
  follow the last one received, so that the gaps found are the samples lost.
- `Prompt`, without timeouts and failing calls: the table of places and commands,
  as in the latency test (`Handshake`), and each command counted is that of
  another subscriber. It excludes `PubUnexpectedCommand`.
- `Table`, without any of these: one entry for each test that has had a report,
  entries that add up (`Entries`, `Lengths`), and what is still to be added is no
  more than was sent (`Reports`).

`DualModeTimerProofs` proves, for any number of timers, any durations and any
bound on time, and whether or not a stop may be lost, `TypeOK`, `TimersAccounted`,
`BlockedLongEnough` and `EarliestFirst`. The inductive invariant adds
`LaunchedDue` (what was launched was due) and `ReleasedFinished` (a blocked caller
that went on had its callback): a caller goes on because a flag is set, and only
through these two facts does the flag tell anything about the time.
`EarliestFirst` needs `TimersAccounted` too, since `Top` compares the timers of
the queue and the property those that are active.

Before they were proved, the inductive invariants were checked by TLC on the
instances above or smaller ones.

Assumptions are those named in the modules (`HalfAssumption`,
`InputsAssumption`, `ConstantsAssumption`, and those of the constants of the
tests and the timer), which TLC evaluates in every run, and, where said,
`SerialDelivery` and `MatchCallbackFirst`, which are hypotheses of the theorem.

Model-checked only: the liveness properties (`EveryRequestSettled`,
`StopTerminates`, `RepliesEndClient`, `StopEndsClient`, `TestCompletes`, `AllStop`,
`TimersEnd`, `StopEnds`). They rest on fairness, whose definition contains ENABLED,
and are beyond this prover.

## Plan

1. *Done*: calculator, matching, server, client, the abstract service, both
   performance tests, the dual-mode timer, and the theorems above.
2. *Next*: what the proofs make cheap to state and the runs do not ask yet, such
   as that a throughput run without faults has one entry for each size, demand
   and recovery time.
3. *Later*: `RequestReply`, the client composed with redundant servers that are
   instances of `ReplyService`, with the one second settling race; the loan path
   of the performance tests; the delivery-mechanism publisher.

## Not modelled

Text and layout (logging, `TypeConverter`, help), QoS profiles and transports,
the generated types and Fast DDS itself beyond what the listener sees. Signals
after `main` has returned (the handler captures its locals), callbacks after a
constructor has thrown, and the internals of logging inside the handler are left
out. Of the performance tests: dynamic types,
loans, `--echo=false`, the demand and payload files, the export of raw data and
the arithmetic of means and percentiles. `TimerManager` locks its own mutex
twice in the first pass that has a task (`TimerManager.hpp:222`), after which
nothing of it runs.

By lines, nearly all of the repository is not its own: `arm_porting` holds the
installed headers of Fast DDS, Fast CDR, Asio and OpenSSL (several hundred
thousand lines), and the `types` directories what the IDL compiler generates.
Modelling those would mean specifying the libraries from their headers, not the
program, and they enter here only as the environment the applications see. The
rest are independent exercises of a few functions (`primer_plus`, `design_mode`,
`concurrency`, `other/cppstl`). `PROJECT.json` names each part with the reason it
is left out.
