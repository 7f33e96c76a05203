# Redips, formally

TLA+ models of redips, an asynchronous reverse proxy and file server, and of *yasync*, the
event engine under it. The modules are translated from the C++ under `src/src`; paths
below are relative to that directory. `PROJECT.json` lists every run, mutant, mapped
definition, hazard and theorem.

## The system

| part | state | operations | interacts with |
|---|---|---|---|
| work queue (`yasync/yasync/threadsafequeue.hpp`) | list, size, number of threads in `pop`, closed flag | `push`, `pop`, `close`, `currentIdle` | engine workers, all threads that submit or notify |
| engine (`yasync/yasync/engine.*`) | queue of futures, map *future -> awaiter* (`notifications`), worker threads | `execute`, `notify`, `threado`, `wle` | queue (calls), generators (callbacks), outside threads |
| futures and generators (`afuture, agen, anot, future, impls`) | state, result | `resume`, `done`, `set`, `completed`, `running` | driven by the engine, settled by outside threads |
| chaining generators (`engine.hpp` 1-523) | inner future, stage | `resume` | the engine |
| timers (`ticktack.*`) | ordered set of timers, stop flag, worker thread | `start`, `stop`, `shutdown`, callbacks | connection care, health monitor, timeouts, establishment |
| I/O engine, files (`io.*`) | epoll registration, read buffer, tickets | `_read`, `_write`, `cancel`, `wioe`, `Writer` | outside futures of the engine |
| virtual I/O (`iompls.*`) | two buffers, two waiting futures | `_read`, `_write`, end of transmission on destruction | TLS tests |
| sockets (`iosock.*`) | accept loop, connecting sockets | listen, connect, shutdown | I/O engine, main |
| connection care (`main/fiz/preqh.*`) | idle set, shutdown flag | `takeCare`, `shutdown` | timers, HTTP reader, virtual servers |
| health monitor (`main/fiz/helth.*`) | health and connection per endpoint | periodic check, timeouts | timers, balancers |
| establishment (`main/fiz/estconn.*`) | retry count, timeout | connect, retry | timers, sockets |
| virtual servers (`main/virt/*`) | balancer counters, timeout future | `take` | HTTP messages in, response callback out |
| HTTP (`main/http/*`), TLS (`main/ossl/*`), utilities | buffers | read, write, parse | resources |
| configuration, main (`main/config/*`, `exe/main.cpp`) | - | start-up and shutdown order | everything |

What is hard here: the engine's workers hold no lock between reading the state of a future
and registering for it; outside threads set a state first and notify later; futures are
reused; timers are stopped while they fire; the shutdown of main relies on each part
telling the next that it is quiet. No state survives the process, so there is no crash
recovery, and there are no messages to lose other than notifications between threads.

What makes each part correct:

* queue: order, single hand-out, no value left behind while a worker could take it, counters
  that mean what the engine takes them for, nobody left asleep after `close`;
* engine: no lost wake-up, no resume without a result, no two workers in one generator,
  everything submitted finishes, `wle` closes an engine that has really finished;
* timers: each callback once, as a timeout or as a cancellation, nothing after a
  cancellation, no drift, no starvation, a shutdown that ends and settles what is left;
* I/O: a byte that was sent is read once and in order whatever the pieces it comes in, an
  operation is told what it waits for, a cancellation is not lost on the way to the worker,
  every ticket is returned;
* TLS: what one end writes the other reads, in order and to its end, and neither end waits for
  records that sit in the other's buffer;
* listeners: a shutdown closes the socket;
* connection care: the responses are those of the requests, in order, a connection that waits
  is told of the shutdown;
* timeouts, proxy, balancers, establishment, health: one answer per request and the right one,
  bounded tries and attempts, health that follows the last check, nothing left waiting when main
  waits for the resources.

## Modules

`WorkQueue` says what the engine asks of its queue: values in order, each handed out once,
nothing after the queue is shut, and no value left waiting for ever while it is open.

`ThreadSafeQueue` is the queue as written. One action is one critical section: from taking
the mutex to returning or to `cvPop.wait`. `asleep` are the threads blocked in the wait,
`woken` those that were notified, or woke up spuriously, and have not got the mutex back.
`push` is `Push` (notifying only on the step from empty to one), `pop` is `PopBegin` up to its
first wait and `PopResume` after each wake-up, both ending in `Sleep`, `Refuse` or `HandOut`;
`close` is `Close`; `IdleBlock` is the wait of the owner of `*cvIdle`, which `Sleep` notifies.
The operators speak only of the queue's variables so that the engine can use them.

`Yengine` is `engine.cpp` on top of that queue (`Q == INSTANCE ThreadSafeQueue`, `held` being
the worker's `task`). A worker's `pc` is where it is in `threado`: `Threado` the tests at its
top, `Nuke` and `Proceed` the two uses of `notifiDrop`, `Resume` setting Running and entering
the body, `Returned` the switch on the state of what the body returned, `Descend` and
`Register` the two uses of `notifiAdd`. Each read of a state, each write of one and each call
on the map is an action, because no lock covers two of them. `threado` reads the state of a
task up to three times in a row; the model reads it once: an outside future changes its state
only forward between two reads, and the outcome is that of one of the reads. Bodies are
arbitrary within the contract of `IGeneratorT` (`agen.hpp:14-17`): `Body*` actions launch
generators, return a future that is still needed, reuse an outside future, yield or finish.
The outside settles its futures (`Settle`), then notifies (`Notify`), submits (`Submit`) and
ends (`OutsideEnds`). `Wle*` is `wle()`, with the lock it holds from test to wait.

`AwaitGraph` is what the engine promises its generators, with no workers, queue or map:
sequential processes that wait for one thing at a time and go on when it has something for
them. `Yengine` is shown to implement it.

`TickTack` is `ticktack.cpp`: `Take`, `Call`, `Return` and `Again` are one round of the inner
loop, the reads of the atomic `stahp` are `While`, `NextTest` and `Rest`, the wait of 5 ms is
`Wait` and `WaitEnds`. `stop()` is `StopFind` under the lock and `StopCall` after it,
`shutdown()` is `ShutBegin`, `ShutCancel` and `ShutJoin`. Callbacks may call `start` and `stop`
(the thread `Worker` among the callers); a callback called by `stop()` or `shutdown()` that does
so is represented by another caller. Time is a counter that passes at any point.

`FileResource` is `io.cpp` for one descriptor. The generator returned by `_read` or `_write` is
`Submit` (it begins), `Enter` (registration), `Look` (the state of `engif` and `running()`),
`ReadCall` and `WriteCall` (one system call each), `Rearm`; `Check` and `Note` are what the engine
does with the future that it returns. The epoll thread is `EpollWait` (one-shot: `interest`
becomes "off"), `EpollSet` (`engif->completed`) and `EpollNotify` (`engine->notify`), the two
halves of `notify()`; `dangling` is which of them have come to a resource that was gone. `Cancel` is `cancel()`, `Release`
the destructor with the return of the ticket, `Wioe` and `EpollStops` the end of the I/O engine.

`ReadBuffer` are the reads of `io.hpp` on top of `_read`: up to a number of bytes, to a pattern, to
the end, and the peek, as functions of the buffer and of what `_read` returned.

`IOI2Way` is one end of the virtual connection of `iompls.cpp`. `SSLResource` puts the TLS
resource of `ossl/iores.cpp` at both ends of it: the library with its two memory BIOs, reads,
writes, the handshake, the records that are sent before and after each of the library's "wants".

`ConnectionCare` is `preqh.cpp` with the reading of `rr.cpp`, on top of `FileResource` and
`ReadBuffer`: `Idle` and `Begin` are the peek with its timer and its place in the idle set,
`ReadTitle`, `ReadHeaders` and `ReadBody` the continuations of `RR::read` as `takeCare` uses it, for
an `RRaw`: any title is taken, and headers in `Malformed` are refused with a 400. `Take` and `Respond` the
call of the virtual server and its callback, `Written` the `eod` that begins again or lets go.
`Fire` and `FireCancels` are the two timers, `Shut*` the end of main as one connection sees it.

`Listener` is `AListeningSocket` and what main and the Ctrl-C catcher do with listeners.
`Shutdown` and the epoll thread's `EpollSet` complete one and the same `engif`.

`Establish` is `estconn.cpp` with the connecting socket, `HealthMonitor` is `helth.cpp`, and
`Proxying` composes both with one request's way through `timout.cpp`, `prox.cpp` and the balancers
of `loadbal*.hpp`: `Take`, `Sprr` (a try begins), `Pick` (one look at one endpoint), `Conne` (the
factory's result, and `helthBalConnUpd` of main), `Exchange`, `Set` and `Answer` (the future of the
timeout), `TimeOut` and `TimeOutSets` (its timer: the test and the set are two steps). The timers
of main and those of the monitor are two threads; the `Free` of the worker says when it is not in
the middle of a body. `Report`, the result of a connecting socket, is one step where `io.cpp` and
`iosock.cpp` take several (the event, the completion of `redy`, the notification). `OtherRequest` is what concurrent requests do to what they share.

`MC*` are the instances, `*_proofs` the proofs. Definitions whose comment begins "Mutant" are
wrong versions of the definition that follows them; each property has one that breaks it.

## What the runs check

| run | instance | shows |
|---|---|---|
| `queue` | 2 workers, a pusher, main closing and waiting for idleness, 2 values, at most 3 queued | counters, notifications, hand-out and order; implements `WorkQueue` with its liveness |
| `engine` | 1 worker, 3 generators (one launched, one driven and yielding, one awaiting both), 2 outside futures completed or cancelled, one reuse, then `wle` | no lost wake-up, resumes only with a result, nothing abandoned by `wle`, all that is submitted finishes, implements `AwaitGraph` |
| `engine_two_workers` | the same with 2 workers, no reuse | no generator resumed by two workers or after it is done; implements `AwaitGraph` |
| `tls` | two ends, a flight each way, data of two records and of one, end of transmission | nobody waits for records that sit in the other's buffer; order, end and content |
| `connection` | one connection, a request with a body and one with malformed headers, the client pausing after the headers, both timers, the shutdown at any point | bytes, responses, events, cancellations; `wioe` returns |
| `proxying` | round robin, fail-over, fail-robin over 2 endpoints, 2 tries, 2 attempts, one health check, other requests, the shutdown at any point | one answer and the right one; health; every request is answered; nothing is left at `wioe` |
| `ticktack` | 2 timers, one-off or periodic, a caller, callbacks, a clock of 3 instants | once, in phase, cancellation last, shutdown ends and settles, no starvation |

Five runs show the code doing what a comment or a test rules out.

* `engine_lost_wakeup`: with two workers, worker A reads the awaited future as Running, the
  future completes and is notified, worker B takes the notification and finds no awaiter, A
  registers and is never resumed. `test/yaioi.cpp` runs engines of 1, 2 and 4 workers and
  expects its read to complete; main uses one worker, for which the theorem
  `OneWorkerLosesNoWakeup` rules this out.
* `engine_wle_missed`: the worker that goes idle last signals `condWLE` under the mutex of the
  queue, not under `notificationsLock`. Between the test of `wle` and its wait the signal is
  lost and main does not end. This happens with one worker too; a spurious wake-up would end it,
  and none is assumed.
* `ticktack_stop`: `stop()` while the callback of an interval timer runs (the callback's own
  `stop()` included) finds nothing, and the timer is put back.
* `tls_exact`: `SSLResource::_read` goes on at exactly as many bytes as were requested, where
  `io.hpp` promises at least that many: a body with a length over TLS waits for the client to
  send more, or to end.
* `listener_stop`: `shutdown()` of a listener completes `engif` with Close and the epoll thread
  completes it again with Accept before the body looks: the shutdown is lost, `dun` does not
  complete, and main stays in `blawait`.

Models that hold have an exception in them where the code has one, and the exceptions are:

* a cancellation that crosses an event (`WrongEventOnlyAfterCancel`, `EventsFindTheirResource`,
  `CancelIsTaken`): an operation cut short leaves its interest in epoll, so a later operation
  may be told of an event it did not ask for, and an event may come for a resource that is
  gone; an event may replace the cancellation;
* the second half of `notify()`, without any cancellation. `notify()` completes `engif` and then calls
  the engine through members of the resource. `io.cpp` 97 has the generator of the operation
  keep the resource, but that generator may see `engif` completed, end, and with it the connection,
  before the second half. `EpollNotify` does it (`"notify"` in `dangling`): for instance the client ends while
  the worker has yet to register for the first byte of a request. `EventsFindTheirResource`
  speaks of the first half only, and no property excludes this;
* a connection that becomes idle after the shutdown took the idle set (`IdleIsTold`) is not
  told; `preqh.hpp` says of `shutdown()` that it closes idle connections;
* an attempt to connect that sleeps before its retry when the timers are already shut down
  (`Stranded`): its request has no answer and `wioe` waits for ever. `ticktack.shutdown()` comes
  before `wioe` in main, while requests may be on their way;
* a callback of a health timer that is called when its check ends (`ChecksDecide`).

With two workers *and* reused futures `ResumedWithResult` fails too: a worker that has seen an
old notification's future Completed may drop the awaiter that was registered after the reuse.
It is the same missing atomicity; the hazard list names it, and the run with reuse has one worker.

### Bounds

Two workers are enough for every interleaving of two `threado`s, and three generators for an
awaiter with a launched and a driven child; `Rearms = 1` is enough for an old notification to
meet a new registration. `MaxLen = 3` lets the queue be empty, at the notifying size and past
it. Two timers and three instants let one timer be taken, stopped, put back and overtaken.

One connection is enough for `connection`: connections share the worker, on which bodies do not
interleave inside a step, and the idle set, whose elements are independent. The wire has a body
to leave behind, a pattern that ends in the middle of a read (`BufferSize = 4`; `Capacity = 1`, so that
a response takes two writes and the second waits for the client), and a second request, so that `Cuts` makes the client
stop inside the first one; the headers of the second are refused. `Blocking = TRUE`, `Pollable = TRUE` are what accepted sockets are; a
regular file and a non-blocking socket are values of the constants that no run takes. Two
endpoints let one be dead while the other is not, `Retries = 1` and `Shora = 1` let the last try
and the last attempt differ from the first, `MaxChecks = 1` lets one check overlap all of that.
`MaxConnections = 2` connections are more than the one that hides a shutdown.

`MaxTime` also bounds how often a timer is put back, so `StartedIsCalled` says little of a one-off
that interval timers keep waiting. `MaxId` and `MaxTime` are bounds of the model, as are `MaxLen` and `Rearms`; the theorems hold
for every value of them. `MaxQueue` of `Yengine` only completes the instance: the length of the engine's
queue is not limited. Main's engine is reached by `Drained = TRUE`: `wioe()`, called before
`wle()`, waits for the tickets held by the outside's tasks, so none of those is in the queue any
more; without that a task could still be queued when `wle` sees all workers idle, because a
notified worker counts as idle until it has the mutex.

### Assumptions of the environment

One body awaits each future (the map has room for one awaiter). A launched generator is known
to its awaiter only through the launch. A generator that yields is driven by its awaiter. An
outside future is settled once per use and notified after it is settled, as `FileResource`,
`CtrlC_` and the timers' users do.

A client receives what it is sent and in the end goes away; an exchange with an endpoint ends
(the `FIXME` of `helth.cpp` 48 is that nothing sees to it), and so does an attempt of the kernel to
connect. A health check is over before the next interval begins. Descriptors and memory do not
run out. The library's errors and a reset of the raw connection under TLS do not occur.

### Fairness

Workers: strong fairness of each worker's step, because a worker competes with `wle` for
`notificationsLock`, which every holder releases. The outside settles, notifies, submits and
ends; bodies return. The 5 ms wait of the timer thread ends by itself and time passes. The epoll thread, the
timer threads in a callback, main once it shuts down, and virtual servers go on. Nothing is
assumed of spurious wake-ups, of timers firing, of signals, of checks beginning, of anyone calling `push`, `close`, `start` or `stop`, or of the
beginning of a shutdown.

## What is proved

All proofs are checked by TLAPS, for every value of the constants that satisfies the named
assumptions (`QueueAssumption`, `EngineAssumption`, `TickTackAssumption`,
`NoTimerAssumption`, `EstablishAssumption`, `HealthAssumption`, `ProxyingAssumption`,
`FileAssumption`, `CareAssumption`, `WireAssumption`, `SSLAssumption`). All but two of them give
the constants their types. `EngineAssumption` is the contract of generators; `WireAssumption`
says what `EndOf` means: the wire is whole requests (a title, a unit of headers, a body of the length that
they state; of any length if the headers are refused) and then something without an end of headers in it. The theorems about the bytes are
therefore about clients whose requests have one unit of headers; a body is any units.

* `ThreadSafeQueue_proofs`: the inductive invariant `QInv` ties `currentSize` to the list and
  `popw` to the threads inside `pop`, and says that a non-empty open queue has somebody not
  asleep and a closed one has no sleeper. From it `QueueTypeOK`, `QueueCounts`, `NoStrandedValue`,
  `CloseLeavesNobody` and, with a step-by-step simulation, `QueueImplementsWorkQueue`.
* `Yengine_proofs`: `EngineTypeOK` for any number of workers; `OneWorkerLosesNoWakeup` for one
  worker. `NoLostWakeup` is not inductive: whether somebody comes for an awaiter depends on who
  holds the awaited future, on what is queued and on what the map says of others. `WakeupInv`
  adds, in named parts, what a future in the worker's hands looks like (`HeldInv`), what a queued
  one does (`QueuedInv`), that each state has its reason (`StateInv`), whom the map
  names (`MapInv`), what is not yet launched (`FreshInv`) and what bodies still need (`NeedInv`).
  One lemma per action shows that it keeps all of them. With one worker the read of a state
  and the registration after it cannot be separated by the drop of a notification; that is
  where `SingleWorker` is used, and where two workers fail.
* `YengineOneWorker_proofs`, on top of it: `ResumeInv` says what a generator may count on when it
  is resumed. Done is `Completed` (`DoneInv`); what a cancellation threw away stays in nobody's
  hands (`DroppedInv`); who has returned a future waits for it until its next resume
  (`AwaitedInv`); one that was not launched runs for an awaiter in the map (`DrivenInv`), so a
  value that is not its last is on its way to that awaiter (`ValueInv`); a last value somebody
  still needs has not been taken (`NeededInv`); `HandInv` is what the worker holds at each place.
  From it `OneWorkerResumesWithResult` and `OneWorkerResumesAlone`. `OneWorkerAbandonsNothing` adds
  `WleInv`: `popw` counts the one worker exactly while it is inside `pop()`, the queue holds
  nothing of the outside once that has ended, and what `wle()` found when it tested stays so. It
  needs `Drained`, that the tasks of the outside are over when the outside is. From both invariants,
  every step of the engine is a step of `AwaitGraph` or none: `OneWorkerImplementsAwaitGraph`.
* `TickTack_proofs`: a timer is in one place at a time (`Alone`), and whoever has it has not
  called it (`Uncalled`, `Uncancelled`). From that `TickTackTypeOK`, `OneOffCalledOnce` and
  `CancellationIsLast`. `PhaseInv` says what the time of a timer is at each place
  it can be (in the set it is the one of its next call, from its call to its return to the set
  that of its last), which gives `CallsKeepPhase`; `SettleInv` says that a one-off was called or
  somebody has it in hand, and that what `shutdown()` finds is not put back, which gives
  `ShutdownLeavesNobody`.
* `ConnectionCare_proofs`: the care of a connection is a long program, but all it does to its
  resource are the steps of `FileStep` (`NextSteps`), so the invariant `FileInv` is one of the
  resource alone, for any wire, buffer and kind of descriptor. `EventInv` says that there is one
  event at a time (stated in epoll, in the hands of its thread, or in `engif`), only while an
  operation is in flight, and of the kind it asked for; `Undisturbed` that this is so until an
  operation ends on a cancellation; `CancelInv` where a cancellation is until it is seen. From them
  `ConnectionTypeOK`, `EventsAreOnesOwn`, `RegisteredResourceExists` and `CancellationArrives`.
  `IdleOnesAreTold` adds `IdleInv`: a connection that waits for a request is in the idle set until
  the shutdown takes it from there and cancels. It is stated for blocking descriptors, which
  those of `accept()` are: the worker does not come back from a read of one to wait for more, so
  the proof need not know that the event of a peek comes with a byte.
  `AnswersInOrder` is about what is written. Of the bytes a step can only begin a response, push a piece
  of it to the kernel, let the client receive, reset the connection, or do nothing (`Stream`);
  `StreamInv` says that what was pushed and what the write still has are the responses so far, and
  `AnswersInv` that those are the requests so far at each place of the care, with an error only where
  the connection will not stay. That a 400 stands for malformed headers of the next request, and for
  nothing else, needs the position in the wire at which headers are found (`HeadersTaken`):
  `RefusalInv` says so from the refusal to the end of the connection.
  `BytesInOrder` is about what is read. What `readbuff`, the body of `_read` and the kernel hold is,
  in this order, one piece of the wire up to what the client has sent (`Holds`), and it begins
  where the care is in the next request (`PlacedAt`): at its title, behind its first CRLF, behind
  the CRLF CRLF of its headers, behind its body or, if the client ended inside of that, at the end.
  That the search for a pattern stops exactly there, whatever pieces came before, is
  `TitleFound` and `HeadersFound`; that a body is cut short only by the end of the data is
  `Lengthy`, which has to follow the request of `_read` from the headers to the result. The
  invariant holds as long as nothing was lost on purpose (`Intact`): a failed read throws away
  what it has, and the connection is then not read from again.
* `SSLResource_proofs`: the bytes that one end wrote are, in order, the ones the other end took from
  the library and then those in each place between them: the record that is
  decrypted in part, its incoming BIO, the raw read, the buffer of the virtual connection, the raw
  write, the outgoing BIO (`FlowInv`). Each step moves bytes from one place to a neighbour, takes
  at one end, or adds at the other, so the concatenation changes only at its ends. `NoData` says that
  the outgoing BIO has no data when control leaves the library, `RawInv` what a raw
  read or write under way holds, and `EndInv` that an end that sees the end of the data has seen
  the other go. From them `NothingIsLost`, `WritesAreOut` and `TheEndIsTheEnd`, for every pair of
  programs, number of flights and size of buffer.
* `SequenceFacts`: what flattening does to a concatenation, how concatenations are regrouped and
  divided, and what the parts of a sequence between two places are. `FlattenSeq` is a recursive function, and
  the induction theorems of the library take an operator, which the provers cannot be given; the
  lemmas use the least element of a set of numbers instead.
* `Proxying_proofs`: the invariant is that of the attempt to connect, of the monitor
  (`EndpointInv`: what a check that is over has told, what its timers may still do), and of the
  request (`TriesInv`: how many tries each stage has behind it, `FoundInv`: what a round of the
  balancer has looked at, `AnswerInv`: who answers when `hwar` is what it is). From it
  `TypeCorrectness`, `AnswersAreRight`, `ChecksAreFinal`, for every balancer.

Only model-checked: everything about liveness (`SubmittedFinishes`, `StartedIsCalled`, `ShutdownEnds`,
`ExchangeCompletes`, `WioeReturns`, `Answered`, `Settles`, the fairness of `WorkQueue` and so
`ImplementsWorkQueue` as a whole, of which `QueueImplementsWorkQueue` proves the steps), which the prover does not reach;
what holds of an engine with two workers, its implementation of `AwaitGraph` included; and the runs
that show a disagreement, `Listener` and `ReadsAtLeast` among them.

## Plan

1. `ResumedAlone`, and the implementation of `AwaitGraph`, for any number of workers as long as no
   outside future is reused.
2. `TimerPromise`, an abstract specification that `TickTack` implements for one-offs; the modules
   that use timers say the same of them today in their own `Fire` and `Call`.
3. The chaining, exploding and imploding generators of `engine.hpp` 46-449 against the lists they
   should yield, and `lambdagen`.
4. Algorithms over bounded inputs: the grammar of `readTitle` and `readHeaders`, the chunked reader
   of `strim.hpp`, hop-by-hop and forwarding headers, host resolution and routing, Base64.

## Not modelled

The vendored JSON library (four fifths of the lines of the repository), configuration parsing,
error texts, stack traces, result types and the Windows branches (`_WIN32`) have no behaviour of
interest here. The memory order of the plain (non-atomic) fields of futures is below the model:
reads and writes are atomic steps, and where the code has a data race (`timout.cpp` 19,
`helth.cpp` 45, `iompls.cpp` 47) the hazard list says so. A resource that the epoll thread calls
after it was destroyed (see above) finds what was there, or something that notifies nobody: either
choice of `EpollNotify`.

Not modelled of what the modules are about: several connections and the blocking reads by which
one can hold up the others; the exhaustion of descriptors in the accept loop; regular files
(after their first operation `epoll_ctl` refuses to re-arm them; `Rearm` says so, no run takes it)
and the failing `open` whose error is dropped (`io.cpp` 475-478); `flush()` of a `Writer` before its
end; a body that ends before its length (`rr.cpp` 45 takes what has come); the choice of a
certificate and of a virtual host; the static file server, basic authentication and header
rewriting; the monitor's own establishment of a connection going to sleep after its timers were shut
down, and what becomes of checks then (`Settles` speaks of requests and attempts); `PooledProxyingServer`, `RandomBalancer` and `IteratingGenerator`, which nothing uses.
