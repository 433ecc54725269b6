# A TLA+ model of Reproducepython

The repository holds two independent Python programs:

* `src/zmq-reply-reproducer/`: a ZeroMQ ROUTER **broker** and a DEALER
  **worker** that reconnects between receiving a job and answering it, with
  harnesses that run the pair under many configurations and sort each run into
  a *transport case* (was the RESULT sent, received, accepted, acknowledged?).
* `src/mangadex-martial-peak/`: a downloader of comic chapters that resumes,
  decides which chapters are complete and packs them into zip files.

This directory models both: the broker with its two threads, the worker, the two
sockets between them, one run of the pair and its classification, a launch of
each harness with its reports and its trace session, the frames two threads may
mix on one socket, the socket monitor, and the chapter downloader.

## 1. Inventory

### 1.1 Broker (`broker.py`)

*State.*  `_workers` (routing id → `WorkerRecord`), `_workers_by_id` (worker id
→ `WorkerRecord`), `_jobs`, `_expired_workers`, `stats`, `_result_handled`,
`_stop`, two counters of changes.  Each record has a state (`READY`, `BUSY`,
`EXPIRED`, `REMOVED`, `RECONNECTED`), a session, a route, a current job and a
last-heartbeat time.

*Operations.*  `_handle_ready`, `_handle_heartbeat`, `_handle_result` (strict or
job-id policy), `_dispatch_job`, `_expire_stale_workers`, `_heartbeat_loop`,
`run_once`, `run_forever`, `_finalize_transport_case`, `shutdown`.

*Interactions.*  Messages with workers on one ROUTER socket.  The main thread
and the heartbeat thread share every dictionary and the socket **without a
lock**.

*What is hard.*  Both threads run `_expire_stale_workers`; a `del` in one races
with a lookup, an insertion or a `del` in the other.  Deadlines pass while a
handler runs.  A worker changes session and routing id under a job.

*What makes it correct.*  An expired record is gone; the two dictionaries agree,
and an acknowledged worker is registered, unless a `del` meant for an older record
of the worker took the newer one; at most one job is dispatched per run; an
acknowledged result is completed and never refused; the verdict of the run is
what happened; under `strict` nobody but the session that was given the job
completes it; `run_once` ends; a silent worker leaves.

### 1.2 Worker (`worker.py`)

*State.*  The socket with its generation and session id, statistics, the current
job, the threads' events.  *Operations.*  connect, light and full reconnect,
READY handshake, blocking execution, six post-job strategies, RESULT and the
wait for its ack, in a blocking mode and a separate-thread mode.
*Hard.*  What arrives in which order after a reconnect, waits with timeouts, a
socket replaced while another function still polls the old one.  *Correct when*
the RESULT is sent at most once per job, with the session the strategy promises,
and every wait ends.  *Shared.*  In separate mode `run()` waits on the statistics
the network thread writes and closes the socket that thread uses.

### 1.3 Transport (ZeroMQ, as `worker.py` and `config.py` configure it)

External.  A pipe per connection, buffered on both sides, dropped with `linger=0`;
a ROUTER that refuses a second pipe of one identity; `IMMEDIATE` and
`SNDTIMEO`, which make a send to no peer block.  *Correct when* the program's
statistics of what was sent agree with what the peer can have received.

### 1.4 Protocol messages (`protocol.py`)

Six message types, encoded as frames; `from_frames` raises on malformed input.
The two broker threads may interleave the frames of two sends.

### 1.5 Timeline and transport cases (`timeline.py`)

Pure functions: `classify_transport_case`, `build_campaign_report`; a collector
of events.  *Correct when* the case is a function of the facts and the report
counts each run once, under its own case.

### 1.6 Harnesses (`run_scenarios.py`, `run_campaign.py`, `run_combinations.py`)

They start a broker thread and a worker, join them, and build a verdict from both
statistics.  *Hard.*  The order of joins, overrides of the case, the
worker's view against the broker's.

### 1.7 Trace store, socket monitor, investigation, logging

`trace_store.py` and `list_traces.py` lay out directories and an index;
`socket_monitor.py` decodes and logs libzmq events in a thread of its own;
`investigation.py`, `logging_setup.py` and `payload_utils.py` only write logs or
payload bytes.

### 1.8 MangaDex (`mdx_common.py`, `download_chapter.py`, `download_batch.py`)

*State* is the file system: pages, `meta.json`, zip files, temporary zips.
*Hard.*  Crashes in the middle of a page, of `meta.json`, between writing a zip and
moving it into place; completeness decided by counting files, while the list of
pages, and the extension of one, may change between runs.  *Correct when* a
chapter reported complete has all its pages, and any crash leaves a chapter that
a later run completes.

## 2. Modules

| Modules | Subject | Composed of |
|---------|---------|-------------|
| `Broker` | the broker: two threads, expiry, policies, dispatch, verdict; its peers are an environment | |
| `ReplyContract`, `BrokerContract` | what the broker promises of a job; `KeepsContract` says the broker implements it | `Broker`, `ReplyContract` by `INSTANCE ... WITH` |
| `Transport` | the DEALER's connections and the ROUTER (external) | |
| `Worker` | one `Worker.run()` in either threading mode | `Transport` |
| `TransportCase` | how the two harnesses and the report classify a run | |
| `Reproducer` | one run: broker, worker, sockets, harness; `ImplementsBroker` says it is a behaviour of `Broker` | `Broker`, `Worker`, `TransportCase` |
| `TraceArchive` | the files of one trace session | |
| `Campaign` | one launch of a harness: its runs, tables, report and trace session | `TransportCase`, `TraceArchive` |
| `RouterFrames` | the frames of unlocked sends and the decoder | |
| `SocketMonitor` | the monitor's thread around a full reconnect | |
| `Chapter` | the chapter downloader, run again and again | |
| `BrokerProofs`, `BrokerSafety`, `BrokerVerdict` | proofs about `Broker`: its types, its registry and acknowledgements, its verdict and `KeepsContract` | |
| `ReproducerProofs` | proofs about `Reproducer`: the refinement of `Broker`, and what a whole run promises | what the three modules above prove |
| `RouterFramesProofs`, `SocketMonitorProofs`, `ChapterProofs`, `CampaignProofs` | proofs about the module they are named after | |
| `MCBroker`, `MCReproducer`, `MCCampaign`, `MCRouterFrames`, `MCSocketMonitor`, `MCChapter` | instances for TLC | |

The layers meet in three places, each with a check of its own.
`Broker` assumes what its peers may send; `ImplementsBroker` checks that a worker
of `worker.py` sends nothing else, so what is proved of `Broker` holds of the
reproducer.  `Campaign` takes the facts of a run from `PossibleFacts`;
`FactsArePossible` checks that a run reports no others.  `KeepsContract` reduces
the broker to one verdict per job.

Next: what is left to TLC is liveness (section 5.4), and the bound on the queues in
`SysTypeOK`.

## 3. Correspondence with the code

### 3.1 `Broker`

| Code | Model |
|------|-------|
| `WorkerRecord` object | a session id; `rec[s]` holds its route, state and job. `worker.py` sends READY once per session, so `is worker` is equality of sessions. |
| `_workers`, `_workers_by_id` | functions to a session or `None` |
| `JobRecord` | `jobs[j]`, with the session it was assigned to and three flags |
| `time.time() - last_heartbeat > worker_timeout` | `s \in lapsed`; `Lapse(s)` puts it there at any time, READY and a heartbeat take it out |
| deadlines of `run_once` | `passed`; `DeadlinePasses(d)` at any time (for the grace period: once the result is handled) |
| position in the code of each thread | `pc[t]`, with `todo[t]` for the `list(...)` snapshot and `cur[t]` for the loop variable |
| `stats` | the fields the verdict and the reports read |
| messages put on the socket | the history `sent`, read only by the environment and by properties |

One action stands for the code between two points at which the other thread can
see or change what it uses.  `_expire_stale_workers` is cut at each effect:
the snapshot, the age check of one record, the EXPIRED transition with its
append, the REMOVED transition, the `del` by routing id, the `is worker` test,
the `del` by worker id.  CPython may switch threads at each of them; a handler of
the main thread is cut where its reads and its writes of a shared record lie
apart: `HandleReady`/`RegisterId`/`AckReady`, `HandleHeartbeat`/`Refresh`,
`HandleResult`/`DecideResult`/`SettleWorker`/`AckResult`,
`PickWorker`/`Assign`/`SendJob`.  The first of these, `HandleReady`, holds a read of
the record a READY replaces (`broker.py` 254) and its use (291): expiry steps that
come between the two commute with it, and whether the replaced record had left the
registry by then is told by counters only, which are not modelled.  A `del` of a missing key sends its thread to
`dead`, as `KeyError` does; for the main thread `Shutdown` follows, the
`finally` clause of the callers.

The age check compares with a `now` read once, before the snapshot.  A record
refreshed between `now` and the check looks younger, never older, so a
check at a later time than `now` adds no behaviour that a later `Lapse` does not.

#### Its environment

`ReadyArrives`, `HeartbeatArrives` and `ResultArrives` allow what `worker.py` can
send: READY once per session, a worker's sessions in the order of `Generation`;
an echo only to a HEARTBEAT sent on that route; one RESULT to a JOB, from the
session the worker is in by then, which may be the session of the JOB or a later
one, with or without its READY.  The instance chooses on which routing ids a
session's messages arrive (`RoutesOf`).  Every harness gives its worker the identity
`worker-{port}` (`run_scenarios.py` 223, `run_campaign.py` 170), so in the runs all
sessions of a worker have one routing id; the proofs are for any `RoutesOf`, and the
branch that moves a record to a new routing id (`RECONNECTED`), which a fixed identity
never takes, is kept in the model.  Messages may be lost (nothing obliges one to
arrive), and RESULTs and READYs of different sessions arrive in any
order their generations allow.

Sends of the broker are atomic and succeed.  The broker never sets
`ROUTER_MANDATORY`, and a ROUTER without it drops a message for a peer that is
gone or whose queue is full without an error, so `_send_to_worker` reports
success either way.  With it `result_ack_sent` follows every acceptance, and the
`CASE3_ACCEPTED_ACK_LOST` branch of `_finalize_transport_case`, though modelled,
is not reached on the broker's side; whether a message really arrives is
`Transport`'s to say.  The socket is shared by both threads; `RouterFrames` looks at
what that does to the frames.

#### What it promises

`ReplyContract` knows jobs only: one is opened at most, it gets one verdict, an
acknowledgement follows an acceptance and nothing else, and the run is reported
once, as what happened to the job, after the acknowledgement.  `BrokerContract`
reads the verdict off the `JobRecord`, the acknowledgements off the socket and the
report off the transport case `run_once` returns.  Steps of sessions, heartbeats
and expiry are stutters.

### 3.2 `Transport`

External.  A connection has a queue each way and a state as the ROUTER sees it.
From `config.py` and the two socket classes: LINGER is 0, so a closing socket loses
what it has not handed over (any suffix of the queue); ROUTER_HANDOVER is not set,
so a connection whose identity is still held is refused while the worker sees it
work; a ROUTER drops what it cannot route; IMMEDIATE leaves a send without a queue
before the handshake.  A reconnect of either kind is a second connection; a run has
two at most.  A HEARTBEAT is not queued again while the same one waits (bound).
Links do not break by themselves: nothing in `src/` breaks one.

### 3.3 `Worker`

| Code | Model |
|------|-------|
| `WorkerConfig`, `ZmqSocketOptions` | `config`, a record that never changes in a run: strategy, reconnect mode, threading mode, echo, send mode, IMMEDIATE |
| the network side's position | `net`; in blocking mode it is the whole run, in separate mode the network thread |
| `_result_queue` and the job thread | `job_thread` |
| `_run_separate_job_thread` and `run()` | `caller`; its 60 s and the join's 5 s end at any moment |
| `session_id` | `SessionOf[socket_generation]` |
| `WorkerStats` | the fields the harness reads, the job, and how a session was validated |

Each wait is two actions: a message it takes, and its deadline, at any moment.
`PollReceives` needs `Polled`: the poller was given the first socket and is never
given another.  `SendResult` is the send and `RecordSend` the statistics that keep
whether it succeeded, a step later: the broker may have read, decided and acknowledged
the RESULT in between, and in separate mode `run()` may have returned.  `Return` closes
the socket under whatever the network thread is doing; `UsesClosedSocket` is the
assertion that then ends that thread.

### 3.4 `Reproducer`

The handlers of `Broker` are given the message at the head of a connection in place
of the environment's; what the broker sends is routed to the connections.
`Collect` waits for both sides and classifies, as `run_single_scenario` does after
the join.  A scenario is drawn from `Configs`.

### 3.5 `TransportCase` and `Campaign`

`Classify`, `Override` and the campaign's correction are the functions of the three
files, over the six facts they read.  A launch is of one harness: `run_campaign`
draws its scenarios, `run_scenarios` repeats each in turn, `run_combinations`
repeats one.  Every run ends with any of `PossibleFacts`, or raises, and the launch
may be killed anywhere.  The outcome is appended to the lists the tables are counted
from, and the run's directory written in two steps; `BuildCampaignReport` classifies
every outcome again, in place; `Finalize` writes `session.json` and then
`outcomes.json`, each torn until written.  The combinations end without it.  The run
is counted in the lists at the step that writes `run.json`; the code appends a little
later, which only a launch that dies in between could tell, and that launch makes no
table.

### 3.6 `RouterFrames`

Below the atomic sends of `Broker`: a thread gives the ROUTER its routing id, type
and body frames one by one, and another thread's frame may come between any two.
Outside a message the ROUTER takes a frame for a routing id, and one that names
nobody swallows its message.  The worker's `from_frames` takes a first frame that is a
type and a second that is a body, and raises otherwise, which ends the worker.  Two
threads in one socket are undefined behaviour for libzmq; the model allows any order
of whole frames and nothing worse.

### 3.7 `SocketMonitor`

The owner around full reconnects and at the end of the run (stop, join, close, new
generation, new socket, new monitor), and the thread of each monitor: `thread[g]` is
that of the socket of generation `g`.  The join sees the thread end (`Joined`) or gives up
after its two seconds (`JoinExpires`), and the owner goes on either way; a thread left
behind reports the event it holds, under the generation it finds by then, and ends when it
comes back to the closed PAIR (`PairGone`).  Only the blocking loop takes the count
before it stops the monitor (`TakeCount`).  libzmq's event frame is external: 16 bits
of event and 32 of value, little-endian; `Decode` takes the whole frame for the event,
as the code does.

### 3.8 `Chapter`

The directory is four variables: `meta` (`meta.json`), `files` (pages), `zip` and
`part` (`.zip.part`).  A file is torn from its `open` to the end of its write.
A page file has an index, the extension of the name MangaDex listed for it, and whether
it is whole; `PagesOf` are those `iter_page_files` counts.  `Lists` is what MangaDex may
list for a chapter, an extension a page: the list may be another at each visit, longer or
shorter, with another extension for a page, with one that does not count (`.gif`), or
empty, which `read_expected_pages` takes for no `meta.json`.  The history `mixed` has the
chapters of which a page ever came under two extensions or under one that does not count.

`Start` picks a command line (one chapter, or a batch with its flags).  A call to
MangaDex or a write may fail inside the `try` of the batch (`Fails`), the zip of a
directory found complete may fail outside it (`ZipFails`), and a run may be killed at any
step; the next run knows the disk and nothing else.  A run that cannot fetch the list of
chapters does nothing, so `Start` stands for one that could.  A dry run counts a chapter
as "ok" without a zip, and so does a download whose list was empty or had a page that
does not count: `DoneIsReady` says what "ok" is worth, and of which chapters.

## 4. Runs

| Run | Instance | Shows |
|-----|----------|-------|
| `BrokerShared` | `run_once`, strict; one worker, two sessions on one routing id, two job ids | an expired record leaves the registry though two threads expire it; one dispatch; a RESULT_ACK is true; a job is completed only by its session; the contract; `run_once` ends |
| `BrokerReconnect` | `run_once`, job-id; one worker, two sessions on its one routing id | an acknowledged session stays registered and the dictionaries agree on it, unless an earlier record of the worker is expired; a thread dies of `KeyError` only if two expiries of one worker crossed; every RESULT that arrives succeeds |
| `BrokerForever` | `run_forever`, two workers | a silent record leaves, a registered one is sent heartbeats, whatever thread has died |
| `ReproHeartbeat` | strict; blocking mode, full reconnect that waits for a HEARTBEAT, echo on | no HEARTBEAT of the new session can exist; the harness writes down what happened; the run ends |
| `ReproReadyAck` | job-id; READY again in full, or a light reconnect with echo | the refinement of `Broker`; a result sent on an acknowledged connection is safe; the facts fit together; only a HEARTBEAT can come before the JOB |
| `ReproSeparate` | job-id; separate mode, light with failing sends and IMMEDIATE, or full | the case is what happened; after a full reconnect no run succeeds; an ack is true; a BUSY record's job is open; the facts fit together although the send is recorded a step after it |
| `CampaignReports` | each harness, three runs per scenario | the second classification changes no case; report, table and tally agree; a listed session is whole |
| `ChapterBatch` | two chapters, four lists for one of them, five command lines, one kill, one failure | a zip has the pages it counts and never shrinks, unless the directory is mixed; "skipped" is ready, and so is "ok" of a list that counts; `--continue-on-error` stops only at a torn `meta.json` or a zip that fails outside the `try`; resuming converges |
| `FramesMixed` | two threads, one worker, three sends each | what is decoded is one message; a send nobody overlaps arrives |
| `MonitorReports` | two full reconnects, three events, joins that may expire | the name reported is the event's; the generation too, but for the one event that a monitor whose join expired still held |

Two runs end in a counterexample, each against a sentence of the documentation:

| Run | The code | The text |
|-----|----------|----------|
| `BrokerExpiredRevives` | the main thread takes a record just marked EXPIRED or REMOVED back to BUSY or READY, and may send it a JOB | `zmq-reply-reproducer/README.md` 201: EXPIRED is the end |
| `ChapterTornPage` | a page cut short by a kill exists, so the next run keeps, zips and counts it | `mangadex-martial-peak/README.md` 44: runs resume |

### 4.1 Bounds, and why they are enough

* *Sessions, workers, job ids: two.*  A race over a routing id or a worker id needs an
  old record and a new one, or two workers; a third repeats the second's part.  A
  second job id makes a double dispatch visible.  A run of the reproducer has one
  worker, which makes at most one new session, and one job.
* *`MaxLapsed` = 1* (`Reproducer` only): one record at a time may be older than the
  timeout.  `Broker`'s own runs have no such bound.
* *One copy of the same HEARTBEAT per queue.*  The worker's reaction to the second of
  two equal HEARTBEATs in a row is that to the first.
* *`Runs` = 3*: a case, a different one, and a repetition within one scenario.
* *`MaxKills`, `MaxErrors` = 1* for a whole behaviour; the number of runs of the
  downloader is not bounded.  Lists of none, one and two pages, with two extensions that
  count and one that does not, make every kind of partial and of mixed directory; a third
  page repeats the second.
* *`MaxSends` = 3* per thread: a garbled send, one after it, and one more to see that
  the confusion ends.  One worker, as the harnesses run: with more, a frame that
  lands in another worker's message is not covered.
* *`MaxReconnects` = 2, `MaxEvents` = 3* of the monitor: an event of a socket that is
  being replaced, and one of the next.

`CHECK_DEADLOCK FALSE` is set where the program stops: a broker that has shut down, a
run that has been classified, a launch that is over, a bounded number of sends or
events.  The downloader can always be started again, so its runs check deadlock.

### 4.2 Time

No clock is modelled.  A record may become too old at any moment after its last
message, and every wait may end at its deadline at any moment.  What the model says
holds for all intervals and durations, and it says nothing of what a given
heartbeat interval makes likely.

### 4.3 Fairness

`Broker!FairSpec` assumes that the operating system runs each of the two threads and
that the two deadlines of `run_once` come.  Every loop of both threads has a bounded
poll or wait, so neither depends on a peer to move on.  Nothing is assumed of peers,
of `Lapse` or of Ctrl-C.  `PollTimeout` is enabled at each poll, so weak fairness of
the main thread does not by itself end `run_once`: the deadline does.

`SysFairSpec` assumes in addition that a connection completes and is forgotten, that
what has arrived on a connection is read, that the worker's run, its job and its
caller go on, and (`WaitsEnd`) that a wait with a deadline ends although messages keep
coming, as `time.monotonic() < deadline` has it.

`Chapter!FairSpec` assumes only that a run goes on.  `EventuallyZipped` is therefore
conditional on the chapter being downloaded again and again, and rests on the
failures being finitely many (`MaxErrors`).

## 5. Proofs

Every theorem below is proved for every value of the constants the modules'
assumptions admit, with no bound of section 4.1 but those the modules have as
constants.  A hypothesis of its own is named in the theorem as a definition on
constants, and an instance of section 4 satisfies it.

| Module | Theorems |
|--------|----------|
| `BrokerProofs` | `TypeOKHolds` |
| `BrokerSafety` | `StrictSameSessionHolds`, `AckIsTrueHolds`, `OneDispatchHolds`, `ExpiredLeavesRegistryHolds`, `DeathIsDoubleExpiryHolds`, `AckedIsRegisteredHolds`, `RegistriesAgreeHolds` |
| `BrokerVerdict` | `VerdictIsTruthHolds`, `JobIdRepairsHolds`, `KeepsContractHolds`, `BusyHoldsOpenJobHolds` |
| `ReproducerProofs` | `RunInvariant`, `ImplementsBrokerHolds`, `AckEndToEndHolds`, `FactsArePossibleHolds`, `OutcomeIsTruthHolds`, `NewSessionUnheardHolds`, `SeparateFullNeverSucceedsHolds`, `OnlyHeartbeatOvertakesJobHolds`, `SecuredResultIsSafeHolds` |
| `RouterFramesProofs` | `DecodedIsIntactHolds`, `AloneArrivesHolds` |
| `SocketMonitorProofs` | `GenerationIsTrueHolds`, `NameIsTrueHolds` |
| `ChapterProofs` | `ChapterTypeCorrect`, `DoneIsReadyHolds`, `StopsOnlyOutsideTryHolds`, `ZipHasEveryPageHolds`, `ZipNeverShrinksHolds` |
| `CampaignProofs` | `ReportKeepsCaseHolds`, `ListedIsWholeHolds`, `TallyAgreesHolds`, `ReportAddsUpHolds`, `TablesAgreeHolds` |

### 5.1 The broker

The assumptions are those of `Broker.tla`: `PeerAssumption` (ownership functions
have their types), `ConfigAssumption` and `NoneAssumption` (`None` is not a
session, a job, a message, a job record or a reject reason).

`TypeOK` is not inductive: `DeleteRoute` uses `cur[t]` as a record, `SendJob` uses
`rec[worker].route` as a route, and both are `None` in states that `TypeOK` admits.
The inductive invariant `TInv` adds `RecordsExist` (what a dictionary, a snapshot or
a local leads to was created by a READY and has a route) and `LocalsSet` (a place
of the code that reads a local is reached with the local set).  There is one lemma
per process (`ExpireTInv`, `HeartbeatTInv`, `MainTInv`, `ArrivalTInv`,
`PassageTInv`) with one case per action, and a few about the updates they share.

The others are proved from invariants that are inductive relative to `TInv`:

| Theorem | Invariant | Why it is needed |
|---------|-----------|------------------|
| `StrictSameSessionHolds` | `JobLink`: a record's job is a job sent to its session | the strict policy compares the message with the record, never with the job |
| `AckIsTrueHolds` | `OneDecision` (with `JobLink`): until the one RESULT has its verdict no job is refused and no ack is sent; from an acceptance to its ack, and after it, the job stays completed and unrefused | the ack is sent two steps after the decision, with the heartbeat thread in between |
| `OneDispatchHolds` | `DispatchOnce`: from the choice of a worker to the send, `job_sent` is false and the job record names the local `worker` | the job id is read back from the statistics when it is sent |
| `ExpiredLeavesRegistryHolds` | `ExpiryUnderWay`: a record is registered under its own route only; a thread outside the expiry has no `cur`; past the `del` its record is unregistered | two threads may have the same `cur`, and one may die there |
| `DeathIsDoubleExpiryHolds` | `ExpiriesCounted`: a thread past the append accounts for an entry of `_expired_workers`, two of them for two; a dictionary entry that was deleted was deleted by one of them | a `KeyError` is an entry another expiry took away first |
| `AckedIsRegisteredHolds` | `InOrder`: a worker's sessions get their records in order; `AckedStays`: the latest one is registered under its routing id until it, or an earlier one of the worker, is expired | what takes a record out of `_workers` is the `del` of some expiry of its worker, or a READY of a later session |
| `RegistriesAgreeHolds` | `InStep` (with these two): on the latest record the two dictionaries differ only by what a thread is about to do, or after an expiry of the worker | each thread updates them one after the other |
| `BusyHoldsOpenJobHolds` | `BusyInv`: the record found for the RESULT is the one its job was sent to, unless that one has left the registry | the record is looked up by routing id, two steps before it is freed |
| `VerdictIsTruthHolds`, `JobIdRepairsHolds` | `Outcome`: no RESULT yet, or the decision is under way, or the one job was accepted, or it was refused, each with the flags, the acks and the place of the main thread that go with it | the report is computed from four flags of `stats`, which are set at three places |

Four need to know which routing ids sessions have.  `DeathIsDoubleExpiry`,
`AckedIsRegistered` and `RegistriesAgree` need `RoutesOfOneWorker`: no two workers share
a routing id, as the identity `worker-{port}` of the harnesses has it.  How many sessions a
worker goes through, and whether they share a routing id, is left open.  The last two
speak of the latest record of a worker, and except the case of an earlier one that
was expired (`Crossed`): the `del` by routing id (`broker.py` 249), or the `get` and `del`
by worker id (250-251), of the old record may then take the new one (section 6).
`BusyHoldsOpenJob` needs `KeepsRoute` under job-id (all sessions of a worker have one
routing id, as the harnesses have it), and nothing under `strict`; without either it is
false, since a RESULT on a new routing id completes the job and frees nobody.

`KeepsContractHolds` is the refinement, step by step.  `StepKinds` sorts the steps
of `Next` into those that change neither a verdict nor what it is read from (`Quiet`,
which are stutters of `ReplyContract`) and the four that do: `Assign` opens the job,
`DecideResult` gives the verdict, `AckResult` sends the acknowledgement, `Finalize`
reports.  `VInv` (`TInv`, `DispatchOnce`, `Outcome` and `OpenedOnce`) gives each the guard
the contract asks for.

### 5.2 A whole run

`ReproducerProofs` adds the worker, the sockets and the harness.  Besides `OneRun` (the
scenarios, a run of `run_once`) it uses one assumption on the instance, `OneWorker`: the
worker's two sessions are the first ones of its worker id, and `RoutesOf` names the
routing ids of its connections.  TLC evaluates it in the three runs of the reproducer.

*The refinement.*  `ImplementsBroker` asks of each message the broker reads what
`Broker` lets a worker send: a READY of a session not heard of before, an echo of a
HEARTBEAT that was sent on that route, one RESULT to a JOB that was sent.  This is a claim
on what is still in the sockets, so `PeerInv` says it of every message on its way
(`UpInv`: what is sent is `Sendable`, nothing is there twice, and a session the worker has
yet to announce is `Fresh`), of what comes back (`DownInv`: only what the broker
sent, on the connection it was sent to), of which sessions the broker knows
(`KnownInv`) and of where the worker is with its job (`ControlInv`: a result is of a job it has, a
blocking run does not return in the middle of one, and it keeps its first connection until it is through with the job).  Connections that drop
their queues, are refused or are forgotten only shorten queues (`QueuesShrink`), which
keeps all of it.  With the refinement proved, the invariants of `Broker` are invariants of
the run.

*The run.*  `RunInv` adds to it what links the two ends: `AckInv` (the acks and the decision
under way are of the worker's job), `SentInv` (what was read was sent, as the worker
reports or is about to; no ack is read before it does), `EndedInv` (a main thread that died left no acceptance unacknowledged) and `OutcomeInv`
(what the harness wrote down is what both ends still say).  `AckEndToEnd`,
`FactsArePossible` and `OutcomeIsTruth` follow.

*The strategies.*  `StrategyInv` adds what a strategy never does: `HeardInv` (the second
session is unheard of unless the strategy announces it), `FullInv` (after a full
reconnect the network thread polls a socket no ack comes to) and `ReturnedInv` (the caller
gives up on a thread that has begun).

*The handshake.*  `OnlyHeartbeatOvertakesJob` rests on `HandshakeInv`: until the worker has
its job, its READY is one token, on its way to the broker, being answered there, or on its
way back as the one READY_ACK; a blocking worker that asks for its job holds the token
itself.  A RESULT_ACK cannot come either, since one is sent only once a RESULT was read
(`AckInv`), and the broker sends nothing else (`SentKinds`).

*The secured connection.*  `SecuredResultIsSafe` rests on `LinkInv` (only a connection the
ROUTER took has messages for the worker, so the one a READY_ACK is read from is not a
refused one), `TurnInv` (no session is acknowledged before it is in use, and the RESULT
is sent once, after the handshake) and `SecuredInv`: while both sockets are open such a
connection stays attached, and the RESULT stays in its queue until it is read.  Whether the
RESULT has left is `HasSent`: the statistics say so, or will at the next step.

### 5.3 The other components

* *Frames.*  `DecodedIsIntact` rests on `FramesInv`: either a send was overlapped and
  the worker is sent something it cannot read (`Garbled`), or the ROUTER is where the one
  thread that is sending believes it to be (`Phases`).  It is proved for one worker (`OneWorker`), for any number of threads and sends; with
  more workers a frame that names another of them would start a message of its own,
  which the model leaves out (section 7).  `AloneArrives` needs no hypothesis:
  `AlonePhases` follows the frames of a send that nobody overlaps from the ROUTER to the
  worker.
* *Socket monitor.*  `MInv` says which monitors may have a thread: the current one, and
  those whose join expired (`ThreadOut`); that a thread holds an event of its own socket
  (`EventsAreOwn`), packed with its value (`EventsArePacked`); and of what was reported
  (`TimelineIsTrue`) that a thread which has put an event under a later generation holds
  none again, since its PAIR was closed before the generation changed.
* *Chapter.*  `ChapterInv` carries what a run knows from the call that made it true to the
  step that relies on it, across the pages in between: `Fetched` (the pages listed up to the
  current one are there, and `meta.json` counts the list), `GoodIsValid` (a verdict that
  counts was reached on a zip that is still there) and `Tried` (which chapters of a batch
  are behind).  `Shelves`: where a chapter is not `mixed`, a directory or a zip holds the
  pages 1..k, one file each, so that their number tells which they are.  The theorems have no
  hypothesis on the lists: `ZipHasEveryPage` and the second half of `ZipNeverShrinks` are
  about the chapters that are not mixed, `DoneIsReady` of an "ok" about lists that count.
* *Campaign.*  The tables and the report are sums over scenarios, cases and runs.
  That two ways to count agree would be an induction over finite sets; the library's
  induction theorems take an operator, so `CampaignProofs` takes a set for which the
  claim fails with the fewest elements (well-foundedness of strict inclusion, a fact
  without parameters) and removes one element from it.  `RecordInvariance` and
  `ReportInvariance` then relate the lists, the classified outcomes and the report.

The assumptions are `ChapterAssumption` (a plan is a non-empty list of
chapters, a list of pages is shorter than the 1000 that names of three digits allow),
`CampaignAssumption` (finitely many strategies and scenarios, two reconnect modes),
`FramesAssumption` (`None` is no worker) and those on the monitor's bounds.

Each invariant was checked by TLC on the instances of the runs before it was proved.

### 5.4 Model-checked only

Liveness (`RunOnceEnds`, `LapsedLeaves`, `BeatReaches`, `RunEnds`, `EventuallyZipped`):
temporal reasoning under fairness, and `ENABLED`, are out of this prover's reach.
Every safety property that a run checks has a theorem; of the type invariants,
those of `Broker` and `Chapter` are proved as they stand, the one of `Reproducer` but for
the bound on its queues (`RunInvariant`).

## 6. Read in the code, shown by no run

Modelling brought out behaviours that differ from what a text says or a reader may
expect.  They are in the model as the code has them, but no run states them.

Broker:

* Two `del` of one key raise `KeyError`, which ends the heartbeat thread while the
  broker runs on (`broker.py` 249-250); `DeathIsDoubleExpiry` says when.
* The `del` by routing id removes the record a READY has just put there and that was
  acknowledged, when a routing id is reused, as it is under a fixed identity
  (`broker.py` 249); the `get` and `del` by worker id may do the same to the other
  dictionary (250-251).  `AckedIsRegistered` and `RegistriesAgree` hold outside this case
  (`Crossed`); without that exception TLC refutes both in `BrokerReconnect`.
* Under job-id a RESULT on another routing id completes the job and leaves the worker it
  was sent to BUSY (`broker.py` 485).
* `run_forever` never dispatches (`broker.py` 740-763).
* Without a RESULT the changes of session and of routing id are not copied to the
  statistics (`broker.py` 628).
* `_handle_heartbeat` refreshes the record its routing id leads to, whatever session the
  message names (`broker.py` 376): an echo keeps the old session's record alive.

Worker:

* `send_succeeded` is written after the send (`worker.py` 504-505), so in separate mode,
  with a join that expires in between, `run()` returns statistics that say the RESULT was
  not sent of one the broker may have accepted; `FactsArePossible` excludes it in the
  blocking loop only.
* A HEARTBEAT that precedes the JOB makes the blocking worker give up (`worker.py` 616).
* A result still queued when the wait for its ack ends is lost with LINGER 0.
* With IMMEDIATE=1 and no SNDTIMEO a send to no peer never returns, and `run()` has no
  deadline (`worker.py` 212-219).
* The ready-ack strategy reconnects in full whatever mode it was given (`worker.py`
  558), and the run is counted under the mode that was asked for.
* `recv_message` parses before it logs (`worker.py` 270), so what cannot be parsed is
  never logged.

Harnesses, traces and monitor:

* The combinations never finalize their trace session, and print an attribute that
  `TraceSession` does not have (`run_combinations.py` 397).
* Two launches of one second, seed and label share a directory (`trace_store.py` 186);
  a torn `session.json` makes the listing raise (`trace_store.py` 303).
* The monitor takes event and value together for the event, so an event with a value is
  reported as `EVENT_<number>` (`socket_monitor.py` 120); a full reconnect starts the
  count of events anew (`worker.py` 163).
* A monitor whose join expired may report its last event under the generation of the next
  socket (`socket_monitor.py` 100, 124).

Downloader:

* Pages of two extensions are counted as two (`mdx_common.py` 139): with 001.jpg kept from
  an earlier list and 001.png of the new one, a chapter of two pages counts as complete
  without its second.  `ZipHasEveryPage` excepts such directories (`mixed`).
* A download whose list is empty, or has a page whose extension is not in `IMAGE_EXT`,
  is counted "ok" without a zip, with no error, at every run (`download_batch.py` 158).
* `--no-skip-complete` passes over the check of the chapter; the pages that exist are
  still skipped (`mdx_common.py` 214).
* A torn `meta.json` (`download_batch.py` 124) and a zip that fails for a directory
  complete without one (134) raise outside the `try` of the batch, and end it.

## 7. Not modelled

* `investigation.py`, `logging_setup.py`, `payload_utils.py`, `verify_routing` and the
  `TimelineCollector`: they write logs or records that nothing in the protocol reads.
* Argument parsing, jitter, durations, payload bytes, printing, the stdout tee.
* Messages the broker cannot parse (no peer in `src/` sends one), links that break by
  themselves, and a discrete clock relating heartbeat interval, liveness multiplier and
  job duration.
* Two launches in one trace directory, and the commands of `list_traces.py`.
* Frames for two workers, and a ROUTER corrupted by two threads.
* A chapter whose title changes, a chapter of 1000 pages, and the call that lists the
  chapters of a title.
