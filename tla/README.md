# Verification of rtls-stream-visualizer

TLA+ models of the RTLS pipeline (UDP receiver, RabbitMQ, backend consumer,
PostgreSQL, WebSocket feed, browser), TLC runs that check them on small
instances, and TLAPS proofs, for instances of any size, of every safety property the
runs check.

## The system

```
generator/device -UDP-> UdpServer -> parser | validator+normalizer -> RabbitMQPublisher
   -AMQP-> _on_message (backend, standalone consumers)
                       -> transaction (position_events, current_positions)
                       -> Broadcast -> positions_ws -WebSocket-> usePositions (live map)
position_events -> GET /positions/history -> HistoryPlayer.handleLoad -> useHistoryPlayer
                                          -> useTagHistory
```

| Component | State | Operations | Hard behaviour | What makes it correct |
|---|---|---|---|---|
| UDP client, generator (`core/udp/client.py`, `stream_generator/main.py`) | lines of a file, place in the stream | validate, add the trace, send, give up on error | its validator and the receiver's must agree | what it sends is accepted |
| Settings (`core/config.py`) | none | load, fill in defaults, refuse | keys that are left out on one side | the queue gets what the receiver publishes |
| UDP receiver (`core/udp/server.py`, `udp_receiver/main.py`) | socket buffer, datagram in work, attached trace | receive, decode, publish, skip on error, shut down | lost, doubled and reordered datagrams; waits for the broker without a timeout; interrupt in the middle | in arrival order, nothing twice, each with its own trace; no datagram stops it |
| Decoders (`stream_handler/`, `core/validate.py`) | none | parse lines and JSON, validate, normalize | many shapes of input, two copies of the lookup code | conforming input becomes the event it describes |
| Publisher (`core/broker/rabbitmq.py`) | connection, own event loop thread | publish, close | unknown outcome of a publish | no retry, so no double |
| Consumers (`backend/app.py`, `backend/consumer.py`) | connection, stop event, tasks, pool | connect, retry, deliver, write, publish (backend only), ack, reject, stop | concurrent tasks in several processes, redelivery, crash between commit and ack, poison messages, a small pool | acked means stored; every event settles |
| Transaction (`backend/repository/positions.py`) | the two tables, row locks | insert, upsert, commit, roll back | concurrent writes of a tag, unclear commits | both tables agree on the newest event |
| Broadcast and `/ws/positions` (`backend/broadcast.py`, `backend/api/ws.py`) | subscribers' queues, snapshot per socket | subscribe, snapshot, publish, forward, skip | commit and publish around the snapshot read, overflow, gone clients | the handover loses nothing |
| `usePositions` | sockets, map, flags, retries | connect, reconnect, remount, snapshot, merge | reconnects, restarts, out-of-order envelopes, two sockets after a remount | never shows older or uncommitted data; catches up |
| History API and `handleLoad` | page, offset, total | load, page, fail | inserts between pages and between the two statements of a page, ties | the load is complete and ends |
| `useHistoryPlayer` | points, clock, speed, frame loops | load, play, pause, seek, speed, reset, frame | leftover frame callbacks | clock in range, map matches the clock |
| `useTagHistory` | tag, data, open requests | select, clear, answer, fail | answers out of order | shows the tag that is selected |
| Rendering, logging, metrics, health, migrations | | | none | see "Not modelled" |

`PROJECT.json` lists every component with its status, and the hazards at their
lines with the properties aimed at them.

## Modules

**Positions** has the events (tag and timestamp; everything else is abstracted)
and the three rules that decide which of two events wins: the UPSERT's recency
guard, `_is_stale`, and the merge in the browser.

**Consumer** (extends Positions) is `backend/app.py` and `backend/consumer.py` with the
transaction and the parts of RabbitMQ and PostgreSQL they use. `Process` are the
processes on the queue: `Backend` runs the embedded consumer, all others the standalone
one. A handler task belongs to a process and goes through `writing`, `inserted`,
`upserted`, then `committed` (the backend's, which has yet to broadcast) and `done`; each is
a separate step because the write runs in an executor thread and other tasks run in
between. A task between `inserted` and commit holds one of its process's `PoolSize` connections.
`row` is what an open transaction has written; `RowFree` is the row lock of
PostgreSQL. `live` says whether the broker still waits for this delivery's ack:
when the connection goes, `ChannelGone` requeues the messages and the old tasks keep
working. `ConnectOk` .. `Start` are `_run_consumer` and `_lifespan`, and `main`, which ends
where the backend retries. Faults (crash, lost connection, broker restart, failed connect,
failed or unclear commit, shutdown) draw on one budget, `MaxFaults`. Messages have a kind:
complete events, bodies that are dropped (`malformed`, `no_tag_id`) and bodies that are
requeued for ever (`not_object` raises in `envelope.get`; `unstorable` is refused by
`_extract_params` or a column).

**PositionStore** is the abstract store: one step commits an event to both tables,
a later one announces it, a crash forgets announcements. Consumer implements it
with `pending` mapped to the messages of the tasks between commit and publish
(`ImplementsStore`); WsFeed is built on it, so that the serving side is checked
against what the consumer is shown to provide.

**WsFeed** (extends PositionStore) is `Broadcast` and `positions_ws`; a step is what
runs between two awaits. `missed` is a history variable: events committed since the
snapshot that no queue will carry (queue full, never announced, committed by a standalone
consumer). **LiveMap** (extends WsFeed) adds the browser with `usePositions`; frames travel
over `wire`. `attached` are the sockets whose `onclose` has not run. `Remount` is the
cleanup and the new run of the effect; `due` counts the calls of `connect` that are to come,
which can be several then.

**History** (extends Positions) is `handleLoad` and the two statements of a page. One
invocation of `handleLoad` is modelled at a time, again and again: invocations share nothing
but the table, which any number of inserts may change, and every property is about one of them.
`Descending` allows every order of equal timestamps, anew for each page.
**TagHistory** is `useTagHistory`; `waiting` are the requests without an answer.
**Player** (extends Positions) is `useHistoryPlayer`; `rafs` counts scheduled frame
callbacks, because `load` and `play` can leave more than the one `rafRef` knows. All of them run
in one frame; `EndPlayback` is a frame in which one ends playback, perhaps after an earlier one has asked for
the next frame. `Load` may come at any time, as the answer of a load that was left behind does.

**Decoding** is `LS1000Parser`, the schema check and `JsonStreamNormalizer` as
operators. A value is its kind (what `_parse_int`, `_parse_float` and `str` make of it, whether a
float can hold it and whether UTF-8 can write it) and a content. An event has every field of
`NormalizedEvent` but `raw_message`; an exception while one is read is `Raised`. **Decoder** (extends Decoding) decodes one of the `Datagrams` after another and
states what the decoders promise; MCDecoding enumerates the datagrams. **Config** (extends
Decoding) is `load_config` over such values. **Ingest**
(extends Config) is the generator with its file, the devices, the network, `serve_forever`,
the publisher and the exchange up to the queue, started from any of the settings files in
`RawConfigs`. What can be sent is numbered: `Datagram(i)` is the object at place i of the file, with the
trace that is added to it, and behind the end of the file come the datagrams of the devices. `Objects`
are the objects the generator does not refuse, `sent` is the place of the last one sent; one that cannot be
encoded (`Encodable`) ends the generator. `Publishable` are the datagrams that are decoded to an event which can be
serialized. `queue` records for each
message which arrival it is and which trace its
headers name; `since` is when the queue was bound. Ingest ends where Consumer begins: that messages
come in order and none twice, which Consumer's `Arrive` assumes, is `PublishedInOrder`.

The theorems are in modules of their own, each of which extends the module it is about:
**ConsumerProofs**, **LiveMapProofs** and **HandoverProofs** (which extends LiveMapProofs),
**HistoryProofs**, **PlayerProofs**, **IngestProofs**, **DecodingProofs** (lemmas about the operators
of Decoding) and **DecoderProofs**. `MC*` modules give the constants
their values. Definitions whose comment starts with "Mutant" are plausible bugs, used to
show that each property can fail; the specifications do not use them.

## Runs

| Run | Bounds | Shows |
|---|---|---|
| consumer_faults | 4 messages (one dropped), 2 tags, backend with 2 tasks and standalone with 1, prefetch 2, pool 2, 2 faults | `CurrentIsLatest`, `AckedIsStored`, `OneHolder`, `DuplicatesNeedFaults`, `RowLocks`, `CommitBeforeAck`, `CurrentMovesForward`, `ImplementsStore` |
| consumer_settles | 2 messages, one of them refused for ever, 2 processes with 2 tasks each, prefetch 2, pool 1, 2 faults, fair | `EventsSettle` |
| consumer_position | violation | a status message erases the position in `current_positions` |
| live_map_races | 2 events of a tag, one at time 0, 2 connections, queue of 1, 2 faults | `HandoverIsComplete`, `ViewIsCommitted`, `SnapshotComesFirst`, `ViewMovesForward`, `LeftOutIsOld` |
| live_map_reaches | 1 event, 3 connections, 1 fault or remount, fair | `EventReachesView`, `StatusRecovers` |
| live_map_gone | violation | a gone client stays subscribed |
| history_paging | 5 rows, two with one timestamp, pages of 2, 3 time ranges, loads without bound, fair | `PagesAreDue`, `LoadIsComplete`, `LoadIsExact`, `LoadEnds` |
| tag_history_cleared | violation | a late answer is shown without a tag |
| player_control | 3 points, 7 clicks, frames of 1 or 2 ticks, fair | `ClockInRange`, `ShownAtClock`, `PlayingHasLoop`, `RateIsBounded`, `PlaybackEnds` |
| decoding_contract | about 44,000 datagrams | `ConformingIsAccepted`, `OnePoint`, `DecodersAgree`, `FieldsKeepTheirPlace` |
| decoding_time | violation | the device's timestamp is replaced by the time of ingestion |
| ingest_faults | a file of 4 lines (2 to be sent, the second not encodable), 2 datagrams of a device (one not serializable), up to 2 copies each, buffer of 2, 2 faults, all settings files with optional keys left out, fair | `PublishedInOrder`, `OneFaultOneEvent`, `TraceIsOwn`, `StopsOnlyByFault`, `ArrivalsAreHandled` |

**Why the bounds are enough.** The races of the consumers are between two tasks on a
tag, in one process or in two, with a third on another tag or on a redelivery of one of the
first two; a second fault allows a fault during the recovery from the first. A redelivered
message is a second event with an equal timestamp. With a pool of one, a task that waits for a
connection exists beside one that holds it. Two connections allow an old coroutine that still
runs beside the new socket, a third the socket that a remount leaves over.
A queue or buffer of one or two is full in reachable states. Five rows in pages of two
give a full page, a tie across a page boundary and a partial page. The proofs do not need the bounds.

**Deadlock** is checked in History, where Load can always be clicked again, and not in the
others, which may come to rest (all messages handled, the fault budget spent, the process stopped).

**Fairness.** Consumer: a task that can step does (asyncio and the executor run ready
work, PostgreSQL answers), `connect_robust` and the retry loop go on, and a message that is
deliverable again and again is delivered (strong fairness: the broker pushes by itself,
and each refused message gives its slot back). LiveMap: the event loops of backend and
browser run ready callbacks and the reconnect timers fire. History: requests are answered
or fail; `LoadEnds` has the premise that the table comes to rest, because `while (offset < total)` goes on
as long as inserts keep pace with the pages. That it goes on for no other reason is `PagesAreDue`. Player: frames come. Ingest: the thread runs and the robust connection comes
back. No fault, commit, click, remount or restart is ever assumed to happen.

## Findings

Four places where the code and what the repository says about it differ, each with a run
and quoted in `PROJECT.json`:

1. *Timestamps of conforming JSON are not used.* The schema requires a date text, both
   decoders only read integers; the event gets the time of ingestion and the warning
   `timestamp_missing_used_ingestion_time` although the timestamp is there.
2. *`current_positions` may hold no position*: a newer status message replaces the
   coordinates by NULL.
3. *A gone WebSocket client stays subscribed* until something is sent to it.
4. *A late answer is shown without a tag*: `useTagHistory` applies the answer of a request
   whose tag was cleared meanwhile. No component uses the hook yet.

Smaller observations without a run: `_is_stale` compares events of tags that the snapshot does
not list with 0, so an event before 1970 would be skipped; `raw_message` keeps the
`traceparent` that `strip_trace_keys` is meant to keep out of storage (`core/udp/server.py:144`
passes the text from before stripping); under `npm run dev`, where StrictMode and fast refresh remount
the hook, two sockets feed one map, and then `SnapshotComesFirst` and `ViewMovesForward` do
not hold (the runs check them for a production build, and the liveness properties for both); an
`envelope_version` without a builder is noticed at each datagram, not at the start.

What the decoders and the generator do at the edges: an integer beyond the floats is a number to the
schema, but `float()` raises and the datagram is dropped (`ConformingIsAccepted` names this as the only
exception); the normalizer looks for `rgn` at the top level, where the schema does not allow it, so
`position.rgn` never becomes the area; in a `display` line with incomplete coordinates the token of y becomes the area
(`ls1000_parser.py:206`); half of a surrogate pair, which JSON can escape, makes the receiver drop a datagram
when it stands in the tag, area or status, and ends the generator when it stands in `rgn`.

## Proofs

Every safety property of a passing run, invariants and action properties alike, is a theorem for
all values of the constants that satisfy the assumptions named in the modules, and so is the
refinement of the abstract store. `PROJECT.json` lists them one by one. What follows is the
argument of each module: the invariant that is inductive, and why the property alone is not.

**ConsumerProofs** (any finite sets of processes and tasks, any messages, tags, prefetch, pool size and
fault budget).

* `TypeCorrect` is inductive on its own, because it also says that a busy task
  has a message and that a live delivery has a task.
* `RecencyTheorem` (`CurrentIsLatest`): the row was computed
  at the upsert, and the commit comes later. The strengthening is `RowLocks`: the row an
  open transaction wrote is the one the UPSERT would write *now*, because no other transaction
  of the tag can commit meanwhile. `DatabaseSteps` reduces all actions to three cases: a
  lock is taken, a transaction commits, or the tables and transactions are untouched.
  `ForwardTheorem` (`CurrentMovesForward`) uses `RowLocks` again.
* `NoLossTheorem` (`AckedIsStored`), with `CommitBeforeAck` (a task past its commit has
  stored its message; a dropped one was no event).
* `HolderTheorem` (`OneHolder`): the bookkeeping of deliveries under requeueing.
* `DuplicatesTheorem` (`DuplicatesNeedFaults`): the rows of a message are counted together with
  everything that may still add one: tasks that write it, the broker if it will deliver it
  again, and processes on their way down (`DuplicateBudget`, with `LiveNeedsChannel`). This is the
  theorem that needs finitely many processes and tasks.
* `StoreRefinement` (`ImplementsStore`): each step maps to a step of PositionStore or to
  a stutter.

**LiveMapProofs** (any numbers of connections, remounts and faults, any queue size): `LiveMapTypeCorrect`,
and `CommittedTheorem` (`ViewIsCommitted`). Its invariant `EverythingCommitted` says of every
place a row can be in (announcements, queues, snapshots, frames, the map) that the table has it or a
newer one. `WhatMoves` reduces the actions of the three extended modules to what each place may get.

**HandoverProofs** has what holds in a production build, where the hook is mounted once; the hypothesis is
`MaxRemounts = 0`, and with remounts the properties are false (see Findings). `OneSocket` (one
socket or one `connect` to come), `SentInOrder` (on a wire one snapshot precedes all
envelopes, and it is not older than the map it replaces) give `SnapshotFirstTheorem` and
`ViewForwardTheorem`. `HandoverTheorem` (`HandoverIsComplete`) adds `RightTags`, `SnapshotSent` (what the
snapshot of a live socket lists is in the map, on the wire, or outdone there) and `Handover`
(so is, or is still queued or announced, every committed event that is not in `missed`). It and
`LeftOutTheorem` (`LeftOutIsOld`) need `NoNegativeTimes`: `_is_stale` takes 0 for a tag
that the snapshot does not list, so an event dated before 1970 would be left out. The second follows
from `SnapshotSent`: the filter knows the snapshot that was read, the browser the frames it
has handled since, and what the first lists is never ahead of what the second has or gets.

**HistoryProofs** (any page size, table, range and set of tags; the table is finite in every state
because rows come one by one). Ordering by descending
timestamp puts the rows of a timestamp at the places behind all later ones, whichever
way ties are ordered (`SortedPlaces`); so what a page adds is an overlap of two intervals
(`PageCount`). The invariant `NothingSkipped` says that of each timestamp the points so far are all
rows there were at the click, or at least as many as lie before the offset *in the table
as it is now*: an insert can only move rows to later places. `EndIsComplete` says
that a short page, or a count that the offset has reached, shows that a tag is complete; it rests on
the count being read after the page. `NothingAdded` counts the other way. They give
`CompleteTheorem` (`LoadIsComplete`) and `ExactTheorem` (`LoadIsExact`). `PagesDueTheorem` (`PagesAreDue`) needs that the
total behind the decision to go on was counted of rows that are still there (`PageIsDue`).

**PlayerProofs** (any recording, speeds, and number of clicks and frames): `ClockTheorem`, `LoopTheorem`, `ShownTheorem`,
`RateTheorem`, with two auxiliary parts: a frame that `rafRef` knows is counted in
`rafs`, and the last frame time is kept only while playing.

**IngestProofs** (any file, devices, buffer size, faults and settings). `OrderTheorem` and `TraceTheorem` rest on what the
receiving thread has in hand: what is in the queue precedes the datagram in work
(`QueueIsBehind`), and the attached context is that datagram's (`ContextIsOwn`). `StopsTheorem` is `StopsOnlyByFault`.
`FaultCostTheorem` (`OneFaultOneEvent`) counts lost events, and the publication that the end of the
process may still give up, against the faults (`LossBudget`). Its hypothesis `NamesNothingElse`
is about the settings: a topic or a version that does not fit loses every event without
any fault. It needs that what the generator sends can be decoded and serialized (`ObjectsArePublishable`, from
`MessageIsDecoded`); this is so for objects whose coordinates fit (`CoordinatesFit`), and the property
counts only those. The event of a conforming object has its devid as the tag and neither
area nor status, so that a surrogate in its `rgn` does no harm in the receiver.

**DecoderProofs** (any set of datagrams): `ConformingTheorem`, `OnePointTheorem`, `AgreeTheorem`, `PlacesTheorem`. The
proof of `AgreeTheorem` showed that `DecodersAgree` had been stated too widely: with
a nested position of which one coordinate cannot be read, the parser falls back to the
outer ones and the normalizer keeps the nested position. The hypothesis now says "readable",
and MCDecoding has such datagrams. The other places where the two differ are the origin, `0x..` integers
and a top-level `rgn`, which only the normalizer takes for an area.

Facts about least and last members of sets of numbers come from well-foundedness of the order
of the naturals (`WFMin`), which stands in for the induction the provers cannot do.

**Only model-checked**: the liveness properties (`EventsSettle`, `EventReachesView`, `StatusRecovers`, `LoadEnds`,
`PlaybackEnds`, `ArrivalsAreHandled`), which are out of the prover's reach (`PagesDueTheorem` is the safety half of
`LoadEnds`), and the four runs that expect a
violation.

## Not modelled

* Ingest and Consumer in one state space: the product is out of TLC's reach at bounds that keep
  both interesting. They meet at the queue, with the assumption stated above; a broker restart
  that loses queued messages is in Consumer, one that loses the publisher's connection in Ingest.
* Settings that contradict each other (a topic that the routing key does not match, a version
  without a builder), the cache of `load_config` and the environment variables.
* The envelope's other fields, `raw_message`, types of exchange that need a plugin, the consumer's spans, the event rate and the last
  event time of the telemetry panel, error texts, logging, metrics, health, rendering, running
  migrations, the load tests: no property depends on them.
* A broker that neither answers nor drops the connection: `publish` waits for it without a timeout.
* NaN coordinates on their way through the JSON encoders of API and feed.

## Plan

The model is complete as far as "Not modelled" allows, and the safety properties are proved. Left:

1. A theorem that joins Ingest to Consumer: under `PublishedInOrder` each `Put` is an `Arrive`.
2. The safety half of the liveness properties: that a step stays possible until the goal is reached,
   without ENABLED, as the explicit guard of the next action.
3. What the handover still promises under `npm run dev`, for the socket of the last mount.
