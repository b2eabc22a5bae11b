# Verification of the EDAM evidence pipeline

TLA+ models of the external database audit monitor (`src/`), the TLC
configurations that check them on small instances, and TLAPS proofs about them.

Contents: [1 The system](#1-the-system) · [2 Modules](#2-modules-and-the-code-they-model) ·
[3 Runs](#3-runs) · [4 Fairness](#4-fairness) · [5 Disagreements](#5-where-the-code-and-its-documents-disagree) ·
[6 Proofs](#6-proofs) · [7 Limits](#7-what-is-only-checked-and-what-is-not-modelled) · [8 Plan](#8-plan)

## 1. The system

EDAM watches a database it does not own and keeps tamper-evident evidence of
every change to it.

    monitored db -> Debezium -> Redis stream per table
      -> cdc-collector -> stream edam:captured -> normalization -> stream edam:cce
      -> evidence-writer -> WORM (objects, manifests, anchor records)
                         \-> anchoring (TSA, transparency log)
      -> export package + sidecar objects -> verifier (with a published trust file)

| component | state it keeps | operations | interacts through |
|---|---|---|---|
| cdc-collector | read position and buffer (memory), committed offset (PostgreSQL), handoff phase, last activity | `processEvent`, `next`/`fill`, `commit`, reconnect loop | reads the Debezium streams, appends to `edam:captured` |
| completeness watcher, attestation monitor, audit (cdc-collector) | consumed GTID set, gaps already alarmed, last config snapshot | `observeConsumed`, `checkGap`, `capture`, `check` | alarms, completeness updates |
| normalization | the transaction being grouped, seen envelope ids, last row hash per database | `process`, `flush`, `finalize` | `edam:captured` to `edam:cce`, dead letter queue |
| evidence-writer | open segment and next sequence per database, predecessor manifest | `ingest`, `sweep`, `#sealAndAnchor` | reads `edam:cce`, puts to WORM, asks for anchors |
| WORM store | object versions with retention and legal hold | `putImmutable`, `extendRetention`, `setLegalHold`, `deleteExpired` | called by writer and coordinator |
| anchoring | anchor records, runs in flight, cadence counters, unanchored windows | `requestAnchor`, `anchorHead`, `dueReason`/`markAnchored`, `observePending` | TSA and transparency-log providers |
| dead letter queue | records with attempts and status | `record`, `replay` | called by normalization and writer |
| key registry (signing) | key records with validity, the active key | `rotate`, `revoke`, `isValidAt`, `buildTrustFile` | trust files held by verifiers |
| export | none | `exportFromWorm`, `buildEvidenceExportPackage` | reads WORM, produces a package |
| verifier and its CLI | none | `verifySegments`, `verifyExportSignature`, `runExportVerification` | package, sidecar objects, trust file |
| canonical, contracts, cce-model | none | hashing, validation, building of change events | everywhere |

What is hard in it:

- **Overlap at awaits.** Every service is one Node process, so code between two
  awaits is atomic, but the writer's and the normalizer's timers start work
  without awaiting what is in flight.
- **State in memory beside durable state.** The sequence numbers, the
  predecessor manifest, the duplicate guard and the read positions are gone
  after a restart, WORM and the committed offset are not.
- **Order of effects.** Publish and commit, puts and manifest, seal and
  `#previous`, token and record store: each pair can be split by a fault.
- **Answers that lie or do not come.** A put may succeed and report failure, a
  provider may never answer, answer late or answer for another head.
- **Time.** Keys are rotated and revoked as of instants in the past or the
  future, and a verdict depends on the trust file in hand.

What makes each part correct is stated by the properties listed in section 3;
`PROJECT.json` lists the hazards at their lines and the properties aimed at each.

## 2. Modules and the code they model

Throughout, SHA-256 is taken as injective: a hash is the value it commits to,
so a chain of hashes is a sequence. Signatures are pairs of a key and what it
signed. Logging, metrics, wording and byte layouts are left out.

### `EvidenceWriter` (with `EvidenceLog`, `MCEvidenceWriter`, `EvidenceWriterProofs`)

`services/evidence-writer`, the manifest and cross-segment code of
`packages/evidence`, and the puts of `infra/worm/src/minio.ts`. A change event is an
integer, its place in the order of `compareCce`.

A *call* is one activation of `ingest()` or `sweep()`. `phase[t]` says at which
await call `t` is suspended; one action is the code up to the next await:

| action | code |
|---|---|
| `Ingest`, `Miss` | `main.ts` read loop, `EvidenceWriterService.ingest`, up to the first await; entries added while no `XREAD` from `$` is waiting are missed |
| `Age`, `Sweep` | the time cap passing; the timer's `sweep()`, which nothing awaits |
| `NextSegment` / `BeginSeal` | `SegmentSealer.seal` up to the first put; `Sealable` is its four exits (no predecessor, INTRA_CHAIN, MANIFEST, CROSS_SEGMENT), each with its alarm |
| `PutObject`, `PutManifest` | the object loop and the manifest put, each with its outcomes: stored, refused, failed, or stored although the call failed |
| `Sign`, `TokenVerified`, `NoToken`, `PutAnchor` | `#sealAndAnchor`; its last statement assigns `#previous` |
| `Stop`, `Restart` | shutdown and a new process over the same WORM |

Choices worth knowing:

- The anchor record is filed under the service's own `db_id`, the manifests
  under the event's (`OwnDb`). `#previous` is one value although several
  databases reach the stream: `edam:captured` and `edam:cce` are shared names.
- An overlapping sweep is realistic: a segment can become ready by count while
  the puts, the signature or the anchor request of the one before it are under
  way, and the timer does not look.
- `Stop` is the moment the read loop sees the flag; `SegmentAccumulator.flush`
  has no caller, so nothing is sealed on the way out.
- The dead letter queue the service is given is the in-memory one.
- A put looks for the key first and takes a failed look for "not there"
  (`minio.ts:203-209`): under the fault `stat_fails`, `Stores` adds a version over an
  object that exists. `objects`, `manifests` and `anchors` are all versions; `own` is
  the manifests this process has put. Versions with the same content count as one:
  `sealed_at` is left out.
- An event may be refused in three places: by the accumulator (`Malformed`), by the
  sealer's own checks, whose hashes do not recompute (`Unverifiable`) or whose id a
  manifest may not list (`Unlistable`, an `envelope_id` that is no UUID), and by the
  object writer (`Invalid`).

`EvidenceLog` is what the writer promises: per database, a sequence that is only
appended to, one segment at a time. `ImplementsLog` is the refinement, with the
log read off the last manifest. It speaks of every step up to the one that puts a
second manifest under one key (`SequencesNotReused` false after it): from there on
two logs compete for the same sequences, and `ChainLinked` says what is left, that
the manifests of each process are a chain.

### `Collector`, `Normalizer`, `Capture` (with `MCCapture`, `CaptureProofs`)

`Collector` is `services/cdc-collector`: batch reading of one stream per table
(`fill`), publish, commit, handoff tracking, the reconnect loop and restarts. The
reply of an `XREAD` is a set of entries, each with its stream's number; `Place` is
where the two nested loops of `fill` push one, and `Newest` what `lastIds` keeps.
`next()` takes an entry from the buffer before it is processed, so `Throw` leaves
the failed entry behind, as `runWithReconnect` does. `OffsetStore.load` has no
caller: `StartId` is `0-0` after every restart. `RestartCollector` covers crash and
orderly stop alike.

`Normalizer` is `services/normalization`: records of one transaction are grouped
until a record of another one arrives or the timer flushes; a group becomes a
change event, a duplicate or a dead letter, and a change event is chained to the
last one before its emit is awaited (`await`). The flush timer is not a debounce:
it fires every `NORM_FLUSH_MS` whatever the age of the group, but as Node code it
can run only while the main loop is suspended. A snapshot read whose primary key has
no canonical form (`Unidentifiable`) makes `acc.add` throw outside the `try` of
`process()`; `main.ts` logs it and the record is gone. A rejected emit leaves
`process()` with the groups that were still to be finalized; `rejected` is the history
of what was lost so.

`Capture` composes the two over the stream `edam:captured`. The guard's answer
DUPLICATE is practically out of reach in the code: a recaptured record has a new
`captured_at`, which the event hash covers.

### `Anchoring` (with `AnchorRegister`, `MCAnchoring`, `AnchoringProofs`)

`AnchorCoordinator.anchorHead`, `requestAnchor` with its timeout, the retry loop
and the put-if-absent record store, for several calls on several coordinators.
`Answer` lets the provider answer anything: a token, a token for another head, an
outcome that is not well formed, an error; `Timeout` is `withTimeout`, after which
the late answer has no effect. A verified token of which `buildAnchorRecord` makes no
record rejects the call. Random UUIDs do not collide. `AnchorRegister` is the promise:
a write-once register per head.

### `KeyRegistry` (with `KeyRegistryProofs`)

`KeyRotationRegistry` and `buildTrustFile` for the two trust planes. The instants
of a rotation and a revocation are arguments, as in the code, and need not be
now. `trust` is the trust file published last; it is not refreshed by later
changes. `KeyAccepted` is what the verifier, which never sees the registry, makes
of the file's entries. No signer of the repository asks the registry either, so
the key a process signs with is kept apart (`holder` below).

### `Verifier` and `OfflineVerification` (with `VerifierCases`, `MCOfflineVerification`, `OfflineVerificationProofs`)

`Verifier` holds the checks of `packages/verifier` as operators over parsed
segments, one per check: `per_object_hash`, `object_chain`, `segment_manifest`,
`cross_segment_continuity`, `no_missing_segment`, `no_missing_event`,
`hsm_signature`, `anchor_token`, and the advisory projection check. Each yields the
set of sequences it finds fault with. `OverallPass` is `#computeOverall`: every
required check has run and passed.

`OfflineVerification` composes it with the registry: `Seal` leaves segments as the
writer does, with or without an anchor record; `ReadEvidence` is `exportFromWorm`
(it fails if one `anchor.json` is missing); `Build` is `buildEvidenceExportPackage`
with `continuityProblems` as its guard; `Passes` is `runExportVerification` with exit
code 0; `Unusable` is exit code 2. `Alter` changes the evidence in hand: an object
in the sidecar (its content, with or without its hashes made to fit, its link,
its place, its absence), the exported copy (a manifest with or without its hash
recomputed, an anchor record missing, redated or of another segment, a segment
missing or twice), or the package (its tail, its date). `VerifierCases` asks the
cases of the repository's verifier suite (`conformance/wv/cases.ts`) of every package
the model can reach, where the suite has one fixture per case.

The builder looks into none of the strings it seals, and the verifier never
looks at the package's `object_refs`: both are as in the code.

### `ChangeEvents`, `EventOrder`, `Conformance`, `AnchorProviders` (with `RecordProofs`, `AnchoringProofs`, `MCRecords`)

`ChangeEvents` is what one captured record becomes: the mapping of an operation and
its images (`native-map.ts`), the identity of snapshots (`snapshot.ts`), the context a
transaction is given (`context.ts`, `attribution.ts`), the diff and the masking
(`diff.ts`, `mask.ts`), `buildCce` with its event hash, what has a canonical form
(`serialize.ts`), the stateful rules V4 to V18 (`stateful.ts`), and the guard and
`finalize` of the normalizer, which emit, drop or dead-letter. A record has a kind and
a few fields; an event is what its hash commits to. Where `Normalizer` (in `Capture`)
models when records are grouped, this module models what comes out. `Identifiable` is
that a record has a GTID or a primary key with a canonical form; without, it is lost,
as in `Normalizer`.

`EventOrder` is `compareCce`: the tuples taken from an offset, then the subordinate
keys; hashes are compared in a strict order `HashBefore` that is arbitrary but fixed,
numbers as the texts the code compares (`Digits`). `Conformance` holds the cases of the change event suite
(`conformance/suite/cases.ts`), asked of every event instead of one fixture each.

`AnchorProviders` holds the Merkle tree of the transparency log, its inclusion
paths and the climb that recomputes a root, the signed tree head, the time-stamp
authority, the fake provider, and the verifier's check of a token. The recursions of
the code are recursive functions, its loops too: `Climbed` gives the `fn`, `sn` and `r`
of `rootFromInclusion` after each sibling. Where the code returns `null`,
`RootFromInclusion` is the empty set. `signedTrees` is a history variable.

### `Worm` (with `ImmutableStore`) and `Dlq` (with `StoreProofs`, `MCStores`)

`Worm` is `MinioWormStore`, request by request, over an external versioned bucket
with Object Lock: `ensureBucket` is four requests, `putImmutable` a `stat` and a put,
`deleteExpired` a read of the lock, of the version and a removal by version. A `stat`
that fails counts as an absent object (`minio.ts:207`). Writers have their own
configured retention, boot in any order and crash; custodians call with any clock.
`ImmutableStore` is the in-memory store, as the promise: written once, retention only
extended, deleted only when the store's own clock has reached it and it is not held.
`contested` names the keys two puts met over or whose `stat` failed under a put: what
is read there may be replaced, but while it is retained the key does not become empty.

`Dlq` is `DlqService.record`: read the item (`Read`), upsert it, raise the alarms
(`Raise`), with other records of the same event and crashes between any two of them.
An upsert takes effect (`Upsert`), fails (`UpsertFails`), or takes effect while the
call rejects (`UpsertUnanswered`). Classification, retry policy, metrics and depth
monitor are there too. Histories: `written` counts the writes that took effect, `tries`
those since one last put back an older reading than the table held, `met` names the
events of which two records read before either wrote, `cut` those of which a
record wrote and never came to its alarms.

### `Completeness` (with `GtidSets`), `Attestation` and `AnchorCadence` (with `MonitorProofs`), in `MCMonitors`

`GtidSets` is the interval algebra of `gtid.ts`, for both engines; each of its loops is
a fold over a step of its own (`Kept`, `Placed`, `Merged`, `Uncovered`), and the sort
before a merge an insertion sort (`Position`). `Completeness` is the
watcher and the loop of the integrity process that feeds it; transactions come in any
order, as several streams are read in turn. `Attestation` is the other half of that
process: a timer that samples without awaiting the last sample, over one connection
that answers in order and, once closed, refuses for ever. The history in a queued
query (`facts`) says what was true of the source since its sample began.

`AnchorCadence` is `CadencePolicy` and `UnanchoredWindowMonitor`. No code drives them
yet (backlog T134-L4): the driver of the model seals, notices (late, twice, out of
order), starts and ends cycles.

An MC module that puts components side by side (`MCStores`, `MCMonitors`, `MCRecords`)
composes nothing: they share no state, and one component moves in each behaviour.

## 3. Runs

`cd tla; tlc -workers 2 -config X.cfg M`.

| run | module, cfg | distinct states | properties |
|---|---|---|---|
| writer_overlap | MCEvidenceWriter, EvidenceWriterOverlap | 269,983 | TypeOK AnchorBacked OneSealAtATime FailureHaltsChain EventuallySettled |
| writer_restart | MCEvidenceWriter, EvidenceWriterRestart | 1,908,954 | ChainLinked ManifestBacked SealedOnce ImplementsLog |
| writer_halt | MCEvidenceWriter, EvidenceWriterHalt | (violation) | EventuallySealed |
| capture | MCCapture, Capture | 3,809,580 | NoSilentGap SnapshotBounded LossesNamed EmittedOnce RowsChained |
| capture_skip | MCCapture, CaptureSkip | (violation) | NoSilentGap |
| anchoring | MCAnchoring, Anchoring | 674,625 | TypeOK ReturnedIsStored OneRunPerHead ImplementsRegister EveryCallReturns |
| verification | MCOfflineVerification, OfflineVerification | 110,188 | PassIsGenuine GenuinePasses LocatesAlteration VerifierCasesHold |
| keys | MCOfflineVerification, KeyLifecycle | 165,976 | ActiveKeyUsable TrustFollowsRegistry NothingInvalidated PassLasts |
| records | MCRecords, Records | 217,974 | IdentityExact HonestEvents ConformanceHolds ProofsSound |
| records_mariadb | MCRecords, RecordsMariadb | (violation) | OrderFollowsCommits |
| stores | MCStores, Stores | 641,818 | BornLocked RetainedReadable RetriesEnd Accounted ActsAsImmutableStore |
| monitors | MCMonitors, Monitors | 1,271,890 | GapsReported ClaimsAreTrue NoHeadForgotten DowngradeNoticed |

What they show, and why the bounds are enough:

- **writer_overlap** — five events, segments of two, the read loop and two sweeps:
  three calls in flight at once, and every fault of stores, signer and provider.
  Two segments are what a link needs; the third call is what it takes for a call to
  verify against a predecessor that two others are changing. A stale predecessor
  makes the verification fail rather than fork: of the calls of one database at most
  one is past it (`OneSealAtATime`; without its SEQUENCE rule two are), and a process
  that has lost a segment never seals a later one (`FailureHaltsChain`). Under
  fairness every admitted event is sealed or in a segment that an alarm named
  (`EventuallySettled`); one event for each way of being refused once admitted. One
  database: an exception out of the signer or the anchor put drops the other segments
  of the same call without an alarm (section 5), and a call has several only if there
  are several databases.
- **writer_halt** asks for more, that every admitted event is sealed although no
  provider answers, of the same schedule: calls may overlap, and nothing else fails.
- **writer_restart** — two databases on the shared stream, one sweep, a malformed
  event, a shutdown between any two steps, and the same process once more over the
  WORM the first one left, numbering from 0 again, with every fault. A look for an
  existing object may fail and so let a second version be put over the first. What
  each process puts is one chain (`ChainLinked`, over `own`), each manifest over
  objects that are there, no event is sealed twice, and WORM is an append-only log per
  database until the step that puts a second manifest under a key. A second restart
  would repeat the first: nothing but WORM survives one.
- **capture** — five entries on two streams with batches of two: a snapshot read
  without an identity, a transaction over both tables, a record the mapper refuses and
  another transaction; failing offset commits, rejected emits and one restart of each
  process. Two records per transaction and two streams are the least for which a group
  can be cut in two places; two transactions the least that make a chain, and one of
  them may be lost to a rejected emit before the other. A record that was taken is
  lost in the two ways `LossesNamed` names, and in no other. Entries the collector
  ignores are in **capture_skip** only, and a transaction that `buildCce` refuses is in
  `records`; both are in the theorems of section 6, which hold for any.
- **anchoring** — three calls, two coordinators, two heads, two attempts: two calls
  can join one run while a third races them on the other coordinator, and an
  attempt can fail, be retried and be given up. Here deadlock is checked: every
  call is retired and may be made again.
- **verification** — up to three segments over four events (of which two share a
  snapshot's offset and one was captured with a gap) and up to two alterations:
  the second alteration is the one that could hide the first, as when an object
  and then its neighbour's link are changed, or a segment is dropped and another
  duplicated. Keys stay as they are.
- **keys** — the opposite: nothing is altered, keys change. Three keys on two
  planes, two rotations, instants before, at and after the creation of the first
  keys; one segment, which every order of rotate, revoke, publish, restart of a
  signer, seal, export and verify leads to.
- **records** — seventeen kinds of record, of which three come in any order: two
  to be identical, chained or duplicates, and one more that a rule compares with
  an earlier event. Four contexts, from nothing attested to a healthy, continuous source, and both
  tables of sensitive columns. The log of the anchor providers grows to five leaves
  over two heads, so that trees of every shape up to five, and one restart of the
  log, occur.
- **stores** — one object, two writers of unequal retention, two custodians, three
  instants, two versions, one crash and one failing `stat`: two versions of a key
  are what it takes to hide one, a crash half way through `ensureBucket` is what
  could leave a bucket without its lock, and two custodians can delete under each
  other. For the dead letter queue two events and two recorders, four records, a
  policy of two retries: one more than the policy allows, with two calls meeting,
  failing, cut off, or answered after they took effect or not at all.
- **monitors** — five transactions of one source and one of another, in any order,
  alone or as several ranges of one token: the least with two holes and a merge
  that closes one. Five configurations, one of which is sound, and three samples in
  the connection's queue. Two heads over five instants, with a window of one and
  an interval of two, reach every severity.

Bounds that are guards of the models: `MaxRestarts`, `MaxIncarnations`
(`Restart…`), `MaxRotations` (`Rotate`), `MaxSegments` (`Seal`), `MaxDamage` (`Alter`),
`MaxPuts`, `MaxStatFaults`, `MaxCrashes` (`Worm`), `MaxRecords` (`Dlq`), `MaxQueue`
(`Fire`), `Horizon` (`TimePasses`), `MaxTaken`, `MaxRequests` (`records`). Ages in
`Completeness` stop one past the thresholds, and `Notice` stops one past `MaxEvents`,
beyond which nothing changes. Event sets are constants. No run uses a state
constraint. `Stores.cfg` uses symmetry on custodians, recorders and payloads, which
no property and no action tells apart.

Deadlock is not checked where the instance is finite and the system may come to
rest: all events delivered, sealed or exported.

Each property of each passing run has a mutant in `PROJECT.json`: a definition of
the model replaced by a faulty form of it (`Faulty…` in the module), for which TLC
finds the property violated.

Some preconditions deserve a word.

- `GenuinePasses` demands `KeysInOrder`, since a signer may use a key the registry
  does not vouch for at that instant (nothing in the code prevents it) and a trust
  file may be older than a key; and `SourceContinuous`, since the verifier fails
  evidence that records a gap, and also evidence whose two segments meet within
  one snapshot (`verify-continuity.ts:150`: all rows of a snapshot share one offset
  key, `context.ts:115`). The instances hold packages on both sides of each.
- Under a key that two puts met over, or whose `stat` failed under a put,
  `RetainedReadable` and `ActsAsImmutableStore` promise only that a retained object
  keeps reading, not which version: there the code replaces it in the readers' sight.
- Where two records of one event met, the code loses a count. `tries` counts the
  writes since one last put back an older reading than the table held; `RetriesEnd`
  ends the retries at that count, and `Accounted` bounds the stored count by it from
  below, by all writes from above, and exactly where none met. The alarms of
  `Accounted` cover events that met too, and leave out the ones whose record was cut off.
- `RowsChained` allows a hole in the row-hash chain only for a group whose emit was
  rejected. `NoSilentGap` is checked without `publish_fails`, with which it fails, and
  says nothing of entries the collector ignores. `EmittedOnce` and `RowsChained` speak
  of one process each: what is read again after a restart is emitted again.
- `HonestEvents` finds sensitive values concealed in the images and field changes;
  `object.primary_key` and the text of a DDL statement are not masked by the code.
- `GapsReported` speaks of what an update says; what a process never reads it cannot
  miss.

## 4. Fairness

- `FairSpec` of `EvidenceWriter` (writer_overlap, writer_halt): weak fairness on the
  steps of each call (the event loop runs what is ready, and stores, signer and
  provider answer one way or the other: `requestAnchor` has a timeout), on each
  sweep, which the timer fires whatever is in flight, and on time. Nothing forbids
  overlap, and no fairness is asked of the stream or of a provider's token: `NoToken`
  may be taken for ever.
- `Anchoring` (`EveryCallReturns`): weak fairness on `Timeout` and `Wake` only.
  `DEFAULT_ANCHOR_TIMEOUT_MS` always applies, and a sleep ends; the provider need
  never answer, and a coordinator that crashes ends its calls.
- `MonitorsSpec` (`DowngradeNoticed`): weak fairness on `Fire`, the `setInterval` timer,
  and on `Answer`, which is the connection answering or refusing. The driver gives
  queries no time limit; a connection that hangs is outside this assumption, and
  with it nothing is noticed (section 5).
- All other runs check safety and need none.

## 5. Where the code and its documents disagree

Three runs are ones that TLC finds violated by what the code does; `PROJECT.json`
quotes the lines.

1. **A failed publish is skipped** (capture_skip): the reconnect loop goes on with
   the next entry and commits past the one that was not published.
2. **Transactions of one MariaDB server are ordered by text** (records_mariadb):
   `order.ts:19` takes the number after the last but one hyphen, which in a MariaDB
   GTID is the server's; `0-1-10` is then ordered before `0-1-9`.
3. **Sealing stops without a fault** (writer_halt): the sweep timer does not wait for
   the call in flight, and `#previous` is assigned only after the puts, the signature
   and the anchor request. A segment that becomes ready in between is verified
   against the old predecessor, fails, and its sequence is spent: no later segment
   of that database can link to it, and sealing stops until a restart
   ("sealing/object-append continues").

Other observations made while modelling; the models behave as described, and no
run is about them:

- *Exceptions in a seal.* When the signer or the put of the anchor record throws, the
  exception leaves the loop over the segments that are ready (`service.ts:89,94`): the
  later ones, of other databases too, are gone from the accumulator, and nothing but
  a line in the log says so.
- *Restarts of the writer.* `nextSeq` and `#previous` are not read back from WORM, so
  sequence numbers are reused; where the puts refuse them nothing is sealed any more
  (compare `src/docs/EDAM-Sprint2-Backlog.md:743`). Where the look for the manifest
  that is there fails (`minio.ts:203-209`), the put adds a second one under the same key,
  against "No gaps, no reuse" (`src/docs/EDAM-WORM-Evidence-Anchoring-Spec.md:850`).
- *Snapshot reads.* A float or an unsafe integer in a read's primary key makes
  `acc.add` throw outside the `try` (`accumulator.ts:46`), and `main.ts` only logs it: the
  record is neither emitted nor dead-lettered, against `normalizer.ts:7-10`.
- *Split transactions.* A tick of the flush timer, or the batch-wise reading of two
  streams, can make one transaction a change event and a dead letter.
- *Replay.* After a restart the collector starts from `0-0` and stamps a new
  `captured_at`, which the event hash covers, as it covers fidelity, completeness and
  actor (`build.ts:145`): what is captured again is an integrity violation to the
  guard (`dedup.ts:30`) and no duplicate. A snapshot record without `ts_ms` takes its
  epoch from `captured_at` (`accumulator.ts:35`) and changes its identity as well.
- *Emit.* The guard and `lastRowHash` move before the emit is awaited
  (`normalizer.ts:128`): if it is rejected, the group is lost, a redelivery passes for
  a duplicate, and the next event chains to one that is not in the stream. That is the
  second loss `LossesNamed` names, and the only hole `RowsChained` allows.
- *Anchoring.* "anchoring is re-driven later" (`service.ts:118`) has no code, so one
  unanchored segment blocks `exportFromWorm` and the builder for good. The development
  log keeps its leaves in memory and may keep its key: after a restart it signs a
  second tree under the same log id, and anchoring a head again adds a second leaf.
- *Canonical form.* A column with a float or an unsafe integer has no canonical form
  (`serialize.ts:51`): its whole transaction is dead-lettered as an unexpected
  exception. `object.primary_key` and DDL statements are not masked (`mask.ts:7`).
- *Rules.* A violation of V14 is reported and the event emitted all the same; a
  streaming record without a GTID (V16) and a snapshot record with one (V17) end in
  the dead letter queue.
- *Attribution.* An exact correlation always names connection, GTID and time window
  as its basis, whatever matched (`attribution.ts`: `.filter(Boolean)` over literals);
  a single candidate in the window is "probable" even if its GTID differs.
- *Completeness.* A second hole of one source has the signature of the first and
  raises no alarm; a rejected `source.next()` ends the loop (`integrity/index.ts:87`)
  while the sampling timer keeps the process up; a source never heard of is idle
  for ever.
- *Attestation.* The connection is never opened again, and a query that hangs is
  silence. The feeds are read in two queries: a feed that moves from one kind to
  the other between them is called disabled although one was on at every instant;
  `ClaimsAreTrue` says what can be said, that each kind was off at some time.
- *Dead letters.* Records of one event that overlap put back an older reading
  (`service.ts:60-81`): the count of the other is lost, which starts the retries over, and
  an item that was quarantined can become retryable again. The alarms follow the write
  and depend on what was read before it: after a crash, or a lost answer of an applied
  upsert, they are never raised, against "UNCERTAIN => QUARANTINE + ALARM"
  (`service.ts:10`). The services use the in-memory store.
- *WORM.* Two puts of one key that meet, or one whose look for the object fails, leave two
  versions of which the later is served, against "append-only (no overwrite)"
  (`minio.ts:234`). A legal hold that cannot be read counts as none (`minio.ts:271`), so that
  only the store's own lock stands; versioning is set before Object Lock is asserted.
- *Verifier.* `scopeFromManifests` derives the expected scope from the package itself.

## 6. Proofs

`tlapm M.tla` for the modules `EvidenceWriterProofs`, `AnchoringProofs`,
`KeyRegistryProofs`, `StoreProofs`, `MonitorProofs`, `CaptureProofs`,
`OfflineVerificationProofs`, `RecordProofs`. All hold for every value of the constants under the
`ASSUME` of the module; where a theorem has a hypothesis of its own, it is named
below.

**EvidenceWriter**, for any databases, events, overlapping sweeps, faults and
restarts. `TypeCorrect`: `[]TypeOK`, by `TypeInv`, which adds that a call inside a
seal has a manifest in hand and its object counter within it. `ManifestsBacked` and
`AnchorsBacked` are `[]ManifestBacked` and `[]AnchorBacked`, by `ChainInv`, which follows
a manifest from the step that verified it to the put several awaits later, against a
`#previous` that may have moved since: `#previous` is one of the manifests the process
has put (`PreviousStored`), the manifest in a call's hand is a genesis or follows one
of them (`CallsLinked`), the objects counted as written are durable (`CallsPlaced`), and
a call past the manifest put has its manifest in WORM (`CallsStored`). All are stable
because what a process has put only grows (`Grows`).

`OneSealPerDatabase` (`OneSealAtATime`) and `FailureIsFinal` (`FailureHaltsChain`) are
about `#previous` and the numbers a process gives out, and need `OrderInv`: what waits
lies past `#previous` and is numbered apart (`WaitingApart`), at most one segment of a
database is being sealed, between `#previous` and all that waits (`SealingApart`),
`#previous` lies before the open segment and before every alarm (`PastApart`), and a
call at rest holds nothing (`IdleFree`). A call that begins while another seals finds
that its number is not the next after `#previous`, so `verifyCrossSegment` refuses it;
and a failure is final because the successor of `#previous` is then never there.

`ChainSafe` (`ChainLinked`) speaks of the manifests of one process, since an earlier
one may have left others under the same keys and a failed look lets a second version
over them. No put-if-absent is assumed: two manifests of one process never share a
key because its numbers do not (`NumberInv`, with `OwnApart` and `OwnUnique`).
`EventsSealedOnce` adds `WhereInv`: an event is in one place at a time, the stream, the
open segment, one waiting segment, one call's hand or one manifest (`EventsApart`);
what an earlier process left is in nobody's hand (`Foreign`), and a segment has one
manifest (`Once`).

`WriterImplementsLog` (`ImplementsLog`) is the refinement of `EvidenceLog`, without a
hypothesis on the faults. By `LogInv` the log read off the last manifest of a database
is explained by the manifests below it (`LogExplained`), of which there is exactly one
last one (`Tipped`); only the step that puts a manifest changes the log, by one segment
at its end. All of that needs each key to have one manifest, so the invariant is
`ReuseInv`: as long as no sequence was reused, `LogInv` holds. Manifests only grow
(`ManifestsGrow`), so a key that has one now had at most one before (`ReuseIsFinal`), and
a step that leaves no key reused started from `LogInv`.

**Capture**, for any entries, streams, sizes of replies, transactions and restarts of
both processes.

- `OffsetLeavesNoGap` (`NoSilentGap`, with the hypothesis that no publish fails: with
  one TLC finds the gap, section 5). `NoSilentGap` speaks only of the offset; `GapInv`
  follows an entry from the reply to the offset: what was read is on the bus, in hand
  or in the buffer (`ReadKept`), nothing waits in front of an earlier entry of its
  stream (`BufferInOrder`), and what is published and committed comes after all of its
  stream before it (`CurrentInOrder`). What a reply puts into the buffer is the lemma
  `FillsBuffer`: it has no hole (`BatchIsPrefix`) and each stream in order
  (`ReplyPlaces`, from the ranks of a finite total order, `Ranks`).
- `SnapshotEndRecorded` (`SnapshotBounded`), whatever fails, by `SnapshotLeft`: a
  snapshot has its end recorded as soon as it was left, for streaming or for a handoff.
- `OneEventPerTransaction` (`EmittedOnce`), whatever fails, by `OwnKnown`: what this
  process emitted its guard knows.
- `RowHashesChained` (`RowsChained`), whatever emits are rejected, by `RowFollows`: the
  row hash chained so far is that of what this process emitted, place by place, and of
  the groups a rejected emit took; a restart begins an empty one.
- `TakenIsAccountedFor` (`LossesNamed`), whatever emits are rejected, by `KnownEmitted`:
  what the guard knows is in the stream or was in a rejected group, so that a
  duplicate that is skipped is carried by an event already or lost in a way that is
  named. `CompletedGroups` says that grouping a record loses neither it nor what was
  grouped, `FinalizedRecords` that a group which leaves the process is emitted,
  dead-lettered, there already or rejected, and `AnsweredKeeps` that a rejection names
  the groups it leaves behind.

The steps of both processes meet in `StepOfBoth`: the bus only grows (`BusGrows`), and
a step of the normalizer finalizes at most one group (`LoopKept`). The one
hypothesis is on the constant `Faults`; the hazard it leaves out is section 5's.

**ChangeEvents**, for any records, tables, sensitive columns, contexts and times of
capture. `RecordInv` follows a group through the accumulator: what is open is a
transaction whose records all carry its GTID (`Transaction`), what is finalized is
one, or one read of a snapshot at the time it was captured (`Single`, `ReadAt`); and
every settled entry was built from such a group in this context, and broke no rule if
it was accepted (`EntriesOK`). `AlwaysRecordInv` is its induction, over records in any
order (`OpenedGroup`, `JoinedGroup`, `AddedGroups`, `FinalizedAllEntries`).

- `EnvelopeIdIsExact` (`IdentityExact`) compares any two accepted entries by what their
  groups are (`IdentityOfGroups`): two transactions, two reads (`ReadIdentity`), or one
  of each, which rule V16 tells apart: without a GTID only a read of a snapshot is
  accepted (`AcceptedRead`). Replays and re-grouped transactions are covered, as `Built`
  includes duplicates and violations.
- `EventsAreHonest` (`HonestEvents`): `HealthyIsKnown` says that neither a missing
  attestation nor a missing or broken continuity is ever combined into HEALTHY;
  `NamedActor` that a hard key beats nearness and that two equal claims name nobody;
  `ItemConcealed` and `ItemConsistent` that the masked images and the masked field
  changes of an accepted change hide the same columns and agree in every other.

- `ConformanceAlwaysHolds` (`ConformanceHolds`), of a MySQL source. What an accepted
  event is by its construction is `EventOK` (`BuiltEvent`); the rules it meets are
  restated without the order in which they are asked (`Lawful`, `ValidIsLawful`). Each
  case of the suite is then a lemma: operations, replay, attribution, the cases that
  speak of the stream and of a second reading of it, coverage and collision
  (`CaseOperations` to `CaseCollision`) compare an event with the one that the
  tampered, repeated or re-read record would have become. `CaseOrder` is that any
  events have one total order: of two GTIDs with one number the texts decide
  (`TextsInOrder`, with `DigitsType` by complete induction), and below them the row and
  the envelope, which no two emitted events share (`EmittedApart`, part of `RecordInv`).
- `OrderAlwaysFollowsCommits` (`OrderFollowsCommits`), of a MySQL source. Both
  theorems have `Engine = "mysql"` as their hypothesis, as the order of a MariaDB
  source does not follow its commits: the run of that engine shows it, section 5.

Six assumptions are on the constants. `SourceAssumption` is what `snapshot.ts:10-14`
relies on: a run of a snapshot has one position and one start, two runs at one
position start at different times, and no GTID of the source is the hash of a
snapshot row. `ContextAssumption`: a feed is finite, and an attestation is HEALTHY,
DEGRADED or COMPROMISED. `NullAssumption`: `Null` is none of the values it is compared
with, as in the code, where `null` is no string and no object. `RecordAssumption`: times,
positions and the parts of a GTID are numbers, and an update has its new row.
`HashAssumption`: the order of hashes is a strict total one. `ConformanceAssumption`: a
session of the audit feed has a time and a reference, the state of a stream names no
snapshot, and nothing that a case puts into an event is `Null`.

**Anchoring**, for any calls, coordinators, heads and attempts. `IInv` adds to the
properties that a call's place and its coordinator's run agree (`FlightAgrees`,
`CallsPlaced`) and that attempts stay bounded. `StoreIsRegister` proves the
refinement of `AnchorRegister`: a step of the coordinators writes one empty cell
or none (`StoreGrows`). `NothingFabricated` and `JoinersServed` are proved and in no
run.

**AnchorProviders** (in `AnchoringProofs`), for any heads, authorities, requests and
restarts, and for trees and paths of any size. That the recursive definitions have a
solution is proved first, by complete induction on the size of a tree
(`MerkleTreeHashIs`, `InclusionPathIs`, `ShiftedIs`), after the arithmetic they rest
on: the powers of two and the largest below a number (`LargestPower`, `Halves`).
The log splits a tree from the root down, the verifier's loop climbs bit by bit from
the leaf up; `LeftOf` and `RightOf` relate the two. A climb in a subtree goes step by step
with the climb in the whole tree, `fn` and `sn` of which differ by the power of two at
which the tree is split (`LeftClimb`, `RightClimb`, `BelowAlong`), until the subtree's
own root is reached (`LeftTop`, `RightTop`).

- `InclusionPathsLeadToRoot`: what the log computes the verifier accepts, by induction
  on the size of the tree (`CompleteStep`).
- `InclusionProofsSound`: it accepts nothing else, by induction on the length of the
  path (`SoundStep`). The loop never asks whether a path is too long: at the top it
  goes on with a left sibling each, as if the tree were the right end of a larger one.
  So the claim is made of the trees of every size that a right-hand subtree of a tree
  of the stated size has (`Spine`): a climb ends at the root of none of them but one of
  the stated size. A hash being what it commits to, a leaf is no node and nodes are
  equal by their children (`HashShape`).
- `ProofsAlwaysSound` (`ProofsSound`). `ProvidersIInv`: every outcome that was kept is
  of a log and of the last leaf of a tree it signed (`OfLog`), of a time-stamp authority
  (`OfTsa`) or of the stand-in (`OfFake`), and every signed tree has the outcome it was
  signed for (`Answered`), which a restart of the log does not take back (`KeptStays`).
  That a token proves its head and no other is then `LastLeafVerifies`, from both
  theorems above; that recombined proofs prove nothing more, the second alone.

**KeyRegistry**, for any planes, keys, instants, custodians and rotations, under
`RegistrySpec`. `KeysUsable` and `RegistryTypes` are inductive together.
`TrustFollows` needs `TrustIsPast`: an entry of a trust file is its key's record,
but for a revocation since. `SignaturesStayValid` is the action property
`NothingInvalidated`; `RecordsEvolve` says what a step can do to one record.

**OfflineVerification**, for any segments, alterations, exports, instants, keys,
rotations and revocations. The invariant of `KeyRegistry` is carried over
(`RegistryKept`). `SoundInv` (theorem `EvidenceKept`) says what an alteration cannot
do: what is in WORM is as the writer made it (`SealedOK`), a record in the copy, the
package or the sidecar that has a valid signature or proof is one that was sealed
(`CopyOK`, `PackageOK`, `SidecarOK`), and the builder numbered the parts from 0.
`PassMeansGenuine` (`PassIsGenuine`) follows by what the checks mean together
(`VerdictMeans`): the hashes of a segment commit to its objects and to its
predecessor, and the anchor token of the last one is signed over its head. `AlterationLocated`
(`LocatesAlteration`) evaluates the checks of an altered segment and of its
neighbours. `VerdictLasts` (`PassLasts`, an action property) uses that a trust file
published later keeps what it knew, but for revocations (`AcceptanceLasts`,
`VerdictFollowsKeys`). `GenuineIsAccepted` (`GenuinePasses`) is the other direction, by
`GenuineInv`: as long as nothing was altered, copy, package and sidecar are the sealed
segments. Its hypothesis `NoneIsNoRecord` says that `None` is neither an object nor a
link record; it is a hypothesis of the theorem and no `ASSUME` of the module because
such records nest hashes to any depth, a set TLC cannot enumerate.
`CasesComeOut` (`VerifierCasesHold`) asks the verifier's conformance cases of every
package built from unaltered evidence, one lemma per case (`CaseTampered` to
`CaseOverlap`). The segments in hand are then those of WORM (`GenuineHand`), each holding
the change events that follow its predecessor's (`HeldSegment`); a case replaces one
part of one of them, so what a check says of the others stays as it was, and the set of
faulted segments is computed from the one that changed (`ObjectsReplaced`,
`AnchorReplaced`, `WithoutOne`, `FaultsFound`). Its hypothesis `NoneIsNoHash` says that
`None` is no key, no anchored head and no segment hash: a link to the all-zero genesis
hash is then a wrong link, and a record without a key or an imprint a wrong record.

**Worm**, for any objects, writers, retentions, custodians, clocks and crashes.
`BornLocked` is not inductive: a put relies on a default that another process set.
`BootLawful` carries it: a process is past the assertion only if the bucket is locked,
and ready with a retention only if the bucket's default is one of the configured
ones, whoever set it last; a crash sends only its own process back. `WritersReady`
ties a put whose check has passed to a process that has come through all of it.
`BucketIsImmutableStore` is the refinement of `ImmutableStore`. `RInv` adds `OnePerKey`:
under a key that is not contested there is at most one version, and none while a put is
under way, which then is the only one; so a put fills an empty place, and a call that
names a version finds that one or nothing, which the bucket removes only when its own
clock and hold allow it, whatever the custodian's clock said. A step under a contested
key, and a check that contests one, is `Contest`, which has to leave a version wherever
one is retained (`OneKeyChanges`, `SameVersions`, `SameLength`). `RetainedAlwaysReadable`
follows from the same invariant: a single version is the one that is served, and no
version is ever a delete marker, as removals name their version (`WithoutKeeps`,
`RemoveObjectKeeps`).

**Dlq**, for any recorders, events and policy. `Kept` is about the table: a stored count
never exceeds the writes, and equals them where no two records met (`CountsExact`), and
every item was made by `ItemOf` (`ItemsLawful`). `CountsExact` needs `Current`: where no
two records met, a call that has not written is the only one, and what it read is still
so. `RetriesEnd` needs `TriesCounted`: a write that read what is still in the table adds
one to its count, and one that did not begins `tries` anew, so the count keeps up with
`tries` whatever the calls read before (`AppliedTries`). `Accounted` needs `Due` besides:
where none met the arrival is raised once (`RaisedOnce`), and the alarms of an arrival and
of a quarantine were raised or are about to be by a call that has written, unless one
was cut off (`ArrivalDue`, `QuarantineDue`), also where records met: of those, the first
to write what no other has read yet raises.

**AnchorCadence**, for any heads, limits and notices. `NoHeadForgotten` needs that no
date lies ahead of the clock (`Past`) and that severity grows with the wait
(`SeverityGrows`); that the oldest pending date exists for any set of heads is the
well-foundedness of the naturals (`OldestTime`).

**Attestation**, for any configurations, audit feeds and samples in flight, under an
assumption on the types of a configuration's fields. `ClaimsAreTrue` speaks of what was
so since a sample began, and an answer is read from the source as it is now, so the
invariant is about the queries on their way: `AllInformed` says that each knows at
least what is so now, and the second query of a check what the first one found.
`HealthyIsSound`, `CompromisedIsUnlogged` and `FlaggedUnlessHealthy` are the facts
about the assessment it rests on.

**Completeness**, for any sources, tokens with any number of ranges, orders of
arrival, executed sets and restarts. A fold is a recursive function of the community
modules, and the induction theorems of the library take an operator; `FoldExists` shows
instead, by the smallest counterexample (`UpTo`), that the fold's function exists over
every prefix, and `FoldSteps` that it is the function of one step after the other. Each
fold of `GtidSets` is then a sequence of its steps (`ParsedFold`, `SortedFold`,
`MergedFold`, `UncoveredFold`, `ParsedSetFold`), about which an induction is a set of
numbers.

- `MergeIntervalsExact`: sorting keeps the intervals and puts them in order
  (`SortedSorts`), and merging in that order keeps them apart (`MergedKeepsApart`):
  together they cover what was covered, with a hole between any two.
- `SubtractRangeExact`: what is left of a range is what no interval covers.
- `GapsAlwaysReported` (`GapsReported`). `GapIInv`: the consumed set covers exactly what
  was consumed (`IntervalsExact`, by `AddTokenExact`), and the last update speaks of the
  set as it is (`UpdateCurrent`). Its assumption `CompletenessAssumption` says that a
  server writes a range of a GTID in ascending order, unless it does not parse.

What the prover cannot do stays with TLC: liveness (`EventuallySettled`,
`EveryCallReturns`, `DowngradeNoticed`). Recursion is out of reach of the library's
induction theorems, which take an operator; where a theorem above speaks of a recursive
function or a fold, the induction is on a set of numbers instead.

## 7. What is only checked, and what is not modelled

Only model-checked: the liveness properties. Every safety property of a passing run is
a theorem. No run and no theorem asks `ConformanceHolds` of a MariaDB source.

Not modelled, or only in part:

- *Lag monitor*: compares clock readings with thresholds; no other component reads
  its state, and `checkStall` is only asked when the stream has nothing to give.
- *Engine adapters and credentials*: configuration text and field names; what they
  make of a record enters `ChangeEvents` as the records.
- *AnchorProviderRegistry*: a map no code of the repository uses yet.
- *Signers*: cryptography and PKCS#11 calls. `assertSignableActiveKey` has no caller.
- *Canonical form*: number formatting and the byte layout; a hash or a signature is
  what it commits to. *Contracts*: the JSON schemas. *Change event helpers*: the
  builder of the snapshot epoch manifest, which nothing calls.
- *Verifier*: schema validation, and `verify()`, which skips every check. Revocation
  dates of anchor certificates are in the trust file, and the verifier does not
  read them. *Verifier CLI*: arguments, file reading and rendering.
- *Conformance*: the scripts that scan the source tree, and the fixtures; case C-1
  holds by the construction of the model, C-7 and C-8 are `GapsReported`, WV-8 and
  WV-13 are `ImmutableStore` and `Anchoring`.
- *Deployment, database schema, tools* other than `exportFromWorm`.

## 8. Plan

Done: the pipeline from capture to verification, the stores, the monitors and the
anchor providers, with proofs of every safety property.

Next:

1. Composition: the writer's log as the evidence `OfflineVerification` exports, in
   place of `Seal`, and `ChangeEvents` as what `Normalizer` emits.
2. What of `ConformanceHolds` is so of a MariaDB source.
