# Verification of openclaw-omnibridge

TLA+ models of the bridge, the TLC runs that check them on small instances, and
TLAPS proofs of their main guarantees for every value of the constants. All
paths below are relative to the repository; `PROJECT.json` maps every definition
to the lines it models and lists the hazards that the properties are about.

## 1. The system

openclaw-omnibridge takes messages from seven channels, checks them, hands them
to the OpenClaw gateway and fans them out to other channels. A deployment is one
or more node processes; with `STORE_BACKEND=redis` they share a Redis server,
otherwise each keeps its stores in memory. Within a process everything runs on
one event loop: code between two `await`s is atomic, and at every `await` other
calls run, time passes, or the process dies.

| Component | State | Operations | Hard behaviour | What makes it correct |
| --- | --- | --- | --- | --- |
| `core/bridge-engine.ts` | registered adapters; per call: how far it is | `registerAdapter`, `processInbound`, `forward`, `start`, `stop` | concurrent calls between check and mark, failure or death at each of a dozen awaits, an audit record that fails in the handler of a failure | replayed and redelivered messages are let through only when explained; only allowed messages reach the gateway; fan-out and audit log agree; no call hangs |
| `core/policy-engine.ts` | the rules | five checks | first rule of a channel wins; case of senders | the gateway sees only what the rule allows |
| `core/memory-stores.ts`, `core/redis-stores.ts` (replay, idempotency) | expiry of each key, mark of each id | `markIfNew`, `hasProcessed`, `markProcessed` | expiry, the sweep, lost replies of Redis, loss of memory | a key is held exactly for its TTL; a mark stays |
| the two rate limiters (same files) | a counter per sender and window | `allow` | INCR and EXPIRE are two requests; fixed windows; limits that are not whole | a bound per window and per minute; no key left without TTL unexplained |
| `core/audit-log.ts` | a file | `record` | a failing write | see the engine |
| `core/openclaw-gateway.ts` | none | `ingest` | may fail | see the engine |
| `channels/email/smtp-client.ts` | one socket per send | `sendText`, `connect`, `command`, `expect` | replies in pieces, refusals, broken and closed connections | success means the server took the message; failure has a cause; it ends |
| `index.ts`, `runtime.ts`, `server.ts`, `ingress/*/main.ts` | the Redis connection, the listening server, `started` | bootstrap, `start`, `stop`, `shutdown`, routes | two signals, each with a `shutdown()` of its own; calls that outlive their request | a clean exit leaves nothing open; the stores outlive the adapters; an error exit is explained |
| `core/config.ts` | none | `loadConfigFromEnv`, `validateCriticalConfig`, `defaultPolicy` | texts are checked for being given and numbers for being positive; a key or a port that is none is found later, or never | an environment that cannot be used ends the process before it serves |
| `channels/status` | `connected`, `node`, `unsubscribe` of the Waku client | `connect`, `disconnect`, `publishText`, `handleWakuMessage` | check of `connected` before awaits, re-entry, a second attempt to subscribe, its own messages coming back, exceptions nobody handles | no publish before the connection; stopped when the process ends; no message goes round |
| the other adapters | none | `ingest*`, `verify`, `normalize`, `send` | ids and nonces on repetition, fields that may be missing, bodies that do not parse | repetitions are recognised, different messages are mixed up only when explained; nothing unverified is taken; what is answered stays true |
| `crypto/*` | none | one verifier per channel | missing headers, malformed hex | decision tables |

How they interact: an HTTP route or a Waku subscription calls an adapter's
`ingest*`, which emits `message`; the engine's listener starts `processInbound`
and nobody waits for it (the route answers 200 at once). The call uses the
limiter, the two stores, the adapter's `verify` and `normalize`, the gateway, the
audit log, then `send` of each target and the audit log after each. What a call
throws is recorded by the listener; if that record throws, the promise is
rejected with no handler and node ends the process. What is sent to Status is
heard by every process that is subscribed to the chat, the sender included.

## 2. Modules

| Module | Models | Role |
| --- | --- | --- |
| `PolicyEngine` | `policy-engine.ts`, the message and rule types | predicates over `Rules` |
| `BridgeEngine` | `bridge-engine.ts` with the replay and idempotency stores, gateway, audit log, deaths of processes | the core specification, `EXTENDS PolicyEngine` |
| `BridgeContract` | what the engine promises, with no stores, log or single failures | abstract specification |
| `BridgeRefinement` | - | `INSTANCE BridgeContract WITH ...`: the refinement mapping |
| `BridgeNetwork` | processes subscribed to the chat they publish to | `EXTENDS BridgeEngine`, feeds its sends back |
| `BridgeClaims` | sentences of the documents | refuted, one run each |
| `BridgeInvariant` | - | the inductive invariants `IInv`, `OutcomeInv`, `UncommittedInv` of the engine |
| `MemoryRateLimiter` | `SlidingWindowRateLimiter` | stand-alone |
| `RedisRateLimiter` | `RedisSlidingWindowRateLimiter` | stand-alone |
| `RateLimiters` | the choice of one of them in `runtime.ts` | composes the two |
| `SmtpClient` | `smtp-client.ts` and a mail server | stand-alone |
| `ChannelAdapters` | `ingest*`, `verify` and the kind `normalize` finds, of the seven adapters; the routes of `server.ts`, `fastify` and `nest`; `handleWakuMessage`; `verifiers.ts` | pure operators |
| `WebhookDelivery` | posts and repeated posts of the providers, handled by the adapters and by `BridgeContract` in place of the engine | composes `ChannelAdapters` with `BridgeContract` |
| `BridgeConfig` | `config.ts`, the building of the adapters in `runtime.ts` | pure operators |
| `BridgeLifecycle` | entry points, `runtime.ts`, `server.ts`, the Waku client's connection | `EXTENDS BridgeConfig` |
| `MCBridgeEngine`, `MCBridgeNetwork`, `MCWebhookDelivery`, `MCBridgeLifecycle` | - | instances for TLC; the other modules need none |
| `*_proofs` | - | TLAPS proofs, section 4 |

### BridgeEngine

An action is the code from the continuation of one `await` to the effect of the
next awaited operation. The answer of a store is computed at the effect and
acted on in a later step, so it may be stale by then. `pc[c]` names the await a
call is at:

| `pc` | await | action(s) |
| --- | --- | --- |
| `idle` | the message has not been delivered | `Deliver` (rule and payload limit are checked synchronously) |
| `limit` | `rateLimiter.allow` | `RateLimit` (any answer) |
| `mark` | `replayStore.markIfNew` | `MarkIfNew`, `MarkIfNewFails` (with or without effect) |
| `check` | `idempotencyStore.hasProcessed` | `CheckProcessed`, `CheckProcessedFails` |
| `verify` | `verify`, `normalize` and the three checks after them | `Authorise` |
| `ingest` | `gateway.ingest` | `Ingest`, `IngestFails` |
| `commit` | `idempotencyStore.markProcessed` | `MarkProcessed`, `MarkProcessedFails` |
| `accept` | the `accepted` record | `AuditAccepted`, `AuditAcceptedFails` |
| `send`, `stalled` | `adapter.send` | `Send`, `SendFails`, `SendStalls` |
| `record` | the `forwarded` record | `AuditForwarded`, `AuditForwardedFails` |
| `reject` | the `error` record of the listener | `AuditError`, `AuditErrorFails` (the process dies) |

`Crash` ends a process; its calls are `lost`, its memory stores are emptied, a
Redis store stays, and the process starts anew. `Tick` is time. A store is a
function from keys to expiries, 0 for absent; `StoreOf` says which processes
share one, and `Redis` which of them are servers: marks expire there and not in
memory. `Addresses` says for which targets the source's conversation is an
address, since `forward` hands it to all of them: a send to any other can only
fail. `admittedAt`, `ingestedAt`, `markedAt` and `sent` are history variables.
sha256 is modelled as injective. The text of the fan-out (`renderMessage`) is
left out. `start` and `stop` of the engine are in `BridgeLifecycle`.

### BridgeContract and BridgeRefinement

The contract knows for each call whether it is open, taken by the gateway or
over, and for each place whether what was committed there is still known. It
lets a call be admitted only a TTL after the last admission of its key, taken
only while no commitment of its id from before its admission stands, and reach
targets only when committed. A death forgets what a place in memory knew. The
refinement maps `pc` to those stages.

### BridgeNetwork

What a call has published to Status may be delivered to any process, any number
of times: under an id drawn for that call (`Mint`), with the sending process's
key as its sender, and with the verdict that `verifyStatusEnvelope` gives for
that key. The bridge's own key is not filtered out; whether an echo is let in
depends on `AllowedSenders` alone.

### The limiters

`MemoryRateLimiter` has one action for the first message of a window, one that
counts and one that refuses; the history `allowed` is when each sender's messages
were let through, in order. `RedisRateLimiter` has INCR and EXPIRE as separate
steps of concurrent calls that may die in between, a server that drops keys, and
an INCR that comes up to `MaxDelay` ticks after its stamp. That bound, and the one
clock of all processes and the server, are assumptions: the code sets no timeout
and stamps with each process's own `Date.now()`, so `WindowBound` is about delays
and skews within the second by which a key outlives its window. `config.ts` takes any
positive number as a limit, so the limit is the fraction `PerMinute/Parts`.
`RateLimiters` runs one of the two, as `runtime.ts` does.

### SmtpClient

`Data` is one event of the socket: the client reads any number of the pieces at
hand and compares the first code with the one it expects. The mail server
(`Reply`, external) answers each command in up to `MaxPieces` pieces, accepts or
refuses, and takes the message with its text. The first piece holds the whole code
(a shorter one would be refused like any text that is no code). Bodies with a line `.` are left
out: such a body ends the text early.

### ChannelAdapters and WebhookDelivery

A post is a record with the fields that the adapters read, some of which may be
`Absent`; `form`, which says whether it holds a message, is a control post, some
other JSON or does not parse; `longBody` and `longText`, the limits of fastify and
nest on the body and of the engine on the text, which are independent; `more`,
the messages behind the first in a WhatsApp batch; and `genuine`, which says
whether its signature, secret or DKIM result checks out. Ids, nonces and stamps
are texts that anybody may have chosen; `serial` tells messages apart for the
properties and is on no wire. `Telegram`, `Slack`, ... give the message of a post
that comes at a certain time, with its id and nonce; an id that the adapter takes
from the clock is a text like any other, and a missing one becomes "undefined".
`Emits` says whether a post starts a call, given the ingress it comes by and the
adapters that are registered (for Signal any envelope with a source does, for
e-mail any JSON), `Answer` what the provider is told, `Authenticated` is
`verify()` of the channel.

In `WebhookDelivery` each post of the behaviour's feed is repeated at will, to a
process at any place and by any of its ingresses. The engine's part is played by
`BridgeContract`, which the engine implements (section 4), so the module says
what the two guards are worth for ids and nonces that come from seven providers.
`Poisoned` is a Waku payload for the right chat whose key or signature is no hex
of its length: `handleWakuMessage` throws, nobody handles the rejection, and the
process ends. The guards are asked before `verify()` is: what `Admit` admits may be
forged. `PolicyMet` is the default policy, which asks all channels for
authentication and lists no command.

### BridgeConfig

`Env` is what matters of a process environment: which channels are enabled,
which texts are given, how `Number()` reads each number, the backend, and the
length of the Status key. An environment passes four hurdles at four different
times: `Loads` (`loadConfigFromEnv`), `Valid` (`validateCriticalConfig`),
`AdaptersBuilt` (the constructor of the Waku client derives a public key) and
`PortUsable` (`listen`). Of a text they ask whether it is given: a
`DISCORD_PUBLIC_KEY` that is no key passes all four and makes each `verify()` throw
(config.ts:269, ed25519.ts:15), and an `EMAIL_SMTP_PORT` may be a fraction, `Infinity`
or too high (config.ts:232), which each mail finds anew. `defaultPolicy` is the only policy there is: nothing
loads another.

### BridgeLifecycle

One process from `bootstrap` to its exit, in an environment of `BridgeConfig`,
with node:http or a framework ingress. Each signal runs its own `shutdown()`,
whose await is `shutdown[s]`. `client` holds the fields of the Waku client,
`network` what is so: `subscribe()` may reject a list of decoders with its work
done and is called again, so two subscriptions may be alive of which the client
knows one at most. The calls of the engine appear as far as they need the stores
and the Status client. Two facts come from outside `src/`: the second `close()`
of a closing node:http server calls back with an error after the first one's
callback, while that of a framework resolves; and a promise rejected without a
handler ends the process with code 1. Two facts of the entry points shape the
model: the handlers are installed as soon as the server listens (before that, a
signal kills), and the runtime's `started` stays true until the last cleanup, so
that a second `stop()` runs the whole of it again.

## 3. Runs

### Passing

| Run | Properties | What it shows |
| --- | --- | --- |
| `bridge_stores` | `TypeOK`, `ReplaySpacing`, `SecondIngestExplained`, `ReplayRefusedForCause`, `MarkedMeansTaken` | one message delivered to three processes, two on one Redis server and one with memory: admissions of a replay key are a TTL apart, a second ingest has one of three explanations (the first mark was never made, came later than the replay TTL, or has expired in Redis); the other way round, a key refuses only what a call was let through for, or lost its reply over, at most a TTL ago, and an id only what a gateway has taken |
| `bridge_outcomes` | `FanoutAsAudited`, `OutcomeAudited`, `IngestedWasAllowed`, `EveryCallSettles` | a message for every reason to refuse, every kind of failure on the way out: what was sent is a prefix of the enabled targets, the log tells it but for the last one, each ending has its event, only allowed messages are ingested; and every call ends, but for a send that waits for a mail server which hung up |
| `bridge_contract` | `ImplementsContract`, `NonceHeldUntilExpiry` | the engine refines `BridgeContract`, with one id under two nonces on a Redis and a memory process; a key keeps its expiry, whatever is refused and whatever the sweep finds when the other key is set |
| `network` | `TextTakenTwiceExplained`, `EchoesEnd` | two processes that hear what either publishes: a text is taken twice only as in `SecondIngestExplained`, or as an echo under a bridge's key that the allowlist lets in; an echo is published by nobody, and comes only of a text that was ingested and marked |
| `limiters` | `TypeOK`, `MinuteBound`, `CounterExact`, `WindowBound`, `EternalKeysExplained` | with a limit of one and a half: any minute lets at most twice the limit, rounded up, less one message of a sender through the limiter in memory, and a window at most the limit, rounded down, through that of Redis; a counter without TTL is one whose creator is between its two requests or died there |
| `smtp` | `TypeOK`, `ResolvedMeansTaken`, `RejectedExplained`, `TakenYetRejectedExplained`, `NoMutualWait`, `SettlesUnlessClosed` | a send that succeeds was taken, although the client may mistake a piece of a reply for the next one and fail a delivery; a mail that was taken is reported as failed only for QUIT, a broken connection or a reply in pieces; client and server never wait for each other |
| `delivery` | `RepeatTakenExplained`, `KeyTakenExplained`, `IdTakenExplained`, `TakenIsVouchedFor`, `AnswerKept` | a repeated post is taken twice only after the TTL and with an explanation, or because its adapter made up its id from the clock (Slack without `event_id`, Signal without `timestamp`); a message that its provider vouches for finds its replay key taken by another only when nothing tells the two apart, when a sender of Status or e-mail gave both one nonce, or when the other was not vouched for; and its id, which all channels share, only when nothing tells the two apart or one came by Status or e-mail; what is taken was vouched for, comes from where the list allows, and is nothing of Discord; a provider that is told of an error started nothing, one that is told all is well started a call, but for two exceptions |
| `lifecycle` | `TypeOK`, `CleanExit`, `ConnectedWhileServing`, `StoresOutliveAdapters`, `ErrorExitExplained`, `AwaitedIsToCome`, `SignalEndsProcess` | exit code 0 means nothing half open even when two shutdowns run into each other; an unusable environment and two signals with node:http are the only ways to exit code 1 without an outside failure; a call finds its stores open from the first message, which may come during the start, until the adapters have stopped; no shutdown waits for an event that was before its time |

### Documents the code does not keep

| Run | Claim | Counterexample |
| --- | --- | --- |
| `claim_once_per_id` | `AtMostOncePerId`, docs/11_FORMAL_VERIFICATION_MANUAL.md:30 "Same message ID cannot be ingested twice." | two calls with one id and different nonces both pass `hasProcessed` before either marks |
| `claim_no_silent` | `NoSilentFailure`, docs/00_PROGRAM_CHARTER.md:20 "all rejects and errors must be audited" | the error record fails and the process ends |
| `claim_sliding` | `SlidingWindow`, docs/01_ARCHITECTURE.md:35 "Sliding window per-sender rate limiting." | the windows are fixed: a minute across two sees more than the limit |
| `claim_fanout` | `ConfiguredFanout`, docs/03_STATUS_INSTALLATION.md:65 "Send known-valid text payload -> expect accept + ingest + configured fanout" | the Status chat is no address on the first target, whose send throws and ends the fan-out |

Seen while modelling and stated by no run:

- A number of `config.ts` may be a fraction or `Infinity`. For the replay TTL
  Redis then refuses `SET ... PX` and every message fails, while the stores in
  memory work (config.ts:92, redis-stores.ts:48).
- `OPENCLAW_POLICY_PATH`, which .env.example:9 sets, is read by nothing in the
  code, and no variable takes Status out of the targets.
- Two deployments that list each other's keys take a text once per deployment,
  and one that lists its own, or lists none, takes it twice, where
  docs/00_PROGRAM_CHARTER.md:18 says "No duplicate execution for same logical
  message." `TextTakenTwiceExplained` says when; whether an echo is the same
  logical message is a matter of reading.
- docs/03_STATUS_INSTALLATION.md:52-53 asks for "reject + audit" of a signature
  failure: the Waku client drops such an envelope with a warning event that
  nobody listens to, before there is a call that could be audited.
- docs/07_DISCORD_INSTALLATION.md:43 has the test case "Valid signed interaction
  accepted." `verify` accepts it, and then the default policy, the only one there
  is, always refuses it, since its text is made a command and no command is
  allowed (bridge-engine.ts:85). `TakenIsVouchedFor` says so: nothing of Discord is
  ever taken.
- docs/10_CRYPTOGRAPHIC_VERIFICATION_MANUAL.md:5-14 makes the order mandatory in
  which authenticity comes first and replay protection third. The code sets the
  replay key first and keeps it when `verify` fails (bridge-engine.ts:65-80), so
  the key of a message may be taken by a post that was never vouched for. That is
  the last case of `KeyTakenExplained`; `IdTakenExplained` needs no such case, since
  ids are committed behind `verify`. Nor does a message that failed for any other
  reason get through before the TTL (`ReplayRefusedForCause`).
- Ids of messages are global (bridge-engine.ts:71), and Status and e-mail take the
  sender's word for theirs, so that the id of one of their messages may be that of
  a message from another channel: the last case of `IdTakenExplained`.
- An envelope of Signal without `dataMessage`, a receipt for instance, becomes a
  message without text, which is verified, taken and forwarded like any other
  (signal/adapter.ts:75-98).
- A process serves with a Discord key that is no key and an SMTP port that is no
  port; see BridgeConfig above.

### Bounds

- `bridge_stores`: two deliveries to three processes, TTLs of 2 and 3 ticks,
  three ticks, one death of each process. Two calls are the smallest number that
  meet at a guard; every property relates at most two. The clock passes both
  TTLs, so that refusal, expiry and re-admission all happen. The proofs cover
  any number.
- `bridge_outcomes`: no passing of time, since no property of that run reads the
  clock; all faults at once and one death; five targets of which one is the
  source, one not enabled, one not registered, and for one message all but
  one are without an address.
- `bridge_contract`: TTL 1 and 2, two ticks, two targets; two keys per store, which
  is the least for one to be swept when the other is set. The contract always
  permits a refusal (`Close`), so it says nothing of ids that suppress one another;
  `IdTakenExplained` does.
- `network`: three calls, which is the least for a text, its echo and an echo of
  the echo, if there were one; two processes on one Redis server; one of the two
  keys is listed. One tick, so that the TTL of a key passes; no deaths, which
  `bridge_stores` has.
- `limiters`: the windows are 2 ticks for 60 s, the Redis key lives one tick
  longer, as 61 s do; `MaxDelay` is that one tick. Five ticks see two windows
  and the boundary of a third. `MaxCount` bounds INCR above the limit.
- `smtp`: three pieces per reply; two is the least that can mislead the client.
- `delivery`: two calls, one place of each kind, TTL 1 and 2, two ticks: enough
  for a repetition before and after each expiry. For every channel one post per
  branch of its route and adapter, in a feed of its own, one that nobody vouches
  for under the name of a genuine one among them, and one feed with a post of
  each channel, in which e-mail and Status have the id of Telegram's message. Node:http and nest lead to the place with Redis, fastify
  to the other, where e-mail and Telegram are not registered. The posts
  of four channels are numbered as `NumberingAssumption` says (section 4). Each
  exception of the two properties on keys and ids occurs: without any of them TLC
  finds the property violated.
- `lifecycle`: two signals (there are two handlers), two requests, one Status
  message; the four environments whose processes differ in what they hold open,
  and one for each text, number, backend and key that a start may fail on.
- `MaxCrashes` bounds the deaths, `MaxTime` the clock, `Faults` the operations
  that may fail.

Symmetry: the calls of the engine's safety runs and of `delivery` are
interchangeable, and no liveness property is checked with a symmetry.

### Fairness

- `BridgeEngine!FairSpec`: weak fairness of each call's steps. Node runs a
  continuation whose operation has answered, and each awaited operation answers
  or throws: file writes and `fetch` do, a broken Redis connection rejects or
  ends the process. SMTP does not, since nothing watches for the server closing
  the connection (smtp-client.ts:69-97): channels in `Stalling` may leave a call
  in `stalled`. Crashes, deliveries and time are not fair.
- `SmtpClient!FairSpec`: events are delivered and the server replies while the
  connection is up.
- `BridgeLifecycle!FairSpec`: the close event, `unsubscribe()`, the node's
  `stop()` and QUIT come to an end, which is an assumption on the libraries: the
  code sets no limit. Nothing makes a client finish its request, and
  `SignalEndsProcess` excepts that case.

## 4. Proofs

TLAPS checks every proof to its leaves, for any values of the constants that meet
the named assumptions. These say of what kind each constant is, and further:
`EngineAssumption`, that a memory store belongs to one process;
`NetworkAssumption`, that ids which are drawn are drawn once and not by others,
and that a rule for Status, if there is one, asks for authentication;
`LimiterAssumption`, that a key outlives its window by at least `MaxDelay`;
`LifecycleAssumption`, that requests and messages differ; and
`NumberingAssumption`, how Telegram, Slack, Discord and WhatsApp number the
messages that they post themselves: each with ids of its own, an update id of
Telegram, a snowflake of Discord, milliseconds and a `ts` of Slack being texts of
different lengths, and nobody who posts through Signal named like the prefix of
another channel's ids. Nothing is assumed of Status and e-mail, nor of a post
that is not genuine. The last is about the world outside the repository; only
`KeyTakenExplained` and `IdTakenExplained` use it. Two texts that the code joins
with separators (`channel:sender:nonce`, `source-timestamp`) are taken as tuples.

| Module | Theorems |
| --- | --- |
| `BridgeEngine_proofs` | `TypeCorrect`, `InvariantCorrect` (`IInv`), `ReplaySpacingCorrect`, `SecondIngestCorrect`, `NonceHeldCorrect`, `ReplayRefusedCorrect`, `MarkedMeansTakenCorrect` |
| `BridgeOutcomes_proofs` | `OutcomeInvariant` (`OutcomeInv`), `IngestedWasAllowedCorrect`, `OutcomeAuditedCorrect`, `FanoutAsAuditedCorrect` |
| `BridgeRefinement_proofs` | `UncommittedCorrect` (`UncommittedInv`), `ContractImplemented` (`Spec => ImplementsContract`) |
| `BridgeNetwork_proofs` | `NetworkInvariant` (`NetworkInv`), `EchoesEndCorrect`, `TextTakenTwiceCorrect`, `NetworkIsEngine` (`NetworkSpec => Spec`), `NetworkGuardsCorrect` |
| `RateLimiters_proofs` | of Redis alone: `RedisInvariant` (`RedisInv`), `WindowBoundCorrect`, `EternalKeysCorrect`; of the configuration with both: `RateInvariant` (`RateInv`), `LimiterTypeCorrect`, `MinuteBoundCorrect`, `CounterExactCorrect`, `WindowBoundHolds`, `EternalKeysHolds` |
| `SmtpClient_proofs` | `SmtpInvariant` (`SmtpInv`), `SmtpTypeCorrect`, `ResolvedMeansTakenCorrect`, `RejectedExplainedCorrect`, `TakenYetRejectedCorrect`, `NoMutualWaitCorrect` |
| `BridgeLifecycle_proofs` | `LifeInvariant` (`LifeInv`), `LifecycleTypeCorrect`, `CleanExitCorrect`, `ConnectedWhileServingCorrect`, `StoresOutliveCorrect`, `ErrorExitCorrect`, `AwaitedIsToComeCorrect` |
| `WebhookDelivery_proofs` | `DeliveryInvariant` (`DeliveryInv`), `AnswerKeptCorrect`, `TakenIsVouchedForCorrect`, `RepeatTakenCorrect`, `KeyTakenCorrect`, `IdTakenCorrect` |

A theorem named after a property states `Spec => []Property` (or the temporal
formula itself), one named after an invariant is the induction it follows from.
Every safety property of a passing run has such a theorem.

### The engine

Neither guard is inductive: that a store refuses a second call says nothing
unless the store is known to hold what the first one wrote. `IInv`
(`BridgeInvariant.tla`) says so.

- `LifeInv`: a running call runs in the current life of its process, so what it
  wrote to memory is still there.
- `ProgressInv`: the three stamps follow `pc` and come in order.
- `KeyHeld`: within the TTL of an admission, the store has its key with an
  expiry not earlier. `MarkHeld`: the same for marks.
- `CheckedInv`: a call past `hasProcessed` and not yet at the gateway already has
  the explanation that `SecondIngestExplained` asks for when it is ingested.

`ReplaySpacing` follows at `MarkIfNew` from `KeyHeld`: a key that is not live is
one whose TTL has passed (`AdmissionSpaced`). `CheckedInv` is established at
`CheckProcessed` from `MarkHeld` and `ReplaySpacing` (`CheckExcuses`), kept by
every other step because stamps only grow (`Evolution`, `LateMark`), and used up
at `Ingest` (`SecondIngestStep`). The proof has a lemma for each conjunct with
one step per action, and `CallStep`, `NextCases` and `DeathCase` collect what
each action leaves alone.

`ReplayRefusedForCause` and `MarkedMeansTaken` go the other way: from what a store
holds to the call that wrote it. `NonceCases` and `MarkCases` say that only
`markIfNew` and `markProcessed` fill the stores, and for whom; `WriterStays`, that
who wrote to a store remains its writer until it is emptied. With that each is an
induction over `IInv`, which has the stamps of the writer in their place.

`OutcomeInv` adds what a call has decided and done: `Allowed` (past a check, what
was checked is so), `Served` (`sent` is what is eligible up to the cursor, and
the log one event ahead of it) and `Ended` (the last word of a call that is over
is in its log, or its process died). `OutcomeAudited` counts with it: a finished
call has as many events as targets, plus one. `Told` is
`FanoutAsAudited` and, to make it inductive, that the log of a call that has sent
anything is not empty.

`ContractImplemented` is a step simulation over `IInv`, `OutcomeInv` and
`UncommittedInv`, the form that `CheckedInv` takes for the contract's `Take`: once
past `hasProcessed`, a store that remembers has no mark of the id from before the
call's admission, but an expired one. Every action maps to a step of the contract
or a stutter, with a lemma for each step it may be: `AdmitStep` needs `KeyHeld`,
`TakeStep` needs `UncommittedInv`, `ReachStep` needs `Served`, `DeathStep` maps a
crash to `Forget` of a memory place and to `Close` elsewhere.

`NetworkInv` is `IInv`, `OutcomeInv` and `EchoInv`: what comes back was published,
and what was published was marked. As a call never sends to the channel it came
from, an echo has none of its own. An echo meets the engine's guard of `Deliver`,
so a network is a behaviour of the engine (`NetworkIsEngine`) and every theorem
about it carries over.

### The other components

- `RedisInv`: until its window is over and no request for it can be under way,
  a Redis counter has counted at least what was let through (`KeyInv`), and
  requests are recent (`CallInv`). `WindowBound` follows; an INCR that
  arrives after its key was dropped is ruled out by `MaxDelay`.
- `RateInv` adds the limiter in memory. `Tells` says of a sender's counter and
  history that the last `count` entries are those of the open window, all within
  it, and that the entries `Limit` or more before them are a window older;
  `Spread`, that 2 * `Limit` entries in a row take a window, which is `MinuteBound`.
  `Opens` and `CountsUp` are the two ways to append an entry. That the limit is
  rounded up is arithmetic of the fraction (`LimitFacts`).
- `SmtpInv`: where on the wire the reply to DATA can be (`TextInv`) and that the
  client keeps pace while nothing is refused or split (`PaceInv`). The first
  gives `ResolvedMeansTaken`: the client sends the text only upon code 354, and
  while it waits for what follows, a 250 on the wire means that the server has
  taken the message. `TakenInv` says that the server takes it with its ninth reply
  and has refused nothing until then. `NoMutualWait`, inductive beside `TypeOK`, is
  what `SettlesUnlessClosed` needs of the state: somebody always has to move.
- `LifeInv` of the lifecycle: what server, client and Redis are at each stage of
  the start and of each shutdown (`StageInv`, `ClientInv`, `StoreInv`), and
  which work may be under way (`WorkInv`). What one
  `shutdown()` has stopped stays so for the other: nothing is subscribed once
  either of them is at the cleanup. `AwaitedIsToCome` is an
  induction over it: what one shutdown sees the end of, all that wait for it see.
- `DeliveryInv`: where the message of each call comes from (`OriginInv`), how its
  stamps follow its stage (`ProgressInv`), that admissions of a key are a TTL
  apart (`SpacedInv`) and what has been taken (`TakenInv`). `KeyTakenExplained`
  needs only `OriginInv` of it: `KeyForm` says what the key of each channel is made
  of, `NumberedForm` and `NumberedApart` what `NumberingAssumption` says of two
  posts, and each channel is a case. `IdTakenExplained` needs in addition that a
  committed call was taken, and hence authenticated (`TakenPost`, `VerdictFits`), so
  that both posts are vouched for; `IdShape` then tells the ids of the five
  channels apart.

### Model-checked only

- Liveness (`EveryCallSettles`, `SettlesUnlessClosed`, `SignalEndsProcess`):
  fairness and ENABLED are out of the prover's reach. Proved are `NoMutualWait` and
  `AwaitedIsToCome`, which keep the latter two from failing in a single state.
- The refuted claims.

## 5. Not modelled

- `canonical-json.ts` and `errors.ts`: text and classes without state. The
  cryptography behind the verifiers; sha256 is taken as injective.
- The choice of the Waku SDK's entry points by name (`waku-client.ts`), and how a
  payload is encoded: the decoding is modelled by what it lets through.
- HTTP clients of the channels: one request each, a step that works or fails.
- The text of messages, mails and log lines; an SMTP body with a line `.`.
- The IMAP client, a placeholder that does nothing.
- Interleaving of lines in the audit file: appends are of whole lines.
- Existing keep-alive connections that send a request while the server closes.
- The later messages of a WhatsApp batch start no call; the post says how many
  there were (`more`), and no property is about them but the exception that
  `AnswerKept` names.
- Names, paths, prefixes and allowlists of the environment take part in no
  decision of `BridgeConfig`; the allowlists are constants of `ChannelAdapters`.
