# Bhasha in TLA+

Bhasha lets translators broadcast live audio in one language each and lets listeners pick a
language. This directory holds TLA+ specifications of the parts of it whose correctness depends
on the order in which requests, webhooks, timers and crashes happen, the TLC configurations that
check them on small instances, and proofs checked by TLAPS.

Contents: [Inventory](#inventory), [Modules](#modules), [What the models abstract](#what-the-models-abstract),
[Runs](#runs), [Fairness](#fairness), [Proofs](#proofs), [Findings](#findings), [Plan](#plan).

## Inventory

The system is one Node process (`src/apps/api`) over one synchronous SQLite file, a LiveKit
server that carries the audio and calls back by webhook, and a web application
(`src/apps/web`) with a page for listeners, one for translators, one for approvers and an admin
console. There is one API process, so the interleavings that matter are those of handlers that
wait for something real: a password digest, a request body, a call to LiveKit, a translation.
Between two such waits a handler runs alone. Most repository methods are declared `async` over
synchronous statements; awaiting one lets no other request in.

| Component | State | Operations | Hard behaviour | What makes it correct |
|---|---|---|---|---|
| **Publisher lease** `db/realtimeStreamRepository.ts`, `routes/translator.ts`, `livekit/webhook.ts` | rows of `realtime_publish_sessions`; the stream's live pointer (`is_live`, `cloudflare_session_id`, `current_track_id`) | token (reserve, reclaim), stop, heartbeat, kick, the three webhooks, program deletion | handlers wait for LiveKit; webhooks are late, lost, repeated, and name no reservation; tokens outlive their row; crash between the LiveKit call and the database | one publisher per stream; a pointer backed by a published row; a late call never takes a successor off the air; a finished row stays finished; an abandoned row frees the stream |
| **Translator sessions and credentials** `db/translatorRepository.ts`, `routes/admin.ts`, `TranslatorAccessDialog.tsx` | `translator_sessions`, `translators.password_hash`, `access_expires_at`; the dialog | login, logout, expiry, revoke one or all, replace and reset the credential, generate and revoke a link | login reads and writes on two sides of a digest; revocation races a handler that authenticated earlier; a dialog's answer comes after it was closed | a replaced credential signs out; a revoked session holds no stream; ending one session spares another; a link is shown for its language only |
| **Translator page** `web/src/routes/TranslatorRoute.tsx`, `web/src/realtime/translatorClient.ts` | status, reservation, latch, timer, attempts; rooms; microphone and graph | go live, reconnect, stop, sign out, recover, heartbeat, mute, change the source | handlers that overlap; a room lost for good while others wait; a heartbeat answered late | on the air only through a room that is joined; no spinner without a handler; one reconnect at a time; a lost room is recovered or offered to be |
| **Live transcript** `transcript/hub.ts`, `routes/transcript.ts`, `web/src/lib/transcript` | per program: sources in order, `active`, segments, subscribers, translations in flight; per page: lines | report, publish, translate, subscribe, sweep, forget | an idle program is forgotten while calls still hold its object; pages reconnect; posts lost or reordered; two consoles | every page follows the hub; nothing is translated twice; a dead console is dropped; the relaying console stays the relaying one |
| **Listener connections** `db/listenerRepository.ts`, `routes/listeners.ts` | `listener_connections` chained by switch and reconnect | request, connected, heartbeat, leave, switch, reconnect, token | lost answers and retries; a stop of the API between closing a connection and making its successor; late reports | a connection has at most one successor, also after retries; a closed one stays closed |
| **Listener page** `web/src/routes/ListenerRoute.tsx`, `web/src/realtime/listenerClient.ts` | what is played; the recovery latch, timer and attempts; handlers that wait | listen, switch, reconnect, leave, recover, heartbeat | handlers that overlap, closures over an older state, a timer that fires late, audio that needs a tap, a refusal that takes the page to the gate under the other handlers | a latch that stands for a reconnect and is never left behind; retries end |
| **Listener access** `db/listenerAccessRepository.ts`, the gate of `ListenerRoute.tsx` | claims, tokens, the program's mode; the gate's screen, generations and polls; local storage | claim, redeem, approve, revoke, switch the mode, check | answers of an older generation; a redemption overtaken by its retry; several tabs with one storage; a claim superseded | no gate without a way on; polls follow the screen; an approved listener gets in |
| **Approver accounts** `routes/approver.ts`, `db/approverRepository.ts` | account, sessions, counters by address and program | sign in, sign out, rotate the credential | a counter reserved before a digest and given back after it, perhaps in another window | no more wrong guesses are told than the limit allows |
| **Approver page** `ApproverRoute.tsx` | sign-in state, count, dialogs, requests under way | load, sign in and out, approve by scan, link or code | answers lost, late or of an older cookie | waits only for what is under way; counts no claim twice |
| **Screen wake locks** (an effect of three pages) | `wakeLockRef` and its locks | request, release, show, hide | the page is done with while the browser still grants | no lock outlives its effect |
| **Public status and its cache** `routes/public.ts` | one cached answer per key, builds in flight | read, invalidate | a build begun before a change finishes after it | a stream is not shown live long after it was |
| **Presence and stream state** `presence/status.ts`, `presence/streamState.ts` | presence records and the activity of each stream, in memory | join, leave, report sound, prune | reports and webhooks lost and reordered, restart | who is gone is not counted at last; sound is heard, silence noticed |
| **Rate limiter** `security/rateLimiter.ts` | token buckets, in memory | take, prune | pruning and eviction | what is dropped does not show |
| **Users, admin sign-in and its throttle** `auth/adminAuth.ts`, `auth/loginThrottle.ts`, `db/usersRepository.ts` | accounts, `admin_sessions`, failure counters | sign in, change and reset a password, create, delete | counters read before a digest and written after it; an account removed meanwhile | attempts let in together pass the limit by no more than their number |
| **Programs and retention** `db/programRepository.ts`, `db/retentionRepository.ts`, `domain/retentionService.ts` | programs with languages, accounts, connections; the pass | create, edit, delete, restore; nightly and manual prune and redaction | statements that commit one by one, a stop or an error in between, requests that were let in before | nothing is left of what is gone; what is due is done although another program fails |
| **Admin console** `AdminScreen.tsx` | address, lists, details, status, reports, panel | open, save, delete, act, poll | answers out of order | flags, lists and passwords are of what they say |
| **Reports** `listenerRepository.ts`, `AdminScreen.tsx` | the chart, its cursor, the page of a table | refresh, merge, choose a range | a range changed, or the program opened again, while an answer comes; buckets of another width | the chart is that of the rows |
| **Data tables** `domain/deviceModelName.ts` and others | none | formatting | none | (pure functions) |

The parts meet in five places. The token, stop, kick and revoke handlers call **LiveKit** to
remove a participant and go on when it answers. LiveKit calls the **webhook** endpoint, which
changes the lease and presence. The admin routes end **sessions**, which closes their
reservations, and delete **programs**, which clears what the retention pass later removes. The
listener's **gate** hands the player a token without which the connection routes refuse it. The
**transcript** is separate: admin consoles post to the hub, pages of translators read from it.

The hazards, each at the line where it bites and with the properties that watch it, are listed
in `PROJECT.json`.

## Modules

| Module | What it is |
|---|---|
| `PublisherSlot` | Abstract specification: a slot with at most one holder, on the air at most once and only while it holds, never again after it lost the slot. |
| `PublisherLease` | The lease, translator sessions and credential, LiveKit's room and the webhooks of one stream. |
| `PublisherLease_proofs` | Theorems about `PublisherLease`, among them that it implements `PublisherSlot`. |
| `TranscriptHub` | The hub, the source consoles, the translators' pages and the translations of one program. |
| `ListenerConnections` | The table of a listener tab's connections and the routes that change it, for any calls in any order. It is also the abstract specification the page is proved to keep to. |
| `ListenerPage` | The listener's page over that table: buttons, overlapping handlers and their way out through the access gate, recovery, heartbeats. |
| `ListenerPage_proofs` | Theorems about the table alone, and about the page, among them that it implements `TableSpec`. |
| `TranscriptHub_proofs` | Theorems about the hub and its pages. |
| `TranslatorPage` | The page of a translator with the server's side of its stream reduced to rows that open, are published and close. |
| `TranslatorPage_proofs` | Theorems about that page. |
| `Programs` | Programs from creation to the end of their retention. |
| `AccessGate` | Access control of a program: claims on the server, and the gate in every tab of one listener's browser. |
| `Presence` | What is known of one stream on the air: state, listeners, the cached answer. |
| `TokenBuckets` | Abstract specification: a bucket for every key that ever asks. |
| `RateLimiter` | The limiter with its pruning and eviction, against the promise of `TokenBuckets`. |
| `UserAccounts`, `UserAccounts_proofs` | Managers' accounts, their sign-in behind the throttle; theorems about the throttle. |
| `ApproverDesk` | Signing in at the approver's desk and its counters. |
| `ApproverPage` | The approver's page and its requests. |
| `TranslatorAccess` | Passwords and links of translators, with the dialog that makes links. |
| `Console` | The admin console and its requests. |
| `ReportChart` | The chart of a report and its incremental refresh, and the pages of the tables. |
| `ScreenWakeLock` | The effect that keeps the screen on. |
| `Office` | Composes `UserAccounts`, `Console`, `ReportChart`, `TranslatorAccess`, `ApproverPage`, `ScreenWakeLock`, `ApproverDesk` and `Presence`. They share no modelled state: a behaviour chooses one `part` first and leaves the variables of the others at 0, so that the states of the parts add up in a run instead of multiplying. |
| `OfficeConsole_proofs` | Theorems about the console and the chart by themselves. |
| `Office_proofs` | Theorems about the other parts but the accounts, about each part in the office, and the types of all. |
| `Hosting` | Composes `Programs`, `AccessGate`, `RateLimiter` and `Presence` in the same way; the parts that do not run stay as they began. |
| `Hosting_proofs` | Theorems about what pruning leaves of programs, about the gate, the limiter and the types of all four. |
| `MCPublisherLease`, `MCTranscriptHub`, `MCListenerPage` | Instances for TLC: symmetry sets and constant functions. |
| `MCProgram` | The instance of `Hosting` for TLC, with the fairness of its parts. It looks at the listeners of a stream and at its sound in behaviours of their own. |
| `MCOffice` | The instance of `Office` for TLC. It bounds a stream on the air to two sessions without answers or one session with them. |

### PublisherLease and the code

| In the module | In the code |
|---|---|
| `row` | `realtime_publish_sessions`: `status`, `translator_session_id`, `published_track_name`, and `lapsed` for `expires_at <= now` |
| `stream` | `is_live`, `cloudflare_session_id`, `current_track_id` of `language_streams` |
| `deleted` | `programs.deleted_at` |
| `session`, `credential`, `cred` | `translator_sessions`, `translators.password_hash`, and (auxiliary) the credential a login was checked against |
| `request` | token and stop handlers between their call to LiveKit and its answer |
| `removing` | a `removeParticipant` or `deleteRoom` that LiveKit has still to carry out |
| `speaker`, `audio`, `owner` | the participant with the translator's identity, its audio track, and (auxiliary) who published a track |
| `clients` | pages that hold a token and broadcast, or are about to |
| `hooks` | webhooks LiveKit has yet to deliver or the API to finish; `meta` is the reservation in the participant's metadata |
| `TokenGranted`, `TokenReclaims`, `ReclaimResumes` | `POST /realtime/token`, without and with a wait for LiveKit |
| `StopRequest`, `StopResumes`, `Heartbeat` | `POST /realtime/stop` and `/heartbeat`, which any valid session of the translator may send (`SignedIn`) |
| `LoginVerifies`, `LoginCreatesSession`, `Logout` | the two sides of the digests in login; logout |
| `AdminRevokesSession`, `AdminRevokesAllSessions`, `ReplaceCredential`, `ResetPassword`, `KickPublisher`, `DeleteProgram`, `RestoreProgram` | the admin routes |
| `ResolveParticipant`, `HandleTrackPublished`, `HandleDeparture` | `livekit/webhook.ts` |
| `LiveKitRemoves`, `Join`, `PublishTrack`, `Leave`, `Abandon` | LiveKit and the translator's page |
| `Lapse`, `SessionExpires`, `Restart` | time and a restart of the API |

The rules the statements encode are functions of the rows and the pointer they read
(`RowsAfterClear`, `PointerAfterClear`, `RowsAfterReclaim`, `PointerAfterReclaim`, `CanGoLive`),
so that each statement is written once and used by every handler that runs it.

### TranscriptHub and the code

| In the module | In the code |
|---|---|
| `state`, `current` | the `ProgramState` objects, and the one in the map `programs` |
| `sources`, `ahead`, `active`, `live`, `dead`, `next` of an object | `sources` (a Map): its members, and for each those inserted before it; `active`, `subscribers`, `nextSeq` with `segments` |
| `silent`, `sweeping` | sources older than the silence limit; the sweep timer |
| `calls`, `inFlight`, `translated` | translation requests, the set of keys of that name, `segment.translations` |
| `console`, `posts` | `SourceRelay` and its posts on their way |
| `page` | the state of `transcriptReducer` |
| `SetActive`, `SetInactive`, `PublishSegment`, `ExpireStale`, `Subscribe`, `Unsubscribe` | the methods of the hub; `SetActive` also stands for `publishPartial` |
| `TranslationArrives`, `TranslationFails` | the two ends of the promise in `translate` |
| `Console*` | `sourceRelay.ts` and the page that starts and stops it |
| `ConnectionBreaks`, `PageReset`, `Restart` | the network, a reload, a restart of the API |

### ListenerConnections, ListenerPage and the code

| In the module | In the code |
|---|---|
| `row` | `listener_connections`: `subscription_status`, the stream, `disconnect_reason`; `of` and `via` for `switch_from_connection_id` and `reconnect_of_connection_id` |
| `Disconnected`, `Inserted`, `Found`, `MayConnect` | the statements of `listenerRepository.ts` |
| `ReplaceConnection`, `InsertSuccessor`, `CanRecover`, `MayInsert` | `replaceConnection` and its helpers in `routes/listeners.ts`; the unique indexes |
| `CloseWithoutSuccessor` | a stop of the API, or a failed insertion, between the two statements of `replaceConnection` |
| `playback`, `latch`, `timer`, `attempts`, `recovering` | `playback`, `recoveryInFlightRef`, `recoveryTimerRef`, `recoveryAttemptRef`, `recoveryStreamRef` |
| `seen` | the connection of the `playback` that `scheduleRecovery` closes over: it is made anew when the status is polled, not when playback changes |
| `task` | calls of `handleListen`, `handleSwitch`, `handleReconnect`, `handleLeave` that wait |
| `post` | `POST /connected` and `/heartbeat`, and `/leave` of the gate, which nobody waits for |
| `access` | whether the gate is shown, `accessTokenRef`, `gateTransitionedRef` |
| `loose` | (auxiliary) the gate has taken the latch from a reconnect that goes on |
| `RefusalIgnored`, `EnterGate`, `GateReached`, `GateOpens` | `enterAccessGate`: its early returns, what it resets at once, what follows its waits; the way back to the player |
| `Listen`, `Switch`, `PressReconnect`, `PressLeave` | the buttons, with the conditions under which each is rendered |
| `VersionChanges`, `TransportLost`, `TransportResumes`, `TimerFires` | the effects and event handlers of the page |
| `Answered`, `TokenMinted`, `Plays`, `PlayRefused`, `Stopped*`, `Fails`, `Left` | what follows each `await` of a handler |

### TranslatorPage and the code

| In the module | In the code |
|---|---|
| `session`, `row`, `other` | the translator's session; the page's rows of `realtime_publish_sessions`; that another device holds the stream |
| `room` | the client's rooms: joined, wavering, lost for good, or left |
| `page` | `auth`, `publish` (`status`, `res`), `stale`, `recoveryExhausted`, the refs `livePublishRef` (`live`), `recoveryInFlightRef` (`latch`), `recoveryTimerRef`, `recoveryAttemptRef` |
| `mic` | the media stream, the publish graph, whether the one feeds the other, and a stream nobody stops |
| `WithPublish` | the effect that follows every change of `publish` |
| `Live`, `Failed`, `Stopped`, `LoggedOut`, `Scheduled`, `Healthy` | `onLive`, `onPublishFailure`, `stopWithoutServerCleanup`, `returnToLogin`, `scheduleRecovery`, a successful heartbeat |
| `task` | `handleGoLive`, `handleReconnect`, `handleStop`, `handleSignOut` and changes of the source, each at the wait it has reached |
| `SendToken`, `ServeStop` | `POST /realtime/token` and `/stop`, reduced to their effect on the rows |
| `SendBeat` with `BeatOk`, `CatchUpFails`, `BeatFails`, `BeatEnds` | the heartbeats of the interval and of a page that is shown again |

### The other modules and the code

| Module | State | Actions |
|---|---|---|
| `Programs` | `prog`, `languages`, `accounts`, `rows`: programs, language streams, approvers and translators with their sessions, connections; `waiting`: requests between their check and their body; `pass`: the statement `pruneProgram` or `redactProgram` has reached | requests of `routes/admin.ts`; `BeginPass`, `PassStep` of `retentionService.ts`, one statement each, which may fail; `Crash` |
| `AccessGate` | `claims`, `minted` of `listenerAccessRepository.ts`; `page[t]`: `gateGenerationRef`, `gateTransitionedRef`, the redemption latches, what is shown and polled; `storedToken`, `storedClaim` | `Serve*`: the handlers of the API, a step between two digests; `Handle`: what the page does with an answer; `PollClaim`, `Enter`: its timers |
| `Presence` | `meter`, `reports`: the translator page's meter; `hooks`, `room`: LiveKit; `activity`, `records`, `rows`, `build`, `entry`: `streamState.ts`, `status.ts`, the heartbeats' rows, the cache of `public.ts` | going live, stopping, dying; reports and webhooks that arrive, are lost or overtaken; builds that begin and end; `TimePasses`; a restart |
| `RateLimiter` | `held`, `bucket`: the Map and its entries | `take`, with `prune` on every so many calls; the clock |
| `UserAccounts` | `users`, `sessions`, `attempts`, and `calls` at their digest | the login in its steps (`AskLogin` to `IssueSession`), changing, resetting, creating, deleting; `Tick` ends windows and locks |
| `ApproverDesk` | `account`, `sessions` (a place for each row there may be, with what is left of its two expiries), `attempts` by address and for all, `calls` at their digest | `Reserve` before and `Pass` (`clearOnSuccess`) after the digest, rotation, use, sign-out |
| `ApproverPage` | `page`, `cookie`, `task`, and the claims on the server | the handlers of the page, split at each request |
| `TranslatorAccess` | `row`, `sessions`, `calls`; `dialog`, `request`, `detail` | login at its two digests; generate, revoke, open, close |
| `Console` | `page`, `panel`, `calls`: what `AdminScreen` holds and awaits; `fresh` of a call: its counter is still the latest; `unheard` (auxiliary): the answer of a change that was carried out was lost, and the list not asked for since | what the user does, each answer or its loss (`Lose`, at any time), the polls; after each the effects run (`Settle`) |
| `ReportChart` | `rows`, `chart`, `cursor`, `call`, `opening`, `table` | connections come and go; `Refresh`, `Serve`, `Deliver` (`refetchReports`, `mergeReportSeries`); `LoadDetail`, `ServeDetail`, `DeliverDetail` (`loadDetail`), beside it |
| `ScreenWakeLock` | `ref`, `held`, `asks` | `requestWakeLock` at its two waits, the cleanup, the browser |

## What the models abstract

**PublisherLease**

- One stream. Every statement is keyed by program and stream, the room name is a function of the
  stream, and the automatic translator of a stream has the stream's id, so two streams share
  nothing. Sessions of other translators would own no row here.
- Time is not counted. `lapsed` says that the expiry has passed; a row may lapse at any moment
  and only a refresh makes it current again, so every timing of expiry against requests is
  included.
- `reservePublisher` and `attachPublisherSession` are one step: nothing real is awaited between
  them. The room of a blocking row is therefore always set. For the same reason the admin
  routes' access check and body come before the step.
- Webhooks are an unordered set. One may be lost when it is sent; with `Redelivery` it may be
  handled any number of times. Resolving the participant of a track webhook (a call to LiveKit)
  and handling it are two steps. Track metadata in the event itself (`webhook.ts:263-275`), which
  LiveKit does not fill, is left out.
- A lost answer is the choice in `ReserveAndAttach` not to add the reservation to `clients`. A
  stop may come late or be repeated. Two removals that are both pending count as one.
- Not modelled: states that no production caller reaches (the `closing` status and
  `cleanupFailed = true`, which every caller passes as false), functions without a production
  caller (`markPublisherFailed`, `markPublisherCleanupFailed`, `expireActivePublisher`, relay
  coordinates, assignments), and refusals because a program's end has passed, which only remove
  behaviour. `DELETE .../translator-access` counts as replacing the credential by one nobody
  knows. Login does not require the program to be there.

**TranscriptHub**

- One program: the hub shares only the keys of translations in flight across programs, and those
  name the program.
- The text of a segment is the pair of the object that numbered it and its number; partial text,
  the standby display and the cap on lines shown are left out.
- Objects are numbered and one that was dropped before it stored a segment is taken again: it
  left nothing behind. Out of objects or numbers, a call is not taken: a bound.
- An event reaches a connected page in the step that sends it, or the connection has broken: a
  page sees a prefix of its stream. A broken connection stays among the subscribers until the
  server notices. `abort` and `cancel` of one connection fall in one tick and count once.
- Segments of a console wait for each other, as its queue does. Other posts may overtake each
  other and any post may be lost.

**ListenerConnections and ListenerPage**

- One tab (one client id) and one program; connections of other tabs share nothing with it.
  Ids of connections are new and taken in order.
- With `AccessControl` any request of a handler may be refused because the listener is not
  approved. Of the gate that the page is then taken to, only the coming and going is kept: what is
  polled and redeemed there is `AccessGate`. It gives way to the player with or without a new token.
- `left` stands for every reason of a disconnection that is not a replacement (`listener_left`,
  `playback_failed`, `page_unloaded`). The status `failed` and the columns for the former media
  service have no production caller.
- The routes await only synchronous statements, so each is one step. The webhooks of a
  listener's participant write events and presence and leave this table alone.
- A request is handled or lost before the page gives up on it, and at most one post is on its way.
  The `PostKind` of a run says which posts are followed; the others are lost at once.
- Joining the room and starting the audio are one wait: nothing looks at the state between
  them. The audio may also wait for a tap with the room joined, which for a handler begun by a
  button counts as playing. The map of joined rooms is not modelled.
- Whether the publisher is offline is a free choice wherever recovery asks for it.

**TranslatorPage**

- One translator and one stream. What other actors do to the page's reservations is reduced to
  their being published, closed, or taken over by another device, at any moment.
- A request is served in the step that sends it; its answer is handled later, or lost. A wait
  that may be refused (the microphone) ends one way or the other.
- A heartbeat that would find nothing to repair is left out. The time that is shown, volume,
  preferences and the list of events are not modelled.

**The other components**

- `Programs`: three ends of a program stand for dates (to come; past for the manual pass; past
  for the nightly one, which counts about 59 days against 30). Connections are a sequence in which
  each may refer to the one before it, and a chunk is a few rows instead of 500.
- `AccessGate`: one listener with all its tabs. Digests are steps of the server of their own.
- `Presence`: ages are counted in ticks up to the point where more makes no difference; the two
  sessions of a stream and its listeners are looked at in parts of their own.
- `RateLimiter`: one limiter; the two layers of the routes are two of them side by side. The unit
  of tokens is what a bucket gains in a tick, so that the arithmetic is exact.
- `UserAccounts`, `ApproverDesk`: hashing is a wait, and right or wrong is equality of passwords.
  The bootstrap of the first admin, renaming and the refresh of idle expiry are left out.
- `Console`, `ApproverPage`, `TranslatorAccess`: a request is sent, served and answered in three
  steps, in any order with others; forms and wording are left out.
- `ReportChart`: one program, whose details may be opened again at any time (opening another one
  clears the chart in the same way); two of the four widths of buckets; totals are left out.

## Runs

Every run uses small sets; the bounds and why they suffice:

- *Lease.* Two reservations are a holder and its successor, and every hazard listed is about
  such a pair. A second session, a second webhook on its way and a credential that changes are
  given where the question needs them: together they multiply the states without a new kind of
  step. `lease_lapse` asks when a single row stops blocking the stream, so it has one reservation,
  with two sessions that may both refresh it, and two webhooks that may be repeated. The proofs
  cover every number. One track is enough for the guards on tracks to be tested, since a pointer
  either has the track or has none. The system may stop for good when reservations are used up, so
  deadlock is not checked.
- *Listener.* `listener_overlap` gives two handlers that wait at once, two attempts, heartbeats, the
  gate's leave and access control; one stream, since latch and attempts do not look at streams.
  `OneSuccessor` and `ClosedStaysClosed` speak of the table alone, and no number of handlers matters
  to them: they are proved of the table for any calls in any order, and the page, with any number of
  handlers, is proved to make only such calls. `listener_recovery` spends its states on the
  table instead: two streams, which is what a switch needs, and three connections: one, its
  successor, and a third for a successor of either, or for a second one that must not be; one handler
  at a time, whose requests, answers and reports may all be lost or late. Neither run can deadlock.
- *Transcript.* One object and two numbers with a replay buffer of one give overflow and late
  joiners; two objects give the restart and the forgotten program. Two consoles are a relaying
  one and a standby. When numbers, objects and room for posts are used up the model may stop.
- *Translator page.* Two slots let every pair of handlers overlap; a reservation and its
  successor; one attempt reaches the limit of recovery. With three slots, three reservations and
  two attempts the inductive invariant of the proofs was checked on 4.6 million states.
- *Program life.* Two programs, so that one that cannot be pruned stands beside one that can; two
  connections in chunks of one, so that a chain crosses a chunk; one request that waits, one crash.
  The gate has one tab, since `GateIsSound` speaks of each tab by itself and a request of a closed
  tab stays; it is proved for any number of them. Three keys and room for two make the limiter evict.
- *Office.* Two sign-ins at once, as many as the limit of an address and one fewer than that of a
  name, so that a lock can be outrun and a window filled. Two languages and three secrets, of which
  one replaces another; two programs for the console, one claim for the scanner, three runs for the
  wake lock, which is one more than the effect starts without hiding the page. The console is that of an owner
  (`RoleAdmin = FALSE`), the only one whose list `ConsoleIsHonest` speaks of: see finding 12.

Deadlock is not checked where ids, sessions or events that the model counts are used up and the
system may stop.

| Run | Instance | Asks |
|---|---|---|
| `lease_safety` | 2 reservations, 1 session, 1 waiting handler, 2 webhooks, the credential replaced once | `TypeOK`, `OneLease`, `LiveIsLeased`, `OnAirStable` |
| `lease_sessions` | 2 reservations, 2 sessions, 1 handler, webhooks repeated (1.8 million states) | `SignOutSparesOthers`, `RetiredStaysRetired`, `ImplementsSlot` |
| `lease_lapse` | 1 reservation, 2 sessions, 2 webhooks, repeated, under `FairSpec` (200 000 states) | `AbandonedLeaseLapses` |
| `listener_overlap` | 1 stream, 2 connections, 2 handlers at once, 2 attempts, heartbeats, the gate (1.5 million states) | `TypeOK`, `LatchMeansReconnecting`, `RetriesEnd` |
| `listener_recovery` | 2 streams, 3 connections, 1 handler, reports (1.8 million states) | `OneSuccessor`, `ClosedStaysClosed` |
| `transcript_pages` | 2 pages of one language, 1 console, 1 object, 2 numbers | `PagesFollow`, `TranslationsShown`, `TranslatedOnce` |
| `transcript_consoles` | 2 consoles, 1 page, 2 objects, under `FairSpec` | `TypeOK`, `NobodyIsForgotten`, `PrimaryKeepsRelaying`, `GoneConsoleIsDropped` |
| `translator_page` | 2 handlers at once, 2 reservations, 1 attempt, 2 events, under `FairSpec` | `TypeOK`, `ScreenTellsTruth`, `Recovers` |
| `program_life` | `MCProgram`: programs, the gate, the limiter, presence with one listener | `HostingTypeOK`, `GateIsSound`, `NothingIsOrphaned`, `ApprovedGetsIn`, `NightlyWorkIsDone`, `PresenceSettles`, `KeepsPromise` |
| `office` | `MCOffice`: accounts, desk, approver's page, links, console, chart, wake lock, two sessions on the air (2.4 million states) | `OfficeTypeOK`, `ChartIsTrue`, `ConsoleIsHonest`, `FailuresBounded`, `GuessesBounded`, `ApproverScreenIsTrue`, `AccessIsCurrent`, `NoLockIsLost`, `LiveIsHeard` |
| `prune_chain`, `access_link` | minimal | one violated property each, see [Findings](#findings) |

What they show, beyond the small instance:

- The pointer is never left dangling: whatever order stops, departures, reclaims, kicks and
  deletions come in, a stream that is shown live has a published row with exactly that track.
- `OnAirStable` is the point of the "if current" guards: all reservations of a stream share
  one room name, so only the track tells a successor's pointer from its predecessor's. It holds
  while webhooks are delivered at most once, which is how `lease_safety` checks it and what its
  proof assumes. With `Redelivery` it does **not** hold: a repeated `track_published` that is
  resolved after the successor has joined stores the old track on the successor's row, and a later
  departure of the old participant matches the pointer. This needs a repeated webhook and a quick
  successor.
- `TranslatedOnce` needs the set of keys in flight: two pages that join at once ask for the same
  missing translations.
- `OneSuccessor` rests on the reason a connection was closed for as much as on the unique indexes,
  which do not keep a switch and a reconnect of one connection apart: without
  `canRecoverMissingSuccessor` a connection gets a successor of each kind.
- `LatchMeansReconnecting` says that the latch is held exactly while the one reconnect there is
  goes on. The access gate breaks this: a handler that is refused releases the latch of another
  one's reconnect, and until the reconnects of that time are over (`loose`) there may be two, of
  which the first to end releases the latch of the other (finding 13). What holds even then, and is
  checked, is that no path leaves the latch set without a reconnect, which would end recovery for good.
- `AbandonedLeaseLapses` counts a reservation as attended while its page is there and *any* session of
  the translator is signed in: the stop and heartbeat routes ask for the translator, not for the
  session that made the reservation (`requireOwnedReservation`).
- `PrimaryKeepsRelaying` holds because `touch` does not re-insert a known source into the Map.
- `ScreenTellsTruth` joins four promises of the translator's page that need each other: the latch
  is exactly one reconnect; a busy page has a handler; a live page has a room; a lost room is
  recovered or the translator is asked to. It says nothing about who holds the stream: a page
  that was kicked recovers by itself and takes the stream back (`reclaim: true`).
- `FailuresBounded` says what the throttle of the admin login achieves although it is read before the
  digest and written after it: sign-ins that were let in together are all counted, and pass the limit
  by no more than their number. A row can even be without a lock and have more failures than the
  limit: those that outlast a lock are counted in the next window, where a lock that is still on is
  not set anew. There are then no more of them than there can be calls, and the next one locks.
- `GateIsSound` has three parts: a gate that is not settled has a request that will settle it; its
  polls are of the claim and generation it shows; the player that an approval opened holds a token, and
  a page without access control holds none. The token may have been revoked since: see finding 10.
- `AccessIsCurrent` says that a replaced secret signs out, that nobody gets in with one that was
  replaced before the sign-in began, and that the dialog is busy exactly while it waits. It does not
  cover the sign-in that straddles the replacement (finding 4), nor the expiry of a link's sessions.
- `ConsoleIsHonest` speaks of the list only while no answer of a create, delete or restore was lost
  that had been carried out: the console then shows an error and does not load its list again
  (`AdminScreen.tsx:1257-1259`, `1331-1333`, `1341-1343`), until something asks for it.
- `ChartIsTrue` covers charts that are not `mixed`: see findings 8 and 14.
- `GuessesBounded` allows one more guess for each success that was counted in an older window:
  `clearOnSuccess` takes its reservation back from whatever window there is by then.
- `NightlyWorkIsDone` exempts chained connections, which are the finding `prune_chain`.

## Fairness

`PublisherLease!FairSpec` assumes only that time passes: a row nobody can refresh lapses in the
end. No handler, webhook or page has to make progress, so a crash at any point is covered.

`TranscriptHub!FairSpec` assumes that time passes for a console that is off and has nothing on
its way, and that the sweep timer, an interval of the process, fires while it is set. Consoles,
pages, translations and the network owe nothing.

`ListenerPage` needs no fairness: `RetriesEnd` says that the timer cannot fire for ever without
the page playing in between, and holds of every behaviour.

`TranslatorPage!FairSpec` assumes that a handler's wait ends (every request is answered or fails),
that a timer which is set fires and that the answer of a heartbeat is handled. Nobody has to press a
button and a transport need not heal.

`MCProgram!Fairness` gives each part its own. The gate: requests of an open tab are served and
answered or lost, by kind, and its timers fire. Programs: the nightly pass begins, being an interval,
and its steps go on unless the process stops. Presence: time passes (strongly, since steps of the
stream in between disable it), the meter polls, a build ends, and a report of sound, which the page
repeats, arrives in the end if it is sent again and again. The limiter and the office assume
nothing.

## Proofs

Each theorem holds for all values of the constants that satisfy the named assumption of its module;
what a proof assumes beyond that is said. The runs check the same properties on small
instances, and TLC has checked every inductive invariant below before it was proved. No invariant
or action property of a passing run is left without a theorem.

| Module | Theorem | Says |
|---|---|---|
| `PublisherLease_proofs` | `TypeCorrect` | `Spec => []TypeOK` |
| | `SinglePublisher` | `Spec => []OneLease` |
| | `LivePointerIsBacked` | `Spec => []LiveIsLeased` |
| | `RetiredForGood` | `Spec => RetiredStaysRetired` |
| | `LeaseImplementsSlot` | `Spec => ImplementsSlot` |
| | `OnAirIsStable` | `Spec => OnAirStable`, if `~Redelivery` |
| | `OthersAreSpared` | `Spec => SignOutSparesOthers` |
| `TranscriptHub_proofs` | `TypeCorrect` | `Spec => []TypeOK` |
| | `UsedIsKept` | `Spec => []NobodyIsForgotten` |
| | `PagesAgree` | `Spec => []PagesFollow` |
| | `TranslationsReachAll` | `Spec => []TranslationsShown` |
| | `NothingTwice` | `Spec => TranslatedOnce` |
| | `RelayIsKept` | `Spec => PrimaryKeepsRelaying` |
| `ListenerPage_proofs` | `TableIsChained` | `TableSpec => [](TableOK /\ OneSuccessor)` |
| | `TableKeepsClosed` | `TableSpec => ClosedStaysClosed` |
| | `PageUsesTable` | `Spec => TableSpec` |
| | `PageOneSuccessor`, `PageKeepsClosed` | the two of the table, for the page |
| | `PageTypeCorrect` | `Spec => []TypeOK` |
| | `OneReconnect` | `Spec => []LatchMeansReconnecting` |
| `TranslatorPage_proofs` | `TypeCorrect` | `Spec => []TypeOK` |
| | `ScreenIsTrue` | `Spec => []ScreenTellsTruth` |
| `UserAccounts_proofs` | `TypeCorrect` | `Spec => []TypeOK` |
| | `FailuresStayBounded` | `Spec => []FailuresBounded` |
| `Hosting_proofs` | `TypeCorrect` | `Spec => []TypeOK`, of programs |
| | `NothingOutlives` | `Spec => []NothingIsOrphaned` |
| | `LimiterTyped` | `LimiterSpec => []LimiterTypeOK` |
| | `LimiterKeepsPromise` | `LimiterSpec => KeepsPromise`: the limiter implements `TokenBuckets` |
| | `LimiterMemoryIsBounded` | `LimiterSpec => []MemoryIsBounded` |
| | `HostingKeepsGateSound` | `HostingSpec => []GateIsSound` |
| | `HostingTyped` | `HostingSpec => []HostingTypeOK` |
| `OfficeConsole_proofs` | `ConsoleFlagsAreHonest` | `Pages!Spec => [](Pages!FlagsAreHonest /\ Pages!PasswordOfProgram)` |
| | `ChartStaysTrue` | `Chart!Spec => []Chart!ChartIsTrue` |
| `Office_proofs` | `ScreenIsLetGo`, `OfficeLetsScreenGo` | `Phone!Spec => []Phone!NoLockIsLost`; `OfficeSpec => []NoLockIsLost` |
| | `CredentialIsCurrent`, `OfficeCredentials` | `Links!Spec => []Links!AccessIsCurrent`; `OfficeSpec => []AccessIsCurrent` |
| | `ApproverScreen`, `OfficeApproverScreen` | `Scanner!Spec => []Scanner!ApproverScreenIsTrue`; `OfficeSpec => []ApproverScreenIsTrue` |
| | `OnAirIsHeard`, `OfficeOnAir` | `Air!Spec => []Air!LiveIsHeard`; `OfficeSpec => []LiveIsHeard` |
| | `FewAreTold`, `OfficeTellsFew` | `Desk!Spec => []Desk!GuessesBounded`; `OfficeSpec => []GuessesBounded` |
| | `OfficeConsoleIsHonest` | `OfficeSpec => []ConsoleIsHonest` |
| | `OfficeChartIsTrue` | `OfficeSpec => []ChartIsTrue` |
| | `OfficeTyped` | `OfficeSpec => []OfficeTypeOK` |

**Publisher lease.** `OneLease` is kept by a new reservation only because reclaiming leaves no
blocking row; going live keeps `LiveIsLeased` only if no other row's track is forgotten by it, hence
only with `OneLease`; and a cleared pointer is right only if a pointer with a track is always that
of the one published row. The inductive invariant `IInv` is therefore the conjunction of the types
and of `Safe(row, stream)` (rows and pointer typed, at most one active row, pointer backed). `Safe`
is an operator of the rows and the pointer, and each statement of the repository gets one lemma
(clearing, reclaiming, reserving, going live, closing several rows), applied by every action that
runs it, also when a handler runs two statements in a row. `LeaseImplementsSlot` takes each action
to `Acquire`, `GoLive`, `Release` or a stutter of `PublisherSlot`.

`OnAirIsStable` needs two facts more. `TracksOnce`: a track is with its owner's page, in one
webhook, or in one row, never in two of these; so a pointer that has a track tells whose it is.
`Named`: a handler that waits knows its reservation. With repeated webhooks `TracksOnce` is false,
and so is the property: the hypothesis is the same as the run's, `Redelivery = FALSE`.
`OthersAreSpared` needs that an unfinished reservation has a session (`RowsHeld`), and one that is
about to be made as well (`ReclaimsHeld`); then ending a session touches only rows of it.

**Live transcript.** `IInv` is the types with four parts. `HubOK`: an object that is used is the
one in the map (`NobodyIsForgotten`), `active` says whether it has sources, and the sweep timer is
set exactly while it has. `NumbersAreGiven`: what is translated or being translated has a number
that was given out. `OneCall`: of a language and a number at most one call is under way among all
objects that share keys. `Shown`: every live page agrees with its object. `Shown` is equivalent to
the two properties of pages, and `TranslatedOnce` follows from `OneCall` for the step that begins a
call. The order of the Map is a relation (`ahead`), so that `PrimaryKeepsRelaying` needs no
induction over a sequence.

**Listeners.** About the table alone, types and `OneSuccessor` together are inductive: an open row
has no successor, so closing it disturbs no link, and a closed row has successors only of the kind
it was closed for, of which the index admits one. `Chained` states this for a table that is not the
current one, since `replaceConnection` runs two statements. About the page, a step is a call the
table allows only if the page names streams and connections there are; `IInv` therefore says of
everything that holds a connection (what is played, a handler past its first answer, a post) that
the connection is `Known`. A connection once known stays so (`KnownStays`), and a successor that is
found is known because it is the only one (`FoundIsSuccessor`, which is where `OneSuccessor` is
used). The latch needs only that a handler is entered with its operation and left through `Ends` or
through the gate, which sets `loose` exactly if a reconnect goes on without the latch.

**Translator page.** Nothing the screen shows is inductive by itself. `PageOK` adds that a broadcast
on the air has used up none of its attempts, so that a lost room can always be scheduled, and that a
timer has an attempt left. `TasksOK` adds that the reservation a handler was given has no room yet
while the one it is about to leave had one, and that no two handlers were given the same; `RoomsOK`
that a room belongs to a row that was made. `LeavesOther` says that the broadcast a reconnect is
about to leave is not the one that is shown. `Latched` is the property `LatchIsReconnect` without
cardinality: some handler reconnects exactly if the latch is set, and never two.

**Programs.** `NothingIsOrphaned` needs to know where the pass is. `AtWork`: the program it prunes is
deleted, and so are those still to do. `ChildrenFirst`: what the statements before the current one
remove is gone, and nothing has come back since. `IInv` joins these with the types, and every
request needs that it does not run between two statements of a pass, or not on a deleted program.

**Managers' accounts.** `Guarded(b)`, for every name and address, is three statements about a row in its
window and the sign-ins that are verifying, each of which may be counted in it. `NotFull`: without a
lock the failures are fewer than the limit, or no more than there can be calls. `FewAbove`: the failures,
with those verifying, pass the limit by no more than the calls there can be, or are at most twice as many.
`RoomLeft`: where a lock ends before its window, all that are verifying fit below the number of calls,
which is what `NotFull` needs when it has ended. Nothing is assumed of that number.

**Rate limiter.** The refinement maps every key to a bucket, full if the limiter holds none. Taking
and letting time pass are steps of the abstract bucket; pruning is a stutter when what it drops is
full, and a flood when it evicts. Memory stays finite, which the promise about floods counts, and
within its maximum and what was added since it last pruned (`LimiterMemoryIsBounded`): of what
pruning keeps, the bucket used first has all but the maximum used before it, and none of those is kept.

**Gate.** `GateIsSound` speaks of what a page shows, and a page comes to rest when a request ends, so
`GateInv` says of every request under way what it was sent for. A page that is loading or checking has
exactly one request that will settle it and no other (`Rules`). The latch of the redemption is set
exactly while one redemption is under way. The page of whoever was let in holds a token, good or revoked
since, and a check of the mode can still be under way only if it was let in by a redemption. The polls of
a page that waits are those of its own claim and generation (`TabOK`). What a request of an older
generation or of a closed tab brings is dropped, and the claims and tokens it names stay made: tabs share
storage, claims and the switch of the mode, which is why the invariant speaks of all of them.

**Office.** Parts that share no state, each with its own invariant. A step of the office is a
step of the part that runs and keeps that part's invariant, which is what the second theorem of each
pair adds: its property is the one the run `office` checks.

- *Wake lock.* `NoLockIsLost` is kept when a lock is granted because whoever asks has taken the last
  lock out of the reference first, and, until two runs overlap, is the only run.
- *Credentials.* A secret belongs to one language for good. `Informed`: a sign-in that has read its row
  holds a secret of that language, and, unless the row was replaced since, the present one. `LinksFit`
  says what the model's constants are: a first secret for every language, links of at most 72
  hours (`TRANSLATOR_ACCESS_MAX_HOURS`), and a `None` that is no request.
- *Approver's page.* `Waiting`: of each kind at most one handler is awaited; while the page is loading
  nothing else runs; a sign-in is awaited only under the form. `Counted`: the number shown, with the
  approvals the server has granted and the page has yet to count, is at most the claims that were
  admitted. So a granted answer that is lost makes the number too small, never too large, and the
  number told at a sign-in is right if no approval is under way then.
- *On the air.* Only the last session that was issued, while open, can be the published one. An answer
  being built that says live was begun in this tick; stored, it ages as fast as the time since the
  stream was live.
- *Desk.* `Balanced` is an equation: the counter of a row is the sign-ins that failed in its window, and
  those verifying, less what successes took back. A sign-in that found no lock was within the limit,
  hence so are all that are told.
- *Console.* Requests have numbers no two share, and of each kind at most one is the newest; so a flag
  that is taken back by the newest is taken back once, and the counter of report requests is at most
  the number of them under way (`ReportFlags`, `StatusFlags`). The list is current (`ListOK`) because
  whoever changed programs asks for the list again when answered, which overtakes what was asked
  before: between the change and that question the state is `Dirty` and nothing is claimed, nor is it
  after the answer was lost until the list is next asked for (`unheard`). For an admin the list of
  users, asked for after the programs, breaks this (finding 12): the property claims the list of
  an owner's console, and the flags and passwords of both.
- *Chart.* Listeners come and go at the time it is, so a bucket that has ended is changed by nobody
  (`TrueAt` is kept by every step on rows), and the newest bucket of the chart is the first of the
  next fetch (`UpTo`, `AfterOK`): what is merged overwrites the one bucket that was not final and adds
  those after it without a hole (`Grid`). While a part is fetched the chart and its range stay, or the
  answer is dropped, or the program was opened again: then the chart has no range and no cursor, so
  that the next fetch is of the whole. The counts are cardinalities of sets of rows, so no induction
  over the rows is needed. `ChartFit` assumes that a relative range is at least one bucket long.
- *Types.* Three parts need more than their types. At the desk a session is renewed at most to the end of
  its shift, and a lock is one of the table's lengths. No request of the approver's page carries a
  session that was never made. A claim is granted to one handler, so the numbers told stay bounded.

`ScannerFit`, `AirFit`, `DeskFit` and `ChartFit` name finitely many slots, claims and sign-ins, limits
and widths above zero, numbers that are natural, locks that last, a session that is not idle for longer
than it lasts, and a `None` that is no answer. With `LinksFit` they are `OfficeAssumption`, and
`HostingAssumption` bounds the gate by natural numbers; TLC evaluates both.

**Only model-checked.** The liveness properties (`AbandonedLeaseLapses`, `RetriesEnd`,
`GoneConsoleIsDropped`, `Recovers`, `ApprovedGetsIn`, `NightlyWorkIsDone`, `PresenceSettles`): fairness
and `ENABLED` are out of the prover's reach. One theorem has a hypothesis without which its property is
false, as TLC shows: `OnAirIsStable` (webhooks come once). What a property exempts by name (`loose`,
`unheard`, `mixed`, `late`, an admin's list) is false without the exemption, and said with it.

## Findings

Two disagreements between what the repository says and what the code does are shown by a run.

1. `prune_chain`. Pruning deletes a program's connections 500 rows per statement
   (`retentionRepository.ts:141`). A connection refers to the one it was switched or reconnected from
   without a cascade (`schema.sql:102-103`), so a row whose successor is in another chunk makes the
   statement fail, tonight and every night: the program is never pruned although its accounts
   are gone. The comments at `retentionRepository.ts:129-137` call this unnecessarily conservative
   and say that the next night "simply re-runs the remaining deletes".
2. `access_link`. The translators' dialog stores the answer of generating a link whatever language
   it shows by then (`TranslatorAccessDialog.tsx:93`), so a link asked for in one language's dialog is
   shown in the one opened next; line 66 says that a link is never carried over.

Others met while modelling. The models contain the behaviour; the properties that are checked exempt
it by name or by the bounds of their run, as said there.

3. *Webhooks without a reservation.* A `track_unpublished` webhook names no reservation and is given
   that of the participant who has the identity *now* (`webhook.ts:298`). After a quick reconnect
   this is the successor, whose reservation is closed although its audio flows. The comment at
   `webhook.ts:200-204` calls the close "safe".
4. *A login beside a new credential.* Login reads the credential before one digest and inserts the
   session after another (`translatorRepository.ts:501`). If the credential is replaced in between, a
   session of the old one stays signed in (`late` in `TranslatorAccess`); `admin.ts:1702-1703` says
   it is ended. Sessions also outlive the expiry of the link they were earned with.
5. *A reclaim after revocation.* A token request with reclaim waits for LiveKit and then reserves
   without looking at the session again (`translator.ts:559`): a session that was logged out or
   revoked meanwhile holds the stream, which `translator.ts:243-245` says does not happen.
6. *Numbers that begin again.* The hub numbers segments from 1 after a restart or once it has
   forgotten an idle program; a page ignores segments whose number it already shows
   (`transcriptState.ts:64`). `useTranscriptStream.ts:39-40` says the view recovers.
7. *A retry after leaving.* A listener who leaves or switches while a retry is pending does not stop
   it: `handleLeave` (`ListenerRoute.tsx:1409`) leaves the timer running, and the page plays again.
   The comment at `ListenerRoute.tsx:206` says the timer is cleared.
8. *Five minutes over a day.* A refresh of the chart that spans less time than the chart is counted in
   finer buckets, and `mergeReportSeries` overwrites the point of a day with that of its last
   minutes (`mixed` in `ReportChart`), against the comment at `listenerRepository.ts:1219`.
9. *The other program's details.* `loadDetail` (`AdminScreen.tsx:817-851`) compares a late answer with
   nothing (`selectedProgramIdRef` is never read): the details of a program that was left are
   shown over those of the one selected since, and deleting deletes the former.
10. *A second denial.* `gateTransitionedRef` (`ListenerRoute.tsx:186`) is taken back only by success, a
    reload or switching access control off: a listener who is revoked a second time stays in a player
    that gets no token, against the test at `listenerRoute.test.tsx:856`.
11. *One recovery.* A recovery of the translator's page that fails shows an error and is not retried;
    the comment above `scheduleRecovery` (`TranslatorRoute.tsx:1209`) speaks of attempts that back off.
12. *A console that comes back.* `loadPrograms` compares its counter after listing the programs and, for
    an admin, not again after listing the users (`AdminScreen.tsx:800-804`). A sign-out, or a newer
    load that fails, while the users are listed is undone by their answer: the page is `ready` again,
    without identity and with an empty or an old list. The comment at `AdminScreen.tsx:729-731` says
    that probes still resolving are invalidated.
13. *The gate takes the latch.* `enterAccessGate` releases `recoveryInFlightRef` (`ListenerRoute.tsx:1122`)
    also when another handler's reconnect holds it. A listener who is approved again while that reconnect
    waits can start a second beside it, and the first to end releases the second's latch; the
    comment at `ListenerRoute.tsx:1288-1289` says that the two never fire concurrent reconnects.
14. *An older summary.* `loadDetail` (`AdminScreen.tsx:817-851`) neither drops a refetch of the reports
    that is in flight nor is dropped by one, and the effect at `AdminScreen.tsx:950-955` sends one as soon
    as another program is selected from the reports. If the refetch is answered first, the all-time
    summary of `loadDetail` is then shown under its range, and continued from its newer cursor: buckets
    between are missing until the range changes or the program is opened again (`mixed`).

Also seen: restoring a program that a failed or interrupted prune has begun to remove gives it back
without its accounts; `retention_processed_at` is never taken back when an end date moves; removing
a user deletes programs without clearing their live pointers; one heartbeat that overtakes
`track_published` ends a new broadcast.

## Plan

Next, in this order:

1. The list of approved listeners, cached for an hour while access control is off, next to `AccessGate`.
2. Relations between components that are now checked apart: a revoked approval and the connection
   it let in; a deleted program and its broadcast.

Not planned: texts, tables by device, deployment scripts.
