# TLA+ models of chromium-bidi's BiDi mapper

This directory models the mapper under `src/src/bidiMapper`: the part of
chromium-bidi that translates WebDriver BiDi commands into Chrome DevTools
Protocol (CDP) commands and CDP events into BiDi events. Every module is written
from the TypeScript source. A few collaborators are not under `src/`
(BrowsingContextImpl, NetworkRequest, SubscriptionManager, Buffer). They are
modelled from `spec.md` and marked `spec_modelled` in `PROJECT.json`.

## The system

The mapper runs on one JavaScript thread. A handler runs without interruption
until it reaches an `await`. After that, other handlers may run before it
resumes. The modules follow this directly:

- a handler that never awaits is one action;
- an `async` command is one action per stretch between two awaits, and a `pc`
  variable records where the command is suspended;
- a CDP or BiDi message is a task. The continuations of the promises a task
  resolved are microtasks, and they run before the next message is handled
  (`MicrotasksPending` guards `HandleMessage` and `ProcessCommand`).

| Part | Source | State | Operations |
|---|---|---|---|
| EventManager | `domains/events/EventManager.ts` | per-(event, context) ring buffers, per-event set of contexts with events, per-(event, context, channel) last id sent, subscriptions | `registerEvent`/`registerPromiseEvent` (fan-out, buffer, mark sent), `subscribe` (subscribe and replay), `unsubscribe` |
| NetworkStorage | `domains/network/NetworkStorage.ts` | request map, intercept map, blocked-request map | `disposeRequestMap`, `deleteRequest`, `addIntercept`, `removeIntercept`, `getFetchEnableParams`, `getNetworkIntercepts`, url-pattern helpers |
| NetworkManager | `domains/network/NetworkManager.ts` | none of its own; it writes the shared storage | one CDP listener per `Network.*` event of its target, plus a detach listener |
| BrowsingContextProcessor | `domains/context/BrowsingContextProcessor.ts` | the context storage (a forest of ids) | target attach/detach and frame attach/detach listeners; the `browsingContext.*` commands |
| CommandProcessor | `CommandProcessor.ts` | none | `processCommand`: dispatch, then exactly one success or error response |
| bidiTab, mapperTabPage, rollup | `bidiTab/*`, `rollup.config.mjs` | none | bootstrap, UI and build |

How the parts interact:

- **One NetworkStorage for all targets.** CommandProcessor creates a single
  NetworkStorage (`CommandProcessor.ts:87`). Every CdpTarget's NetworkManager
  writes to that same instance.
- **Context tree from CDP events.** BrowsingContextProcessor builds the tree as
  targets and frames attach and detach.
- **Events to clients.** EventManager fans events out to client channels. When
  it replays buffered events, it checks the context storage.
- **Asynchronous commands.** CommandProcessor's `processCommand` is not awaited
  by its caller. Commands therefore interleave with each other and with the CDP
  listeners.

What makes the system hard:

- the order in which a CDP answer and a CDP event arrive (close);
- lifecycle promises that are never settled (create, and close with
  promptUnload);
- the redirect algorithm, which replaces a request record in the middle of the
  event stream;
- a shared map disposed by one target's listener;
- replay, which must neither repeat nor skip events across resubscription and
  across global and per-context subscriptions.

## Modules

The modules, in dependency order:

1. **`EventManager.tla`**: the broker.
   - **State:** the variables mirror the class fields, with `lastId` for
     IdWrapper's counter and `sent` for the messages emitted per channel.
   - **Actions:** `RegisterPromiseEvent`, `Subscribe`, `Unsubscribe` and
     `DisposeContext`. `RegisterPromiseEvent` takes the subscribed channels
     first, then runs `BufferEvent`, then emits and marks.
   - **Subscribe:** a `FoldLeft` of `SubscribeStep` over the command's
     context-id list. This keeps the code's loop order.
   - **Replay:** `GetBufferedEvents` is `#getBufferedEvents`, including the
     merge of live contexts' buffers for a global subscription.
   - **Refinement:** `Broker == INSTANCE EventBroker WITH nextId <- lastId,
     recent <- eventBuffers` maps the broker onto its abstract specification.
     `EventBrokerRefined == Broker!Spec` is checked as a PROPERTY.
2. **`EventBroker.tla`**: the abstract broker (spec §3, §5 and §8.2-8.4).
   - **State:** occurrences, the last `BufferLength` of each (name, context),
     subscriptions, live contexts, and what each channel received.
   - **Subscribe:** sends, per listed context and in ascending id order, the
     retained occurrences the channel has never received. For a global
     subscription these come from no context and from every live context.
   - **What the refinement shows:** the code keeps only the last id sent per
     (name, context, channel). That one number decides "not received yet" as
     well as the channel's whole history would.
3. **`NetworkStorage.tla`**: the storage's maps.
   - **Request map:** its operations are operators on a map value, so that
     NetworkManager can compose them the way `create` chains them
     (`deleteRequest` then `createRequest(..).onRequestWillBeSentEvent`).
   - **Requests:** a NetworkRequest is reduced to whether it has its primary
     info, its url and its redirect count.
   - **Url patterns:** only patterns of type `'string'` are modelled here.
   - **Blocked requests:** `#blockedRequestMap` maps a request id to the phase
     it is paused at; the Fetch job id and response data are abstracted.
4. **`InterceptRegistry.tla`**: the abstract specification of the intercept
   commands (spec §4.3 and §8.8).
   - **State:** each configuration (url patterns and phases) has at most one
     id; ids are never reused.
   - **Add:** returns the configuration's existing id, or a fresh one.
   - **Remove:** of an unknown id, changes nothing.
5. **`UrlPattern.tla`**: the structured ("pattern") url patterns.
   - **Code:** `buildUrlPatternString`, `isSpecialScheme`, and
     `matchUrlPattern` with URLPattern semantics (absent fields are
     wildcards).
   - **Strings:** sequences of one-character strings.
   - **References:** CDP's url-pattern matching (`GlobMatch`, a RECURSIVE
     operator) and the browser's url serialization.
   - **State:** one registered pattern and one request url, so that TLC
     checks every pair in the bounded sets.
6. **`NetworkManager.tla`**: extends NetworkStorage.
   - One action per listener that `NetworkManager.create` registers:
     `RequestWillBeSent`, `OnSubEvent` for the five sub-events, and
     `DetachedFromTarget`.
   - Target attach.
   - The two intercept commands.
   - **The pause and resume lifecycle (spec §4.3; its callers are not under
     `src/`):**
     - `RequestPaused`: Fetch pauses a request of an attached target at the
       stage of a matching Fetch pattern. If `getNetworkIntercepts` reports
       intercepts, the request is stored blocked and stays paused; otherwise
       it continues.
     - `ResumeBlockedRequest`: one of the five `network.continue*`,
       `failRequest` or `provideResponse` commands looks the entry up,
       removes it and resumes the request.
   - `paused` is the browser's side: the requests Fetch holds. A paused
     request emits no network events, and a detach drops its target's
     paused requests.
   - `Owner` says which target's session reports each request.
   - `hops` and `lastUrl` are history variables for the properties.
   - `Registry == INSTANCE InterceptRegistry WITH idOf <- IdOf, ...` maps the
     intercept map onto the abstract registry: a configuration's id is the
     one whose entry holds it. `InterceptRegistryRefined == Registry!Spec` is
     checked as a PROPERTY.
7. **`CdpBrowser.tla`**: the browser, as environment. It is not code of the
   repository and is not in the map.
   - **Connection:** one FIFO queue of events and answers. CDP delivers them in
     order over one connection.
   - **Commands:** it answers `Target.createTarget`, `Target.closeTarget` and
     `Page.close`.
     - For closeTarget, the detach comes before or after the answer.
     - For Page.close, the page may stay after a beforeunload prompt.
     - A page that is gone answers "Not attached to an active page".
     - A context's own command is answered ok while its target is there,
       and with an error otherwise.
   - **Other events:** it may destroy pages, emit the about:blank load, and
     attach, swap (OOPiF) or remove frames.
8. **`BrowsingContextProcessor.tla`**: the listeners and the close and create
   commands.
   - **Close:** `CloseStart` covers everything up to the CDP command.
     `CloseOnAnswer` handles the CDP answer: it swallows `notAttached` and
     rethrows other errors. `CloseResume` runs after the detach promise.
   - **Create:** `CreateStart`, then `CreateOnAnswer`, which is `getContext`
     and then awaiting `lifecycleLoaded`. `CreateResume` returns the id.
   - **Context commands:** navigate and reload (with wait `none`), activate,
     setViewport, print, captureScreenshot, handleUserPrompt and
     traverseHistory share one path.
     `ContextCommandStart` covers `getContext` and, for activate and
     setViewport, the top-level check. `ContextCommandOnAnswer` handles the
     one CDP round trip. traverseHistory's two CDP calls are abstracted to
     that one round trip.
   - **getTree:** `GetTree`, which changes nothing.
   - **Attach:** `IsValidTarget` is `#isValidTarget`: the mapper's own tab is
     ignored.
   - **Detach listeners:** close's listeners run in `HandleDetachedFromTarget`,
     after the processor's own listener, in registration order.
9. **`CommandProcessor.tla`**: the dispatch switch and the composition.
   - The commands are close, create, the context commands, getTree,
     `browsingContext.locateNodes` (which
     throws UnsupportedOperationException) and `session.new` (which falls out
     of the switch to UnknownCommandException).
   - `Next` is the mapper's steps or the browser's steps.
10. **`MC_*.tla` and `*.cfg`**: instantiate the modules with model values.


## Runs

| Run | cfg | Expect | Checks |
|---|---|---|---|
| em_delivery | `MC_EventManager.cfg` | pass | `InOrderOnce`, `SubscribedSeesBuffered`, `EventBrokerRefined`, `NoEventOfDisposedContext` |
| em_channels | `MC_EventManager_channels.cfg` | pass | `SubscribedSeesBuffered`, `EventBrokerRefined` |
| net_storage | `MC_NetworkManager.cfg` | pass | `RedirectChain`, `InterceptRegistryRefined`, `FetchCoversIntercepts` |
| net_detach | `MC_NetworkManager_detach.cfg` | violation | `DetachDisposesOwnRequestsOnly` |
| ctx_commands | `MC_CommandProcessor.cfg` | pass | `ClosedContextGone`, `MapperInSync`, `CreatedContextLoaded`, `AnsweredUnlessLifecycleWait` |
| cmd_answered | `MC_CommandProcessor_answered.cfg` | violation | `EveryCommandAnswered` |
| url_full | `MC_UrlPattern_full.cfg` | pass | `FullPatternPausesIntercepted` |
| url_exact | `MC_UrlPattern.cfg` | violation | `FullPatternExact` |
| url_fetch | `MC_UrlPattern_fetch.cfg` | violation | `FetchPausesIntercepted` |

### em_delivery

Bounds:

- two contexts and the null context;
- one buffer-able event (`log.entryAdded`) and one other event;
- a buffer of length 2;
- one channel;
- at most 3 events.

Context-id lists have one or two distinct entries, so a command can mix a
global and a per-context subscription, or list two contexts.

Three events are enough to fill a buffer and push the oldest out. They also
let an event be sent live, then the channel unsubscribe and resubscribe.
Symmetry over contexts is sound because nothing in the model tells contexts
apart.

Result: 125,400 distinct states, in about 90 seconds. With two channels and
these bounds the run takes about six minutes, which is why the channel
question has a run of its own.

`EventBrokerRefined` fails if `#bufferEvent` does not note the context in
`#eventToContextsMap`. Then a global subscription misses the retained
occurrences of that context, which the abstract broker owes.

### em_channels

Bounds:

- two contexts and the null context;
- only the buffer-able event;
- a buffer of length 2;
- two channels;
- at most 3 events.

The other event name is left out because it is never buffered or marked as
sent, so it cannot tell the channels apart. This run asks whether what one
channel received can suppress a replay owed to another channel.
`#markEventSent` keys `#lastMessageSent` by (name, context, channel). If the
key left out the channel, one channel's subscribe would mark the retained
occurrences as sent for every channel, and a second channel subscribing
afterwards would get nothing. With one channel, em_delivery cannot see this.
This mutant of `MarkEventsSent` passes em_delivery but breaks both properties
here.

Result: 45,172 distinct states, in about 55 seconds.

### net_storage and net_detach

Bounds:

- two targets;
- two requests, `r1` owned by `t1` and `r2` owned by `t2`;
- two urls;
- two intercept ids;
- up to three `requestWillBeSent` per request, which gives two redirects;
- four intercept inputs: one with no patterns, and two that have the same
  patterns and phases in a different order (which JSON.stringify tells apart).

`InterceptRegistryRefined` shows that the intercept map implements
`InterceptRegistry`. Without the deduplication loop in `addIntercept`, it
fails: an add creates a duplicate entry, a remove then deletes one of the two
ids, and the abstract registry has no matching step.

The pause and resume actions run in this run, but no property is stated
about the blocked-request map. Spec §3 and §4.3 delete an entry only when a
resume command is issued, and that is what the code does. What a resume on a
detached session does next happens in NetworkProcessor, which is not under
`src/`.

Result: 36,783 distinct states.

**net_detach** finds the code bug below. It is a two-step trace: t1's request
is recorded, then t2 detaches.

### ctx_commands and cmd_answered

Bounds:

- two pages, one of them open at start;
- one frame, in page `p1`;
- two concurrent commands;
- closes of a page or of the frame, with and without promptUnload;
- creates with no reference context, with a page, and with the frame;
- activate of the page and of the frame (the second fails the top-level
  check);
- print of the page a create may open;
- navigate of the frame;
- getTree of everything and of the frame;
- `locateNodes` and `session.new`.

Result: 403,902 distinct states, in about 35 seconds.

`MapperInSync` compares the mapper's context tree with the browser's whenever
the message queue is empty. This covers frames that attach, swap to an
out-of-process iframe (OOPiF) and are removed, and pages that close or are
destroyed.

`CreatedContextLoaded` also says the id create returns names a context that
is still stored. This holds only because of the microtask rule. Without the
guard on `HandleMessage`, TLC finds a close of the new page handled between
its load and create's continuation.

Deadlock checking is off. An idle mapper with nothing to do really stops.

Fairness, and why the code justifies it:

- The JavaScript event loop eventually runs every queued message and every
  resolved continuation: weak fairness of `HandleMessage`, `CloseResume` and
  `CreateResume`.
- The browser eventually answers every CDP command.
- A page the browser was told to close eventually goes away.
- A live new page eventually finishes its about:blank load.

Users, tabs, frames and beforeunload prompts get no fairness.

`AnsweredUnlessLifecycleWait` holds for every command except create and a
close with promptUnload. `EveryCommandAnswered`
is violated: a close with promptUnload whose page stays open is never answered.
The cmd_answered run leaves create out of its inputs
(`MCAnsweredInputs`). This model's browser opens only `p2`, so a second
create would wait forever for an answer that a real browser always gives.
Create's own wait, for the load, is abandoned only when its page is torn
down, and spec §5 excuses that.

### url_full, url_exact and url_fetch

Bounds:

- **Pattern fields:**
  - protocol: absent, `ws`, `ws:`, or the non-special `x`;
  - hostname: absent or `a`;
  - port: absent or `1`;
  - pathname: absent, `p` or `/p`;
  - search: absent, `q` or `?q`.

  That is 144 patterns. Each separator is tried both present and missing.
- **Request urls:** 24, from `ws` with two hosts, with and without a port,
  the paths `/`, `/p` and `/pxq`, and with and without a query. `/pxq` differs
  from `/p?q` only at the character where the pattern's `?` goes.

`FullPatternPausesIntercepted` passes on 3,456 states. For a pattern that sets
every field, CDP pauses every url that URLPattern intercepts. If the `/` check
on the pathname is dropped, it fails.

`FullPatternExact` adds the other direction: CDP pauses nothing else. It is
violated (second finding). `FetchPausesIntercepted` is violated (third
finding).

## Findings

- **code_bug.** The detach listener at `NetworkManager.ts:70` clears the
  shared request map. So one target's detach disposes the requests of every
  other target. Spec §4.3 says only that target's records.
- **code_bug** (`NetworkStorage.ts:224`). The `?` that `buildUrlPatternString`
  puts before `search` is not escaped, and in a CDP url pattern `?` matches
  any one character. So the full pattern `{ws, a, 1, p, q}` becomes
  `ws://a:1/p?q`, and CDP matches `ws://a:1/pxq` with it. URLPattern does not
  intercept that url, because its pathname is `/pxq`. Fetch therefore pauses
  requests that `getNetworkIntercepts` reports as not intercepted (url_exact).
- **code_bug** (`NetworkStorage.ts:182`). `buildUrlPatternString` turns a
  pattern's absent fields into nothing instead of a wildcard. Also, the `?` it
  puts before `search` is a one-character wildcard in CDP. Example: the
  pattern `{search: "q"}` becomes `?q`, which only matches two-character
  urls. Meanwhile URLPattern intercepts `ws://a/?q`. Fetch never pauses such a
  request, although spec §4.3 says absent fields are wildcards.
- **spec_code_divergence.** close with promptUnload (`:262`) awaits the
  detach with no timeout. If a beforeunload prompt is dismissed, the page
  stays open and the close is never answered. Spec §8.1 says every command
  gets exactly one response, and §5 excuses only waits whose target was torn
  down.

## Not modelled, and why

- **Outside the scope:**
  - navigate and reload with a readiness state other than `none`. They wait
    on BrowsingContextImpl's lifecycle events, and BrowsingContextImpl is not
    under `src/`;
  - the resume commands' checks of the phase. Each resume command (for
    example continueResponse) requires a phase, but the check is in
    NetworkProcessor, which is not under `src/`;
  - SubscriptionManager's channel priority (spec §5(3)) and module-name
    expansion. SubscriptionManager is not under `src/`, and modelling it from
    the spec would make the ordering hold by construction;
  - bidiTab, mapperTabPage and `rollup.config.mjs`. Spec §1 puts the debug UI,
    process bootstrapping and packaging outside the core;
  - the script, input, storage, cdp and browser domains. Their processors are
    not under `src/`.
- **Beyond the finite model:**
  - `targetInfoChanged`, which changes only descriptive metadata;
  - the preload-script disposal on detach;
  - the growth of EventManager's per-context keys, which needs unboundedly
    many contexts.

## Plan

Next steps, in order:

1. **Pause of a disposed request:** once the spec says how a
   `Fetch.requestPaused` for a request without a record is handled, model it.
   Today `RequestPaused` requires the record. A record disposed by another
   target's detach (the net_detach bug) would make `getNetworkIntercepts`
   return nothing for it.

Composing EventManager with BrowsingContextProcessor's subtree disposal is
not planned. Disposing a subtree at once only removes intermediate steps that
disposing one context at a time already covers, so no safety property can
change.
