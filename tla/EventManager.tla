---------------------------- MODULE EventManager ----------------------------
(***************************************************************************)
(* The event broker of the mapper: src/bidiMapper/domains/events/          *)
(* EventManager.ts.  It fans every newly registered event out to the       *)
(* channels subscribed to it, keeps the last BufferLength occurrences of   *)
(* each buffer-able event per browsing context, replays the buffered       *)
(* occurrences a channel has not seen yet when the channel subscribes, and *)
(* remembers per (event, context, channel) the id of the last occurrence   *)
(* sent so that subscribe -> unsubscribe -> subscribe sends nothing twice. *)
(*                                                                         *)
(* Every handler of the class runs to completion on the single JS thread,  *)
(* so each one is one atomic action.  The collaborators that are not       *)
(* under src/ (SubscriptionManager, Buffer, IdWrapper and the context      *)
(* storage) are modelled from the spec.                                    *)
(***************************************************************************)
EXTENDS Naturals, Sequences, SequencesExt, FiniteSets

CONSTANTS
  EventNames,      \* event names the mapper supports
  BufferedEvents,  \* names in eventBufferLength (log.entryAdded)
  BufferLength,    \* eventBufferLength of the buffered names (100 in code)
  Contexts,        \* browsing context ids
  NoContext,       \* the contextId null: an event or subscription of no context
  Channels,        \* subscriber channels
  MaxEvents        \* bound on the process-wide event id counter

ASSUME BufferedEvents \subseteq EventNames
ASSUME BufferLength \in Nat \ {0}
ASSUME NoContext \notin Contexts
ASSUME MaxEvents \in Nat

CtxOrNull == Contexts \cup {NoContext}

(* An EventWrapper: the id IdWrapper gave it and its context id.           *)
Wrapper == [id : 1..MaxEvents, ctx : CtxOrNull]

(* What the EventManagerEvents.Event emission carries to one channel.      *)
Message == [name : EventNames, id : 1..MaxEvents, ctx : CtxOrNull]

VARIABLES
  lastId,            \* IdWrapper's counter: id of the newest EventWrapper
  eventBuffers,      \* #eventBuffers: (name, context) -> Buffer<EventWrapper>
  eventToContexts,   \* #eventToContextsMap: name -> contexts having events
  lastMessageSent,   \* #lastMessageSent: (name, context, channel) -> last id
  subscriptions,     \* SubscriptionManager: set of (name, context, channel)
  contexts,          \* BrowsingContextStorage: ids of live contexts
  sent               \* per channel, the messages emitted to it, in order

vars == <<lastId, eventBuffers, eventToContexts, lastMessageSent,
          subscriptions, contexts, sent>>

TypeOK ==
  /\ lastId \in 0..MaxEvents
  /\ eventBuffers \in [BufferedEvents \X CtxOrNull -> Seq(Wrapper)]
  /\ \A k \in DOMAIN eventBuffers : Len(eventBuffers[k]) <= BufferLength
  /\ eventToContexts \in [BufferedEvents -> SUBSET CtxOrNull]
  /\ lastMessageSent \in [BufferedEvents \X CtxOrNull \X Channels -> 0..MaxEvents]
  /\ subscriptions \subseteq EventNames \X CtxOrNull \X Channels
  /\ contexts \subseteq Contexts
  /\ sent \in [Channels -> Seq(Message)]

Init ==
  /\ lastId = 0
  /\ eventBuffers = [k \in BufferedEvents \X CtxOrNull |-> <<>>]
  /\ eventToContexts = [n \in BufferedEvents |-> {}]
  \* an absent key reads as 0 (`?? 0`) or -Infinity; ids start at 1
  /\ lastMessageSent = [k \in BufferedEvents \X CtxOrNull \X Channels |-> 0]
  /\ subscriptions = {}
  /\ contexts = Contexts
  /\ sent = [c \in Channels |-> <<>>]

-----------------------------------------------------------------------------
(* Helpers                                                                  *)

(* Mutant: the oldest element is dropped only once the buffer is over its *)
(* length.                                                                 *)
BufferAddOffByOne(buf, w) ==
  IF Len(buf) > BufferLength THEN Append(Tail(buf), w) ELSE Append(buf, w)

(* Buffer.add: append, dropping the oldest element once full.              *)
BufferAdd(buf, w) ==
  IF Len(buf) = BufferLength THEN Append(Tail(buf), w) ELSE Append(buf, w)

(* SubscriptionManager.getChannelsSubscribedToEvent: the channels with a   *)
(* subscription to the name in this context or a global one.               *)
ChannelsSubscribedToEvent(name, ctx) ==
  {ch \in Channels : \/ <<name, ctx, ch>> \in subscriptions
                     \/ <<name, NoContext, ch>> \in subscriptions}

(* Mutant: the #lastMessageSent key leaves out the channel, so a send to  *)
(* one channel counts as sent to every channel.                            *)
MarkEventsSentAnyChannel(last, ws, ch, name) ==
  IF name \notin BufferedEvents THEN last
  ELSE [k \in DOMAIN last |->
          LET ids == {w.id : w \in {v \in ws : v.ctx = k[2]}}
          IN IF k[1] = name /\ ids # {}
               THEN Max({last[k]} \cup ids) ELSE last[k]]

(* #markEventSent for every wrapper of ws sent to channel ch.              *)
MarkEventsSent(last, ws, ch, name) ==
  IF name \notin BufferedEvents THEN last
  ELSE [k \in DOMAIN last |->
          LET ids == {w.id : w \in {v \in ws : v.ctx = k[2]}}
          IN IF k[1] = name /\ k[3] = ch /\ ids # {}
               THEN Max({last[k]} \cup ids) ELSE last[k]]

(* #getBufferedEvents as a set: buffered wrappers of (name, ctx) newer     *)
(* than the last one sent to ch and, for the global context, those of      *)
(* every other context that had such events and still exists.              *)
(* Mutant: the filter keeps the last sent occurrence (>= for >).          *)
BufferedOfInclusive(name, ctx, ch, last) ==
  {w \in ToSet(eventBuffers[<<name, ctx>>]) : w.id >= last[<<name, ctx, ch>>]}

BufferedOf(name, ctx, ch, last) ==
  {w \in ToSet(eventBuffers[<<name, ctx>>]) : w.id > last[<<name, ctx, ch>>]}

(* Mutant: a global subscription replays only the events of no context.  *)
GetBufferedEventsNoMerge(name, ctx, ch, last) ==
  IF name \notin BufferedEvents THEN {} ELSE BufferedOf(name, ctx, ch, last)

(* Mutant: the replay for a global subscription forgets hasContext.       *)
GetBufferedEventsAnyContext(name, ctx, ch, last) ==
  IF name \notin BufferedEvents THEN {}
  ELSE BufferedOf(name, ctx, ch, last) \cup
       IF ctx # NoContext THEN {}
       ELSE UNION {BufferedOf(name, c, ch, last) :
                     c \in {c \in eventToContexts[name] : c # NoContext}}

GetBufferedEvents(name, ctx, ch, last) ==
  IF name \notin BufferedEvents THEN {}
  ELSE BufferedOf(name, ctx, ch, last) \cup
       IF ctx # NoContext THEN {}
       ELSE UNION {BufferedOf(name, c, ch, last) :
                     c \in {c \in eventToContexts[name] :
                              c # NoContext /\ c \in contexts}}

ById(w1, w2) == w1.id < w2.id

AsMessages(name, ws) == [i \in 1..Len(ws) |-> [name |-> name, id |-> ws[i].id, ctx |-> ws[i].ctx]]

(* Mutant: the context is not noted in #eventToContextsMap.                *)
BufferEventNoContextNote(w, name) ==
  IF name \in BufferedEvents
    THEN /\ eventBuffers' = [eventBuffers EXCEPT ![<<name, w.ctx>>] = BufferAdd(@, w)]
         /\ UNCHANGED eventToContexts
    ELSE UNCHANGED <<eventBuffers, eventToContexts>>

(* #bufferEvent: nothing for a name without buffer length; otherwise the  *)
(* wrapper goes into the (name, context) buffer and the context is noted   *)
(* in #eventToContextsMap.                                                 *)
BufferEvent(w, name) ==
  IF name \in BufferedEvents
    THEN /\ eventBuffers' = [eventBuffers EXCEPT ![<<name, w.ctx>>] = BufferAdd(@, w)]
         /\ eventToContexts' = [eventToContexts EXCEPT ![name] = @ \cup {w.ctx}]
    ELSE UNCHANGED <<eventBuffers, eventToContexts>>

-----------------------------------------------------------------------------
(* Actions                                                                  *)

(* registerEvent / registerPromiseEvent: a new EventWrapper, the channels  *)
(* subscribed at that moment, #bufferEvent, then one emission and          *)
(* #markEventSent per channel.  Producers register events of live          *)
(* contexts or of no context.                                              *)
RegisterPromiseEvent(name, ctx) ==
  LET w == [id |-> lastId + 1, ctx |-> ctx]
      chans == ChannelsSubscribedToEvent(name, ctx)
  IN
  /\ lastId < MaxEvents
  /\ ctx \in contexts \cup {NoContext}
  /\ lastId' = lastId + 1
  /\ BufferEvent(w, name)
  /\ sent' = [ch \in Channels |->
                IF ch \in chans
                  THEN Append(sent[ch], [name |-> name, id |-> w.id, ctx |-> ctx])
                  ELSE sent[ch]]
  /\ lastMessageSent' =
       [k \in DOMAIN lastMessageSent |->
          IF k[1] = name /\ k[2] = ctx /\ k[3] \in chans
            THEN Max({lastMessageSent[k], w.id}) ELSE lastMessageSent[k]]
  /\ UNCHANGED <<subscriptions, contexts>>

(* One iteration of subscribe's inner loop for context ctx: subscribe,     *)
(* then emit the buffered events not yet sent, sorted by id, marking each. *)
SubscribeStep(st, name, ctx, ch) ==
  LET ws == SetToSortSeq(GetBufferedEvents(name, ctx, ch, st.last), ById)
  IN [subs |-> st.subs \cup {<<name, ctx, ch>>},
      last |-> MarkEventsSent(st.last, ToSet(ws), ch, name),
      out  |-> st.out \o AsMessages(name, ws)]

(* subscribe(eventNames, contextIds, channel) with one event name: the     *)
(* command fails before any change unless every context id is known;       *)
(* otherwise the loop runs over contextIds in order.                       *)
Subscribe(name, ctxIds, ch) ==
  LET Step(st, ctx) == SubscribeStep(st, name, ctx, ch)
      res == FoldLeft(Step, [subs |-> subscriptions, last |-> lastMessageSent,
                             out |-> sent[ch]], ctxIds)
  IN
  /\ \A i \in DOMAIN ctxIds : ctxIds[i] \in contexts \cup {NoContext}
  /\ subscriptions' = res.subs
  /\ lastMessageSent' = res.last
  /\ sent' = [sent EXCEPT ![ch] = res.out]
  /\ UNCHANGED <<lastId, eventBuffers, eventToContexts, contexts>>

(* unsubscribe: SubscriptionManager.unsubscribeAll drops the triples.      *)
Unsubscribe(name, ctxIds, ch) ==
  /\ subscriptions' = subscriptions \ {<<name, ctxIds[i], ch>> : i \in DOMAIN ctxIds}
  /\ UNCHANGED <<lastId, eventBuffers, eventToContexts, lastMessageSent, contexts, sent>>

(* A browsing context is disposed and leaves the context storage; the      *)
(* broker's buffers and subscriptions for it are left as they are.         *)
DisposeContext(c) ==
  /\ c \in contexts
  /\ contexts' = contexts \ {c}
  /\ UNCHANGED <<lastId, eventBuffers, eventToContexts, lastMessageSent, subscriptions, sent>>

(* Context id lists a command may carry: one or two distinct ids.          *)
ContextIdLists == {s \in BoundedSeq(CtxOrNull, 2) :
                     Len(s) > 0 /\ \A i, j \in DOMAIN s : i # j => s[i] # s[j]}

Next ==
  \/ \E n \in EventNames, c \in CtxOrNull : RegisterPromiseEvent(n, c)
  \/ \E n \in EventNames, l \in ContextIdLists, ch \in Channels : Subscribe(n, l, ch)
  \/ \E n \in EventNames, l \in ContextIdLists, ch \in Channels : Unsubscribe(n, l, ch)
  \/ \E c \in Contexts : DisposeContext(c)

Spec == Init /\ [][Next]_vars

-----------------------------------------------------------------------------
(* Properties                                                               *)

(* Spec 3 and 8.2-8.4: EventManager implements the broker of             *)
(* EventBroker, whose subscribe sends the retained occurrences a channel   *)
(* has not received in its whole history.  The implementation decides     *)
(* "not received" from one number per (name, context, channel), the id of *)
(* the last occurrence sent (#lastMessageSent), and finds the contexts of  *)
(* a global replay in #eventToContextsMap; the mapping keeps the broker's  *)
(* state and reads the retained occurrences from #eventBuffers.            *)
Broker == INSTANCE EventBroker WITH nextId <- lastId, recent <- eventBuffers
EventBrokerRefined == Broker!Spec

(* Spec section 5(2) and 8.3: for a fixed (event, context, channel) the    *)
(* ids sent are strictly increasing, so no occurrence reaches a channel    *)
(* twice, whatever mix of live fan-out (registerPromiseEvent), replay      *)
(* (subscribe's #getBufferedEvents) and global vs per-context              *)
(* subscriptions produced them.                                            *)
InOrderOnce ==
  \A ch \in Channels : \A i, j \in DOMAIN sent[ch] :
    /\ i < j
    /\ sent[ch][i].name = sent[ch][j].name
    /\ sent[ch][i].ctx = sent[ch][j].ctx
    => sent[ch][i].id < sent[ch][j].id

(* Spec 8.2 and 8.4: while a channel is subscribed to a buffer-able event  *)
(* for a context, or globally, every occurrence still buffered for that    *)
(* context (for a global subscription: for no context or any live one) has *)
(* been sent to it, whether it arrived before the subscription (replayed)  *)
(* or after it (fanned out).                                               *)
SubscribedSeesBuffered ==
  \A <<n, c, ch>> \in subscriptions :
    n \in BufferedEvents =>
      \A src \in IF c = NoContext THEN {NoContext} \cup contexts ELSE {c} :
        \A w \in ToSet(eventBuffers[<<n, src>>]) :
          [name |-> n, id |-> w.id, ctx |-> w.ctx] \in ToSet(sent[ch])

(* Spec 8.4: a step never sends an event of a context that is no longer   *)
(* in the context storage; replay for a global subscription skips the     *)
(* buffers of disposed contexts.                                           *)
NoEventOfDisposedContext ==
  [][\A ch \in Channels :
       \A i \in (Len(sent[ch]) + 1)..Len(sent'[ch]) :
         sent'[ch][i].ctx \in contexts \cup {NoContext}]_vars
=============================================================================
