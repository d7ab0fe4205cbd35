----------------------------- MODULE EventBroker -----------------------------
(***************************************************************************)
(* What the event broker promises (spec 3 "EventBroker", 5 and 8.2-8.4),   *)
(* without EventManager's bookkeeping.  Every occurrence of an event goes  *)
(* to the channels subscribed to its name for its context or globally at   *)
(* that moment.  The broker retains the last BufferLength occurrences of   *)
(* each buffer-able name per context; a channel that subscribes receives,  *)
(* context by context in the order of the command and in ascending id     *)
(* order within each, the retained occurrences it has not received yet -  *)
(* for a global subscription those of no context and of every context     *)
(* that still exists.                                                      *)
(*                                                                         *)
(* "Not received yet" is said here of the channel's whole history; the     *)
(* implementation (EventManager) keeps one number per (name, context,      *)
(* channel) instead.                                                       *)
(***************************************************************************)
EXTENDS Naturals, Sequences, SequencesExt, FiniteSets

CONSTANTS EventNames, BufferedEvents, BufferLength, Contexts, NoContext,
          Channels, MaxEvents

VARIABLES
  nextId,         \* id of the newest occurrence
  recent,         \* (name, context) -> its retained occurrences, oldest first
  subscriptions,  \* set of (name, context or NoContext, channel)
  contexts,       \* contexts that exist
  sent            \* channel -> the messages it received, in order

vars == <<nextId, recent, subscriptions, contexts, sent>>

Msg(name, o) == [name |-> name, id |-> o.id, ctx |-> o.ctx]

(* The last BufferLength elements of s.                                    *)
LastOf(s) == IF Len(s) <= BufferLength THEN s
             ELSE SubSeq(s, Len(s) - BufferLength + 1, Len(s))

Subscribed(name, ctx, ch) ==
  <<name, ctx, ch>> \in subscriptions \/ <<name, NoContext, ch>> \in subscriptions

(* The contexts whose retained occurrences a subscription for ctx covers. *)
Sources(ctx) == IF ctx = NoContext THEN {NoContext} \cup contexts ELSE {ctx}

(* The retained occurrences a subscription for ctx owes a channel that     *)
(* has received out, in ascending id order.                                *)
Owed(name, ctx, out) ==
  IF name \notin BufferedEvents THEN <<>>
  ELSE SetToSortSeq({Msg(name, o) : o \in UNION {ToSet(recent[<<name, s>>]) : s \in Sources(ctx)}}
                      \ ToSet(out),
                    LAMBDA m1, m2 : m1.id < m2.id)

Init ==
  /\ nextId = 0
  /\ recent = [k \in BufferedEvents \X (Contexts \cup {NoContext}) |-> <<>>]
  /\ subscriptions = {}
  /\ contexts = Contexts
  /\ sent = [ch \in Channels |-> <<>>]

Occur(name, ctx) ==
  LET o == [id |-> nextId + 1, ctx |-> ctx] IN
  /\ nextId < MaxEvents
  /\ ctx \in contexts \cup {NoContext}
  /\ nextId' = nextId + 1
  /\ recent' = IF name \in BufferedEvents
                 THEN [recent EXCEPT ![<<name, ctx>>] = LastOf(Append(@, o))]
                 ELSE recent
  /\ sent' = [ch \in Channels |->
                IF Subscribed(name, ctx, ch) THEN Append(sent[ch], Msg(name, o))
                ELSE sent[ch]]
  /\ UNCHANGED <<subscriptions, contexts>>

Subscribe(name, ctxIds, ch) ==
  LET Catch(out, ctx) == out \o Owed(name, ctx, out) IN
  /\ \A i \in DOMAIN ctxIds : ctxIds[i] \in contexts \cup {NoContext}
  /\ subscriptions' = subscriptions \cup {<<name, ctxIds[i], ch>> : i \in DOMAIN ctxIds}
  /\ sent' = [sent EXCEPT ![ch] = FoldLeft(Catch, @, ctxIds)]
  /\ UNCHANGED <<nextId, recent, contexts>>

Unsubscribe(name, ctxIds, ch) ==
  /\ subscriptions' = subscriptions \ {<<name, ctxIds[i], ch>> : i \in DOMAIN ctxIds}
  /\ UNCHANGED <<nextId, recent, contexts, sent>>

Dispose(c) ==
  /\ c \in contexts
  /\ contexts' = contexts \ {c}
  /\ UNCHANGED <<nextId, recent, subscriptions, sent>>

(* Context id lists of a command, as long as one entry per context.        *)
ContextIdLists == BoundedSeq(Contexts \cup {NoContext}, Cardinality(Contexts) + 1)

Next ==
  \/ \E n \in EventNames, c \in Contexts \cup {NoContext} : Occur(n, c)
  \/ \E n \in EventNames, ch \in Channels, l \in ContextIdLists : Subscribe(n, l, ch)
  \/ \E n \in EventNames, ch \in Channels, l \in ContextIdLists : Unsubscribe(n, l, ch)
  \/ \E c \in Contexts : Dispose(c)

Spec == Init /\ [][Next]_vars
=============================================================================
