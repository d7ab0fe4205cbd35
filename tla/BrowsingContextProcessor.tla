----------------------- MODULE BrowsingContextProcessor -----------------------
(***************************************************************************)
(* The browsing-context tracker and its two asynchronous commands:        *)
(* src/bidiMapper/domains/context/BrowsingContextProcessor.ts.            *)
(*                                                                         *)
(* The CDP event listeners (#setEventListeners) keep the context storage  *)
(* (a forest of context ids) in step with the browser's targets and       *)
(* frames.  browsingContext.close and browsingContext.create suspend on   *)
(* CDP round trips and lifecycle promises; each stretch of code between   *)
(* two awaits is one action, and the command's position is pc.  The       *)
(* result of a command is emitted as CommandProcessor.processCommand does *)
(* (ProcessCommandResult).  BrowsingContextImpl (not under src/) is       *)
(* modelled from the spec: a context has a parent, disposal takes its     *)
(* children with it, and lifecycleLoaded resolves on the page's "load".   *)
(***************************************************************************)
EXTENDS CdpBrowser

(* Outcomes of a command: success, an Exception's error kind, or "unknown *)
(* error" for anything else thrown.                                        *)
Outcomes == {"success", "no such frame", "invalid argument", "unknown command",
             "unsupported operation", "unknown error"}

(* Where a command is: not received, suspended at one of the awaits of    *)
(* close, create or a context command, or done.                            *)
Pcs == {"idle", "closeAwaitCmd", "closeAwaitDetach", "createAwaitCmd",
        "createAwaitLoad", "contextAwaitCmd", "done"}

VARIABLES
  contexts,    \* BrowsingContextStorage: ids of the stored contexts
  parent,      \* a stored context's parent id, None for a top-level one
  loaded,      \* contexts whose lifecycleLoaded() promise has resolved
  pc,          \* per command: where its handler is suspended
  arg,         \* per command: the parsed command envelope
  listening,   \* per close command: target id its detach listener waits for
  detachSeen,  \* close commands whose detachedFromTargetPromise resolved
  created,     \* per create command: the targetId Target.createTarget returned
  swallowed,   \* close commands that swallowed "Not attached to an active page"
  response     \* per command: the outcome emitted (None before)

ctxVars == <<contexts, parent, loaded>>
cmdVars == <<pc, arg, listening, detachSeen, created, swallowed, response>>
vars == <<browserVars, ctxVars, cmdVars>>

-----------------------------------------------------------------------------
(* Helpers                                                                  *)

(* The stored contexts of the subtree rooted at c: BrowsingContextImpl's  *)
(* dispose disposes the children first.                                   *)
RECURSIVE Subtree(_, _)
Subtree(c, S) == IF c \notin S THEN {}
                 ELSE {c} \cup UNION {Subtree(x, S \ {c}) : x \in {y \in S : parent[y] = c}}

Dispose(c) ==
  /\ contexts' = contexts \ Subtree(c, contexts)
  /\ UNCHANGED <<parent, loaded>>

IsTopLevel(c) == parent[c] = None

(* CommandProcessor.processCommand: the handler's outcome becomes the one *)
(* response of the command.                                               *)
ProcessCommandResult(c, outcome) ==
  /\ response' = [response EXCEPT ![c] = outcome]
  /\ pc' = [pc EXCEPT ![c] = "done"]

-----------------------------------------------------------------------------
(* CDP event listeners: each handles the message at the head of the queue. *)

(* Mutant: #isValidTarget's check of the mapper's own target is dropped.  *)
HandleAttachedToTargetAnyTarget(id) ==
  IF id \in contexts
    THEN UNCHANGED ctxVars
    ELSE /\ contexts' = contexts \cup {id}
         /\ parent' = [parent EXCEPT ![id] = None]
         /\ UNCHANGED loaded

(* #isValidTarget: not the mapper's own tab, and a page or an iframe (the *)
(* only target types CdpBrowser reports).                                  *)
IsValidTarget(id) == id # SelfTarget /\ id \in Pages \cup Frames

(* #handleAttachedToTargetEvent: an invalid target is ignored (released); *)
(* a target with a stored context is an OOPiF rebound to its new          *)
(* CdpTarget; otherwise a new top-level context (parent null).            *)
HandleAttachedToTarget(id) ==
  IF ~IsValidTarget(id) \/ id \in contexts
    THEN UNCHANGED ctxVars
    ELSE /\ contexts' = contexts \cup {id}
         /\ parent' = [parent EXCEPT ![id] = None]
         /\ UNCHANGED loaded

(* Mutant: the close commands' listeners are never called.               *)
HandleDetachedFromTargetNoListener(id) ==
  /\ IF id \in contexts THEN Dispose(id) ELSE UNCHANGED ctxVars
  /\ UNCHANGED <<detachSeen, listening>>

(* #handleDetachedFromTargetEvent, then every close command's listener   *)
(* for this target (registered later, so called after it): the promise   *)
(* resolves and the listener is removed.                                  *)
HandleDetachedFromTarget(id) ==
  /\ IF id \in contexts THEN Dispose(id) ELSE UNCHANGED ctxVars
  /\ LET ls == {c \in Cmds : listening[c] = id} IN
       /\ detachSeen' = detachSeen \cup ls
       /\ listening' = [c \in Cmds |-> IF c \in ls THEN None ELSE listening[c]]

(* #handleFrameAttachedEvent: a child of a known parent frame, else       *)
(* nothing.                                                               *)
HandleFrameAttached(id) ==
  IF FrameParent[id] \in contexts
    THEN /\ contexts' = contexts \cup {id}
         /\ parent' = [parent EXCEPT ![id] = FrameParent[id]]
         /\ UNCHANGED loaded
    ELSE UNCHANGED ctxVars

(* Mutant: a swap disposes the frame's context like a removal.            *)
HandleFrameDetachedAnyReason(id, reason) ==
  IF id \notin contexts THEN UNCHANGED ctxVars ELSE Dispose(id)

(* #handleFrameDetachedEvent: nothing for a swap (OOPiF), else dispose.   *)
HandleFrameDetached(id, reason) ==
  IF reason = "swap" \/ id \notin contexts THEN UNCHANGED ctxVars ELSE Dispose(id)

(* BrowsingContextImpl: the "load" lifecycle event resolves                *)
(* lifecycleLoaded().                                                      *)
HandleLoad(id) ==
  /\ IF id \in contexts THEN loaded' = loaded \cup {id} ELSE UNCHANGED loaded
  /\ UNCHANGED <<contexts, parent>>

(* Mutant: close returns as soon as its CDP command is answered.           *)
CloseOnAnswerNoWait(c, res) ==
  /\ IF res = "ok" \/ res = "notAttached"
       THEN ProcessCommandResult(c, "success")
       ELSE ProcessCommandResult(c, "unknown error")
  /\ swallowed' = IF res = "notAttached" THEN swallowed \cup {c} ELSE swallowed
  /\ UNCHANGED created

(* The answer to close's CDP command resumes it: on success it goes on to *)
(* await detachedFromTargetPromise; "Not attached to an active page" is   *)
(* swallowed and close returns {}; any other CDP error is rethrown and,   *)
(* not being an Exception, answered as "unknown error".                   *)
CloseOnAnswer(c, res) ==
  /\ IF res = "ok"
       THEN /\ pc' = [pc EXCEPT ![c] = "closeAwaitDetach"]
            /\ UNCHANGED <<response, swallowed>>
     ELSE IF res = "notAttached"
       THEN /\ ProcessCommandResult(c, "success")
            /\ swallowed' = swallowed \cup {c}
     ELSE /\ ProcessCommandResult(c, "unknown error")
          /\ UNCHANGED swallowed
  /\ UNCHANGED created

(* Mutant: create does not wait for lifecycleLoaded.                       *)
CreateOnAnswerNoWait(c, id) ==
  /\ IF id \in contexts
       THEN ProcessCommandResult(c, "success")
       ELSE ProcessCommandResult(c, "no such frame")
  /\ created' = [created EXCEPT ![c] = id]
  /\ UNCHANGED swallowed

(* The answer to Target.createTarget resumes create: getContext(targetId) *)
(* (NoSuchFrameException if the context is not stored), then it awaits   *)
(* the context's lifecycleLoaded().                                       *)
CreateOnAnswer(c, id) ==
  /\ IF id \in contexts
       THEN /\ pc' = [pc EXCEPT ![c] = "createAwaitLoad"]
            /\ UNCHANGED response
       ELSE ProcessCommandResult(c, "no such frame")
  /\ created' = [created EXCEPT ![c] = id]
  /\ UNCHANGED swallowed

(* The answer to a context command's CDP command: the delegate resolves  *)
(* and the command returns, or the CDP error is rethrown (unknown error). *)
ContextCommandOnAnswer(c, res) ==
  /\ ProcessCommandResult(c, IF res = "ok" THEN "success" ELSE "unknown error")
  /\ UNCHANGED <<created, swallowed>>

HandleAnswer(m) ==
  /\ CASE pc[m.cmd] = "closeAwaitCmd"   -> CloseOnAnswer(m.cmd, m.res)
       [] pc[m.cmd] = "createAwaitCmd"  -> CreateOnAnswer(m.cmd, m.id)
       [] pc[m.cmd] = "contextAwaitCmd" -> ContextCommandOnAnswer(m.cmd, m.res)
  /\ UNCHANGED <<ctxVars, arg, listening, detachSeen>>

(* The JS event loop: a message is a task, and the continuations of the    *)
(* promises a task resolved (close's detachedFromTargetPromise, create's   *)
(* lifecycleLoaded) are microtasks that run before the next task.          *)
MicrotasksPending ==
  \E c \in Cmds : \/ pc[c] = "closeAwaitDetach" /\ c \in detachSeen
                  \/ pc[c] = "createAwaitLoad" /\ created[c] \in loaded

(* The mapper takes the next message off the connection.                  *)
HandleMessage ==
  /\ ~MicrotasksPending
  /\ queue # <<>>
  /\ LET m == Head(queue) IN
     /\ queue' = Tail(queue)
     /\ IF m.type = "reply" THEN HandleAnswer(m)
        ELSE /\ CASE m.type = "attachedToTarget"   -> HandleAttachedToTarget(m.id)
                  [] m.type = "detachedFromTarget" -> HandleDetachedFromTarget(m.id)
                  [] m.type = "frameAttached"      -> HandleFrameAttached(m.id)
                  [] m.type = "frameDetached"      -> HandleFrameDetached(m.id, m.res)
                  [] m.type = "load"               -> HandleLoad(m.id)
             /\ UNCHANGED <<pc, arg, created, swallowed, response>>
             /\ IF m.type = "detachedFromTarget" THEN TRUE
                ELSE UNCHANGED <<listening, detachSeen>>
  /\ UNCHANGED <<page, frame, loadSent, requests>>

-----------------------------------------------------------------------------
(* The synchronous starts of the two commands, up to their first await.   *)

(* close: getContext (NoSuchFrameException), the top-level check          *)
(* (InvalidArgumentException), the detach listener, then Page.close via   *)
(* context.close() when promptUnload, else Target.closeTarget.            *)
CloseStart(c, ctx, promptUnload) ==
  IF ctx \notin contexts
    THEN ProcessCommandResult(c, "no such frame") /\ UNCHANGED <<requests, listening>>
  ELSE IF ~IsTopLevel(ctx)
    THEN ProcessCommandResult(c, "invalid argument") /\ UNCHANGED <<requests, listening>>
  ELSE /\ listening' = [listening EXCEPT ![c] = ctx]
       /\ requests' = requests \cup
            {[cmd |-> c, kind |-> IF promptUnload THEN "pageClose" ELSE "closeTarget", id |-> ctx]}
       /\ pc' = [pc EXCEPT ![c] = "closeAwaitCmd"]
       /\ UNCHANGED response

(* create: the reference context, if given, must be stored and top-level; *)
(* then Target.createTarget (about:blank, new tab or window).             *)
CreateStart(c, ref) ==
  IF ref # None /\ ref \notin contexts
    THEN ProcessCommandResult(c, "no such frame") /\ UNCHANGED requests
  ELSE IF ref # None /\ ~IsTopLevel(ref)
    THEN ProcessCommandResult(c, "invalid argument") /\ UNCHANGED requests
  ELSE /\ requests' = requests \cup {[cmd |-> c, kind |-> "createTarget", id |-> None]}
       /\ pc' = [pc EXCEPT ![c] = "createAwaitCmd"]
       /\ UNCHANGED response

(* navigate, reload, activate, setViewport, print, captureScreenshot,     *)
(* handleUserPrompt, traverseHistory: getContext (NoSuchFrameException),  *)
(* for activate and setViewport the top-level check                       *)
(* (InvalidArgumentException), then the context's own CDP command through *)
(* BrowsingContextImpl.  navigate and reload are taken with wait 'none':  *)
(* their delegate is the one round trip; the lifecycle waits of the other *)
(* readiness states are BrowsingContextImpl's (not under src/).           *)
ContextCommandStart(c, ctx, topLevelOnly) ==
  IF ctx \notin contexts
    THEN ProcessCommandResult(c, "no such frame") /\ UNCHANGED requests
  ELSE IF topLevelOnly /\ ~IsTopLevel(ctx)
    THEN ProcessCommandResult(c, "invalid argument") /\ UNCHANGED requests
  ELSE /\ requests' = requests \cup {[cmd |-> c, kind |-> "context", id |-> ctx]}
       /\ pc' = [pc EXCEPT ![c] = "contextAwaitCmd"]
       /\ UNCHANGED response

(* getTree: the top-level contexts, or getContext(root) (NoSuchFrame-      *)
(* Exception), serialized; nothing changes.                               *)
GetTree(c, root) ==
  ProcessCommandResult(c, IF root = None \/ root \in contexts THEN "success" ELSE "no such frame")

(* close, after the CDP answer: await detachedFromTargetPromise, then {}. *)
CloseResume(c) ==
  /\ pc[c] = "closeAwaitDetach"
  /\ c \in detachSeen
  /\ ProcessCommandResult(c, "success")
  /\ UNCHANGED <<browserVars, ctxVars, arg, listening, detachSeen, created, swallowed>>

(* create, after getContext: await context.lifecycleLoaded(), then the id. *)
CreateResume(c) ==
  /\ pc[c] = "createAwaitLoad"
  /\ created[c] \in loaded
  /\ ProcessCommandResult(c, "success")
  /\ UNCHANGED <<browserVars, ctxVars, arg, listening, detachSeen, created, swallowed>>
=============================================================================
