-------------------------- MODULE CommandProcessor --------------------------
(***************************************************************************)
(* Command dispatch: src/bidiMapper/CommandProcessor.ts composed with the *)
(* browsing-context processor and the browser.  processCommand is called  *)
(* for every command as it arrives and is not awaited by its caller, so   *)
(* the commands' handlers interleave with each other and with the CDP     *)
(* event listeners at every await.  The commands modelled are             *)
(* browsingContext.close and browsingContext.create (the two whose        *)
(* handlers wait for the browser), browsingContext.locateNodes (thrown    *)
(* UnsupportedOperationException) and session.new (falls out of the       *)
(* switch: UnknownCommandException).                                      *)
(***************************************************************************)
EXTENDS BrowsingContextProcessor

CONSTANT CommandInputs  \* the parsed command envelopes a client may send

(* The context commands that only look the context up and delegate one   *)
(* CDP command (navigate and reload with wait 'none'); the first two       *)
(* require a top-level context.                                            *)
TopLevelContextCmds == {"browsingContext.activate", "browsingContext.setViewport"}
ContextCmds == TopLevelContextCmds \cup
  {"browsingContext.print", "browsingContext.captureScreenshot",
   "browsingContext.handleUserPrompt", "browsingContext.traverseHistory",
   "browsingContext.navigate", "browsingContext.reload"}

ASSUME \A x \in CommandInputs :
  x.method \in {"browsingContext.close", "browsingContext.create",
                "browsingContext.getTree", "browsingContext.locateNodes",
                "session.new"} \cup ContextCmds

TypeOK ==
  /\ BrowserTypeOK
  /\ contexts \subseteq Ids
  /\ parent \in [Ids -> Ids \cup {None}]
  /\ loaded \subseteq Ids
  /\ pc \in [Cmds -> Pcs]
  /\ arg \in [Cmds -> CommandInputs \cup {None}]
  /\ listening \in [Cmds -> Ids \cup {None}]
  /\ detachSeen \subseteq Cmds
  /\ created \in [Cmds -> Pages \cup {None}]
  /\ swallowed \subseteq Cmds
  /\ response \in [Cmds -> Outcomes \cup {None}]

Init ==
  /\ BrowserInit
  /\ contexts = {}
  /\ parent = [i \in Ids |-> None]
  /\ loaded = {}
  /\ pc = [c \in Cmds |-> "idle"]
  /\ arg = [c \in Cmds |-> None]
  /\ listening = [c \in Cmds |-> None]
  /\ detachSeen = {}
  /\ created = [c \in Cmds |-> None]
  /\ swallowed = {}
  /\ response = [c \in Cmds |-> None]

(* processCommand / #processCommand: the switch on command.method up to   *)
(* the handler's first await (or its result, when it has none).           *)
ProcessCommand(c, x) ==
  /\ ~MicrotasksPending
  /\ pc[c] = "idle"
  /\ arg' = [arg EXCEPT ![c] = x]
  /\ CASE x.method = "browsingContext.close" ->
            CloseStart(c, x.context, x.promptUnload)
       [] x.method = "browsingContext.create" ->
            CreateStart(c, x.referenceContext) /\ UNCHANGED listening
       [] x.method \in ContextCmds ->
            ContextCommandStart(c, x.context, x.method \in TopLevelContextCmds)
              /\ UNCHANGED listening
       [] x.method = "browsingContext.getTree" ->
            GetTree(c, x.context) /\ UNCHANGED <<requests, listening>>
       [] x.method = "browsingContext.locateNodes" ->
            ProcessCommandResult(c, "unsupported operation") /\ UNCHANGED <<requests, listening>>
       [] x.method = "session.new" ->
            ProcessCommandResult(c, "unknown command") /\ UNCHANGED <<requests, listening>>
  /\ UNCHANGED <<page, frame, loadSent, queue, ctxVars, detachSeen, created, swallowed>>

MapperNext ==
  \/ \E c \in Cmds, x \in CommandInputs : ProcessCommand(c, x)
  \/ HandleMessage
  \/ \E c \in Cmds : CloseResume(c) \/ CreateResume(c)

Next ==
  \/ MapperNext
  \/ BrowserNext /\ UNCHANGED <<ctxVars, cmdVars>>

(* The mapper runs every message and every resolved continuation (one JS  *)
(* event loop); the browser answers every CDP command and a page it was   *)
(* told to close goes away; a live page's about:blank load completes.     *)
(* Clients and users (closing tabs, frames, prompts) are not fair.        *)
Fairness ==
  /\ WF_vars(HandleMessage)
  /\ \A c \in Cmds : WF_vars(CloseResume(c)) /\ WF_vars(CreateResume(c))
  /\ \A c \in Cmds : WF_vars(\E r \in requests : r.cmd = c /\ BrowserAnswer(r)
                                                /\ UNCHANGED <<ctxVars, cmdVars>>)
  /\ \A p \in Pages : WF_vars(page[p] = "closing" /\ BrowserDestroyPage(p)
                               /\ UNCHANGED <<ctxVars, cmdVars>>)
  /\ \A p \in Pages : WF_vars(BrowserLoad(p) /\ UNCHANGED <<ctxVars, cmdVars>>)

Spec == Init /\ [][Next]_vars /\ Fairness

-----------------------------------------------------------------------------
(* Properties                                                               *)

(* Spec 4.2 and 8.7: once close has answered success for a context, the   *)
(* context is no longer stored (its detach was handled), whichever of the *)
(* CDP answer and Target.detachedFromTarget came first - unless close     *)
(* swallowed "Not attached to an active page".                            *)
ClosedContextGone ==
  \A c \in Cmds :
    /\ response[c] = "success"
    /\ arg[c].method = "browsingContext.close"
    /\ c \notin swallowed
    => arg[c].context \notin contexts

(* Spec 4.2: create answers only once the new context's initial           *)
(* about:blank load has completed, so the caller's next navigation cannot *)
(* race with it, and the id it returns names a context that is still      *)
(* stored: the page may close at any time, but create read the context    *)
(* before its await and returns it after, with no CDP message handled in  *)
(* between (the continuation is a microtask of the load's task).          *)
CreatedContextLoaded ==
  [][\A c \in Cmds :
       /\ response[c] = None /\ response'[c] = "success"
       /\ arg'[c].method = "browsingContext.create"
       => created'[c] \in loaded' \cap contexts']_vars

(* Spec 4.1, 8.1 and 8.7: every command that waits on no lifecycle event  *)
(* - all but create and a close with promptUnload - is answered, whatever *)
(* the browser does meanwhile: for a forced close, whichever order the    *)
(* CDP answer and the detach arrive in; for a context command, also when  *)
(* its context goes before the answer.                                     *)
AnsweredUnlessLifecycleWait ==
  \A c \in Cmds :
    (/\ pc[c] # "idle"
     /\ arg[c].method # "browsingContext.create"
     /\ ~(arg[c].method = "browsingContext.close" /\ arg[c].promptUnload))
    ~> response[c] # None

(* Spec 4.2: once the mapper has handled every message the browser sent,  *)
(* its context storage is the browser's tree: exactly the open pages and  *)
(* frames, each frame under its page, although an OOPiF swap reports the  *)
(* frame detached and then attached again as a target of its own.         *)
MapperInSync ==
  queue = <<>> =>
    /\ contexts = {p \in Pages : page[p] \in {"live", "closing"}}
                  \cup {f \in Frames : frame[f] \in {"inProcess", "oopif"}}
    /\ \A f \in contexts \cap Frames : parent[f] = FrameParent[f]

(* Spec 4.1 and 8.1: every command that was received is answered.  Spec  *)
(* 5 excuses a wait abandoned because its target was torn down; a close   *)
(* answers once its page's detach comes, so only a page that stays open  *)
(* can leave a close unanswered.                                           *)
EveryCommandAnswered ==
  \A c \in Cmds : pc[c] # "idle" ~> response[c] # None
=============================================================================
