----------------------------- MODULE CdpBrowser -----------------------------
(***************************************************************************)
(* The browser on the other side of the CDP connection, as the mapper sees *)
(* it.  It is the environment of BrowsingContextProcessor, not code of the *)
(* repository.  The browser answers the CDP commands the mapper sends      *)
(* (requests) and emits events; events and answers reach the mapper over  *)
(* one connection, in the order the browser emitted them (queue).         *)
(*                                                                         *)
(* Pages are top-level targets; frames are children of a page, first in   *)
(* the page's process and possibly swapped to an out-of-process iframe     *)
(* target (OOPiF).  SelfTarget is the mapper's own tab.                    *)
(***************************************************************************)
EXTENDS Naturals, Sequences, SequencesExt, FiniteSets

CONSTANTS
  Pages,         \* page target ids a test may open
  InitialPages,  \* pages open when the mapper starts
  Frames,        \* iframe ids
  FrameParent,   \* the page each frame lives in
  SelfTarget,    \* the mapper tab's target id
  Cmds,          \* ids of BiDi commands (each may send one CDP command)
  None

ASSUME InitialPages \subseteq Pages
ASSUME FrameParent \in [Frames -> Pages]
ASSUME SelfTarget \notin Pages \cup Frames

Ids == Pages \cup Frames

(* A message from the browser: an event about target or frame id, or the  *)
(* answer (res) to the CDP command sent for BiDi command cmd.             *)
Msg(type, id, cmd, res) == [type |-> type, id |-> id, cmd |-> cmd, res |-> res]

VARIABLES
  page,       \* page id -> "absent" | "live" | "closing" | "gone"
  frame,      \* frame id -> "absent" | "inProcess" | "oopif" | "gone"
  loadSent,   \* ids whose initial about:blank "load" was emitted
  requests,   \* CDP commands sent and not yet answered
  queue       \* messages emitted by the browser, not yet handled

browserVars == <<page, frame, loadSent, requests, queue>>

BrowserTypeOK ==
  /\ page \in [Pages -> {"absent", "live", "closing", "gone"}]
  /\ frame \in [Frames -> {"absent", "inProcess", "oopif", "gone"}]
  /\ loadSent \subseteq Ids
  /\ requests \subseteq [cmd : Cmds, kind : {"createTarget", "closeTarget", "pageClose", "context"},
                         id : Ids \cup {None}]

BrowserInit ==
  /\ page = [p \in Pages |-> IF p \in InitialPages THEN "live" ELSE "absent"]
  /\ frame = [f \in Frames |-> "absent"]
  /\ loadSent = InitialPages
  /\ requests = {}
  \* auto-attach reports the open pages and the mapper tab itself
  /\ queue = <<Msg("attachedToTarget", SelfTarget, None, None)>> \o
             SetToSeq({Msg("attachedToTarget", p, None, None) : p \in InitialPages})

Emit(msgs) == queue' = queue \o msgs

(* Target.createTarget: a new page is attached before the answer names it. *)
BrowserCreateTarget(r) ==
  /\ r.kind = "createTarget"
  /\ \E p \in Pages :
       /\ page[p] = "absent"
       /\ page' = [page EXCEPT ![p] = "live"]
       /\ Emit(<<Msg("attachedToTarget", p, None, None), Msg("reply", p, r.cmd, "ok")>>)
  /\ requests' = requests \ {r}
  /\ UNCHANGED <<frame, loadSent>>

(* OOPiF targets of a page that go away with it.                           *)
OopifsOf(p) == {f \in Frames : FrameParent[f] = p /\ frame[f] = "oopif"}

DetachMsgs(p) ==
  <<Msg("detachedFromTarget", p, None, None)>> \o
  SetToSeq({Msg("detachedFromTarget", f, None, None) : f \in OopifsOf(p)})

GoneFrames(p) == [f \in Frames |-> IF FrameParent[f] = p /\ frame[f] # "absent"
                                     THEN "gone" ELSE frame[f]]

(* Target.closeTarget: the target is closed and its detach is reported    *)
(* before or after the answer; closing a closed target is an error.       *)
BrowserCloseTarget(r) ==
  /\ r.kind = "closeTarget"
  /\ IF page[r.id] = "live"
       THEN \/ /\ page' = [page EXCEPT ![r.id] = "closing"]
               /\ Emit(<<Msg("reply", r.id, r.cmd, "ok")>>)
               /\ UNCHANGED frame
            \/ /\ page' = [page EXCEPT ![r.id] = "gone"]
               /\ frame' = GoneFrames(r.id)
               /\ Emit(DetachMsgs(r.id) \o <<Msg("reply", r.id, r.cmd, "ok")>>)
       ELSE /\ Emit(<<Msg("reply", r.id, r.cmd, "noTarget")>>)
            /\ UNCHANGED <<page, frame>>
  /\ requests' = requests \ {r}
  /\ UNCHANGED loadSent

(* Page.close on the page's session: answered at once; the page closes,   *)
(* or shows a beforeunload prompt and stays.  A page that is no longer    *)
(* there answers "Not attached to an active page".                        *)
BrowserPageClose(r) ==
  /\ r.kind = "pageClose"
  /\ IF page[r.id] = "live"
       THEN /\ \E s \in {"live", "closing"} : page' = [page EXCEPT ![r.id] = s]
            /\ Emit(<<Msg("reply", r.id, r.cmd, "ok")>>)
       ELSE /\ Emit(<<Msg("reply", r.id, r.cmd, "notAttached")>>)
            /\ UNCHANGED page
  /\ requests' = requests \ {r}
  /\ UNCHANGED <<frame, loadSent>>

(* A context's own CDP command (Page.bringToFront, Page.printToPDF, ...): *)
(* answered on the context's session while its target is there.           *)
BrowserContextCommand(r) ==
  /\ r.kind = "context"
  /\ Emit(<<Msg("reply", r.id, r.cmd,
              IF r.id \in Pages THEN IF page[r.id] \in {"live", "closing"} THEN "ok" ELSE "noTarget"
              ELSE IF frame[r.id] \in {"inProcess", "oopif"} THEN "ok" ELSE "noTarget")>>)
  /\ requests' = requests \ {r}
  /\ UNCHANGED <<page, frame, loadSent>>

BrowserAnswer(r) ==
  \/ BrowserCreateTarget(r) \/ BrowserCloseTarget(r) \/ BrowserPageClose(r)
  \/ BrowserContextCommand(r)

(* A closing page goes away; a live one may too (the user closes the tab, *)
(* the renderer crashes, a prompt is accepted).                           *)
BrowserDestroyPage(p) ==
  /\ page[p] \in {"live", "closing"}
  /\ page' = [page EXCEPT ![p] = "gone"]
  /\ frame' = GoneFrames(p)
  /\ Emit(DetachMsgs(p))
  /\ UNCHANGED <<loadSent, requests>>

(* The initial about:blank navigation of a new page completes.            *)
BrowserLoad(p) ==
  /\ page[p] = "live"
  /\ p \notin loadSent
  /\ loadSent' = loadSent \cup {p}
  /\ Emit(<<Msg("load", p, None, None)>>)
  /\ UNCHANGED <<page, frame, requests>>

BrowserFrameAttach(f) ==
  /\ frame[f] = "absent"
  /\ page[FrameParent[f]] = "live"
  /\ frame' = [frame EXCEPT ![f] = "inProcess"]
  /\ Emit(<<Msg("frameAttached", f, None, None)>>)
  /\ UNCHANGED <<page, loadSent, requests>>

(* A cross-process navigation moves the frame to its own target.          *)
BrowserFrameSwap(f) ==
  /\ frame[f] = "inProcess"
  /\ frame' = [frame EXCEPT ![f] = "oopif"]
  /\ Emit(<<Msg("frameDetached", f, None, "swap"), Msg("attachedToTarget", f, None, None)>>)
  /\ UNCHANGED <<page, loadSent, requests>>

BrowserFrameRemove(f) ==
  /\ frame[f] \in {"inProcess", "oopif"}
  /\ frame' = [frame EXCEPT ![f] = "gone"]
  /\ Emit(IF frame[f] = "inProcess" THEN <<Msg("frameDetached", f, None, "remove")>>
          ELSE <<Msg("detachedFromTarget", f, None, None)>>)
  /\ UNCHANGED <<page, loadSent, requests>>

BrowserNext ==
  \/ \E r \in requests : BrowserAnswer(r)
  \/ \E p \in Pages : BrowserDestroyPage(p) \/ BrowserLoad(p)
  \/ \E f \in Frames : BrowserFrameAttach(f) \/ BrowserFrameSwap(f) \/ BrowserFrameRemove(f)
=============================================================================
