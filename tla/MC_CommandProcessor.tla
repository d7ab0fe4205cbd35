------------------------- MODULE MC_CommandProcessor ------------------------
(* One page open at start (p1, with an iframe f1 that may attach, swap to *)
(* an OOPiF and go), one page a create command may open (p2), two         *)
(* concurrent commands.                                                    *)
EXTENDS CommandProcessor, TLC

CONSTANTS p1, p2, f1

MCFrameParent == [f \in Frames |-> p1]

MCCommandInputs ==
  {[method |-> "browsingContext.close", context |-> p, promptUnload |-> b,
    referenceContext |-> None] : p \in {p1, p2, f1}, b \in BOOLEAN} \cup
  {[method |-> "browsingContext.create", context |-> None, promptUnload |-> FALSE,
    referenceContext |-> r] : r \in {None, p1, f1}} \cup
  {[method |-> m, context |-> None, promptUnload |-> FALSE, referenceContext |-> None] :
     m \in {"browsingContext.locateNodes", "session.new"}} \cup
  {[method |-> "browsingContext.activate", context |-> p, promptUnload |-> FALSE,
    referenceContext |-> None] : p \in {p1, f1}} \cup
  {[method |-> "browsingContext.navigate", context |-> f1, promptUnload |-> FALSE,
    referenceContext |-> None]} \cup
  {[method |-> "browsingContext.print", context |-> p2, promptUnload |-> FALSE,
    referenceContext |-> None]} \cup
  {[method |-> "browsingContext.getTree", context |-> r, promptUnload |-> FALSE,
    referenceContext |-> None] : r \in {None, f1}}
(* The inputs of the cmd_answered run: no create.  The browser of this    *)
(* model opens only p2, so a second create would wait for an answer no    *)
(* real browser withholds; and create's own wait (the load) is abandoned  *)
(* only when its page is torn down, which spec 5 excuses.                 *)
MCAnsweredInputs ==
  {x \in MCCommandInputs : x.method # "browsingContext.create"}
=============================================================================
