------------------------- MODULE InterceptRegistry -------------------------
(***************************************************************************)
(* What network.addIntercept and network.removeIntercept promise (spec 3, *)
(* 4.3 and 8.8), without the storage's map: each distinct configuration   *)
(* (url patterns and phases) has at most one intercept id at a time; an    *)
(* add returns the configuration's id if it has one and a fresh, never     *)
(* issued id otherwise; a remove of a current id forgets its configuration *)
(* and a remove of an unknown id changes nothing.                          *)
(***************************************************************************)
CONSTANTS
  Values,   \* intercept configurations
  Ids,      \* intercept ids
  None

VARIABLES
  idOf,     \* configuration -> its current id, or None
  issued    \* ids handed out so far

Init ==
  /\ idOf = [v \in Values |-> None]
  /\ issued = {}

Add(v) ==
  \/ idOf[v] # None /\ UNCHANGED <<idOf, issued>>
  \/ /\ idOf[v] = None
     /\ \E i \in Ids \ issued :
          /\ idOf' = [idOf EXCEPT ![v] = i]
          /\ issued' = issued \cup {i}

Remove(i) ==
  \E v \in Values :
    /\ idOf[v] = i
    /\ idOf' = [idOf EXCEPT ![v] = None]
    /\ UNCHANGED issued

Next == (\E v \in Values : Add(v)) \/ (\E i \in Ids : Remove(i))

Spec == Init /\ [][Next]_<<idOf, issued>>
=============================================================================
