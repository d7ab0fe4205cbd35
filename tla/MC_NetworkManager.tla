-------------------------- MODULE MC_NetworkManager -------------------------
(* Two targets each owning one request id, two urls, two intercept ids.   *)
(* The addIntercept inputs cover: no url pattern (match-all), a single    *)
(* pattern, the same two patterns in both orders, and each phase.         *)
EXTENDS NetworkManager, TLC

CONSTANTS r1, t1, t2, u1, u2

MCOwner == [r \in RequestIds |-> IF r = r1 THEN t1 ELSE t2]

MCInterceptInputs ==
  { [urlPatterns |-> <<>>,       phases |-> <<ResponseStarted>>],
    [urlPatterns |-> <<u1>>,     phases |-> <<BeforeRequestSent>>],
    [urlPatterns |-> <<u1, u2>>, phases |-> <<BeforeRequestSent, AuthRequired>>],
    [urlPatterns |-> <<u2, u1>>, phases |-> <<BeforeRequestSent, AuthRequired>>] }
=============================================================================
