--------------------------- MODULE NetworkStorage ---------------------------
(***************************************************************************)
(* The network state shared by every target: src/bidiMapper/domains/       *)
(* network/NetworkStorage.ts.  One instance is created by CommandProcessor *)
(* and handed to every CdpTarget's NetworkManager.  It holds the request   *)
(* map (request id -> NetworkRequest) and the intercept map (intercept id  *)
(* -> url patterns and phases).                                            *)
(*                                                                         *)
(* A NetworkRequest (not under src/) is abstracted to whether its primary  *)
(* Network.requestWillBeSent info was merged, the url it carries and its   *)
(* redirect count.  URL patterns are of type 'string', matched by exact    *)
(* equality; 'pattern' URL patterns (URLPattern, not under src/) are not   *)
(* modelled.                                                               *)
(***************************************************************************)
EXTENDS Naturals, Sequences, SequencesExt, FiniteSets

CONSTANTS
  RequestIds,        \* CDP network request ids
  Urls,              \* request urls, also the 'string' url patterns
  InterceptIds,      \* ids uuidv4 may hand out
  BeforeRequestSent, ResponseStarted, AuthRequired,  \* Network.InterceptPhase
  Wildcard,          \* the CDP url pattern '*'
  None               \* an absent map entry / undefined

Phases == {BeforeRequestSent, ResponseStarted, AuthRequired}
Stages == {"Request", "Response"}   \* Protocol.Fetch.RequestStage

(* Sequences without repetition of at most two elements of S.             *)
ShortLists(S) == {s \in BoundedSeq(S, 2) : \A i, j \in DOMAIN s : i # j => s[i] # s[j]}

(* AddInterceptParameters after parsing: url patterns and phases.          *)
InterceptValue == [urlPatterns : ShortLists(Urls),
                   phases : ShortLists(Phases) \ {<<>>}]

Request == [info : BOOLEAN, url : Urls \cup {None}, redirectCount : Nat]

VARIABLES
  requestMap,        \* #requestMap
  interceptMap,      \* #interceptMap
  usedInterceptIds,  \* ids uuidv4 already returned (they never repeat)
  blockedRequestMap  \* #blockedRequestMap: request id -> phase it is paused at

storageVars == <<requestMap, interceptMap, usedInterceptIds, blockedRequestMap>>

StorageTypeOK ==
  /\ requestMap \in [RequestIds -> Request \cup {None}]
  /\ interceptMap \in [InterceptIds -> InterceptValue \cup {None}]
  /\ usedInterceptIds \subseteq InterceptIds
  /\ blockedRequestMap \in [RequestIds -> Phases \cup {None}]

StorageInit ==
  /\ requestMap = [r \in RequestIds |-> None]
  /\ interceptMap = [i \in InterceptIds |-> None]
  /\ usedInterceptIds = {}
  /\ blockedRequestMap = [r \in RequestIds |-> None]

-----------------------------------------------------------------------------
(* The request map, as operators on it (NetworkManager composes them).    *)

(* disposeRequestMap: every request disposed, the map cleared.            *)
DisposeRequestMap(map) == [r \in DOMAIN map |-> None]

(* createRequest(id, redirectCount = 0): a fresh NetworkRequest stored    *)
(* under id.  NetworkStorage.ts has no such method; the spec's            *)
(* description (a new record, replacing any, under the id) is modelled.   *)
CreateRequest(map, id, redirectCount) ==
  [map EXCEPT ![id] = [info |-> FALSE, url |-> None, redirectCount |-> redirectCount]]

(* deleteRequest: dispose and remove the request, if there is one.        *)
DeleteRequest(map, id) == [map EXCEPT ![id] = None]

(* NetworkRequest.isRedirecting: a request that already has its primary  *)
(* info and sees another requestWillBeSent is being redirected.           *)
IsRedirecting(req) == req.info

(* NetworkRequest.onRequestWillBeSentEvent: merge the primary info.      *)
OnRequestWillBeSentEvent(map, id, url) ==
  [map EXCEPT ![id].info = TRUE, ![id].url = url]

-----------------------------------------------------------------------------
(* The blocked-request map.  An entry's Fetch request id and response     *)
(* data are abstracted to the phase the request is paused at.             *)

(* addBlockedRequest: set (or overwrite) the entry of the request id.     *)
AddBlockedRequest(map, id, phase) == [map EXCEPT ![id] = phase]

(* removeBlockedRequest                                                    *)
RemoveBlockedRequest(map, id) == [map EXCEPT ![id] = None]

(* getBlockedRequest: the entry, or undefined (None).                     *)
GetBlockedRequest(map, id) == map[id]

-----------------------------------------------------------------------------
(* The intercept map.                                                      *)

RegisteredIntercepts == {i \in InterceptIds : interceptMap[i] # None}

(* Mutant: addIntercept without the loop looking for an equal entry.      *)
AddInterceptNoDedup(value) ==
  \E id \in InterceptIds \ usedInterceptIds :
    /\ interceptMap' = [interceptMap EXCEPT ![id] = value]
    /\ usedInterceptIds' = usedInterceptIds \cup {id}

(* addIntercept: an entry whose patterns and phases serialize to the same *)
(* JSON (so: equal sequences, order included) is reused; otherwise a new  *)
(* uuid is stored.                                                         *)
AddIntercept(value) ==
  IF \E i \in RegisteredIntercepts : interceptMap[i] = value
    THEN UNCHANGED <<interceptMap, usedInterceptIds>>
    ELSE \E id \in InterceptIds \ usedInterceptIds :
           /\ interceptMap' = [interceptMap EXCEPT ![id] = value]
           /\ usedInterceptIds' = usedInterceptIds \cup {id}

(* removeIntercept: NoSuchInterceptException (no change) for an unknown   *)
(* id, otherwise the entry is deleted.                                    *)
RemoveIntercept(id) ==
  /\ id \in RegisteredIntercepts
  /\ interceptMap' = [interceptMap EXCEPT ![id] = None]
  /\ UNCHANGED usedInterceptIds

(* Mutant: responseStarted mapped to the 'Request' stage.                 *)
RequestStageFromPhaseSwapped(phase) ==
  IF phase = AuthRequired THEN "Response" ELSE "Request"

(* requestStageFromPhase                                                   *)
RequestStageFromPhase(phase) ==
  IF phase = BeforeRequestSent THEN "Request" ELSE "Response"

(* cdpFromSpecUrlPattern: a 'string' url pattern is passed to CDP as it  *)
(* is.                                                                     *)
CdpFromSpecUrlPattern(p) == p

(* getFetchEnableParams: one CDP pattern per phase and url pattern, '*'  *)
(* for an intercept without url patterns; auth events are requested when *)
(* some intercept has the authRequired phase.                            *)
GetFetchEnableParams ==
  [patterns |->
     UNION {UNION {IF interceptMap[i].urlPatterns = <<>>
                     THEN {[urlPattern |-> Wildcard, requestStage |-> RequestStageFromPhase(ph)]}
                     ELSE {[urlPattern |-> CdpFromSpecUrlPattern(p), requestStage |-> RequestStageFromPhase(ph)] :
                             p \in ToSet(interceptMap[i].urlPatterns)}
                   : ph \in ToSet(interceptMap[i].phases)}
            : i \in RegisteredIntercepts},
   handleAuthRequests |->
     \E i \in RegisteredIntercepts : AuthRequired \in ToSet(interceptMap[i].phases)]

(* matchUrlPattern for a 'string' pattern: exact equality with the url.   *)
MatchUrlPattern(pattern, url) == pattern = url

(* getNetworkIntercepts(requestId, phase): nothing for an unknown request; *)
(* otherwise the intercepts having the phase whose url patterns are empty  *)
(* or match the request's url.                                             *)
GetNetworkIntercepts(requestId, phase) ==
  IF requestMap[requestId] = None THEN {}
  ELSE {i \in RegisteredIntercepts :
          /\ phase \in ToSet(interceptMap[i].phases)
          /\ \/ interceptMap[i].urlPatterns = <<>>
             \/ \E p \in ToSet(interceptMap[i].urlPatterns) :
                  MatchUrlPattern(p, requestMap[requestId].url)}
=============================================================================
