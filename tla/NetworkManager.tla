--------------------------- MODULE NetworkManager ---------------------------
(***************************************************************************)
(* The per-target network event handlers: src/bidiMapper/domains/network/ *)
(* NetworkManager.ts, composed with the one NetworkStorage they all share. *)
(* NetworkManager.create registers, for its CdpTarget, a listener for the  *)
(* browser's Target.detachedFromTarget (matching its own session) and one  *)
(* listener per Network.* sub-event of its target.  Each listener runs to  *)
(* completion, so each is one action.  CDP delivers a request's events on  *)
(* the session of the target that issued it (Owner) while that target is  *)
(* attached.  The intercept commands (network.addIntercept and             *)
(* network.removeIntercept) reach the storage through NetworkProcessor.    *)
(***************************************************************************)
EXTENDS NetworkStorage

CONSTANTS
  Targets,     \* CDP targets (one NetworkManager each while attached)
  Owner,       \* the target whose session reports each request id
  SubEvents,   \* the Network.* sub-events other than requestWillBeSent
  MaxHops,     \* bound on requestWillBeSent events per request id
  InterceptInputs  \* the addIntercept parameters commands carry

ASSUME Owner \in [RequestIds -> Targets]
ASSUME MaxHops \in Nat \ {0}
ASSUME InterceptInputs \subseteq InterceptValue

VARIABLES
  attached,    \* targets with a live session (and NetworkManager)
  hops,        \* history: requestWillBeSent events of the id since its record appeared
  lastUrl,     \* history: url of the latest requestWillBeSent of the id
  paused       \* browser: request ids Fetch holds paused

vars == <<storageVars, attached, hops, lastUrl, paused>>

TypeOK ==
  /\ StorageTypeOK
  /\ attached \subseteq Targets
  /\ hops \in [RequestIds -> 0..MaxHops]
  /\ lastUrl \in [RequestIds -> Urls \cup {None}]
  /\ paused \subseteq RequestIds

Init ==
  /\ StorageInit
  /\ attached = Targets
  /\ hops = [r \in RequestIds |-> 0]
  /\ lastUrl = [r \in RequestIds |-> None]
  /\ paused = {}

-----------------------------------------------------------------------------
(* Mutant: the replacement record keeps the old redirect count.          *)
OnRedirectNoIncrement(map, id, url) ==
  OnRequestWillBeSentEvent(
    CreateRequest(DeleteRequest(map, id), id, map[id].redirectCount), id, url)

(* The redirect branch: request.handleRedirect, #forgetNetworkRequest and *)
(* a new record with redirectCount + 1 that takes the new event.          *)
OnRedirect(map, id, url) ==
  OnRequestWillBeSentEvent(
    CreateRequest(DeleteRequest(map, id), id, map[id].redirectCount + 1), id, url)

(* Network.requestWillBeSent                                               *)
RequestWillBeSent(id, url) ==
  LET request == requestMap[id] IN
  /\ Owner[id] \in attached
  /\ id \notin paused
  /\ hops[id] < MaxHops
  /\ requestMap' =
       IF request # None /\ IsRedirecting(request)
         THEN OnRedirect(requestMap, id, url)
       ELSE IF request # None
         THEN OnRequestWillBeSentEvent(requestMap, id, url)
       ELSE OnRequestWillBeSentEvent(CreateRequest(requestMap, id, 0), id, url)
  /\ hops' = [hops EXCEPT ![id] = @ + 1]
  /\ lastUrl' = [lastUrl EXCEPT ![id] = url]
  /\ UNCHANGED <<interceptMap, usedInterceptIds, blockedRequestMap, attached, paused>>

(* #getOrCreateNetworkRequest                                              *)
GetOrCreateNetworkRequest(map, id) ==
  IF map[id] # None THEN map ELSE CreateRequest(map, id, 0)

(* Network.requestWillBeSentExtraInfo, responseReceived,                  *)
(* responseReceivedExtraInfo, requestServedFromCache and loadingFailed:   *)
(* get or create the record, then merge fields this model abstracts away. *)
OnSubEvent(id, event) ==
  /\ Owner[id] \in attached
  /\ id \notin paused
  /\ requestMap' = GetOrCreateNetworkRequest(requestMap, id)
  /\ UNCHANGED <<interceptMap, usedInterceptIds, blockedRequestMap, attached, hops, lastUrl, paused>>

(* Target.detachedFromTarget for the session of t: the session ends and   *)
(* t's NetworkManager calls disposeRequestMap on the shared storage.  The *)
(* browser drops the paused requests of t with its session.               *)
DetachedFromTarget(t) ==
  /\ t \in attached
  /\ attached' = attached \ {t}
  /\ requestMap' = DisposeRequestMap(requestMap)
  /\ hops' = [r \in RequestIds |-> 0]
  /\ lastUrl' = [r \in RequestIds |-> None]
  /\ paused' = {r \in paused : Owner[r] # t}
  /\ UNCHANGED <<interceptMap, usedInterceptIds, blockedRequestMap>>

(* Target.attachedToTarget: a new session and CdpTarget, and with it      *)
(* NetworkManager.create (a target may come back, e.g. after an OOPiF     *)
(* swap).                                                                  *)
AttachedToTarget(t) ==
  /\ t \notin attached
  /\ attached' = attached \cup {t}
  /\ UNCHANGED <<storageVars, hops, lastUrl, paused>>

(* network.addIntercept / network.removeIntercept                          *)
AddInterceptCommand(value) ==
  /\ AddIntercept(value)
  /\ UNCHANGED <<requestMap, blockedRequestMap, attached, hops, lastUrl, paused>>

RemoveInterceptCommand(id) ==
  /\ RemoveIntercept(id)
  /\ UNCHANGED <<requestMap, blockedRequestMap, attached, hops, lastUrl, paused>>

(* Fetch.requestPaused, handled by NetworkRequest (not under src/) as     *)
(* spec 4.3's blocking lifecycle says.  CDP pauses a request of an         *)
(* attached target at the stage of a Fetch.enable pattern matching its    *)
(* url.  If getNetworkIntercepts reports intercepts for the phase, the     *)
(* request is stored with addBlockedRequest and stays paused; otherwise it *)
(* is continued at once.                                                   *)
RequestPaused(id, phase) ==
  /\ Owner[id] \in attached
  /\ id \notin paused
  /\ requestMap[id] # None
  /\ \E p \in GetFetchEnableParams.patterns :
       /\ p.urlPattern \in {Wildcard, requestMap[id].url}
       /\ p.requestStage = RequestStageFromPhase(phase)
  /\ IF GetNetworkIntercepts(id, phase) # {}
       THEN /\ blockedRequestMap' = AddBlockedRequest(blockedRequestMap, id, phase)
            /\ paused' = paused \cup {id}
       ELSE UNCHANGED <<blockedRequestMap, paused>>
  /\ UNCHANGED <<requestMap, interceptMap, usedInterceptIds, attached, hops, lastUrl>>

(* network.continueRequest, continueResponse, continueWithAuth,            *)
(* failRequest and provideResponse (NetworkProcessor, not under src/):     *)
(* getBlockedRequest, "no such request" (no change) when there is no       *)
(* entry, else removeBlockedRequest and the Fetch command that resumes the *)
(* request; on a session that is gone it fails and nothing was paused.     *)
ResumeBlockedRequest(id) ==
  /\ GetBlockedRequest(blockedRequestMap, id) # None
  /\ blockedRequestMap' = RemoveBlockedRequest(blockedRequestMap, id)
  /\ paused' = paused \ {id}
  /\ UNCHANGED <<requestMap, interceptMap, usedInterceptIds, attached, hops, lastUrl>>

Next ==
  \/ \E r \in RequestIds, ph \in {BeforeRequestSent, ResponseStarted} : RequestPaused(r, ph)
  \/ \E r \in RequestIds : ResumeBlockedRequest(r)
  \/ \E r \in RequestIds, u \in Urls : RequestWillBeSent(r, u)
  \/ \E r \in RequestIds, e \in SubEvents : OnSubEvent(r, e)
  \/ \E t \in Targets : DetachedFromTarget(t)
  \/ \E t \in Targets : AttachedToTarget(t)
  \/ \E v \in InterceptInputs : AddInterceptCommand(v)
  \/ \E i \in InterceptIds : RemoveInterceptCommand(i)

Spec == Init /\ [][Next]_vars

-----------------------------------------------------------------------------
(* Properties                                                               *)

(* Spec 3 and 8.6: the live record of a request id carries the redirect   *)
(* count of its hop and the url of its latest requestWillBeSent: a record *)
(* with primary info has seen hops - 1 redirects, a placeholder created   *)
(* by an earlier sub-event has none, and an id without record has seen no *)
(* event since its last disposal.                                          *)
RedirectChain ==
  \A r \in RequestIds :
    IF requestMap[r] = None THEN hops[r] = 0
    ELSE IF requestMap[r].info
      THEN /\ requestMap[r].redirectCount = hops[r] - 1
           /\ requestMap[r].url = lastUrl[r]
    ELSE requestMap[r].redirectCount = 0 /\ hops[r] = 0

(* The abstract registry seen through the intercept map: a configuration *)
(* is registered under the id whose entry holds it.                        *)
IdOf == [v \in InterceptInputs |->
           IF \E i \in RegisteredIntercepts : interceptMap[i] = v
             THEN CHOOSE i \in RegisteredIntercepts : interceptMap[i] = v
             ELSE None]

Registry == INSTANCE InterceptRegistry
              WITH Values <- InterceptInputs, Ids <- InterceptIds,
                   idOf <- IdOf, issued <- usedInterceptIds

(* Spec 4.3 and 8.8: the storage's intercept map, driven by any sequence  *)
(* of addIntercept and removeIntercept commands between network events,    *)
(* implements the registry: one id per configuration, an add of a known    *)
(* configuration returns its id, ids are never reused.                     *)
InterceptRegistryRefined == Registry!Spec

(* What getNetworkIntercepts reports for a request at some url and phase   *)
(* can only happen if CDP pauses it: Fetch.enable's patterns, built by     *)
(* getFetchEnableParams, must include one matching that url ('*' or the    *)
(* url) at the stage the phase maps to.                                     *)
FetchCoversIntercepts ==
  \A r \in RequestIds, ph \in {BeforeRequestSent, ResponseStarted} :
    GetNetworkIntercepts(r, ph) # {} =>
      \E p \in GetFetchEnableParams.patterns :
        /\ p.urlPattern \in {Wildcard, requestMap[r].url}
        /\ p.requestStage = IF ph = BeforeRequestSent THEN "Request" ELSE "Response"

(* Spec 4.3: a target's NetworkManager owns that target's requests, and   *)
(* the detach of its session disposes the records of that target only:   *)
(* the records of requests of other, still attached targets stay.          *)
DetachDisposesOwnRequestsOnly ==
  [][\A t \in attached \ attached' :
       \A r \in RequestIds : Owner[r] # t => requestMap'[r] = requestMap[r]]_vars
=============================================================================
