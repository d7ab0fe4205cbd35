----------------------------- MODULE UrlPattern -----------------------------
(***************************************************************************)
(* The structured url patterns of network.addIntercept, from               *)
(* src/bidiMapper/domains/network/NetworkStorage.ts: buildUrlPatternString *)
(* turns a pattern {protocol, hostname, port, pathname, search} into the   *)
(* CDP url pattern Fetch.enable gets (getFetchEnableParams via             *)
(* cdpFromSpecUrlPattern), while matchUrlPattern decides with URLPattern   *)
(* whether a request's url is intercepted (getNetworkIntercepts).  The two *)
(* must agree: a request BiDi reports as intercepted is only paused if     *)
(* CDP's pattern matches it.                                               *)
(*                                                                         *)
(* Strings are sequences of one-character strings; an absent field (or    *)
(* the empty string, equally falsy in the code) is <<>>.  The references   *)
(* are CDP's RequestPattern matching ('*' any run, '?' one character,      *)
(* whole url) and URLPattern's per-field matching with absent fields as    *)
(* wildcards, as the spec (4.3) describes it.                              *)
(***************************************************************************)
EXTENDS Sequences, SequencesExt

CONSTANTS
  Patterns,   \* 'pattern' url patterns an addIntercept command may carry
  Urls        \* request urls the browser may report

VARIABLES
  pattern,    \* the url pattern of the registered intercept
  url         \* the url of a request the browser reports

vars == <<pattern, url>>

(* ['ftp', 'file', 'http', 'https', 'ws', 'wss'] of isSpecialScheme.       *)
SpecialSchemes == {<<"f","t","p">>, <<"f","i","l","e">>, <<"h","t","t","p">>,
                   <<"h","t","t","p","s">>, <<"w","s">>, <<"w","s","s">>}

(* protocol.replace(/:$/, '')                                               *)
StripTrailing(s, c) == IF s # <<>> /\ Last(s) = c THEN Front(s) ELSE s

(* isSpecialScheme                                                          *)
IsSpecialScheme(protocol) == StripTrailing(protocol, ":") \in SpecialSchemes

(* The protocol part: the protocol, ':' unless it ends with one, and '//' *)
(* for a special scheme.                                                    *)
ProtocolPart(protocol) ==
  IF protocol = <<>> THEN <<>>
  ELSE protocol \o (IF Last(protocol) = ":" THEN <<>> ELSE <<":">>)
                \o (IF IsSpecialScheme(protocol) THEN <<"/", "/">> ELSE <<>>)

(* A field with its separator in front unless it already starts with it.  *)
Prefixed(s, c) == IF s = <<>> THEN <<>> ELSE IF Head(s) = c THEN s ELSE <<c>> \o s

(* Mutant: the pathname is appended without its '/' check.                  *)
BuildUrlPatternStringNoSlash(p) ==
  IF \A f \in DOMAIN p : p[f] = <<>> THEN <<"*">>
  ELSE ProtocolPart(p.protocol) \o p.hostname
       \o (IF p.port = <<>> THEN <<>> ELSE <<":">> \o p.port)
       \o p.pathname \o Prefixed(p.search, "?")

(* buildUrlPatternString: '*' for a pattern with no field; otherwise the  *)
(* fields that are set, in order, each with its separator.                 *)
BuildUrlPatternString(p) ==
  IF \A f \in DOMAIN p : p[f] = <<>> THEN <<"*">>
  ELSE ProtocolPart(p.protocol) \o p.hostname
       \o (IF p.port = <<>> THEN <<>> ELSE <<":">> \o p.port)
       \o Prefixed(p.pathname, "/") \o Prefixed(p.search, "?")

-----------------------------------------------------------------------------
(* References                                                               *)

(* A request url: special scheme, host, optional port, path, optional      *)
(* query, serialized as the browser reports it.                             *)
Serialize(u) ==
  u.scheme \o <<":", "/", "/">> \o u.host
  \o (IF u.port = <<>> THEN <<>> ELSE <<":">> \o u.port)
  \o u.path \o (IF u.query = <<>> THEN <<>> ELSE <<"?">> \o u.query)

(* CDP Fetch.RequestPattern.urlPattern matching of a whole url.            *)
RECURSIVE GlobMatch(_, _)
GlobMatch(pat, s) ==
  IF pat = <<>> THEN s = <<>>
  ELSE IF Head(pat) = "*"
    THEN GlobMatch(Tail(pat), s) \/ (s # <<>> /\ GlobMatch(pat, Tail(s)))
  ELSE /\ s # <<>>
       /\ Head(pat) \in {"?", Head(s)}
       /\ GlobMatch(Tail(pat), Tail(s))

(* matchUrlPattern for a 'pattern' url pattern: new URLPattern({...}).exec *)
(* (url): a field that is set must equal the url's (protocol without its   *)
(* ':', pathname with its '/', search without its '?'); others match all. *)
MatchUrlPatternStructured(p, u) ==
  /\ p.protocol = <<>> \/ StripTrailing(p.protocol, ":") = u.scheme
  /\ p.hostname = <<>> \/ p.hostname = u.host
  /\ p.port = <<>> \/ p.port = u.port
  /\ p.pathname = <<>> \/ Prefixed(p.pathname, "/") = u.path
  /\ p.search = <<>> \/ (IF Head(p.search) = "?" THEN Tail(p.search) ELSE p.search) = u.query
-----------------------------------------------------------------------------
(* An intercept with some pattern is registered and a request for some url *)
(* is reported: getFetchEnableParams sends the pattern's CDP string, and   *)
(* getNetworkIntercepts matches the url with URLPattern.                   *)
Init == pattern \in Patterns /\ url \in Urls

Intercept(p, u) == pattern' = p /\ url' = u

Next == \E p \in Patterns, u \in Urls : Intercept(p, u)

Spec == Init /\ [][Next]_vars

TypeOK == pattern \in Patterns /\ url \in Urls

(* Spec 4.3 and 8.5: a pattern that sets every field is turned into the   *)
(* url it names - ':' added or kept, '//' for a special scheme, '/' and   *)
(* '?' added only when missing - so CDP pauses a request exactly when      *)
(* URLPattern reports it intercepted.                                      *)
FullPatternExact ==
  (\A f \in DOMAIN pattern : pattern[f] # <<>>) =>
    (GlobMatch(BuildUrlPatternString(pattern), Serialize(url))
       <=> MatchUrlPatternStructured(pattern, url))

(* Spec 4.3 and 8.5: for a pattern that sets every field, every request  *)
(* URLPattern reports as intercepted is paused by CDP: the string carries *)
(* the ':' and '//' of the protocol, the port's ':', and the '/' and '?'  *)
(* separators exactly once, whether or not the field brought its own.    *)
FullPatternPausesIntercepted ==
  /\ \A f \in DOMAIN pattern : pattern[f] # <<>>
  /\ MatchUrlPatternStructured(pattern, url)
  => GlobMatch(BuildUrlPatternString(pattern), Serialize(url))

(* Spec 4.3: every request getNetworkIntercepts reports as intercepted by *)
(* a 'pattern' url pattern is paused by CDP, so a pattern's absent fields *)
(* must be wildcards in the string buildUrlPatternString makes.           *)
FetchPausesIntercepted ==
  MatchUrlPatternStructured(pattern, url) =>
    GlobMatch(BuildUrlPatternString(pattern), Serialize(url))
=============================================================================
