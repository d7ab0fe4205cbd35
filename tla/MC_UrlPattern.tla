---------------------------- MODULE MC_UrlPattern ----------------------------
EXTENDS UrlPattern

(* Field values: absent, with and without their separator, a special and  *)
(* a non-special scheme.                                                   *)
MCPatterns ==
  [protocol : {<<>>, <<"w","s">>, <<"w","s",":">>, <<"x">>},
   hostname : {<<>>, <<"a">>},
   port : {<<>>, <<"1">>},
   pathname : {<<>>, <<"p">>, <<"/","p">>},
   search : {<<>>, <<"q">>, <<"?","q">>}]

(* Request urls: a host that matches and one that does not, with and     *)
(* without port and query, and the path '/pxq', which differs from        *)
(* '/p?q' only at the character where the pattern's '?' goes.             *)
MCUrls ==
  [scheme : {<<"w","s">>}, host : {<<"a">>, <<"b">>}, port : {<<>>, <<"1">>},
   path : {<<"/">>, <<"/","p">>, <<"/","p","x","q">>}, query : {<<>>, <<"q">>}]
=============================================================================
