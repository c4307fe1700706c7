----------------------- MODULE MCAuthorizationServer ------------------------
(* A small instance: the two built-in clients, one of them native, and one *)
(* client made through the admin API.                                      *)
EXTENDS AuthorizationServer, FiniteSets, TLC

CONSTANTS minibot, minikb, other, app, web, extra, legacy, openid, profile

MCClient == {minibot, minikb, other}
MCBuiltIn == <<minibot, minikb>>
MCUri == {app, web, extra, legacy}
MCDefaultUri ==
  [c \in MCClient |-> IF c = minibot THEN {app} ELSE IF c = minikb THEN {web} ELSE {}]
MCScope == {openid, profile}
MCDefaultScope == {openid}

MCExisting ==
  {<<minibot, [uris |-> {legacy}, scopes |-> {}, active |-> TRUE]>>}
MCCreation ==
  {<<other, [uris |-> {web}, scopes |-> {openid}, active |-> TRUE]>>}
MCEdit == {<<minibot, extra>>}

MCLogin ==
  {[client |-> minibot, uri |-> app, scopes |-> {openid},
    confirmed |-> FALSE, challenge |-> TRUE],
   [client |-> minibot, uri |-> app, scopes |-> {openid},
    confirmed |-> TRUE, challenge |-> TRUE],
   [client |-> minibot, uri |-> extra, scopes |-> {openid, profile},
    confirmed |-> FALSE, challenge |-> TRUE],
   [client |-> minibot, uri |-> app, scopes |-> {openid},
    confirmed |-> TRUE, challenge |-> FALSE]}

(* The registry alone is followed in full.  Logins are followed without    *)
(* the addresses and clients they do not ask for, and a second login only  *)
(* while one process serves, crashes and starts again.                     *)
First == CHOOSE p \in Process : TRUE
Begun == {f \in Flow : flow[f] # New}

SmallWithLogins ==
  /\ Begun # {} => clients[other] = Missing /\ ~Registered(minibot, legacy)
  /\ Cardinality(Begun) > 1 => \A p \in Process \ {First} : boot[p] = Down

MCSpec == Init /\ [][Next /\ SmallWithLogins']_vars /\ BootFairness
===============================================================================
