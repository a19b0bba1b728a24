----------------------------- MODULE MCNodeRoutes -----------------------------
(***************************************************************************)
(* A small instance of NodeRoutes: a page and a bridge key, an origin that *)
(* is the node's own and one that is blocked.  The configurations share    *)
(* the bridge key, differ in what they give the page, and one names a key  *)
(* twice.                                                                  *)
(***************************************************************************)
EXTENDS NodeRoutes

CONSTANTS page, bridge, own, banned

MCKeys    == {page, bridge}
MCBridges == {bridge}
MCOrigins == {own, banned}
MCBlocked == {banned}
MCAllowed == {}

Route(k, u) == [key |-> k, upstream |-> u]

Config(e, worker, list) == [endpoint |-> e, worker |-> worker, routes |-> list]

MCConfigs ==
  {Config(own, FALSE, <<Route(page, Path), Route(bridge, own)>>),
   Config(own, TRUE, <<Route(bridge, Path)>>),
   Config(own, TRUE, <<Route(page, own)>>),
   Config(banned, TRUE, <<Route(page, Path)>>),
   Config(own, FALSE, <<>>),
   Config(own, TRUE, <<Route(page, Path), Route(page, Bare)>>)}
=============================================================================
