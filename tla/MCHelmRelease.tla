--------------------------- MODULE MCHelmRelease ---------------------------
(* Instances of HelmRelease for TLC.                                       *)
EXTENDS HelmRelease, TLC

CONSTANTS c1, c2, n1, n2

Web == <<"web">>
Shop == <<"shop">>
WebApp == <<"web", "app">>
On(n) == [node |-> n, hostname |-> NoHostname]

(* Two releases with a pod key in common, one of them on two nodes and     *)
(* with a pod that has a hostname.                                         *)
Apart == (Web :> (<<"db">> :> On(n1) @@ <<"ui">> :> [node |-> n2, hostname |-> <<"www">>]))
           @@ (Shop :> (<<"db">> :> On(n1)))

(* Two releases of which one's name begins with the other's.               *)
Nested == (Web :> (<<"db">> :> On(n1))) @@ (WebApp :> (<<"db">> :> On(n1)))

Other == {<<"db">>}
Nobody == {}

(* Who handles which release.                                              *)
ApartOwners == {<<c1, Web>>, <<c2, Shop>>}
NestedOwners == {<<c1, Web>>, <<c2, WebApp>>}
=============================================================================
