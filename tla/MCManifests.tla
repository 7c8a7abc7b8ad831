--------------------------- MODULE MCManifests ---------------------------
(* Bounded files for Manifests: in each family some fields vary together   *)
(* and the others are fixed.                                               *)
EXTENDS Manifests

KeyEqualsValue(k, v) == k \o "=" \o v
SplitAtSeparator == "a;b" :> <<"a", "b">>
NotThemselves == "null" :> "" @@ "edge #1" :> "edge"
NotYAML == {"a: b"}

NoEnv == [node |-> "", storage |-> "", bridge |-> "", pool |-> "", tags |-> <<>>]
SomeEnv == [node |-> "n2", storage |-> "ceph", bridge |-> "vmbr9", pool |-> "dev",
            tags |-> <<"prod", "", "web">>]

Base == [kind |-> "service", name |-> "web", image |-> "nginx", hostname |-> "", ports |-> <<>>,
         networks |-> <<>>, networksAsMap |-> FALSE, env |-> NoEnv, declared |-> <<>>, limits |-> <<>>, reservations |-> <<>>, labels |-> {},
         restart |-> "", environment |-> FALSE]

PublishedPort == [numeric : BOOLEAN, port : {-1, 0, 80}, suffix : {<<>>, <<"">>, <<"udp">>, <<"icmp">>}]
ServicesWithPorts == {[Base EXCEPT !.image = i, !.ports = p] : i \in {"", "nginx"}, p \in {<<>>} \cup {<<q>> : q \in PublishedPort}}

ServicesWithNetworks ==
  {[Base EXCEPT !.ports = p, !.networks = n, !.declared = d, !.hostname = h, !.networksAsMap = a,
                 !.env = e, !.environment = TRUE, !.restart = "always"] :
     a \in BOOLEAN, e \in {NoEnv, SomeEnv},
     p \in {<<>>, <<[numeric |-> TRUE, port |-> 80, suffix |-> <<>>]>>},
     n \in {<<>>, <<"front">>, <<"front", "back">>},
     d \in {<<>>} \cup {"front" :> n : n \in [gateway : {"", "10.0.0.1"}, internal : BOOLEAN]}, h \in {"", "www"}}

Memories == {<<>>} \cup {<<m>> : m \in [h : {-2, -1, 0, 1, 2}, unit : {"g", "m", "", "x"}]}
ResourceSpecs == {<<[cpus |-> c, memory |-> m]>> : c \in {<<>>, <<1>>, <<5>>}, m \in Memories}
ServicesWithLimits ==
  {[Base EXCEPT !.limits = l, !.reservations = r] :
     l \in {<<>>} \cup ResourceSpecs, r \in {<<>>, <<[cpus |-> <<4>>, memory |-> <<[h |-> 0, unit |-> "m"]>>]>>}}

BaseHelm == [kind |-> "helm", name |-> "rel-web", release |-> "rel", node |-> "", globalNode |-> "",
             image |-> "nginx", osTemplate |-> "", hostname |-> "", expose |-> FALSE, ports |-> <<>>,
             networks |-> <<>>, globalBridge |-> "", cpu |-> 0, memory |-> 0, disk |-> 0, storage |-> "",
             globalStorage |-> "", globalTags |-> <<>>, tags |-> <<>>, labels |-> {}, mounts |-> <<>>,
             options |-> {}]

SomeTags == {<<>>, <<"prod", "a;b">>, <<"", "proxkube", "env=x">>, <<"a", "0", "", "a">>}
HelmWithTags ==
  {[BaseHelm EXCEPT !.globalTags = g, !.tags = t, !.labels = l] :
     g \in SomeTags, t \in SomeTags, l \in {{}, {<<"env", "x">>, <<"tier", "y">>}, {<<"env", "x=y">>, <<"env=x", "y">>}}}
HelmWithSizes ==
  {[BaseHelm EXCEPT !.image = i, !.osTemplate = o, !.cpu = c, !.memory = m, !.disk = m] :
     i \in {"", "nginx"}, o \in {"", "debian"}, c \in {-1, 0, 2}, m \in {-1, 0, 64}}
HelmWithNetworks ==
  {[BaseHelm EXCEPT !.expose = e, !.ports = p, !.networks = n, !.globalBridge = g, !.options = {"environment", "pool"}] :
     e \in BOOLEAN, g \in {"", "vmbr9"},
     p \in {<<>>} \cup {<<q>> : q \in [port : {0, 80}, protocol : {"", "udp", "icmp"}]},
     n \in {<<>>} \cup {<<[bridge |-> b, ip |-> "dhcp", gateway |-> "10.0.0.1"]>> : b \in {"", "vmbr1"}}}

BasePod == [name |-> "web", node |-> "pve", image |-> "", osTemplate |-> "debian", hostname |-> "",
            expose |-> FALSE, ports |-> <<>>, networks |-> <<>>, legacy |-> <<>>, cpu |-> 1, memory |-> 512,
            disk |-> 8, storage |-> "local-lvm", tags |-> <<>>, labels |-> {}, mounts |-> <<>>, options |-> {}]
Net == [bridge : {"vmbr0"}, ip : {"", "dhcp"}, gateway : {"", "10.0.0.1"}, firewall : BOOLEAN]
Manifest ==
  {[BasePod EXCEPT !.expose = e, !.networks = n, !.legacy = l] :
     e \in BOOLEAN, l \in {<<>>} \cup {<<a>> : a \in Net},
     n \in {<<>>} \cup {<<a, b>> : a \in Net, b \in {x \in Net : x.ip = "dhcp" /\ x.gateway = ""}}}
  \cup {[BasePod EXCEPT !.node = n, !.cpu = c, !.memory = m, !.ports = p, !.mounts = <<"data">>] :
          n \in {"", "pve"}, c \in {0, 1}, m \in {-1, 512},
          p \in {<<>>, <<[port |-> 80, protocol |-> ""]>>, <<[port |-> 80, protocol |-> "icmp"]>>}}

BaseForm == [kind |-> "form", name |-> "web", node |-> "pve", image |-> "nginx", bridge |-> <<>>, cpu |-> <<>>,
             memory |-> <<>>, disk |-> <<>>, storage |-> <<>>, tags |-> <<>>, pool |-> <<>>, description |-> <<>>]
FormText == {"null", "edge #1", "a: b", "", "nginx"}
FormField == {<<>>} \cup {<<t>> : t \in FormText}
FormTagTexts == {<<>>, <<"prod">>, <<"", "proxkube", "null">>, <<"a", "0", "", "a">>}
BoundedForms ==
  {[BaseForm EXCEPT !.name = n, !.image = i, !.tags = t, !.memory = m] :
     n \in {"web", "null"}, i \in FormText, t \in FormTagTexts, m \in {<<>>, <<64>>}}
  \cup {[BaseForm EXCEPT !.storage = s, !.bridge = b, !.pool = p, !.description = d] :
          s \in FormField, b \in FormField, p \in FormField, d \in {<<>>, <<"">>}}

BoundedSources ==
  ServicesWithPorts \cup ServicesWithNetworks \cup ServicesWithLimits
    \cup HelmWithTags \cup HelmWithSizes \cup HelmWithNetworks
    \cup BoundedForms \cup {[kind |-> "pod", manifest |-> p] : p \in Manifest}
=============================================================================
