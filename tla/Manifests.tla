----------------------------- MODULE Manifests -----------------------------
(***************************************************************************)
(* From a user's file to the request that creates a container: a Compose   *)
(* service (pkg/compose), a pod of Helm values (pkg/helm), the form of the *)
(* dashboard (ProxKube.pm, which writes a manifest) or a pod manifest      *)
(* becomes a Pod, is validated (pkg/api), becomes an LXCConfig             *)
(* (podToLXCConfig, pkg/controller) and then the parameters of the REST    *)
(* call (pkg/proxmox) or of "pct create" (pkg/hypervisor).                 *)
(*                                                                         *)
(* Texts are opaque and "" is Go's empty string, which every stage takes   *)
(* for "not given".  Optional scalar fields that are only passed on are    *)
(* the set "options" of those that are given.                              *)
(*                                                                         *)
(* Three conversions of texts are constants: what YAML makes of a text     *)
(* that a form writes into a manifest without quotes, the text of a key    *)
(* and a value, and the tags that a text with a separator in it becomes    *)
(* when all tags are joined.                                               *)
(*                                                                         *)
(* Simplifications: volumes and commands, which no stage after the Pod     *)
(* looks at, are left out, and so are numbers that do not fit into an int; *)
(* a text of a form is one line (one of several could add fields to the    *)
(* manifest).                                                              *)
(***************************************************************************)
EXTENDS Integers, Sequences, SequencesExt

CONSTANTS
  Sources,    \* what users write: services, Helm pods, forms and pod manifests
  NewIDs,     \* the VMIDs the cluster may offer
  KeyValue(_, _), \* the text of a key and a value with "=" between them
  Pieces,     \* the tags that a text with a separator (";") in it is read as
  ReadAs,     \* what YAML reads where a text without quotes is not itself ("null")
  Unreadable  \* the texts that YAML cannot read without quotes ("a: b")

Nothing == <<>>

(* The optional scalars of an LXCConfig.                                   *)
Options == {"swap", "password", "sshPublicKey", "unprivileged", "onboot", "nameserver", "searchdomain",
            "environment", "pool", "description"}

(* What the decoders of YAML and the API's schema let through.             *)
Optional(S) == {s \in Seq(S) : Len(s) <= 1}
Labels == STRING \X STRING
PortSpec == [numeric : BOOLEAN, port : Int, suffix : Optional(STRING)]
MemorySpec == [h : Int, unit : {"g", "m", "", "x"}]
ResourceSpec == [cpus : Optional(Int), memory : Optional(MemorySpec)]
DeclaredNetwork == [gateway : STRING, internal : BOOLEAN]

IsService(s) ==
  /\ s.kind = "service"
  /\ {s.name, s.image, s.hostname, s.restart} \subseteq STRING
  /\ s.ports \in Seq(PortSpec)
  /\ s.networks \in Seq(STRING) /\ s.networksAsMap \in BOOLEAN
  /\ \A n \in DOMAIN s.declared : n \in STRING /\ s.declared[n] \in DeclaredNetwork
  /\ s.env \in [node : STRING, storage : STRING, bridge : STRING, pool : STRING, tags : Seq(STRING)]
  /\ {s.limits, s.reservations} \subseteq Optional(ResourceSpec)
  /\ s.labels \subseteq Labels /\ s.environment \in BOOLEAN

PortMapping == [port : Int, protocol : STRING]
HelmPods ==
  [ kind : {"helm"}, name : STRING \ {""}, release : STRING, node : STRING, globalNode : STRING,
    image : STRING, osTemplate : STRING, hostname : STRING, expose : BOOLEAN,
    ports : Seq(PortMapping),
    networks : Seq([bridge : STRING, ip : STRING, gateway : STRING]), globalBridge : STRING,
    cpu : Int, memory : Int, disk : Int, storage : STRING, globalStorage : STRING,
    globalTags : Seq(STRING), tags : Seq(STRING), labels : SUBSET Labels, mounts : Seq(STRING),
    options : SUBSET Options ]

PositiveSizes == Optional(Nat \ {0})
Forms ==
  [ kind : {"form"}, name : STRING \ {""}, node : STRING \ {""}, image : STRING, bridge : Optional(STRING),
    cpu : PositiveSizes, memory : PositiveSizes, disk : PositiveSizes, storage : Optional(STRING),
    tags : Seq(STRING), pool : Optional(STRING), description : Optional(STRING) ]

PodNetwork == [bridge : STRING, ip : STRING, gateway : STRING, firewall : BOOLEAN]
Pods ==
  [ name : STRING, node : STRING, image : STRING, osTemplate : STRING, hostname : STRING,
    expose : BOOLEAN, ports : Seq(PortMapping), networks : Seq(PodNetwork), legacy : Seq(PodNetwork),
    cpu : Int, memory : Int, disk : Int, storage : STRING, tags : Seq(STRING),
    labels : SUBSET Labels, mounts : Seq(STRING), options : SUBSET Options ]

ASSUME ManifestsAssumption ==
  /\ NewIDs \subseteq Nat \ {0}
  /\ \A s \in Sources :
       IsService(s) \/ s \in HelmPods \/ s \in Forms \/ s \in [kind : {"pod"}, manifest : Pods]
  /\ \A s \in Sources : s.kind = "helm" => KeyValue("helm-release", s.release) # ""
  /\ \A t \in DOMAIN Pieces : Pieces[t] \in Seq(STRING)
  /\ "proxkube" \notin DOMAIN Pieces
  /\ {"", "vmbr0", "local-lvm"} \cap (DOMAIN ReadAs \cup Unreadable) = {}

VARIABLES
  source,     \* the user's text
  pod,        \* api.Pod
  tags,       \* buildTags: the tags so far
  joined,     \* buildTags: the tags that they are read as when they are joined
  toTag,      \* buildTags: the tags of the spec that are left
  toLabel,    \* buildTags: the labels that are left
  config,     \* proxmox.LXCConfig
  request,    \* parameters of the creating request
  stage       \* how far the conversion has come

vars == <<source, pod, tags, joined, toTag, toLabel, config, request, stage>>

(* The first of two texts that is given; of more, nested to the right.     *)
Coalesce(a, b) == IF a # "" THEN a ELSE b

(* What is left of a sequence without the elements that are in d.          *)
Without(s, d) ==
  LET kept == {i \in DOMAIN s : s[i] \notin d}
      Upto(i) == {j \in kept : j <= i}
  IN [k \in 1..Cardinality(kept) |-> s[CHOOSE i \in kept : Cardinality(Upto(i)) = k]]

Init ==
  /\ source \in Sources
  /\ pod = Nothing
  /\ tags = <<>> /\ joined = <<>> /\ toTag = <<>> /\ toLabel = {}
  /\ config = Nothing
  /\ request = Nothing
  /\ stage = "read"

-----------------------------------------------------------------------------
(* Compose.                                                                *)

(* What the command line's environment variables make of the defaults.     *)
composeOptions(e) ==
  [ node |-> Coalesce(e.node, "pve"), storage |-> Coalesce(e.storage, "local-lvm"),
    bridge |-> Coalesce(e.bridge, "vmbr0"), pool |-> e.pool,
    tags |-> Without(e.tags, {""}),
    disk |-> 8, memory |-> 512, cpu |-> 1 ]

(* Memory in MB; h is what is written, counted in half MB.  Of gigabytes   *)
(* with a fraction whole MB are left (Go rounds towards zero); a fraction  *)
(* of an MB cannot be read.  That, and a unit "x" that is not known, give  *)
(* the default.                                                            *)
Halved(h) == IF h < 0 THEN -((-h) \div 2) ELSE h \div 2
Readable(m) == m.unit \in {"m", ""} /\ m.h % 2 = 0
MemoryMB(m, default) ==
  IF m.unit = "g" THEN Halved(m.h)
  ELSE IF Readable(m) THEN m.h \div 2
  ELSE default

(* deploy.resources: limits before reservations, whole CPUs, at least one; *)
(* h is twice the number written.                                          *)
WholeCPUs(h) == IF h \div 2 < 1 THEN 1 ELSE h \div 2
Limits(s) == IF s.limits # Nothing THEN s.limits ELSE s.reservations
ComposeCPU(s, opts) ==
  IF Limits(s) = Nothing \/ Head(Limits(s)).cpus = Nothing THEN opts.cpu
  ELSE WholeCPUs(Head(Head(Limits(s)).cpus))
ComposeMemory(s, opts) ==
  IF Limits(s) = Nothing \/ Head(Limits(s)).memory = Nothing THEN opts.memory
  ELSE MemoryMB(Head(Head(Limits(s)).memory), opts.memory)

(* A service's networks are a list, or a map, which Go reads in any order. *)
parseServiceNetworks(s) == IF s.networksAsMap THEN SetToSeqs(ToSet(s.networks)) ELSE {s.networks}

(* A network the file does not declare keeps the bridge only; whether one  *)
(* is internal is kept in the stack and not looked at again.               *)
ServiceNetwork(s, n, opts) ==
  [bridge |-> opts.bridge, firewall |-> FALSE,
   ip |-> IF n \in DOMAIN s.declared THEN "dhcp" ELSE "",
   gateway |-> IF n \in DOMAIN s.declared THEN s.declared[n].gateway ELSE ""]

Parses(s) == \A i \in DOMAIN s.ports : s.ports[i].numeric

ServicePort(p) ==
  [port |-> p.port, protocol |-> IF p.suffix = Nothing THEN "tcp" ELSE Head(p.suffix)]

serviceToPod(s, networks, opts) ==
  [ name |-> s.name, node |-> opts.node, image |-> s.image, osTemplate |-> "",
    hostname |-> Coalesce(s.hostname, s.name),
    expose |-> s.ports # <<>>,
    ports |-> [i \in DOMAIN s.ports |-> ServicePort(s.ports[i])],
    networks |-> [i \in DOMAIN networks |-> ServiceNetwork(s, networks[i], opts)],
    legacy |-> Nothing,
    cpu |-> ComposeCPU(s, opts), memory |-> ComposeMemory(s, opts), disk |-> opts.disk, storage |-> opts.storage,
    tags |-> Append(opts.tags, s.name), labels |-> s.labels, mounts |-> <<>>,
    options |-> (IF s.restart \in {"always", "unless-stopped"} THEN {"onboot"} ELSE {})
                \cup (IF s.environment THEN {"environment"} ELSE {})
                \cup (IF opts.pool # "" THEN {"pool"} ELSE {}) ]

-----------------------------------------------------------------------------
(* Helm values.                                                            *)
PositiveOr(n, default) == IF n > 0 THEN n ELSE default
ReleaseTag(h) == KeyValue("helm-release", h.release)

(* Seeded bug: only pods without tags of their own are tagged.             *)
TagsWithoutRelease(h) == IF h.tags = <<>> THEN h.globalTags \o <<ReleaseTag(h)>> ELSE h.globalTags \o h.tags
HelmTags(h) == h.globalTags \o h.tags \o <<ReleaseTag(h)>>

podValuesToPod(h) ==
  [ name |-> h.name, node |-> Coalesce(h.node, Coalesce(h.globalNode, "pve")),
    image |-> h.image, osTemplate |-> h.osTemplate, hostname |-> h.hostname,
    expose |-> h.expose,
    ports |-> [i \in DOMAIN h.ports |->
                 [port |-> h.ports[i].port, protocol |-> Coalesce(h.ports[i].protocol, "tcp")]],
    networks |-> [i \in DOMAIN h.networks |->
                    [bridge |-> Coalesce(h.networks[i].bridge, Coalesce(h.globalBridge, "vmbr0")),
                     ip |-> h.networks[i].ip, gateway |-> h.networks[i].gateway, firewall |-> FALSE]],
    legacy |-> Nothing,
    cpu |-> PositiveOr(h.cpu, 1), memory |-> PositiveOr(h.memory, 512), disk |-> PositiveOr(h.disk, 8),
    storage |-> Coalesce(h.storage, Coalesce(h.globalStorage, "local-lvm")),
    tags |-> HelmTags(h), labels |-> h.labels, mounts |-> h.mounts, options |-> h.options ]

-----------------------------------------------------------------------------
(* The form of the dashboard.  A parameter that is not sent is <<>>; one   *)
(* sent empty is <<"">>, which Perl's // does not replace; a text is true  *)
(* unless it is one of the Falsehoods.  Of a tag there is what is left     *)
(* without the characters no tag may have.                                 *)
(*                                                                         *)
(* The manifest that is written has the texts, but for the description,    *)
(* without quotes: a field is what YAML reads there, and proxkube refuses  *)
(* the manifest if it cannot.                                              *)
Falsehoods == {"", "0"}
Or(param, default) == IF param = <<>> THEN default ELSE Head(param)
Read(t) == IF t \in DOMAIN ReadAs THEN ReadAs[t] ELSE t

FormParses(f) ==
  Unreadable \cap ({f.name, f.node, f.image, Or(f.storage, "local-lvm"), Or(f.bridge, "vmbr0")}
                     \cup (ToSet(f.tags) \ Falsehoods) \cup (ToSet(f.pool) \ Falsehoods)) = {}

FormTags(f) == LET kept == Without(f.tags, Falsehoods) IN [i \in DOMAIN kept |-> Read(kept[i])]

create_pod(f) ==
  [ name |-> Read(f.name), node |-> Read(f.node), image |-> Read(f.image), osTemplate |-> "", hostname |-> "",
    expose |-> FALSE, ports |-> <<>>, networks |-> <<>>,
    legacy |-> <<[bridge |-> Read(Or(f.bridge, "vmbr0")), ip |-> "dhcp", gateway |-> "", firewall |-> FALSE]>>,
    cpu |-> Or(f.cpu, 1), memory |-> Or(f.memory, 512), disk |-> Or(f.disk, 8),
    storage |-> Read(Or(f.storage, "local-lvm")),
    tags |-> <<"proxkube">> \o FormTags(f),
    labels |-> {}, mounts |-> <<>>,
    options |-> (IF \E t \in ToSet(f.pool) \ Falsehoods : Read(t) # "" THEN {"pool"} ELSE {})
                \cup (IF Or(f.description, "managed") \notin Falsehoods THEN {"description"} ELSE {}) ]

-----------------------------------------------------------------------------
(* api.Pod.                                                                *)
EffectiveTemplate(p) == Coalesce(p.image, p.osTemplate)
PortsValid(p) == \A i \in DOMAIN p.ports : p.ports[i].port > 0 /\ p.ports[i].protocol \in {"", "tcp", "udp"}

(* Seeded bugs: no memory is enough; a port with no protocol is refused.   *)
ValidateZero(p) ==
  /\ p.name # "" /\ p.node # "" /\ EffectiveTemplate(p) # ""
  /\ p.cpu > 0 /\ p.memory >= 0 /\ p.disk > 0 /\ p.storage # ""
  /\ PortsValid(p)
ValidateProtocol(p) ==
  /\ p.name # "" /\ p.node # "" /\ EffectiveTemplate(p) # ""
  /\ p.cpu > 0 /\ p.memory > 0 /\ p.disk > 0 /\ p.storage # ""
  /\ \A i \in DOMAIN p.ports : p.ports[i].port > 0 /\ p.ports[i].protocol \in {"tcp", "udp"}

Validate(p) ==
  /\ p.name # "" /\ p.node # "" /\ EffectiveTemplate(p) # ""
  /\ p.cpu > 0 /\ p.memory > 0 /\ p.disk > 0 /\ p.storage # ""
  /\ PortsValid(p)

-----------------------------------------------------------------------------
(* podToLXCConfig.                                                         *)

(* One tag of buildTags: each is there once.  In the end they are joined   *)
(* with ";", so that a text with a separator in it becomes several tags.   *)
Parts(t) == IF t \in DOMAIN Pieces THEN Pieces[t] ELSE <<t>>
AddTag(t) ==
  \/ t \in ToSet(tags) /\ UNCHANGED <<tags, joined>>
  \/ t \notin ToSet(tags) /\ tags' = Append(tags, t) /\ joined' = joined \o Parts(t)

(* The firewall of a pod that is not exposed is always on.                 *)
Interface(p, n, i) ==
  [name |-> i - 1, bridge |-> n.bridge, ip |-> n.ip, gateway |-> n.gateway,
   firewall |-> n.firewall \/ ~p.expose]

(* Seeded bug: the single interface of older manifests is left as it is.   *)
InterfacesLegacyOpen(p) ==
  IF p.networks # <<>> THEN [i \in DOMAIN p.networks |-> Interface(p, p.networks[i], i)]
  ELSE [i \in DOMAIN p.legacy |-> Interface([p EXCEPT !.expose = TRUE], p.legacy[i], i)]

Interfaces(p) ==
  IF p.networks # <<>> THEN [i \in DOMAIN p.networks |-> Interface(p, p.networks[i], i)]
  ELSE [i \in DOMAIN p.legacy |-> Interface(p, p.legacy[i], i)]

podToLXCConfig(p, vmid, built) ==
  [ vmid |-> vmid, ostemplate |-> EffectiveTemplate(p), hostname |-> Coalesce(p.hostname, p.name),
    cores |-> p.cpu, memory |-> p.memory, rootfs |-> <<p.storage, p.disk>>,
    options |-> p.options \cup {"description"},
    tags |-> built, nets |-> Interfaces(p), mounts |-> p.mounts ]

-----------------------------------------------------------------------------
(* The two backends.  Neither passes the environment on.                   *)
Given(texts) == texts \ {""}
Attributes(net) ==
  [name |-> net.name, bridge |-> Given({net.bridge}), ip |-> Given({net.ip}), gw |-> Given({net.gateway}),
   firewall |-> net.firewall]

(* CreateLXC, pkg/proxmox: what is not given is left out.                  *)
Rest(c) ==
  [ vmid |-> {c.vmid} \ {0}, ostemplate |-> c.ostemplate, hostname |-> Given({c.hostname}),
    cores |-> c.cores, memory |-> c.memory, rootfs |-> c.rootfs,
    options |-> c.options \ {"environment"}, tags |-> c.tags,
    nets |-> [i \in DOMAIN c.nets |-> Attributes(c.nets[i])], mounts |-> c.mounts ]

(* Seeded bug: pct is not asked for a gateway without a fixed address.     *)
PctNoGateway(c) ==
  [ vmid |-> {c.vmid}, ostemplate |-> c.ostemplate, hostname |-> {c.hostname},
    cores |-> c.cores, memory |-> c.memory, rootfs |-> c.rootfs,
    options |-> c.options \ {"environment"}, tags |-> c.tags,
    nets |-> [i \in DOMAIN c.nets |->
                Attributes(IF c.nets[i].ip = "dhcp" THEN [c.nets[i] EXCEPT !.gateway = ""] ELSE c.nets[i])],
    mounts |-> c.mounts ]

(* CreateLXC, pkg/hypervisor: VMID and hostname are always arguments.      *)
Pct(c) ==
  [ vmid |-> {c.vmid}, ostemplate |-> c.ostemplate, hostname |-> {c.hostname},
    cores |-> c.cores, memory |-> c.memory, rootfs |-> c.rootfs,
    options |-> c.options \ {"environment"}, tags |-> c.tags,
    nets |-> [i \in DOMAIN c.nets |-> Attributes(c.nets[i])], mounts |-> c.mounts ]

-----------------------------------------------------------------------------
Convert ==
  /\ stage = "read"
  /\ \/ /\ source.kind = "service" /\ Parses(source)
        /\ \E networks \in parseServiceNetworks(source) :
             pod' = serviceToPod(source, networks, composeOptions(source.env))
        /\ stage' = "pod"
     \/ /\ \/ source.kind = "service" /\ ~Parses(source)
           \/ source.kind = "form" /\ ~FormParses(source)
        /\ stage' = "refused"
        /\ UNCHANGED pod
     \/ /\ source.kind = "helm"
        /\ pod' = podValuesToPod(source)
        /\ stage' = "pod"
     \/ /\ source.kind = "form" /\ FormParses(source)
        /\ pod' = create_pod(source)
        /\ stage' = "pod"
     \/ /\ source.kind = "pod"
        /\ pod' = source.manifest
        /\ stage' = "pod"
  /\ UNCHANGED <<source, tags, joined, toTag, toLabel, config, request>>

(* Apply, as far as it concerns the data.                                  *)
Refuse ==
  /\ stage = "pod" /\ ~Validate(pod)
  /\ stage' = "refused"
  /\ UNCHANGED <<source, pod, tags, joined, toTag, toLabel, config, request>>

(* buildTags: "proxkube", then the tags of the spec that are not empty,    *)
(* then the labels, over which Go ranges in any order.                     *)
StartTags ==
  /\ stage = "pod" /\ Validate(pod)
  /\ tags' = <<"proxkube">> /\ joined' = <<"proxkube">> /\ toTag' = pod.tags /\ toLabel' = pod.labels
  /\ stage' = "tagging"
  /\ UNCHANGED <<source, pod, config, request>>

TagFromSpec ==
  /\ stage = "tagging" /\ toTag # <<>>
  /\ \/ Head(toTag) = "" /\ UNCHANGED <<tags, joined>>
     \/ Head(toTag) # "" /\ AddTag(Head(toTag))
  /\ toTag' = Tail(toTag)
  /\ UNCHANGED <<source, pod, toLabel, config, request, stage>>

TagFromLabel ==
  /\ stage = "tagging" /\ toTag = <<>>
  /\ \E l \in toLabel :
       /\ AddTag(KeyValue(l[1], l[2]))
       /\ toLabel' = toLabel \ {l}
  /\ UNCHANGED <<source, pod, toTag, config, request, stage>>

Configure ==
  /\ stage = "tagging" /\ toTag = <<>> /\ toLabel = {}
  /\ \E vmid \in NewIDs : config' = podToLXCConfig(pod, vmid, joined)
  /\ stage' = "configured"
  /\ UNCHANGED <<source, pod, tags, joined, toTag, toLabel, request>>

Send ==
  /\ stage = "configured"
  /\ request' \in {Rest(config), Pct(config)}
  /\ stage' = "sent"
  /\ UNCHANGED <<source, pod, tags, joined, toTag, toLabel, config>>

Next == Convert \/ Refuse \/ StartTags \/ TagFromSpec \/ TagFromLabel \/ Configure \/ Send

Spec == Init /\ [][Next]_vars

-----------------------------------------------------------------------------
TypeOK ==
  /\ source \in Sources
  /\ stage \in {"read", "pod", "refused", "tagging", "configured", "sent"}
  /\ stage \in {"configured", "sent"} =>
       /\ config.vmid \in NewIDs /\ config.hostname # "" /\ config.ostemplate # ""
       /\ config.cores \in Nat \ {0} /\ config.memory \in Nat \ {0}
       /\ \A i \in DOMAIN config.nets : config.nets[i].firewall \in BOOLEAN
       /\ config.options \subseteq Options

(* What the user's text asks for, whatever its kind.                       *)
Exposes == IF source.kind = "service" THEN source.ports # <<>>
           ELSE IF source.kind = "helm" THEN source.expose
           ELSE source.kind = "pod" /\ source.manifest.expose
AsksFirewall(i) ==
  source.kind = "pod" /\ LET m == source.manifest
                         IN IF m.networks # <<>> THEN m.networks[i].firewall ELSE m.legacy[i].firewall

(* An interface is behind the firewall exactly when a manifest asks for it *)
(* there or the file publishes nothing: types.go 54-55 and pod.go 336-341, *)
(* through Compose, Helm, the dashboard or a manifest with either form of  *)
(* network, to the request of either backend.  Internal networks of a      *)
(* Compose file are no exception: although "pods on this network are not   *)
(* exposed externally" (types.go 247), a service that publishes ports has  *)
(* no firewall on them either.                                             *)
FirewallAsAsked ==
  stage = "sent" => \A i \in DOMAIN request.nets : request.nets[i].firewall <=> (~Exposes \/ AsksFirewall(i))

(* Whichever backend is selected, every configuration that can arise is    *)
(* created with the same parameters, although client.go 208-308 and        *)
(* hypervisor.go 107-181 are separate copies that leave different fields   *)
(* out.                                                                    *)
BackendsAgree == stage \in {"configured", "sent"} => Rest(config) = Pct(config)

(* The tags the user's text asks for, whatever its kind, and what they are *)
(* read as.                                                                *)
LabelTags(labels) == {KeyValue(l[1], l[2]) : l \in labels}
TagsAsked ==
  CASE source.kind = "service" ->
         Given({source.name} \cup ToSet(source.env.tags)) \cup LabelTags(source.labels)
    [] source.kind = "helm" ->
         {ReleaseTag(source)} \cup Given(ToSet(source.globalTags) \cup ToSet(source.tags))
           \cup LabelTags(source.labels)
    [] source.kind = "form" -> Given({Read(t) : t \in ToSet(source.tags) \ Falsehoods})
    [] source.kind = "pod" -> Given(ToSet(source.manifest.tags)) \cup LabelTags(source.manifest.labels)

TagsRead(texts) == UNION {ToSet(Parts(t)) : t \in texts}

(* A container can be told by its tags: "proxkube", by which the dashboard *)
(* tells what it manages, comes first, and then come exactly the tags and  *)
(* labels the file asks for, the release an uninstall looks for among      *)
(* them, each once if none is read as several (pod.go 376-402,             *)
(* converter.go 189-194, main.go 560-567, ProxKube.pm 322-352).            *)
Recognised ==
  stage = "sent" =>
    /\ Head(request.tags) = "proxkube"
    /\ ToSet(request.tags) = {"proxkube"} \cup TagsRead(TagsAsked)
    /\ TagsAsked \cap DOMAIN Pieces = {} => IsInjective(request.tags)

(* Texts that no container can be made of.                                 *)
BadPort(p) == p.port <= 0 \/ p.protocol \notin {"", "tcp", "udp"}
BadServicePort(p) == ~p.numeric \/ p.port <= 0 \/ p.suffix \notin {<<>>, <<"">>, <<"tcp">>, <<"udp">>}
BadMemory(m) == IF m.unit = "g" THEN m.h < 2 ELSE Readable(m) /\ m.h <= 0
Unusable ==
  CASE source.kind = "service" ->
         \/ source.name = "" \/ source.image = ""
         \/ \E p \in ToSet(source.ports) : BadServicePort(p)
         \/ Limits(source) # <<>> /\ \E m \in ToSet(Head(Limits(source)).memory) : BadMemory(m)
    [] source.kind = "helm" ->
         \/ source.image = "" /\ source.osTemplate = ""
         \/ \E p \in ToSet(source.ports) : BadPort(p)
    [] source.kind = "form" ->
         \/ ~FormParses(source)
         \/ "" \in {Read(t) : t \in {source.name, source.node, source.image} \cup ToSet(source.storage)}
    [] source.kind = "pod" ->
         LET m == source.manifest
         IN \/ "" \in {m.name, m.node, m.storage}
            \/ m.image = "" /\ m.osTemplate = ""
            \/ m.cpu <= 0 \/ m.memory <= 0 \/ m.disk <= 0
            \/ \E p \in ToSet(m.ports) : BadPort(p)

(* A file is refused exactly when it names no template, or a port or a     *)
(* size that cannot be (less than one MB is none): the defaults of Compose *)
(* and of Helm make up for what is left out and for what cannot be read,   *)
(* and for nothing else.  A form is refused when YAML cannot read one of   *)
(* its texts, or reads nothing where there must be something, a name       *)
(* "null" say; a field that was sent empty is not left out (compose.go     *)
(* 243-273 and 373-425, converter.go 282-289, types.go 192-229,            *)
(* ProxKube.pm 308-356).                                                   *)
RefusedOnlyIfUnusable ==
  /\ stage = "refused" => Unusable
  /\ stage \in {"tagging", "configured", "sent"} => ~Unusable
=============================================================================
