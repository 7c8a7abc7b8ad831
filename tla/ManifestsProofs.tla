-------------------------- MODULE ManifestsProofs --------------------------
(***************************************************************************)
(* Theorems about Manifests, for every file that the decoders let through, *)
(* whatever YAML makes of the texts of a form (ReadAs, Unreadable) and     *)
(* whichever texts are read as several tags (Pieces).                      *)
(***************************************************************************)
EXTENDS Manifests, SequenceLemmas

Stages == {"read", "pod", "refused", "tagging", "configured", "sent"}

(* The interfaces a pod asks for.                                          *)
NetsOf(p) == IF p.networks # <<>> THEN p.networks ELSE p.legacy

(* What the Pod keeps of the user's text.                                  *)
SizesKept == pod.cpu \in Int /\ pod.memory \in Int /\ pod.options \subseteq Options
FirewallKept ==
  /\ pod.expose = Exposes
  /\ \A i \in DOMAIN NetsOf(pod) : NetsOf(pod)[i].firewall = AsksFirewall(i)
DefectsKept == Validate(pod) <=> ~Unusable

Kept == SizesKept /\ FirewallKept /\ DefectsKept

(* What each stage has made of the stage before it.                        *)
ManifestsInv ==
  /\ source \in Sources /\ stage \in Stages
  /\ stage \in {"pod", "tagging", "configured", "sent"} => Kept
  /\ stage = "refused" => Unusable
  /\ stage \in {"tagging", "configured", "sent"} => Validate(pod)
  /\ stage \in {"configured", "sent"} =>
       /\ config.vmid \in NewIDs
       /\ config = podToLXCConfig(pod, config.vmid, config.tags)
  /\ stage = "sent" => request \in {Rest(config), Pct(config)}

(* The tags the file asks for are those of the Pod while there is nothing  *)
(* else, and later those that are built or left.                           *)
Elements(s) == Seq(ToSet(s))
TagsKept ==
  /\ pod.tags \in Elements(pod.tags)
  /\ {"proxkube"} \cup TagsAsked = {"proxkube"} \cup Given(ToSet(pod.tags)) \cup LabelTags(pod.labels)
TagsBuilt ==
  /\ tags \in Elements(tags) /\ tags # <<>> /\ Head(tags) = "proxkube" /\ IsInjective(tags)
  /\ toTag \in Elements(toTag)
  /\ {"proxkube"} \cup TagsAsked = ToSet(tags) \cup Given(ToSet(toTag)) \cup LabelTags(toLabel)

(* The joined tags are read as those that were built.                      *)
TagsJoined ==
  /\ joined \in Elements(joined) /\ joined # <<>> /\ Head(joined) = "proxkube"
  /\ ToSet(joined) = TagsRead(ToSet(tags))
  /\ ToSet(tags) \cap DOMAIN Pieces = {} => joined = tags

TagsInv ==
  /\ stage = "pod" => TagsKept
  /\ stage \in {"tagging", "configured", "sent"} => TagsBuilt /\ TagsJoined
  /\ stage \in {"configured", "sent"} => toTag = <<>> /\ toLabel = {} /\ config.tags = joined
  /\ stage = "sent" => request.tags = joined

-----------------------------------------------------------------------------
(* What may be left out is left out or is one value.                       *)
LEMMA OptionalCases ==
  ASSUME NEW S, NEW o \in Optional(S)
  PROVE  o = <<>> \/ (o # <<>> /\ Head(o) \in S /\ o = <<Head(o)>> /\ ToSet(o) = {Head(o)})
  <1>1. o \in Seq(S) /\ Len(o) <= 1
    BY DEF Optional
  <1>2. Len(o) \in Nat
    BY <1>1
  <1>3. Len(o) = 0 => o = <<>>
    BY <1>1
  <1>4. ASSUME Len(o) = 1
        PROVE  o # <<>> /\ Head(o) \in S /\ o = <<Head(o)>> /\ ToSet(o) = {Head(o)}
    <2>1. o # <<>>
      BY <1>4
    <2>2. Head(o) = o[1] /\ Head(o) \in S
      BY <1>1, <1>4
    <2>3. o = <<o[1]>>
      BY <1>1, <1>4
    <2>4. DOMAIN o = {1}
      BY <1>1, <1>4
    <2>5. ToSet(o) = {Head(o)}
      BY <2>2, <2>4 DEF ToSet
    <2> QED BY <2>1, <2>2, <2>3, <2>5
  <1>5. Len(o) = 0 \/ Len(o) = 1
    BY <1>1, <1>2
  <1> QED BY <1>3, <1>4, <1>5

(* The kind of a file tells its fields.                                    *)
LEMMA Kinds ==
  ASSUME NEW s \in Sources
  PROVE  /\ s.kind = "service" => IsService(s)
         /\ s.kind = "helm" => s \in HelmPods
         /\ s.kind = "form" => s \in Forms
         /\ s.kind = "pod" => s.manifest \in Pods
  <1>1. IsService(s) \/ s \in HelmPods \/ s \in Forms \/ s \in [kind : {"pod"}, manifest : Pods]
    BY ManifestsAssumption
  <1>2. /\ IsService(s) => s.kind = "service"
        /\ s \in HelmPods => s.kind = "helm"
        /\ s \in Forms => s.kind = "form"
        /\ s \in [kind : {"pod"}, manifest : Pods] => s.kind = "pod" /\ s.manifest \in Pods
    BY DEF IsService, HelmPods, Forms
  <1> QED BY <1>1, <1>2

-----------------------------------------------------------------------------
(* What the four converters keep.                                          *)

(* The memory of a service is a number, and no more than zero exactly if   *)
(* the file says so.                                                       *)
LEMMA MemoryRead ==
  ASSUME NEW m \in MemorySpec
  PROVE  MemoryMB(m, 512) \in Int /\ (MemoryMB(m, 512) > 0 <=> ~BadMemory(m))
  <1>1. PICK h \in Int : h = m.h
    BY DEF MemorySpec
  <1>2. h \div 2 \in Int /\ (-h) \div 2 \in Int
    OBVIOUS
  <1>3. Halved(h) \in Int /\ (Halved(h) > 0 <=> ~(h < 2))
    <2>1. ASSUME h < 0
          PROVE  -((-h) \div 2) \in Int /\ ~(-((-h) \div 2) > 0)
      <3>1. PICK k \in Int : k = -h
        OBVIOUS
      <3>2. k > 0
        BY <2>1, <3>1
      <3>3. k \div 2 \in Nat
        BY <3>2
      <3>4. PICK q \in Nat : q = k \div 2
        BY <3>3
      <3>5. -q \in Int /\ ~(-q > 0)
        OBVIOUS
      <3>6. (-h) \div 2 = q
        BY <3>1, <3>4
      <3> QED BY <3>5, <3>6, Zenon
    <2>2. h \div 2 > 0 <=> ~(h < 2)
      OBVIOUS
    <2> QED BY <1>2, <2>1, <2>2 DEF Halved
  <1>4. h % 2 = 0 => (h \div 2 > 0 <=> ~(h <= 0))
    OBVIOUS
  <1>5. CASE m.unit = "g"
    <2>1. MemoryMB(m, 512) = Halved(h) /\ (BadMemory(m) <=> h < 2)
      BY <1>1, <1>5 DEF MemoryMB, BadMemory
    <2> QED BY <1>3, <2>1
  <1>6. CASE m.unit # "g" /\ Readable(m)
    <2>1. MemoryMB(m, 512) = h \div 2
      BY <1>1, <1>6 DEF MemoryMB
    <2>2. BadMemory(m) <=> h <= 0
      BY <1>1, <1>6, Zenon DEF BadMemory
    <2>3. h % 2 = 0
      <3>1. m.h % 2 = 0
        BY <1>6 DEF Readable
      <3> QED BY <1>1, <3>1
    <2> QED BY <1>2, <1>4, <2>1, <2>2, <2>3
  <1>7. CASE m.unit # "g" /\ ~Readable(m)
    <2>1. MemoryMB(m, 512) = 512 /\ ~BadMemory(m)
      BY <1>1, <1>7 DEF MemoryMB, BadMemory
    <2>2. 512 \in Int /\ 512 > 0
      OBVIOUS
    <2> QED BY <2>1, <2>2
  <1> QED BY <1>5, <1>6, <1>7

(* A service's sizes are numbers; its CPUs are at least one.               *)
LEMMA ServiceSizes ==
  ASSUME NEW s, IsService(s), NEW opts, opts.cpu = 1, opts.memory = 512
  PROVE  /\ ComposeCPU(s, opts) \in Nat \ {0}
         /\ ComposeMemory(s, opts) \in Int
         /\ ComposeMemory(s, opts) > 0
              <=> ~(Limits(s) # <<>> /\ \E m \in ToSet(Head(Limits(s)).memory) : BadMemory(m))
  <1>1. Limits(s) \in Optional(ResourceSpec)
    BY DEF IsService, Limits
  <1>2. CASE Limits(s) = <<>>
    BY <1>2 DEF ComposeCPU, ComposeMemory, Nothing
  <1>3. CASE Limits(s) # <<>>
    <2>1. Head(Limits(s)) \in ResourceSpec
      BY <1>1, <1>3, OptionalCases
    <2>2. PICK r \in ResourceSpec : r = Head(Limits(s))
      BY <2>1
    <2>3. r.cpus \in Optional(Int) /\ r.memory \in Optional(MemorySpec)
      BY DEF ResourceSpec
    <2>4. ComposeCPU(s, opts) \in Nat \ {0}
      <3>1. CASE r.cpus = <<>>
        BY <2>2, <3>1 DEF ComposeCPU, Nothing
      <3>2. CASE r.cpus # <<>>
        <4>1. PICK h \in Int : h = Head(r.cpus)
          <5>1. r.cpus \in Optional(Int)
            BY <2>3
          <5>2. Head(r.cpus) \in Int
            BY <3>2, <5>1, OptionalCases
          <5> QED BY <5>2
        <4>2. h \div 2 \in Int
          OBVIOUS
        <4>3. WholeCPUs(h) \in Nat \ {0}
          BY <4>2 DEF WholeCPUs
        <4>4. ComposeCPU(s, opts) = WholeCPUs(h)
          BY <1>3, <2>2, <3>2, <4>1 DEF ComposeCPU, Nothing
        <4> QED BY <4>3, <4>4
      <3> QED BY <3>1, <3>2
    <2>5. CASE r.memory = <<>>
      <3>1. ToSet(r.memory) = {}
        BY <2>5 DEF ToSet
      <3>2. ComposeMemory(s, opts) = 512
        BY <2>2, <2>5 DEF ComposeMemory, Nothing
      <3> QED BY <2>2, <2>4, <3>1, <3>2
    <2>6. CASE r.memory # <<>>
      <3>1. PICK m \in MemorySpec : m = Head(r.memory) /\ ToSet(r.memory) = {m}
        <4>1. r.memory \in Optional(MemorySpec)
          BY <2>3
        <4> QED BY <2>6, <4>1, OptionalCases
      <3>2. ComposeMemory(s, opts) = MemoryMB(m, 512)
        BY <1>3, <2>2, <2>6, <3>1 DEF ComposeMemory, Nothing
      <3> QED BY <1>3, <2>2, <2>4, <3>1, <3>2, MemoryRead
    <2> QED BY <2>5, <2>6
  <1> QED BY <1>2, <1>3

(* A published port is valid exactly if the file's is.                     *)
LEMMA ServicePortValid ==
  ASSUME NEW q \in PortSpec, q.numeric
  PROVE  ServicePort(q).port > 0 /\ ServicePort(q).protocol \in {"", "tcp", "udp"} <=> ~BadServicePort(q)
  <1>1. ServicePort(q).port = q.port /\ q.port \in Int /\ q.suffix \in Optional(STRING)
    BY DEF ServicePort, PortSpec
  <1>4. BadServicePort(q) <=> ~(q.port > 0) \/ q.suffix \notin {<<>>, <<"">>, <<"tcp">>, <<"udp">>}
    <2>1. q.port <= 0 <=> ~(q.port > 0)
      BY <1>1
    <2> QED BY <2>1, Zenon DEF BadServicePort
  <1>2. CASE q.suffix = <<>>
    <2>1. ServicePort(q).protocol = "tcp"
      BY <1>2 DEF ServicePort, Nothing
    <2> QED BY <1>1, <1>2, <1>4, <2>1
  <1>3. CASE q.suffix # <<>>
    <2>1. PICK t : t = Head(q.suffix) /\ q.suffix = <<t>>
      BY <1>1, <1>3, OptionalCases
    <2>2. ServicePort(q).protocol = t
      BY <1>3, <2>1 DEF ServicePort, Nothing
    <2>3. q.suffix \in {<<>>, <<"">>, <<"tcp">>, <<"udp">>} <=> t \in {"", "tcp", "udp"}
      <3>1. \A u : <<t>> = <<u>> <=> t = u
        OBVIOUS
      <3> QED BY <1>3, <2>1, <3>1
    <2> QED BY <1>1, <1>4, <2>2, <2>3
  <1> QED BY <1>2, <1>3

(* serviceToPod keeps of a service what later stages depend on.            *)
LEMMA ServiceKept ==
  ASSUME source \in Sources, source' = source, source.kind = "service", Parses(source),
         NEW networks, pod' = serviceToPod(source, networks, composeOptions(source.env))
  PROVE  Kept'
  <1>1. PICK s : s = source
    OBVIOUS
  <1>2. PICK o : o = composeOptions(s.env)
    OBVIOUS
  <1>3. PICK p : p = serviceToPod(s, networks, o)
    OBVIOUS
  <1>4. source = s /\ source' = s /\ pod' = p /\ s.kind = "service" /\ IsService(s)
    BY <1>1, <1>2, <1>3, Kinds
  <1>5. o.cpu = 1 /\ o.memory = 512 /\ o.disk = 8 /\ o.node # "" /\ o.storage # ""
    BY <1>2 DEF composeOptions, Coalesce
  <1>6. /\ ComposeCPU(s, o) \in Nat \ {0} /\ ComposeMemory(s, o) \in Int
        /\ ComposeMemory(s, o) > 0
              <=> ~(Limits(s) # <<>> /\ \E m \in ToSet(Head(Limits(s)).memory) : BadMemory(m))
    BY <1>4, <1>5, ServiceSizes
  <1>7. /\ p.name = s.name /\ p.node = o.node /\ p.image = s.image /\ p.osTemplate = ""
        /\ p.cpu = ComposeCPU(s, o) /\ p.memory = ComposeMemory(s, o) /\ p.disk = 8 /\ p.storage = o.storage
        /\ p.expose = (s.ports # <<>>) /\ p.legacy = <<>>
    BY <1>3, <1>5 DEF serviceToPod, Nothing
  <1>8. SizesKept'
    <2>1. p.options \subseteq Options
      BY <1>3 DEF serviceToPod, Options
    <2>2. p.cpu \in Int /\ p.memory \in Int
      <3>1. Nat \ {0} \subseteq Int
        OBVIOUS
      <3> QED BY <1>6, <1>7, <3>1
    <2> QED BY <1>4, <2>1, <2>2, Zenon DEF SizesKept
  <1>9. FirewallKept'
    <2>1. \A i \in DOMAIN NetsOf(p) : NetsOf(p)[i].firewall = FALSE
      <3>1. p.networks = [i \in DOMAIN networks |-> ServiceNetwork(s, networks[i], o)]
        BY <1>3 DEF serviceToPod
      <3>2. \A n : ServiceNetwork(s, n, o).firewall = FALSE
        BY DEF ServiceNetwork
      <3>3. \A i \in DOMAIN p.networks : p.networks[i].firewall = FALSE
        BY <3>1, <3>2
      <3>4. DOMAIN p.legacy = {}
        <4>1. DOMAIN <<>> = {}
          OBVIOUS
        <4> QED BY <1>7, <4>1
      <3> QED BY <3>3, <3>4 DEF NetsOf
    <2> QED BY <1>4, <1>7, <2>1 DEF FirewallKept, Exposes, AsksFirewall
  <1>10. DefectsKept'
    <2>1. PortsValid(p) <=> ~(\E q \in ToSet(s.ports) : BadServicePort(q))
      <3>1. DOMAIN p.ports = DOMAIN s.ports /\ \A i \in DOMAIN s.ports : p.ports[i] = ServicePort(s.ports[i])
        BY <1>3 DEF serviceToPod
      <3>2. \A i \in DOMAIN s.ports : s.ports[i] \in PortSpec
        BY <1>4 DEF IsService
      <3>3. \A i \in DOMAIN s.ports : s.ports[i].numeric
        BY <1>4 DEF Parses
      <3>4. \A i \in DOMAIN s.ports :
              p.ports[i].port > 0 /\ p.ports[i].protocol \in {"", "tcp", "udp"} <=> ~BadServicePort(s.ports[i])
        BY <3>1, <3>2, <3>3, ServicePortValid
      <3> QED BY <3>1, <3>4 DEF PortsValid, ToSet
    <2>2. EffectiveTemplate(p) = s.image
      BY <1>7 DEF EffectiveTemplate, Coalesce
    <2>3. Validate(p) <=> /\ s.name # "" /\ s.image # "" /\ ComposeMemory(s, o) > 0
                          /\ ~(\E q \in ToSet(s.ports) : BadServicePort(q))
      <3>1. 8 > 0 /\ \A n \in Nat \ {0} : n > 0
        OBVIOUS
      <3>2. p.cpu > 0 /\ p.disk > 0
        BY <1>6, <1>7, <3>1
      <3>3. p.node # "" /\ p.storage # ""
        BY <1>5, <1>7
      <3>4. p.name = s.name /\ EffectiveTemplate(p) = s.image /\ p.memory = ComposeMemory(s, o)
        BY <1>7, <2>2
      <3> QED BY <2>1, <3>2, <3>3, <3>4, Zenon DEF Validate
    <2> QED BY <1>4, <1>6, <2>3 DEF DefectsKept, Unusable
  <1> QED BY <1>8, <1>9, <1>10 DEF Kept

(* BadPort is what Validate refuses of a port.                             *)
LEMMA PortValid ==
  ASSUME NEW q, q.port \in Int
  PROVE  q.port > 0 /\ q.protocol \in {"", "tcp", "udp"} <=> ~BadPort(q)
  <1>1. q.port <= 0 <=> ~(q.port > 0)
    OBVIOUS
  <1> QED BY <1>1, Zenon DEF BadPort

(* podValuesToPod keeps of a pod of Helm values what later stages depend   *)
(* on.                                                                     *)
LEMMA HelmKept ==
  ASSUME source \in Sources, source' = source, source.kind = "helm", pod' = podValuesToPod(source)
  PROVE  Kept'
  <1>1. PICK h : h = source
    OBVIOUS
  <1>2. PICK p : p = podValuesToPod(h)
    OBVIOUS
  <1>3. source = h /\ source' = h /\ pod' = p /\ h.kind = "helm" /\ h \in HelmPods
    BY <1>1, <1>2, Kinds
  <1>4. \A n \in Int, d \in Nat \ {0} : PositiveOr(n, d) \in Nat \ {0}
    BY DEF PositiveOr
  <1>5. p.cpu \in Nat \ {0} /\ p.memory \in Nat \ {0} /\ p.disk \in Nat \ {0}
    <2>1. h.cpu \in Int /\ h.memory \in Int /\ h.disk \in Int
      BY <1>3 DEF HelmPods
    <2>2. 1 \in Nat \ {0} /\ 512 \in Nat \ {0} /\ 8 \in Nat \ {0}
      OBVIOUS
    <2>3. p.cpu = PositiveOr(h.cpu, 1) /\ p.memory = PositiveOr(h.memory, 512) /\ p.disk = PositiveOr(h.disk, 8)
      BY <1>2 DEF podValuesToPod
    <2>4. PositiveOr(h.cpu, 1) \in Nat \ {0}
      BY <1>4, <2>1, <2>2, Zenon
    <2>5. PositiveOr(h.memory, 512) \in Nat \ {0}
      BY <1>4, <2>1, <2>2, Zenon
    <2>6. PositiveOr(h.disk, 8) \in Nat \ {0}
      BY <1>4, <2>1, <2>2, Zenon
    <2> QED BY <2>3, <2>4, <2>5, <2>6
  <1>6. /\ p.name = h.name /\ p.image = h.image /\ p.osTemplate = h.osTemplate
        /\ p.expose = h.expose /\ p.legacy = <<>> /\ p.options = h.options
    BY <1>2 DEF podValuesToPod, Nothing
  <1>7. h.name # "" /\ h.options \subseteq Options
    BY <1>3 DEF HelmPods
  <1>8. SizesKept'
    <2>1. Nat \ {0} \subseteq Int
      OBVIOUS
    <2>2. p.cpu \in Int /\ p.memory \in Int
      BY <1>5, <2>1
    <2> QED BY <1>3, <1>6, <1>7, <2>2, Zenon DEF SizesKept
  <1>9. FirewallKept'
    <2>1. p.networks = [i \in DOMAIN h.networks |->
                          [bridge |-> Coalesce(h.networks[i].bridge, Coalesce(h.globalBridge, "vmbr0")),
                           ip |-> h.networks[i].ip, gateway |-> h.networks[i].gateway, firewall |-> FALSE]]
      BY <1>2 DEF podValuesToPod
    <2>2. \A i \in DOMAIN p.networks : p.networks[i].firewall = FALSE
      BY <2>1
    <2>3. DOMAIN p.legacy = {}
      <3>1. DOMAIN <<>> = {}
        OBVIOUS
      <3> QED BY <1>6, <3>1
    <2>4. \A i \in DOMAIN NetsOf(p) : NetsOf(p)[i].firewall = FALSE
      BY <2>2, <2>3 DEF NetsOf
    <2> QED BY <1>3, <1>6, <2>4 DEF FirewallKept, Exposes, AsksFirewall
  <1>10. DefectsKept'
    <2>1. PortsValid(p) <=> ~(\E q \in ToSet(h.ports) : BadPort(q))
      <3>1. /\ DOMAIN p.ports = DOMAIN h.ports
            /\ \A i \in DOMAIN h.ports : /\ p.ports[i].port = h.ports[i].port
                                       /\ p.ports[i].protocol = Coalesce(h.ports[i].protocol, "tcp")
        BY <1>2 DEF podValuesToPod
      <3>2. \A i \in DOMAIN h.ports : h.ports[i].port \in Int
        <4>1. h.ports \in Seq(PortMapping)
          BY <1>3 DEF HelmPods
        <4>2. \A i \in DOMAIN h.ports : h.ports[i] \in PortMapping
          BY <4>1
        <4> QED BY <4>2 DEF PortMapping
      <3>3. \A t : Coalesce(t, "tcp") \in {"", "tcp", "udp"} <=> t \in {"", "tcp", "udp"}
        BY DEF Coalesce
      <3>4. \A i \in DOMAIN h.ports :
              p.ports[i].port > 0 /\ p.ports[i].protocol \in {"", "tcp", "udp"} <=> ~BadPort(h.ports[i])
        <4> TAKE i \in DOMAIN h.ports
        <4>1. h.ports[i].port > 0 /\ h.ports[i].protocol \in {"", "tcp", "udp"} <=> ~BadPort(h.ports[i])
          BY <3>2, PortValid
        <4>2. p.ports[i].port = h.ports[i].port
          BY <3>1
        <4>3. p.ports[i].protocol \in {"", "tcp", "udp"} <=> h.ports[i].protocol \in {"", "tcp", "udp"}
          BY <3>1, <3>3, Zenon
        <4> QED BY <4>1, <4>2, <4>3, Zenon
      <3> QED BY <3>1, <3>4 DEF PortsValid, ToSet
    <2>2. EffectiveTemplate(p) = "" <=> h.image = "" /\ h.osTemplate = ""
      BY <1>6 DEF EffectiveTemplate, Coalesce
    <2>3. p.node # "" /\ p.storage # ""
      BY <1>2 DEF podValuesToPod, Coalesce
    <2>4. p.cpu > 0 /\ p.memory > 0 /\ p.disk > 0
      BY <1>5
    <2>5. Validate(p) <=> /\ ~(h.image = "" /\ h.osTemplate = "")
                          /\ ~(\E q \in ToSet(h.ports) : BadPort(q))
      BY <1>6, <1>7, <2>1, <2>2, <2>3, <2>4, Zenon DEF Validate
    <2> QED BY <1>3, <2>5 DEF DefectsKept, Unusable
  <1> QED BY <1>8, <1>9, <1>10 DEF Kept

(* create_pod keeps of the form what later stages depend on.               *)
LEMMA FormKept ==
  ASSUME source \in Sources, source' = source, source.kind = "form", FormParses(source), pod' = create_pod(source)
  PROVE  Kept'
  <1>1. PICK f : f = source
    OBVIOUS
  <1>2. PICK p : p = create_pod(f)
    OBVIOUS
  <1>3. source = f /\ source' = f /\ pod' = p /\ f.kind = "form" /\ f \in Forms
    BY <1>1, <1>2, Kinds
  <1>4. p.cpu \in Nat \ {0} /\ p.memory \in Nat \ {0} /\ p.disk \in Nat \ {0}
    <2>1. \A o \in PositiveSizes, d \in Nat \ {0} : Or(o, d) \in Nat \ {0}
      BY OptionalCases DEF PositiveSizes, Or
    <2>2. f.cpu \in PositiveSizes /\ f.memory \in PositiveSizes /\ f.disk \in PositiveSizes
      BY <1>3 DEF Forms
    <2>3. 1 \in Nat \ {0} /\ 512 \in Nat \ {0} /\ 8 \in Nat \ {0}
      OBVIOUS
    <2>4. p.cpu = Or(f.cpu, 1) /\ p.memory = Or(f.memory, 512) /\ p.disk = Or(f.disk, 8)
      BY <1>2 DEF create_pod
    <2> QED BY <2>1, <2>2, <2>3, <2>4
  <1>5. /\ p.name = Read(f.name) /\ p.node = Read(f.node) /\ p.image = Read(f.image) /\ p.osTemplate = ""
        /\ p.expose = FALSE /\ p.ports = <<>> /\ p.networks = <<>>
        /\ p.storage = Read(Or(f.storage, "local-lvm"))
    BY <1>2 DEF create_pod
  <1>6. f.storage \in Optional(STRING) /\ FormParses(f)
    BY <1>3 DEF Forms
  <1>7. SizesKept'
    <2>1. p.options \subseteq Options
      BY <1>2 DEF create_pod, Options
    <2>2. Nat \ {0} \subseteq Int
      OBVIOUS
    <2>3. p.cpu \in Int /\ p.memory \in Int
      BY <1>4, <2>2
    <2> QED BY <1>3, <2>1, <2>3, Zenon DEF SizesKept
  <1>8. FirewallKept'
    <2>1. p.legacy = <<[bridge |-> Read(Or(f.bridge, "vmbr0")), ip |-> "dhcp", gateway |-> "", firewall |-> FALSE]>>
      BY <1>2 DEF create_pod
    <2>2. \A i \in DOMAIN NetsOf(p) : NetsOf(p)[i].firewall = FALSE
      <3>1. PICK n : n = [bridge |-> Read(Or(f.bridge, "vmbr0")), ip |-> "dhcp", gateway |-> "", firewall |-> FALSE]
        OBVIOUS
      <3>2. NetsOf(p) = <<n>> /\ n.firewall = FALSE
        BY <1>5, <2>1, <3>1 DEF NetsOf
      <3> QED BY <3>2
    <2> QED BY <1>3, <1>5, <2>2 DEF FirewallKept, Exposes, AsksFirewall
  <1>9. DefectsKept'
    <2>1. PortsValid(p)
      <3>1. DOMAIN <<>> = {}
        OBVIOUS
      <3> QED BY <1>5, <3>1 DEF PortsValid
    <2>2. EffectiveTemplate(p) = Read(f.image)
      BY <1>5 DEF EffectiveTemplate, Coalesce
    <2>3. p.storage = "" <=> \E t \in ToSet(f.storage) : Read(t) = ""
      <3>1. CASE f.storage = <<>>
        <4>1. ToSet(f.storage) = {}
          BY <3>1 DEF ToSet
        <4>2. p.storage = Read("local-lvm")
          BY <1>5, <3>1 DEF Or
        <4>3. p.storage = "local-lvm"
          BY <4>2, ManifestsAssumption DEF Read
        <4> QED BY <4>1, <4>3
      <3>2. CASE f.storage # <<>>
        <4>1. PICK t : t = Head(f.storage) /\ ToSet(f.storage) = {t}
          BY <1>6, <3>2, OptionalCases
        <4>2. p.storage = Read(t)
          BY <1>5, <3>2, <4>1 DEF Or
        <4> QED BY <4>1, <4>2
      <3> QED BY <3>1, <3>2
    <2>4. p.cpu > 0 /\ p.memory > 0 /\ p.disk > 0
      BY <1>4
    <2>5. PICK all : all = {f.name, f.node, f.image} \cup ToSet(f.storage)
      OBVIOUS
    <2>6. "" \in {Read(t) : t \in all}
            <=> \/ Read(f.name) = "" \/ Read(f.node) = "" \/ Read(f.image) = ""
                \/ \E t \in ToSet(f.storage) : Read(t) = ""
      BY <2>5
    <2>7. Validate(p) <=> "" \notin {Read(t) : t \in all}
      BY <1>5, <2>1, <2>2, <2>3, <2>4, <2>6, Zenon DEF Validate
    <2>8. Unusable' <=> "" \in {Read(t) : t \in all}
      BY <1>3, <1>6, <2>5 DEF Unusable
    <2> QED BY <1>3, <2>7, <2>8 DEF DefectsKept
  <1> QED BY <1>7, <1>8, <1>9 DEF Kept

(* A pod manifest is the pod itself.                                       *)
LEMMA ManifestKept ==
  ASSUME source \in Sources, source' = source, source.kind = "pod", pod' = source.manifest
  PROVE  Kept'
  <1>1. PICK s : s = source
    OBVIOUS
  <1>2. PICK p : p = s.manifest
    OBVIOUS
  <1>3. source = s /\ source' = s /\ pod' = p /\ s.kind = "pod" /\ s.manifest = p /\ p \in Pods
    BY <1>1, <1>2, Kinds
  <1>4. SizesKept'
    BY <1>3 DEF SizesKept, Pods
  <1>5. FirewallKept'
    <2>1. Exposes' = p.expose
      <3>1. p.expose \in BOOLEAN
        BY <1>3 DEF Pods
      <3>2. Exposes' = (s.kind = "pod" /\ p.expose)
        BY <1>3 DEF Exposes
      <3> QED BY <1>3, <3>1, <3>2
    <2>2. \A i : AsksFirewall(i)' = (s.kind = "pod" /\ NetsOf(p)[i].firewall)
      <3> TAKE i
      <3>1. CASE p.networks # <<>>
        BY <1>3, <3>1, Zenon DEF AsksFirewall, NetsOf
      <3>2. CASE p.networks = <<>>
        BY <1>3, <3>2, Zenon DEF AsksFirewall, NetsOf
      <3> QED BY <3>1, <3>2
    <2>3. \A i \in DOMAIN NetsOf(p) : NetsOf(p)[i].firewall \in BOOLEAN
      <3>1. p.networks \in Seq(PodNetwork) /\ p.legacy \in Seq(PodNetwork)
        BY <1>3 DEF Pods
      <3>2. NetsOf(p) \in Seq(PodNetwork)
        BY <3>1 DEF NetsOf
      <3>3. \A i \in DOMAIN NetsOf(p) : NetsOf(p)[i] \in PodNetwork
        BY <3>2
      <3> QED BY <3>3 DEF PodNetwork
    <2> QED BY <1>3, <2>1, <2>2, <2>3 DEF FirewallKept
  <1>6. DefectsKept'
    <2>1. PortsValid(p) <=> ~(\E q \in ToSet(p.ports) : BadPort(q))
      <3>1. \A i \in DOMAIN p.ports : p.ports[i].port \in Int
        <4>1. p.ports \in Seq(PortMapping)
          BY <1>3 DEF Pods
        <4>2. \A i \in DOMAIN p.ports : p.ports[i] \in PortMapping
          BY <4>1
        <4> QED BY <4>2 DEF PortMapping
      <3>2. \A i \in DOMAIN p.ports :
              p.ports[i].port > 0 /\ p.ports[i].protocol \in {"", "tcp", "udp"} <=> ~BadPort(p.ports[i])
        BY <3>1, PortValid
      <3> QED BY <3>2 DEF PortsValid, ToSet
    <2>2. EffectiveTemplate(p) = "" <=> p.image = "" /\ p.osTemplate = ""
      BY DEF EffectiveTemplate, Coalesce
    <2>3. (p.cpu > 0 <=> ~(p.cpu <= 0)) /\ (p.memory > 0 <=> ~(p.memory <= 0)) /\ (p.disk > 0 <=> ~(p.disk <= 0))
      BY <1>3 DEF Pods
    <2>4. Validate(p) <=> ~ \/ "" \in {p.name, p.node, p.storage}
                            \/ p.image = "" /\ p.osTemplate = ""
                            \/ p.cpu <= 0 \/ p.memory <= 0 \/ p.disk <= 0
                            \/ \E q \in ToSet(p.ports) : BadPort(q)
      BY <2>1, <2>2, <2>3, Zenon DEF Validate
    <2> QED BY <1>3, <2>4 DEF DefectsKept, Unusable
  <1> QED BY <1>4, <1>5, <1>6 DEF Kept

-----------------------------------------------------------------------------
(* The invariant.                                                          *)

(* A Pod's fields depend on the source and the Pod alone.                  *)
LEMMA KeptUnchanged ==
  ASSUME Kept, UNCHANGED <<source, pod>>
  PROVE  Kept'
  BY DEF Kept, SizesKept, FirewallKept, DefectsKept, Exposes, AsksFirewall, Unusable

(* A service with a port that is not a number is refused by serviceToPod.  *)
LEMMA UnreadablePort ==
  ASSUME source.kind = "service", ~Parses(source)
  PROVE  Unusable
  <1>1. PICK i \in DOMAIN source.ports : ~source.ports[i].numeric
    BY DEF Parses
  <1>2. source.ports[i] \in ToSet(source.ports) /\ BadServicePort(source.ports[i])
    BY <1>1 DEF ToSet, BadServicePort
  <1> QED BY <1>2 DEF Unusable

(* A form with a text that YAML cannot read is refused by proxkube.        *)
LEMMA UnreadableForm ==
  ASSUME source.kind = "form", ~FormParses(source)
  PROVE  Unusable
  BY DEF Unusable

(* Nothing is converted at first.                                          *)
LEMMA InvInit == Init => ManifestsInv
  BY DEF Init, ManifestsInv, Stages

(* Convert makes a Pod that is as good as the file, Configure makes the    *)
(* configuration of a valid Pod, and Send the request of a configuration.  *)
LEMMA InvStep == ManifestsInv /\ [Next]_vars => ManifestsInv'
  <1> SUFFICES ASSUME ManifestsInv, [Next]_vars PROVE ManifestsInv'
    OBVIOUS
  <1>1. CASE Convert
    <2>1. source' = source /\ source \in Sources
      BY <1>1 DEF Convert, ManifestsInv
    <2>2. \/ /\ (source.kind = "service" /\ ~Parses(source)) \/ (source.kind = "form" /\ ~FormParses(source))
             /\ stage' = "refused"
          \/ Kept' /\ stage' = "pod"
      <3>1. CASE /\ source.kind = "service" /\ Parses(source) /\ stage' = "pod"
                 /\ \E networks \in parseServiceNetworks(source) :
                      pod' = serviceToPod(source, networks, composeOptions(source.env))
        BY <2>1, <3>1, ServiceKept
      <3>2. CASE source.kind = "helm" /\ pod' = podValuesToPod(source) /\ stage' = "pod"
        BY <2>1, <3>2, HelmKept
      <3>3. CASE source.kind = "form" /\ FormParses(source) /\ pod' = create_pod(source) /\ stage' = "pod"
        BY <2>1, <3>3, FormKept
      <3>4. CASE source.kind = "pod" /\ pod' = source.manifest /\ stage' = "pod"
        BY <2>1, <3>4, ManifestKept
      <3>5. CASE /\ (source.kind = "service" /\ ~Parses(source)) \/ (source.kind = "form" /\ ~FormParses(source))
                 /\ stage' = "refused"
        BY <3>5
      <3> QED BY <1>1, <3>1, <3>2, <3>3, <3>4, <3>5, Zenon DEF Convert
    <2>3. CASE Kept' /\ stage' = "pod"
      BY <2>1, <2>3 DEF ManifestsInv, Stages
    <2>4. CASE /\ (source.kind = "service" /\ ~Parses(source)) \/ (source.kind = "form" /\ ~FormParses(source))
               /\ stage' = "refused"
      <3>1. Unusable
        BY <2>4, UnreadablePort, UnreadableForm
      <3>2. Unusable'
        BY <2>1, <3>1 DEF Unusable
      <3> QED BY <2>1, <2>4, <3>2 DEF ManifestsInv, Stages
    <2> QED BY <2>2, <2>3, <2>4
  <1>2. CASE Refuse
    <2>1. Kept /\ ~Validate(pod) /\ source' = source /\ stage' = "refused" /\ source \in Sources
      BY <1>2 DEF Refuse, ManifestsInv
    <2>2. Unusable
      BY <2>1 DEF Kept, DefectsKept
    <2>3. Unusable'
      BY <2>1, <2>2 DEF Unusable
    <2> QED BY <2>1, <2>3 DEF ManifestsInv, Stages
  <1>3. CASE StartTags \/ TagFromSpec \/ TagFromLabel
    <2>1. /\ Kept /\ Validate(pod) /\ UNCHANGED <<source, pod>> /\ stage' = "tagging" /\ source \in Sources
      BY <1>3 DEF StartTags, TagFromSpec, TagFromLabel, ManifestsInv
    <2>2. Kept' /\ Validate(pod')
      BY <2>1, KeptUnchanged
    <2> QED BY <2>1, <2>2 DEF ManifestsInv, Stages
  <1>6. CASE Configure
    <2>1. Kept /\ Validate(pod) /\ source' = source /\ pod' = pod /\ stage' = "configured" /\ source \in Sources
      BY <1>6 DEF Configure, ManifestsInv
    <2>2. PICK vmid \in NewIDs : config' = podToLXCConfig(pod, vmid, joined)
      BY <1>6 DEF Configure
    <2>3. config'.vmid = vmid /\ config'.tags = joined
      BY <2>2 DEF podToLXCConfig
    <2>4. Kept'
      BY <2>1, KeptUnchanged
    <2>5. config' = podToLXCConfig(pod', config'.vmid, config'.tags) /\ Validate(pod')
      BY <2>1, <2>2, <2>3
    <2> QED BY <2>1, <2>3, <2>4, <2>5 DEF ManifestsInv, Stages
  <1>4. CASE Send
    <2>1. /\ stage = "configured" /\ stage' = "sent" /\ UNCHANGED <<source, pod, config>>
          /\ request' \in {Rest(config), Pct(config)}
      BY <1>4 DEF Send
    <2>2. Kept' /\ request' \in {Rest(config'), Pct(config')}
      BY <2>1, KeptUnchanged DEF ManifestsInv
    <2> QED BY <2>1, <2>2 DEF ManifestsInv, Stages
  <1>5. CASE UNCHANGED vars
    <2>1. Kept => Kept'
      BY <1>5, KeptUnchanged DEF vars
    <2>2. Unusable => Unusable'
      BY <1>5 DEF vars, Unusable
    <2> QED BY <1>5, <2>1, <2>2 DEF ManifestsInv, vars
  <1> QED BY <1>1, <1>2, <1>3, <1>4, <1>5, <1>6 DEF Next

(* Every state of the conversion is as ManifestsInv says.                  *)
LEMMA ManifestsInvariant == Spec => []ManifestsInv
  BY InvInit, InvStep, PTL DEF Spec

-----------------------------------------------------------------------------
(* What a configuration is, for every file.                                *)
LEMMA Configured ==
  ASSUME ManifestsInv, stage \in {"configured", "sent"}
  PROVE  /\ config.vmid \in NewIDs /\ config.hostname # "" /\ config.ostemplate # ""
         /\ config.cores = pod.cpu /\ config.memory = pod.memory
         /\ config.options = pod.options \cup {"description"}
         /\ config.nets = Interfaces(pod) /\ Validate(pod) /\ Kept
  <1>1. PICK c : c = podToLXCConfig(pod, config.vmid, config.tags)
    OBVIOUS
  <1>2. config = c /\ Validate(pod) /\ config.vmid \in NewIDs /\ Kept
    BY <1>1 DEF ManifestsInv
  <1>3. /\ c.hostname = Coalesce(pod.hostname, pod.name) /\ c.ostemplate = EffectiveTemplate(pod)
        /\ c.cores = pod.cpu /\ c.memory = pod.memory /\ c.options = pod.options \cup {"description"}
        /\ c.nets = Interfaces(pod)
    BY <1>1 DEF podToLXCConfig
  <1>4. c.hostname # "" /\ c.ostemplate # ""
    BY <1>2, <1>3 DEF Validate, Coalesce
  <1> QED BY <1>2, <1>3, <1>4

(* An interface takes over the pod's and turns the firewall on for a pod   *)
(* that is not exposed, whichever form the pod's networks have.            *)
LEMMA InterfacesOf ==
  ASSUME NEW p
  PROVE  /\ DOMAIN Interfaces(p) = DOMAIN NetsOf(p)
         /\ \A i \in DOMAIN NetsOf(p) :
              Interfaces(p)[i].firewall = (NetsOf(p)[i].firewall \/ ~p.expose)
  <1>1. Interfaces(p) = [i \in DOMAIN NetsOf(p) |-> Interface(p, NetsOf(p)[i], i)]
    BY DEF Interfaces, NetsOf
  <1>2. \A n, i : Interface(p, n, i).firewall = (n.firewall \/ ~p.expose)
    BY DEF Interface
  <1> QED BY <1>1, <1>2

(* A configuration is always complete: it has one of the VMIDs the cluster *)
(* offered, a hostname, a template and sizes that are not zero             *)
(* (podToLXCConfig, after Validate).                                       *)
THEOREM ManifestsTypeCorrect == Spec => []TypeOK
  <1>1. ManifestsInv => TypeOK
    <2> SUFFICES ASSUME ManifestsInv PROVE TypeOK
      OBVIOUS
    <2>1. source \in Sources /\ stage \in {"read", "pod", "refused", "tagging", "configured", "sent"}
      BY DEF ManifestsInv, Stages
    <2>2. ASSUME stage \in {"configured", "sent"}
          PROVE  /\ config.vmid \in NewIDs /\ config.hostname # "" /\ config.ostemplate # ""
                 /\ config.cores \in Nat \ {0} /\ config.memory \in Nat \ {0}
                 /\ \A i \in DOMAIN config.nets : config.nets[i].firewall \in BOOLEAN
                 /\ config.options \subseteq Options
      <3>1. \A n \in Int : n > 0 => n \in Nat \ {0}
        OBVIOUS
      <3>2. config.cores \in Nat \ {0} /\ config.memory \in Nat \ {0}
        BY <2>2, <3>1, Configured DEF Kept, SizesKept, Validate
      <3>3. \A i \in DOMAIN config.nets : config.nets[i].firewall \in BOOLEAN
        BY <2>2, Configured, InterfacesOf
      <3>4. config.options \subseteq Options
        BY <2>2, Configured DEF Kept, SizesKept, Options
      <3> QED BY <2>2, <3>2, <3>3, <3>4, Configured
    <2> QED BY <2>1, <2>2 DEF TypeOK
  <1> QED BY <1>1, ManifestsInvariant, PTL

(* Either backend leaves the interfaces and their firewalls as they are.   *)
LEMMA NetsSent ==
  ASSUME request \in {Rest(config), Pct(config)}
  PROVE  /\ DOMAIN request.nets = DOMAIN config.nets
         /\ \A i \in DOMAIN config.nets : request.nets[i].firewall = config.nets[i].firewall
  <1>1. request.nets = [i \in DOMAIN config.nets |-> Attributes(config.nets[i])]
    BY DEF Rest, Pct
  <1>2. \A n : Attributes(n).firewall = n.firewall
    BY DEF Attributes
  <1> QED BY <1>1, <1>2

(* An interface is behind the firewall exactly when a manifest asks for it *)
(* there or the file publishes nothing, whatever the file and whichever    *)
(* the backend; an internal network of Compose does not turn it on         *)
(* (serviceToPod, podValuesToPod, create_pod, podToLXCConfig, CreateLXC).  *)
THEOREM FirewallIsAsAsked == Spec => []FirewallAsAsked
  <1>1. ManifestsInv => FirewallAsAsked
    <2> SUFFICES ASSUME ManifestsInv, stage = "sent", NEW i \in DOMAIN request.nets
                 PROVE  request.nets[i].firewall <=> (~Exposes \/ AsksFirewall(i))
      BY DEF FirewallAsAsked
    <2>1. request \in {Rest(config), Pct(config)}
      BY DEF ManifestsInv
    <2>2. config.nets = Interfaces(pod) /\ FirewallKept
      BY Configured DEF Kept
    <2>3. i \in DOMAIN NetsOf(pod) /\ request.nets[i].firewall = (NetsOf(pod)[i].firewall \/ ~pod.expose)
      <3>1. i \in DOMAIN Interfaces(pod) /\ request.nets[i].firewall = Interfaces(pod)[i].firewall
        BY <2>1, <2>2, NetsSent
      <3>2. DOMAIN Interfaces(pod) = DOMAIN NetsOf(pod)
        BY InterfacesOf
      <3>3. i \in DOMAIN NetsOf(pod)
        BY <3>1, <3>2
      <3>4. Interfaces(pod)[i].firewall = (NetsOf(pod)[i].firewall \/ ~pod.expose)
        BY <3>3, InterfacesOf
      <3> QED BY <3>1, <3>3, <3>4
    <2>4. NetsOf(pod)[i].firewall = AsksFirewall(i) /\ pod.expose = Exposes
      BY <2>2, <2>3 DEF FirewallKept
    <2> QED BY <2>3, <2>4, Zenon
  <1> QED BY <1>1, ManifestsInvariant, PTL

(* Both backends are asked for the same container, whatever the file: the  *)
(* fields that only the REST client leaves out when they are empty, the    *)
(* VMID and the hostname, never are (client.go 208-308, hypervisor.go      *)
(* 107-181).                                                               *)
THEOREM BackendsAlwaysAgree == Spec => []BackendsAgree
  <1>1. ManifestsInv => BackendsAgree
    <2> SUFFICES ASSUME ManifestsInv, stage \in {"configured", "sent"}
                 PROVE  Rest(config) = Pct(config)
      BY DEF BackendsAgree
    <2>1. config.vmid # 0 /\ config.hostname # ""
      BY Configured, ManifestsAssumption
    <2>2. {config.vmid} \ {0} = {config.vmid} /\ Given({config.hostname}) = {config.hostname}
      BY <2>1 DEF Given
    <2> QED BY <2>2 DEF Rest, Pct
  <1> QED BY <1>1, ManifestsInvariant, PTL

(* A file is refused exactly when no container can be made of it, whatever *)
(* its kind: what a converter makes up for never hides a defect, and no    *)
(* default is one; a form is taken as YAML reads its texts (serviceToPod,  *)
(* podValuesToPod, create_pod, Validate).                                  *)
THEOREM RefusalIsDeserved == Spec => []RefusedOnlyIfUnusable
  <1>1. ManifestsInv => RefusedOnlyIfUnusable
    BY Configured DEF ManifestsInv, RefusedOnlyIfUnusable, Kept, DefectsKept
  <1> QED BY <1>1, ManifestsInvariant, PTL
-----------------------------------------------------------------------------
(* Tags.                                                                   *)

(* A range is what SequencesExt calls the set of a sequence.               *)
LEMMA ToSetIsRange == \A s : ToSet(s) = Range(s)
  BY DEF ToSet, Range

(* Without keeps the elements that are not taken out.                      *)
LEMMA WithoutKeeps ==
  ASSUME NEW S, NEW s \in Seq(S), NEW d
  PROVE  Without(s, d) \in Seq(S) /\ Range(Without(s, d)) = Range(s) \ d
  <1> DEFINE kept == {i \in DOMAIN s : s[i] \notin d}
             Upto(i) == {j \in kept : j <= i}
             n == Cardinality(kept)
             place == [i \in kept |-> Cardinality(Upto(i))]
             at(k) == CHOOSE i \in kept : Cardinality(Upto(i)) = k
  <1>1. Len(s) \in Nat /\ DOMAIN s = 1..Len(s)
    OBVIOUS
  <1>2. kept \subseteq Int
    BY <1>1
  <1>3. IsFiniteSet(kept) /\ n \in Nat
    <2>1. IsFiniteSet(1..Len(s))
      BY <1>1, FS_Interval
    <2>2. kept \in SUBSET (1..Len(s))
      BY <1>1
    <2> QED BY <2>1, <2>2, FS_Subset, FS_CardinalityType
  <1>4. ASSUME NEW i \in kept
        PROVE  IsFiniteSet(Upto(i)) /\ Cardinality(Upto(i)) \in 1..n
    <2>1. Upto(i) \in SUBSET kept
      OBVIOUS
    <2>2. IsFiniteSet(Upto(i)) /\ Cardinality(Upto(i)) <= n
      BY <1>3, <2>1, FS_Subset
    <2>3. Cardinality(Upto(i)) \in Nat
      BY <2>2, FS_CardinalityType
    <2>4. i \in Upto(i)
      BY <1>2
    <2>5. Cardinality(Upto(i)) # 0
      BY <2>2, <2>4, FS_EmptySet
    <2> QED BY <1>3, <2>2, <2>3, <2>5
  <1>5. ASSUME NEW i \in kept, NEW j \in kept, i < j
        PROVE  Cardinality(Upto(i)) # Cardinality(Upto(j))
    <2>1. Upto(i) \in SUBSET Upto(j)
      BY <1>2, <1>5
    <2>2. j \in Upto(j) /\ j \notin Upto(i)
      BY <1>2, <1>5
    <2>3. IsFiniteSet(Upto(j))
      BY <1>4
    <2> QED BY <2>1, <2>2, <2>3, FS_Subset
  <1>6. place \in Injection(kept, 1..n)
    <2>1. place \in [kept -> 1..n]
      BY <1>4
    <2>2. ASSUME NEW i \in kept, NEW j \in kept, place[i] = place[j]
          PROVE  i = j
      <3>1. ~(i < j) /\ ~(j < i)
        BY <1>5, <2>2
      <3> QED BY <1>2, <3>1
    <2> QED BY <2>1, <2>2 DEF Injection, IsInjective
  <1>7. place \in Surjection(kept, 1..n)
    <2>1. Cardinality(1..n) = n /\ IsFiniteSet(1..n)
      BY <1>3, FS_Interval
    <2> QED BY <1>3, <1>6, <2>1, FS_Injection
  <1>8. ASSUME NEW k \in 1..n
        PROVE  at(k) \in kept /\ Cardinality(Upto(at(k))) = k
    <2>1. \E i \in kept : place[i] = k
      BY <1>7 DEF Surjection
    <2>2. \E i \in kept : Cardinality(Upto(i)) = k
      BY <2>1
    <2> QED BY <2>2
  <1>9. Without(s, d) = [k \in 1..n |-> s[at(k)]]
    BY DEF Without
  <1> HIDE DEF at, n, place
  <1>10. \A k \in 1..n : s[at(k)] \in S
    <2>1. \A i \in kept : s[i] \in S
      BY <1>1
    <2> QED BY <1>8, <2>1
  <1>11. Without(s, d) \in Seq(S)
    BY <1>3, <1>9, <1>10
  <1>12. \A k \in 1..n : s[at(k)] \in Range(s) \ d
    BY <1>8 DEF Range
  <1>13. ASSUME NEW x \in Range(s) \ d
         PROVE  \E k \in 1..n : s[at(k)] = x
    <2>1. PICK i \in kept : s[i] = x
      BY DEF Range
    <2>2. Cardinality(Upto(i)) \in 1..n
      BY <1>4
    <2>3. PICK k \in 1..n : k = Cardinality(Upto(i))
      BY <2>2
    <2>4. at(k) \in kept /\ place[at(k)] = place[i]
      BY <1>8, <2>3 DEF place
    <2>5. at(k) = i
      BY <1>6, <2>4 DEF Injection, IsInjective
    <2> QED BY <2>1, <2>5
  <1>14. Range(Without(s, d)) = Range(s) \ d
    BY <1>9, <1>12, <1>13 DEF Range
  <1> QED BY <1>11, <1>14

(* A sequence over a set is one over a larger set.                         *)
LEMMA SeqMonotone ==
  ASSUME NEW S, NEW T, S \subseteq T, NEW s \in Seq(S)
  PROVE  s \in Seq(T)
  <1>1. Len(s) \in Nat /\ DOMAIN s = 1..Len(s) /\ s = [i \in 1..Len(s) |-> s[i]]
    OBVIOUS
  <1>2. \A i \in 1..Len(s) : s[i] \in T
    OBVIOUS
  <1> QED BY <1>1, <1>2

(* A sequence of one element holds it.                                     *)
LEMMA RangeOne ==
  ASSUME NEW S, NEW e \in S
  PROVE  <<e>> \in Seq(S) /\ Range(<<e>>) = {e}
  <1>1. <<e>> \in Seq(S) /\ DOMAIN <<e>> = {1} /\ <<e>>[1] = e
    OBVIOUS
  <1> QED BY <1>1 DEF Range

(* A sequence is one of its own elements.                                  *)
LEMMA OwnElements ==
  ASSUME NEW S, NEW s \in Seq(S)
  PROVE  s \in Elements(s)
  <1>1. \A i \in DOMAIN s : s[i] \in Range(s)
    BY DEF Range
  <1>2. s \in Seq(Range(s))
    BY <1>1
  <1> QED BY <1>2, ToSetIsRange DEF Elements

(* The four converters pass the tags on.                                   *)
LEMMA ServiceTags ==
  ASSUME source \in Sources, source' = source, source.kind = "service",
         NEW networks, pod' = serviceToPod(source, networks, composeOptions(source.env))
  PROVE  TagsKept'
  <1>1. PICK s : s = source
    OBVIOUS
  <1>2. PICK p : p = serviceToPod(s, networks, composeOptions(s.env))
    OBVIOUS
  <1>3. source' = s /\ pod' = p /\ s.kind = "service" /\ IsService(s)
    BY <1>1, <1>2, Kinds
  <1>4. s.env.tags \in Seq(STRING) /\ s.name \in STRING
    BY <1>3 DEF IsService
  <1>5. PICK w : w = Without(s.env.tags, {""})
    OBVIOUS
  <1>6. w \in Seq(STRING) /\ Range(w) = Range(s.env.tags) \ {""}
    BY <1>4, <1>5, WithoutKeeps
  <1>7. p.tags = Append(w, s.name) /\ p.labels = s.labels
    BY <1>2, <1>5 DEF serviceToPod, composeOptions
  <1>8. p.tags \in Seq(STRING) /\ Range(p.tags) = Range(w) \cup {s.name}
    <2>1. PICK S, n, q : S = STRING /\ n = s.name /\ q = Append(w, n)
      OBVIOUS
    <2>2. w \in Seq(S) /\ n \in S /\ p.tags = q
      BY <1>4, <1>6, <1>7, <2>1
    <2>3. q \in Seq(S) /\ Range(q) = Range(w) \cup {n}
      BY <2>1, <2>2, RangeAppend
    <2> QED BY <2>1, <2>2, <2>3
  <1>9. p.tags \in Elements(p.tags)
    BY <1>8, OwnElements
  <1>10. Given(ToSet(p.tags)) = Given({s.name} \cup ToSet(s.env.tags))
    BY <1>6, <1>8, ToSetIsRange DEF Given
  <1>11. TagsAsked' = Given({s.name} \cup ToSet(s.env.tags)) \cup LabelTags(s.labels)
    BY <1>3 DEF TagsAsked
  <1> QED BY <1>3, <1>7, <1>9, <1>10, <1>11 DEF TagsKept

(* A pod of Helm values gets its release's tag.                            *)
LEMMA HelmTagged ==
  ASSUME source \in Sources, source' = source, source.kind = "helm", pod' = podValuesToPod(source)
  PROVE  TagsKept'
  <1>1. PICK h : h = source
    OBVIOUS
  <1>2. PICK p : p = podValuesToPod(h)
    OBVIOUS
  <1>3. source' = h /\ pod' = p /\ h.kind = "helm" /\ h \in HelmPods
    BY <1>1, <1>2, Kinds
  <1>4. PICK r : r = ReleaseTag(h)
    OBVIOUS
  <1>5. r # ""
    BY <1>1, <1>3, <1>4, ManifestsAssumption DEF ReleaseTag
  <1>6. PICK S : S = STRING \cup {r}
    OBVIOUS
  <1>7. PICK g \in Seq(S), t \in Seq(S) : g = h.globalTags /\ t = h.tags
    <2>1. h.globalTags \in Seq(STRING) /\ h.tags \in Seq(STRING) /\ STRING \subseteq S
      BY <1>3, <1>6 DEF HelmPods
    <2>2. h.globalTags \in Seq(S) /\ h.tags \in Seq(S)
      BY <2>1, SeqMonotone, Zenon
    <2> QED BY <2>2
  <1>8. <<r>> \in Seq(S) /\ Range(<<r>>) = {r}
    BY <1>6, RangeOne
  <1>9. g \o t \in Seq(S) /\ Range(g \o t) = Range(g) \cup Range(t)
    BY RangeConcat
  <1>10. (g \o t) \o <<r>> \in Seq(S) /\ Range((g \o t) \o <<r>>) = Range(g \o t) \cup {r}
    <2>1. PICK a, b : a = g \o t /\ b = <<r>>
      OBVIOUS
    <2>2. a \in Seq(S) /\ b \in Seq(S) /\ Range(b) = {r}
      BY <1>8, <1>9, <2>1
    <2>3. a \o b \in Seq(S) /\ Range(a \o b) = Range(a) \cup Range(b)
      BY <2>2, RangeConcat
    <2> QED BY <2>1, <2>2, <2>3
  <1>11. p.tags = (g \o t) \o <<r>> /\ p.labels = h.labels
    BY <1>2, <1>4, <1>7 DEF podValuesToPod, HelmTags
  <1>12. p.tags \in Elements(p.tags)
    BY <1>10, <1>11, OwnElements
  <1>13. Given(ToSet(p.tags)) = {r} \cup Given(ToSet(h.globalTags) \cup ToSet(h.tags))
    BY <1>5, <1>7, <1>9, <1>10, <1>11, ToSetIsRange DEF Given
  <1>14. TagsAsked' = {r} \cup Given(ToSet(h.globalTags) \cup ToSet(h.tags)) \cup LabelTags(h.labels)
    BY <1>3, <1>4 DEF TagsAsked
  <1> QED BY <1>3, <1>11, <1>12, <1>13, <1>14 DEF TagsKept

(* create_pod takes out the tags that Perl takes for false and adds        *)
(* "proxkube"; YAML reads the others.                                      *)
LEMMA FormTagged ==
  ASSUME source \in Sources, source' = source, source.kind = "form", pod' = create_pod(source)
  PROVE  TagsKept'
  <1>1. PICK f : f = source
    OBVIOUS
  <1>2. PICK p : p = create_pod(f)
    OBVIOUS
  <1>3. source' = f /\ pod' = p /\ f.kind = "form" /\ f \in Forms
    BY <1>1, <1>2, Kinds
  <1>4. PICK k : k = Without(f.tags, Falsehoods)
    OBVIOUS
  <1>5. k \in Seq(STRING) /\ Range(k) = Range(f.tags) \ Falsehoods
    <2>1. f.tags \in Seq(STRING)
      BY <1>3 DEF Forms
    <2> QED BY <1>4, <2>1, WithoutKeeps
  <1>6. PICK w : w = [i \in DOMAIN k |-> Read(k[i])]
    OBVIOUS
  <1>7. PICK S, e : S = {e} \cup {Read(t) : t \in Range(k)} /\ e = "proxkube"
    OBVIOUS
  <1>8. w \in Seq(S) /\ Range(w) = {Read(t) : t \in Range(k)}
    <2>1. Len(k) \in Nat /\ DOMAIN k = 1..Len(k)
      BY <1>5
    <2>2. \A i \in 1..Len(k) : Read(k[i]) \in S
      BY <1>7, <2>1 DEF Range
    <2>3. w \in Seq(S)
      BY <1>6, <2>1, <2>2
    <2>4. Range(w) = {Read(t) : t \in Range(k)}
      BY <1>6 DEF Range
    <2> QED BY <2>3, <2>4
  <1>9. p.tags = <<e>> \o w /\ p.labels = {}
    BY <1>2, <1>4, <1>6, <1>7 DEF create_pod, FormTags
  <1>10. p.tags \in Seq(S) /\ Range(p.tags) = {e} \cup Range(w)
    <2>1. PICK o : o = <<e>>
      OBVIOUS
    <2>2. o \in Seq(S) /\ Range(o) = {e}
      BY <1>7, <2>1, RangeOne
    <2>3. o \o w \in Seq(S) /\ Range(o \o w) = Range(o) \cup Range(w)
      BY <1>8, <2>2, RangeConcat
    <2> QED BY <1>9, <2>1, <2>2, <2>3
  <1>11. p.tags \in Elements(p.tags)
    BY <1>10, OwnElements
  <1>12. Given(ToSet(p.tags)) = {"proxkube"} \cup Given({Read(t) : t \in Range(k)})
    BY <1>7, <1>8, <1>10, ToSetIsRange DEF Given
  <1>13. TagsAsked' = Given({Read(t) : t \in ToSet(f.tags) \ Falsehoods})
    BY <1>3 DEF TagsAsked
  <1>14. ToSet(f.tags) \ Falsehoods = Range(k)
    BY <1>5, ToSetIsRange
  <1>15. TagsAsked' = Given({Read(t) : t \in Range(k)})
    BY <1>13, <1>14
  <1>16. LabelTags({}) = {}
    BY DEF LabelTags
  <1> QED BY <1>3, <1>9, <1>11, <1>12, <1>15, <1>16 DEF TagsKept

(* A manifest is the Pod.                                                  *)
LEMMA ManifestTags ==
  ASSUME source \in Sources, source' = source, source.kind = "pod", pod' = source.manifest
  PROVE  TagsKept'
  <1>1. PICK s : s = source
    OBVIOUS
  <1>2. PICK p \in Pods : p = s.manifest
    BY <1>1, Kinds
  <1>3. source' = s /\ pod' = p /\ s.kind = "pod"
    BY <1>1, <1>2
  <1>4. p.tags \in Elements(p.tags)
    BY OwnElements DEF Pods
  <1>5. TagsAsked' = Given(ToSet(p.tags)) \cup LabelTags(p.labels)
    BY <1>2, <1>3 DEF TagsAsked
  <1> QED BY <1>3, <1>4, <1>5 DEF TagsKept

(* A tag is read as something.                                             *)
LEMMA PartsAreTexts ==
  ASSUME NEW t
  PROVE  /\ Parts(t) \in Elements(Parts(t))
         /\ t \notin DOMAIN Pieces => Parts(t) = <<t>>
  <1>1. CASE t \in DOMAIN Pieces
    <2>1. Parts(t) \in Seq(STRING)
      BY <1>1, ManifestsAssumption DEF Parts
    <2> QED BY <1>1, <2>1, OwnElements
  <1>2. CASE t \notin DOMAIN Pieces
    <2>1. PICK o : o = <<t>>
      OBVIOUS
    <2>2. Parts(t) = o
      BY <1>2, <2>1 DEF Parts
    <2>3. o \in Seq({t})
      BY <2>1
    <2>4. o \in Elements(o)
      BY <2>3, OwnElements
    <2> QED BY <2>1, <2>2, <2>4
  <1> QED BY <1>1, <1>2

(* AddTag adds one tag, once, behind the others.                           *)
LEMMA AddTagOnce ==
  ASSUME NEW t, AddTag(t), tags \in Elements(tags), tags # <<>>, IsInjective(tags)
  PROVE  /\ tags' \in Elements(tags') /\ tags' # <<>>
         /\ Head(tags') = Head(tags) /\ IsInjective(tags')
         /\ ToSet(tags') = ToSet(tags) \cup {t}
  <1>1. PICK old, new : old = tags /\ new = tags'
    OBVIOUS
  <1>2. PICK S : S = Range(old) \cup {t}
    OBVIOUS
  <1>3. old \in Seq(S) /\ t \in S /\ old # <<>> /\ IsInjective(old)
    <2>1. old \in Seq(Range(old))
      BY <1>1, ToSetIsRange DEF Elements
    <2>2. Seq(Range(old)) \subseteq Seq(S)
      BY <1>2
    <2> QED BY <1>1, <1>2, <2>1, <2>2
  <1>4. CASE t \in Range(old)
    <2>1. new = old /\ ToSet(old) = ToSet(old) \cup {t}
      BY <1>1, <1>4, ToSetIsRange DEF AddTag
    <2> QED BY <1>1, <2>1
  <1>5. CASE t \notin Range(old)
    <2>1. new = Append(old, t)
      BY <1>1, <1>5, ToSetIsRange DEF AddTag
    <2>2. new \in Seq(S) /\ Range(new) = Range(old) \cup {t}
      BY <1>3, <2>1, RangeAppend
    <2>3. IsInjective(new)
      BY <1>3, <1>5, <2>1, InjectiveAppend
    <2>4. new # <<>> /\ Head(new) = Head(old)
      BY <1>3, <2>1
    <2>5. new \in Elements(new)
      BY <2>2, OwnElements
    <2> QED BY <1>1, <2>2, <2>3, <2>4, <2>5, ToSetIsRange
  <1> QED BY <1>4, <1>5

(* The tags are read as they are, one behind the other.                    *)
LEMMA AddTagJoins ==
  ASSUME NEW t, AddTag(t), tags \in Elements(tags), TagsJoined
  PROVE  TagsJoined'
  <1>1. PICK old, new, was, is, part :
          old = tags /\ new = tags' /\ was = joined /\ is = joined' /\ part = Parts(t)
    OBVIOUS
  <1>2. CASE t \in ToSet(old)
    <2>1. new = old /\ is = was
      BY <1>1, <1>2 DEF AddTag
    <2> QED BY <1>1, <2>1 DEF TagsJoined
  <1>3. CASE t \notin ToSet(old)
    <2>1. new = Append(old, t) /\ is = was \o part
      BY <1>1, <1>3 DEF AddTag
    <2>2. PICK S : S = Range(was) \cup Range(part) \cup Range(old) \cup {t}
      OBVIOUS
    <2>3. was \in Seq(S) /\ part \in Seq(S) /\ old \in Seq(S) /\ t \in S
      <3>1. was \in Seq(Range(was)) /\ part \in Seq(Range(part)) /\ old \in Seq(Range(old))
        BY <1>1, PartsAreTexts, ToSetIsRange DEF Elements, TagsJoined
      <3>2. Range(was) \subseteq S /\ Range(part) \subseteq S /\ Range(old) \subseteq S /\ t \in S
        BY <2>2
      <3> QED BY <3>1, <3>2, SeqMonotone, Zenon
    <2>4. is \in Seq(S) /\ Range(is) = Range(was) \cup Range(part)
      BY <2>1, <2>3, RangeConcat
    <2>5. is \in Elements(is)
      BY <2>4, OwnElements
    <2>6. is # <<>> /\ Head(is) = "proxkube"
      <3>1. was # <<>> /\ Head(was) = "proxkube"
        BY <1>1 DEF TagsJoined
      <3> QED BY <2>1, <2>3, <3>1
    <2>7. Range(new) = Range(old) \cup {t}
      BY <2>1, <2>3, RangeAppend
    <2>8. ToSet(is) = TagsRead(ToSet(new))
      <3>1. ToSet(was) = TagsRead(ToSet(old))
        BY <1>1 DEF TagsJoined
      <3>2. TagsRead(ToSet(new)) = TagsRead(ToSet(old)) \cup ToSet(part)
        BY <1>1, <2>7, ToSetIsRange DEF TagsRead
      <3> QED BY <2>4, <3>1, <3>2, ToSetIsRange
    <2>9. ASSUME ToSet(new) \cap DOMAIN Pieces = {}
          PROVE  is = new
      <3>1. t \notin DOMAIN Pieces /\ ToSet(old) \cap DOMAIN Pieces = {}
        BY <2>7, <2>9, ToSetIsRange
      <3>2. was = old /\ part = <<t>>
        BY <1>1, <3>1, PartsAreTexts DEF TagsJoined
      <3> QED BY <2>1, <2>3, <3>2
    <2> QED BY <1>1, <2>5, <2>6, <2>8, <2>9 DEF TagsJoined
  <1> QED BY <1>2, <1>3

(* What the file asks for depends on the source alone.                     *)
LEMMA TagsAskedUnchanged ==
  ASSUME UNCHANGED source
  PROVE  TagsAsked' = TagsAsked
  BY DEF TagsAsked

(* A step of buildTags takes one tag or label and adds it.                 *)
LEMMA TagStep ==
  ASSUME TagsBuilt, TagsJoined, TagFromSpec \/ TagFromLabel
  PROVE  TagsBuilt' /\ TagsJoined'
  <1>1. PICK old, new, todo, labels : old \in Elements(old) /\ todo \in Elements(todo)
          /\ old = tags /\ new = tags' /\ todo = toTag /\ labels = toLabel
    BY DEF TagsBuilt
  <1>2. old # <<>> /\ IsInjective(old) /\ Head(old) = "proxkube" /\ tags \in Elements(tags)
    BY <1>1 DEF TagsBuilt
  <1>3. PICK asked : asked = {"proxkube"} \cup TagsAsked
    OBVIOUS
  <1>4. asked = ToSet(old) \cup Given(ToSet(todo)) \cup LabelTags(labels)
    BY <1>1, <1>3 DEF TagsBuilt
  <1>5. asked = {"proxkube"} \cup TagsAsked'
    <2>1. UNCHANGED source
      BY DEF TagFromSpec, TagFromLabel
    <2> QED BY <1>3, <2>1, TagsAskedUnchanged
  <1>6. ASSUME NEW t, AddTag(t)
        PROVE  /\ new \in Elements(new) /\ new # <<>> /\ Head(new) = "proxkube" /\ IsInjective(new)
               /\ ToSet(new) = ToSet(old) \cup {t}
               /\ TagsJoined'
    <2>1. /\ tags' \in Elements(tags') /\ tags' # <<>>
          /\ Head(tags') = Head(tags) /\ IsInjective(tags')
          /\ ToSet(tags') = ToSet(tags) \cup {t}
      BY <1>1, <1>2, <1>6, AddTagOnce
    <2>2. TagsJoined'
      BY <1>2, <1>6, AddTagJoins
    <2> QED BY <1>1, <1>2, <2>1, <2>2
  <1>7. CASE TagFromSpec
    <2>1. PICK t, rest : t = Head(todo) /\ rest = Tail(todo)
      OBVIOUS
    <2>2. /\ todo # <<>> /\ toTag' = rest /\ toLabel' = labels
          /\ (t = "" /\ UNCHANGED <<tags, joined>>) \/ (t # "" /\ AddTag(t))
      BY <1>1, <1>7, <2>1 DEF TagFromSpec
    <2>3. rest \in Seq(Range(todo)) /\ Range(todo) = {t} \cup Range(rest)
      <3>1. todo \in Seq(Range(todo))
        BY <1>1, ToSetIsRange DEF Elements
      <3>2. PICK S : S = Range(todo)
        OBVIOUS
      <3>3. todo \in Seq(S) /\ todo # <<>>
        BY <2>2, <3>1, <3>2
      <3>4. Tail(todo) \in Seq(S) /\ Range(todo) = {Head(todo)} \cup Range(Tail(todo))
        BY <3>3, RangeHeadTail
      <3>5. rest \in Seq(S) /\ Range(todo) = {t} \cup Range(rest)
        BY <2>1, <3>4
      <3> QED BY <3>2, <3>5
    <2>4. rest \in Elements(rest)
      BY <2>3, OwnElements
    <2>5. /\ new \in Elements(new) /\ new # <<>> /\ Head(new) = "proxkube" /\ IsInjective(new)
          /\ ToSet(new) = ToSet(old) \cup Given({t})
          /\ TagsJoined'
      <3>1. CASE t = "" /\ UNCHANGED <<tags, joined>>
        <4>1. new = old /\ Given({t}) = {}
          BY <1>1, <3>1 DEF Given
        <4>2. TagsJoined'
          BY <3>1 DEF TagsJoined
        <4> QED BY <1>1, <1>2, <4>1, <4>2
      <3>2. CASE t # "" /\ AddTag(t)
        <4>1. Given({t}) = {t}
          BY <3>2 DEF Given
        <4> QED BY <1>6, <3>2, <4>1
      <3> QED BY <2>2, <3>1, <3>2
    <2>6. asked = ToSet(new) \cup Given(ToSet(rest)) \cup LabelTags(labels)
      BY <1>4, <2>3, <2>5, ToSetIsRange DEF Given
    <2> QED BY <1>1, <1>5, <2>2, <2>4, <2>5, <2>6 DEF TagsBuilt
  <1>8. CASE TagFromLabel
    <2>1. PICK l \in labels : AddTag(KeyValue(l[1], l[2])) /\ toLabel' = labels \ {l}
      BY <1>1, <1>8 DEF TagFromLabel
    <2>2. PICK t : t = KeyValue(l[1], l[2])
      OBVIOUS
    <2>3. /\ new \in Elements(new) /\ new # <<>> /\ Head(new) = "proxkube" /\ IsInjective(new)
          /\ ToSet(new) = ToSet(old) \cup {t}
          /\ TagsJoined'
      BY <1>6, <2>1, <2>2
    <2>4. LabelTags(labels) = {t} \cup LabelTags(labels \ {l})
      BY <2>2 DEF LabelTags
    <2>5. asked = ToSet(new) \cup Given(ToSet(todo)) \cup LabelTags(labels \ {l})
      BY <1>4, <2>3, <2>4
    <2>6. toTag' = todo
      BY <1>1, <1>8 DEF TagFromLabel
    <2> QED BY <1>1, <1>5, <2>1, <2>3, <2>5, <2>6 DEF TagsBuilt
  <1> QED BY <1>7, <1>8

(* Nothing is tagged at first.                                             *)
LEMMA TagsInit == Init => TagsInv
  BY DEF Init, TagsInv

(* Every tag is in exactly one place until it is built, and stays.         *)
LEMMA TagsStep == ManifestsInv /\ TagsInv /\ [Next]_vars => TagsInv'
  <1> SUFFICES ASSUME ManifestsInv, TagsInv, [Next]_vars PROVE TagsInv'
    OBVIOUS
  <1>1. CASE Convert
    <2>1. source' = source /\ source \in Sources
      BY <1>1 DEF Convert, ManifestsInv
    <2>2. stage' = "refused" \/ (TagsKept' /\ stage' = "pod")
      <3>1. CASE /\ source.kind = "service" /\ Parses(source) /\ stage' = "pod"
                 /\ \E networks \in parseServiceNetworks(source) :
                      pod' = serviceToPod(source, networks, composeOptions(source.env))
        BY <2>1, <3>1, ServiceTags
      <3>2. CASE source.kind = "helm" /\ pod' = podValuesToPod(source) /\ stage' = "pod"
        BY <2>1, <3>2, HelmTagged
      <3>3. CASE source.kind = "form" /\ FormParses(source) /\ pod' = create_pod(source) /\ stage' = "pod"
        BY <2>1, <3>3, FormTagged
      <3>4. CASE source.kind = "pod" /\ pod' = source.manifest /\ stage' = "pod"
        BY <2>1, <3>4, ManifestTags
      <3> QED BY <1>1, <3>1, <3>2, <3>3, <3>4, Zenon DEF Convert
    <2> QED BY <2>2 DEF TagsInv
  <1>2. CASE Refuse
    BY <1>2 DEF Refuse, TagsInv
  <1>3. CASE StartTags
    <2>1. /\ TagsKept /\ UNCHANGED <<source, pod>> /\ stage' = "tagging"
          /\ tags' = <<"proxkube">> /\ joined' = <<"proxkube">> /\ toTag' = pod.tags /\ toLabel' = pod.labels
      BY <1>3 DEF StartTags, TagsInv
    <2>2. PICK p : p = pod
      OBVIOUS
    <2>3. /\ p.tags \in Elements(p.tags)
          /\ {"proxkube"} \cup TagsAsked' = {"proxkube"} \cup Given(ToSet(p.tags)) \cup LabelTags(p.labels)
      BY <2>1, <2>2, TagsAskedUnchanged DEF TagsKept
    <2>4. ToSet(<<"proxkube">>) = {"proxkube"}
      BY DEF ToSet
    <2>5. /\ <<"proxkube">> \in Elements(<<"proxkube">>) /\ <<"proxkube">> # <<>>
          /\ Head(<<"proxkube">>) = "proxkube" /\ IsInjective(<<"proxkube">>)
      BY <2>4 DEF Elements, IsInjective
    <2>6. TagsBuilt'
      BY <2>1, <2>2, <2>3, <2>4, <2>5 DEF TagsBuilt
    <2>7. TagsJoined'
      <3>1. ToSet(Parts("proxkube")) = {"proxkube"}
        BY <2>4, ManifestsAssumption DEF Parts
      <3>2. TagsRead({"proxkube"}) = {"proxkube"}
        BY <3>1 DEF TagsRead
      <3> QED BY <2>1, <2>4, <2>5, <3>2 DEF TagsJoined
    <2> QED BY <2>1, <2>6, <2>7 DEF TagsInv
  <1>4. CASE TagFromSpec \/ TagFromLabel
    <2>1. TagsBuilt /\ TagsJoined /\ stage' = "tagging"
      BY <1>4 DEF TagFromSpec, TagFromLabel, TagsInv
    <2> QED BY <1>4, <2>1, TagStep DEF TagsInv
  <1>5. CASE Configure
    <2>1. /\ TagsBuilt /\ TagsJoined /\ UNCHANGED <<source, tags, joined, toTag, toLabel>> /\ toTag = <<>> /\ toLabel = {}
          /\ stage' = "configured"
      BY <1>5 DEF Configure, TagsInv
    <2>2. config'.tags = joined
      BY <1>5 DEF Configure, podToLXCConfig
    <2>3. TagsBuilt' /\ TagsJoined'
      BY <2>1, TagsAskedUnchanged DEF TagsBuilt, TagsJoined
    <2> QED BY <2>1, <2>2, <2>3 DEF TagsInv
  <1>6. CASE Send
    <2>1. /\ TagsBuilt /\ TagsJoined /\ UNCHANGED <<source, tags, joined, toTag, toLabel, config>>
          /\ config.tags = joined
          /\ toTag = <<>> /\ toLabel = {} /\ stage' = "sent" /\ request' \in {Rest(config), Pct(config)}
      BY <1>6 DEF Send, TagsInv
    <2>2. request'.tags = config.tags
      BY <2>1 DEF Rest, Pct
    <2>3. TagsBuilt' /\ TagsJoined'
      BY <2>1, TagsAskedUnchanged DEF TagsBuilt, TagsJoined
    <2> QED BY <2>1, <2>2, <2>3 DEF TagsInv
  <1>7. CASE UNCHANGED vars
    <2>1. TagsAsked' = TagsAsked
      BY <1>7, TagsAskedUnchanged DEF vars
    <2> QED BY <1>7, <2>1 DEF TagsInv, TagsKept, TagsBuilt, TagsJoined, vars
  <1> QED BY <1>1, <1>2, <1>3, <1>4, <1>5, <1>6, <1>7 DEF Next

(* Every container that is created can be told by its tags, whatever the   *)
(* file: on the way through a converter, buildTags and the joined text of  *)
(* the request none is lost and none added, but a tag that YAML reads      *)
(* nothing of is none, and one with a separator in it counts as the tags   *)
(* it is read as.  Without such a tag none is repeated                     *)
(* (composeOptions, podValuesToPod, create_pod, buildTags, CreateLXC).     *)
THEOREM ContainersAreRecognised == Spec => []Recognised
  <1>1. TagsInv => Recognised
    <2> SUFFICES ASSUME TagsInv, stage = "sent"
                 PROVE  /\ Head(request.tags) = "proxkube"
                        /\ ToSet(request.tags) = {"proxkube"} \cup TagsRead(TagsAsked)
                        /\ TagsAsked \cap DOMAIN Pieces = {} => IsInjective(request.tags)
      BY DEF Recognised
    <2>1. request.tags = joined /\ TagsBuilt /\ TagsJoined /\ toTag = <<>> /\ toLabel = {}
      BY DEF TagsInv
    <2>2. Given(ToSet(<<>>)) = {} /\ LabelTags({}) = {}
      BY DEF Given, ToSet, LabelTags
    <2>3. ToSet(tags) = {"proxkube"} \cup TagsAsked
      BY <2>1, <2>2 DEF TagsBuilt
    <2>4. ToSet(Parts("proxkube")) = {"proxkube"}
      <3>1. ToSet(<<"proxkube">>) = {"proxkube"}
        BY DEF ToSet
      <3> QED BY <3>1, ManifestsAssumption DEF Parts
    <2>5. TagsRead(ToSet(tags)) = {"proxkube"} \cup TagsRead(TagsAsked)
      BY <2>3, <2>4 DEF TagsRead
    <2>6. TagsAsked \cap DOMAIN Pieces = {} => joined = tags
      BY <2>1, <2>3, ManifestsAssumption DEF TagsJoined
    <2> QED BY <2>1, <2>5, <2>6 DEF TagsBuilt, TagsJoined
  <1>2. Spec => []TagsInv
    BY ManifestsInvariant, TagsInit, TagsStep, PTL DEF Spec
  <1> QED BY <1>1, <1>2, PTL
=============================================================================
