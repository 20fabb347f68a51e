------------------------------ MODULE KubeNames ------------------------------
(***************************************************************************)
(* How the collector names Kubernetes objects: the resolver that knows     *)
(* which resource a kind is, the logical path by which an edge names its   *)
(* target, and the reading of that path back into an object by the SQLite  *)
(* store, which consults another table than the resolver.                  *)
(*                                                                         *)
(* A path is the sequence of its segments, and the name of a row one of    *)
(* the segments that were left for it.  The resolver and the api_resources *)
(* table are sequences of resource infos, in the order of registration.    *)
(* All versions of a kind agree on everything else.                        *)
(***************************************************************************)
EXTENDS Integers, Sequences, FiniteSets, SequencesExt

CONSTANTS
  Standard,           \* standardResources, in order
  Dotted,             \* the API groups with a dot in their name
  ClusterScopedKinds, \* clusterScopedKind
  PluralOf,           \* fallbackResource: the guess of a resource from a kind
  KindFrom            \* fallbackKind: the guess of a kind from a resource

NoPath == <<>>

\* What is guessed where the constants tell nothing: a name that no object has.
Other == "other"

--------------------------------------------------------------------------------
\* The resolver.

\* What is known last of the group's kind and resource, which to register again
\* would change nothing; an info that another one replaced is put back.
IsCurrent(known, info) ==
  \E i \in DOMAIN known :
    known[i] = info /\ \A j \in i + 1 .. Len(known) :
      known[j].group = info.group => known[j].kind # info.kind /\ known[j].resource # info.resource

\* Register, for each of some infos.
Register(known, infos) ==
  LET f[n \in 0 .. Len(infos)] ==
        IF n = 0 THEN known
        ELSE LET before == f[n - 1]
             IN  IF IsCurrent(before, infos[n]) THEN before ELSE Append(before, infos[n])
  IN  f[Len(infos)]

\* Which of some infos a group means: the last that was registered in it, and
\* without a group, for which any will do, the core one or else the first.
InGroup(known, group, some) ==
  LET exact == {i \in some : known[i].group = group}
  IN  IF exact # {} THEN Max(exact)
      ELSE IF group = "" /\ some # {} THEN Min(some) ELSE 0

FallbackResource(kind) == IF kind \in DOMAIN PluralOf THEN PluralOf[kind] ELSE Other
FallbackKind(resource) == IF resource \in DOMAIN KindFrom THEN KindFrom[resource] ELSE Other

FallbackInfo(group, version, resource, kind) ==
  [group |-> group, version |-> version, resource |-> resource, kind |-> kind,
   namespaced |-> group # "" \/ kind \notin ClusterScopedKinds]

ResolveGVK(known, group, kind) ==
  LET i == InGroup(known, group, {j \in DOMAIN known : known[j].kind = kind})
  IN  IF i # 0 THEN known[i] ELSE FallbackInfo(group, "v1", FallbackResource(kind), kind)

ResolveGVR(known, group, version, resource) ==
  LET i == InGroup(known, group, {j \in DOMAIN known : known[j].resource = resource})
  IN  IF i # 0 THEN [known[i] EXCEPT !.version = version]
               ELSE FallbackInfo(group, version, resource, FallbackKind(resource))

\* The group of the reference is not asked for.
IsNamespacedKind(known, kind) == ResolveGVK(known, "", kind).namespaced

--------------------------------------------------------------------------------
\* References and paths.

Segment(s) == IF s = "" THEN <<>> ELSE <<s>>

LogicalPath(group, resource, ns, name) ==
  Segment(group) \o <<resource>> \o Segment(ns) \o <<name>>

\* targetObjectRef.Target
PathTo(known, group, kind, ns, name) ==
  LET info == ResolveGVK(known, group, kind)
  IN  IF name = "" THEN NoPath ELSE LogicalPath(info.group, info.resource, ns, name)

\* Mutant: a reference without a namespace is always in that of its object.
AlwaysOwnNamespace(known, kind, given, own) == IF given = "" THEN own ELSE given

GivenOrOwn(known, kind, given, own) ==
  IF given = "" /\ IsNamespacedKind(known, kind) THEN own ELSE given

OrDefault(given, default) == IF given = "" THEN default ELSE given

\* The fields whose edges have one kind of target, by edge type: those of pod
\* specs, for a pod and for a workload's template, and the other fields that
\* name an object in the namespace of the one that states them.
PodFields ==
  [uses_serviceaccount |-> "ServiceAccount", uses_secret |-> "Secret",
   uses_configmap |-> "ConfigMap", uses_pvc |-> "PersistentVolumeClaim"]

LocalFields ==
  [serviceaccount_uses_secret |-> "Secret", serviceaccount_uses_imagepullsecret |-> "Secret",
   ingress_routes_to_service |-> "Service",
   certmanager_writes_secret |-> "Secret", certmanager_uses_private_key_secret |-> "Secret"]

LocalIn ==
  [certmanager_references_certificate |-> <<"cert-manager.io", "Certificate">>,
   certmanager_references_certificaterequest |-> <<"cert-manager.io", "CertificateRequest">>,
   certmanager_references_order |-> <<"acme.cert-manager.io", "Order">>]

\* Those that name an object without a namespace.
ClusterFields ==
  [pvc_bound_to_pv |-> <<"", "PersistentVolume">>,
   pvc_uses_storageclass |-> <<"storage.k8s.io", "StorageClass">>,
   pv_uses_storageclass |-> <<"storage.k8s.io", "StorageClass">>,
   gateway_uses_gatewayclass |-> <<"gateway.networking.k8s.io", "GatewayClass">>]

\* Those that name a service by namespace and name.
ServiceFields == {"crd_conversion_webhook_uses_service", "apiservice_uses_service", "webhook_uses_service"}

\* A reference with kind, group, namespace and name as they are written, "" for
\* what is not, in an object of a namespace.
ObjectRefPath(known, own, ref) ==
  IF ref.kind = "" THEN NoPath
  ELSE PathTo(known, ref.group, ref.kind, GivenOrOwn(known, ref.kind, ref.ns, own), ref.name)

ClaimPath(known, ref) == ObjectRefPath(known, "", [ref EXCEPT !.kind = OrDefault(@, "PersistentVolumeClaim")])

GatewayPath(known, own, ref, defaultKind, defaultGroup) ==
  LET kind == OrDefault(ref.kind, defaultKind)
  IN  PathTo(known, OrDefault(ref.group, defaultGroup), kind, GivenOrOwn(known, kind, ref.ns, own), ref.name)

RolePath(known, own, ref) ==
  LET kind == OrDefault(ref.kind, "Role")
  IN  PathTo(known, OrDefault(ref.group, "rbac.authorization.k8s.io"), kind,
             IF kind = "ClusterRole" THEN "" ELSE own, ref.name)

SubjectPath(known, own, ref) ==
  IF ref.kind = "" THEN NoPath
  ELSE IF ref.kind \in {"User", "Group"}
       THEN PathTo(known, "rbac.authorization.k8s.io", ref.kind, "", ref.name)
       ELSE PathTo(known, "", ref.kind,
                   IF ref.kind = "ServiceAccount" THEN OrDefault(ref.ns, own) ELSE ref.ns, ref.name)

IssuerPath(known, own, ref) ==
  LET kind == OrDefault(ref.kind, "Issuer")
  IN  PathTo(known, OrDefault(ref.group, "cert-manager.io"), kind,
             IF kind = "ClusterIssuer" THEN "" ELSE own, ref.name)

\* The path that an edge has for its target; three sites write it themselves.
Path(known, own, ref) ==
  CASE ref.site \in {"owned_by", "hpa_scales_target", "event_regarding_object"} ->
         ObjectRefPath(known, own, ref)
    [] ref.site = "pv_bound_to_pvc" -> ClaimPath(known, ref)
    [] ref.site = "gateway_route_attaches_to_parent" ->
         GatewayPath(known, own, ref, "Gateway", "gateway.networking.k8s.io")
    [] ref.site = "gateway_route_uses_backend" -> GatewayPath(known, own, ref, "Service", "")
    [] ref.site = "rbac_binding_grants_role"   -> RolePath(known, own, ref)
    [] ref.site = "rbac_binding_binds_subject" -> SubjectPath(known, own, ref)
    [] ref.site = "certmanager_uses_issuer"    -> IssuerPath(known, own, ref)
    [] ref.site \in DOMAIN PodFields     -> PathTo(known, "", PodFields[ref.site], own, ref.name)
    [] ref.site \in DOMAIN LocalFields   -> PathTo(known, "", LocalFields[ref.site], own, ref.name)
    [] ref.site \in DOMAIN LocalIn       -> PathTo(known, LocalIn[ref.site][1], LocalIn[ref.site][2], own, ref.name)
    [] ref.site \in DOMAIN ClusterFields ->
         PathTo(known, ClusterFields[ref.site][1], ClusterFields[ref.site][2], "", ref.name)
    [] ref.site \in ServiceFields -> PathTo(known, "", "Service", ref.ns, ref.name)
    [] ref.site = "pod_on_node"   -> <<"nodes", ref.name>>
    [] ref.site = "endpointslice_for_service" -> <<"services", own, ref.name>>
    [] ref.site = "endpointslice_targets_pod" -> <<"pods", OrDefault(ref.ns, own), ref.name>>

--------------------------------------------------------------------------------
\* The store.

\* lookupAPIResource: a discovered version first, then the latest row.
LookupAPIResource(table, group, resource) ==
  LET rows      == {i \in DOMAIN table : table[i].info.group = group /\ table[i].info.resource = resource}
      preferred == {i \in rows : table[i].preferred}
  IN  IF preferred # {} THEN Max(preferred) ELSE IF rows # {} THEN Max(rows) ELSE 0

TargetInfo(table, group, version, resource) ==
  LET i == LookupAPIResource(table, group, resource)
  IN  IF i # 0 THEN table[i].info ELSE ResolveGVR(Standard, group, version, resource)

\* The row that a resource, a namespace and a name stand for.
Key(info, ns, name) ==
  [group |-> info.group, version |-> info.version, kind |-> info.kind, ns |-> ns, name |-> name]

\* targetRef: the target of a path stated by an object of this version and
\* namespace.  A first segment is taken for a group when it has a dot.
Target(table, version, own, path) ==
  LET grouped  == path[1] \in Dotted /\ Len(path) >= 3
      group    == IF grouped THEN path[1] ELSE ""
      resource == IF grouped THEN path[2] ELSE path[1]
      rest     == SubSeq(path, IF grouped THEN 3 ELSE 2, Len(path))
      info     == TargetInfo(table, group, version, resource)
      placed   == info.namespaced /\ Len(rest) >= 2
      ns       == IF placed THEN rest[1]
                  ELSE IF info.namespaced /\ ~grouped THEN own ELSE ""
  IN  [info |-> info, key |-> Key(info, ns, IF placed THEN Tail(rest) ELSE rest)]

\* ensureKind: what is known of a resource is what the last reference to it had.
EnsureKind(table, info, ns) ==
  LET same  == {i \in DOMAIN table : /\ table[i].info.group = info.group
                                     /\ table[i].info.version = info.version
                                     /\ table[i].info.resource = info.resource}
      known == [info EXCEPT !.namespaced = (ns # "")]
  IN  IF same = {} THEN Append(table, [info |-> known, preferred |-> FALSE])
                   ELSE [table EXCEPT ![Min(same)].info = known]
================================================================================
