-------------------------------- MODULE MCIngest --------------------------------
(***************************************************************************)
(* A cluster with one object of each sort that the pipeline treats in its  *)
(* own way, and the default profiles and chains as far as they concern it. *)
(***************************************************************************)
EXTENDS Ingest

T(group, version, resource, kind, namespaced) ==
  [group |-> group, version |-> version, resource |-> resource, kind |-> kind, namespaced |-> namespaced]

GW == "gateway.networking.k8s.io"
CM == "cert-manager.io"

PodT    == T("", "v1", "pods", "Pod", TRUE)
NodeT   == T("", "v1", "nodes", "Node", FALSE)
SecretT == T("", "v1", "secrets", "Secret", TRUE)
MapT    == T("", "v1", "configmaps", "ConfigMap", TRUE)
SvcT    == T("", "v1", "services", "Service", TRUE)
SetT    == T("apps", "v1", "replicasets", "ReplicaSet", TRUE)
EventT  == T("events.k8s.io", "v1", "events", "Event", TRUE)
LeaseT  == T("coordination.k8s.io", "v1", "leases", "Lease", TRUE)
CertT   == T(CM, "v1", "certificates", "Certificate", TRUE)
IssuerT == T(CM, "v1", "clusterissuers", "ClusterIssuer", FALSE)
RouteT  == T(GW, "v1alpha2", "tcproutes", "TCPRoute", TRUE)
FleetT  == T("example.io", "v1", "fleets", "Fleet", FALSE)
RoleT   == T("rbac.authorization.k8s.io", "v1", "clusterroles", "ClusterRole", FALSE)
BindT   == T("rbac.authorization.k8s.io", "v1", "rolebindings", "RoleBinding", TRUE)
UserT   == T("rbac.authorization.k8s.io", "v1", "users", "User", FALSE)
AccT    == T("", "v1", "serviceaccounts", "ServiceAccount", TRUE)
VolT    == T("", "v1", "persistentvolumes", "PersistentVolume", FALSE)
ClaimT  == T("", "v1", "persistentvolumeclaims", "PersistentVolumeClaim", TRUE)
ClassT  == T("storage.k8s.io", "v1", "storageclasses", "StorageClass", FALSE)
HookT   == T("admissionregistration.k8s.io", "v1", "validatingwebhookconfigurations",
             "ValidatingWebhookConfiguration", FALSE)
SliceT  == T("discovery.k8s.io", "v1", "endpointslices", "EndpointSlice", TRUE)
WidgetT == T("example.io", "v1", "widgets", "Widget", TRUE)
CrdT    == T("apiextensions.k8s.io", "v1", "customresourcedefinitions", "CustomResourceDefinition", FALSE)

mcTypes == {PodT, NodeT, SecretT, MapT, SvcT, SetT, EventT, LeaseT, CertT, IssuerT, RouteT, FleetT, WidgetT, CrdT,
            RoleT, BindT, UserT, AccT, SliceT, VolT, ClaimT, ClassT, HookT}

mcStandard ==
  <<MapT, NodeT, PodT, SecretT, SvcT, SetT, CertT, IssuerT, EventT, [RouteT EXCEPT !.version = "v1"], CrdT,
    RoleT, BindT, UserT, AccT, SliceT, VolT, ClaimT, ClassT, HookT>>

\* All but the widgets, whose definition came later.
mcDiscovered ==
  <<PodT, NodeT, SecretT, MapT, SvcT, SetT, EventT, LeaseT, CertT, IssuerT, RouteT, FleetT, CrdT,
    RoleT, BindT, AccT, SliceT, VolT, ClaimT, ClassT, HookT>>

mcPluralOf == [Lease |-> "leases", Fleet |-> "fleets", Widget |-> "widgets"]
mcKindFrom == [leases |-> "Lease", fleets |-> "Fleet", widgets |-> "Widget", apps |-> "App"]

Rule(groups, resources, chain, set) ==
  [groups |-> groups, resources |-> resources, kinds |-> {}, chain |-> chain, extractors |-> set]

mcRules ==
  << Rule({""}, {"pods"}, "", "pod"),
     [Rule({}, {"events"}, "event_rollup", "event") EXCEPT !.kinds = {"Event"}],
     Rule({"coordination.k8s.io"}, {"leases"}, "lease_skip", "none"),
     Rule({""}, {"secrets"}, "secret_metadata_only", "secret_metadata"),
     Rule({CM}, {}, "", "certmanager"),
     Rule({"discovery.k8s.io"}, {"endpointslices"}, "", "endpointslice"),
     Rule({GW}, {"tcproutes"}, "", "service_topology") >>

\* The widgets would be left out, were their filter not disabled.
mcCustomRules == << Rule({"example.io"}, {"widgets"}, "widgets", "") >>
mcDefaults    == [chain |-> "", extractors |-> ""]

mcChains ==
  [ default |-> <<"managed_fields", "resource_version", "metadata_generation", "status_condition_set",
                  "leader_election_configmap", "cluster_autoscaler_status", "gke_webhook_heartbeat">>,
    event_rollup |-> <<"managed_fields", "resource_version", "event_series">>,
    secret_metadata_only |-> <<"managed_fields", "resource_version", "secret_metadata_only">>,
    widgets |-> <<"report_skip", "managed_fields", "resource_version">>,
    lease_skip |-> <<"lease_skip">> ]

mcSets ==
  [ generic |-> {"reference"}, pod |-> {"reference", "pod"}, event |-> {"reference", "event"},
    endpointslice |-> {"reference", "endpointslice"},
    secret_metadata |-> {"reference"}, certmanager |-> {"reference"},
    service_topology |-> {"reference", "service"} ]

Ob(type, ns, name, doc, refs) ==
  [type |-> type, ns |-> ns, name |-> name, del |-> FALSE, doc |-> doc, refs |-> refs, defines |-> <<>>]

Gone(ob) == [ob EXCEPT !.del = TRUE]

Ref(site, group, kind, name) == [site |-> site, group |-> group, kind |-> kind, ns |-> "", name |-> name]

Web(v) == Ob(PodT, "default", "web", [spec |-> "a", managedFields |-> v, generation |-> "a"],
             << Ref("owned_by", "example.io", "Fleet", "f"), Ref("uses_secret", "", "Secret", "s"),
                Ref("pod_on_node", "", "", "n"), Ref("owned_by", "example.io", "Widget", "g") >>)
Cas(v)  == Ob(MapT, "kube-system", "cluster-autoscaler-status", [probeTimes |-> v], <<>>)
App(v)  == Ob(MapT, "default", "app", [probeTimes |-> v, leader |-> v], <<>>)
Ev(v)   == Ob(EventT, "default", "e", [reason |-> "a", series |-> v],
              << Ref("event_regarding_object", "", "Pod", "web"),
                 Ref("event_regarding_object", CM, "ClusterIssuer", "i") >>)
\* A secret that was applied, and one whose data was changed in another way since.
Sec(v)  == Ob(SecretT, "default", "s", [data |-> v, lastApplied |-> v, labels |-> "a"], <<>>)
Edited(ob) == [ob EXCEPT !.doc.data = "c"]
Fleet   == Ob(FleetT, "", "f", [spec |-> "a", conditionTimes |-> "a"], <<>>)
Def     == [Ob(CrdT, "", "widgets.example.io", [spec |-> "a"], <<>>) EXCEPT !.defines = <<WidgetT>>]
Widget  == Ob(WidgetT, "default", "g", [spec |-> "a"], << Ref("owned_by", "example.io", "Fleet", "f") >>)
Cert    == Ob(CertT, "default", "c", [spec |-> "a", generation |-> "a"],
              << Ref("certmanager_uses_issuer", "", "ClusterIssuer", "i"), Ref("certmanager_writes_secret", "", "Secret", "s") >>)
Route   == Ob(RouteT, "default", "r", [spec |-> "a"], << Ref("gateway_route_uses_backend", "", "", "svc") >>)
Bind    == Ob(BindT, "default", "b", [subjects |-> "a"],
              << Ref("rbac_binding_grants_role", "", "ClusterRole", "cr"),
                 Ref("rbac_binding_binds_subject", "", "ServiceAccount", "sa"),
                 Ref("rbac_binding_binds_subject", "", "User", "u") >>)
Slice   == Ob(SliceT, "default", "sl", [endpoints |-> "a"],
              << Ref("endpointslice_for_service", "", "", "svc"), Ref("endpointslice_targets_pod", "", "", "web") >>)
Vol     == Ob(VolT, "", "pv", [spec |-> "a"],
              << [Ref("pv_bound_to_pvc", "", "PersistentVolumeClaim", "pvc") EXCEPT !.ns = "default"],
                 Ref("pv_uses_storageclass", "storage.k8s.io", "StorageClass", "fast") >>)
Claim   == Ob(ClaimT, "default", "pvc", [spec |-> "a"], << Ref("pvc_bound_to_pv", "", "PersistentVolume", "pv") >>)
Hook    == Ob(HookT, "", "hook", [webhooks |-> "a"],
              << [Ref("webhook_uses_service", "", "Service", "svc") EXCEPT !.ns = "default"] >>)
Svc     == Ob(SvcT, "default", "svc", [spec |-> "a"], <<>>)
Lease   == Ob(LeaseT, "kube-node-lease", "n", [spec |-> "a"], <<>>)

mcInputs ==
  { Web("a"), Web("b"), Gone(Web("a")), Cas("a"), Cas("b"), App("a"), App("b"), Ev("a"), Ev("b"),
    Sec("a"), Sec("b"), Edited(Sec("b")), Gone(Sec("b")), Fleet, Def, Widget, Cert, Route, Bind, Slice, Svc, Vol, Claim, Hook,
    Lease }

\* Workers differ in nothing.
Symmetry == Permutations(Watchers)
================================================================================
