-------------------------------- MODULE Ingest --------------------------------
(***************************************************************************)
(* The ingest pipeline over the SQLite store: an observation is decoded,   *)
(* given a profile, filtered, written as the raw latest document, and its  *)
(* edges extracted and stored with a version, by several workers that      *)
(* share the resolver and the database.                                    *)
(*                                                                         *)
(* A document is a function from the fields that filters and references    *)
(* tell apart to values.  A field that a filter normalises instead of      *)
(* removing (the order of conditions, the keys of heartbeats) is present   *)
(* exactly when the document is not in the normal form.  An object has one *)
(* incarnation here; SqliteStore has many.                                 *)
(***************************************************************************)
EXTENDS KubeNames, Functions

CONSTANTS
  Watchers,      \* the workers that ingest, each what its watch sends
  Inputs,        \* what the API server may send: observations
  ClusterTypes,  \* the resources of the cluster
  Discovered,    \* the resources that discovery has put into the database
  Rules,         \* the default resource profile rules, in order
  CustomRules,   \* resourceProfiles.rules
  Replace,       \* resourceProfiles.replaceDefaults
  Defaults,      \* resourceProfiles.defaults, "" where it says nothing
  Chains,        \* processing.filterChains
  ExtractorSets, \* processing.extractorSets
  Disabled,      \* the filters and extractors that are not enabled
  MaxIngests     \* bound: calls of IngestJSON

VARIABLES
  ingested,   \* calls so far
  job,        \* what each worker is at
  resolver,   \* the resources the process has learned of
  table,      \* api_resources, in the order of their ids
  objects,    \* the object rows, with their versions
  raw,        \* latest_raw_index
  edges,      \* object_edges, each with the reference that it was made from
  decided,    \* filter_decisions
  torn        \* objects whose last observation ended between its transactions

ingestVars == <<ingested, job, resolver, table, objects, raw, edges, decided, torn>>

Idle == "idle"

--------------------------------------------------------------------------------
\* Profiles.

RuleMatches(rule, info) ==
  /\ rule.groups = {} \/ info.group \in rule.groups
  /\ rule.resources = {} \/ info.resource \in rule.resources
  /\ rule.kinds = {} \/ info.kind \in rule.kinds

DefaultProfile == [chain |-> "default", extractors |-> "generic"]

\* profileDefaultsFromConfig
Base == [field \in DOMAIN DefaultProfile |-> OrDefault(Defaults[field], DefaultProfile[field])]

\* Config.ProfileRules: the rules of the configuration come first.
ProfileRules == IF Replace THEN CustomRules ELSE CustomRules \o Rules

\* The first rule that matches, over the defaults of the configuration, which a
\* resource that no rule matches does not get.
Profile(info) ==
  LET i == SelectInSeq(ProfileRules, LAMBDA rule : RuleMatches(rule, info))
  IN  IF i = 0 THEN DefaultProfile
      ELSE [chain      |-> OrDefault(ProfileRules[i].chain, Base.chain),
            extractors |-> OrDefault(ProfileRules[i].extractors, Base.extractors)]

\* filterChainFromProcessingNames
Enabled(chain) == SelectSeq(chain, LAMBDA filter : filter \notin Disabled)

\* FilterChains.Select
Select(name) ==
  CASE name = "none"                -> <<>>
    [] name \in DOMAIN Chains       -> Enabled(Chains[name])
    [] OTHER                        -> Enabled(Chains["default"])

ChainOf(info) == Select(Profile(info).chain)

--------------------------------------------------------------------------------
\* Filters.

\* What each of the built-in filters takes out.  The annotation of kubectl apply
\* ("lastApplied"), which repeats the payload of a secret, is not among it.
SecretPayload   == {"data", "stringData"}
ConditionNoise  == {"conditionTimes", "conditionOrder"}
AutoscalerNoise == {"probeTimes"}
HeartbeatNoise  == {"heartbeatKeys"}

\* pathRemoveFilter, and the filters that are one when no paths are configured.
PathsOf ==
  [managed_fields |-> {"managedFields"}, resource_version |-> {"resourceVersion"},
   metadata_generation |-> {"generation"}, leader_election_configmap |-> {"leader"},
   event_series |-> {"series"}]

Drops(filter) ==
  CASE filter \in DOMAIN PathsOf              -> PathsOf[filter]
    [] filter = "status_condition_set"        -> ConditionNoise
    [] filter = "status_condition_timestamps" -> {"conditionTimes"}
    [] filter = "cluster_autoscaler_status"   -> AutoscalerNoise
    [] filter = "gke_webhook_heartbeat"       -> HeartbeatNoise
    [] filter = "secret_metadata_only"        -> SecretPayload
    [] OTHER                                  -> {}

\* ScopedFilter, and what the built-in filters ask themselves.  The paths of the leader
\* election are configured, with config maps of any group as their resources.
InScope(filter, info, ns, name) ==
  CASE filter = "leader_election_configmap" -> info.resource = "configmaps"
    [] filter = "cluster_autoscaler_status" ->
         info.resource = "configmaps" /\ ns = "kube-system" /\ name = "cluster-autoscaler-status"
    [] filter = "gke_webhook_heartbeat" ->
         info.resource = "configmaps" /\ ns = "kube-system" /\ name = "gke-common-webhook-heartbeat"
    [] filter = "event_series"         -> info.resource = "events" /\ info.group = "events.k8s.io"
    [] filter = "secret_metadata_only" -> info.resource = "secrets"
    [] filter = "lease_skip"           -> info.resource = "leases" /\ info.group = "coordination.k8s.io"
    [] OTHER                           -> TRUE

\* What a filter decides about an observation, which those before it in the
\* chain have changed in fields it does not look at.
Outcome(filter, info, ob) ==
  IF ~InScope(filter, info, ob.ns, ob.name) THEN "keep"
  ELSE CASE filter \in {"lease_skip", "report_skip"} -> "discard_resource"
         [] Drops(filter) \cap DOMAIN ob.doc # {}   -> "keep_modified"
         [] OTHER                                   -> "keep"

Discards(filter, info, ob) == Outcome(filter, info, ob) = "discard_resource"

\* Chain.Apply: the filters up to the first that discards.
Discarded(chain, info, ob) == \E i \in DOMAIN chain : Discards(chain[i], info, ob)

Applied(chain, info, ob) ==
  {chain[i] : i \in {j \in DOMAIN chain : \A k \in DOMAIN chain : k < j => ~Discards(chain[k], info, ob)}}

Removed(chain, info, ob) ==
  UNION {Drops(f) : f \in {g \in Applied(chain, info, ob) : InScope(g, info, ob.ns, ob.name)}}

\* Mutant: each filter is given the original document.
FilteredByLast(chain, info, ob) ==
  LET changing == {i \in DOMAIN chain : Outcome(chain[i], info, ob) = "keep_modified"}
  IN  IF changing = {} THEN ob.doc ELSE Restrict(ob.doc, DOMAIN ob.doc \ Drops(chain[Max(changing)]))

Filtered(chain, info, ob) == Restrict(ob.doc, DOMAIN ob.doc \ Removed(chain, info, ob))

\* PutFilterDecisions: one row for each discard and for each change that is not
\* routine; the routine ones are only counted.
Routine == {"managed_fields", "resource_version", "leader_election_configmap"}

Decisions(chain, info, ob) ==
  {[filter |-> f, outcome |-> Outcome(f, info, ob)] :
     f \in {g \in Applied(chain, info, ob) :
              \/ Discards(g, info, ob)
              \/ Outcome(g, info, ob) = "keep_modified" /\ g \notin Routine}}

\* Mutant: the raw document of a secret keeps its values.
Unredacted(info, doc) == doc

\* rawLatestObservation
Redacted(info, doc) ==
  IF info.group = "" /\ info.resource = "secrets"
  THEN [f \in DOMAIN doc |-> IF f \in SecretPayload THEN "redacted" ELSE doc[f]]
  ELSE doc

--------------------------------------------------------------------------------
\* The extractors.

ExtractorOf(site) ==
  CASE site = "pod_on_node" -> "pod"
    [] site = "event_regarding_object" -> "event"
    [] site \in {"endpointslice_for_service", "endpointslice_targets_pod"} -> "endpointslice"
    [] OTHER -> "reference"

\* The extractors of the registry that a set names.
Members(set) == IF set \in DOMAIN ExtractorSets THEN ExtractorSets[set] \ Disabled ELSE {}

\* Registry.extract: whether the extractors of a set are given what a reference states.
Extracts(set, ref) == set # "none" /\ ExtractorOf(ref.site) \in Members(set)

--------------------------------------------------------------------------------
\* The store.  State is passed along as a record, for a transaction has steps.

NewObject == [deleted |-> FALSE, versions |-> <<>>]

\* A map with one entry put into it.
With(map, key, value) == [k \in DOMAIN map \cup {key} |-> IF k = key THEN value ELSE map[k]]

Ensured(objs, key, deleted) ==
  With(objs, key, [deleted  |-> deleted,
                   versions |-> (IF key \in DOMAIN objs THEN objs[key] ELSE NewObject).versions])

\* ensureEdgeTarget: the target is read from its path, its resource and its row made.
EdgeTo(db, ob, ref, target) ==
  [table   |-> EnsureKind(db.table, target.info, target.key.ns),
   objects |-> Ensured(db.objects, target.key, FALSE),
   edges   |-> db.edges \cup {[of |-> ob.type, own |-> ob.ns, ref |-> ref, dst |-> target.key]}]

PutEdge(db, ob, ref) ==
  LET path == Path(resolver, ob.ns, ref)
  IN  IF path = NoPath THEN db
      ELSE EdgeTo(db, ob, ref, Target(db.table, ob.type.version, ob.ns, path))

\* Registry.ExtractSet and putEdges: those that the set asks for, in order.
PutEdges(db, ob, set) ==
  LET f[n \in 0 .. Len(ob.refs)] ==
        IF n = 0 THEN db
        ELSE IF Extracts(set, ob.refs[n]) THEN PutEdge(f[n - 1], ob, ob.refs[n])
        ELSE f[n - 1]
  IN  f[Len(ob.refs)]

\* Mutant: any version will do, and not the newest alone.
SeenBefore(ob, doc, row) ==
  /\ ~ob.del /\ ~row.deleted
  /\ \E i \in DOMAIN row.versions : row.versions[i].doc = doc

\* shouldSkipUnchangedObservation
Unchanged(ob, doc, row) ==
  /\ ~ob.del /\ ~row.deleted
  /\ row.versions # <<>> /\ Last(row.versions).doc = doc

--------------------------------------------------------------------------------

IngestInit ==
  /\ ingested = 0
  /\ job = [w \in Watchers |-> [stage |-> Idle]]
  /\ resolver = Standard
  /\ table = [i \in DOMAIN Discovered |-> [info |-> Discovered[i], preferred |-> TRUE]]
  /\ objects = <<>> /\ raw = <<>> /\ edges = {} /\ decided = {}
  /\ torn = {}

ObjectKey(ob) == Key(ob.type, ob.ns, <<ob.name>>)

\* The resource of an observation is what the resolver takes its kind for.
InfoOf(known, ob) ==
  [ob.type EXCEPT !.resource = ResolveGVK(known, ob.type.group, ob.type.kind).resource]

\* What the store's registry adds to what the resolver knows, for any input alike.
FromTable == Register(resolver, [i \in DOMAIN table |-> table[i].info])

\* The resources that the definitions among the objects bring with them.
Learned(start, ob) == Register(start, ob.defines)

\* An object that is created again is another object.
NotGone(ob) ==
  LET key == ObjectKey(ob)
  IN  key \in DOMAIN objects => \A v \in ToSet(objects[key].versions) : ~v.del

\* IngestJSON up to PutFilterDecisions.  A resource has one worker.
Decode(w, start, ob) ==
  LET known == Learned(start, ob)
      info  == InfoOf(known, ob)
      chain == ChainOf(info)
  IN  /\ ingested < MaxIngests /\ NotGone(ob)
      /\ job[w].stage = Idle
      /\ \A v \in Watchers : job[v].stage # Idle => job[v].ob.type # ob.type
      /\ ingested' = ingested + 1
      /\ resolver' = known
      /\ decided' = decided \cup {[key |-> ObjectKey(ob), decision |-> d] : d \in Decisions(chain, info, ob)}
      /\ job' = [job EXCEPT ![w] = IF Discarded(chain, info, ob)
                   THEN [stage |-> Idle]
                   ELSE [stage |-> "raw", ob |-> ob, info |-> info, doc |-> Filtered(chain, info, ob)]]
      /\ UNCHANGED <<table, objects, raw, edges, torn>>

PutRawLatest(w) ==
  LET ob  == job[w].ob
      key == ObjectKey(ob)
  IN  /\ job[w].stage = "raw"
      /\ table' = EnsureKind(table, job[w].info, ob.ns)
      /\ objects' = Ensured(objects, key, ob.del)
      /\ raw' = IF ob.del THEN Restrict(raw, DOMAIN raw \ {key})
                ELSE With(raw, key, Redacted(job[w].info, ob.doc))
      /\ job' = [job EXCEPT ![w].stage = "store"]
      /\ UNCHANGED <<ingested, resolver, edges, decided, torn>>

\* ExtractSet and PutObservation.
StoreObservation(w) ==
  LET ob     == job[w].ob
      key    == ObjectKey(ob)
      row    == IF key \in DOMAIN objects THEN objects[key] ELSE NewObject
      stored == With(objects, key,
                  [deleted  |-> ob.del,
                   versions |-> Append(row.versions, [doc |-> job[w].doc, del |-> ob.del])])
      known  == EnsureKind(table, job[w].info, ob.ns)
      made   == [table |-> known, objects |-> stored, edges |-> edges]
  IN  /\ job[w].stage = "store"
      /\ \/ /\ Unchanged(ob, job[w].doc, row)
            /\ table' = known
            /\ UNCHANGED <<objects, edges>>
         \/ /\ ~Unchanged(ob, job[w].doc, row)
            /\ \E db \in {PutEdges(made, ob, Profile(job[w].info).extractors)} :
                 table' = db.table /\ objects' = db.objects /\ edges' = db.edges
      /\ torn' = torn \ {key}
      /\ job' = [job EXCEPT ![w] = [stage |-> Idle]]
      /\ UNCHANGED <<ingested, resolver, raw, decided>>

\* A transaction fails, or the process stops before it.
Fail(w) ==
  /\ job[w].stage # Idle
  /\ torn' = IF job[w].stage = "store" THEN torn \cup {ObjectKey(job[w].ob)} ELSE torn
  /\ job' = [job EXCEPT ![w] = [stage |-> Idle]]
  /\ UNCHANGED <<ingested, resolver, table, objects, raw, edges, decided>>

IngestNext ==
  \E w \in Watchers :
    \/ LET start == FromTable IN \E ob \in Inputs : Decode(w, start, ob)
    \/ PutRawLatest(w) \/ StoreObservation(w) \/ Fail(w)

IngestSpec == IngestInit /\ [][IngestNext]_ingestVars

--------------------------------------------------------------------------------

\* What a reference means to Kubernetes, from the resources the cluster has.
KindOf(ref) ==
  CASE ref.site = "pod_on_node"               -> "Node"
    [] ref.site = "endpointslice_for_service" -> "Service"
    [] ref.site = "endpointslice_targets_pod" -> "Pod"
    [] ref.site = "gateway_route_uses_backend"       -> OrDefault(ref.kind, "Service")
    [] ref.site = "gateway_route_attaches_to_parent" -> OrDefault(ref.kind, "Gateway")
    [] ref.site = "certmanager_uses_issuer"          -> OrDefault(ref.kind, "Issuer")
    [] OTHER -> ref.kind

MayMean(ref, type) == type.kind = KindOf(ref) /\ (ref.group # "" => type.group = ref.group)

Denoted(edge) ==
  LET type == CHOOSE t \in ClusterTypes : MayMean(edge.ref, t)
  IN  Key(type, IF type.namespaced THEN OrDefault(edge.ref.ns, edge.own) ELSE "", <<edge.ref.name>>)

\* An edge leads to the row of the object that its source refers to: not to a
\* row of another kind, version, namespace or name, which that object would
\* never be stored in.
EdgesReachTheirObject == \A e \in edges : e.dst = Denoted(e)

\* What a document of an object says, apart from the fields that the processing
\* defaults call noise and those that hold the payload of a secret.
Noise(key) ==
  {"managedFields", "resourceVersion", "generation", "conditionTimes", "conditionOrder"}
  \cup (CASE key.kind = "Event"     -> {"series"}
          [] key.kind = "Secret"    -> SecretPayload
          [] key.kind = "ConfigMap" ->
               {"leader"} \cup IF key.name = <<"cluster-autoscaler-status">> THEN {"probeTimes"} ELSE {}
          [] OTHER                  -> {})

\* What the theorems ask of the cluster: a kind has one resource, whichever
\* group it may be found in, one type in a version of its group, and neither is
\* guessed wrongly; and its secrets are those of the core group.
Types == {ob.type : ob \in Inputs}

Infos == [group : STRING, version : STRING, resource : STRING, kind : STRING, namespaced : BOOLEAN]

Learnable ==
  ToSet(Standard) \cup ToSet(Discovered) \cup Types \cup UNION {ToSet(ob.defines) : ob \in Inputs}

MayStandFor(info, type) == info.kind = type.kind /\ (type.group = "" \/ info.group = type.group)

ASSUME NamesAssumption ==
  /\ Standard \in Seq(Infos) /\ Discovered \in Seq(Infos)
  /\ \A ob \in Inputs : /\ ob.type \in Infos /\ ob.defines \in Seq(Infos)
                        /\ ob.refs \in Seq(ToSet(ob.refs)) /\ ob.del \in BOOLEAN
  /\ \A type \in Types :
       /\ \A info \in Learnable : MayStandFor(info, type) => info.resource = type.resource
       /\ \A t \in Types :
            t.group = type.group /\ t.version = type.version /\ t.kind = type.kind => t = type
       /\ type.kind # Other
       /\ \A r \in DOMAIN KindFrom : KindFrom[r] = type.kind => r = type.resource
       /\ FallbackResource(type.kind) = type.resource
          \/ \E info \in ToSet(Standard) : info.group = type.group /\ info.kind = type.kind
       /\ type.kind = "Secret" <=> type.group = "" /\ type.resource = "secrets"

\* ... and of the configuration: the chain of a resource takes the noise out of
\* its documents, and nothing else.
ASSUME ChainsAssumption ==
  \A ob \in Inputs :
    Discarded(ChainOf(ob.type), ob.type, ob)
    \/ \A f \in DOMAIN ob.doc : f \in Removed(ChainOf(ob.type), ob.type, ob) <=> f \in Noise(ObjectKey(ob))

\* What the theorem about edges asks of the cluster: a resource of a group is
\* served in one version, and objects have a namespace when their type has.
ASSUME ClusterAssumption ==
  /\ ClusterTypes \subseteq Infos /\ ToSet(Discovered) \cup Types \subseteq ClusterTypes
  /\ \A t, u \in ClusterTypes : t.group = u.group /\ t.resource = u.resource => t = u
  /\ \A ob \in Inputs : ob.ns \in STRING /\ (ob.ns # "" <=> ob.type.namespaced)
  /\ "" \notin Dotted

Known == Learnable \cup ClusterTypes

\* The fields that the resolver is asked about, with the kind that they have, and
\* those for which it is not.
AskedKind(ref) ==
  CASE ref.site \in DOMAIN PodFields     -> PodFields[ref.site]
    [] ref.site \in DOMAIN LocalFields   -> LocalFields[ref.site]
    [] ref.site \in DOMAIN LocalIn       -> LocalIn[ref.site][2]
    [] ref.site \in DOMAIN ClusterFields -> ClusterFields[ref.site][2]
    [] ref.site \in ServiceFields        -> "Service"
    [] OTHER                             -> KindOf(ref)

AskedGroup(ref) ==
  CASE ref.site \in {"owned_by", "hpa_scales_target", "event_regarding_object", "pv_bound_to_pvc",
                     "gateway_route_uses_backend"} -> ref.group
    [] ref.site = "gateway_route_attaches_to_parent" -> OrDefault(ref.group, "gateway.networking.k8s.io")
    [] ref.site = "rbac_binding_grants_role" -> OrDefault(ref.group, "rbac.authorization.k8s.io")
    [] ref.site = "certmanager_uses_issuer"  -> OrDefault(ref.group, "cert-manager.io")
    [] ref.site = "rbac_binding_binds_subject" /\ ref.kind # "ServiceAccount" -> "rbac.authorization.k8s.io"
    [] ref.site \in DOMAIN LocalIn       -> LocalIn[ref.site][1]
    [] ref.site \in DOMAIN ClusterFields -> ClusterFields[ref.site][1]
    [] OTHER                             -> ""

Unasked ==
  [pod_on_node |-> "nodes", endpointslice_for_service |-> "services", endpointslice_targets_pod |-> "pods"]

\* The resource is known, or guessed right: by the resolver from its kind, and by
\* the store from its path, which a group without a dot makes ambiguous.
KindIsKnown(ref, type) ==
  /\ AskedKind(ref) = type.kind /\ AskedGroup(ref) \in {"", type.group}
  /\ \A info \in Known : info.kind = type.kind =>
       /\ info.namespaced = type.namespaced
       /\ AskedGroup(ref) \in {"", info.group} => info.group = type.group /\ info.resource = type.resource
  /\ \/ \E info \in ToSet(Standard) \cup ToSet(Discovered) : info.group = type.group /\ info.kind = type.kind
     \/ /\ AskedGroup(ref) = type.group /\ FallbackResource(type.kind) = type.resource
        /\ type.namespaced <=> type.kind \notin ClusterScopedKinds

PathIsKnown(version, type) ==
  /\ IF type.group = "" THEN type.resource \notin Dotted ELSE type.group \in Dotted
  /\ \/ type \in ToSet(Discovered)
     \/ LET named == {info \in ToSet(Standard) : info.resource = type.resource /\ type.group \in {"", info.group}}
        IN  /\ version = type.version
            /\ \A info \in named : [info EXCEPT !.version = version] = type
            /\ named = {} => FallbackInfo(type.group, version, type.resource, FallbackKind(type.resource)) = type

\* The namespaces that the API has a reference state.
ObjectFields ==
  {"owned_by", "hpa_scales_target", "event_regarding_object",
   "gateway_route_uses_backend", "gateway_route_attaches_to_parent"}

OwnNamespace ==
  DOMAIN PodFields \cup DOMAIN LocalFields \cup DOMAIN LocalIn
    \cup {"rbac_binding_grants_role", "certmanager_uses_issuer", "endpointslice_for_service"}

Sites ==
  ObjectFields \cup OwnNamespace \cup ServiceFields \cup DOMAIN ClusterFields \cup DOMAIN Unasked
    \cup {"pv_bound_to_pvc", "rbac_binding_binds_subject"}

References == [site : Sites, group : STRING, kind : STRING, ns : STRING, name : STRING]

\* Those that can only state an object without a namespace.
IsClusterWide(ref, kind) ==
  CASE ref.site \in DOMAIN ClusterFields \cup {"pod_on_node"} -> TRUE
    [] ref.site = "rbac_binding_grants_role"   -> kind = "ClusterRole"
    [] ref.site = "rbac_binding_binds_subject" -> kind # "ServiceAccount"
    [] ref.site = "certmanager_uses_issuer"    -> kind = "ClusterIssuer"
    [] OTHER                                   -> FALSE

IsPlaced(ob, ref, type) ==
  /\ IF type.namespaced THEN OrDefault(ref.ns, ob.ns) # "" ELSE ref.ns = ""
  /\ ref.site \in OwnNamespace => ref.ns \in {"", ob.ns}
  /\ ref.site \in ServiceFields \cup {"pv_bound_to_pvc"} => ref.ns # ""
  /\ ref.site \in {"pv_bound_to_pvc", "rbac_binding_grants_role", "owned_by", "hpa_scales_target",
                  "event_regarding_object"} => ref.kind # ""
  /\ ref.site = "rbac_binding_binds_subject" => ref.kind \in {"User", "Group", "ServiceAccount"}
  /\ ref.site \notin ObjectFields => (type.namespaced <=> ~IsClusterWide(ref, type.kind))

\* ... and of the references: each means one resource, which is found by the name
\* that the site has for it.
ASSUME ReferencesAssumption ==
  \A ob \in Inputs : \A ref \in ToSet(ob.refs) : \E type \in ClusterTypes :
    /\ ref \in References
    /\ \A t \in ClusterTypes : MayMean(ref, t) <=> t = type
    /\ IF ref.site \in DOMAIN Unasked THEN type.group = "" /\ type.resource = Unasked[ref.site]
       ELSE KindIsKnown(ref, type)
    /\ PathIsKnown(ob.type.version, type)
    /\ IsPlaced(ob, ref, type)

Meaning(key, doc) == Restrict(doc, DOMAIN doc \ Noise(key))

\* "Normalized fields do not create new historical versions": two versions in a
\* row of a live object differ in what they say.
NoiseMakesNoVersion ==
  \A key \in DOMAIN objects :
    LET vs == objects[key].versions
    IN  \A i \in 1..(Len(vs) - 1) :
          vs[i].del \/ vs[i + 1].del \/ Meaning(key, vs[i].doc) # Meaning(key, vs[i + 1].doc)

\* The history ends with what was seen last: the newest version says what the
\* raw latest document says, and there is none exactly when it is a deletion.
LatestSaysWhatRawSays ==
  \A key \in DOMAIN objects :
    \/ key \in torn
    \/ \E w \in Watchers : job[w].stage = "store" /\ ObjectKey(job[w].ob) = key
    \/ LET vs == objects[key].versions
       IN  IF key \in DOMAIN raw
           THEN /\ vs # <<>> /\ ~Last(vs).del
                /\ Meaning(key, Last(vs).doc) = Meaning(key, raw[key])
           ELSE vs = <<>> \/ Last(vs).del

\* Where the payload of a secret can be read: its own fields, and the annotation
\* in which kubectl apply keeps a copy of the manifest.
PayloadCopies == SecretPayload \cup {"lastApplied"}

\* What is stored of the payload of a secret is the copy in the annotation and
\* nothing else: a version has neither of the fields, a raw document their keys.
OnlyTheAnnotationKeepsAPayload ==
  \A key \in DOMAIN objects : key.kind = "Secret" =>
    /\ \A v \in ToSet(objects[key].versions) : DOMAIN v.doc \cap PayloadCopies \subseteq {"lastApplied"}
    /\ key \in DOMAIN raw =>
         \A f \in DOMAIN raw[key] \cap PayloadCopies : raw[key][f] = "redacted" \/ f = "lastApplied"
================================================================================
