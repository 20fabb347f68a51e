SPECIFICATION IngestSpec
CONSTANTS
  Watchers = {w1, w2}
  Inputs <- mcInputs
  ClusterTypes <- mcTypes
  Standard <- mcStandard
  Dotted = {"gateway.networking.k8s.io", "cert-manager.io", "events.k8s.io", "coordination.k8s.io", "example.io",
            "rbac.authorization.k8s.io", "discovery.k8s.io",
            "storage.k8s.io", "admissionregistration.k8s.io"}
  ClusterScopedKinds = {"Node", "ClusterIssuer", "User", "ClusterRole", "PersistentVolume", "StorageClass",
                        "ValidatingWebhookConfiguration"}
  PluralOf <- mcPluralOf
  KindFrom <- mcKindFrom
  Discovered <- mcDiscovered
  Rules <- mcRules
  CustomRules <- mcCustomRules
  Replace = FALSE
  Defaults <- mcDefaults
  Disabled = {"report_skip", "service"}
  Chains <- mcChains
  ExtractorSets <- mcSets
  MaxIngests = 3
INVARIANTS
  EdgesReachTheirObject
  NoiseMakesNoVersion
  LatestSaysWhatRawSays
  OnlyTheAnnotationKeepsAPayload
SYMMETRY Symmetry
CHECK_DEADLOCK FALSE
