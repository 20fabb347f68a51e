------------------------------ MODULE ServiceAnswer ------------------------------
(***************************************************************************)
(* What the investigation of a service promises, whichever storage backend *)
(* answers it (storage.ServiceInvestigationStore): while collectors keep   *)
(* writing, the answer holds every object that was related to the service  *)
(* when the question was asked, and nothing that is not related to it when *)
(* the answer is given.  It may be cut at the caller's limit, and it may be*)
(* refused where the backend cannot show a neighbour.                      *)
(***************************************************************************)
EXTENDS Naturals, FiniteSets

CONSTANTS
  Objects,  \* what the edges of the store speak of
  KindOf,   \* the kind of each
  Svc       \* the service that is asked about

VARIABLES
  seen,     \* the objects that have a document
  links,    \* pairs of objects with an edge that holds in the caller's window
  asked,    \* [open, seen, reach]: what was so when the question came
  cut,      \* the limit of objects was met
  frail,    \* the backend gives up at a neighbour without a document
  reply     \* [how, objects], how being "none", "refused" or "given"

\* The kinds that a service investigation gathers, and those it looks behind.
InEvidence(o) == KindOf[o] \in {"EndpointSlice", "Pod", "Node", "Event"}
Opens(o) == KindOf[o] \in {"EndpointSlice", "Pod"}

Linked(p, o, among) == <<p, o>> \in among \/ <<o, p>> \in among

\* Related to the service: over edges in either direction, through slices and pods.
Reach(among) ==
  LET f[n \in 0..Cardinality(Objects)] ==
        IF n = 0 THEN {Svc}
        ELSE f[n - 1] \cup { o \in Objects : InEvidence(o) /\
                               \E p \in f[n - 1] : (p = Svc \/ Opens(p)) /\ Linked(p, o, among) }
  IN f[Cardinality(Objects)] \ {Svc}

Init ==
  /\ seen = {} /\ links = {} /\ asked = [open |-> FALSE, seen |-> {}, reach |-> {}]
  /\ cut = FALSE /\ reply = [how |-> "none", objects |-> {}]
  /\ frail \in BOOLEAN

Learn ==
  /\ seen \subseteq seen' /\ links \subseteq links'
  /\ UNCHANGED <<asked, reply, frail>>

Ask ==
  /\ ~ asked.open /\ Svc \in seen
  /\ asked' = [open |-> TRUE, seen |-> seen, reach |-> Reach(links)]
  /\ UNCHANGED <<seen, links, reply, frail>>

Reply ==
  /\ asked.open /\ reply.how = "none"
  /\ reply' \in [how : {"given"}, objects : SUBSET (Reach(links) \cap seen)]
  /\ cut' \/ asked.reach \cap asked.seen \subseteq reply'.objects
  /\ UNCHANGED <<seen, links, asked, frail>>

Refuse ==
  /\ asked.open /\ reply.how = "none" /\ frail
  /\ ~ Reach(links) \subseteq asked.seen
  /\ reply' = [how |-> "refused", objects |-> {}]
  /\ UNCHANGED <<seen, links, asked, frail>>

Next == (Learn \/ Ask \/ Reply \/ Refuse) /\ (cut => cut')

Spec == Init /\ [][Next]_<<seen, links, asked, cut, frail, reply>>
==================================================================================
