------------------------------ MODULE IngestProofs ------------------------------
(* Theorems about the way of an observation into the two stores.                  *)
(*                                                                                *)
(* Ingest, over SQLite: the history of an object ends with what was seen last of  *)
(* it, versions differ in what they say, secrets keep their payload, and edges    *)
(* reach the object that their source means, however the workers interleave and   *)
(* whichever transaction fails.  The assumptions about the cluster, its           *)
(* references and the configuration are those of Ingest.                          *)
(*                                                                                *)
(* ClickHouseBuffer: no observation is lost from sight or stored twice, and no    *)
(* two versions of an object get one number, however the batches overtake each    *)
(* other, fail, or die with the process.                                          *)
EXTENDS Ingest, ClickHouseBuffer, FiniteSetTheorems, SequenceTheorems, WellFoundedInduction, TLAPS

--------------------------------------------------------------------------------
\* A set of natural numbers has a least one.
LEMMA LeastNumber ==
  ASSUME NEW T \in SUBSET Nat, T # {}
  PROVE  \E x \in T : \A y \in T : x <= y
<1> DEFINE R == {ss \in Nat \X Nat : ss[1] < ss[2]}
<1>1. IsWellFoundedOn(R, Nat)
  BY NatLessThanWellFounded DEF OpToRel
<1>2. PICK x \in T : \A y \in T : <<y, x>> \notin R
  BY <1>1, WFMin
<1>3. \A y \in T : x <= y
  <2> SUFFICES ASSUME NEW y \in T, ~(x <= y) PROVE FALSE
    OBVIOUS
  <2>1. x \in Nat /\ y \in Nat /\ y < x
    OBVIOUS
  <2>2. <<y, x>> \in R
    BY <2>1
  <2>3. QED
    BY <1>2, <2>2
<1>4. QED
  BY <1>3

\* Of the indices of a sequence that are in a set there is a first and a last.
LEMMA FirstAndLast ==
  ASSUME NEW n \in Nat, NEW S \in SUBSET (1 .. n), S # {}
  PROVE  Min(S) \in S /\ Max(S) \in S
<1>1. \E x \in S : \A y \in S : x <= y
  BY LeastNumber
<1>2. Min(S) \in S
  BY <1>1, Zenon DEF Min
<1> DEFINE T == {n - i : i \in S}
<1>3. T \in SUBSET Nat /\ T # {}
  <2>1. \A i \in S : n - i \in Nat
    OBVIOUS
  <2> QED BY <2>1
<1>4. PICK x \in T : \A y \in T : x <= y
  BY <1>3, LeastNumber
<1>5. PICK i \in S : x = n - i
  BY <1>4
<1>6. \A j \in S : i >= j
  <2> SUFFICES ASSUME NEW j \in S PROVE i >= j
    OBVIOUS
  <2>1. n - i <= n - j
    BY <1>4, <1>5
  <2>2. i \in Int /\ j \in Int
    OBVIOUS
  <2> QED BY <2>1, <2>2
<1>7. Max(S) \in S
  BY <1>5, <1>6, Zenon DEF Max
<1> QED BY <1>2, <1>7

--------------------------------------------------------------------------------
(* What the resolver and the table know.                                          *)

\* An info has the parts of one ...
IsInfo(info) ==
  info = [group |-> info.group, version |-> info.version, resource |-> info.resource,
          kind |-> info.kind, namespaced |-> info.namespaced]

\* ... and gives every object that may be found by it its own resource.
Fits(info) ==
  IsInfo(info) /\ \A type \in Types : MayStandFor(info, type) => info.resource = type.resource

\* A sequence, whatever its elements are.
IsSequence(s) == s \in Seq(ToSet(s))

\* The sequences grow at their ends.
LEMMA Appended ==
  ASSUME NEW s, IsSequence(s), NEW x
  PROVE  /\ IsSequence(Append(s, x))
         /\ Len(Append(s, x)) = Len(s) + 1
         /\ \A i \in 1 .. Len(s) : Append(s, x)[i] = s[i]
         /\ Append(s, x)[Len(s) + 1] = x
         /\ ToSet(Append(s, x)) = ToSet(s) \cup {x}
<1> DEFINE S == ToSet(s) \cup {x}
           a == Append(s, x)
<1>1. s \in Seq(S)
  BY DEF IsSequence
<1>2. /\ a \in Seq(S) /\ Len(a) = Len(s) + 1 /\ Len(s) \in Nat /\ DOMAIN s = 1 .. Len(s)
      /\ DOMAIN a = 1 .. Len(a)
      /\ \A i \in 1 .. Len(s) : a[i] = s[i]
      /\ a[Len(s) + 1] = x
  BY <1>1
<1>3. ToSet(a) = S
  <2>1. ToSet(a) \subseteq S
    BY <1>2 DEF ToSet
  <2>2. \A y \in ToSet(s) : y \in ToSet(a)
    BY <1>2 DEF ToSet
  <2>3. x \in ToSet(a)
    BY <1>2 DEF ToSet
  <2> QED BY <2>1, <2>2, <2>3
<1> QED BY <1>2, <1>3 DEF IsSequence

\* Register takes the infos one after the other.
RegisterOne(before, info) == IF IsCurrent(before, info) THEN before ELSE Append(before, info)

Registers(f, n, known, infos) ==
  f = [i \in 0 .. n |-> IF i = 0 THEN known ELSE RegisterOne(f[i - 1], infos[i])]

\* The steps of a registration can be counted to any number ...
LEMMA RegistersExist ==
  ASSUME NEW known, NEW infos, NEW n \in Nat
  PROVE  \E f : Registers(f, n, known, infos)
<1> DEFINE T == {m \in Nat : ~ \E f : Registers(f, m, known, infos)}
<1>1. SUFFICES ASSUME T # {} PROVE FALSE
  OBVIOUS
<1>2. PICK m \in T : \A k \in T : m <= k
  BY <1>1, LeastNumber, Zenon
<1>3. CASE m = 0
  <2>1. Registers([i \in 0 .. 0 |-> known], 0, known, infos)
    BY DEF Registers
  <2> QED BY <1>3, <2>1
<1>4. CASE m # 0
  <2>1. m - 1 \in Nat /\ m - 1 \notin T
    BY <1>2, <1>4
  <2>2. PICK g : Registers(g, m - 1, known, infos)
    BY <2>1
  <2> DEFINE h == [i \in 0 .. m |-> IF i = m THEN RegisterOne(g[m - 1], infos[m]) ELSE g[i]]
  <2>3. \A i \in 0 .. (m - 1) : h[i] = g[i]
    BY <2>1
  <2>4. h[m] = RegisterOne(h[m - 1], infos[m])
    BY <2>1, <2>3
  <2>5. \A i \in 0 .. m : h[i] = IF i = 0 THEN known ELSE RegisterOne(h[i - 1], infos[i])
    <3> SUFFICES ASSUME NEW i \in 0 .. m
                 PROVE  h[i] = IF i = 0 THEN known ELSE RegisterOne(h[i - 1], infos[i])
      OBVIOUS
    <3>1. CASE i = m
      BY <1>4, <2>4, <3>1
    <3>2. CASE i # m
      <4>1. i \in 0 .. (m - 1)
        BY <3>2
      <4>2. g[i] = IF i = 0 THEN known ELSE RegisterOne(g[i - 1], infos[i])
        BY <2>2, <4>1 DEF Registers
      <4>3. i # 0 => i - 1 \in 0 .. (m - 1)
        BY <4>1
      <4> HIDE DEF h
      <4> QED BY <2>3, <4>1, <4>2, <4>3
    <3> QED BY <3>1, <3>2
  <2>6. DOMAIN h = 0 .. m
    OBVIOUS
  <2>7. h = [i \in DOMAIN h |-> h[i]]
    OBVIOUS
  <2> HIDE DEF h
  <2>8. Registers(h, m, known, infos)
    BY <2>5, <2>6, <2>7 DEF Registers
  <2> QED BY <2>8
<1> QED BY <1>3, <1>4

\* ... and Register is the last of as many as there are infos.
LEMMA RegisterIsLast ==
  ASSUME NEW known, NEW infos, IsSequence(infos)
  PROVE  \E f : Registers(f, Len(infos), known, infos) /\ Register(known, infos) = f[Len(infos)]
<1> DEFINE F == CHOOSE f : Registers(f, Len(infos), known, infos)
<1>1. Len(infos) \in Nat
  BY DEF IsSequence
<1>2. Registers(F, Len(infos), known, infos)
  BY <1>1, RegistersExist
<1>3. Register(known, infos) = F[Len(infos)]
  BY Zenon DEF Register, Registers, RegisterOne
<1> HIDE DEF F
<1> QED BY <1>2, <1>3

\* What is known stays known, and only the infos come to it.
LEMMA RegisterAdds ==
  ASSUME NEW known, NEW infos, IsSequence(known), IsSequence(infos)
  PROVE  /\ IsSequence(Register(known, infos))
         /\ ToSet(known) \subseteq ToSet(Register(known, infos))
         /\ ToSet(Register(known, infos)) \subseteq ToSet(known) \cup ToSet(infos)
<1> DEFINE N == Len(infos)
           Holds(s) == /\ IsSequence(s) /\ ToSet(known) \subseteq ToSet(s)
                       /\ ToSet(s) \subseteq ToSet(known) \cup ToSet(infos)
<1>1. N \in Nat /\ \A i \in 1 .. N : infos[i] \in ToSet(infos)
  BY DEF IsSequence, ToSet
<1>2. PICK f : Registers(f, N, known, infos) /\ Register(known, infos) = f[N]
  BY RegisterIsLast
<1> DEFINE T == {m \in 0 .. N : ~Holds(f[m])}
<1>3. SUFFICES ASSUME T # {} PROVE FALSE
  BY <1>1, <1>2
<1>4. T \in SUBSET Nat
  BY <1>1
<1>5. PICK m \in T : \A k \in T : m <= k
  BY <1>3, <1>4, LeastNumber, Zenon
<1>6. m \in 0 .. N /\ ~Holds(f[m])
  BY <1>5
<1>7. CASE m = 0
  <2>1. f[m] = known
    BY <1>2, <1>6, <1>7 DEF Registers
  <2> QED BY <1>6, <2>1
<1>8. CASE m # 0
  <2>1. m \in 1 .. N /\ m - 1 \in 0 .. N /\ ~(m <= m - 1)
    BY <1>1, <1>6, <1>8
  <2>2. f[m] = RegisterOne(f[m - 1], infos[m])
    BY <1>2, <1>6, <1>8 DEF Registers
  <2>3. Holds(f[m - 1])
    BY <1>5, <2>1
  <2>4. infos[m] \in ToSet(infos)
    BY <1>1, <2>1
  <2>5. CASE IsCurrent(f[m - 1], infos[m])
    BY <1>6, <2>2, <2>3, <2>5 DEF RegisterOne
  <2>6. CASE ~IsCurrent(f[m - 1], infos[m])
    <3>1. f[m] = Append(f[m - 1], infos[m])
      BY <2>2, <2>6 DEF RegisterOne
    <3>2. IsSequence(f[m]) /\ ToSet(f[m]) = ToSet(f[m - 1]) \cup {infos[m]}
      BY <2>3, <3>1, Appended
    <3> QED BY <1>6, <2>3, <2>4, <3>2
  <2> QED BY <2>5, <2>6
<1> QED BY <1>7, <1>8

\* A sequence of infos that fit, and rows of the table whose infos do.
AllFit(known) == IsSequence(known) /\ \A info \in ToSet(known) : Fits(info)

IsTable(rows) ==
  /\ IsSequence(rows)
  /\ \A i \in DOMAIN rows :
       rows[i] = [info |-> rows[i].info, preferred |-> rows[i].preferred] /\ Fits(rows[i].info)

\* What may be learned of the cluster fits.
LEMMA LearnableFits ==
  \A info \in Learnable : Fits(info)
<1> SUFFICES ASSUME NEW info \in Learnable PROVE Fits(info)
  OBVIOUS
<1>1. info \in Infos
  <2>1. CASE info \in ToSet(Standard)
    <3>1. Standard \in Seq(Infos)
      BY NamesAssumption
    <3> QED BY <2>1, <3>1 DEF ToSet
  <2>2. CASE info \in ToSet(Discovered)
    <3>1. Discovered \in Seq(Infos)
      BY NamesAssumption
    <3> QED BY <2>2, <3>1 DEF ToSet
  <2>3. CASE info \in Types
    BY <2>3, NamesAssumption DEF Types
  <2>4. CASE info \in UNION {ToSet(ob.defines) : ob \in Inputs}
    <3>1. PICK ob \in Inputs : info \in ToSet(ob.defines)
      BY <2>4
    <3>2. ob.defines \in Seq(Infos)
      BY NamesAssumption
    <3> QED BY <3>1, <3>2 DEF ToSet
  <2> QED BY <2>1, <2>2, <2>3, <2>4 DEF Learnable
<1>2. IsInfo(info)
  BY <1>1 DEF Infos, IsInfo
<1>3. \A type \in Types : MayStandFor(info, type) => info.resource = type.resource
  BY NamesAssumption
<1> QED BY <1>2, <1>3 DEF Fits

\* The standard resources, and the definitions of an observation, fit.
LEMMA StandardFits ==
  AllFit(Standard) /\ \A ob \in Inputs : AllFit(ob.defines)
<1>1. Standard \in Seq(Infos) /\ \A ob \in Inputs : ob.defines \in Seq(Infos)
  BY NamesAssumption
<1>2. \A s : s \in Seq(Infos) => IsSequence(s)
  BY DEF IsSequence, ToSet
<1>3. \A info \in ToSet(Standard) : Fits(info)
  BY LearnableFits DEF Learnable
<1>4. \A ob \in Inputs : \A info \in ToSet(ob.defines) : Fits(info)
  BY LearnableFits DEF Learnable
<1> QED BY <1>1, <1>2, <1>3, <1>4 DEF AllFit

\* An index that a group is taken for is one of those offered.
Offered(i, known, group, some) ==
  /\ i = 0 \/ i \in some
  /\ i = 0 => (\A j \in some : known[j].group # group)
  /\ i # 0 => (known[i].group = group \/ group = "")

LEMMA InGroupIsOffered ==
  ASSUME NEW known, IsSequence(known), NEW group, NEW some, some \subseteq DOMAIN known
  PROVE  Offered(InGroup(known, group, some), known, group, some)
<1> DEFINE exact == {i \in some : known[i].group = group}
<1>1. DOMAIN known = 1 .. Len(known) /\ Len(known) \in Nat /\ exact \subseteq 1 .. Len(known)
  BY DEF IsSequence
<1>2. \A i \in some : i # 0
  BY <1>1
<1>3. CASE exact # {}
  <2>1. Max(exact) \in exact
    BY <1>1, <1>3, FirstAndLast
  <2>2. InGroup(known, group, some) = Max(exact)
    BY <1>3 DEF InGroup
  <2> QED BY <1>2, <2>1, <2>2 DEF Offered
<1>4. CASE exact = {} /\ group = "" /\ some # {}
  <2>1. Min(some) \in some
    BY <1>1, <1>4, FirstAndLast
  <2>2. InGroup(known, group, some) = Min(some)
    BY <1>4 DEF InGroup
  <2> QED BY <1>2, <1>4, <2>1, <2>2 DEF Offered
<1>5. CASE exact = {} /\ ~(group = "" /\ some # {})
  BY <1>5 DEF InGroup, Offered
<1> QED BY <1>3, <1>4, <1>5

\* What is guessed has the parts it is guessed from, and so has what is renamed.
LEMMA FallbackParts ==
  ASSUME NEW group, NEW version, NEW resource, NEW kind
  PROVE  LET info == FallbackInfo(group, version, resource, kind)
         IN  IsInfo(info) /\ info.group = group /\ info.kind = kind /\ info.resource = resource
<1> DEFINE scope == (group # "" \/ kind \notin ClusterScopedKinds)
<1>1. FallbackInfo(group, version, resource, kind)
        = [group |-> group, version |-> version, resource |-> resource, kind |-> kind, namespaced |-> scope]
  BY Zenon DEF FallbackInfo
<1> HIDE DEF scope
<1> QED BY <1>1 DEF IsInfo

LEMMA PlacedParts ==
  ASSUME NEW info, IsInfo(info), NEW b
  PROVE  LET known == [info EXCEPT !.namespaced = b]
         IN  /\ IsInfo(known)
             /\ known.group = info.group /\ known.kind = info.kind /\ known.resource = info.resource
BY DEF IsInfo

\* The resource of an observation is the one of its type, whatever was registered.
LEMMA InfoIsType ==
  ASSUME NEW known, AllFit(known), ToSet(Standard) \subseteq ToSet(known), NEW ob \in Inputs
  PROVE  InfoOf(known, ob) = ob.type
<1> DEFINE type == ob.type
           some == {j \in DOMAIN known : known[j].kind = type.kind}
           i    == InGroup(known, type.group, some)
<1>1. type \in Types /\ type \in Infos
  BY NamesAssumption DEF Types
<1>2. Offered(i, known, type.group, some)
  <2>1. IsSequence(known) /\ some \subseteq DOMAIN known
    BY DEF AllFit
  <2> QED BY <2>1, InGroupIsOffered
<1>3. CASE i # 0
  <2>1. i \in DOMAIN known /\ known[i].kind = type.kind
    BY <1>2, <1>3 DEF Offered
  <2>2. known[i] \in ToSet(known)
    BY <2>1 DEF ToSet
  <2>3. MayStandFor(known[i], type)
    BY <1>2, <1>3, <2>1 DEF MayStandFor, Offered
  <2>4. known[i].resource = type.resource
    BY <1>1, <2>2, <2>3 DEF AllFit, Fits
  <2>5. ResolveGVK(known, type.group, type.kind) = known[i]
    BY <1>3 DEF ResolveGVK
  <2> QED BY <1>1, <2>4, <2>5 DEF InfoOf, Infos
<1>4. CASE i = 0
  <2>1. ~ \E info \in ToSet(Standard) : info.group = type.group /\ info.kind = type.kind
    <3> SUFFICES ASSUME NEW info \in ToSet(Standard), info.group = type.group, info.kind = type.kind
                 PROVE  FALSE
      OBVIOUS
    <3>1. PICK j \in DOMAIN known : info = known[j]
      BY DEF ToSet
    <3>2. j \in some
      BY <3>1
    <3> QED BY <1>2, <1>4, <3>1, <3>2 DEF Offered
  <2>2. FallbackResource(type.kind) = type.resource
    BY <1>1, <2>1, NamesAssumption
  <2>3. ResolveGVK(known, type.group, type.kind)
          = FallbackInfo(type.group, "v1", FallbackResource(type.kind), type.kind)
    BY <1>4 DEF ResolveGVK
  <2>4. ResolveGVK(known, type.group, type.kind).resource = type.resource
    BY <2>2, <2>3, FallbackParts
  <2> QED BY <1>1, <2>4 DEF InfoOf, Infos
<1> QED BY <1>3, <1>4

\* The table learns of what is stored: an info that fits leaves it a table.
LEMMA EnsureKindKeepsTable ==
  ASSUME NEW rows, IsTable(rows), NEW info, Fits(info), NEW ns
  PROVE  IsTable(EnsureKind(rows, info, ns))
<1> DEFINE same  == {i \in DOMAIN rows : /\ rows[i].info.group = info.group
                                        /\ rows[i].info.version = info.version
                                        /\ rows[i].info.resource = info.resource}
           known == [info EXCEPT !.namespaced = (ns # "")]
           row   == [info |-> known, preferred |-> FALSE]
           N     == Len(rows)
<1>1. N \in Nat /\ DOMAIN rows = 1 .. N /\ IsSequence(rows)
  BY DEF IsTable, IsSequence
<1>2. known.kind = info.kind /\ known.group = info.group /\ known.resource = info.resource /\ IsInfo(known)
  <2>1. IsInfo(info)
    BY DEF Fits
  <2> QED BY <2>1, PlacedParts
<1>3. Fits(known)
  BY <1>2 DEF Fits, MayStandFor
<1> HIDE DEF known
<1>4. CASE same = {}
  <2> DEFINE r == Append(rows, row)
  <2>1. EnsureKind(rows, info, ns) = r
    BY <1>4 DEF EnsureKind, known
  <2>2. /\ IsSequence(r) /\ Len(r) = N + 1 /\ \A i \in 1 .. N : r[i] = rows[i]
        /\ r[N + 1] = row
    BY <1>1, Appended
  <2>3. DOMAIN r = 1 .. N + 1
    BY <2>2 DEF IsSequence
  <2> HIDE DEF r
  <2>4. ASSUME NEW i \in DOMAIN r
        PROVE  r[i] = [info |-> r[i].info, preferred |-> r[i].preferred] /\ Fits(r[i].info)
    <3>1. CASE i \in 1 .. N
      <4>1. r[i] = rows[i] /\ i \in DOMAIN rows
        BY <1>1, <2>2, <3>1
      <4> QED BY <4>1 DEF IsTable
    <3>2. CASE i = N + 1
      <4>1. r[i] = row
        BY <2>2, <3>2
      <4> QED BY <1>3, <4>1
    <3> QED BY <1>1, <2>3, <3>1, <3>2
  <2> QED BY <2>1, <2>2, <2>4 DEF IsTable
<1>5. CASE same # {}
  <2> DEFINE k == Min(same)
             r == [rows EXCEPT ![k].info = known]
  <2>1. EnsureKind(rows, info, ns) = r
    BY <1>5 DEF EnsureKind, known
  <2>2. k \in DOMAIN rows
    BY <1>1, <1>5, FirstAndLast
  <2>3. DOMAIN r = 1 .. N
    BY <1>1
  <2>4. IsSequence(r)
    <3>1. \A i \in 1 .. N : r[i] \in ToSet(r)
      BY <2>3 DEF ToSet
    <3>2. r = [i \in 1 .. N |-> r[i]]
      BY <1>1
    <3> HIDE DEF r
    <3> QED BY <1>1, <3>1, <3>2 DEF IsSequence
  <2>5. r[k] = [rows[k] EXCEPT !.info = known] /\ \A i \in DOMAIN rows : i # k => r[i] = rows[i]
    BY <2>2
  <2> HIDE DEF r, k
  <2>6. ASSUME NEW i \in DOMAIN r
        PROVE  r[i] = [info |-> r[i].info, preferred |-> r[i].preferred] /\ Fits(r[i].info)
    <3>1. i \in DOMAIN rows
      BY <1>1, <2>3
    <3>2. rows[i] = [info |-> rows[i].info, preferred |-> rows[i].preferred] /\ Fits(rows[i].info)
      BY <3>1 DEF IsTable
    <3>3. CASE i = k
      <4>1. r[i] = [info |-> known, preferred |-> rows[i].preferred]
        BY <2>5, <3>2, <3>3
      <4> QED BY <1>3, <4>1
    <3>4. CASE i # k
      BY <2>5, <3>1, <3>2, <3>4
    <3> QED BY <3>3, <3>4
  <2> QED BY <2>1, <2>4, <2>6 DEF IsTable
<1> QED BY <1>4, <1>5

\* What the target of an edge is taken for fits, whatever path names it.
LEMMA TargetFits ==
  ASSUME NEW rows, IsTable(rows), NEW version, NEW own, NEW path
  PROVE  Fits(Target(rows, version, own, path).info)
<1>1. ASSUME NEW group, NEW resource PROVE Fits(TargetInfo(rows, group, version, resource))
  <2> DEFINE i == LookupAPIResource(rows, group, resource)
             j == InGroup(Standard, group, {k \in DOMAIN Standard : Standard[k].resource = resource})
  <2>1. CASE i # 0
    <3> DEFINE named     == {k \in DOMAIN rows : rows[k].info.group = group /\ rows[k].info.resource = resource}
               preferred == {k \in named : rows[k].preferred}
    <3>1. Len(rows) \in Nat /\ named \subseteq 1 .. Len(rows) /\ preferred \subseteq 1 .. Len(rows)
      BY DEF IsTable, IsSequence
    <3>2. CASE preferred # {}
      <4>1. i = Max(preferred)
        BY <3>2 DEF LookupAPIResource
      <4>2. Max(preferred) \in preferred
        BY <3>1, <3>2, FirstAndLast
      <4> QED BY <2>1, <4>1, <4>2 DEF TargetInfo, IsTable
    <3>3. CASE preferred = {}
      <4>1. i = Max(named) /\ named # {}
        BY <2>1, <3>3 DEF LookupAPIResource
      <4>2. Max(named) \in named
        BY <3>1, <4>1, FirstAndLast
      <4> QED BY <2>1, <4>1, <4>2 DEF TargetInfo, IsTable
    <3> QED BY <3>2, <3>3
  <2>2. CASE i = 0 /\ j # 0
    <3>1. j \in DOMAIN Standard
      BY <2>2, InGroupIsOffered, StandardFits DEF AllFit, Offered
    <3>2. Fits(Standard[j])
      BY <3>1, StandardFits DEF AllFit, ToSet
    <3>3. TargetInfo(rows, group, version, resource) = [Standard[j] EXCEPT !.version = version]
      BY <2>2 DEF TargetInfo, ResolveGVR
    <3> QED BY <3>2, <3>3 DEF Fits, IsInfo, MayStandFor
  <2>3. CASE i = 0 /\ j = 0
    <3> DEFINE guess == FallbackInfo(group, version, resource, FallbackKind(resource))
    <3>1. TargetInfo(rows, group, version, resource) = guess
      BY <2>3 DEF TargetInfo, ResolveGVR
    <3>2. IsInfo(guess) /\ guess.kind = FallbackKind(resource) /\ guess.resource = resource
      BY FallbackParts
    <3>3. ASSUME NEW type \in Types, FallbackKind(resource) = type.kind PROVE resource = type.resource
      BY <3>3, NamesAssumption DEF FallbackKind
    <3> HIDE DEF guess
    <3> QED BY <3>1, <3>2, <3>3 DEF Fits, MayStandFor
  <2> QED BY <2>1, <2>2, <2>3
<1> QED BY <1>1, Zenon DEF Target

--------------------------------------------------------------------------------
(* What the edges of an observation do to the rows of other objects.              *)

\* Rows are made without versions and marked live; versions are left alone.
Grows(objs, more) ==
  /\ DOMAIN objs \subseteq DOMAIN more
  /\ \A key \in DOMAIN more :
       /\ more[key] = [deleted |-> more[key].deleted, versions |-> more[key].versions]
       /\ more[key].versions = IF key \in DOMAIN objs THEN objs[key].versions ELSE <<>>
       /\ \/ more[key].deleted = FALSE
          \/ key \in DOMAIN objs /\ more[key].deleted = objs[key].deleted

IsRows(objs) ==
  \A key \in DOMAIN objs : objs[key] = [deleted |-> objs[key].deleted, versions |-> objs[key].versions]

LEMMA RowsGrow ==
  ASSUME NEW objs, IsRows(objs)
  PROVE  Grows(objs, objs)
BY DEF Grows, IsRows

LEMMA GrowthIsRows ==
  ASSUME NEW objs, NEW more, Grows(objs, more)
  PROVE  IsRows(more)
BY DEF Grows, IsRows

LEMMA GrowthAddsUp ==
  ASSUME NEW a, NEW b, NEW c, Grows(a, b), Grows(b, c)
  PROVE  Grows(a, c)
BY DEF Grows

\* The row of a target.
LEMMA EnsuredGrows ==
  ASSUME NEW objs, IsRows(objs), NEW key
  PROVE  Grows(objs, Ensured(objs, key, FALSE))
<1> DEFINE row  == [deleted  |-> FALSE,
                    versions |-> (IF key \in DOMAIN objs THEN objs[key] ELSE NewObject).versions]
           more == [k \in DOMAIN objs \cup {key} |-> IF k = key THEN row ELSE objs[k]]
<1>1. Ensured(objs, key, FALSE) = more
  BY DEF Ensured, With
<1>2. row.deleted = FALSE /\ row.versions = (IF key \in DOMAIN objs THEN objs[key].versions ELSE <<>>)
      /\ row = [deleted |-> row.deleted, versions |-> row.versions]
  BY DEF NewObject
<1> HIDE DEF row
<1>3. DOMAIN more = DOMAIN objs \cup {key} /\ more[key] = row /\ \A k \in DOMAIN objs : k # key => more[k] = objs[k]
  OBVIOUS
<1> HIDE DEF more
<1>4. ASSUME NEW k \in DOMAIN more
      PROVE  /\ more[k] = [deleted |-> more[k].deleted, versions |-> more[k].versions]
             /\ more[k].versions = IF k \in DOMAIN objs THEN objs[k].versions ELSE <<>>
             /\ \/ more[k].deleted = FALSE
                \/ k \in DOMAIN objs /\ more[k].deleted = objs[k].deleted
  <2>1. CASE k = key
    <3>1. more[k] = row
      BY <1>3, <2>1
    <3> QED BY <1>2, <2>1, <3>1
  <2>2. CASE k # key
    <3>1. k \in DOMAIN objs /\ more[k] = objs[k]
      BY <1>3, <2>2
    <3> QED BY <3>1 DEF IsRows
  <2> QED BY <2>1, <2>2
<1> QED BY <1>1, <1>3, <1>4 DEF Grows

\* A database that edges are put into, and what becomes of it.
Becomes(db, more) == IsTable(more.table) /\ Grows(db.objects, more.objects)

LEMMA PutEdgeGrows ==
  ASSUME NEW db, IsTable(db.table), IsRows(db.objects), NEW ob, NEW ref
  PROVE  Becomes(db, PutEdge(db, ob, ref))
<1> DEFINE path   == Path(resolver, ob.ns, ref)
           target == Target(db.table, ob.type.version, ob.ns, path)
<1>1. CASE path = NoPath
  <2>1. PutEdge(db, ob, ref) = db
    BY <1>1, Zenon DEF PutEdge
  <2> QED BY <2>1, RowsGrow DEF Becomes
<1>2. CASE path # NoPath
  <2>1. PutEdge(db, ob, ref) = EdgeTo(db, ob, ref, target)
    BY <1>2, Zenon DEF PutEdge
  <2>2. Fits(target.info)
    BY TargetFits
  <2> HIDE DEF target
  <2>3. IsTable(EnsureKind(db.table, target.info, target.key.ns))
    BY <2>2, EnsureKindKeepsTable
  <2>4. Grows(db.objects, Ensured(db.objects, target.key, FALSE))
    BY EnsuredGrows
  <2> DEFINE rows == EnsureKind(db.table, target.info, target.key.ns)
             more == Ensured(db.objects, target.key, FALSE)
             grown == db.edges \cup {[of |-> ob.type, own |-> ob.ns, ref |-> ref, dst |-> target.key]}
  <2>5. PutEdge(db, ob, ref) = [table |-> rows, objects |-> more, edges |-> grown]
    BY <2>1, Zenon DEF EdgeTo
  <2> HIDE DEF rows, more, grown
  <2>6. PutEdge(db, ob, ref).table = rows /\ PutEdge(db, ob, ref).objects = more
    BY <2>5
  <2> QED BY <2>3, <2>4, <2>6 DEF Becomes, rows, more
<1> QED BY <1>1, <1>2

\* putEdges takes the references one after the other.
PutOne(db, ob, set, ref) == IF Extracts(set, ref) THEN PutEdge(db, ob, ref) ELSE db

Puts(f, n, db, ob, set) ==
  f = [i \in 0 .. n |-> IF i = 0 THEN db
                        ELSE IF Extracts(set, ob.refs[i]) THEN PutEdge(f[i - 1], ob, ob.refs[i])
                        ELSE f[i - 1]]

LEMMA PutsExist ==
  ASSUME NEW db, NEW ob, NEW set, NEW n \in Nat
  PROVE  \E f : Puts(f, n, db, ob, set)
<1> DEFINE Exists(m) == \E f : Puts(f, m, db, ob, set)
           T == {m \in Nat : ~Exists(m)}
<1>1. SUFFICES ASSUME T # {} PROVE FALSE
  OBVIOUS
<1>2. PICK m \in T : \A k \in T : m <= k
  BY <1>1, LeastNumber, Zenon
<1>3. CASE m = 0
  <2>1. Puts([i \in 0 .. 0 |-> db], 0, db, ob, set)
    BY DEF Puts
  <2> QED BY <1>3, <2>1
<1>4. CASE m # 0
  <2>1. m - 1 \in Nat /\ m - 1 \notin T
    BY <1>2, <1>4
  <2>2. PICK g : Puts(g, m - 1, db, ob, set)
    BY <2>1
  <2> DEFINE h == [i \in 0 .. m |-> IF i = m THEN PutOne(g[m - 1], ob, set, ob.refs[m]) ELSE g[i]]
  <2>3. \A i \in 0 .. (m - 1) : h[i] = g[i]
    BY <2>1
  <2>4. h[m] = PutOne(h[m - 1], ob, set, ob.refs[m])
    BY <2>1, <2>3
  <2>5. \A i \in 0 .. m : h[i] = IF i = 0 THEN db ELSE PutOne(h[i - 1], ob, set, ob.refs[i])
    <3> SUFFICES ASSUME NEW i \in 0 .. m
                 PROVE  h[i] = IF i = 0 THEN db ELSE PutOne(h[i - 1], ob, set, ob.refs[i])
      OBVIOUS
    <3>1. CASE i = m
      BY <1>4, <2>4, <3>1
    <3>2. CASE i # m
      <4>1. i \in 0 .. (m - 1)
        BY <3>2
      <4>2. g[i] = IF i = 0 THEN db ELSE PutOne(g[i - 1], ob, set, ob.refs[i])
        BY <2>2, <4>1 DEF Puts, PutOne
      <4>3. i # 0 => i - 1 \in 0 .. (m - 1)
        BY <4>1
      <4> HIDE DEF h
      <4> QED BY <2>3, <4>1, <4>2, <4>3
    <3> QED BY <3>1, <3>2
  <2>6. DOMAIN h = 0 .. m
    OBVIOUS
  <2>7. h = [i \in DOMAIN h |-> h[i]]
    OBVIOUS
  <2> HIDE DEF h
  <2>8. Puts(h, m, db, ob, set)
    BY <2>5, <2>6, <2>7 DEF Puts, PutOne
  <2> QED BY <2>8
<1> QED BY <1>3, <1>4

LEMMA PutEdgesIsLast ==
  ASSUME NEW db, NEW ob, NEW set, Len(ob.refs) \in Nat
  PROVE  \E f : Puts(f, Len(ob.refs), db, ob, set) /\ PutEdges(db, ob, set) = f[Len(ob.refs)]
<1> DEFINE F == CHOOSE f : Puts(f, Len(ob.refs), db, ob, set)
<1>1. Puts(F, Len(ob.refs), db, ob, set)
  BY PutsExist
<1>2. PutEdges(db, ob, set) = F[Len(ob.refs)]
  BY Zenon DEF PutEdges, Puts
<1> HIDE DEF F
<1> QED BY <1>1, <1>2

\* However many references there are, rows only grow.
LEMMA PutEdgesGrows ==
  ASSUME NEW db, IsTable(db.table), IsRows(db.objects), NEW ob \in Inputs, NEW set
  PROVE  Becomes(db, PutEdges(db, ob, set))
<1> DEFINE N == Len(ob.refs)
<1>1. N \in Nat
  <2>1. ob.refs \in Seq(ToSet(ob.refs))
    BY NamesAssumption
  <2> QED BY <2>1
<1>2. PICK f : Puts(f, N, db, ob, set) /\ PutEdges(db, ob, set) = f[N]
  BY <1>1, PutEdgesIsLast
<1> DEFINE T == {m \in 0 .. N : ~Becomes(db, f[m])}
<1>3. SUFFICES ASSUME T # {} PROVE FALSE
  BY <1>1, <1>2
<1>4. T \in SUBSET Nat
  BY <1>1
<1>5. PICK m \in T : \A k \in T : m <= k
  BY <1>3, <1>4, LeastNumber, Zenon
<1>6. m \in 0 .. N /\ ~Becomes(db, f[m])
  BY <1>5
<1>7. CASE m = 0
  <2>1. f[m] = db
    BY <1>2, <1>6, <1>7 DEF Puts
  <2> QED BY <1>6, <2>1, RowsGrow DEF Becomes
<1>8. CASE m # 0
  <2>1. m - 1 \in 0 .. N /\ ~(m <= m - 1)
    BY <1>1, <1>6, <1>8
  <2> DEFINE before == f[m - 1]
             ref    == ob.refs[m]
  <2>2. f[m] = PutOne(before, ob, set, ref)
    BY <1>2, <1>6, <1>8 DEF Puts, PutOne
  <2>3. Becomes(db, before)
    BY <1>5, <2>1
  <2> HIDE DEF before, ref
  <2>4. IsTable(before.table) /\ IsRows(before.objects)
    BY <2>3, GrowthIsRows DEF Becomes
  <2>5. Becomes(before, PutEdge(before, ob, ref))
    BY <2>4, PutEdgeGrows
  <2>6. CASE Extracts(set, ref)
    <3>1. f[m] = PutEdge(before, ob, ref)
      BY <2>2, <2>6 DEF PutOne
    <3> QED BY <1>6, <2>3, <2>5, <3>1, GrowthAddsUp DEF Becomes
  <2>7. CASE ~Extracts(set, ref)
    BY <1>6, <2>2, <2>3, <2>7 DEF PutOne
  <2> QED BY <2>6, <2>7
<1> QED BY <1>7, <1>8

--------------------------------------------------------------------------------
(* Documents.                                                                     *)

\* The observations that a chain lets through, and what is left of their documents.
Kept == {ob \in Inputs : ~Discarded(ChainOf(ob.type), ob.type, ob)}

Clean(ob) == Restrict(ob.doc, DOMAIN ob.doc \ Noise(ObjectKey(ob)))

Of(key) == {ob \in Kept : ObjectKey(ob) = key}

VersionsOf(key) == [doc : {Clean(ob) : ob \in Of(key)}, del : BOOLEAN]

\* A chain that takes out the noise leaves what is clean.
LEMMA FilteredIsClean ==
  ASSUME NEW ob \in Kept
  PROVE  Filtered(ChainOf(ob.type), ob.type, ob) = Clean(ob)
<1> DEFINE gone  == Removed(ChainOf(ob.type), ob.type, ob)
           noise == Noise(ObjectKey(ob))
<1>1. \A f \in DOMAIN ob.doc : f \in gone <=> f \in noise
  BY ChainsAssumption DEF Kept
<1>2. DOMAIN ob.doc \ gone = DOMAIN ob.doc \ noise
  BY <1>1
<1> HIDE DEF gone, noise
<1>3. Filtered(ChainOf(ob.type), ob.type, ob) = Restrict(ob.doc, DOMAIN ob.doc \ gone)
  BY DEF Filtered, gone
<1>4. Clean(ob) = Restrict(ob.doc, DOMAIN ob.doc \ noise)
  BY DEF Clean, noise
<1> QED BY <1>2, <1>3, <1>4

\* What is clean says what it is.
LEMMA CleanIsMeaning ==
  ASSUME NEW ob \in Kept
  PROVE  Meaning(ObjectKey(ob), Clean(ob)) = Clean(ob)
<1> DEFINE noise == Noise(ObjectKey(ob))
           fields == DOMAIN ob.doc \ noise
           clean == [x \in fields |-> ob.doc[x]]
<1>1. Clean(ob) = clean
  BY DEF Clean, Restrict
<1>2. Meaning(ObjectKey(ob), Clean(ob)) = [x \in DOMAIN clean \ noise |-> clean[x]]
  BY <1>1 DEF Meaning, Restrict
<1>3. DOMAIN clean \ noise = fields
  OBVIOUS
<1>4. [x \in fields |-> clean[x]] = clean
  OBVIOUS
<1> HIDE DEF noise, fields, clean
<1> QED BY <1>1, <1>2, <1>3, <1>4

\* Redaction changes nothing that a document says.
LEMMA RedactedSaysTheSame ==
  ASSUME NEW ob \in Kept
  PROVE  Meaning(ObjectKey(ob), Redacted(ob.type, ob.doc)) = Clean(ob)
<1> DEFINE key    == ObjectKey(ob)
           noise  == Noise(key)
           secret == ob.type.group = "" /\ ob.type.resource = "secrets"
           doc    == Redacted(ob.type, ob.doc)
<1>1. CASE secret
  <2>1. key.kind = "Secret"
    BY <1>1, NamesAssumption DEF ObjectKey, Key, Types, Kept
  <2>2. SecretPayload \subseteq noise
    BY <2>1 DEF Noise
  <2> DEFINE other == [f \in DOMAIN ob.doc |-> IF f \in SecretPayload THEN "redacted" ELSE ob.doc[f]]
  <2>3. doc = other
    BY <1>1 DEF Redacted
  <2> HIDE DEF noise
  <2>4. DOMAIN other = DOMAIN ob.doc /\ \A f \in DOMAIN ob.doc \ noise : other[f] = ob.doc[f]
    BY <2>2
  <2> HIDE DEF other
  <2>5. Restrict(other, DOMAIN other \ noise) = Restrict(ob.doc, DOMAIN ob.doc \ noise)
    BY <2>4 DEF Restrict
  <2> QED BY <2>3, <2>5, Zenon DEF Meaning, Clean, noise
<1>2. CASE ~secret
  <2>1. doc = ob.doc
    BY <1>2, Zenon DEF Redacted
  <2> QED BY <2>1, Zenon DEF Meaning, Clean
<1> QED BY <1>1, <1>2

--------------------------------------------------------------------------------
(* The inductive invariant.                                                       *)

Busy(w) == job[w].stage # Idle
KeyOf(w) == ObjectKey(job[w].ob)

\* What a worker carries: an observation that was let through, under its own type.
JobsFit ==
  /\ DOMAIN job = Watchers
  /\ \A w \in Watchers : Busy(w) =>
       /\ job[w].stage \in {"raw", "store"} /\ job[w].ob \in Kept
       /\ job[w] = [stage |-> job[w].stage, ob |-> job[w].ob, info |-> job[w].ob.type, doc |-> Clean(job[w].ob)]

\* A resource has one worker.
OneWorker ==
  \A v, w \in Watchers : Busy(v) /\ Busy(w) /\ v # w => job[v].ob.type # job[w].ob.type

KnownFits == AllFit(resolver) /\ ToSet(Standard) \subseteq ToSet(resolver) /\ IsTable(table)

\* The versions of a row are of its object, the raw document of one of its observations.
RowsFit == IsRows(objects) /\ \A key \in DOMAIN objects : objects[key].versions \in Seq(VersionsOf(key))

RawFits ==
  /\ DOMAIN raw \subseteq DOMAIN objects
  /\ \A key \in DOMAIN raw : \E ob \in Of(key) : raw[key] = Redacted(ob.type, ob.doc)

\* Between its two transactions an observation is the latest of its object.
IsWritten(ob, objs, docs) ==
  /\ ObjectKey(ob) \in DOMAIN objs
  /\ IF ob.del THEN ObjectKey(ob) \notin DOMAIN docs
     ELSE /\ objs[ObjectKey(ob)].deleted = FALSE
          /\ ObjectKey(ob) \in DOMAIN docs /\ docs[ObjectKey(ob)] = Redacted(ob.type, ob.doc)

RawIsWritten == \A w \in Watchers : job[w].stage = "store" => IsWritten(job[w].ob, objects, raw)

\* What is observed is not gone.
ObservedLives ==
  \A w \in Watchers : Busy(w) /\ KeyOf(w) \in DOMAIN objects =>
    \A i \in DOMAIN objects[KeyOf(w)].versions : ~objects[KeyOf(w)].versions[i].del

\* Versions in a row differ.
Differ(vs) == \A i \in 1 .. (Len(vs) - 1) : vs[i].del \/ vs[i + 1].del \/ vs[i].doc # vs[i + 1].doc
VersionsDiffer == \A key \in DOMAIN objects : Differ(objects[key].versions)

\* The parts of LatestSaysWhatRawSays.
Says(key) ==
  IF key \in DOMAIN raw
  THEN /\ objects[key].versions # <<>> /\ ~Last(objects[key].versions).del
       /\ Meaning(key, Last(objects[key].versions).doc) = Meaning(key, raw[key])
  ELSE objects[key].versions = <<>> \/ Last(objects[key].versions).del

Latest(key) ==
  \/ key \in torn
  \/ \E w \in Watchers : job[w].stage = "store" /\ ObjectKey(job[w].ob) = key
  \/ Says(key)

IngestInv ==
  /\ JobsFit /\ OneWorker /\ KnownFits /\ RowsFit /\ RawFits /\ RawIsWritten
  /\ ObservedLives /\ VersionsDiffer /\ LatestSaysWhatRawSays

\* Two workers have two objects.
LEMMA KeysDiffer ==
  ASSUME JobsFit, OneWorker, NEW v \in Watchers, NEW w \in Watchers, Busy(v), Busy(w), v # w
  PROVE  KeyOf(v) # KeyOf(w)
<1> DEFINE a == job[v].ob.type
           b == job[w].ob.type
<1>1. a \in Types /\ b \in Types /\ a # b
  BY DEF JobsFit, OneWorker, Kept, Types
<1>2. ~(a.group = b.group /\ a.version = b.version /\ a.kind = b.kind)
  BY <1>1, NamesAssumption
<1> QED BY <1>2 DEF KeyOf, ObjectKey, Key

\* The pipeline starts with it.
LEMMA IngestInvHoldsAtFirst ==
  IngestInit => IngestInv
<1> SUFFICES ASSUME IngestInit PROVE IngestInv
  OBVIOUS
<1>1. JobsFit /\ OneWorker /\ RawIsWritten /\ ObservedLives
  <2>1. DOMAIN job = Watchers /\ \A w \in Watchers : job[w].stage = Idle
    BY DEF IngestInit
  <2> QED BY <2>1 DEF JobsFit, OneWorker, RawIsWritten, ObservedLives, Busy, Idle
<1>2. KnownFits
  <2>1. resolver = Standard /\ AllFit(Standard)
    BY StandardFits DEF IngestInit
  <2>2. IsTable(table)
    <3> DEFINE rows == [i \in DOMAIN Discovered |-> [info |-> Discovered[i], preferred |-> TRUE]]
    <3>1. table = rows
      BY DEF IngestInit
    <3>2. Discovered \in Seq(Infos)
      BY NamesAssumption
    <3>3. DOMAIN rows = 1 .. Len(Discovered) /\ Len(Discovered) \in Nat
      BY <3>2
    <3>4. \A i \in DOMAIN rows : rows[i] = [info |-> Discovered[i], preferred |-> TRUE]
      OBVIOUS
    <3>5. \A i \in DOMAIN rows : Fits(Discovered[i])
      BY LearnableFits DEF Learnable, ToSet
    <3>6. rows = [i \in 1 .. Len(Discovered) |-> rows[i]]
      BY <3>3
    <3> HIDE DEF rows
    <3>7. IsSequence(rows)
      <4>1. \A i \in 1 .. Len(Discovered) : rows[i] \in ToSet(rows)
        BY <3>3 DEF ToSet
      <4> QED BY <3>3, <3>6, <4>1 DEF IsSequence
    <3> QED BY <3>1, <3>4, <3>5, <3>7 DEF IsTable
  <2> QED BY <2>1, <2>2 DEF KnownFits
<1>3. RowsFit /\ RawFits /\ VersionsDiffer /\ LatestSaysWhatRawSays
  <2>1. DOMAIN objects = {} /\ DOMAIN raw = {}
    BY DEF IngestInit
  <2> QED BY <2>1 DEF RowsFit, IsRows, RawFits, VersionsDiffer, LatestSaysWhatRawSays
<1> QED BY <1>1, <1>2, <1>3 DEF IngestInv

\* A worker that goes on to nothing, or to the next transaction of its observation,
\* leaves the others their observations.
LEMMA JobsGoOn ==
  ASSUME JobsFit, OneWorker, NEW w \in Watchers, NEW stage \in {"raw", "store"}, Busy(w),
         \/ job' = [job EXCEPT ![w] = [stage |-> Idle]]
         \/ job' = [job EXCEPT ![w].stage = stage]
  PROVE  JobsFit' /\ OneWorker'
<1> DEFINE same(v) == job'[v] = [stage |-> stage, ob |-> job[w].ob, info |-> job[w].ob.type, doc |-> Clean(job[w].ob)]
<1>1. DOMAIN job' = Watchers /\ \A v \in Watchers : v # w => job'[v] = job[v]
  BY DEF JobsFit
<1>2. job'[w].stage = Idle \/ same(w)
  BY DEF JobsFit
<1>3. ASSUME NEW v \in Watchers, Busy(v)'
      PROVE  /\ job'[v].stage \in {"raw", "store"} /\ job'[v].ob \in Kept
             /\ job'[v] = [stage |-> job'[v].stage, ob |-> job'[v].ob,
                           info |-> job'[v].ob.type, doc |-> Clean(job'[v].ob)]
             /\ Busy(v) /\ job'[v].ob = job[v].ob
  <2>1. CASE v = w
    <3>1. same(w) /\ job[w].ob \in Kept
      BY <1>2, <1>3, <2>1 DEF Busy, JobsFit
    <3> QED BY <2>1, <3>1
  <2>2. CASE v # w
    <3>1. job'[v] = job[v]
      BY <1>1, <2>2
    <3>2. Busy(v)
      BY <1>3, <3>1 DEF Busy
    <3> QED BY <3>1, <3>2 DEF JobsFit
  <2> QED BY <2>1, <2>2
<1> HIDE DEF same
<1>4. JobsFit'
  BY <1>1, <1>3 DEF JobsFit
<1>5. OneWorker'
  <2> SUFFICES ASSUME NEW a \in Watchers, NEW b \in Watchers, Busy(a)', Busy(b)', a # b
               PROVE  job'[a].ob.type # job'[b].ob.type
    BY DEF OneWorker
  <2>1. Busy(a) /\ job'[a].ob = job[a].ob
    BY <1>3
  <2>2. Busy(b) /\ job'[b].ob = job[b].ob
    BY <1>3
  <2>3. job[a].ob.type # job[b].ob.type
    BY <2>1, <2>2 DEF OneWorker
  <2> QED BY <2>1, <2>2, <2>3
<1> QED BY <1>4, <1>5

\* What is known when an observation is decoded.
LEMMA LearnedFits ==
  ASSUME KnownFits, NEW ob \in Inputs
  PROVE  AllFit(Learned(FromTable, ob)) /\ ToSet(Standard) \subseteq ToSet(Learned(FromTable, ob))
<1> DEFINE infos == [i \in DOMAIN table |-> table[i].info]
           N     == Len(table)
<1>1. N \in Nat /\ DOMAIN table = 1 .. N /\ \A i \in 1 .. N : Fits(table[i].info)
  BY DEF KnownFits, IsTable, IsSequence
<1>2. AllFit(infos)
  <2>1. infos = [i \in 1 .. N |-> infos[i]] /\ \A i \in 1 .. N : infos[i] = table[i].info
    BY <1>1
  <2>2. DOMAIN infos = 1 .. N
    BY <1>1
  <2> HIDE DEF infos
  <2>3. \A i \in 1 .. N : infos[i] \in ToSet(infos)
    BY <2>2 DEF ToSet
  <2>4. IsSequence(infos)
    BY <1>1, <2>1, <2>3 DEF IsSequence
  <2>5. \A info \in ToSet(infos) : Fits(info)
    BY <1>1, <2>1, <2>2 DEF ToSet
  <2> QED BY <2>4, <2>5 DEF AllFit
<1> DEFINE r == Register(resolver, infos)
<1>3. AllFit(resolver) /\ ToSet(Standard) \subseteq ToSet(resolver) /\ AllFit(ob.defines)
  BY StandardFits DEF KnownFits
<1> HIDE DEF infos
<1>4. IsSequence(r) /\ ToSet(resolver) \subseteq ToSet(r) /\ ToSet(r) \subseteq ToSet(resolver) \cup ToSet(infos)
  BY <1>2, <1>3, RegisterAdds DEF AllFit
<1> HIDE DEF r
<1> DEFINE q == Register(r, ob.defines)
<1>5. IsSequence(q) /\ ToSet(r) \subseteq ToSet(q) /\ ToSet(q) \subseteq ToSet(r) \cup ToSet(ob.defines)
  BY <1>3, <1>4, RegisterAdds DEF AllFit
<1>6. Learned(FromTable, ob) = q
  BY Zenon DEF Learned, FromTable, q, r, infos
<1> HIDE DEF q
<1>7. \A info \in ToSet(q) : Fits(info)
  BY <1>2, <1>3, <1>4, <1>5 DEF AllFit
<1> QED BY <1>3, <1>4, <1>5, <1>6, <1>7 DEF AllFit

\* Decoding gives a worker an observation that its chain lets through, with what the
\* chain leaves of its document.
LEMMA DecodeKeepsInv ==
  ASSUME IngestInv, NEW w \in Watchers, NEW ob \in Inputs, Decode(w, FromTable, ob)
  PROVE  IngestInv'
<1>1. AllFit(Learned(FromTable, ob)) /\ ToSet(Standard) \subseteq ToSet(Learned(FromTable, ob))
  BY LearnedFits DEF IngestInv
<1>2. InfoOf(Learned(FromTable, ob), ob) = ob.type
  BY <1>1, InfoIsType
<1> DEFINE chain == ChainOf(ob.type)
           taken == [stage |-> "raw", ob |-> ob, info |-> ob.type, doc |-> Filtered(chain, ob.type, ob)]
<1>3. /\ NotGone(ob) /\ job[w].stage = Idle
      /\ \A v \in Watchers : Busy(v) => job[v].ob.type # ob.type
      /\ resolver' = Learned(FromTable, ob)
      /\ job' = [job EXCEPT ![w] = IF Discarded(chain, ob.type, ob) THEN [stage |-> Idle] ELSE taken]
      /\ UNCHANGED <<table, objects, raw, edges, torn>>
  BY <1>2, Zenon DEF Decode, Busy
<1>4. /\ DOMAIN job' = Watchers /\ \A v \in Watchers : v # w => job'[v] = job[v]
      /\ ~Busy(w)
      /\ \/ job'[w] = [stage |-> Idle]
         \/ /\ ob \in Kept
            /\ job'[w] = [stage |-> "raw", ob |-> ob, info |-> ob.type, doc |-> Clean(ob)]
  <2>1. DOMAIN job = Watchers
    BY DEF IngestInv, JobsFit
  <2>2. CASE Discarded(chain, ob.type, ob)
    <3>1. job' = [job EXCEPT ![w] = [stage |-> Idle]]
      BY <1>3, <2>2, Zenon
    <3> QED BY <1>3, <2>1, <3>1 DEF Busy
  <2>3. CASE ~Discarded(chain, ob.type, ob)
    <3>1. ob \in Kept
      BY <2>3 DEF Kept
    <3>2. taken = [stage |-> "raw", ob |-> ob, info |-> ob.type, doc |-> Clean(ob)]
      BY <3>1, FilteredIsClean
    <3>3. job' = [job EXCEPT ![w] = taken]
      BY <1>3, <2>3, Zenon
    <3> HIDE DEF taken
    <3> QED BY <1>3, <2>1, <3>1, <3>2, <3>3 DEF Busy
  <2> QED BY <2>2, <2>3
<1>5. ASSUME NEW v \in Watchers, Busy(v)'
      PROVE  \/ v # w /\ job'[v] = job[v] /\ Busy(v)
             \/ v = w /\ ob \in Kept /\ job'[w] = [stage |-> "raw", ob |-> ob, info |-> ob.type, doc |-> Clean(ob)]
  BY <1>4, <1>5 DEF Busy
<1>6. JobsFit'
  <2> SUFFICES ASSUME NEW v \in Watchers, Busy(v)'
               PROVE  /\ job'[v].stage \in {"raw", "store"} /\ job'[v].ob \in Kept
                      /\ job'[v] = [stage |-> job'[v].stage, ob |-> job'[v].ob,
                                    info |-> job'[v].ob.type, doc |-> Clean(job'[v].ob)]
    BY <1>4 DEF JobsFit
  <2>1. CASE v # w
    <3>1. job'[v] = job[v] /\ Busy(v)
      BY <1>5, <2>1
    <3> QED BY <3>1 DEF IngestInv, JobsFit
  <2>2. CASE v = w
    BY <1>5, <2>2
  <2> QED BY <2>1, <2>2
<1>7. OneWorker'
  BY <1>3, <1>5 DEF IngestInv, OneWorker
<1>8. KnownFits'
  BY <1>1, <1>3 DEF IngestInv, KnownFits
<1>9. RowsFit' /\ RawFits' /\ VersionsDiffer'
  BY <1>3 DEF IngestInv, RowsFit, IsRows, RawFits, VersionsDiffer
<1>10. ASSUME NEW v \in Watchers, job'[v].stage = "store"
       PROVE  v # w /\ job'[v] = job[v] /\ Busy(v)
  BY <1>5, <1>10 DEF Busy, Idle
<1>11. RawIsWritten'
  <2> SUFFICES ASSUME NEW v \in Watchers, job'[v].stage = "store"
               PROVE  IsWritten(job[v].ob, objects, raw)
    BY <1>3, <1>10 DEF RawIsWritten
  <2> QED BY <1>10 DEF IngestInv, RawIsWritten
<1>12. ObservedLives'
  <2> SUFFICES ASSUME NEW v \in Watchers, Busy(v)', KeyOf(v)' \in DOMAIN objects
               PROVE  \A i \in DOMAIN objects[KeyOf(v)'].versions : ~objects[KeyOf(v)'].versions[i].del
    BY <1>3 DEF ObservedLives
  <2>1. CASE v # w
    <3>1. Busy(v) /\ KeyOf(v)' = KeyOf(v)
      BY <1>5, <2>1 DEF KeyOf
    <3> QED BY <3>1 DEF IngestInv, ObservedLives
  <2>2. CASE v = w
    <3>1. KeyOf(v)' = ObjectKey(ob)
      BY <1>5, <2>2 DEF KeyOf
    <3> QED BY <1>3, <3>1 DEF NotGone, ToSet
  <2> QED BY <2>1, <2>2
<1>13. LatestSaysWhatRawSays'
  <2> SUFFICES ASSUME NEW key \in DOMAIN objects PROVE Latest(key)'
    BY <1>3 DEF LatestSaysWhatRawSays, Latest, Says
  <2>1. CASE \E v \in Watchers : job[v].stage = "store" /\ ObjectKey(job[v].ob) = key
    <3>1. PICK v \in Watchers : job[v].stage = "store" /\ ObjectKey(job[v].ob) = key
      BY <2>1
    <3>2. v # w
      BY <1>3, <3>1 DEF Idle
    <3> QED BY <1>4, <3>1, <3>2 DEF Latest
  <2>2. CASE ~ \E v \in Watchers : job[v].stage = "store" /\ ObjectKey(job[v].ob) = key
    <3>1. key \in torn \/ Says(key)
      BY <2>2 DEF IngestInv, LatestSaysWhatRawSays, Says
    <3> QED BY <1>3, <3>1 DEF Latest, Says
  <2> QED BY <2>1, <2>2
<1> QED BY <1>6, <1>7, <1>8, <1>9, <1>11, <1>12, <1>13 DEF IngestInv

\* The row of an object that is observed.
Observes(objs, key, del, more) ==
  /\ DOMAIN more = DOMAIN objs \cup {key}
  /\ \A k \in DOMAIN objs : k # key => more[k] = objs[k]
  /\ more[key].deleted = del
  /\ more[key] = [deleted |-> more[key].deleted, versions |-> more[key].versions]
  /\ more[key].versions = IF key \in DOMAIN objs THEN objs[key].versions ELSE <<>>

LEMMA EnsuredObserves ==
  ASSUME NEW objs, NEW key, NEW del
  PROVE  Observes(objs, key, del, Ensured(objs, key, del))
<1> DEFINE row  == [deleted  |-> del,
                    versions |-> (IF key \in DOMAIN objs THEN objs[key] ELSE NewObject).versions]
           grown == [k \in DOMAIN objs \cup {key} |-> IF k = key THEN row ELSE objs[k]]
<1>1. Ensured(objs, key, del) = grown
  BY DEF Ensured, With
<1>2. row.deleted = del /\ row.versions = (IF key \in DOMAIN objs THEN objs[key].versions ELSE <<>>)
      /\ row = [deleted |-> row.deleted, versions |-> row.versions]
  BY DEF NewObject
<1> HIDE DEF row
<1>3. DOMAIN grown = DOMAIN objs \cup {key} /\ grown[key] = row
      /\ \A k \in DOMAIN objs : k # key => grown[k] = objs[k]
  OBVIOUS
<1> HIDE DEF grown
<1> QED BY <1>1, <1>2, <1>3 DEF Observes

\* The first transaction makes the raw document that of the observation, and marks
\* the row; the versions come with the second.
LEMMA PutRawLatestKeepsInv ==
  ASSUME IngestInv, NEW w \in Watchers, PutRawLatest(w)
  PROVE  IngestInv'
<1> DEFINE ob  == job[w].ob
           key == ObjectKey(ob)
<1>1. /\ job[w].stage = "raw" /\ Busy(w) /\ KeyOf(w) = key
      /\ ob \in Kept /\ ob \in Inputs /\ job[w].info = ob.type /\ ob.del \in BOOLEAN
  <2>1. job[w].stage = "raw" /\ Busy(w)
    BY DEF PutRawLatest, Busy, Idle
  <2>2. ob \in Kept /\ job[w].info = ob.type
    BY <2>1 DEF IngestInv, JobsFit
  <2>3. ob \in Inputs
    BY <2>2 DEF Kept
  <2>4. ob.del \in BOOLEAN
    BY <2>3, NamesAssumption
  <2> QED BY <2>1, <2>2, <2>3, <2>4 DEF KeyOf
<1>2. /\ table' = EnsureKind(table, ob.type, ob.ns)
      /\ objects' = Ensured(objects, key, ob.del)
      /\ raw' = IF ob.del THEN Restrict(raw, DOMAIN raw \ {key})
                ELSE With(raw, key, Redacted(ob.type, ob.doc))
      /\ job' = [job EXCEPT ![w].stage = "store"]
      /\ UNCHANGED <<resolver, torn>>
  BY <1>1 DEF PutRawLatest
<1>3. JobsFit' /\ OneWorker'
  BY <1>1, <1>2, JobsGoOn DEF IngestInv
<1>4. /\ \A v \in Watchers : v # w => job'[v] = job[v]
      /\ job'[w].stage = "store" /\ job'[w].ob = ob
  BY <1>1, <1>2 DEF IngestInv, JobsFit
<1>5. /\ DOMAIN objects' = DOMAIN objects \cup {key}
      /\ \A k \in DOMAIN objects : k # key => objects'[k] = objects[k]
      /\ objects'[key].deleted = ob.del
      /\ objects'[key] = [deleted |-> objects'[key].deleted, versions |-> objects'[key].versions]
      /\ objects'[key].versions = IF key \in DOMAIN objects THEN objects[key].versions ELSE <<>>
  <2>1. Observes(objects, key, ob.del, objects')
    BY <1>2, EnsuredObserves, Zenon
  <2> HIDE DEF key, ob
  <2> QED BY <2>1 DEF Observes
<1>6. /\ DOMAIN raw' = IF ob.del THEN DOMAIN raw \ {key} ELSE DOMAIN raw \cup {key}
      /\ \A k \in DOMAIN raw : k # key => raw'[k] = raw[k]
      /\ ~ob.del => raw'[key] = Redacted(ob.type, ob.doc)
  <2>1. CASE ob.del
    <3>1. raw' = [k \in DOMAIN raw \ {key} |-> raw[k]]
      BY <1>2, <2>1 DEF Restrict
    <3> QED BY <2>1, <3>1
  <2>2. CASE ~ob.del
    <3> DEFINE doc == Redacted(ob.type, ob.doc)
    <3>1. raw' = [k \in DOMAIN raw \cup {key} |-> IF k = key THEN doc ELSE raw[k]]
      BY <1>2, <2>2 DEF With
    <3> HIDE DEF doc
    <3>2. DOMAIN raw' = DOMAIN raw \cup {key} /\ raw'[key] = doc /\ \A k \in DOMAIN raw : k # key => raw'[k] = raw[k]
      BY <3>1
    <3> QED BY <2>2, <3>2 DEF doc
  <2> QED BY <2>1, <2>2
<1>7. \A v \in Watchers : v # w /\ Busy(v)' => /\ Busy(v) /\ KeyOf(v) # key /\ KeyOf(v)' = KeyOf(v)
  <2> SUFFICES ASSUME NEW v \in Watchers, v # w, Busy(v)'
               PROVE  Busy(v) /\ KeyOf(v) # key /\ KeyOf(v)' = KeyOf(v)
    OBVIOUS
  <2>1. job'[v] = job[v]
    BY <1>4
  <2>2. Busy(v) /\ KeyOf(v)' = KeyOf(v)
    BY <2>1 DEF Busy, KeyOf
  <2>3. KeyOf(v) # KeyOf(w)
    BY <1>1, <2>2, KeysDiffer DEF IngestInv
  <2> QED BY <1>1, <2>2, <2>3
<1> HIDE DEF ob, key
<1>8. KnownFits'
  <2>1. ob.type \in Learnable
    BY <1>1 DEF Learnable, Types
  <2>2. Fits(ob.type)
    BY <2>1, LearnableFits
  <2>3. IsTable(table')
    BY <1>2, <2>2, EnsureKindKeepsTable DEF IngestInv, KnownFits
  <2> QED BY <1>2, <2>3 DEF IngestInv, KnownFits
<1>9. RowsFit' /\ VersionsDiffer'
  <2>1. ASSUME NEW k \in DOMAIN objects'
        PROVE  /\ objects'[k] = [deleted |-> objects'[k].deleted, versions |-> objects'[k].versions]
               /\ \/ objects'[k].versions = <<>>
                  \/ k \in DOMAIN objects /\ objects'[k].versions = objects[k].versions
    <3>1. CASE k = key
      BY <1>5, <3>1
    <3>2. CASE k # key
      <4>1. k \in DOMAIN objects /\ objects'[k] = objects[k]
        BY <1>5, <3>2
      <4> QED BY <4>1 DEF IngestInv, RowsFit, IsRows
    <3> QED BY <3>1, <3>2
  <2>2. ASSUME NEW k \in DOMAIN objects'
        PROVE  objects'[k].versions \in Seq(VersionsOf(k)) /\ Differ(objects'[k].versions)
    <3>1. CASE objects'[k].versions = <<>>
      BY <3>1 DEF Differ
    <3>2. CASE k \in DOMAIN objects /\ objects'[k].versions = objects[k].versions
      BY <3>2 DEF IngestInv, RowsFit, VersionsDiffer
    <3> QED BY <2>1, <3>1, <3>2
  <2>3. RowsFit'
    BY <2>1, <2>2 DEF RowsFit, IsRows
  <2> QED BY <2>2, <2>3 DEF VersionsDiffer
<1>10. RawFits'
  <2>1. ASSUME NEW k \in DOMAIN raw' PROVE \E o \in Of(k) : raw'[k] = Redacted(o.type, o.doc)
    <3>1. CASE k = key
      <4>1. ~ob.del /\ raw'[k] = Redacted(ob.type, ob.doc)
        BY <1>1, <1>6, <3>1
      <4>2. ob \in Of(k)
        BY <1>1, <3>1 DEF Of, key
      <4> QED BY <4>1, <4>2
    <3>2. CASE k # key
      <4>1. k \in DOMAIN raw /\ raw'[k] = raw[k]
        BY <1>1, <1>6, <3>2
      <4> QED BY <4>1 DEF IngestInv, RawFits
    <3> QED BY <3>1, <3>2
  <2>2. DOMAIN raw' \subseteq DOMAIN objects'
    BY <1>1, <1>5, <1>6 DEF IngestInv, RawFits
  <2> QED BY <2>1, <2>2 DEF RawFits
<1>11. RawIsWritten'
  <2> SUFFICES ASSUME NEW v \in Watchers, job'[v].stage = "store"
               PROVE  IsWritten(job'[v].ob, objects', raw')
    BY DEF RawIsWritten
  <2>1. CASE v = w
    BY <1>1, <1>4, <1>5, <1>6, <2>1 DEF IsWritten, key
  <2>2. CASE v # w
    <3>1. job'[v] = job[v] /\ Busy(v) /\ ObjectKey(job[v].ob) # key
      BY <1>4, <1>7, <2>2 DEF Busy, Idle, KeyOf
    <3>2. IsWritten(job[v].ob, objects, raw)
      BY <3>1 DEF IngestInv, RawIsWritten
    <3> QED BY <1>5, <1>6, <3>1, <3>2 DEF IsWritten
  <2> QED BY <2>1, <2>2
<1>12. ObservedLives'
  <2> SUFFICES ASSUME NEW v \in Watchers, Busy(v)', KeyOf(v)' \in DOMAIN objects'
               PROVE  \A i \in DOMAIN objects'[KeyOf(v)'].versions : ~objects'[KeyOf(v)'].versions[i].del
    BY DEF ObservedLives
  <2>1. CASE v = w
    <3>1. KeyOf(v)' = key /\ KeyOf(w) = key
      BY <1>1, <1>4, <2>1 DEF KeyOf, key
    <3>2. CASE key \in DOMAIN objects
      BY <1>1, <1>5, <3>1, <3>2 DEF IngestInv, ObservedLives
    <3>3. CASE key \notin DOMAIN objects
      BY <1>5, <3>1, <3>3
    <3> QED BY <3>2, <3>3
  <2>2. CASE v # w
    <3>1. Busy(v) /\ KeyOf(v) # key /\ KeyOf(v)' = KeyOf(v)
      BY <1>7, <2>2
    <3>2. KeyOf(v) \in DOMAIN objects /\ objects'[KeyOf(v)] = objects[KeyOf(v)]
      BY <1>5, <3>1
    <3> QED BY <3>1, <3>2 DEF IngestInv, ObservedLives
  <2> QED BY <2>1, <2>2
<1>13. LatestSaysWhatRawSays'
  <2> SUFFICES ASSUME NEW k \in DOMAIN objects' PROVE Latest(k)'
    BY DEF LatestSaysWhatRawSays, Latest, Says
  <2>1. CASE k = key
    BY <1>4, <2>1 DEF Latest, key
  <2>2. CASE k # key
    <3>1. k \in DOMAIN objects /\ objects'[k] = objects[k]
      BY <1>5, <2>2
    <3>2. Latest(k)
      BY <3>1 DEF IngestInv, LatestSaysWhatRawSays, Latest, Says
    <3>3. (k \in DOMAIN raw' <=> k \in DOMAIN raw) /\ (k \in DOMAIN raw => raw'[k] = raw[k])
      BY <1>1, <1>6, <2>2
    <3>4. CASE \E v \in Watchers : job[v].stage = "store" /\ ObjectKey(job[v].ob) = k
      <4>1. PICK v \in Watchers : job[v].stage = "store" /\ ObjectKey(job[v].ob) = k
        BY <3>4
      <4>2. v # w
        BY <1>1, <4>1
      <4> QED BY <1>4, <4>1, <4>2 DEF Latest
    <3>5. CASE Says(k)
      BY <3>1, <3>3, <3>5 DEF Latest, Says
    <3>6. CASE k \in torn
      BY <1>2, <3>6 DEF Latest
    <3> QED BY <3>2, <3>4, <3>5, <3>6 DEF Latest
  <2> QED BY <2>1, <2>2
<1> QED BY <1>3, <1>8, <1>9, <1>10, <1>11, <1>12, <1>13 DEF IngestInv

\* A transaction that fails leaves what is stored, and the object torn if its first
\* one was made.
LEMMA FailKeepsInv ==
  ASSUME IngestInv, NEW w \in Watchers, Fail(w)
  PROVE  IngestInv'
<1>1. /\ Busy(w) /\ job' = [job EXCEPT ![w] = [stage |-> Idle]]
      /\ torn' = IF job[w].stage = "store" THEN torn \cup {ObjectKey(job[w].ob)} ELSE torn
      /\ UNCHANGED <<resolver, table, objects, raw>>
  BY DEF Fail, Busy
<1>2. JobsFit' /\ OneWorker'
  BY <1>1, JobsGoOn DEF IngestInv
<1>3. DOMAIN job = Watchers /\ job'[w].stage = Idle /\ \A v \in Watchers : v # w => job'[v] = job[v]
  BY <1>1 DEF IngestInv, JobsFit
<1>4. KnownFits' /\ RowsFit' /\ RawFits' /\ VersionsDiffer'
  BY <1>1 DEF IngestInv, KnownFits, RowsFit, IsRows, RawFits, VersionsDiffer
<1>5. ASSUME NEW v \in Watchers, Busy(v)' PROVE v # w /\ job'[v] = job[v] /\ Busy(v)
  BY <1>3, <1>5 DEF Busy
<1>6. RawIsWritten'
  <2> SUFFICES ASSUME NEW v \in Watchers, job'[v].stage = "store"
               PROVE  IsWritten(job'[v].ob, objects, raw)
    BY <1>1 DEF RawIsWritten
  <2>1. job'[v] = job[v]
    BY <1>5 DEF Busy, Idle
  <2> QED BY <2>1 DEF IngestInv, RawIsWritten
<1>7. ObservedLives'
  <2> SUFFICES ASSUME NEW v \in Watchers, Busy(v)', KeyOf(v)' \in DOMAIN objects
               PROVE  \A i \in DOMAIN objects[KeyOf(v)'].versions : ~objects[KeyOf(v)'].versions[i].del
    BY <1>1 DEF ObservedLives
  <2>1. Busy(v) /\ KeyOf(v)' = KeyOf(v)
    BY <1>5 DEF KeyOf
  <2> QED BY <2>1 DEF IngestInv, ObservedLives
<1>8. LatestSaysWhatRawSays'
  <2> SUFFICES ASSUME NEW k \in DOMAIN objects PROVE Latest(k)'
    BY <1>1 DEF LatestSaysWhatRawSays, Latest, Says
  <2>1. Latest(k)
    BY DEF IngestInv, LatestSaysWhatRawSays, Latest, Says
  <2>2. CASE \E v \in Watchers : job[v].stage = "store" /\ ObjectKey(job[v].ob) = k
    <3>1. PICK v \in Watchers : job[v].stage = "store" /\ ObjectKey(job[v].ob) = k
      BY <2>2
    <3>2. CASE v = w
      BY <1>1, <3>1, <3>2 DEF Latest
    <3>3. CASE v # w
      BY <1>3, <3>1, <3>3 DEF Latest
    <3> QED BY <3>2, <3>3
  <2>3. CASE Says(k)
    BY <1>1, <2>3 DEF Latest, Says
  <2>4. CASE k \in torn
    BY <1>1, <2>4 DEF Latest
  <2> QED BY <2>1, <2>2, <2>3, <2>4 DEF Latest
<1> QED BY <1>2, <1>4, <1>6, <1>7, <1>8 DEF IngestInv

\* The second transaction gives the row of its object its versions, and makes rows for
\* the targets of its edges.
Stores(objs, more, key, history) ==
  /\ DOMAIN objs \subseteq DOMAIN more /\ IsRows(more)
  /\ key \in DOMAIN more /\ more[key].versions = history
  /\ \A k \in DOMAIN more : k # key =>
       /\ more[k].versions = IF k \in DOMAIN objs THEN objs[k].versions ELSE <<>>
       /\ \/ more[k].deleted = FALSE
          \/ k \in DOMAIN objs /\ more[k].deleted = objs[k].deleted

LEMMA WithEdgesStores ==
  ASSUME NEW objs, IsRows(objs), NEW key, NEW del, NEW history, NEW known, IsTable(known), NEW es,
         NEW ob \in Inputs, NEW set,
         NEW begun, begun = [table |-> known, edges |-> es,
                           objects |-> With(objs, key, [deleted |-> del, versions |-> history])]
  PROVE  /\ IsTable(PutEdges(begun, ob, set).table)
         /\ Stores(objs, PutEdges(begun, ob, set).objects, key, history)
<1> DEFINE row    == [deleted |-> del, versions |-> history]
           stored == With(objs, key, row)
           more   == PutEdges(begun, ob, set)
<1>1. begun.table = known /\ begun.objects = stored
  OBVIOUS
<1>2. row.versions = history /\ row = [deleted |-> row.deleted, versions |-> row.versions]
  OBVIOUS
<1> HIDE DEF row
<1>3. DOMAIN stored = DOMAIN objs \cup {key} /\ stored[key] = row /\ \A k \in DOMAIN objs : k # key => stored[k] = objs[k]
  BY DEF With
<1> HIDE DEF stored
<1>4. IsRows(stored)
  <2> SUFFICES ASSUME NEW k \in DOMAIN stored
               PROVE  stored[k] = [deleted |-> stored[k].deleted, versions |-> stored[k].versions]
    BY DEF IsRows
  <2>1. CASE k = key
    BY <1>2, <1>3, <2>1
  <2>2. CASE k # key
    BY <1>3, <2>2 DEF IsRows
  <2> QED BY <2>1, <2>2
<1>5. Becomes(begun, more)
  BY <1>1, <1>4, PutEdgesGrows
<1> HIDE DEF more
<1>6. IsTable(more.table) /\ Grows(stored, more.objects)
  BY <1>1, <1>5 DEF Becomes
<1>7. IsRows(more.objects)
  BY <1>6, GrowthIsRows
<1>8. key \in DOMAIN more.objects /\ more.objects[key].versions = history
  BY <1>2, <1>3, <1>6 DEF Grows
<1>9. DOMAIN objs \subseteq DOMAIN more.objects
  BY <1>3, <1>6 DEF Grows
<1>10. ASSUME NEW k \in DOMAIN more.objects, k # key
       PROVE  /\ more.objects[k].versions = IF k \in DOMAIN objs THEN objs[k].versions ELSE <<>>
              /\ \/ more.objects[k].deleted = FALSE
                 \/ k \in DOMAIN objs /\ more.objects[k].deleted = objs[k].deleted
  BY <1>3, <1>6, <1>10 DEF Grows
<1>11. Stores(objs, more.objects, key, history)
  BY <1>7, <1>8, <1>9, <1>10 DEF Stores
<1> QED BY <1>6, <1>11 DEF more

LEMMA NothingNewStores ==
  ASSUME NEW objs, IsRows(objs), NEW key \in DOMAIN objs
  PROVE  Stores(objs, objs, key, objs[key].versions)
BY DEF Stores

\* One more version.
LEMMA OneMore ==
  ASSUME NEW S, NEW vs \in Seq(S), NEW v \in S
  PROVE  /\ Append(vs, v) \in Seq(S) /\ Append(vs, v) # <<>> /\ Last(Append(vs, v)) = v
         /\ Len(Append(vs, v)) = Len(vs) + 1 /\ Len(vs) \in Nat
         /\ Append(vs, v)[Len(vs) + 1] = v
         /\ \A i \in 1 .. Len(vs) : Append(vs, v)[i] = vs[i]
BY DEF Last

LEMMA DifferOneMore ==
  ASSUME NEW S, NEW vs \in Seq(S), NEW v \in S, Differ(vs),
         vs = <<>> \/ v.del \/ Last(vs).doc # v.doc
  PROVE  Differ(Append(vs, v))
<1> DEFINE more == Append(vs, v)
<1>1. /\ Len(more) = Len(vs) + 1 /\ Len(vs) \in Nat /\ more[Len(vs) + 1] = v
      /\ \A i \in 1 .. Len(vs) : more[i] = vs[i]
  BY OneMore
<1> HIDE DEF more
<1> SUFFICES ASSUME NEW i \in 1 .. (Len(more) - 1)
             PROVE  more[i].del \/ more[i + 1].del \/ more[i].doc # more[i + 1].doc
  BY DEF Differ, more
<1>2. CASE i = Len(vs)
  <2>1. vs # <<>> /\ more[i] = Last(vs) /\ more[i + 1] = v
    BY <1>1, <1>2 DEF Last
  <2> QED BY <2>1
<1>3. CASE i # Len(vs)
  <2>1. i \in 1 .. (Len(vs) - 1) /\ i \in 1 .. Len(vs) /\ i + 1 \in 1 .. Len(vs)
    BY <1>1, <1>3
  <2>2. more[i] = vs[i] /\ more[i + 1] = vs[i + 1]
    BY <1>1, <2>1
  <2> QED BY <2>1, <2>2 DEF Differ
<1> QED BY <1>2, <1>3

\* What the second transaction does to the rows, whichever branch it takes.
Stored(w, history) ==
  /\ Stores(objects, objects', KeyOf(w), history)
  /\ IsTable(table')

TakenVersion(w) == [doc |-> Clean(job[w].ob), del |-> job[w].ob.del]

LEMMA StoreObservationStores ==
  ASSUME IngestInv, NEW w \in Watchers, StoreObservation(w), job[w].ob \in Kept
  PROVE  LET old == objects[KeyOf(w)]
         IN  \/ Unchanged(job[w].ob, Clean(job[w].ob), old) /\ Stored(w, old.versions)
             \/ /\ ~Unchanged(job[w].ob, Clean(job[w].ob), old)
                /\ Stored(w, Append(old.versions, TakenVersion(w)))
<1> DEFINE ob    == job[w].ob
           key   == ObjectKey(ob)
           old   == objects[key]
           doc   == Clean(ob)
           known == EnsureKind(table, ob.type, ob.ns)
           more  == Append(old.versions, TakenVersion(w))
           begun == [table |-> known, edges |-> edges,
                     objects |-> With(objects, key, [deleted |-> ob.del, versions |-> more])]
           set   == Profile(job[w].info).extractors
<1>1. job[w].stage = "store" /\ Busy(w)
  BY DEF StoreObservation, Busy, Idle
<1>2. job[w].info = ob.type /\ job[w].doc = doc /\ ob \in Inputs
  BY <1>1 DEF IngestInv, JobsFit, Kept
<1>3. key \in DOMAIN objects /\ KeyOf(w) = key
  BY <1>1 DEF IngestInv, RawIsWritten, IsWritten, KeyOf
<1>4. IsTable(known)
  <2>1. ob.type \in Learnable
    BY <1>2 DEF Learnable, Types
  <2>2. Fits(ob.type)
    BY <2>1, LearnableFits
  <2> QED BY <2>2, EnsureKindKeepsTable DEF IngestInv, KnownFits
<1>5. \/ Unchanged(ob, doc, old) /\ table' = known /\ objects' = objects
      \/ /\ ~Unchanged(ob, doc, old)
         /\ table' = PutEdges(begun, ob, set).table /\ objects' = PutEdges(begun, ob, set).objects
  <2> DEFINE version == [doc |-> job[w].doc, del |-> ob.del]
             row     == IF key \in DOMAIN objects THEN objects[key] ELSE NewObject
             stored  == With(objects, key, [deleted |-> ob.del, versions |-> Append(row.versions, version)])
             start   == [table |-> EnsureKind(table, job[w].info, ob.ns), objects |-> stored, edges |-> edges]
  <2>1. \/ Unchanged(ob, job[w].doc, row) /\ table' = EnsureKind(table, job[w].info, ob.ns) /\ objects' = objects
        \/ /\ ~Unchanged(ob, job[w].doc, row)
           /\ table' = PutEdges(start, ob, set).table /\ objects' = PutEdges(start, ob, set).objects
    BY Zenon DEF StoreObservation
  <2>2. row = old /\ version = TakenVersion(w)
    BY <1>2, <1>3 DEF TakenVersion
  <2>3. start = begun
    <3>1. stored = With(objects, key, [deleted |-> ob.del, versions |-> more])
      BY <2>2, Zenon
    <3>2. EnsureKind(table, job[w].info, ob.ns) = known
      BY <1>2, Zenon
    <3> HIDE DEF stored, known
    <3> QED BY <3>1, <3>2
  <2> HIDE DEF row, start, begun, old, doc
  <2> QED BY <1>2, <2>1, <2>2, <2>3 DEF doc
<1>6. IsRows(objects)
  BY DEF IngestInv, RowsFit
<1>7. CASE Unchanged(ob, doc, old) /\ table' = known /\ objects' = objects
  <2>1. Stores(objects, objects', KeyOf(w), old.versions)
    <3>1. Stores(objects, objects, key, objects[key].versions)
      BY <1>3, <1>6, NothingNewStores
    <3> QED BY <1>3, <1>7, <3>1
  <2> HIDE DEF known
  <2>2. Stored(w, old.versions)
    BY <1>4, <1>7, <2>1 DEF Stored
  <2> QED BY <1>3, <1>7, <2>2
<1>8. CASE /\ ~Unchanged(ob, doc, old)
           /\ table' = PutEdges(begun, ob, set).table /\ objects' = PutEdges(begun, ob, set).objects
  <2> HIDE DEF more, set, known
  <2>1. /\ IsTable(PutEdges(begun, ob, set).table)
        /\ Stores(objects, PutEdges(begun, ob, set).objects, key, more)
    BY <1>2, <1>4, <1>6, WithEdgesStores
  <2> HIDE DEF begun
  <2>2. Stored(w, more)
    BY <1>3, <1>8, <2>1 DEF Stored
  <2> QED BY <1>3, <1>8, <2>2 DEF more
<1> QED BY <1>5, <1>7, <1>8

\* An object whose observation is stored has the version that its raw document says.
LEMMA StoreObservationKeepsInv ==
  ASSUME IngestInv, NEW w \in Watchers, StoreObservation(w)
  PROVE  IngestInv'
<1> DEFINE ob  == job[w].ob
           key == ObjectKey(ob)
           vs  == objects[key].versions
           doc == Clean(ob)
<1>1. /\ job[w].stage = "store" /\ Busy(w) /\ KeyOf(w) = key
      /\ job' = [job EXCEPT ![w] = [stage |-> Idle]]
      /\ torn' = torn \ {key}
      /\ UNCHANGED <<resolver, raw>>
  BY DEF StoreObservation, Busy, Idle, KeyOf
<1>2. ob \in Kept /\ ob \in Inputs /\ ob.del \in BOOLEAN
  <2>1. ob \in Kept /\ ob \in Inputs
    BY <1>1 DEF IngestInv, JobsFit, Kept
  <2> QED BY <2>1, NamesAssumption
<1>3. key \in DOMAIN objects /\ vs \in Seq(VersionsOf(key)) /\ Differ(vs)
  BY <1>1 DEF IngestInv, RawIsWritten, IsWritten, RowsFit, VersionsDiffer
<1>4. TakenVersion(w) \in VersionsOf(key)
  BY <1>2 DEF TakenVersion, VersionsOf, Of
<1>5. PICK new : /\ new \in Seq(VersionsOf(key)) /\ Differ(new) /\ Stored(w, new)
                 /\ new # <<>> /\ Last(new).del = ob.del
                 /\ ~ob.del => Last(new).doc = doc
  <2>1. CASE Unchanged(ob, doc, objects[key]) /\ Stored(w, vs)
    <3>1. vs # <<>> /\ Last(vs).doc = doc /\ ~ob.del
      BY <2>1 DEF Unchanged
    <3>2. Len(vs) \in DOMAIN vs /\ Last(vs) = vs[Len(vs)]
      BY <1>3, <3>1 DEF Last
    <3>3. ~Last(vs).del /\ Last(vs).del \in BOOLEAN
      <4>1. ~vs[Len(vs)].del
        BY <1>1, <1>3, <3>2 DEF IngestInv, ObservedLives
      <4>2. vs[Len(vs)] \in VersionsOf(key)
        BY <1>3, <3>2
      <4>3. vs[Len(vs)].del \in BOOLEAN
        BY <4>2 DEF VersionsOf
      <4> QED BY <3>2, <4>1, <4>3
    <3> HIDE DEF ob, key, vs, doc
    <3> QED BY <1>2, <1>3, <2>1, <3>1, <3>3
  <2>2. CASE ~Unchanged(ob, doc, objects[key]) /\ Stored(w, Append(vs, TakenVersion(w)))
    <3> DEFINE version == TakenVersion(w)
               more    == Append(vs, version)
    <3>1. version.doc = doc /\ version.del = ob.del
      BY DEF TakenVersion
    <3>2. ~ob.del => objects[key].deleted = FALSE
      BY <1>1 DEF IngestInv, RawIsWritten, IsWritten
    <3>3. vs = <<>> \/ version.del \/ Last(vs).doc # version.doc
      BY <2>2, <3>1, <3>2 DEF Unchanged
    <3> HIDE DEF version, ob, key, vs, doc
    <3>4. more \in Seq(VersionsOf(key)) /\ more # <<>> /\ Last(more) = version
      BY <1>3, <1>4, OneMore DEF version
    <3>5. Differ(more)
      BY <1>3, <1>4, <3>3, DifferOneMore DEF version
    <3> HIDE DEF more
    <3>6. Stored(w, more)
      BY <2>2 DEF more, version
    <3> QED BY <3>1, <3>4, <3>5, <3>6
  <2>3. \/ Unchanged(ob, doc, objects[key]) /\ Stored(w, vs)
        \/ ~Unchanged(ob, doc, objects[key]) /\ Stored(w, Append(vs, TakenVersion(w)))
    BY <1>1, <1>2, StoreObservationStores, Zenon
  <2> QED BY <2>1, <2>2, <2>3
<1>6. JobsFit' /\ OneWorker'
  BY <1>1, JobsGoOn DEF IngestInv
<1>7. DOMAIN job = Watchers /\ job'[w].stage = Idle /\ \A v \in Watchers : v # w => job'[v] = job[v]
  BY <1>1 DEF IngestInv, JobsFit
<1>8. ASSUME NEW v \in Watchers, Busy(v)'
      PROVE  v # w /\ job'[v] = job[v] /\ Busy(v) /\ KeyOf(v)' = KeyOf(v) /\ KeyOf(v) # key
  <2>1. v # w /\ job'[v] = job[v]
    BY <1>7, <1>8 DEF Busy
  <2>2. Busy(v) /\ KeyOf(v)' = KeyOf(v)
    BY <1>8, <2>1 DEF Busy, KeyOf
  <2>3. KeyOf(v) # KeyOf(w)
    BY <1>1, <2>1, <2>2, KeysDiffer DEF IngestInv
  <2> QED BY <1>1, <2>1, <2>2, <2>3
<1> HIDE DEF ob, key, vs, doc
<1>9. /\ DOMAIN objects \subseteq DOMAIN objects' /\ IsRows(objects') /\ IsTable(table')
      /\ key \in DOMAIN objects' /\ objects'[key].versions = new
      /\ \A k \in DOMAIN objects' : k # key =>
           /\ objects'[k].versions = IF k \in DOMAIN objects THEN objects[k].versions ELSE <<>>
           /\ \/ objects'[k].deleted = FALSE
              \/ k \in DOMAIN objects /\ objects'[k].deleted = objects[k].deleted
  BY <1>1, <1>5 DEF Stored, Stores
<1>10. KnownFits'
  BY <1>1, <1>9 DEF IngestInv, KnownFits
<1>11. RowsFit' /\ VersionsDiffer'
  <2>1. ASSUME NEW k \in DOMAIN objects'
        PROVE  objects'[k].versions \in Seq(VersionsOf(k)) /\ Differ(objects'[k].versions)
    <3>1. CASE k = key
      BY <1>5, <1>9, <3>1
    <3>2. CASE k # key /\ k \in DOMAIN objects
      BY <1>9, <3>2 DEF IngestInv, RowsFit, VersionsDiffer
    <3>3. CASE k # key /\ k \notin DOMAIN objects
      <4>1. objects'[k].versions = <<>>
        BY <1>9, <3>3
      <4> QED BY <4>1 DEF Differ
    <3> QED BY <3>1, <3>2, <3>3
  <2> QED BY <1>9, <2>1 DEF RowsFit, VersionsDiffer
<1>12. RawFits'
  BY <1>1, <1>9 DEF IngestInv, RawFits
<1>13. RawIsWritten'
  <2> SUFFICES ASSUME NEW v \in Watchers, job'[v].stage = "store"
               PROVE  IsWritten(job'[v].ob, objects', raw)
    BY <1>1 DEF RawIsWritten
  <2>1. job'[v] = job[v] /\ ObjectKey(job[v].ob) # key
    BY <1>8 DEF Busy, Idle, KeyOf
  <2>2. IsWritten(job[v].ob, objects, raw)
    BY <2>1 DEF IngestInv, RawIsWritten
  <2> QED BY <1>9, <2>1, <2>2 DEF IsWritten
<1>14. ObservedLives'
  <2> SUFFICES ASSUME NEW v \in Watchers, Busy(v)', KeyOf(v)' \in DOMAIN objects'
               PROVE  \A i \in DOMAIN objects'[KeyOf(v)'].versions : ~objects'[KeyOf(v)'].versions[i].del
    BY DEF ObservedLives
  <2>1. Busy(v) /\ KeyOf(v)' = KeyOf(v) /\ KeyOf(v) # key
    BY <1>8
  <2>2. CASE KeyOf(v) \in DOMAIN objects
    <3>1. objects'[KeyOf(v)].versions = objects[KeyOf(v)].versions
      BY <1>9, <2>1, <2>2
    <3> QED BY <2>1, <2>2, <3>1 DEF IngestInv, ObservedLives
  <2>3. CASE KeyOf(v) \notin DOMAIN objects
    <3>1. objects'[KeyOf(v)].versions = <<>>
      BY <1>9, <2>1, <2>3
    <3> QED BY <2>1, <3>1
  <2> QED BY <2>2, <2>3
<1>15. LatestSaysWhatRawSays'
  <2> SUFFICES ASSUME NEW k \in DOMAIN objects' PROVE Latest(k)'
    BY DEF LatestSaysWhatRawSays, Latest, Says
  <2>1. CASE k = key
    <3>1. IsWritten(ob, objects, raw) /\ ObjectKey(ob) = key
      BY <1>1 DEF IngestInv, RawIsWritten, ob, key
    <3>2. CASE ob.del
      <4>1. key \notin DOMAIN raw
        BY <3>1, <3>2 DEF IsWritten
      <4> QED BY <1>1, <1>5, <1>9, <2>1, <3>2, <4>1 DEF Latest, Says
    <3>3. CASE ~ob.del
      <4>1. key \in DOMAIN raw /\ raw[key] = Redacted(ob.type, ob.doc)
        BY <3>1, <3>3 DEF IsWritten
      <4>2. Meaning(key, Clean(ob)) = Clean(ob) /\ Meaning(key, Redacted(ob.type, ob.doc)) = Clean(ob)
        BY <1>2, <3>1, CleanIsMeaning, RedactedSaysTheSame
      <4>3. Last(new).doc = Clean(ob)
        BY <1>5, <3>3 DEF doc
      <4>4. Meaning(key, Last(new).doc) = Meaning(key, raw[key])
        BY <4>1, <4>2, <4>3
      <4> QED BY <1>1, <1>5, <1>9, <2>1, <3>3, <4>1, <4>4 DEF Latest, Says
    <3> QED BY <3>2, <3>3
  <2>2. CASE k # key /\ k \notin DOMAIN objects
    <3>1. objects'[k].versions = <<>> /\ k \notin DOMAIN raw'
      BY <1>1, <1>9, <2>2 DEF IngestInv, RawFits
    <3> QED BY <3>1 DEF Latest, Says
  <2>3. CASE k # key /\ k \in DOMAIN objects
    <3>1. objects'[k].versions = objects[k].versions
      BY <1>9, <2>3
    <3>2. Latest(k)
      BY <2>3 DEF IngestInv, LatestSaysWhatRawSays, Latest, Says
    <3>3. CASE \E v \in Watchers : job[v].stage = "store" /\ ObjectKey(job[v].ob) = k
      <4>1. PICK v \in Watchers : job[v].stage = "store" /\ ObjectKey(job[v].ob) = k
        BY <3>3
      <4>2. v # w
        BY <2>3, <4>1 DEF key, ob
      <4> QED BY <1>7, <4>1, <4>2 DEF Latest
    <3>4. CASE Says(k)
      BY <1>1, <3>1, <3>4 DEF Latest, Says
    <3>5. CASE k \in torn
      BY <1>1, <2>3, <3>5 DEF Latest
    <3> QED BY <3>2, <3>3, <3>4, <3>5 DEF Latest
  <2> QED BY <2>1, <2>2, <2>3
<1> QED BY <1>6, <1>10, <1>11, <1>12, <1>13, <1>14, <1>15 DEF IngestInv

\* Every step of every worker keeps the invariant.
LEMMA IngestInvHolds ==
  IngestSpec => []IngestInv
<1>1. IngestInit => IngestInv
  BY IngestInvHoldsAtFirst
<1>2. IngestInv /\ [IngestNext]_ingestVars => IngestInv'
  <2> SUFFICES ASSUME IngestInv, [IngestNext]_ingestVars
               PROVE  IngestInv'
    OBVIOUS
  <2>1. CASE IngestNext
    <3>1. PICK w \in Watchers : \/ \E ob \in Inputs : Decode(w, FromTable, ob)
                                \/ PutRawLatest(w) \/ StoreObservation(w) \/ Fail(w)
      BY <2>1 DEF IngestNext
    <3>2. CASE \E ob \in Inputs : Decode(w, FromTable, ob)
      BY <3>2, DecodeKeepsInv
    <3>3. CASE PutRawLatest(w)
      BY <3>3, PutRawLatestKeepsInv
    <3>4. CASE StoreObservation(w)
      BY <3>4, StoreObservationKeepsInv
    <3>5. CASE Fail(w)
      BY <3>5, FailKeepsInv
    <3> QED BY <3>1, <3>2, <3>3, <3>4, <3>5
  <2>2. CASE UNCHANGED ingestVars
    <3>1. UNCHANGED <<job, resolver, table, objects, raw, torn>>
      BY <2>2 DEF ingestVars
    <3>2. JobsFit' /\ OneWorker' /\ KnownFits' /\ RowsFit' /\ RawFits'
      BY <3>1 DEF IngestInv, JobsFit, OneWorker, Busy, KnownFits, RowsFit, IsRows, RawFits
    <3>3. RawIsWritten' /\ ObservedLives' /\ VersionsDiffer'
      BY <3>1 DEF IngestInv, RawIsWritten, ObservedLives, Busy, KeyOf, VersionsDiffer
    <3>4. LatestSaysWhatRawSays'
      BY <3>1 DEF IngestInv, LatestSaysWhatRawSays
    <3> QED BY <3>2, <3>3, <3>4 DEF IngestInv
  <2> QED BY <2>1, <2>2
<1> QED BY <1>1, <1>2, PTL DEF IngestSpec

\* A document of a version is what its chain left of an observation of the object.
LEMMA VersionIsClean ==
  ASSUME IngestInv, NEW key \in DOMAIN objects, NEW i \in DOMAIN objects[key].versions
  PROVE  \E ob \in Of(key) : objects[key].versions[i].doc = Clean(ob)
<1>1. objects[key].versions[i] \in VersionsOf(key)
  BY DEF IngestInv, RowsFit
<1> QED BY <1>1 DEF VersionsOf

\* The history of an object ends with what was seen last of it: the newest version
\* says what the raw latest document says, and there is none exactly when it is a
\* deletion, unless the second transaction of the last observation is still to come
\* or has failed (PutRawLatest and PutObservation of the SQLite store).
THEOREM HistoryEndsWithTheLatest ==
  IngestSpec => []LatestSaysWhatRawSays
<1>1. IngestInv => LatestSaysWhatRawSays
  BY DEF IngestInv
<1> QED BY <1>1, IngestInvHolds, PTL

\* No two versions in a row of a live object differ in noise alone: the filters take
\* all of it out before shouldSkipUnchangedObservation compares.
THEOREM VersionsDifferInMeaning ==
  IngestSpec => []NoiseMakesNoVersion
<1>1. IngestInv => NoiseMakesNoVersion
  <2> SUFFICES ASSUME IngestInv, NEW key \in DOMAIN objects, NEW i \in 1 .. (Len(objects[key].versions) - 1),
                      ~objects[key].versions[i].del, ~objects[key].versions[i + 1].del
               PROVE  Meaning(key, objects[key].versions[i].doc) # Meaning(key, objects[key].versions[i + 1].doc)
    BY DEF NoiseMakesNoVersion
  <2> DEFINE vs == objects[key].versions
  <2>1. vs \in Seq(VersionsOf(key)) /\ Differ(vs)
    BY DEF IngestInv, RowsFit, VersionsDiffer
  <2>2. i \in DOMAIN vs /\ i + 1 \in DOMAIN vs
    BY <2>1
  <2>3. vs[i].doc # vs[i + 1].doc
    BY <2>1 DEF Differ
  <2>4. ASSUME NEW j \in DOMAIN vs PROVE Meaning(key, vs[j].doc) = vs[j].doc
    <3>1. PICK ob \in Of(key) : vs[j].doc = Clean(ob)
      BY VersionIsClean
    <3>2. ob \in Kept /\ ObjectKey(ob) = key
      BY DEF Of
    <3> QED BY <3>1, <3>2, CleanIsMeaning
  <2> HIDE DEF vs
  <2>5. Meaning(key, vs[i].doc) # Meaning(key, vs[i + 1].doc)
    BY <2>2, <2>3, <2>4
  <2> QED BY <2>5 DEF vs
<1> QED BY <1>1, IngestInvHolds, PTL

\* Of the payload of a secret a version keeps neither of the fields that hold it, and
\* the raw latest document no more than their keys (secret_metadata_only and
\* rawLatestObservation); the copy that kubectl apply leaves in an annotation is
\* outside both, and stays.
THEOREM SecretFieldsStayOut ==
  IngestSpec => []OnlyTheAnnotationKeepsAPayload
<1>1. IngestInv => OnlyTheAnnotationKeepsAPayload
  <2> SUFFICES ASSUME IngestInv, NEW key \in DOMAIN objects, key.kind = "Secret"
               PROVE  /\ \A v \in ToSet(objects[key].versions) : DOMAIN v.doc \cap SecretPayload = {}
                      /\ key \in DOMAIN raw =>
                           \A f \in DOMAIN raw[key] \cap SecretPayload : raw[key][f] = "redacted"
    BY DEF OnlyTheAnnotationKeepsAPayload, PayloadCopies
  <2>1. SecretPayload \subseteq Noise(key)
    BY DEF Noise
  <2>2. ASSUME NEW v \in ToSet(objects[key].versions) PROVE DOMAIN v.doc \cap SecretPayload = {}
    <3>1. PICK i \in DOMAIN objects[key].versions : v = objects[key].versions[i]
      BY DEF ToSet
    <3>2. PICK ob \in Of(key) : v.doc = Clean(ob)
      BY <3>1, VersionIsClean
    <3>3. DOMAIN v.doc = DOMAIN ob.doc \ Noise(key)
      BY <3>2 DEF Clean, Restrict, Of
    <3> QED BY <2>1, <3>3
  <2>3. ASSUME key \in DOMAIN raw PROVE \A f \in DOMAIN raw[key] \cap SecretPayload : raw[key][f] = "redacted"
    <3>1. PICK ob \in Of(key) : raw[key] = Redacted(ob.type, ob.doc)
      BY <2>3 DEF IngestInv, RawFits
    <3>2. ob.type.kind = "Secret" /\ ob.type \in Types
      BY DEF Of, Kept, ObjectKey, Key, Types
    <3>3. ob.type.group = "" /\ ob.type.resource = "secrets"
      BY <3>2, NamesAssumption
    <3>4. raw[key] = [f \in DOMAIN ob.doc |-> IF f \in SecretPayload THEN "redacted" ELSE ob.doc[f]]
      BY <3>1, <3>3 DEF Redacted
    <3> QED BY <3>4
  <2> QED BY <2>2, <2>3
<1> QED BY <1>1, IngestInvHolds, PTL

--------------------------------------------------------------------------------
(* Where edges lead.                                                              *)

\* The rows of the table are resources of the cluster, those discovered among them.
OfCluster(row) == row = [info |-> row.info, preferred |-> row.preferred] /\ row.info \in ClusterTypes

ListsDiscovered(rows) == \A type \in ToSet(Discovered) : \E i \in DOMAIN rows : rows[i].info = type

Lists(rows) ==
  /\ IsSequence(rows) /\ \A i \in DOMAIN rows : OfCluster(rows[i])
  /\ ListsDiscovered(rows)

\* A namespace is given exactly to what is in one.
HasScope(type, ns) == type.namespaced = (ns # "")

LEMMA TypesAreInfos ==
  /\ \A t \in ClusterTypes : IsInfo(t) /\ t.namespaced \in BOOLEAN
  /\ \A t, u \in ClusterTypes : t.group = u.group /\ t.resource = u.resource => t = u
<1>1. ClusterTypes \subseteq Infos
  BY ClusterAssumption, Zenon
<1>2. \A t, u \in ClusterTypes : t.group = u.group /\ t.resource = u.resource => t = u
  BY ClusterAssumption, Zenon
<1> QED BY <1>1, <1>2 DEF Infos, IsInfo

\* A reference to a resource of the cluster leaves it what it is: its scope is that
\* of the reference.
LEMMA EnsureKindLists ==
  ASSUME NEW rows, Lists(rows), NEW type \in ClusterTypes, NEW ns, HasScope(type, ns)
  PROVE  Lists(EnsureKind(rows, type, ns))
<1> DEFINE same  == {i \in DOMAIN rows : /\ rows[i].info.group = type.group
                                        /\ rows[i].info.version = type.version
                                        /\ rows[i].info.resource = type.resource}
           known == [type EXCEPT !.namespaced = (ns # "")]
           row   == [info |-> type, preferred |-> FALSE]
           N     == Len(rows)
<1>1. N \in Nat /\ DOMAIN rows = 1 .. N /\ IsSequence(rows)
  BY DEF Lists, IsSequence
<1>2. known = type
  <2> DEFINE b == (ns # "")
  <2>1. b = type.namespaced
    BY DEF HasScope
  <2> HIDE DEF b
  <2>2. [type EXCEPT !.namespaced = b] = type
    BY <2>1, TypesAreInfos DEF IsInfo
  <2> QED BY <2>2 DEF b
<1> HIDE DEF known
<1>3. CASE same = {}
  <2> DEFINE r == Append(rows, row)
  <2>1. EnsureKind(rows, type, ns) = r
    BY <1>2, <1>3 DEF EnsureKind, known
  <2>2. /\ IsSequence(r) /\ Len(r) = N + 1 /\ \A i \in 1 .. N : r[i] = rows[i]
        /\ r[N + 1] = row
    BY <1>1, Appended
  <2>3. DOMAIN r = 1 .. N + 1
    BY <2>2 DEF IsSequence
  <2> HIDE DEF r
  <2>4. ASSUME NEW i \in DOMAIN r
        PROVE  OfCluster(r[i])
    <3>1. CASE i \in 1 .. N
      <4>1. r[i] = rows[i] /\ i \in DOMAIN rows
        BY <1>1, <2>2, <3>1
      <4> QED BY <4>1 DEF Lists
    <3>2. CASE i = N + 1
      BY <2>2, <3>2 DEF OfCluster
    <3> QED BY <1>1, <2>3, <3>1, <3>2
  <2>5. ASSUME NEW t \in ToSet(Discovered) PROVE \E i \in DOMAIN r : r[i].info = t
    <3>1. PICK i \in DOMAIN rows : rows[i].info = t
      BY DEF Lists, ListsDiscovered
    <3>2. i \in DOMAIN r /\ r[i] = rows[i]
      BY <1>1, <2>2, <2>3
    <3> QED BY <3>1, <3>2
  <2> QED BY <2>1, <2>2, <2>4, <2>5 DEF Lists, ListsDiscovered
<1>4. CASE same # {}
  <2> DEFINE k == Min(same)
  <2>1. k \in DOMAIN rows /\ rows[k].info.group = type.group /\ rows[k].info.resource = type.resource
    <3>1. k \in same
      BY <1>1, <1>4, FirstAndLast
    <3> QED BY <3>1
  <2>2. rows[k].info = type
    BY <2>1, TypesAreInfos DEF Lists, OfCluster
  <2>3. EnsureKind(rows, type, ns) = [rows EXCEPT ![k].info = type]
    BY <1>2, <1>4 DEF EnsureKind, known
  <2> HIDE DEF k
  <2>4. [rows EXCEPT ![k].info = type] = rows
    <3>1. rows[k] = [info |-> rows[k].info, preferred |-> rows[k].preferred]
      BY <2>1 DEF Lists, OfCluster
    <3>2. [rows[k] EXCEPT !.info = type] = rows[k]
      BY <2>2, <3>1
    <3>3. rows = [i \in 1 .. N |-> rows[i]]
      BY <1>1 DEF IsSequence
    <3> QED BY <1>1, <2>1, <3>2, <3>3
  <2> QED BY <2>3, <2>4
<1> QED BY <1>3, <1>4

\* What the table knows of a resource is the resource, and what was discovered it
\* knows.
LEMMA LookupFinds ==
  ASSUME NEW rows, Lists(rows), NEW type \in ClusterTypes
  PROVE  LET i == LookupAPIResource(rows, type.group, type.resource)
         IN  /\ i # 0 => rows[i].info = type
             /\ type \in ToSet(Discovered) => i # 0
<1> DEFINE i         == LookupAPIResource(rows, type.group, type.resource)
           named     == {k \in DOMAIN rows : rows[k].info.group = type.group /\ rows[k].info.resource = type.resource}
           preferred == {k \in named : rows[k].preferred}
<1>1. Len(rows) \in Nat /\ DOMAIN rows = 1 .. Len(rows)
  BY DEF Lists, IsSequence
<1>2. named \subseteq 1 .. Len(rows) /\ preferred \subseteq 1 .. Len(rows) /\ preferred \subseteq named
  BY <1>1
<1>3. \A k \in named : rows[k].info = type /\ k # 0
  BY <1>1, TypesAreInfos DEF Lists, OfCluster
<1>4. type \in ToSet(Discovered) => named # {}
  BY DEF Lists, ListsDiscovered
<1>5. i = IF preferred # {} THEN Max(preferred) ELSE IF named # {} THEN Max(named) ELSE 0
  BY DEF LookupAPIResource
<1> HIDE DEF named, preferred, i
<1>6. preferred # {} => Max(preferred) \in named
  BY <1>1, <1>2, FirstAndLast
<1>7. named # {} => Max(named) \in named
  BY <1>1, <1>2, FirstAndLast
<1> QED BY <1>3, <1>4, <1>5, <1>6, <1>7 DEF i

LEMMA StandardIndices ==
  DOMAIN Standard = 1 .. Len(Standard) /\ Len(Standard) \in Nat /\ \A i \in DOMAIN Standard : i # 0
<1>1. IsSequence(Standard)
  BY StandardFits DEF AllFit
<1> QED BY <1>1 DEF IsSequence

\* What the store takes a resource for is the resource: it is in the table, or else
\* guessed right.
LEMMA TargetInfoIs ==
  ASSUME NEW rows, Lists(rows), NEW type \in ClusterTypes, NEW version, PathIsKnown(version, type)
  PROVE  TargetInfo(rows, type.group, version, type.resource) = type
<1> DEFINE i == LookupAPIResource(rows, type.group, type.resource)
<1>1. CASE i # 0
  <2>1. TargetInfo(rows, type.group, version, type.resource) = rows[i].info
    BY <1>1 DEF TargetInfo
  <2> QED BY <1>1, <2>1, LookupFinds
<1>2. CASE i = 0
  <2> DEFINE some  == {j \in DOMAIN Standard : Standard[j].resource = type.resource}
             j     == InGroup(Standard, type.group, some)
             named == {info \in ToSet(Standard) : info.resource = type.resource /\ type.group \in {"", info.group}}
  <2>1. TargetInfo(rows, type.group, version, type.resource) = ResolveGVR(Standard, type.group, version, type.resource)
    BY <1>2 DEF TargetInfo
  <2>2. type \notin ToSet(Discovered)
    BY <1>2, LookupFinds
  <2>3. /\ \A info \in named : [info EXCEPT !.version = version] = type
        /\ named = {} => FallbackInfo(type.group, version, type.resource, FallbackKind(type.resource)) = type
    BY <2>2 DEF PathIsKnown
  <2>4. Offered(j, Standard, type.group, some)
    BY InGroupIsOffered, StandardFits DEF AllFit
  <2>5. CASE j # 0
    <3>1. j \in some /\ type.group \in {"", Standard[j].group}
      BY <2>4, <2>5 DEF Offered
    <3>2. Standard[j] \in named
      BY <3>1 DEF ToSet
    <3>3. ResolveGVR(Standard, type.group, version, type.resource) = [Standard[j] EXCEPT !.version = version]
      BY <2>5 DEF ResolveGVR
    <3> QED BY <2>1, <2>3, <3>2, <3>3
  <2>6. CASE j = 0
    <3>1. named = {}
      <4> SUFFICES ASSUME NEW info \in named PROVE FALSE
        OBVIOUS
      <4>1. PICK k \in DOMAIN Standard : Standard[k] = info
        BY DEF ToSet
      <4>2. k \in some /\ some # {}
        BY <4>1
      <4>3. type.group = ""
        BY <2>4, <2>6, <4>1, <4>2 DEF Offered
      <4>4. {j1 \in some : Standard[j1].group = type.group} = {}
        BY <2>4, <2>6 DEF Offered
      <4>5. j = Min(some)
        BY <4>2, <4>3, <4>4 DEF InGroup
      <4>6. DOMAIN Standard = 1 .. Len(Standard) /\ Len(Standard) \in Nat /\ \A k1 \in DOMAIN Standard : k1 # 0
        BY StandardIndices
      <4>7. Min(some) \in some
        BY <4>2, <4>6, FirstAndLast
      <4>8. Min(some) # 0
        BY <4>6, <4>7
      <4> QED BY <2>6, <4>5, <4>8, Zenon
    <3>2. ResolveGVR(Standard, type.group, version, type.resource)
            = FallbackInfo(type.group, version, type.resource, FallbackKind(type.resource))
      BY <2>6 DEF ResolveGVR
    <3> QED BY <2>1, <2>3, <3>1, <3>2
  <2> QED BY <2>5, <2>6
<1> QED BY <1>1, <1>2

\* Short sequences are what their elements are.
LEMMA Tuples ==
  ASSUME NEW s \in Seq(STRING)
  PROVE  /\ Len(s) = 1 => s = <<s[1]>>
         /\ Len(s) = 2 => s = <<s[1], s[2]>>
         /\ Len(s) = 3 => s = <<s[1], s[2], s[3]>>
         /\ Len(s) = 4 => s = <<s[1], s[2], s[3], s[4]>>
  OBVIOUS
LEMMA Single ==
  ASSUME NEW a \in STRING
  PROVE  <<a>> \in Seq(STRING) /\ Len(<<a>>) = 1 /\ <<a>>[1] = a
<1> DEFINE none == <<>>
           s    == Append(none, a)
<1>1. none \in Seq(STRING) /\ Len(none) = 0
  BY EmptySeq
<1> HIDE DEF none
<1>2. s \in Seq(STRING) /\ Len(s) = Len(none) + 1 /\ s[Len(none) + 1] = a
  BY <1>1, AppendProperties, Zenon
<1> HIDE DEF s
<1>3. Len(none) + 1 = 1
  BY <1>1
<1>4. Len(s) = 1 /\ s[1] = a
  BY <1>2, <1>3
<1>5. s = <<a>>
  BY <1>2, <1>4, Tuples
<1> QED BY <1>2, <1>4, <1>5

\* One more segment.
LEMMA Joined ==
  ASSUME NEW s \in Seq(STRING), NEW a \in STRING
  PROVE  LET p == s \o <<a>>
         IN  /\ p \in Seq(STRING) /\ Len(p) = Len(s) + 1 /\ p[Len(s) + 1] = a
             /\ \A i \in 1 .. Len(s) : p[i] = s[i]
<1>1. <<a>> \in Seq(STRING) /\ Len(<<a>>) = 1 /\ <<a>>[1] = a
  BY Single
<1> DEFINE one == <<a>>
<1> HIDE DEF one
<1>2. one \in Seq(STRING) /\ Len(one) = 1 /\ one[1] = a
  BY <1>1 DEF one
<1>3. Len(s) \in Nat
  OBVIOUS
<1>4. /\ s \o one \in Seq(STRING) /\ Len(s \o one) = Len(s) + 1
      /\ \A i \in 1 .. Len(s) + 1 : (s \o one)[i] = IF i <= Len(s) THEN s[i] ELSE one[i - Len(s)]
  BY <1>2, ConcatProperties
<1> DEFINE p == s \o one
<1>5. /\ p \in Seq(STRING) /\ Len(p) = Len(s) + 1
      /\ \A i \in 1 .. Len(s) + 1 : p[i] = IF i <= Len(s) THEN s[i] ELSE one[i - Len(s)]
  BY <1>4
<1> HIDE DEF p
<1>6. p[Len(s) + 1] = a
  <2>1. Len(s) + 1 \in 1 .. Len(s) + 1 /\ ~(Len(s) + 1 <= Len(s)) /\ (Len(s) + 1) - Len(s) = 1
    BY <1>3
  <2> QED BY <1>2, <1>5, <2>1
<1>7. \A i \in 1 .. Len(s) : p[i] = s[i]
  BY <1>3, <1>5
<1> QED BY <1>5, <1>6, <1>7 DEF p, one

LEMMA Pairs ==
  ASSUME NEW a \in STRING, NEW b \in STRING
  PROVE  <<a>> \o <<b>> = <<a, b>> /\ <<a, b>> \in Seq(STRING)
<1> DEFINE s == <<a>>
           p == s \o <<b>>
<1>1. s \in Seq(STRING) /\ Len(s) = 1 /\ s[1] = a
  BY Single
<1> HIDE DEF s
<1>2. p \in Seq(STRING) /\ Len(p) = Len(s) + 1 /\ p[Len(s) + 1] = b /\ \A i \in 1 .. Len(s) : p[i] = s[i]
  BY <1>1, Joined
<1> HIDE DEF p
<1>3. Len(p) = 2 /\ p[1] = a /\ p[2] = b
  <2>1. Len(s) + 1 = 2 /\ 1 \in 1 .. Len(s)
    BY <1>1
  <2>2. p[1] = s[1]
    BY <1>2, <2>1
  <2>3. Len(p) = 2 /\ p[2] = b
    BY <1>2, <2>1
  <2> QED BY <1>1, <2>2, <2>3
<1>4. p = <<a, b>>
  BY <1>2, <1>3, Tuples
<1> QED BY <1>2, <1>4 DEF p, s

LEMMA Triples ==
  ASSUME NEW a \in STRING, NEW b \in STRING, NEW c \in STRING
  PROVE  <<a, b>> \o <<c>> = <<a, b, c>> /\ <<a, b, c>> \in Seq(STRING)
<1> DEFINE s == <<a, b>>
           p == s \o <<c>>
<1>1. s \in Seq(STRING) /\ Len(s) = 2 /\ s[1] = a /\ s[2] = b
  BY Pairs
<1> HIDE DEF s
<1>2. p \in Seq(STRING) /\ Len(p) = Len(s) + 1 /\ p[Len(s) + 1] = c /\ \A i \in 1 .. Len(s) : p[i] = s[i]
  BY <1>1, Joined
<1> HIDE DEF p
<1>3. Len(p) = 3 /\ p[1] = a /\ p[2] = b /\ p[3] = c
  <2>1. Len(s) + 1 = 3 /\ 1 \in 1 .. Len(s) /\ 2 \in 1 .. Len(s)
    BY <1>1
  <2>2. p[1] = s[1] /\ p[2] = s[2]
    BY <1>2, <2>1
  <2>3. Len(p) = 3 /\ p[3] = c
    BY <1>2, <2>1
  <2> QED BY <1>1, <2>2, <2>3
<1>4. p = <<a, b, c>>
  BY <1>2, <1>3, Tuples
<1> QED BY <1>2, <1>4 DEF p, s

LEMMA Quadruples ==
  ASSUME NEW a \in STRING, NEW b \in STRING, NEW c \in STRING, NEW d \in STRING
  PROVE  <<a, b, c>> \o <<d>> = <<a, b, c, d>> /\ <<a, b, c, d>> \in Seq(STRING)
<1> DEFINE s == <<a, b, c>>
           p == s \o <<d>>
<1>1. s \in Seq(STRING) /\ Len(s) = 3 /\ s[1] = a /\ s[2] = b /\ s[3] = c
  BY Triples
<1> HIDE DEF s
<1>2. p \in Seq(STRING) /\ Len(p) = Len(s) + 1 /\ p[Len(s) + 1] = d /\ \A i \in 1 .. Len(s) : p[i] = s[i]
  BY <1>1, Joined
<1> HIDE DEF p
<1>3. Len(p) = 4 /\ p[1] = a /\ p[2] = b /\ p[3] = c /\ p[4] = d
  <2>1. Len(s) + 1 = 4 /\ 1 \in 1 .. Len(s) /\ 2 \in 1 .. Len(s) /\ 3 \in 1 .. Len(s)
    BY <1>1
  <2>2. p[1] = s[1] /\ p[2] = s[2] /\ p[3] = s[3]
    BY <1>2, <2>1
  <2>3. Len(p) = 4 /\ p[4] = d
    BY <1>2, <2>1
  <2> QED BY <1>1, <2>2, <2>3
<1>4. p = <<a, b, c, d>>
  BY <1>2, <1>3, Tuples
<1> QED BY <1>2, <1>4 DEF p, s

\* What a path has behind its first segments.
LEMMA RestOf ==
  ASSUME NEW s \in Seq(STRING), NEW m \in 1 .. Len(s)
  PROVE  LET r == SubSeq(s, m, Len(s))
         IN  /\ r \in Seq(STRING) /\ Len(r) = Len(s) - m + 1
             /\ \A i \in 1 .. Len(s) - m + 1 : r[i] = s[m + i - 1]
<1>1. Len(s) \in Nat /\ m \in Int /\ m <= Len(s) /\ \A i \in m .. Len(s) : s[i] \in STRING
  OBVIOUS
<1> QED BY <1>1, SubSeqProperties

LEMMA RestsAre ==
  ASSUME NEW s \in Seq(STRING)
  PROVE  /\ Len(s) = 2 => SubSeq(s, 2, 2) = <<s[2]>> /\ Tail(s) = <<s[2]>>
         /\ Len(s) = 3 => SubSeq(s, 2, 3) = <<s[2], s[3]>> /\ SubSeq(s, 3, 3) = <<s[3]>>
         /\ Len(s) = 4 => SubSeq(s, 3, 4) = <<s[3], s[4]>>
<1>1. ASSUME Len(s) = 2 PROVE SubSeq(s, 2, 2) = <<s[2]>> /\ Tail(s) = <<s[2]>>
  <2> DEFINE r == SubSeq(s, 2, 2)
  <2>1. r \in Seq(STRING) /\ Len(r) = 1 /\ r[1] = s[2]
    <3> DEFINE n == Len(s)
    <3>1. n = 2 /\ r = SubSeq(s, 2, n) /\ 2 \in 1 .. n
      BY <1>1
    <3>2. SubSeq(s, 2, n) \in Seq(STRING) /\ Len(SubSeq(s, 2, n)) = n - 2 + 1
          /\ \A i \in 1 .. n - 2 + 1 : SubSeq(s, 2, n)[i] = s[2 + i - 1]
      BY <3>1, RestOf, Zenon
    <3> HIDE DEF n
    <3>3. r \in Seq(STRING) /\ Len(r) = n - 2 + 1 /\ \A i \in 1 .. n - 2 + 1 : r[i] = s[2 + i - 1]
      BY <3>1, <3>2
    <3> HIDE DEF r
    <3> QED BY <3>1, <3>3
  <2>2. Tail(s) = r
    <3>1. s # <<>>
      BY <1>1
    <3> QED BY <1>1, <3>1, TailIsSubSeq
  <2> HIDE DEF r
  <2>3. r = <<r[1]>>
    BY <2>1, Tuples
  <2> QED BY <2>1, <2>2, <2>3 DEF r
<1>2. ASSUME Len(s) = 3 PROVE SubSeq(s, 2, 3) = <<s[2], s[3]>> /\ SubSeq(s, 3, 3) = <<s[3]>>
  <2> DEFINE r == SubSeq(s, 2, 3)
             q == SubSeq(s, 3, 3)
  <2>1. r \in Seq(STRING) /\ Len(r) = 2 /\ r[1] = s[2] /\ r[2] = s[3]
    <3> DEFINE n == Len(s)
    <3>1. n = 3 /\ r = SubSeq(s, 2, n) /\ 2 \in 1 .. n
      BY <1>2
    <3>2. SubSeq(s, 2, n) \in Seq(STRING) /\ Len(SubSeq(s, 2, n)) = n - 2 + 1
          /\ \A i \in 1 .. n - 2 + 1 : SubSeq(s, 2, n)[i] = s[2 + i - 1]
      BY <3>1, RestOf, Zenon
    <3> HIDE DEF n
    <3>3. r \in Seq(STRING) /\ Len(r) = n - 2 + 1 /\ \A i \in 1 .. n - 2 + 1 : r[i] = s[2 + i - 1]
      BY <3>1, <3>2
    <3> HIDE DEF r
    <3> QED BY <3>1, <3>3
  <2>2. q \in Seq(STRING) /\ Len(q) = 1 /\ q[1] = s[3]
    <3>1. q \in Seq(STRING) /\ Len(q) = 3 - 3 + 1 /\ \A i \in 1 .. 3 - 3 + 1 : q[i] = s[3 + i - 1]
      BY <1>2, RestOf
    <3> HIDE DEF q
    <3> QED BY <3>1
  <2> HIDE DEF r, q
  <2>3. r = <<r[1], r[2]>> /\ q = <<q[1]>>
    BY <2>1, <2>2, Tuples
  <2> QED BY <2>1, <2>2, <2>3 DEF r, q
<1>3. ASSUME Len(s) = 4 PROVE SubSeq(s, 3, 4) = <<s[3], s[4]>>
  <2> DEFINE r == SubSeq(s, 3, 4)
  <2>1. r \in Seq(STRING) /\ Len(r) = 2 /\ r[1] = s[3] /\ r[2] = s[4]
    BY <1>3, RestOf
  <2> HIDE DEF r
  <2>2. r = <<r[1], r[2]>>
    BY <2>1, Tuples
  <2> QED BY <2>1, <2>2 DEF r
<1> QED BY <1>1, <1>2, <1>3

\* A path has a group, and a namespace, only if there is one.
LEMMA PathSegments ==
  ASSUME NEW group \in STRING, NEW resource \in STRING, NEW ns \in STRING, NEW name \in STRING
  PROVE  LogicalPath(group, resource, ns, name) =
           IF group = ""
           THEN IF ns = "" THEN <<resource, name>> ELSE <<resource, ns, name>>
           ELSE IF ns = "" THEN <<group, resource, name>> ELSE <<group, resource, ns, name>>
<1> DEFINE base == Segment(group) \o <<resource>>
           path == (base \o Segment(ns)) \o <<name>>
<1>1. LogicalPath(group, resource, ns, name) = path
  BY Zenon DEF LogicalPath
<1>2. base = IF group = "" THEN <<resource>> ELSE <<group, resource>>
  <2>1. CASE group = ""
    <3>1. Segment(group) = <<>>
      BY <2>1, Zenon DEF Segment
    <3>2. <<>> \o <<resource>> = <<resource>>
      BY Single, ConcatEmptySeq
    <3> QED BY <2>1, <3>1, <3>2, Zenon
  <2>2. CASE group # ""
    <3>1. Segment(group) = <<group>>
      BY <2>2, Zenon DEF Segment
    <3> QED BY <2>2, <3>1, Pairs, Zenon
  <2> QED BY <2>1, <2>2
<1> HIDE DEF base
<1>3. base \in Seq(STRING)
  BY <1>2, Single, Pairs, Zenon
<1>4. CASE ns = ""
  <2>1. Segment(ns) = <<>>
    BY <1>4, Zenon DEF Segment
  <2>2. base \o <<>> = base
    BY <1>3, ConcatEmptySeq
  <2>3. path = base \o <<name>>
    BY <2>1, <2>2, Zenon
  <2>4. <<resource>> \o <<name>> = <<resource, name>> /\ <<group, resource>> \o <<name>> = <<group, resource, name>>
    BY Pairs, Triples, Zenon
  <2> QED BY <1>1, <1>2, <1>4, <2>3, <2>4, Zenon
<1>5. CASE ns # ""
  <2>1. Segment(ns) = <<ns>>
    BY <1>5, Zenon DEF Segment
  <2>2. <<resource>> \o <<ns>> = <<resource, ns>> /\ <<group, resource>> \o <<ns>> = <<group, resource, ns>>
    BY Pairs, Triples, Zenon
  <2>3. <<resource, ns>> \o <<name>> = <<resource, ns, name>>
    BY Triples, Zenon
  <2>4. <<group, resource, ns>> \o <<name>> = <<group, resource, ns, name>>
    BY Quadruples, Zenon
  <2> QED BY <1>1, <1>2, <1>5, <2>1, <2>2, <2>3, <2>4, Zenon
<1> QED BY <1>4, <1>5, Zenon

\* What the store makes of a path that has been taken apart.
TargetAt(info, own, grouped, rest) ==
  LET placed == info.namespaced /\ Len(rest) >= 2
      ns     == IF placed THEN rest[1] ELSE IF info.namespaced /\ ~grouped THEN own ELSE ""
  IN  [info |-> info, key |-> Key(info, ns, IF placed THEN Tail(rest) ELSE rest)]

LEMMA TargetParts ==
  ASSUME NEW rows, NEW version, NEW own, NEW path
  PROVE  /\ path[1] \in Dotted /\ Len(path) >= 3 =>
              Target(rows, version, own, path)
                = TargetAt(TargetInfo(rows, path[1], version, path[2]), own, TRUE, SubSeq(path, 3, Len(path)))
         /\ path[1] \notin Dotted =>
              Target(rows, version, own, path)
                = TargetAt(TargetInfo(rows, "", version, path[1]), own, FALSE, SubSeq(path, 2, Len(path)))
BY Zenon DEF Target, TargetAt

\* A name, with a namespace if there is one.
Rest(ns, name) == IF ns = "" THEN <<name>> ELSE <<ns, name>>

LEMMA RestParts ==
  ASSUME NEW ns \in STRING, NEW name \in STRING
  PROVE  /\ ns = "" => Rest(ns, name) = <<name>>
         /\ ns # "" => Len(Rest(ns, name)) >= 2 /\ Rest(ns, name)[1] = ns /\ Tail(Rest(ns, name)) = <<name>>
<1> DEFINE pair == <<ns, name>>
<1>1. pair \in Seq(STRING) /\ Len(pair) = 2 /\ pair[1] = ns /\ pair[2] = name
  BY Pairs
<1>2. Tail(pair) = <<name>>
  BY <1>1, RestsAre
<1> HIDE DEF pair
<1>3. Len(pair) >= 2 /\ pair[1] = ns
  BY <1>1
<1> QED BY <1>2, <1>3, Zenon DEF Rest, pair

LEMMA TargetAtNames ==
  ASSUME NEW type, NEW ns \in STRING, HasScope(type, ns), NEW name \in STRING, NEW own, NEW grouped
  PROVE  TargetAt(type, own, grouped, Rest(ns, name)) = [info |-> type, key |-> Key(type, ns, <<name>>)]
<1>1. CASE ns = ""
  <2>1. ~type.namespaced
    BY <1>1, Zenon DEF HasScope
  <2>2. Rest(ns, name) = <<name>>
    BY <1>1, RestParts, Zenon
  <2> QED BY <1>1, <2>1, <2>2, Zenon DEF TargetAt
<1>2. CASE ns # ""
  <2>1. type.namespaced
    BY <1>2, Zenon DEF HasScope
  <2>2. Len(Rest(ns, name)) >= 2 /\ Rest(ns, name)[1] = ns /\ Tail(Rest(ns, name)) = <<name>>
    BY <1>2, RestParts, Zenon
  <2> QED BY <2>1, <2>2, Zenon DEF TargetAt
<1> QED BY <1>1, <1>2

\* The path of an object leads to it.
LeadsTo(rows, version, own, type, ns, name) ==
  Target(rows, version, own, LogicalPath(type.group, type.resource, ns, name))
    = [info |-> type, key |-> Key(type, ns, <<name>>)]

LEMMA PathLeads ==
  ASSUME NEW rows, Lists(rows), NEW type \in ClusterTypes, NEW version, PathIsKnown(version, type),
         NEW ns \in STRING, HasScope(type, ns), NEW name \in STRING, NEW own
  PROVE  LeadsTo(rows, version, own, type, ns, name)
<1> DEFINE group == type.group
           res   == type.resource
           path  == LogicalPath(group, res, ns, name)
           rest  == Rest(ns, name)
<1>1. group \in STRING /\ res \in STRING
  <2>1. type \in Infos
    BY ClusterAssumption, Zenon
  <2> QED BY <2>1 DEF Infos
<1>2. TargetInfo(rows, group, version, res) = type
  BY TargetInfoIs
<1> HIDE DEF rest, group, res
<1>3. \A grouped : TargetAt(type, own, grouped, rest) = [info |-> type, key |-> Key(type, ns, <<name>>)]
  BY TargetAtNames DEF rest
<1>4. path = IF group = ""
             THEN IF ns = "" THEN <<res, name>> ELSE <<res, ns, name>>
             ELSE IF ns = "" THEN <<group, res, name>> ELSE <<group, res, ns, name>>
  BY <1>1, PathSegments
<1>5. IF group = "" THEN res \notin Dotted ELSE group \in Dotted
  BY DEF PathIsKnown, group, res
<1> HIDE DEF path
<1>6. CASE group = ""
  <2>1. path \in Seq(STRING) /\ path[1] = res /\ SubSeq(path, 2, Len(path)) = rest
    <3>1. CASE ns = ""
      <4>1. path = <<res, name>> /\ rest = <<name>>
        BY <1>4, <1>6, <3>1 DEF rest, Rest
      <4>2. path \in Seq(STRING) /\ Len(path) = 2 /\ path[1] = res /\ path[2] = name
        BY <1>1, <4>1, Pairs
      <4> QED BY <4>1, <4>2, RestsAre
    <3>2. CASE ns # ""
      <4>1. path = <<res, ns, name>> /\ rest = <<ns, name>>
        BY <1>4, <1>6, <3>2 DEF rest, Rest
      <4>2. path \in Seq(STRING) /\ Len(path) = 3 /\ path[1] = res /\ path[2] = ns /\ path[3] = name
        BY <1>1, <4>1, Triples
      <4> QED BY <4>1, <4>2, RestsAre
    <3> QED BY <3>1, <3>2
  <2>2. path[1] \notin Dotted
    BY <1>5, <1>6, <2>1
  <2>3. Target(rows, version, own, path) = TargetAt(TargetInfo(rows, "", version, path[1]), own, FALSE, SubSeq(path, 2, Len(path)))
    BY <2>2, TargetParts
  <2>4. Target(rows, version, own, path) = TargetAt(type, own, FALSE, rest)
    BY <1>2, <1>6, <2>1, <2>3, Zenon
  <2> QED BY <1>3, <2>4, Zenon DEF LeadsTo, path, group, res
<1>7. CASE group # ""
  <2>1. path[1] = group /\ path[2] = res /\ Len(path) >= 3 /\ SubSeq(path, 3, Len(path)) = rest
    <3>1. CASE ns = ""
      <4>1. path = <<group, res, name>> /\ rest = <<name>>
        BY <1>4, <1>7, <3>1 DEF rest, Rest
      <4>2. path \in Seq(STRING) /\ Len(path) = 3 /\ path[1] = group /\ path[2] = res /\ path[3] = name
        BY <1>1, <4>1, Triples
      <4>3. SubSeq(path, 3, 3) = <<name>>
        BY <4>2, RestsAre
      <4>4. Len(path) >= 3
        BY <4>2
      <4> QED BY <4>1, <4>2, <4>3, <4>4, Zenon
    <3>2. CASE ns # ""
      <4>1. path = <<group, res, ns, name>> /\ rest = <<ns, name>>
        BY <1>4, <1>7, <3>2 DEF rest, Rest
      <4>2. path \in Seq(STRING) /\ Len(path) = 4 /\ path[1] = group /\ path[2] = res /\ path[3] = ns /\ path[4] = name
        BY <1>1, <4>1, Quadruples
      <4>3. SubSeq(path, 3, 4) = <<ns, name>>
        BY <4>2, RestsAre
      <4>4. Len(path) >= 3
        BY <4>2
      <4> QED BY <4>1, <4>2, <4>3, <4>4, Zenon
    <3> QED BY <3>1, <3>2
  <2>2. path[1] \in Dotted
    BY <1>5, <1>7, <2>1
  <2>3. Target(rows, version, own, path)
          = TargetAt(TargetInfo(rows, path[1], version, path[2]), own, TRUE, SubSeq(path, 3, Len(path)))
    BY <2>1, <2>2, TargetParts
  <2>4. Target(rows, version, own, path) = TargetAt(type, own, TRUE, rest)
    BY <1>2, <2>1, <2>3, Zenon
  <2> QED BY <1>3, <2>4, Zenon DEF LeadsTo, path, group, res
<1> QED BY <1>6, <1>7

\* The resolver has the resources it began with, and others of the cluster.
Learns(known) ==
  /\ IsSequence(known) /\ ToSet(known) \subseteq Known
  /\ ToSet(Standard) \cup ToSet(Discovered) \subseteq ToSet(known)

LEMMA KindParts ==
  ASSUME NEW ref, NEW type, KindIsKnown(ref, type)
  PROVE  /\ AskedKind(ref) = type.kind /\ AskedGroup(ref) \in {"", type.group}
         /\ \A info \in Known : info.kind = type.kind /\ AskedGroup(ref) \in {"", info.group}
              => info.group = type.group /\ info.resource = type.resource
         /\ \/ \E info \in ToSet(Standard) \cup ToSet(Discovered) : info.group = type.group /\ info.kind = type.kind
            \/ AskedGroup(ref) = type.group /\ FallbackResource(type.kind) = type.resource
BY Zenon DEF KindIsKnown

LEMMA KindScope ==
  ASSUME NEW ref, NEW type, KindIsKnown(ref, type)
  PROVE  /\ \A info \in Known : info.kind = type.kind => info.namespaced = type.namespaced
         /\ \/ \E info \in ToSet(Standard) \cup ToSet(Discovered) : info.group = type.group /\ info.kind = type.kind
            \/ type.namespaced <=> type.kind \notin ClusterScopedKinds
BY Zenon DEF KindIsKnown

\* What the resolver takes a kind for, when it is asked for it, ...
LEMMA ResolvesTo ==
  ASSUME NEW known, Learns(known), NEW ref, NEW type, KindIsKnown(ref, type)
  PROVE  LET info == ResolveGVK(known, AskedGroup(ref), type.kind)
         IN  info.group = type.group /\ info.resource = type.resource
<1> DEFINE group == AskedGroup(ref)
           some  == {j \in DOMAIN known : known[j].kind = type.kind}
           i     == InGroup(known, group, some)
<1>1. Offered(i, known, group, some)
  BY InGroupIsOffered DEF Learns
<1>2. \A j \in DOMAIN known : known[j] \in Known
  BY DEF Learns, ToSet
<1>3. CASE i # 0
  <2>1. i \in DOMAIN known /\ known[i].kind = type.kind /\ group \in {"", known[i].group}
    BY <1>1, <1>3 DEF Offered
  <2>2. known[i].group = type.group /\ known[i].resource = type.resource
    BY <1>2, <2>1, KindParts
  <2> QED BY <1>3, <2>2 DEF ResolveGVK
<1>4. CASE i = 0
  <2>1. group = type.group /\ FallbackResource(type.kind) = type.resource
    <3> SUFFICES ASSUME NEW info \in ToSet(Standard) \cup ToSet(Discovered),
                        info.group = type.group, info.kind = type.kind
                 PROVE  FALSE
      BY KindParts
    <3>1. PICK j \in DOMAIN known : known[j] = info
      BY DEF Learns, ToSet
    <3>2. j \in some /\ some # {}
      BY <3>1
    <3>3. known[j].group # group
      BY <1>1, <1>4, <3>2 DEF Offered
    <3>4. group = ""
      BY <3>1, <3>3, KindParts
    <3>5. i # 0
      <4>1. DOMAIN known = 1 .. Len(known) /\ Len(known) \in Nat
        BY DEF Learns, IsSequence
      <4>2. {j1 \in some : known[j1].group = group} = {}
        BY <1>1, <1>4 DEF Offered
      <4>3. i = Min(some)
        BY <3>2, <3>4, <4>2 DEF InGroup
      <4>4. Min(some) \in some
        BY <3>2, <4>1, FirstAndLast
      <4> QED BY <4>1, <4>3, <4>4
    <3> QED BY <1>4, <3>5
  <2>2. ResolveGVK(known, group, type.kind) = FallbackInfo(group, "v1", FallbackResource(type.kind), type.kind)
    BY <1>4 DEF ResolveGVK
  <2> QED BY <2>1, <2>2, FallbackParts
<1> QED BY <1>3, <1>4

LEMMA ScopeField ==
  ASSUME NEW group, NEW version, NEW resource, NEW kind, NEW scope
  PROVE  [group |-> group, version |-> version, resource |-> resource, kind |-> kind,
          namespaced |-> scope].namespaced = scope
OBVIOUS

\* ... and for its scope.
LEMMA ScopeIs ==
  ASSUME NEW known, Learns(known), NEW ref, NEW type, KindIsKnown(ref, type)
  PROVE  IsNamespacedKind(known, type.kind) <=> type.namespaced
<1> DEFINE some == {j \in DOMAIN known : known[j].kind = type.kind}
           i    == InGroup(known, "", some)
<1>1. Offered(i, known, "", some)
  BY InGroupIsOffered DEF Learns
<1>2. \A j \in DOMAIN known : known[j] \in Known
  BY DEF Learns, ToSet
<1>3. CASE i # 0
  <2>1. i \in DOMAIN known /\ known[i].kind = type.kind
    BY <1>1, <1>3 DEF Offered
  <2>2. known[i].namespaced = type.namespaced
    BY <1>2, <2>1, KindScope, Zenon
  <2> QED BY <1>3, <2>2, Zenon DEF IsNamespacedKind, ResolveGVK
<1>4. CASE i = 0
  <2>1. some = {}
    <3>1. DOMAIN known = 1 .. Len(known) /\ Len(known) \in Nat
      BY DEF Learns, IsSequence
    <3>2. {j \in some : known[j].group = ""} = {}
      BY <1>1, <1>4 DEF Offered
    <3>3. some # {} => i = Min(some)
      BY <3>2 DEF InGroup
    <3>4. some # {} => Min(some) \in some
      BY <3>1, FirstAndLast
    <3> HIDE DEF some, i
    <3>5. \A j \in some : j # 0
      BY <3>1 DEF some
    <3> QED BY <1>4, <3>3, <3>4, <3>5
  <2>2. ~ \E info \in ToSet(Standard) \cup ToSet(Discovered) : info.group = type.group /\ info.kind = type.kind
    BY <2>1 DEF Learns, ToSet
  <2>3. type.namespaced <=> type.kind \notin ClusterScopedKinds
    BY <2>2, KindScope, Zenon
  <2>4. IsNamespacedKind(known, type.kind) = FallbackInfo("", "v1", FallbackResource(type.kind), type.kind).namespaced
    BY <1>4, Zenon DEF IsNamespacedKind, ResolveGVK
  <2> DEFINE scope == ("" # "" \/ type.kind \notin ClusterScopedKinds)
  <2>5. FallbackInfo("", "v1", FallbackResource(type.kind), type.kind)
          = [group |-> "", version |-> "v1", resource |-> FallbackResource(type.kind), kind |-> type.kind,
             namespaced |-> scope]
    BY Zenon DEF FallbackInfo
  <2> HIDE DEF scope
  <2>6. IsNamespacedKind(known, type.kind) = scope
    <3> DEFINE info == [group |-> "", version |-> "v1", resource |-> FallbackResource(type.kind),
                        kind |-> type.kind, namespaced |-> scope]
    <3>1. info.namespaced = scope
      BY ScopeField, Zenon
    <3>2. FallbackInfo("", "v1", FallbackResource(type.kind), type.kind) = info
      BY <2>5, Zenon
    <3> HIDE DEF info
    <3> QED BY <2>4, <3>1, <3>2, Zenon
  <2> QED BY <2>3, <2>6, Zenon DEF scope
<1> QED BY <1>3, <1>4

\* The namespace that a reference means.
Place(type, ref, own) == IF type.namespaced THEN OrDefault(ref.ns, own) ELSE ""

LEMMA PathToLeads ==
  ASSUME NEW known, Learns(known), NEW ref, NEW type, KindIsKnown(ref, type), NEW ns, NEW name
  PROVE  PathTo(known, AskedGroup(ref), type.kind, ns, name)
           \in {NoPath, LogicalPath(type.group, type.resource, ns, name)}
<1> DEFINE info == ResolveGVK(known, AskedGroup(ref), type.kind)
<1>1. info.group = type.group /\ info.resource = type.resource
  BY ResolvesTo
<1> HIDE DEF info
<1> QED BY <1>1, Zenon DEF PathTo, info

\* A reference that states its kind is given that namespace, ...
LEMMA GivenIsPlace ==
  ASSUME NEW known, Learns(known), NEW ob, NEW ref, NEW type, KindIsKnown(ref, type), IsPlaced(ob, ref, type)
  PROVE  GivenOrOwn(known, type.kind, ref.ns, ob.ns) = Place(type, ref, ob.ns)
<1>1. IsNamespacedKind(known, type.kind) <=> type.namespaced
  BY ScopeIs
<1>2. IF type.namespaced THEN OrDefault(ref.ns, ob.ns) # "" ELSE ref.ns = ""
  BY Zenon DEF IsPlaced
<1>3. CASE type.namespaced
  BY <1>1, <1>2, <1>3, Zenon DEF GivenOrOwn, Place, OrDefault
<1>4. CASE ~type.namespaced
  BY <1>1, <1>2, <1>4, Zenon DEF GivenOrOwn, Place, OrDefault
<1> QED BY <1>3, <1>4, Zenon

\* ... and so is one at a site that has a rule of its own for it.
LEMMA PlaceAt ==
  ASSUME NEW ob, NEW ref, NEW type, IsPlaced(ob, ref, type), ref.site \notin ObjectFields
  PROVE  /\ IsClusterWide(ref, type.kind) => Place(type, ref, ob.ns) = ""
         /\ ~IsClusterWide(ref, type.kind) =>
              /\ Place(type, ref, ob.ns) = OrDefault(ref.ns, ob.ns)
              /\ ref.site \in OwnNamespace => Place(type, ref, ob.ns) = ob.ns
              /\ ref.ns # "" => Place(type, ref, ob.ns) = ref.ns
<1>1. type.namespaced <=> ~IsClusterWide(ref, type.kind)
  BY Zenon DEF IsPlaced
<1>2. IF type.namespaced THEN OrDefault(ref.ns, ob.ns) # "" ELSE ref.ns = ""
  BY Zenon DEF IsPlaced
<1>3. ref.site \in OwnNamespace => ref.ns = "" \/ ref.ns = ob.ns
  BY Zenon DEF IsPlaced
<1>4. CASE type.namespaced
  BY <1>1, <1>2, <1>3, <1>4, Zenon DEF Place, OrDefault
<1>5. CASE ~type.namespaced
  BY <1>1, <1>2, <1>3, <1>5, Zenon DEF Place, OrDefault
<1> QED BY <1>4, <1>5, Zenon

LEMMA SiteNames ==
  /\ DOMAIN PodFields = {"uses_serviceaccount", "uses_secret", "uses_configmap", "uses_pvc"}
  /\ DOMAIN LocalFields = {"serviceaccount_uses_secret", "serviceaccount_uses_imagepullsecret",
                           "ingress_routes_to_service", "certmanager_writes_secret",
                           "certmanager_uses_private_key_secret"}
  /\ DOMAIN LocalIn = {"certmanager_references_certificate", "certmanager_references_certificaterequest",
                       "certmanager_references_order"}
  /\ DOMAIN ClusterFields = {"pvc_bound_to_pv", "pvc_uses_storageclass", "pv_uses_storageclass",
                             "gateway_uses_gatewayclass"}
  /\ DOMAIN Unasked = {"pod_on_node", "endpointslice_for_service", "endpointslice_targets_pod"}
BY DEF PodFields, LocalFields, LocalIn, ClusterFields, Unasked

\* The sites that have a rule of their own.
Named ==
  ObjectFields \cup DOMAIN Unasked
    \cup {"pv_bound_to_pvc", "rbac_binding_grants_role", "rbac_binding_binds_subject", "certmanager_uses_issuer"}

\* The classes of sites have none in common.
LEMMA SitesDiffer ==
  ASSUME NEW site
  PROVE  /\ site \in DOMAIN PodFields =>
              site \notin Named \cup DOMAIN LocalFields \cup DOMAIN LocalIn \cup DOMAIN ClusterFields \cup ServiceFields
         /\ site \in DOMAIN LocalFields =>
              site \notin Named \cup DOMAIN PodFields \cup DOMAIN LocalIn \cup DOMAIN ClusterFields \cup ServiceFields
         /\ site \in DOMAIN LocalIn =>
              site \notin Named \cup DOMAIN PodFields \cup DOMAIN LocalFields \cup DOMAIN ClusterFields \cup ServiceFields
         /\ site \in DOMAIN ClusterFields =>
              site \notin Named \cup DOMAIN PodFields \cup DOMAIN LocalFields \cup DOMAIN LocalIn \cup ServiceFields
         /\ site \in ServiceFields =>
              site \notin Named \cup DOMAIN PodFields \cup DOMAIN LocalFields \cup DOMAIN LocalIn \cup DOMAIN ClusterFields
<1> DEFINE pods     == {"uses_serviceaccount", "uses_secret", "uses_configmap", "uses_pvc"}
           locals   == {"serviceaccount_uses_secret", "serviceaccount_uses_imagepullsecret",
                        "ingress_routes_to_service", "certmanager_writes_secret",
                        "certmanager_uses_private_key_secret"}
           ins      == {"certmanager_references_certificate", "certmanager_references_certificaterequest",
                        "certmanager_references_order"}
           clusters == {"pvc_bound_to_pv", "pvc_uses_storageclass", "pv_uses_storageclass",
                        "gateway_uses_gatewayclass"}
           unasked  == {"pod_on_node", "endpointslice_for_service", "endpointslice_targets_pod"}
           named    == ObjectFields \cup unasked
                         \cup {"pv_bound_to_pvc", "rbac_binding_grants_role", "rbac_binding_binds_subject",
                               "certmanager_uses_issuer"}
<1>1. site \in pods => site \notin named \cup locals \cup ins \cup clusters \cup ServiceFields
  BY DEF ObjectFields, ServiceFields
<1>2. site \in locals => site \notin named \cup pods \cup ins \cup clusters \cup ServiceFields
  BY DEF ObjectFields, ServiceFields
<1>3. site \in ins => site \notin named \cup pods \cup locals \cup clusters \cup ServiceFields
  BY DEF ObjectFields, ServiceFields
<1>4. site \in clusters => site \notin named \cup pods \cup locals \cup ins \cup ServiceFields
  BY DEF ObjectFields, ServiceFields
<1>5. site \in ServiceFields => site \notin named \cup pods \cup locals \cup ins \cup clusters
  BY DEF ObjectFields, ServiceFields
<1> QED BY <1>1, <1>2, <1>3, <1>4, <1>5, SiteNames, Zenon DEF Named

\* What each class of sites asks for, ...
LEMMA ClassAsks ==
  ASSUME NEW known, NEW own, NEW ref
  PROVE  /\ ref.site \in DOMAIN PodFields =>
              /\ AskedKind(ref) = PodFields[ref.site] /\ AskedGroup(ref) = ""
              /\ Path(known, own, ref) = PathTo(known, "", PodFields[ref.site], own, ref.name)
         /\ ref.site \in DOMAIN LocalFields =>
              /\ AskedKind(ref) = LocalFields[ref.site] /\ AskedGroup(ref) = ""
              /\ Path(known, own, ref) = PathTo(known, "", LocalFields[ref.site], own, ref.name)
         /\ ref.site \in DOMAIN LocalIn =>
              /\ AskedKind(ref) = LocalIn[ref.site][2] /\ AskedGroup(ref) = LocalIn[ref.site][1]
              /\ Path(known, own, ref) = PathTo(known, LocalIn[ref.site][1], LocalIn[ref.site][2], own, ref.name)
         /\ ref.site \in DOMAIN ClusterFields =>
              /\ AskedKind(ref) = ClusterFields[ref.site][2] /\ AskedGroup(ref) = ClusterFields[ref.site][1]
              /\ Path(known, own, ref)
                   = PathTo(known, ClusterFields[ref.site][1], ClusterFields[ref.site][2], "", ref.name)
         /\ ref.site \in ServiceFields =>
              /\ AskedKind(ref) = "Service" /\ AskedGroup(ref) = ""
              /\ Path(known, own, ref) = PathTo(known, "", "Service", ref.ns, ref.name)
<1> DEFINE site == ref.site
<1>1. /\ site \notin Named =>
           /\ site \notin {"owned_by", "hpa_scales_target", "event_regarding_object", "pv_bound_to_pvc",
                           "gateway_route_uses_backend"}
           /\ site # "gateway_route_attaches_to_parent" /\ site # "gateway_route_uses_backend"
           /\ site # "rbac_binding_grants_role" /\ site # "rbac_binding_binds_subject"
           /\ site # "certmanager_uses_issuer" /\ site # "pv_bound_to_pvc"
           /\ site \notin {"owned_by", "hpa_scales_target", "event_regarding_object"}
           /\ site # "pod_on_node" /\ site # "endpointslice_for_service" /\ site # "endpointslice_targets_pod"
  BY SiteNames DEF Named, ObjectFields
<1>2. CASE site \in DOMAIN PodFields
  <2>1. site \notin Named \cup DOMAIN LocalFields \cup DOMAIN LocalIn \cup DOMAIN ClusterFields \cup ServiceFields
    BY <1>2, SitesDiffer, Zenon
  <2> QED BY <1>1, <1>2, <2>1 DEF AskedKind, AskedGroup, Path
<1>3. CASE site \in DOMAIN LocalFields
  <2>1. site \notin Named \cup DOMAIN PodFields \cup DOMAIN LocalIn \cup DOMAIN ClusterFields \cup ServiceFields
    BY <1>3, SitesDiffer, Zenon
  <2> QED BY <1>1, <1>3, <2>1 DEF AskedKind, AskedGroup, Path
<1>4. CASE site \in DOMAIN LocalIn
  <2>1. site \notin Named \cup DOMAIN PodFields \cup DOMAIN LocalFields \cup DOMAIN ClusterFields \cup ServiceFields
    BY <1>4, SitesDiffer, Zenon
  <2> QED BY <1>1, <1>4, <2>1 DEF AskedKind, AskedGroup, Path
<1>5. CASE site \in DOMAIN ClusterFields
  <2>1. site \notin Named \cup DOMAIN PodFields \cup DOMAIN LocalFields \cup DOMAIN LocalIn \cup ServiceFields
    BY <1>5, SitesDiffer, Zenon
  <2> QED BY <1>1, <1>5, <2>1 DEF AskedKind, AskedGroup, Path
<1>6. CASE site \in ServiceFields
  <2>1. site \notin Named \cup DOMAIN PodFields \cup DOMAIN LocalFields \cup DOMAIN LocalIn \cup DOMAIN ClusterFields
    BY <1>6, SitesDiffer, Zenon
  <2> QED BY <1>1, <1>6, <2>1 DEF AskedKind, AskedGroup, Path
<1> QED BY <1>2, <1>3, <1>4, <1>5, <1>6, Zenon

LEMMA NamedApart ==
  ASSUME NEW site, site \in Named
  PROVE  /\ site \notin DOMAIN PodFields /\ site \notin DOMAIN LocalFields /\ site \notin DOMAIN LocalIn
         /\ site \notin DOMAIN ClusterFields /\ site \notin ServiceFields
BY SitesDiffer, Zenon

\* ... and each site that has a rule of its own.
LEMMA SiteAsks ==
  ASSUME NEW known, NEW own, NEW ref
  PROVE  /\ ref.site \in {"owned_by", "hpa_scales_target", "event_regarding_object"} =>
              AskedGroup(ref) = ref.group /\ Path(known, own, ref) = ObjectRefPath(known, own, ref)
         /\ ref.site = "pv_bound_to_pvc" =>
              AskedGroup(ref) = ref.group /\ Path(known, own, ref) = ClaimPath(known, ref)
         /\ ref.site = "gateway_route_attaches_to_parent" =>
              /\ AskedGroup(ref) = OrDefault(ref.group, "gateway.networking.k8s.io")
              /\ Path(known, own, ref) = GatewayPath(known, own, ref, "Gateway", "gateway.networking.k8s.io")
         /\ ref.site = "gateway_route_uses_backend" =>
              AskedGroup(ref) = ref.group /\ Path(known, own, ref) = GatewayPath(known, own, ref, "Service", "")
         /\ ref.site = "rbac_binding_grants_role" =>
              /\ AskedGroup(ref) = OrDefault(ref.group, "rbac.authorization.k8s.io")
              /\ Path(known, own, ref) = RolePath(known, own, ref)
         /\ ref.site = "rbac_binding_binds_subject" =>
              /\ AskedGroup(ref) = IF ref.kind # "ServiceAccount" THEN "rbac.authorization.k8s.io" ELSE ""
              /\ Path(known, own, ref) = SubjectPath(known, own, ref)
         /\ ref.site = "certmanager_uses_issuer" =>
              /\ AskedGroup(ref) = OrDefault(ref.group, "cert-manager.io")
              /\ Path(known, own, ref) = IssuerPath(known, own, ref)
<1>1. ASSUME ref.site \in {"owned_by", "hpa_scales_target", "event_regarding_object"}
      PROVE  AskedGroup(ref) = ref.group /\ Path(known, own, ref) = ObjectRefPath(known, own, ref)
  <2>1. ref.site \in Named
    BY <1>1 DEF Named, ObjectFields
  <2> QED BY <1>1, <2>1, NamedApart DEF AskedGroup, Path
<1>2. ASSUME ref.site = "pv_bound_to_pvc"
      PROVE  AskedGroup(ref) = ref.group /\ Path(known, own, ref) = ClaimPath(known, ref)
  <2>1. ref.site \in Named
    BY <1>2 DEF Named, ObjectFields
  <2> QED BY <1>2, <2>1, NamedApart DEF AskedGroup, Path
<1>3. ASSUME ref.site = "gateway_route_attaches_to_parent"
      PROVE  /\ AskedGroup(ref) = OrDefault(ref.group, "gateway.networking.k8s.io")
             /\ Path(known, own, ref) = GatewayPath(known, own, ref, "Gateway", "gateway.networking.k8s.io")
  <2>1. ref.site \in Named
    BY <1>3 DEF Named, ObjectFields
  <2> QED BY <1>3, <2>1, NamedApart DEF AskedGroup, Path
<1>4. ASSUME ref.site = "gateway_route_uses_backend"
      PROVE  AskedGroup(ref) = ref.group /\ Path(known, own, ref) = GatewayPath(known, own, ref, "Service", "")
  <2>1. ref.site \in Named
    BY <1>4 DEF Named, ObjectFields
  <2> QED BY <1>4, <2>1, NamedApart DEF AskedGroup, Path
<1>5. ASSUME ref.site = "rbac_binding_grants_role"
      PROVE  /\ AskedGroup(ref) = OrDefault(ref.group, "rbac.authorization.k8s.io")
             /\ Path(known, own, ref) = RolePath(known, own, ref)
  <2>1. ref.site \in Named
    BY <1>5 DEF Named, ObjectFields
  <2> QED BY <1>5, <2>1, NamedApart DEF AskedGroup, Path
<1>6. ASSUME ref.site = "rbac_binding_binds_subject"
      PROVE  /\ AskedGroup(ref) = IF ref.kind # "ServiceAccount" THEN "rbac.authorization.k8s.io" ELSE ""
             /\ Path(known, own, ref) = SubjectPath(known, own, ref)
  <2>1. ref.site \in Named
    BY <1>6 DEF Named, ObjectFields
  <2> QED BY <1>6, <2>1, NamedApart DEF AskedGroup, Path
<1>7. ASSUME ref.site = "certmanager_uses_issuer"
      PROVE  /\ AskedGroup(ref) = OrDefault(ref.group, "cert-manager.io")
             /\ Path(known, own, ref) = IssuerPath(known, own, ref)
  <2>1. ref.site \in Named
    BY <1>7 DEF Named, ObjectFields
  <2> QED BY <1>7, <2>1, NamedApart DEF AskedGroup, Path
<1> QED BY <1>1, <1>2, <1>3, <1>4, <1>5, <1>6, <1>7, Zenon

\* The resolver is asked for what the reference means, ...
LEMMA PathAsks ==
  ASSUME NEW known, Learns(known), NEW ob, NEW ref \in References, NEW type,
         ref.site \notin DOMAIN Unasked, KindIsKnown(ref, type), IsPlaced(ob, ref, type)
  PROVE  Path(known, ob.ns, ref) = PathTo(known, AskedGroup(ref), type.kind, Place(type, ref, ob.ns), ref.name)
<1> DEFINE asked == PathTo(known, AskedGroup(ref), type.kind, Place(type, ref, ob.ns), ref.name)
           site  == ref.site
<1> HIDE DEF asked, site
<1>1. AskedKind(ref) = type.kind
  BY KindParts, Zenon
<1>2. GivenOrOwn(known, type.kind, ref.ns, ob.ns) = Place(type, ref, ob.ns)
  BY GivenIsPlace, Zenon
<1>3. site \in Sites
  BY DEF References, site
<1>4. CASE site \in DOMAIN PodFields \cup DOMAIN LocalFields \cup DOMAIN LocalIn \cup DOMAIN ClusterFields \cup ServiceFields
  <2>1. site \notin Named
    BY <1>4, SitesDiffer, Zenon
  <2>2. site \notin ObjectFields
    BY <2>1, Zenon DEF Named
  <2>3. CASE site \in DOMAIN ClusterFields
    <3>1. IsClusterWide(ref, type.kind)
      BY <2>1, <2>3 DEF IsClusterWide, Named, site
    <3>2. Place(type, ref, ob.ns) = ""
      BY <2>2, <3>1, PlaceAt, Zenon DEF site
    <3> QED BY <1>1, <2>3, <3>2, ClassAsks, Zenon DEF asked, site
  <2>4. ASSUME site \notin DOMAIN ClusterFields
        PROVE  ~IsClusterWide(ref, type.kind)
    <3>1. site \notin {"pod_on_node", "rbac_binding_grants_role", "rbac_binding_binds_subject", "certmanager_uses_issuer"}
      BY <2>1, SiteNames DEF Named
    <3> QED BY <2>4, <3>1 DEF IsClusterWide, site
  <2>5. CASE site \in DOMAIN PodFields \cup DOMAIN LocalFields \cup DOMAIN LocalIn
    <3>1. site \in OwnNamespace /\ site \notin DOMAIN ClusterFields
      BY <2>5, SitesDiffer, Zenon DEF OwnNamespace
    <3>2. Place(type, ref, ob.ns) = ob.ns
      BY <2>2, <2>4, <3>1, PlaceAt, Zenon DEF site
    <3>3. Path(known, ob.ns, ref) = PathTo(known, AskedGroup(ref), AskedKind(ref), ob.ns, ref.name)
      <4>1. CASE site \in DOMAIN PodFields
        <5>1. /\ AskedKind(ref) = PodFields[site] /\ AskedGroup(ref) = ""
              /\ Path(known, ob.ns, ref) = PathTo(known, "", PodFields[site], ob.ns, ref.name)
          BY <4>1, ClassAsks, Zenon DEF site
        <5> QED BY <5>1, Zenon
      <4>2. CASE site \in DOMAIN LocalFields
        <5>1. /\ AskedKind(ref) = LocalFields[site] /\ AskedGroup(ref) = ""
              /\ Path(known, ob.ns, ref) = PathTo(known, "", LocalFields[site], ob.ns, ref.name)
          BY <4>2, ClassAsks, Zenon DEF site
        <5> QED BY <5>1, Zenon
      <4>3. CASE site \in DOMAIN LocalIn
        <5>1. /\ AskedKind(ref) = LocalIn[site][2] /\ AskedGroup(ref) = LocalIn[site][1]
              /\ Path(known, ob.ns, ref) = PathTo(known, LocalIn[site][1], LocalIn[site][2], ob.ns, ref.name)
          BY <4>3, ClassAsks, Zenon DEF site
        <5> QED BY <5>1, Zenon
      <4> QED BY <2>5, <4>1, <4>2, <4>3, Zenon
    <3> QED BY <1>1, <3>2, <3>3, Zenon DEF asked
  <2>6. CASE site \in ServiceFields
    <3>1. site \notin DOMAIN ClusterFields
      BY <2>6, SitesDiffer, Zenon
    <3>2. ref.ns # ""
      BY <2>6, Zenon DEF IsPlaced, site
    <3>3. Place(type, ref, ob.ns) = ref.ns
      BY <2>2, <2>4, <3>1, <3>2, PlaceAt, Zenon DEF site
    <3> QED BY <1>1, <2>6, <3>3, ClassAsks, Zenon DEF asked, site
  <2> QED BY <1>4, <2>3, <2>5, <2>6, Zenon
<1>5. CASE site \in {"owned_by", "hpa_scales_target", "event_regarding_object"}
  <2>1. AskedGroup(ref) = ref.group /\ Path(known, ob.ns, ref) = ObjectRefPath(known, ob.ns, ref)
    BY <1>5, SiteAsks, Zenon DEF site
  <2>2. AskedKind(ref) = ref.kind
    <3>1. site \in Named
      BY <1>5 DEF Named, ObjectFields
    <3>2. KindOf(ref) = ref.kind
      BY <1>5 DEF KindOf, site
    <3> QED BY <3>1, <3>2, NamedApart DEF AskedKind, site
  <2>3. ref.kind # ""
    BY <1>5, Zenon DEF IsPlaced, site
  <2>4. ObjectRefPath(known, ob.ns, ref)
          = PathTo(known, ref.group, ref.kind, GivenOrOwn(known, ref.kind, ref.ns, ob.ns), ref.name)
    BY <2>3, Zenon DEF ObjectRefPath
  <2> QED BY <1>1, <1>2, <2>1, <2>2, <2>4, Zenon DEF asked
<1>6. CASE site = "pv_bound_to_pvc"
  <2>1. AskedGroup(ref) = ref.group /\ Path(known, ob.ns, ref) = ClaimPath(known, ref)
    BY <1>6, SiteAsks, Zenon DEF site
  <2>2. ref.ns # "" /\ ref.kind # ""
    BY <1>6, Zenon DEF IsPlaced, site
  <2>3. site \in Named /\ site \notin ObjectFields
    BY <1>6 DEF Named, ObjectFields
  <2>4. AskedKind(ref) = ref.kind
    <3>1. KindOf(ref) = ref.kind
      BY <1>6 DEF KindOf, site
    <3> QED BY <2>3, <3>1, NamedApart DEF AskedKind, site
  <2>5. ~IsClusterWide(ref, type.kind)
    BY <1>6, <2>3, NamedApart DEF IsClusterWide, site
  <2>6. Place(type, ref, ob.ns) = ref.ns
    BY <2>2, <2>3, <2>5, PlaceAt, Zenon DEF site
  <2>7. [ref EXCEPT !.kind = OrDefault(@, "PersistentVolumeClaim")] = ref
    BY <2>2 DEF References, OrDefault
  <2>8. GivenOrOwn(known, ref.kind, ref.ns, "") = ref.ns
    BY <2>2, Zenon DEF GivenOrOwn
  <2>9. ClaimPath(known, ref) = PathTo(known, ref.group, ref.kind, ref.ns, ref.name)
    BY <2>2, <2>7, <2>8, Zenon DEF ClaimPath, ObjectRefPath
  <2> QED BY <1>1, <2>1, <2>4, <2>6, <2>9, Zenon DEF asked
<1>7. CASE site \in {"gateway_route_attaches_to_parent", "gateway_route_uses_backend"}
  <2>1. site \in Named
    BY <1>7 DEF Named, ObjectFields
  <2>2. AskedKind(ref) = KindOf(ref)
    BY <2>1, NamedApart DEF AskedKind, site
  <2>3. CASE site = "gateway_route_attaches_to_parent"
    <3>1. KindOf(ref) = OrDefault(ref.kind, "Gateway")
      BY <2>3 DEF KindOf, site
    <3>2. /\ AskedGroup(ref) = OrDefault(ref.group, "gateway.networking.k8s.io")
          /\ Path(known, ob.ns, ref) = GatewayPath(known, ob.ns, ref, "Gateway", "gateway.networking.k8s.io")
      BY <2>3, SiteAsks, Zenon DEF site
    <3> QED BY <1>1, <1>2, <2>2, <3>1, <3>2 DEF GatewayPath, asked
  <2>4. CASE site = "gateway_route_uses_backend"
    <3>1. KindOf(ref) = OrDefault(ref.kind, "Service")
      BY <2>4 DEF KindOf, site
    <3>2. OrDefault(ref.group, "") = ref.group
      BY Zenon DEF OrDefault
    <3>3. AskedGroup(ref) = ref.group /\ Path(known, ob.ns, ref) = GatewayPath(known, ob.ns, ref, "Service", "")
      BY <2>4, SiteAsks, Zenon DEF site
    <3> QED BY <1>1, <1>2, <2>2, <3>1, <3>2, <3>3 DEF GatewayPath, asked
  <2> QED BY <1>7, <2>3, <2>4, Zenon
<1>8. CASE site = "rbac_binding_grants_role"
  <2>1. site \in Named /\ site \notin ObjectFields /\ site \in OwnNamespace
    BY <1>8 DEF Named, ObjectFields, OwnNamespace
  <2>2. AskedKind(ref) = ref.kind
    <3>1. KindOf(ref) = ref.kind
      BY <1>8 DEF KindOf, site
    <3> QED BY <2>1, <3>1, NamedApart DEF AskedKind, site
  <2>3. OrDefault(ref.kind, "Role") = ref.kind
    <3>1. ref.kind # ""
      BY <1>8, Zenon DEF IsPlaced, site
    <3> QED BY <3>1, Zenon DEF OrDefault
  <2>4. IsClusterWide(ref, type.kind) <=> type.kind = "ClusterRole"
    BY <1>8, <2>1, NamedApart DEF IsClusterWide, site
  <2>5. Place(type, ref, ob.ns) = IF type.kind = "ClusterRole" THEN "" ELSE ob.ns
    BY <2>1, <2>4, PlaceAt, Zenon DEF site
  <2> QED BY <1>1, <1>8, <2>2, <2>3, <2>5, SiteAsks, Zenon DEF RolePath, asked, site
<1>9. CASE site = "rbac_binding_binds_subject"
  <2>1. site \in Named /\ site \notin ObjectFields
    BY <1>9 DEF Named, ObjectFields
  <2>2. AskedKind(ref) = ref.kind
    <3>1. KindOf(ref) = ref.kind
      BY <1>9 DEF KindOf, site
    <3> QED BY <2>1, <3>1, NamedApart DEF AskedKind, site
  <2>3. ref.kind \in {"User", "Group", "ServiceAccount"}
    BY <1>9, Zenon DEF IsPlaced, site
  <2>4. IsClusterWide(ref, type.kind) <=> type.kind # "ServiceAccount"
    BY <1>9, <2>1, NamedApart DEF IsClusterWide, site
  <2>5. Place(type, ref, ob.ns) = IF type.kind # "ServiceAccount" THEN "" ELSE OrDefault(ref.ns, ob.ns)
    BY <2>1, <2>4, PlaceAt, Zenon DEF site
  <2>6. /\ AskedGroup(ref) = IF ref.kind # "ServiceAccount" THEN "rbac.authorization.k8s.io" ELSE ""
        /\ Path(known, ob.ns, ref) = SubjectPath(known, ob.ns, ref)
    BY <1>9, SiteAsks, Zenon DEF site
  <2>7. CASE ref.kind = "ServiceAccount"
    BY <1>1, <2>2, <2>5, <2>6, <2>7 DEF SubjectPath, asked
  <2>8. CASE ref.kind \in {"User", "Group"}
    BY <1>1, <2>2, <2>5, <2>6, <2>8 DEF SubjectPath, asked
  <2> QED BY <2>3, <2>7, <2>8
<1>10. CASE site = "certmanager_uses_issuer"
  <2>1. site \in Named /\ site \notin ObjectFields /\ site \in OwnNamespace
    BY <1>10 DEF Named, ObjectFields, OwnNamespace
  <2>2. AskedKind(ref) = OrDefault(ref.kind, "Issuer")
    <3>1. KindOf(ref) = OrDefault(ref.kind, "Issuer")
      BY <1>10 DEF KindOf, site
    <3> QED BY <2>1, <3>1, NamedApart DEF AskedKind, site
  <2>3. IsClusterWide(ref, type.kind) <=> type.kind = "ClusterIssuer"
    BY <1>10, <2>1, NamedApart DEF IsClusterWide, site
  <2>4. Place(type, ref, ob.ns) = IF type.kind = "ClusterIssuer" THEN "" ELSE ob.ns
    BY <2>1, <2>3, PlaceAt, Zenon DEF site
  <2>5. /\ AskedGroup(ref) = OrDefault(ref.group, "cert-manager.io")
        /\ Path(known, ob.ns, ref) = IssuerPath(known, ob.ns, ref)
    BY <1>10, SiteAsks, Zenon DEF site
  <2> QED BY <1>1, <2>2, <2>4, <2>5 DEF IssuerPath, asked
<1>11. site \notin DOMAIN Unasked
  BY DEF site
<1>12. \/ site \in DOMAIN PodFields \cup DOMAIN LocalFields \cup DOMAIN LocalIn \cup DOMAIN ClusterFields \cup ServiceFields
       \/ site \in {"owned_by", "hpa_scales_target", "event_regarding_object"} \/ site = "pv_bound_to_pvc"
       \/ site \in {"gateway_route_attaches_to_parent", "gateway_route_uses_backend"}
       \/ site = "rbac_binding_grants_role" \/ site = "rbac_binding_binds_subject" \/ site = "certmanager_uses_issuer"
  BY <1>3, <1>11, SiteNames DEF Sites, ObjectFields, OwnNamespace
<1> QED BY <1>4, <1>5, <1>6, <1>7, <1>8, <1>9, <1>10, <1>12, Zenon DEF asked

LEMMA Resources ==
  /\ Unasked["pod_on_node"] = "nodes"
  /\ Unasked["endpointslice_for_service"] = "services"
  /\ Unasked["endpointslice_targets_pod"] = "pods"
BY DEF Unasked

IsShort(group, resource, ns, name) ==
  LogicalPath(group, resource, ns, name) = IF ns = "" THEN <<resource, name>> ELSE <<resource, ns, name>>

LEMMA CorePaths ==
  ASSUME NEW group \in STRING, group = "", NEW resource \in STRING, NEW ns \in STRING, NEW name \in STRING
  PROVE  IsShort(group, resource, ns, name)
<1>1. LogicalPath(group, resource, ns, name) =
        IF ns = "" THEN <<resource, name>> ELSE <<resource, ns, name>>
  <2> DEFINE short == <<resource, name>>
             long  == <<resource, ns, name>>
             path  == LogicalPath(group, resource, ns, name)
  <2>1. path = IF group = "" THEN IF ns = "" THEN short ELSE long
               ELSE IF ns = "" THEN <<group, resource, name>> ELSE <<group, resource, ns, name>>
    BY PathSegments
  <2> HIDE DEF short, long, path
  <2> QED BY <2>1 DEF short, long, path
<1> QED BY <1>1, Zenon DEF IsShort

LEMMA PlaceHasScope ==
  ASSUME NEW ob, ob.ns \in STRING, NEW ref \in References, NEW type \in ClusterTypes, IsPlaced(ob, ref, type)
  PROVE  HasScope(type, Place(type, ref, ob.ns)) /\ Place(type, ref, ob.ns) \in STRING
<1>1. IF type.namespaced THEN OrDefault(ref.ns, ob.ns) # "" ELSE ref.ns = ""
  BY Zenon DEF IsPlaced
<1>2. type.namespaced \in BOOLEAN
  BY TypesAreInfos, Zenon
<1>3. OrDefault(ref.ns, ob.ns) \in STRING
  <2>1. ref.ns \in STRING
    BY DEF References
  <2> QED BY <2>1, Zenon DEF OrDefault
<1>4. CASE type.namespaced
  BY <1>1, <1>2, <1>3, <1>4, Zenon DEF HasScope, Place
<1>5. CASE ~type.namespaced
  <2>1. Place(type, ref, ob.ns) = "" /\ Place(type, ref, ob.ns) = ref.ns
    BY <1>1, <1>5, Zenon DEF Place
  <2>2. ref.ns \in STRING
    BY DEF References
  <2> QED BY <1>2, <1>5, <2>1, <2>2, Zenon DEF HasScope
<1> QED BY <1>4, <1>5, Zenon

\* ... and the paths that sites write themselves are what it would answer.
LEMMA PathIsWritten ==
  ASSUME NEW known, NEW ob, ob.ns \in STRING, NEW ref \in References, NEW type \in ClusterTypes,
         type.group = "", ref.site \in DOMAIN Unasked, type.resource = Unasked[ref.site],
         IsPlaced(ob, ref, type)
  PROVE  Path(known, ob.ns, ref) = LogicalPath(type.group, type.resource, Place(type, ref, ob.ns), ref.name)
<1> DEFINE ns   == Place(type, ref, ob.ns)
           res  == type.resource
           site == ref.site
           path == LogicalPath(type.group, type.resource, ns, ref.name)
<1>1. site \in Named /\ site \notin ObjectFields
  BY SiteNames DEF Named, ObjectFields
<1>2. ref.name \in STRING /\ ns \in STRING /\ type.group \in STRING /\ res \in STRING
  <2>1. ref.name \in STRING
    BY DEF References
  <2>2. ns \in STRING
    BY PlaceHasScope, Zenon
  <2>3. type \in Infos
    BY ClusterAssumption, Zenon
  <2>4. type.group \in STRING /\ res \in STRING
    BY <2>3 DEF Infos
  <2> QED BY <2>1, <2>2, <2>4, Zenon
<1>3. /\ site = "pod_on_node" => res = "nodes"
      /\ site = "endpointslice_for_service" => res = "services"
      /\ site = "endpointslice_targets_pod" => res = "pods"
  BY Resources, Zenon
<1>4. ns = "" <=> IsClusterWide(ref, type.kind)
  <2>1. HasScope(type, ns)
    BY PlaceHasScope, Zenon
  <2>2. type.namespaced <=> ~IsClusterWide(ref, type.kind)
    BY <1>1, Zenon DEF IsPlaced
  <2> QED BY <2>1, <2>2, Zenon DEF HasScope
<1>5. /\ ns = "" => path = <<res, ref.name>>
      /\ ns # "" => path = <<res, ns, ref.name>>
  <2>1. type.group \in STRING /\ res \in STRING /\ ns \in STRING /\ ref.name \in STRING
    BY <1>2, Zenon
  <2> HIDE DEF ns, res
  <2>2. IsShort(type.group, res, ns, ref.name)
    BY <2>1, CorePaths, Zenon
  <2> QED BY <2>2, Zenon DEF IsShort, res
<1> HIDE DEF ns, res, site, path
<1>6. CASE site = "pod_on_node"
  <2>1. IsClusterWide(ref, type.kind)
    BY <1>1, <1>6, NamedApart DEF IsClusterWide, site
  <2>2. Path(known, ob.ns, ref) = <<"nodes", ref.name>>
    BY <1>1, <1>6, NamedApart DEF Path, site
  <2> QED BY <1>3, <1>4, <1>5, <1>6, <2>1, <2>2, Zenon DEF ns, path
<1>7. CASE site # "pod_on_node"
  <2>1. site \in {"endpointslice_for_service", "endpointslice_targets_pod"}
    BY <1>7, SiteNames DEF site
  <2>2. ~IsClusterWide(ref, type.kind)
    BY <1>1, <2>1, NamedApart DEF IsClusterWide, site
  <2>3. ns = OrDefault(ref.ns, ob.ns) /\ (site \in OwnNamespace => ns = ob.ns)
    BY <1>1, <2>2, PlaceAt, Zenon DEF site, ns
  <2>4. path = <<res, ns, ref.name>>
    BY <1>4, <1>5, <2>2, Zenon
  <2>5. CASE site = "endpointslice_for_service"
    <3>1. site \in OwnNamespace
      BY <2>5 DEF OwnNamespace
    <3>2. Path(known, ob.ns, ref) = <<"services", ob.ns, ref.name>>
      BY <1>1, <2>5, NamedApart DEF Path, site
    <3> QED BY <1>3, <2>3, <2>4, <2>5, <3>1, <3>2, Zenon DEF ns, path
  <2>6. CASE site = "endpointslice_targets_pod"
    <3>1. Path(known, ob.ns, ref) = <<"pods", OrDefault(ref.ns, ob.ns), ref.name>>
      BY <1>1, <2>6, NamedApart DEF Path, site
    <3> QED BY <1>3, <2>3, <2>4, <2>6, <3>1, Zenon DEF ns, path
  <2> QED BY <2>1, <2>5, <2>6
<1> QED BY <1>6, <1>7

\* What a path leads to is what the reference means.
LEMMA EdgeLeads ==
  ASSUME NEW rows, Lists(rows), NEW known, Learns(known), NEW ob \in Inputs, NEW ref \in ToSet(ob.refs),
         Path(known, ob.ns, ref) # NoPath
  PROVE  LET target == Target(rows, ob.type.version, ob.ns, Path(known, ob.ns, ref))
         IN  /\ target.info \in ClusterTypes /\ HasScope(target.info, target.key.ns)
             /\ target.key = Denoted([of |-> ob.type, own |-> ob.ns, ref |-> ref, dst |-> target.key])
<1>1. PICK type \in ClusterTypes :
        /\ ref \in References
        /\ \A t \in ClusterTypes : MayMean(ref, t) <=> t = type
        /\ IF ref.site \in DOMAIN Unasked THEN type.group = "" /\ type.resource = Unasked[ref.site]
           ELSE KindIsKnown(ref, type)
        /\ PathIsKnown(ob.type.version, type)
        /\ IsPlaced(ob, ref, type)
  BY ReferencesAssumption, Zenon
<1>2. ob.ns \in STRING
  BY ClusterAssumption, Zenon
<1> DEFINE ns     == Place(type, ref, ob.ns)
           path   == Path(known, ob.ns, ref)
           key    == Key(type, ns, <<ref.name>>)
           target == Target(rows, ob.type.version, ob.ns, path)
<1>3. HasScope(type, ns) /\ ns \in STRING
  BY <1>1, <1>2, PlaceHasScope, Zenon
<1>4. path = LogicalPath(type.group, type.resource, ns, ref.name)
  <2>1. CASE ref.site \in DOMAIN Unasked
    BY <1>1, <1>2, <2>1, PathIsWritten, Zenon
  <2>2. CASE ref.site \notin DOMAIN Unasked
    <3>1. KindIsKnown(ref, type)
      BY <1>1, <2>2, Zenon
    <3>2. path = PathTo(known, AskedGroup(ref), type.kind, ns, ref.name)
      BY <1>1, <2>2, <3>1, PathAsks, Zenon
    <3>3. path \in {NoPath, LogicalPath(type.group, type.resource, ns, ref.name)}
      <4>1. PathTo(known, AskedGroup(ref), type.kind, ns, ref.name)
              \in {NoPath, LogicalPath(type.group, type.resource, ns, ref.name)}
        BY <3>1, PathToLeads
      <4> QED BY <3>2, <4>1, Zenon
    <3> QED BY <3>3, Zenon
  <2> QED BY <2>1, <2>2, Zenon
<1>5. ref.name \in STRING
  BY <1>1 DEF References
<1>6. target = [info |-> type, key |-> key]
  <2>1. PathIsKnown(ob.type.version, type)
    BY <1>1, Zenon
  <2> HIDE DEF ns
  <2>2. LeadsTo(rows, ob.type.version, ob.ns, type, ns, ref.name)
    BY <1>3, <1>5, <2>1, PathLeads, Zenon
  <2> QED BY <1>4, <2>2, Zenon DEF LeadsTo
<1>7. \A d : Denoted([of |-> ob.type, own |-> ob.ns, ref |-> ref, dst |-> d]) = key
  <2> TAKE d
  <2> DEFINE e == [of |-> ob.type, own |-> ob.ns, ref |-> ref, dst |-> d]
  <2>1. e.ref = ref /\ e.own = ob.ns
    OBVIOUS
  <2> HIDE DEF e
  <2>2. (CHOOSE t \in ClusterTypes : MayMean(e.ref, t)) = type
    BY <1>1, <2>1, Zenon
  <2>3. Denoted(e) = key
    BY <2>1, <2>2, Zenon DEF Denoted, Place
  <2> QED BY <2>3 DEF e
<1>8. key.ns = ns
  BY DEF Key
<1> HIDE DEF key, ns, path
<1>9. target.info = type /\ target.key = key
  BY <1>6
<1> QED BY <1>3, <1>7, <1>8, <1>9, Zenon DEF path

\* Every edge there is leads to what its reference means.
Reach(es) == \A e \in es : e.dst = Denoted(e)

LEMMA PutEdgeReaches ==
  ASSUME Learns(resolver), NEW db, Lists(db.table), Reach(db.edges), NEW ob \in Inputs, NEW ref \in ToSet(ob.refs)
  PROVE  Lists(PutEdge(db, ob, ref).table) /\ Reach(PutEdge(db, ob, ref).edges)
<1> DEFINE path   == Path(resolver, ob.ns, ref)
           target == Target(db.table, ob.type.version, ob.ns, path)
           edge   == [of |-> ob.type, own |-> ob.ns, ref |-> ref, dst |-> target.key]
           more   == EnsureKind(db.table, target.info, target.key.ns)
           objs   == Ensured(db.objects, target.key, FALSE)
<1>1. CASE path = NoPath
  <2>1. PutEdge(db, ob, ref) = db
    BY <1>1, Zenon DEF PutEdge
  <2> QED BY <2>1
<1>2. CASE path # NoPath
  <2>1. PutEdge(db, ob, ref) = [table |-> more, objects |-> objs, edges |-> db.edges \cup {edge}]
    BY <1>2, Zenon DEF PutEdge, EdgeTo
  <2>2. target.info \in ClusterTypes /\ HasScope(target.info, target.key.ns) /\ target.key = Denoted(edge)
    BY <1>2, EdgeLeads, Zenon
  <2>3. Lists(more)
    BY <2>2, EnsureKindLists, Zenon
  <2>4. edge.dst = target.key
    OBVIOUS
  <2> HIDE DEF more, edge, objs, target
  <2>5. Reach(db.edges \cup {edge})
    BY <2>2, <2>4, Zenon DEF Reach
  <2>6. PutEdge(db, ob, ref).table = more /\ PutEdge(db, ob, ref).edges = db.edges \cup {edge}
    BY <2>1
  <2> QED BY <2>3, <2>5, <2>6, Zenon
<1> QED BY <1>1, <1>2, Zenon

LEMMA PutEdgesReach ==
  ASSUME Learns(resolver), NEW db, Lists(db.table), Reach(db.edges), NEW ob \in Inputs, NEW set
  PROVE  Lists(PutEdges(db, ob, set).table) /\ Reach(PutEdges(db, ob, set).edges)
<1> DEFINE N       == Len(ob.refs)
           Good(b) == Lists(b.table) /\ Reach(b.edges)
<1>1. N \in Nat /\ \A i \in 1 .. N : ob.refs[i] \in ToSet(ob.refs)
  <2>1. ob.refs \in Seq(ToSet(ob.refs))
    BY NamesAssumption
  <2> QED BY <2>1
<1>2. PICK f : Puts(f, N, db, ob, set) /\ PutEdges(db, ob, set) = f[N]
  BY <1>1, PutEdgesIsLast
<1> DEFINE T == {m \in 0 .. N : ~Good(f[m])}
<1>3. SUFFICES ASSUME T # {} PROVE FALSE
  BY <1>1, <1>2
<1>4. T \in SUBSET Nat
  BY <1>1
<1>5. PICK m \in T : \A k \in T : m <= k
  BY <1>3, <1>4, LeastNumber, Zenon
<1>6. m \in 0 .. N /\ ~Good(f[m])
  BY <1>5
<1>7. CASE m = 0
  <2>1. f[m] = db
    BY <1>2, <1>6, <1>7 DEF Puts
  <2> QED BY <1>6, <2>1
<1>8. CASE m # 0
  <2>1. m \in 1 .. N /\ m - 1 \in 0 .. N /\ ~(m <= m - 1)
    BY <1>1, <1>6, <1>8
  <2> DEFINE before == f[m - 1]
             ref    == ob.refs[m]
  <2>2. f[m] = PutOne(before, ob, set, ref)
    BY <1>2, <1>6, <1>8 DEF Puts, PutOne
  <2>3. Good(before)
    BY <1>5, <2>1
  <2>4. ref \in ToSet(ob.refs)
    BY <1>1, <2>1
  <2> HIDE DEF before, ref
  <2>5. Good(PutEdge(before, ob, ref))
    BY <2>3, <2>4, PutEdgeReaches
  <2>6. f[m] = before \/ f[m] = PutEdge(before, ob, ref)
    BY <2>2, Zenon DEF PutOne
  <2> HIDE DEF Good
  <2> QED BY <1>6, <2>3, <2>5, <2>6, Zenon
<1> QED BY <1>7, <1>8

\* What is registered is known.
LEMMA RegisterHasAll ==
  ASSUME NEW known, NEW infos, IsSequence(known), IsSequence(infos)
  PROVE  ToSet(infos) \subseteq ToSet(Register(known, infos))
<1> DEFINE N        == Len(infos)
           Holds(s, m) == IsSequence(s) /\ \A i \in 1 .. m : infos[i] \in ToSet(s)
<1>1. N \in Nat /\ \A info \in ToSet(infos) : \E i \in 1 .. N : infos[i] = info
  BY DEF IsSequence, ToSet
<1>2. PICK f : Registers(f, N, known, infos) /\ Register(known, infos) = f[N]
  BY RegisterIsLast
<1> DEFINE T == {m \in 0 .. N : ~Holds(f[m], m)}
<1>3. SUFFICES ASSUME T # {} PROVE FALSE
  BY <1>1, <1>2
<1>4. T \in SUBSET Nat
  BY <1>1
<1>5. PICK m \in T : \A k \in T : m <= k
  BY <1>3, <1>4, LeastNumber, Zenon
<1>6. m \in 0 .. N /\ ~Holds(f[m], m)
  BY <1>5
<1>7. CASE m = 0
  <2>1. f[m] = known
    BY <1>2, <1>6, <1>7 DEF Registers
  <2> QED BY <1>6, <1>7, <2>1
<1>8. CASE m # 0
  <2>1. m \in 1 .. N /\ m - 1 \in 0 .. N /\ ~(m <= m - 1) /\ 1 .. m = (1 .. m - 1) \cup {m}
    BY <1>1, <1>6, <1>8
  <2>2. f[m] = RegisterOne(f[m - 1], infos[m])
    BY <1>2, <1>6, <1>8 DEF Registers
  <2>3. Holds(f[m - 1], m - 1)
    BY <1>5, <2>1
  <2>4. IsSequence(f[m]) /\ ToSet(f[m - 1]) \subseteq ToSet(f[m]) /\ infos[m] \in ToSet(f[m])
    <3>1. CASE IsCurrent(f[m - 1], infos[m])
      <4>1. f[m] = f[m - 1]
        BY <2>2, <3>1 DEF RegisterOne
      <4>2. infos[m] \in ToSet(f[m - 1])
        BY <3>1, Zenon DEF IsCurrent, ToSet
      <4> QED BY <2>3, <4>1, <4>2
    <3>2. CASE ~IsCurrent(f[m - 1], infos[m])
      <4>1. f[m] = Append(f[m - 1], infos[m])
        BY <2>2, <3>2 DEF RegisterOne
      <4> QED BY <2>3, <4>1, Appended
    <3> QED BY <3>1, <3>2
  <2> QED BY <1>6, <2>1, <2>3, <2>4
<1> QED BY <1>7, <1>8

\* The invariant of the edges.  Before the first observation is decoded the resolver
\* has only what it began with; a worker that has one has a resolver that has learned.
Began(known) == IsSequence(known) /\ ToSet(known) \subseteq Known /\ ToSet(Standard) \subseteq ToSet(known)

EdgeInv ==
  /\ Lists(table) /\ Began(resolver)
  /\ (\E w \in Watchers : Busy(w)) => Learns(resolver)
  /\ EdgesReachTheirObject

LEMMA EdgeInvHoldsAtFirst == IngestInit => EdgeInv
<1> SUFFICES ASSUME IngestInit PROVE EdgeInv
  OBVIOUS
<1>1. Standard \in Seq(Infos) /\ Discovered \in Seq(Infos)
  BY NamesAssumption
<1>2. Lists(table)
  <2> DEFINE D == Discovered
  <2>1. table = [i \in DOMAIN D |-> [info |-> D[i], preferred |-> TRUE]]
    BY DEF IngestInit
  <2>2. DOMAIN D = 1 .. Len(D) /\ Len(D) \in Nat /\ DOMAIN table = DOMAIN D
    BY <1>1, <2>1
  <2>3. \A i \in DOMAIN D : table[i].info = D[i] /\ table[i] = [info |-> table[i].info, preferred |-> table[i].preferred]
    BY <2>1
  <2>4. \A i \in DOMAIN D : D[i] \in ToSet(Discovered) /\ D[i] \in ClusterTypes
    BY ClusterAssumption DEF ToSet
  <2>5. \A i \in DOMAIN table : OfCluster(table[i])
    BY <2>2, <2>3, <2>4 DEF OfCluster
  <2>6. ListsDiscovered(table)
    BY <2>2, <2>3 DEF ListsDiscovered, ToSet
  <2>7. IsSequence(table)
    <3>1. \A i \in DOMAIN D : table[i] \in ToSet(table)
      BY <2>2 DEF ToSet
    <3>2. table = [i \in 1 .. Len(D) |-> table[i]]
      BY <2>1, <2>2
    <3> QED BY <2>2, <3>1, <3>2 DEF IsSequence
  <2> QED BY <2>5, <2>6, <2>7 DEF Lists
<1>3. Began(resolver)
  <2>1. resolver = Standard
    BY DEF IngestInit
  <2>2. IsSequence(Standard)
    BY StandardFits DEF AllFit
  <2>3. ToSet(Standard) \subseteq Known
    BY DEF Known, Learnable
  <2> QED BY <2>1, <2>2, <2>3 DEF Began
<1>4. \A w \in Watchers : ~Busy(w)
  BY DEF IngestInit, Busy, Idle
<1>5. EdgesReachTheirObject
  BY DEF IngestInit, EdgesReachTheirObject
<1> QED BY <1>2, <1>3, <1>4, <1>5 DEF EdgeInv

\* What is known when an observation is decoded.
LEMMA LearnedLearns ==
  ASSUME EdgeInv, NEW ob \in Inputs
  PROVE  Learns(Learned(FromTable, ob))
<1> DEFINE infos == [i \in DOMAIN table |-> table[i].info]
           N     == Len(table)
<1>1. /\ N \in Nat /\ DOMAIN table = 1 .. N /\ ListsDiscovered(table)
      /\ \A i \in 1 .. N : table[i].info \in ClusterTypes
  BY DEF EdgeInv, Lists, IsSequence, OfCluster
<1>2. IsSequence(infos) /\ ToSet(infos) \subseteq ClusterTypes /\ ToSet(Discovered) \subseteq ToSet(infos)
  <2>1. infos = [i \in 1 .. N |-> infos[i]] /\ \A i \in 1 .. N : infos[i] = table[i].info
    BY <1>1
  <2>2. DOMAIN infos = 1 .. N
    BY <1>1
  <2> HIDE DEF infos
  <2>3. \A i \in 1 .. N : infos[i] \in ToSet(infos)
    BY <2>2 DEF ToSet
  <2>4. IsSequence(infos)
    BY <1>1, <2>1, <2>3 DEF IsSequence
  <2>5. ToSet(infos) \subseteq ClusterTypes
    BY <1>1, <2>1, <2>2 DEF ToSet
  <2>6. \A type \in ToSet(Discovered) : type \in ToSet(infos)
    <3> SUFFICES ASSUME NEW type \in ToSet(Discovered) PROVE type \in ToSet(infos)
      OBVIOUS
    <3>1. PICK i \in 1 .. N : table[i].info = type
      BY <1>1 DEF ListsDiscovered
    <3> QED BY <2>1, <2>3, <3>1
  <2> QED BY <2>4, <2>5, <2>6
<1> DEFINE r == Register(resolver, infos)
<1>3. IsSequence(ob.defines) /\ ToSet(ob.defines) \subseteq Known
  <2>1. ob.defines \in Seq(Infos)
    BY NamesAssumption
  <2>2. IsSequence(ob.defines)
    BY <2>1 DEF IsSequence, ToSet
  <2>3. ToSet(ob.defines) \in {ToSet(o.defines) : o \in Inputs}
    OBVIOUS
  <2>4. ToSet(ob.defines) \subseteq Learnable
    BY <2>3 DEF Learnable
  <2> QED BY <2>2, <2>4 DEF Known
<1> HIDE DEF infos
<1>4. /\ IsSequence(r) /\ ToSet(resolver) \subseteq ToSet(r) /\ ToSet(r) \subseteq ToSet(resolver) \cup ToSet(infos)
      /\ ToSet(infos) \subseteq ToSet(r)
  BY <1>2, RegisterAdds, RegisterHasAll DEF EdgeInv, Began
<1> HIDE DEF r
<1> DEFINE q == Register(r, ob.defines)
<1>5. IsSequence(q) /\ ToSet(r) \subseteq ToSet(q) /\ ToSet(q) \subseteq ToSet(r) \cup ToSet(ob.defines)
  BY <1>3, <1>4, RegisterAdds
<1>6. Learned(FromTable, ob) = q
  BY Zenon DEF Learned, FromTable, q, r, infos
<1> HIDE DEF q
<1>7. ToSet(resolver) \subseteq Known /\ ToSet(Standard) \subseteq ToSet(resolver) /\ ClusterTypes \subseteq Known
  BY DEF EdgeInv, Began, Known
<1> QED BY <1>2, <1>3, <1>4, <1>5, <1>6, <1>7 DEF Learns

LEMMA LearnsBegan == \A known : Learns(known) => Began(known)
BY DEF Learns, Began

\* The object of a worker is in a namespace if its resource is.
LEMMA ObservedHasScope ==
  ASSUME JobsFit, NEW w \in Watchers, Busy(w)
  PROVE  /\ job[w].ob \in Inputs /\ job[w].info = job[w].ob.type
         /\ job[w].ob.type \in ClusterTypes /\ HasScope(job[w].ob.type, job[w].ob.ns)
<1> DEFINE ob == job[w].ob
<1>1. ob \in Inputs /\ job[w].info = ob.type
  BY DEF JobsFit, Kept
<1>2. ob.type \in ClusterTypes
  <2>1. ob.type \in Types
    BY <1>1 DEF Types
  <2>2. Types \subseteq ClusterTypes
    BY ClusterAssumption, Zenon
  <2> QED BY <2>1, <2>2
<1>3. ob.ns # "" <=> ob.type.namespaced
  BY <1>1, ClusterAssumption, Zenon
<1>4. ob.type.namespaced \in BOOLEAN
  BY <1>2, TypesAreInfos, Zenon
<1>5. HasScope(ob.type, ob.ns)
  BY <1>3, <1>4, Zenon DEF HasScope
<1> QED BY <1>1, <1>2, <1>5

\* A step of a worker that has an observation leaves the resolver as it is.
LEMMA WorkKeepsEdgeInv ==
  ASSUME EdgeInv, NEW w \in Watchers, Busy(w), resolver' = resolver, Lists(table'), Reach(edges')
  PROVE  EdgeInv'
<1>1. Learns(resolver)
  BY DEF EdgeInv
<1>2. Began(resolver') /\ Learns(resolver')
  BY <1>1, LearnsBegan
<1>3. EdgesReachTheirObject'
  BY DEF Reach, EdgesReachTheirObject
<1> QED BY <1>2, <1>3 DEF EdgeInv

LEMMA DecodeKeepsEdgeInv ==
  ASSUME EdgeInv, NEW w \in Watchers, NEW ob \in Inputs, Decode(w, FromTable, ob)
  PROVE  EdgeInv'
<1>1. resolver' = Learned(FromTable, ob) /\ table' = table /\ edges' = edges
  BY Zenon DEF Decode
<1>2. Learns(resolver')
  BY <1>1, LearnedLearns
<1>3. Began(resolver')
  BY <1>2, LearnsBegan
<1>4. Lists(table)' /\ EdgesReachTheirObject'
  BY <1>1 DEF EdgeInv, EdgesReachTheirObject
<1> QED BY <1>2, <1>3, <1>4 DEF EdgeInv

LEMMA PutRawLatestKeepsEdgeInv ==
  ASSUME IngestInv, EdgeInv, NEW w \in Watchers, PutRawLatest(w)
  PROVE  EdgeInv'
<1>1. Busy(w) /\ JobsFit
  BY DEF PutRawLatest, Busy, Idle, IngestInv
<1>2. table' = EnsureKind(table, job[w].info, job[w].ob.ns) /\ resolver' = resolver /\ edges' = edges
  BY DEF PutRawLatest
<1>3. /\ job[w].info = job[w].ob.type /\ job[w].ob.type \in ClusterTypes
      /\ HasScope(job[w].ob.type, job[w].ob.ns)
  BY <1>1, ObservedHasScope
<1>4. Lists(table')
  BY <1>2, <1>3, EnsureKindLists DEF EdgeInv
<1>5. Reach(edges')
  BY <1>2 DEF EdgeInv, EdgesReachTheirObject, Reach
<1> QED BY <1>1, <1>2, <1>4, <1>5, WorkKeepsEdgeInv

LEMMA StoreObservationKeepsEdgeInv ==
  ASSUME IngestInv, EdgeInv, NEW w \in Watchers, StoreObservation(w)
  PROVE  EdgeInv'
<1> DEFINE ob     == job[w].ob
           key    == ObjectKey(ob)
           row    == IF key \in DOMAIN objects THEN objects[key] ELSE NewObject
           stored == With(objects, key,
                       [deleted  |-> ob.del,
                        versions |-> Append(row.versions, [doc |-> job[w].doc, del |-> ob.del])])
           known  == EnsureKind(table, job[w].info, ob.ns)
           begun  == [table |-> known, objects |-> stored, edges |-> edges]
           set    == Profile(job[w].info).extractors
<1>1. Busy(w) /\ JobsFit
  BY DEF StoreObservation, Busy, Idle, IngestInv
<1>2. /\ resolver' = resolver
      /\ \/ table' = known /\ edges' = edges
         \/ table' = PutEdges(begun, ob, set).table /\ edges' = PutEdges(begun, ob, set).edges
  BY Zenon DEF StoreObservation
<1>3. /\ ob \in Inputs /\ job[w].info = ob.type /\ ob.type \in ClusterTypes /\ HasScope(ob.type, ob.ns)
  BY <1>1, ObservedHasScope
<1>4. Lists(known)
  BY <1>3, EnsureKindLists DEF EdgeInv
<1>5. Reach(edges)
  BY DEF EdgeInv, EdgesReachTheirObject, Reach
<1>6. Learns(resolver)
  BY <1>1 DEF EdgeInv
<1>7. CASE table' = known /\ edges' = edges
  <2> HIDE DEF known
  <2>1. Lists(table') /\ Reach(edges')
    BY <1>4, <1>5, <1>7
  <2> QED BY <1>1, <1>2, <2>1, WorkKeepsEdgeInv
<1>8. CASE table' = PutEdges(begun, ob, set).table /\ edges' = PutEdges(begun, ob, set).edges
  <2> HIDE DEF known, stored, set
  <2>1. begun.table = known /\ begun.edges = edges
    OBVIOUS
  <2> HIDE DEF begun
  <2>2. Lists(PutEdges(begun, ob, set).table) /\ Reach(PutEdges(begun, ob, set).edges)
    BY <1>3, <1>4, <1>5, <1>6, <2>1, PutEdgesReach
  <2>3. Lists(table') /\ Reach(edges')
    BY <1>8, <2>2
  <2> QED BY <1>1, <1>2, <2>3, WorkKeepsEdgeInv
<1> QED BY <1>2, <1>7, <1>8

LEMMA FailKeepsEdgeInv ==
  ASSUME EdgeInv, NEW w \in Watchers, Fail(w)
  PROVE  EdgeInv'
<1>1. Busy(w) /\ resolver' = resolver /\ table' = table /\ edges' = edges
  BY DEF Fail, Busy
<1>2. Lists(table') /\ Reach(edges')
  BY <1>1 DEF EdgeInv, EdgesReachTheirObject, Reach
<1> QED BY <1>1, <1>2, WorkKeepsEdgeInv

\* An edge leads to the row of the object that its source refers to, whichever of the
\* two has been observed first and whatever the table had of its resource (putEdge,
\* targetRef and ensureEdgeTarget, from the paths of the extractors).
THEOREM EdgesReach ==
  IngestSpec => []EdgesReachTheirObject
<1>1. IngestInit => EdgeInv
  BY EdgeInvHoldsAtFirst
<1>2. IngestInv /\ EdgeInv /\ [IngestNext]_ingestVars => EdgeInv'
  <2> SUFFICES ASSUME IngestInv, EdgeInv, [IngestNext]_ingestVars
               PROVE  EdgeInv'
    OBVIOUS
  <2>1. CASE IngestNext
    <3>1. PICK w \in Watchers : \/ \E ob \in Inputs : Decode(w, FromTable, ob)
                                \/ PutRawLatest(w) \/ StoreObservation(w) \/ Fail(w)
      BY <2>1 DEF IngestNext
    <3>2. CASE \E ob \in Inputs : Decode(w, FromTable, ob)
      BY <3>2, DecodeKeepsEdgeInv
    <3>3. CASE PutRawLatest(w)
      BY <3>3, PutRawLatestKeepsEdgeInv
    <3>4. CASE StoreObservation(w)
      BY <3>4, StoreObservationKeepsEdgeInv
    <3>5. CASE Fail(w)
      BY <3>5, FailKeepsEdgeInv
    <3> QED BY <3>1, <3>2, <3>3, <3>4, <3>5
  <2>2. CASE UNCHANGED ingestVars
    <3>1. UNCHANGED <<job, resolver, table, edges>>
      BY <2>2 DEF ingestVars
    <3> QED BY <3>1 DEF EdgeInv, Busy, EdgesReachTheirObject
  <2> QED BY <2>1, <2>2
<1>3. EdgeInv => EdgesReachTheirObject
  BY DEF EdgeInv
<1> QED BY <1>1, <1>2, <1>3, IngestInvHolds, PTL DEF IngestSpec

--------------------------------------------------------------------------------
(* The write buffer: greatest numbers.                                            *)

\* A finite set of natural numbers has a greatest one: else there is a smallest set
\* that has none, and it has none either without one of its numbers.
LEMMA GreatestNumber ==
  ASSUME NEW S \in SUBSET Nat, IsFiniteSet(S), S # {}
  PROVE  Greatest(S) \in S /\ \A m \in S : Greatest(S) >= m
<1> DEFINE Top(T) == \E n \in T : \A m \in T : n >= m
           Bad    == {T \in SUBSET S : T # {} /\ ~Top(T)}
           Sizes  == {Cardinality(T) : T \in Bad}
<1>1. \A T \in Bad : IsFiniteSet(T) /\ Cardinality(T) \in Nat
  BY FS_Subset, FS_CardinalityType
<1>2. Bad = {}
  <2> SUFFICES ASSUME Bad # {} PROVE FALSE
    OBVIOUS
  <2>1. Sizes \in SUBSET Nat /\ Sizes # {}
    BY <1>1
  <2> HIDE DEF Sizes
  <2>2. PICK k \in Sizes : \A j \in Sizes : k <= j
    BY <2>1, LeastNumber
  <2>3. PICK T \in Bad : Cardinality(T) = k
    BY <2>2 DEF Sizes
  <2>4. PICK x \in T : TRUE
    BY <2>3
  <2> DEFINE U == T \ {x}
  <2>5. IsFiniteSet(T) /\ Cardinality(T) \in Nat /\ Cardinality(U) = Cardinality(T) - 1
    BY <1>1, <2>3, <2>4, FS_RemoveElement
  <2>6. Cardinality(U) \notin Sizes
    BY <2>1, <2>2, <2>3, <2>5
  <2>7. U \notin Bad
    BY <2>6 DEF Sizes
  <2>8. CASE U = {}
    <3>1. T = {x} /\ x \in Nat
      BY <2>4, <2>8
    <3>2. Top(T)
      BY <3>1
    <3>3. QED
      BY <2>3, <3>2
  <2>9. CASE U # {}
    <3>1. Top(U)
      BY <2>7, <2>9
    <3>2. PICK n \in U : \A m \in U : n >= m
      BY <3>1
    <3>3. n \in T /\ n \in Nat /\ x \in Nat /\ \A m \in T : m \in U \/ m = x
      BY <2>4, <3>2
    <3>4. CASE n >= x
      BY <2>3, <3>2, <3>3, <3>4
    <3>5. CASE ~(n >= x)
      <4>1. \A m \in T : m \in Nat
        OBVIOUS
      <4>2. \A m \in T : x >= m
        BY <3>2, <3>3, <3>5, <4>1
      <4>3. QED
        BY <2>3, <2>4, <4>2
    <3>6. QED
      BY <3>4, <3>5
  <2>10. QED
    BY <2>8, <2>9
<1>3. Top(S)
  BY <1>2
<1>4. QED
  BY <1>3 DEF Greatest

\* The image of a finite set.
LEMMA ImageFinite ==
  ASSUME NEW S, NEW f, IsFiniteSet(S), f \in [S -> Range(f)]
  PROVE  IsFiniteSet(Range(f))
<1>1. f \in Surjection(S, Range(f))
  BY DEF Range, Surjection
<1>2. QED
  BY <1>1, FS_Surjection

--------------------------------------------------------------------------------
(* Where an observation is: buffered in p, inserted in o, lost in l, or in one   *)
(* of the batches bs, when each worker w has made m[w] of them.                  *)

Has(S, w, n)      == \E ob \in S : ob.w = w /\ ob.n = n
Holders(bs, w, n) == {b \in bs : Has(b.obs, w, n)}

PlacedOnce(p, o, l, bs, w, n) ==
  \/ Has(p, w, n) /\ ~Has(o, w, n) /\ ~Has(l, w, n) /\ Holders(bs, w, n) = {}
  \/ ~Has(p, w, n) /\ Has(o, w, n) /\ ~Has(l, w, n) /\ Holders(bs, w, n) = {}
  \/ ~Has(p, w, n) /\ ~Has(o, w, n) /\ Has(l, w, n) /\ Holders(bs, w, n) = {}
  \/ /\ ~Has(p, w, n) /\ ~Has(o, w, n) /\ ~Has(l, w, n)
     /\ \E b \in bs : Holders(bs, w, n) = {b}

Nowhere(p, o, l, bs, w, n) ==
  ~Has(p, w, n) /\ ~Has(o, w, n) /\ ~Has(l, w, n) /\ Holders(bs, w, n) = {}

Placement(p, o, l, bs, m) ==
  \A w \in Workers : \A n \in Nat \ {0} :
    IF n <= m[w] THEN PlacedOnce(p, o, l, bs, w, n) ELSE Nowhere(p, o, l, bs, w, n)

LEMMA HasUnion ==
  ASSUME NEW S, NEW T, NEW w, NEW n
  PROVE  Has(S \cup T, w, n) <=> Has(S, w, n) \/ Has(T, w, n)
BY DEF Has

LEMMA HasNothing == \A w, n : ~Has({}, w, n)
BY DEF Has

\* What is drained makes a batch.
LEMMA DrainPlaces ==
  ASSUME NEW p, NEW o, NEW l, NEW bs, NEW m, NEW b, Placement(p, o, l, bs, m), b.obs = p
  PROVE  Placement({}, o, l, bs \cup {b}, m)
<1> SUFFICES ASSUME NEW w \in Workers, NEW n \in Nat \ {0}
             PROVE  IF n <= m[w] THEN PlacedOnce({}, o, l, bs \cup {b}, w, n)
                                 ELSE Nowhere({}, o, l, bs \cup {b}, w, n)
  BY DEF Placement
<1>1. IF n <= m[w] THEN PlacedOnce(p, o, l, bs, w, n) ELSE Nowhere(p, o, l, bs, w, n)
  BY DEF Placement
<1>2. CASE Has(p, w, n)
  <2>1. Holders(bs \cup {b}, w, n) = Holders(bs, w, n) \cup {b}
    BY <1>2 DEF Holders
  <2>2. QED
    BY <1>1, <1>2, <2>1, HasNothing DEF PlacedOnce, Nowhere
<1>3. CASE ~Has(p, w, n)
  <2>1. Holders(bs \cup {b}, w, n) = Holders(bs, w, n)
    BY <1>3 DEF Holders
  <2>2. QED
    BY <1>1, <1>3, <2>1, HasNothing DEF PlacedOnce, Nowhere
<1>4. QED
  BY <1>2, <1>3

\* A batch is inserted.
LEMMA InsertPlaces ==
  ASSUME NEW p, NEW o, NEW l, NEW bs, NEW m, NEW b \in bs, Placement(p, o, l, bs, m)
  PROVE  /\ Placement(p, o \cup b.obs, l, bs \ {b}, m)
         /\ Placement(p, o, l \cup b.obs, bs \ {b}, m)
<1> SUFFICES ASSUME NEW w \in Workers, NEW n \in Nat \ {0}
             PROVE  /\ IF n <= m[w] THEN PlacedOnce(p, o \cup b.obs, l, bs \ {b}, w, n)
                                    ELSE Nowhere(p, o \cup b.obs, l, bs \ {b}, w, n)
                    /\ IF n <= m[w] THEN PlacedOnce(p, o, l \cup b.obs, bs \ {b}, w, n)
                                    ELSE Nowhere(p, o, l \cup b.obs, bs \ {b}, w, n)
  BY DEF Placement
<1>1. IF n <= m[w] THEN PlacedOnce(p, o, l, bs, w, n) ELSE Nowhere(p, o, l, bs, w, n)
  BY DEF Placement
<1>2. Holders(bs \ {b}, w, n) = Holders(bs, w, n) \ {b} /\ (b \in Holders(bs, w, n) <=> Has(b.obs, w, n))
  BY DEF Holders
<1>3. /\ Has(o \cup b.obs, w, n) <=> Has(o, w, n) \/ Has(b.obs, w, n)
      /\ Has(l \cup b.obs, w, n) <=> Has(l, w, n) \/ Has(b.obs, w, n)
  BY HasUnion
<1>4. CASE Has(b.obs, w, n)
  <2>1. Holders(bs, w, n) = {b} /\ n <= m[w]
    BY <1>1, <1>2, <1>4 DEF PlacedOnce, Nowhere
  <2>2. Holders(bs \ {b}, w, n) = {}
    BY <1>2, <2>1
  <2>3. QED
    BY <1>1, <1>3, <1>4, <2>1, <2>2 DEF PlacedOnce
<1>5. CASE ~Has(b.obs, w, n)
  <2>1. Holders(bs \ {b}, w, n) = Holders(bs, w, n)
    BY <1>2, <1>5
  <2>2. ASSUME NEW c \in bs, Holders(bs, w, n) = {c} PROVE c \in bs \ {b}
    BY <1>2, <1>5, <2>2
  <2>3. QED
    BY <1>1, <1>3, <1>5, <2>1, <2>2 DEF PlacedOnce, Nowhere
<1>6. QED
  BY <1>4, <1>5

\* The process dies with the buffer and the batches.
LEMMA CrashPlaces ==
  ASSUME NEW p, NEW o, NEW l, NEW bs, NEW m, Placement(p, o, l, bs, m)
  PROVE  Placement({}, o, l \cup p \cup UNION {b.obs : b \in bs}, {}, m)
<1> DEFINE all == UNION {b.obs : b \in bs}
<1> SUFFICES ASSUME NEW w \in Workers, NEW n \in Nat \ {0}
             PROVE  IF n <= m[w] THEN PlacedOnce({}, o, l \cup p \cup all, {}, w, n)
                                 ELSE Nowhere({}, o, l \cup p \cup all, {}, w, n)
  BY DEF Placement
<1>1. IF n <= m[w] THEN PlacedOnce(p, o, l, bs, w, n) ELSE Nowhere(p, o, l, bs, w, n)
  BY DEF Placement
<1>2. Has(all, w, n) <=> Holders(bs, w, n) # {}
  BY DEF Has, Holders
<1>3. Has(l \cup p \cup all, w, n) <=> Has(l, w, n) \/ Has(p, w, n) \/ Has(all, w, n)
  BY HasUnion
<1>4. Holders({}, w, n) = {}
  BY DEF Holders
<1>5. QED
  BY <1>1, <1>2, <1>3, <1>4, HasNothing DEF PlacedOnce, Nowhere

\* A worker makes an observation.
LEMMA NewPlaces ==
  ASSUME NEW p, NEW o, NEW l, NEW bs, NEW m \in [Workers -> Nat], NEW v \in Workers, NEW ob,
         ob.w = v, ob.n = m[v] + 1, Placement(p, o, l, bs, m)
  PROVE  Placement(p \cup {ob}, o, l, bs, [m EXCEPT ![v] = @ + 1])
<1> DEFINE next == [m EXCEPT ![v] = @ + 1]
<1> SUFFICES ASSUME NEW w \in Workers, NEW n \in Nat \ {0}
             PROVE  IF n <= next[w] THEN PlacedOnce(p \cup {ob}, o, l, bs, w, n)
                                    ELSE Nowhere(p \cup {ob}, o, l, bs, w, n)
  BY DEF Placement
<1>1. IF n <= m[w] THEN PlacedOnce(p, o, l, bs, w, n) ELSE Nowhere(p, o, l, bs, w, n)
  BY DEF Placement
<1>2. Has(p \cup {ob}, w, n) <=> Has(p, w, n) \/ (w = v /\ n = m[v] + 1)
  BY DEF Has
<1>3. CASE w = v /\ n = m[v] + 1
  <2>1. ~(n <= m[w]) /\ n <= next[w]
    BY <1>3
  <2>2. QED
    BY <1>1, <1>2, <1>3, <2>1 DEF PlacedOnce, Nowhere
<1>4. CASE ~(w = v /\ n = m[v] + 1)
  <2>1. n <= next[w] <=> n <= m[w]
    BY <1>4
  <2>2. QED
    BY <1>1, <1>2, <1>4, <2>1 DEF PlacedOnce, Nowhere
<1>5. QED
  BY <1>3, <1>4

--------------------------------------------------------------------------------
(* The versions that a batch adds.                                               *)

\* In a set of observations, a worker and a number belong to one.
Determined(S) == \A x, y \in S : x.w = y.w /\ x.n = y.n => x = y

NumbersDiffer(vs) == \A u, v \in vs : u # v /\ u.w = v.w => u.seq # v.seq

LEMMA StateIsLast ==
  ASSUME versions \subseteq Versions, IsFiniteSet(versions), NEW w \in Workers
  PROVE  State(w).seq \in Nat /\ \A v \in versions : v.w = w => v.seq <= State(w).seq
<1> DEFINE mine == {v \in versions : v.w = w}
           seqs == {v.seq : v \in mine}
           f    == [v \in mine |-> v.seq]
<1>1. CASE mine = {}
  BY <1>1 DEF State
<1>2. CASE mine # {}
  <2>1. IsFiniteSet(mine) /\ f \in [mine -> Range(f)] /\ Range(f) = seqs
    BY FS_Subset DEF Range
  <2>2. IsFiniteSet(seqs)
    BY <2>1, ImageFinite
  <2>3. seqs \in SUBSET Nat /\ seqs # {}
    BY <1>2 DEF Versions
  <2>4. Greatest(seqs) \in Nat /\ \A m \in seqs : Greatest(seqs) >= m
    BY <2>2, <2>3, GreatestNumber
  <2>5. State(w).seq = Greatest(seqs)
    BY <1>2 DEF State
  <2>6. \A v \in mine : v.seq \in seqs /\ v.seq \in Nat
    BY DEF Versions
  <2>7. QED
    BY <2>4, <2>5, <2>6
<1>3. QED
  BY <1>1, <1>2

LEMMA NewNumbersDiffer ==
  ASSUME versions \subseteq Versions, IsFiniteSet(versions), NumbersDiffer(versions),
         NEW obs \in SUBSET Observations, IsFiniteSet(obs), Determined(obs),
         NEW states, states = [w \in Workers |-> State(w)]
  PROVE  LET all == versions \cup NewVersions(obs, states)
         IN  all \subseteq Versions /\ IsFiniteSet(all) /\ NumbersDiffer(all)
<1> DEFINE changed    == Changed(obs, states)
           upTo(ob)   == {x \in changed : x.w = ob.w /\ x.n <= ob.n}
           nth        == [ob \in changed |-> Cardinality(upTo(ob))]
           version(ob) == [w |-> ob.w, n |-> ob.n, seq |-> states[ob.w].seq + nth[ob], doc |-> ob.doc]
           new        == {version(ob) : ob \in changed}
<1>1. NewVersions(obs, states) = new
  BY DEF NewVersions
<1>2. changed \subseteq obs /\ IsFiniteSet(changed)
  <2>1. changed \subseteq obs
    BY DEF Changed
  <2>2. QED
    BY <2>1, FS_Subset
<1> HIDE DEF changed
<1>3. \A x \in changed : x \in Observations /\ x.w \in Workers /\ x.n \in Nat \ {0} /\ x.doc \in Docs
  BY <1>2 DEF Observations
<1>4. \A x \in changed : IsFiniteSet(upTo(x)) /\ nth[x] = Cardinality(upTo(x)) /\ nth[x] \in Nat \ {0}
  <2> SUFFICES ASSUME NEW x \in changed
               PROVE  IsFiniteSet(upTo(x)) /\ nth[x] = Cardinality(upTo(x)) /\ nth[x] \in Nat \ {0}
    OBVIOUS
  <2>1. upTo(x) \in SUBSET changed /\ x \in upTo(x)
    BY <1>3
  <2>2. IsFiniteSet(upTo(x))
    BY <1>2, <2>1, FS_Subset
  <2>3. QED
    BY <2>1, <2>2, FS_CardinalityType, FS_EmptySet
<1>5. ASSUME NEW x \in changed, NEW y \in changed, x.w = y.w, x.n < y.n
      PROVE  nth[x] < nth[y]
  <2>1. upTo(x) \in SUBSET upTo(y) /\ y \in upTo(y) /\ y \notin upTo(x)
    BY <1>3, <1>5
  <2>2. nth[x] <= nth[y] /\ nth[x] # nth[y]
    <3> DEFINE X == upTo(x)
               Y == upTo(y)
    <3>1. IsFiniteSet(Y) /\ X \in SUBSET Y /\ X # Y
      BY <1>4, <2>1
    <3> HIDE DEF X, Y
    <3>2. Cardinality(X) <= Cardinality(Y) /\ Cardinality(Y) # Cardinality(X)
      BY <3>1, FS_Subset
    <3>3. QED
      BY <1>4, <3>2 DEF X, Y
  <2>3. nth[x] \in Nat /\ nth[y] \in Nat
    BY <1>4
  <2>4. QED
    BY <2>2, <2>3
<1>6. \A w \in Workers : states[w].seq \in Nat /\ \A v \in versions : v.w = w => v.seq <= states[w].seq
  BY StateIsLast
<1>n. \A x \in changed : nth[x] \in Nat /\ nth[x] > 0
  <2> SUFFICES ASSUME NEW x \in changed PROVE nth[x] \in Nat /\ nth[x] > 0
    OBVIOUS
  <2>1. nth[x] \in Nat \ {0}
    BY <1>4
  <2> HIDE DEF nth
  <2>2. QED
    BY <2>1
<1> HIDE DEF nth
<1>7. \A x \in changed : version(x) \in Versions
  <2> SUFFICES ASSUME NEW x \in changed PROVE version(x) \in Versions
    OBVIOUS
  <2>1. states[x.w].seq + nth[x] \in Nat \ {0}
    <3>1. states[x.w].seq \in Nat /\ nth[x] \in Nat /\ nth[x] > 0
      BY <1>3, <1>6, <1>n
    <3>2. QED
      BY <3>1
  <2>2. QED
    BY <1>3, <2>1 DEF Versions
<1>8. IsFiniteSet(new)
  <2> DEFINE f == [x \in changed |-> version(x)]
  <2>1. f \in [changed -> Range(f)] /\ Range(f) = new
    BY DEF Range
  <2>2. QED
    BY <1>2, <2>1, ImageFinite
<1>9. ASSUME NEW x \in changed, NEW y \in changed, x.w = y.w, version(x).seq = version(y).seq
      PROVE  x = y
  <2>1. nth[x] = nth[y]
    <3>1. states[x.w].seq + nth[x] = states[x.w].seq + nth[y]
      BY <1>9
    <3>2. QED
      BY <1>3, <1>6, <1>n, <3>1
  <2>2. x.n = y.n
    <3>1. ~(x.n < y.n) /\ ~(y.n < x.n)
      BY <1>5, <1>9, <1>n, <2>1
    <3>2. QED
      BY <1>3, <3>1
  <2>3. QED
    BY <1>2, <1>9, <2>2 DEF Determined
<1>10. ASSUME NEW x \in changed, NEW v \in versions, x.w = v.w
       PROVE  version(x).seq # v.seq
  <2>1. version(x).seq = states[x.w].seq + nth[x]
    OBVIOUS
  <2>2. v.seq \in Nat /\ v.seq <= states[x.w].seq
    BY <1>3, <1>6, <1>10 DEF Versions
  <2>3. QED
    BY <1>3, <1>6, <1>n, <2>1, <2>2
<1>11. NumbersDiffer(versions \cup new)
  <2> SUFFICES ASSUME NEW u \in versions \cup new, NEW v \in versions \cup new, u # v, u.w = v.w
               PROVE  u.seq # v.seq
    BY DEF NumbersDiffer
  <2>1. CASE u \in versions /\ v \in versions
    BY <2>1 DEF NumbersDiffer
  <2>2. CASE u \in new /\ v \in new
    BY <1>9, <2>2
  <2>3. CASE u \in new /\ v \in versions
    BY <1>10, <2>3
  <2>4. CASE u \in versions /\ v \in new
    BY <1>10, <2>4
  <2>5. QED
    BY <2>1, <2>2, <2>3, <2>4
<1>12. QED
  BY <1>1, <1>7, <1>8, <1>11, FS_Union

--------------------------------------------------------------------------------
(* The inductive invariant.                                                      *)

BufferTypeOK ==
  /\ made \in [Workers -> Nat] /\ pc \in [Workers -> {"idle", "put", "made", "upsert"}]
  /\ marks \in Marks /\ offsets \in Marks
  /\ timer \in {"nil", "armed", "fired"} /\ firing \in Nat
  /\ pending \subseteq Observations /\ batches \subseteq Batches
  /\ observations \subseteq Observations /\ lost \subseteq Observations
  /\ versions \subseteq Versions

\* What is on its way is finite and numbered.
Good(obs)  == obs \subseteq Observations /\ IsFiniteSet(obs) /\ Determined(obs)
GoodOnes   == Good(pending) /\ \A b \in batches : Good(b.obs)

\* One insertion is going on, and the versions are still those that it has read.
ReadIsCurrent ==
  /\ \A i \in inserting : i.batch \in batches /\ i.states = [w \in Workers |-> State(w)]
  /\ \A i, j \in inserting : i = j

Numbered == IsFiniteSet(versions) /\ NumbersDiffer(versions)

Placed == Placement(pending, observations, lost, batches, made)

BufferInv == BufferTypeOK /\ GoodOnes /\ ReadIsCurrent /\ Numbered /\ Placed

LEMMA InitiallyInv == Init => BufferInv
<1> SUFFICES ASSUME Init PROVE BufferInv
  OBVIOUS
<1> USE DEF Init
<1>1. BufferTypeOK
  BY DEF BufferTypeOK, NoMarks, Marks
<1>2. GoodOnes /\ Numbered /\ ReadIsCurrent
  BY FS_EmptySet DEF GoodOnes, Good, Determined, Numbered, NumbersDiffer, ReadIsCurrent
<1>3. Placed
  <2> SUFFICES ASSUME NEW w \in Workers, NEW n \in Nat \ {0}
               PROVE  ~(n <= made[w]) /\ Nowhere({}, {}, {}, {}, w, n)
    BY DEF Placed, Placement
  <2>1. ~(n <= 0) /\ made[w] = 0
    BY DEF NoMarks
  <2>2. QED
    BY <2>1, HasNothing DEF Nowhere, Holders
<1>4. QED
  BY <1>1, <1>2, <1>3 DEF BufferInv

LEMMA OneOfBoth ==
  ASSUME NEW A, NEW B, A = {}, NEW x, B = {x}
  PROVE  Cardinality(A) + Cardinality(B) = 1 /\ Cardinality(B) + Cardinality(A) = 1
<1>1. Cardinality(A) = 0
  BY FS_EmptySet
<1>2. Cardinality(B) = 1
  BY FS_Singleton
<1>3. QED
  BY <1>1, <1>2

\* A batch without rows has no observations.
LEMMA NoRows ==
  ASSUME NEW obs, IsFiniteSet(obs), NEW ms, Rows(obs, ms) = 0
  PROVE  obs = {}
<1> DEFINE marked == {w \in Workers : ms[w] # 0}
<1>1. IsFiniteSet(marked)
  <2>1. IsFiniteSet(Workers) /\ marked \in SUBSET Workers
    BY ConstantsAssumption
  <2>2. QED
    BY <2>1, FS_Subset
<1>2. Cardinality(obs) \in Nat /\ Cardinality(marked) \in Nat
  BY <1>1, FS_CardinalityType
<1>3. Cardinality(obs) + Cardinality(marked) = 0
  BY DEF Rows
<1>4. Cardinality(obs) = 0
  <2> HIDE DEF marked
  <2>1. QED
    BY <1>2, <1>3
<1>5. QED
  BY <1>4, FS_EmptySet

LEMMA DrainKeeps ==
  ASSUME BufferInv, NEW obs, Good(obs), NEW ms \in Marks, NEW owner \in Workers \cup {Nobody},
         Placement(obs, observations, lost, batches, made'),
         Drain(obs, ms, owner), UNCHANGED <<observations, lost>>
  PROVE  /\ Placed' /\ GoodOnes' /\ batches \subseteq batches' /\ batches' \subseteq Batches
         /\ pending' \subseteq Observations /\ marks' \in Marks /\ timer' = "nil"
<1> DEFINE b == [obs |-> obs, marks |-> ms, owner |-> owner]
<1>1. pending' = {} /\ marks' = NoMarks /\ timer' = "nil"
  BY DEF Drain
<1>2. Good({}) /\ NoMarks \in Marks
  BY FS_EmptySet DEF Good, Determined, NoMarks, Marks
<1>3. b \in Batches
  BY DEF Good, Batches
<1>4. CASE Rows(obs, ms) = 0
  <2>1. obs = {} /\ batches' = batches
    BY <1>4, NoRows DEF Good, Drain
  <2>2. QED
    BY <1>1, <1>2, <2>1 DEF Placed, GoodOnes, BufferInv, BufferTypeOK
<1>5. CASE Rows(obs, ms) # 0
  <2>1. batches' = batches \cup {b} /\ b.obs = obs
    BY <1>5 DEF Drain
  <2> HIDE DEF b
  <2>2. Placement({}, observations, lost, batches \cup {b}, made')
    BY <2>1, DrainPlaces
  <2>3. QED
    BY <1>1, <1>2, <1>3, <2>1, <2>2 DEF Placed, GoodOnes, BufferInv, BufferTypeOK
<1>6. QED
  BY <1>4, <1>5

LEMMA StateStays == UNCHANGED versions => \A w : State(w)' = State(w)
BY DEF State

LEMMA BufferKeeps ==
  ASSUME BufferInv, NEW w \in Workers, NEW obs, Good(obs), NEW ms \in Marks,
         NEW busy \in {"put", "upsert"}, NEW next \in {"made", "idle"},
         Placement(obs, observations, lost, batches, made'), made' \in [Workers -> Nat],
         Buffer(w, obs, ms, busy, next), UNCHANGED <<firing, inserting, tables, lost>>
  PROVE  BufferInv'
<1>1. /\ Placed' /\ GoodOnes' /\ batches \subseteq batches' /\ batches' \subseteq Batches
      /\ pending' \subseteq Observations /\ marks' \in Marks /\ timer' \in {"nil", "armed", "fired"}
  <2>1. CASE Drain(obs, ms, w)
    BY <2>1, DrainKeeps DEF tables
  <2>2. CASE /\ pending' = obs /\ marks' = ms /\ UNCHANGED batches
             /\ timer' = IF Timed /\ timer = "nil" THEN "armed" ELSE timer
    BY <2>2 DEF tables, Placed, GoodOnes, Good, BufferInv, BufferTypeOK
  <2>3. QED
    BY <2>1, <2>2 DEF Buffer
<1>2. pc' \in [Workers -> {"idle", "put", "made", "upsert"}]
  BY DEF Buffer, BufferInv, BufferTypeOK
<1>3. BufferTypeOK'
  BY <1>1, <1>2 DEF BufferInv, BufferTypeOK, tables
<1>4. ReadIsCurrent' /\ Numbered'
  BY <1>1, StateStays DEF BufferInv, ReadIsCurrent, Numbered, tables
<1>5. QED
  BY <1>1, <1>3, <1>4 DEF BufferInv

LEMMA PutKeeps ==
  ASSUME BufferInv, NEW w \in Workers, NEW doc \in Contents[w], PutObservation(w, doc)
  PROVE  BufferInv'
<1> DEFINE ob  == [w |-> w, n |-> made[w] + 1, doc |-> doc]
           obs == pending \cup {ob}
<1>1. made \in [Workers -> Nat] /\ marks \in Marks /\ Good(pending) /\ Placed
  BY DEF BufferInv, BufferTypeOK, GoodOnes
<1>2. made' = [made EXCEPT ![w] = @ + 1] /\ made' \in [Workers -> Nat]
  BY <1>1 DEF PutObservation
<1>3. ob \in Observations /\ ob.w = w /\ ob.n = made[w] + 1
  <2>1. doc \in Docs
    BY ConstantsAssumption
  <2>2. QED
    BY <1>1, <2>1 DEF Observations
<1>4. Placement(obs, observations, lost, batches, made')
  <2> HIDE DEF ob
  <2>1. QED
    BY <1>1, <1>2, <1>3, NewPlaces DEF Placed
<1>5. Good(obs)
  <2>1. \A x \in pending : ~(x.w = w /\ x.n = made[w] + 1)
    <3>1. ~Has(pending, w, made[w] + 1)
      <4>1. made[w] + 1 \in Nat \ {0} /\ ~(made[w] + 1 <= made[w])
        BY <1>1
      <4>2. QED
        BY <1>1, <4>1 DEF Placed, Placement, Nowhere
    <3>2. QED
      BY <3>1 DEF Has
  <2> HIDE DEF ob
  <2>2. IsFiniteSet(obs)
    BY <1>1, FS_AddElement DEF Good
  <2>3. Determined(obs)
    BY <1>1, <1>3, <2>1 DEF Good, Determined
  <2>4. QED
    BY <1>1, <1>3, <2>2, <2>3 DEF Good
<1>6. QED
  <2> HIDE DEF obs
  <2>1. Buffer(w, obs, marks, "put", "made") /\ UNCHANGED <<firing, inserting, tables, lost>>
    BY DEF PutObservation, obs
  <2>2. QED
    BY <1>1, <1>2, <1>4, <1>5, <2>1, BufferKeeps

LEMMA UpsertKeeps ==
  ASSUME BufferInv, NEW w \in Workers, UpsertIngestionOffset(w)
  PROVE  BufferInv'
<1> DEFINE ms == [marks EXCEPT ![w] = made[w]]
<1>1. /\ made' = made /\ made \in [Workers -> Nat] /\ ms \in Marks /\ Good(pending)
      /\ Placement(pending, observations, lost, batches, made')
  BY DEF BufferInv, BufferTypeOK, GoodOnes, Placed, Marks, UpsertIngestionOffset
<1>2. Buffer(w, pending, ms, "upsert", "idle") /\ UNCHANGED <<firing, inserting, tables, lost>>
  BY DEF UpsertIngestionOffset
<1> HIDE DEF ms
<1>3. QED
  BY <1>1, <1>2, BufferKeeps

LEMMA FlushKeeps ==
  ASSUME BufferInv, TimerFlushes \/ Flush
  PROVE  BufferInv'
<1>1. /\ Drain(pending, marks, Nobody) /\ UNCHANGED <<made, pc, inserting, tables, lost>>
      /\ firing' \in Nat
  BY DEF TimerFlushes, Flush, BufferInv, BufferTypeOK
<1>2. /\ Good(pending) /\ marks \in Marks
      /\ Placement(pending, observations, lost, batches, made')
  BY <1>1 DEF BufferInv, BufferTypeOK, GoodOnes, Placed
<1>3. /\ Placed' /\ GoodOnes' /\ batches \subseteq batches' /\ batches' \subseteq Batches
      /\ pending' \subseteq Observations /\ marks' \in Marks /\ timer' = "nil"
  BY <1>1, <1>2, DrainKeeps DEF tables
<1>4. BufferTypeOK'
  BY <1>1, <1>3 DEF BufferInv, BufferTypeOK, tables
<1>5. ReadIsCurrent' /\ Numbered'
  BY <1>1, <1>3, StateStays DEF BufferInv, ReadIsCurrent, Numbered, tables
<1>6. QED
  BY <1>3, <1>4, <1>5 DEF BufferInv

LEMMA TakeKeeps ==
  ASSUME BufferInv, NEW b \in batches, TakeInsertMu(b)
  PROVE  BufferInv'
<1>1. /\ inserting' = {[batch |-> b, states |-> [w \in Workers |-> State(w)]]}
      /\ UNCHANGED <<made, pc, buffer, batches, tables, lost>>
  BY DEF TakeInsertMu, InsertMuIsFree
<1>2. ReadIsCurrent'
  BY <1>1, StateStays DEF ReadIsCurrent, tables
<1>3. BufferTypeOK' /\ GoodOnes' /\ Numbered' /\ Placed'
  BY <1>1 DEF BufferInv, BufferTypeOK, GoodOnes, Numbered, Placed, buffer, tables
<1>4. QED
  BY <1>2, <1>3 DEF BufferInv

\* An insertion ends, with what it has done to the tables.
LEMMA InsertionKeeps ==
  ASSUME BufferInv, NEW i \in inserting, InsertBatch(i) \/ InsertFails(i)
  PROVE  BufferInv'
<1> DEFINE b == i.batch
<1>1. /\ b \in batches /\ i.states = [w \in Workers |-> State(w)] /\ \A j \in inserting : j = i
      /\ Good(b.obs) /\ Placed /\ b \in Batches
  BY DEF BufferInv, BufferTypeOK, ReadIsCurrent, GoodOnes
<1>2. batches' = batches \ {b} /\ inserting' = {} /\ UNCHANGED <<made, buffer>>
  BY <1>1 DEF InsertBatch, InsertFails
<1>3. \/ observations' = observations \cup b.obs /\ UNCHANGED lost
      \/ lost' = lost \cup b.obs /\ UNCHANGED observations
  BY DEF InsertBatch, InsertFails
<1>4. versions' = versions \/ versions' = versions \cup NewVersions(b.obs, i.states)
  BY DEF InsertBatch, InsertFails
<1>5. Placed'
  <2>1. Placement(pending, observations, lost, batches, made)
    BY <1>1 DEF Placed
  <2>2. /\ Placement(pending, observations \cup b.obs, lost, batches \ {b}, made)
        /\ Placement(pending, observations, lost \cup b.obs, batches \ {b}, made)
    BY <1>1, <2>1, InsertPlaces
  <2>3. Placement(pending, observations', lost', batches \ {b}, made)
    BY <1>3, <2>2
  <2>4. QED
    BY <1>2, <2>3 DEF Placed, buffer
<1>6. versions' \subseteq Versions /\ Numbered'
  BY <1>1, <1>4, NewNumbersDiffer DEF BufferInv, BufferTypeOK, Numbered, Good
<1>7. pc' \in [Workers -> {"idle", "put", "made", "upsert"}] /\ offsets' \in Marks
  <2>1. pc' \in [Workers -> {"idle", "put", "made", "upsert"}]
    BY DEF BufferInv, BufferTypeOK, InsertBatch, InsertFails, Return
  <2>2. \A w \in Workers : Later(w, b.marks) \in Nat
    BY <1>1 DEF BufferInv, BufferTypeOK, Batches, Marks, Later
  <2>3. offsets' = offsets \/ offsets' = [w \in Workers |-> Later(w, b.marks)]
    BY DEF InsertBatch, InsertFails
  <2>4. QED
    BY <2>1, <2>2, <2>3 DEF BufferInv, BufferTypeOK, Marks
<1>8. BufferTypeOK'
  BY <1>1, <1>2, <1>3, <1>6, <1>7 DEF BufferInv, BufferTypeOK, Good, buffer
<1>9. GoodOnes' /\ ReadIsCurrent'
  BY <1>2 DEF BufferInv, GoodOnes, ReadIsCurrent, buffer
<1>10. QED
  BY <1>5, <1>6, <1>8, <1>9 DEF BufferInv

LEMMA CrashKeeps == BufferInv /\ Crash => BufferInv'
<1> SUFFICES ASSUME BufferInv, Crash PROVE BufferInv'
  OBVIOUS
<1>1. /\ lost' = lost \cup pending \cup UNION {b.obs : b \in batches}
      /\ pending' = {} /\ marks' = NoMarks /\ timer' = "nil" /\ firing' = 0
      /\ batches' = {} /\ inserting' = {} /\ pc' = [w \in Workers |-> "idle"]
      /\ UNCHANGED <<made, observations, versions, offsets>>
  BY DEF Crash, tables
<1>2. Placed'
  BY <1>1, CrashPlaces DEF BufferInv, Placed
<1>3. BufferTypeOK'
  <2>1. lost' \subseteq Observations
    BY <1>1 DEF BufferInv, BufferTypeOK, Batches
  <2>2. QED
    BY <1>1, <2>1 DEF BufferInv, BufferTypeOK, NoMarks, Marks
<1>4. GoodOnes' /\ ReadIsCurrent' /\ Numbered'
  BY <1>1, FS_EmptySet DEF BufferInv, GoodOnes, Good, Determined, ReadIsCurrent, Numbered
<1>5. QED
  BY <1>2, <1>3, <1>4 DEF BufferInv

LEMMA Inductive == Spec => []BufferInv
<1>1. BufferInv /\ [Next]_vars => BufferInv'
  <2> SUFFICES ASSUME BufferInv, [Next]_vars PROVE BufferInv'
    OBVIOUS
  <2>1. CASE UNCHANGED vars
    BY <2>1, StateStays DEF BufferInv, BufferTypeOK, GoodOnes, ReadIsCurrent, Numbered, Placed,
       vars, buffer, tables
  <2>2. ASSUME NEW w \in Workers, Worker(w) PROVE BufferInv'
    BY <2>2, PutKeeps, UpsertKeeps DEF Worker
  <2>3. CASE TimerFires
    <3>1. timer' = "fired" /\ firing' = firing + 1
          /\ UNCHANGED <<made, pc, pending, marks, batches, inserting, tables, lost>>
      BY <2>3 DEF TimerFires
    <3>2. BufferTypeOK'
      BY <3>1 DEF BufferInv, BufferTypeOK, tables
    <3>3. GoodOnes' /\ ReadIsCurrent' /\ Numbered' /\ Placed'
      BY <3>1, StateStays DEF BufferInv, GoodOnes, ReadIsCurrent, Numbered, Placed, tables
    <3>4. QED
      BY <3>2, <3>3 DEF BufferInv
  <2>4. CASE TimerFlushes \/ Flush
    BY <2>4, FlushKeeps
  <2>5. CASE Insertion \/ \E i \in inserting : InsertFails(i)
    BY <2>5, TakeKeeps, InsertionKeeps DEF Insertion
  <2>6. CASE Crash
    BY <2>6, CrashKeeps
  <2>7. QED
    BY <2>1, <2>2, <2>3, <2>4, <2>5, <2>6 DEF Next
<1>2. QED
  BY <1>1, InitiallyInv, PTL DEF Spec

--------------------------------------------------------------------------------
(* The theorems.                                                                 *)

\* Every variable has its type.
THEOREM BufferTyped == Spec => []BufferTypeOK
<1>1. BufferInv => BufferTypeOK
  BY DEF BufferInv
<1>2. QED
  BY <1>1, Inductive, PTL

\* Every observation made is in one place: in the buffer, in one drained batch, in
\* the table or with a batch that failed; and no two versions of an object have the
\* same number (store.go: Flush, insertPending), for any number of workers, sizes of
\* batches, failures and crashes.
THEOREM StaysInOnePlace == Spec => []InOnePlace
<1>1. BufferInv => InOnePlace
  <2> SUFFICES ASSUME BufferInv PROVE InOnePlace
    OBVIOUS
  <2>1. \A u, v \in versions : u # v /\ u.w = v.w => u.seq # v.seq
    BY DEF BufferInv, Numbered, NumbersDiffer
  <2>2. ASSUME NEW w \in Workers, NEW n \in 1 .. MaxObs[w]
        PROVE  LET is(ob) == ob.w = w /\ ob.n = n
                   places == {b \in batches : \E ob \in b.obs : is(ob)}
                   in(S)  == \E ob \in S : is(ob)
                   count  == Cardinality(places) + Cardinality({S \in {1, 2, 3} :
                               CASE S = 1 -> in(pending) [] S = 2 -> in(observations) [] S = 3 -> in(lost)})
               IN  count = IF n <= made[w] THEN 1 ELSE 0
    <3> DEFINE places == Holders(batches, w, n)
               in(S)  == Has(S, w, n)
               three  == {S \in {1, 2, 3} :
                            CASE S = 1 -> in(pending) [] S = 2 -> in(observations) [] S = 3 -> in(lost)}
    <3>1. n \in Nat \ {0}
      BY ConstantsAssumption
    <3>2. IF n <= made[w] THEN PlacedOnce(pending, observations, lost, batches, w, n)
          ELSE Nowhere(pending, observations, lost, batches, w, n)
      BY <3>1 DEF BufferInv, Placed, Placement
    <3>3. Cardinality({}) = 0 /\ \A x : Cardinality({x}) = 1
      BY FS_EmptySet, FS_Singleton
    <3>4. /\ 1 \in three <=> in(pending)
          /\ 2 \in three <=> in(observations)
          /\ 3 \in three <=> in(lost)
          /\ \A x \in three : x \in {1, 2, 3}
      <4>1. \A S \in {1, 2, 3} : S \in three <=>
              (CASE S = 1 -> in(pending) [] S = 2 -> in(observations) [] S = 3 -> in(lost))
        BY Zenon
      <4>2. \A x \in three : x \in {1, 2, 3}
        BY Zenon
      <4> HIDE DEF three, in
      <4>3. QED
        BY <4>1, <4>2
    <3>5. CASE n <= made[w]
      <4>1. \/ places = {} /\ \E x : three = {x}
            \/ three = {} /\ \E x : places = {x}
        <5> HIDE DEF three
        <5>1. CASE in(pending) /\ ~in(observations) /\ ~in(lost) /\ places = {}
          <6>1. three = {1}
            BY <3>4, <5>1
          <6>2. QED
            BY <5>1, <6>1
        <5>2. CASE ~in(pending) /\ in(observations) /\ ~in(lost) /\ places = {}
          <6>1. three = {2}
            BY <3>4, <5>2
          <6>2. QED
            BY <5>2, <6>1
        <5>3. CASE ~in(pending) /\ ~in(observations) /\ in(lost) /\ places = {}
          <6>1. three = {3}
            BY <3>4, <5>3
          <6>2. QED
            BY <5>3, <6>1
        <5>4. CASE ~in(pending) /\ ~in(observations) /\ ~in(lost) /\ \E b \in batches : places = {b}
          <6>1. three = {}
            BY <3>4, <5>4
          <6>2. QED
            BY <5>4, <6>1
        <5>5. QED
          BY <3>2, <3>5, <5>1, <5>2, <5>3, <5>4 DEF PlacedOnce
      <4> HIDE DEF three, places
      <4>2. Cardinality(places) + Cardinality(three) = 1
        <5>1. ASSUME places = {}, NEW x, three = {x} PROVE Cardinality(places) + Cardinality(three) = 1
          BY <5>1, OneOfBoth
        <5>2. ASSUME three = {}, NEW x, places = {x} PROVE Cardinality(places) + Cardinality(three) = 1
          BY <5>2, OneOfBoth
        <5>3. QED
          BY <4>1, <5>1, <5>2
      <4>3. QED
        BY <3>5, <4>2 DEF three, places, Holders, Has
    <3>6. CASE ~(n <= made[w])
      <4>1. places = {} /\ three = {}
        <5> HIDE DEF three
        <5>1. QED
          BY <3>2, <3>4, <3>6 DEF Nowhere
      <4> HIDE DEF three, places
      <4>2. Cardinality(places) + Cardinality(three) = 0
        BY <3>3, <4>1
      <4>3. QED
        BY <3>6, <4>2 DEF three, places, Holders, Has
    <3>7. QED
      BY <3>5, <3>6
  <2>3. QED
    BY <2>1, <2>2 DEF InOnePlace
<1>2. QED
  BY <1>1, Inductive, PTL
================================================================================
