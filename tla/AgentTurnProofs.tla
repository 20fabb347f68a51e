-------------------------- MODULE AgentTurnProofs ---------------------------
(* Proofs about AgentTurn: what the scripts of a session read from the store  *)
(* they share; that a run which completes has audited its tool calls; what a  *)
(* run and its model are told of the turns before; and where the links of its *)
(* answer lead.                                                               *)
EXTENDS AgentTurn, FiniteSetTheorems, SequenceTheorems, WellFoundedInduction, TLAPS

-----------------------------------------------------------------------------
(* The files of the scripts (scratch_store.go). Where no two scripts write    *)
(* one path, a path belongs to at most one of them as long as it writes: what *)
(* stands under the temporary name is that script's file, and the file is     *)
(* whole before it gets the final name.                                       *)

ScriptFields == {"at", "limit", "queries", "active", "ran", "threw", "helpers", "path", "where",
                 "read"}

Fine(file) == file = NoFile \/ file.whole
Writes(s) == s.at \in {"open", "filled"}

\* What is known of a script, of the path it writes, and of what it has read.
ScriptOK(c, s, tmp) ==
  /\ DOMAIN s = ScriptFields
  /\ s.path \in Paths \cup {NoPath}
  /\ Writes(s) => s.path \in Paths
  /\ s.at = "open" =>
       \/ s.where = "temp" /\ tmp[s.path] = [by |-> c, whole |-> FALSE]
       \/ s.where = "gone" /\ tmp[s.path] = NoFile
  /\ s.at = "filled" => s.where \in {"temp", "gone"} /\ Fine(tmp[s.path])
  /\ \A file \in s.read : file.whole

FilesInv ==
  /\ DOMAIN script = Calls /\ DOMAIN final = Paths /\ DOMAIN temp = Paths
  /\ \A p \in Paths : Fine(final[p])
  /\ \A c \in Calls : ScriptOK(c, script[c], temp)
  /\ \A c, d \in Calls : Writes(script[c]) /\ d # c => script[d].path # script[c].path

LEMMA InitFiles == ScriptInit => FilesInv
  BY DEF ScriptInit, FilesInv, ScriptOK, ScriptFields, NewScript, Fine, Writes

\* A step that opens no file: its script s2 has read whole files only, and has
\* left its path or keeps it.
LEMMA QuietFiles ==
  ASSUME FilesInv, NEW c \in Calls, NEW s, With(c, s), UNCHANGED <<final, temp>>,
         DOMAIN s = ScriptFields, ~Writes(s), s.path \in {NoPath, script[c].path},
         \A file \in s.read : file.whole
  PROVE  FilesInv'
<1>1. DOMAIN script' = Calls /\ script'[c] = s /\ \A d \in Calls \ {c} : script'[d] = script[d]
  BY DEF With, FilesInv
<1>2. \A d \in Calls : ScriptOK(d, script[d], temp)
  BY DEF FilesInv
<1>3. ScriptOK(c, s, temp)
  <2>1. s.path \in Paths \cup {NoPath}
    BY <1>2 DEF ScriptOK
  <2> QED BY <2>1 DEF ScriptOK, Writes
<1>4. \A d \in Calls : ScriptOK(d, script'[d], temp')
  BY <1>1, <1>2, <1>3
<1>5. \A e, d \in Calls : Writes(script'[e]) /\ d # e => script'[d].path # script'[e].path
  <2> SUFFICES ASSUME NEW e \in Calls, NEW d \in Calls, Writes(script'[e]), d # e
               PROVE  script'[d].path # script'[e].path
    OBVIOUS
  <2>1. e # c /\ script'[e] = script[e] /\ script[e].path # NoPath
    BY <1>1, <1>2, PathsAssumption DEF ScriptOK
  <2>2. script[d].path # script[e].path /\ script'[d].path \in {NoPath, script[d].path}
    BY <1>1, <2>1 DEF FilesInv
  <2> QED BY <2>1, <2>2
<1> QED BY <1>1, <1>4, <1>5 DEF FilesInv

LEMMA NewScriptOK ==
  /\ DOMAIN NewScript = ScriptFields /\ NewScript.read = {} /\ NewScript.path = NoPath
  /\ \A label : /\ DOMAIN [NewScript EXCEPT !.at = label] = ScriptFields
                /\ [NewScript EXCEPT !.at = label].at = label
                /\ [NewScript EXCEPT !.at = label].read = {}
                /\ [NewScript EXCEPT !.at = label].path = NoPath
  BY DEF NewScript, ScriptFields

LEMMA EndedFiles ==
  ASSUME FilesInv, NEW c \in Calls, NEW label, label \notin {"open", "filled"}, Ended(c, label),
         UNCHANGED <<final, temp>>
  PROVE  FilesInv'
<1> DEFINE s == [NewScript EXCEPT !.at = label]
<1>1. DOMAIN s = ScriptFields /\ s.at = label /\ s.read = {} /\ s.path = NoPath
  BY NewScriptOK
<1>2. With(c, s)
  BY DEF Ended
<1> HIDE DEF s
<1> QED BY <1>1, <1>2, QuietFiles DEF Writes

\* What a helper works on: a script that runs and reads, but writes nothing.
Helping(c, s) ==
  /\ DOMAIN s = ScriptFields /\ s.path \in {NoPath, script[c].path}
  /\ \A file \in s.read : file.whole

LEMMA ThrowsFiles ==
  ASSUME FilesInv, NEW c \in Calls, NEW s, Helping(c, s), Throws(c, s), UNCHANGED <<final, temp>>
  PROVE  FilesInv'
<1>1. CASE With(c, [s EXCEPT !.at = "running"])
  <2> DEFINE t == [s EXCEPT !.at = "running"]
  <2>1. DOMAIN t = ScriptFields /\ t.at = "running" /\ t.path = s.path /\ t.read = s.read
    BY DEF Helping, ScriptFields
  <2>2. With(c, t)
    BY <1>1
  <2> HIDE DEF t
  <2> QED BY <2>1, <2>2, QuietFiles DEF Writes, Helping
<1>2. CASE Ended(c, "failed")
  BY <1>2, EndedFiles
<1> QED BY <1>1, <1>2 DEF Throws

LEMMA CallingHelps ==
  ASSUME FilesInv, NEW c \in Calls, NEW s \in Calling(c)
  PROVE  Helping(c, s) /\ s.at = "running" /\ s.path = script[c].path /\ s.read = script[c].read
         /\ At(c, "running")
<1>1. At(c, "running") /\ s = [script[c] EXCEPT !.helpers = @ + 1]
  BY DEF Calling
<1>2. DOMAIN script[c] = ScriptFields /\ \A file \in script[c].read : file.whole
  BY DEF FilesInv, ScriptOK
<1>3. DOMAIN s = ScriptFields /\ s.at = script[c].at /\ s.path = script[c].path
      /\ s.read = script[c].read
  BY <1>1, <1>2 DEF ScriptFields
<1> QED BY <1>1, <1>2, <1>3 DEF Helping, At

LEMMA StartFiles ==
  ASSUME FilesInv, NEW c \in Calls, StartScript(c), UNCHANGED <<final, temp>>
  PROVE  FilesInv'
<1>1. PICK want \in Wants :
        With(c, [NewScript EXCEPT !.at = "running", !.limit = BoundedMaxQueries(want)])
  BY DEF StartScript
<1> DEFINE s == [NewScript EXCEPT !.at = "running", !.limit = BoundedMaxQueries(want)]
<1>2. DOMAIN s = ScriptFields /\ s.at = "running" /\ s.read = {} /\ s.path = NoPath
  BY NewScriptOK DEF ScriptFields, NewScript
<1>3. With(c, s)
  BY <1>1
<1> HIDE DEF s
<1> QED BY <1>2, <1>3, QuietFiles DEF Writes

LEMMA QueryFiles ==
  ASSUME FilesInv, NEW c \in Calls, NEW n, Query(c, n)
  PROVE  FilesInv'
<1>1. PICK s \in Calling(c) :
        IF MayReserve(s, n)
        THEN With(c, [s EXCEPT !.at = "sql", !.queries = @ + n, !.active = n, !.threw = FALSE])
        ELSE Throws(c, s)
  BY DEF Query
<1>2. Helping(c, s) /\ UNCHANGED <<final, temp>>
  BY CallingHelps DEF Query
<1>3. CASE MayReserve(s, n)
  <2> DEFINE t == [s EXCEPT !.at = "sql", !.queries = @ + n, !.active = n, !.threw = FALSE]
  <2>1. DOMAIN t = ScriptFields /\ t.at = "sql" /\ t.path = s.path /\ t.read = s.read
    BY <1>2 DEF Helping, ScriptFields
  <2>2. With(c, t)
    BY <1>1, <1>3
  <2> HIDE DEF t
  <2> QED BY <1>2, <2>1, <2>2, QuietFiles DEF Writes, Helping
<1>4. CASE ~MayReserve(s, n)
  BY <1>1, <1>2, <1>4, ThrowsFiles
<1> QED BY <1>3, <1>4

LEMMA ReturnsFiles ==
  ASSUME FilesInv, NEW c \in Calls, QueryReturns(c)
  PROVE  FilesInv'
<1>1. PICK ok \in BOOLEAN :
        LET s == [script[c] EXCEPT !.active = @ - 1, !.ran = @ + 1, !.threw = @ \/ ~ok]
        IN  IF s.active > 0 THEN With(c, s)
            ELSE IF s.threw THEN Throws(c, s)
            ELSE With(c, [s EXCEPT !.at = "running"])
  BY DEF QueryReturns
<1> DEFINE s == [script[c] EXCEPT !.active = @ - 1, !.ran = @ + 1, !.threw = @ \/ ~ok]
           t == [s EXCEPT !.at = "running"]
<1>2. DOMAIN script[c] = ScriptFields /\ \A file \in script[c].read : file.whole
  BY DEF FilesInv, ScriptOK
<1>3. DOMAIN s = ScriptFields /\ s.at = script[c].at /\ s.path = script[c].path
      /\ s.read = script[c].read
  BY <1>2 DEF ScriptFields
<1>4. At(c, "sql") /\ UNCHANGED <<final, temp>>
  BY DEF QueryReturns
<1>5. With(c, s) \/ Throws(c, s) \/ With(c, t)
  BY <1>1
<1> HIDE DEF s
<1>6. DOMAIN t = ScriptFields /\ t.at = "running" /\ t.path = s.path /\ t.read = s.read
  BY <1>3 DEF ScriptFields
<1> HIDE DEF t
<1>7. Helping(c, s) /\ ~Writes(s) /\ ~Writes(t)
  BY <1>2, <1>3, <1>4, <1>6 DEF Helping, Writes, At
<1>8. CASE With(c, s)
  BY <1>3, <1>4, <1>7, <1>8, QuietFiles DEF Helping
<1>9. CASE Throws(c, s)
  BY <1>4, <1>7, <1>9, ThrowsFiles
<1>10. CASE With(c, t)
  BY <1>3, <1>4, <1>6, <1>7, <1>10, QuietFiles DEF Helping
<1> QED BY <1>5, <1>8, <1>9, <1>10

LEMMA LoadFiles ==
  ASSUME FilesInv, NEW c \in Calls, NEW p \in Paths, Load(c, p)
  PROVE  FilesInv'
<1>1. PICK s \in Calling(c) :
        IF final[p] = NoFile THEN Throws(c, s)
        ELSE With(c, [s EXCEPT !.read = @ \cup {final[p]}])
  BY DEF Load
<1>2. Helping(c, s) /\ s.at = "running" /\ UNCHANGED <<final, temp>>
  BY CallingHelps DEF Load
<1>3. CASE final[p] = NoFile
  BY <1>1, <1>2, <1>3, ThrowsFiles
<1>4. CASE final[p] # NoFile
  <2> DEFINE t == [s EXCEPT !.read = @ \cup {final[p]}]
  <2>1. DOMAIN t = ScriptFields /\ t.at = s.at /\ t.path = s.path
        /\ t.read = s.read \cup {final[p]}
    BY <1>2 DEF Helping, ScriptFields
  <2>2. With(c, t)
    BY <1>1, <1>4
  <2>3. final[p].whole
    BY <1>4 DEF FilesInv, Fine
  <2> HIDE DEF t
  <2> QED BY <1>2, <2>1, <2>2, <2>3, QuietFiles DEF Writes, Helping
<1> QED BY <1>3, <1>4

LEMMA ListFiles ==
  ASSUME FilesInv, NEW c \in Calls, List(c)
  PROVE  FilesInv'
<1>1. PICK s \in Calling(c) : With(c, s) \/ Throws(c, s)
  BY DEF List
<1>2. Helping(c, s) /\ s.at = "running" /\ UNCHANGED <<final, temp>>
  BY CallingHelps DEF List
<1>3. CASE With(c, s)
  BY <1>2, <1>3, QuietFiles DEF Writes, Helping
<1>4. CASE Throws(c, s)
  BY <1>2, <1>4, ThrowsFiles
<1> QED BY <1>1, <1>3, <1>4

\* A script that writes stays what it is when others change the files of others.
LEMMA OthersFiles ==
  ASSUME NEW d, NEW s, NEW tmp, NEW tmp2, ScriptOK(d, s, tmp),
         Writes(s) => tmp2[s.path] = tmp[s.path]
  PROVE  ScriptOK(d, s, tmp2)
  BY DEF ScriptOK, Writes

LEMMA OpenFiles ==
  ASSUME ~SharedPaths, FilesInv, NEW c \in Calls, NEW p \in Paths, OpenTemp(c, p)
  PROVE  FilesInv'
<1>1. PICK s0 \in Calling(c) : With(c, [s0 EXCEPT !.at = "open", !.path = p, !.where = "temp"])
  BY DEF OpenTemp
<1> DEFINE s == [s0 EXCEPT !.at = "open", !.path = p, !.where = "temp"]
<1>2. Helping(c, s0) /\ s0.read = script[c].read /\ At(c, "running")
  BY CallingHelps
<1>3. DOMAIN s = ScriptFields /\ s.at = "open" /\ s.path = p /\ s.where = "temp"
      /\ s.read = s0.read
  BY <1>2 DEF Helping, ScriptFields
<1>4. script' = [script EXCEPT ![c] = s]
  BY <1>1 DEF With
<1> HIDE DEF s
<1>5. DOMAIN script' = Calls /\ script'[c] = s /\ \A d \in Calls \ {c} : script'[d] = script[d]
  BY <1>4 DEF FilesInv
<1>6. DOMAIN temp' = Paths /\ temp'[p] = [by |-> c, whole |-> FALSE]
      /\ \A q \in Paths \ {p} : temp'[q] = temp[q]
  BY DEF OpenTemp, FilesInv
<1>7. \A d \in Calls \ {c} : script[d].path # p
  BY DEF OpenTemp, MayWrite
<1>8. ScriptOK(c, s, temp')
  BY <1>2, <1>3, <1>6 DEF ScriptOK, Helping
<1>9. ASSUME NEW d \in Calls \ {c}
      PROVE  ScriptOK(d, script[d], temp')
  <2>1. ScriptOK(d, script[d], temp)
    BY DEF FilesInv
  <2>2. Writes(script[d]) => temp'[script[d].path] = temp[script[d].path]
    BY <1>6, <1>7, <2>1 DEF ScriptOK
  <2> QED BY <2>1, <2>2, OthersFiles
<1>10. \A d \in Calls : ScriptOK(d, script'[d], temp')
  BY <1>5, <1>8, <1>9
<1>11. \A e, d \in Calls : Writes(script'[e]) /\ d # e => script'[d].path # script'[e].path
  <2> SUFFICES ASSUME NEW e \in Calls, NEW d \in Calls, Writes(script'[e]), d # e
               PROVE  script'[d].path # script'[e].path
    OBVIOUS
  <2>1. CASE e = c
    BY <1>3, <1>5, <1>7, <2>1
  <2>2. CASE d = c
    BY <1>3, <1>5, <1>7, <2>2
  <2>3. CASE e # c /\ d # c
    BY <1>5, <2>3 DEF FilesInv
  <2> QED BY <2>1, <2>2, <2>3
<1>12. UNCHANGED final
  BY DEF OpenTemp
<1> QED BY <1>5, <1>6, <1>10, <1>11, <1>12 DEF FilesInv

LEMMA WriteFiles ==
  ASSUME FilesInv, NEW c \in Calls, WriteTemp(c)
  PROVE  FilesInv'
<1> DEFINE p == script[c].path
           s == [script[c] EXCEPT !.at = "filled"]
<1>1. ScriptOK(c, script[c], temp) /\ script[c].at = "open" /\ Writes(script[c])
  BY DEF FilesInv, WriteTemp, At, Writes
<1>2. p \in Paths /\ script[c].where \in {"temp", "gone"}
  BY <1>1 DEF ScriptOK
<1>3. DOMAIN s = ScriptFields /\ s.at = "filled" /\ s.path = p /\ s.where = script[c].where
      /\ s.read = script[c].read
  BY <1>1 DEF ScriptOK, ScriptFields
<1>4. script' = [script EXCEPT ![c] = s]
  BY DEF With, WriteTemp
<1>5. final' = final
  BY <1>2 DEF WriteTemp
<1>6. DOMAIN temp' = Paths /\ Fine(temp'[p]) /\ \A q \in Paths \ {p} : temp'[q] = temp[q]
  <2>1. CASE script[c].where = "temp"
    <3>1. PICK f \in Overwritten(temp[p], c) : temp' = [temp EXCEPT ![p] = f]
      BY <2>1 DEF WriteTemp
    <3>2. temp[p] = [by |-> c, whole |-> FALSE]
      BY <1>1, <2>1 DEF ScriptOK
    <3>3. f.whole
      BY <3>2 DEF Overwritten
    <3> QED BY <1>2, <3>1, <3>3 DEF FilesInv, Fine
  <2>2. CASE script[c].where = "gone"
    <3>1. temp' = temp
      BY <2>2 DEF WriteTemp
    <3> QED BY <1>1, <2>2, <3>1 DEF FilesInv, Fine, ScriptOK
  <2> QED BY <1>2, <2>1, <2>2
<1> HIDE DEF s
<1>7. DOMAIN script' = Calls /\ script'[c] = s /\ \A d \in Calls \ {c} : script'[d] = script[d]
  BY <1>4 DEF FilesInv
<1>8. \A d \in Calls \ {c} : script[d].path # p
  BY <1>1 DEF FilesInv
<1>9. ScriptOK(c, s, temp')
  BY <1>1, <1>2, <1>3, <1>6 DEF ScriptOK
<1>10. ASSUME NEW d \in Calls \ {c}
       PROVE  ScriptOK(d, script[d], temp')
  <2>1. ScriptOK(d, script[d], temp)
    BY DEF FilesInv
  <2>2. Writes(script[d]) => temp'[script[d].path] = temp[script[d].path]
    BY <1>6, <1>8, <2>1 DEF ScriptOK
  <2> QED BY <2>1, <2>2, OthersFiles
<1>11. \A d \in Calls : ScriptOK(d, script'[d], temp')
  BY <1>7, <1>9, <1>10
<1>12. \A e, d \in Calls : Writes(script'[e]) /\ d # e => script'[d].path # script'[e].path
  <2>1. \A d \in Calls : script'[d].path = script[d].path
    BY <1>3, <1>7
  <2>2. \A d \in Calls : Writes(script'[d]) => Writes(script[d])
    BY <1>1, <1>7
  <2> QED BY <2>1, <2>2 DEF FilesInv
<1> QED BY <1>5, <1>6, <1>7, <1>11, <1>12 DEF FilesInv

LEMMA RenameFiles ==
  ASSUME FilesInv, NEW c \in Calls, Rename(c)
  PROVE  FilesInv'
<1> DEFINE p    == script[c].path
           shut == [script[c] EXCEPT !.path = NoPath, !.where = "closed"]
           s    == [shut EXCEPT !.at = "running"]
<1>1. ScriptOK(c, script[c], temp) /\ script[c].at = "filled" /\ Writes(script[c])
  BY DEF FilesInv, Rename, At, Writes
<1>2. p \in Paths /\ Fine(temp[p]) /\ DOMAIN script[c] = ScriptFields
      /\ \A file \in script[c].read : file.whole
  BY <1>1 DEF ScriptOK
<1>3. DOMAIN shut = ScriptFields /\ shut.path = NoPath /\ shut.read = script[c].read
  BY <1>2 DEF ScriptFields
<1>4. \A d \in Calls \ {c} : script[d].path # p
  BY <1>1 DEF FilesInv
<1>5. CASE temp[p] = NoFile
  <2>1. Throws(c, shut) /\ UNCHANGED <<final, temp>>
    BY <1>5 DEF Rename
  <2>2. Helping(c, shut)
    BY <1>2, <1>3 DEF Helping
  <2> HIDE DEF shut
  <2> QED BY <2>1, <2>2, ThrowsFiles
<1>6. CASE temp[p] # NoFile
  <2>1. /\ DOMAIN script' = Calls /\ script'[c] = s /\ \A d \in Calls \ {c} : script'[d] = script[d]
        /\ final' = [final EXCEPT ![p] = temp[p]]
        /\ temp' = [temp EXCEPT ![p] = NoFile]
    BY <1>4, <1>6 DEF Rename
  <2> HIDE DEF shut
  <2>2. DOMAIN s = ScriptFields /\ s.at = "running" /\ s.path = NoPath /\ s.read = script[c].read
    BY <1>3 DEF ScriptFields
  <2> HIDE DEF s
  <2>3. DOMAIN final' = Paths /\ DOMAIN temp' = Paths
        /\ \A q \in Paths : Fine(final'[q]) /\ (q # p => temp'[q] = temp[q])
    BY <1>2, <2>1 DEF FilesInv
  <2>4. ScriptOK(c, s, temp')
    BY <1>2, <2>2 DEF ScriptOK, Writes
  <2>5. ASSUME NEW d \in Calls \ {c}
        PROVE  ScriptOK(d, script[d], temp')
    <3>1. ScriptOK(d, script[d], temp)
      BY DEF FilesInv
    <3>2. Writes(script[d]) => temp'[script[d].path] = temp[script[d].path]
      BY <1>4, <2>3, <3>1 DEF ScriptOK
    <3> QED BY <3>1, <3>2, OthersFiles
  <2>6. \A d \in Calls : ScriptOK(d, script'[d], temp')
    BY <2>1, <2>4, <2>5
  <2>7. \A e, d \in Calls : Writes(script'[e]) /\ d # e => script'[d].path # script'[e].path
    <3> SUFFICES ASSUME NEW e \in Calls, NEW d \in Calls, Writes(script'[e]), d # e
                 PROVE  script'[d].path # script'[e].path
      OBVIOUS
    <3>1. e # c /\ script'[e] = script[e]
      BY <2>1, <2>2 DEF Writes
    <3>2. script[e].path # NoPath
      BY <3>1, PathsAssumption DEF FilesInv, ScriptOK
    <3> QED BY <2>1, <2>2, <3>1, <3>2 DEF FilesInv
  <2> QED BY <2>1, <2>3, <2>6, <2>7 DEF FilesInv
<1> QED BY <1>5, <1>6

LEMMA RemovesFiles ==
  ASSUME FilesInv, CleanupRemoves
  PROVE  FilesInv'
<1>1. DOMAIN script' = Calls /\ DOMAIN final' = Paths /\ DOMAIN temp' = Paths
      /\ \A p \in Paths : Fine(final'[p]) /\ temp'[p] = NoFile
  BY DEF CleanupRemoves, Fine
<1>2. ASSUME NEW c \in Calls
      PROVE  ScriptOK(c, script'[c], temp') /\ script'[c].path = script[c].path
             /\ (Writes(script'[c]) <=> Writes(script[c]))
  <2>1. ScriptOK(c, script[c], temp)
    BY DEF FilesInv
  <2>2. CASE script[c].where = "closed"
    <3>1. script'[c] = script[c]
      BY <2>2 DEF CleanupRemoves
    <3>2. ~Writes(script[c])
      BY <2>1, <2>2 DEF ScriptOK, Writes
    <3> QED BY <2>1, <3>1, <3>2, OthersFiles
  <2>3. CASE script[c].where # "closed"
    <3> DEFINE s == [script[c] EXCEPT !.where = "gone"]
    <3>1. script'[c] = s
      BY <2>3 DEF CleanupRemoves
    <3>2. DOMAIN s = ScriptFields /\ s.at = script[c].at /\ s.path = script[c].path
          /\ s.read = script[c].read /\ s.where = "gone"
      BY <2>1 DEF ScriptOK, ScriptFields
    <3> HIDE DEF s
    <3>3. ScriptOK(c, s, temp')
      BY <1>1, <2>1, <3>2 DEF ScriptOK, Fine, Writes
    <3> QED BY <3>1, <3>2, <3>3 DEF Writes
  <2> QED BY <2>2, <2>3
<1>3. \A e, d \in Calls : Writes(script'[e]) /\ d # e => script'[d].path # script'[e].path
  BY <1>2 DEF FilesInv
<1> QED BY <1>1, <1>2, <1>3 DEF FilesInv

LEMMA ScriptStepFiles ==
  ASSUME ~SharedPaths, FilesInv, NEW c \in Calls, ScriptStep(c)
  PROVE  FilesInv'
<1>1. ASSUME ScriptFails(c) \/ ScriptReturns(c)
      PROVE  FilesInv'
  BY <1>1, EndedFiles DEF ScriptFails, ScriptReturns
<1> QED BY <1>1, QueryFiles, ReturnsFiles, OpenFiles, LoadFiles, WriteFiles, RenameFiles, ListFiles
        DEF ScriptStep

LEMMA SameFiles == FilesInv /\ UNCHANGED scriptVars => FilesInv'
  BY DEF FilesInv, scriptVars

LEMMA NextFiles ==
  ASSUME ~SharedPaths, FilesInv, [Next]_vars
  PROVE  FilesInv'
<1>1. CASE UNCHANGED scriptVars
  BY <1>1, SameFiles
<1>2. ASSUME NEW r \in DOMAIN rs, NEW c \in Calls, Script(r, c)
      PROVE  FilesInv'
  BY <1>2, StartFiles, ScriptStepFiles DEF Script
<1>3. CASE Cleanup
  <2>1. CASE CleanupReads(\E r \in DOMAIN rs : Live(r))
    BY <2>1 DEF CleanupReads, FilesInv
  <2> QED BY <1>3, <2>1, RemovesFiles DEF Cleanup
<1>4. (\E retryOf \in {None} \cup Runs : CreateRun(retryOf)) => UNCHANGED scriptVars
  BY Zenon DEF CreateRun
<1>5. ASSUME NEW r \in DOMAIN rs, Agent(r)
      PROVE  UNCHANGED scriptVars \/ \E c \in Calls : Script(r, c)
  BY <1>5, Zenon DEF Agent, Start, AskModel, ModelReplies, AgentFails, ToolsReturned, ToolReturns,
     CondenserFails
<1>6. ASSUME NEW r \in DOMAIN rs, Recorder(r) \/ Cancel(r)
      PROVE  UNCHANGED scriptVars
  BY <1>6, Zenon DEF Recorder, Record, Append1, Complete, TellAnswer, Completed, Fail, Stops, Cancel
<1>7. UNCHANGED vars => UNCHANGED scriptVars
  BY DEF vars
<1> QED BY <1>1, <1>2, <1>3, <1>4, <1>5, <1>6, <1>7, Zenon DEF Next

\* Where the paths of scripts are their own, what a script loads somebody wrote
\* to the end (scratch_store.go, write): whatever calls are made, fail and are
\* interrupted, and whenever the store is removed.
THEOREM ScriptsReadWholeFiles ==
  ASSUME ~SharedPaths
  PROVE  Spec => []ReadsAreWhole
<1>1. Init => FilesInv
  BY InitFiles DEF Init
<1>2. FilesInv /\ [Next]_vars => FilesInv'
  BY NextFiles
<1>3. FilesInv => ReadsAreWhole
  BY DEF FilesInv, ScriptOK, ReadsAreWhole
<1> QED BY <1>1, <1>2, <1>3, PTL DEF Spec

-----------------------------------------------------------------------------
(* The audits of a run (eino_runner.go). A tool call that the model made is   *)
(* in one place: open, or answered in the queue, or about to be recorded, or  *)
(* recorded. Of every place, what is known of one run's share of it is said   *)
(* of the values it may have; the steps then move a call along.               *)

IsSeq(s) == \E S : s \in Seq(S)

\* The calls that events audit; each has one audit, of its own input.
IsAudit(e) == e.type = "tool.audit"
AuditedIn(s) == {s[i].call : i \in {j \in DOMAIN s : IsAudit(s[j])}}
OneAudit(s) ==
  \A i \in DOMAIN s : \A j \in DOMAIN s :
    IsAudit(s[i]) /\ IsAudit(s[j]) /\ s[i].call = s[j].call => i = j
OwnInputs(r, s) ==
  \A i \in DOMAIN s : IsAudit(s[i]) => s[i].input = [run |-> r, call |-> s[i].call]
AuditsOK(r, s) == IsSeq(s) /\ OneAudit(s) /\ OwnInputs(r, s)

\* The calls whose results a queue holds; each has one.
IsResult(e) == e.message.role = "tool"
ToolsIn(q) == {q[i].message.call : i \in {j \in DOMAIN q : IsResult(q[j])}}
ErrIn(q) == \E i \in DOMAIN q : q[i].message.role = "error"
OneResult(q) ==
  \A i \in DOMAIN q : \A j \in DOMAIN q :
    IsResult(q[i]) /\ IsResult(q[j]) /\ q[i].message.call = q[j].message.call => i = j
QueueOK(q) == IsSeq(q) /\ OneResult(q) /\ \A i \in DOMAIN q : IsSeq(q[i].message.calls)

LEMMA NoEvents ==
  /\ IsSeq(<<>>)
  /\ \A r : AuditsOK(r, <<>>)
  /\ AuditedIn(<<>>) = {}
  /\ QueueOK(<<>>) /\ ToolsIn(<<>>) = {} /\ ~ErrIn(<<>>)
<1>1. <<>> \in Seq({}) /\ DOMAIN <<>> = {}
  OBVIOUS
<1>2. IsSeq(<<>>)
  BY <1>1, Zenon DEF IsSeq
<1>3. OneAudit(<<>>) /\ OneResult(<<>>) /\ ~ErrIn(<<>>) /\ \A r : OwnInputs(r, <<>>)
  BY <1>1, Zenon DEF OneAudit, OneResult, ErrIn, OwnInputs
<1>4. AuditedIn(<<>>) = {} /\ ToolsIn(<<>>) = {}
  BY <1>1 DEF AuditedIn, ToolsIn
<1>5. QueueOK(<<>>)
  BY <1>1, <1>2, <1>3, Zenon DEF QueueOK
<1>6. ASSUME NEW r PROVE AuditsOK(r, <<>>)
  BY <1>2, <1>3, Zenon DEF AuditsOK
<1> QED BY <1>2, <1>3, <1>4, <1>5, <1>6, Zenon

\* u is s, of length n, and then t.
Joins(u, s, t, n) ==
  /\ IsSeq(u) /\ n \in Nat
  /\ \A i \in DOMAIN s : i \in DOMAIN u /\ u[i] = s[i]
  /\ \A j \in DOMAIN t : n + j \in DOMAIN u /\ u[n + j] = t[j]
  /\ \A i \in DOMAIN u : i \in DOMAIN s \/ \E j \in DOMAIN t : i = n + j

LEMMA Concat ==
  ASSUME NEW s, NEW t, IsSeq(s), IsSeq(t)
  PROVE  Joins(s \o t, s, t, Len(s))
<1>1. PICK S : s \in Seq(S)
  BY DEF IsSeq
<1>2. PICK T : t \in Seq(T)
  BY DEF IsSeq
<1>3. s \in Seq(S \cup T) /\ t \in Seq(S \cup T)
  BY <1>1, <1>2
<1>4. s \o t \in Seq(S \cup T)
  BY <1>3
<1>5. Len(s) \in Nat /\ Len(t) \in Nat /\ DOMAIN s = 1 .. Len(s) /\ DOMAIN t = 1 .. Len(t)
  BY <1>1, <1>2
<1>6. /\ DOMAIN (s \o t) = 1 .. (Len(s) + Len(t))
      /\ \A i \in 1 .. Len(s) : (s \o t)[i] = s[i]
      /\ \A i \in 1 .. Len(t) : (s \o t)[Len(s) + i] = t[i]
  BY <1>3, <1>4, <1>5
<1>7. ASSUME NEW i \in 1 .. (Len(s) + Len(t)), i \notin 1 .. Len(s)
      PROVE  i - Len(s) \in 1 .. Len(t) /\ i = Len(s) + (i - Len(s))
  <2> DEFINE m == Len(s)
             n == Len(t)
  <2>1. m \in Nat /\ n \in Nat /\ i \in 1 .. (m + n) /\ i \notin 1 .. m
    BY <1>5, <1>7
  <2> HIDE DEF m, n
  <2>2. i - m \in 1 .. n /\ i = m + (i - m)
    BY <2>1
  <2> QED BY <2>2 DEF m, n
<1>8. \A i \in DOMAIN (s \o t) : i \in DOMAIN s \/ \E j \in DOMAIN t : i = Len(s) + j
  BY <1>5, <1>6, <1>7
<1>9. IsSeq(s \o t)
  BY <1>4, Zenon DEF IsSeq
<1>10. (\A i \in 1 .. Len(s) : i \in 1 .. (Len(s) + Len(t)))
       /\ (\A j \in 1 .. Len(t) : Len(s) + j \in 1 .. (Len(s) + Len(t)))
  <2> DEFINE m == Len(s)
             n == Len(t)
  <2>1. m \in Nat /\ n \in Nat
    BY <1>5
  <2> HIDE DEF m, n
  <2>2. (\A i \in 1 .. m : i \in 1 .. (m + n)) /\ (\A j \in 1 .. n : m + j \in 1 .. (m + n))
    BY <2>1
  <2> QED BY <2>2 DEF m, n
<1>11. DOMAIN s = 1 .. Len(s) /\ DOMAIN t = 1 .. Len(t) /\ Len(s) \in Nat
       /\ DOMAIN (s \o t) = 1 .. (Len(s) + Len(t))
  BY <1>5, <1>6
<1> QED BY <1>6, <1>8, <1>9, <1>10, <1>11, Zenon DEF Joins

\* Events that audit nothing change nothing.
Silent(e) == IsSeq(e) /\ \A i \in DOMAIN e : ~IsAudit(e[i])

\* Audits of other calls add up.
LEMMA AuditsAdd ==
  ASSUME NEW r, NEW s, NEW t, AuditsOK(r, s), AuditsOK(r, t), AuditedIn(s) \cap AuditedIn(t) = {}
  PROVE  AuditsOK(r, s \o t) /\ AuditedIn(s \o t) = AuditedIn(s) \cup AuditedIn(t)
<1> DEFINE u == s \o t
           n == Len(s)
<1>1. Joins(u, s, t, n)
  BY Concat DEF AuditsOK
<1> HIDE DEF u, n
<1>2. AuditedIn(u) = AuditedIn(s) \cup AuditedIn(t)
  BY <1>1 DEF AuditedIn, Joins
<1>3. OneAudit(s) /\ OneAudit(t) /\ OwnInputs(r, s) /\ OwnInputs(r, t)
  BY DEF AuditsOK
<1>4. OwnInputs(r, u)
  BY <1>1, <1>3 DEF OwnInputs, Joins
<1>5. ASSUME NEW i \in DOMAIN s, NEW k \in DOMAIN t, IsAudit(s[i]), IsAudit(t[k])
      PROVE  s[i].call # t[k].call
  BY <1>5 DEF AuditedIn
<1>6. ASSUME NEW i \in DOMAIN u, NEW k \in DOMAIN u, IsAudit(u[i]), IsAudit(u[k]),
             u[i].call = u[k].call
      PROVE  i = k
  <2>1. CASE i \in DOMAIN s /\ k \in DOMAIN s
    BY <1>1, <1>3, <1>6, <2>1 DEF OneAudit, Joins
  <2>2. ASSUME NEW j \in DOMAIN t, i \in DOMAIN s, k = n + j
        PROVE  FALSE
    BY <1>1, <1>5, <1>6, <2>2 DEF Joins
  <2>3. ASSUME NEW j \in DOMAIN t, k \in DOMAIN s, i = n + j
        PROVE  FALSE
    BY <1>1, <1>5, <1>6, <2>3 DEF Joins
  <2>4. ASSUME NEW j \in DOMAIN t, NEW h \in DOMAIN t, i = n + j, k = n + h
        PROVE  j = h
    <3>1. u[i] = t[j] /\ u[k] = t[h]
      BY <1>1, <2>4 DEF Joins
    <3> QED BY <1>3, <1>6, <3>1 DEF OneAudit
  <2> QED BY <1>1, <2>1, <2>2, <2>3, <2>4 DEF Joins
<1>7. OneAudit(u)
  BY <1>6 DEF OneAudit
<1> QED BY <1>1, <1>2, <1>4, <1>7 DEF AuditsOK, Joins, u

LEMMA SilentAudits ==
  ASSUME NEW r, NEW e, Silent(e)
  PROVE  AuditsOK(r, e) /\ AuditedIn(e) = {}
<1>1. OneAudit(e) /\ OwnInputs(r, e)
  BY DEF Silent, OneAudit, OwnInputs
<1>2. AuditedIn(e) = {}
  BY DEF Silent, AuditedIn
<1> QED BY <1>1, <1>2 DEF Silent, AuditsOK

LEMMA SilentAdd ==
  ASSUME NEW r, NEW s, NEW e, AuditsOK(r, s), Silent(e)
  PROVE  AuditsOK(r, s \o e) /\ AuditedIn(s \o e) = AuditedIn(s)
  BY SilentAudits, AuditsAdd

LEMMA SilentBoth ==
  ASSUME NEW s, NEW t, Silent(s), Silent(t)
  PROVE  Silent(s \o t)
<1>1. IsSeq(s) /\ IsSeq(t)
  BY DEF Silent
<1> DEFINE u == s \o t
<1>2. PICK n : Joins(u, s, t, n)
  BY <1>1, Concat
<1> HIDE DEF u
<1>3. \A i \in DOMAIN u : ~IsAudit(u[i])
  BY <1>2 DEF Silent, Joins
<1> QED BY <1>2, <1>3 DEF Silent, Joins, u

LEMMA OneEvent == \A e : IsSeq(<<e>>) /\ DOMAIN <<e>> = {1} /\ <<e>>[1] = e
<1> SUFFICES ASSUME NEW e PROVE IsSeq(<<e>>) /\ DOMAIN <<e>> = {1} /\ <<e>>[1] = e
  OBVIOUS
<1>1. <<e>> \in Seq({e}) /\ DOMAIN <<e>> = {1} /\ <<e>>[1] = e
  OBVIOUS
<1> QED BY <1>1, Zenon DEF IsSeq

\* The first event of a sequence and the others.
LEMMA Split ==
  ASSUME NEW s, IsSeq(s), s # <<>>
  PROVE  /\ IsSeq(Tail(s)) /\ Head(s) = s[1] /\ 1 \in DOMAIN s
         /\ \A i \in DOMAIN Tail(s) : i + 1 \in DOMAIN s /\ i + 1 # 1 /\ Tail(s)[i] = s[i + 1]
         /\ \A i \in DOMAIN Tail(s), j \in DOMAIN Tail(s) : i + 1 = j + 1 => i = j
         /\ \A i \in DOMAIN s : i = 1 \/ \E j \in DOMAIN Tail(s) : i = j + 1
<1>1. PICK S : s \in Seq(S)
  BY DEF IsSeq
<1>2. /\ Tail(s) \in Seq(S) /\ Len(s) \in Nat \ {0} /\ DOMAIN s = 1 .. Len(s)
      /\ Len(Tail(s)) = Len(s) - 1 /\ DOMAIN Tail(s) = 1 .. (Len(s) - 1) /\ Head(s) = s[1]
      /\ \A i \in 1 .. (Len(s) - 1) : Tail(s)[i] = s[i + 1]
  BY <1>1
<1>3. /\ \A i \in 1 .. (Len(s) - 1) : i + 1 \in 1 .. Len(s) /\ i + 1 # 1
      /\ \A i, j \in 1 .. (Len(s) - 1) : i + 1 = j + 1 => i = j
      /\ 1 \in 1 .. Len(s)
  BY <1>2
<1>4. \A i \in 1 .. Len(s) : i = 1 \/ (i - 1 \in 1 .. (Len(s) - 1) /\ i = (i - 1) + 1)
  BY <1>2
<1> QED BY <1>2, <1>3, <1>4 DEF IsSeq

LEMMA AuditsSplit ==
  ASSUME NEW r, NEW s, AuditsOK(r, s), s # <<>>
  PROVE  /\ AuditsOK(r, <<Head(s)>>) /\ AuditsOK(r, Tail(s))
         /\ AuditedIn(<<Head(s)>>) \cap AuditedIn(Tail(s)) = {}
         /\ AuditedIn(s) = AuditedIn(<<Head(s)>>) \cup AuditedIn(Tail(s))
<1> DEFINE t == Tail(s)
           h == <<Head(s)>>
<1>1. /\ IsSeq(t) /\ IsSeq(h) /\ DOMAIN h = {1} /\ h[1] = s[1] /\ 1 \in DOMAIN s
      /\ \A i \in DOMAIN t : i + 1 \in DOMAIN s /\ i + 1 # 1 /\ t[i] = s[i + 1]
      /\ \A i \in DOMAIN t, j \in DOMAIN t : i + 1 = j + 1 => i = j
      /\ \A i \in DOMAIN s : i = 1 \/ \E j \in DOMAIN t : i = j + 1
  BY Split, OneEvent DEF AuditsOK
<1> HIDE DEF t, h
<1>2. OneAudit(s) /\ OwnInputs(r, s)
  BY DEF AuditsOK
<1>3. OneAudit(h) /\ OwnInputs(r, h)
  BY <1>1, <1>2 DEF OneAudit, OwnInputs
<1>4. OwnInputs(r, t)
  BY <1>1, <1>2 DEF OwnInputs
<1>5. OneAudit(t)
  BY <1>1, <1>2 DEF OneAudit
<1>6. AuditedIn(s) = AuditedIn(h) \cup AuditedIn(t)
  BY <1>1 DEF AuditedIn
<1>7. ASSUME NEW i \in DOMAIN h, NEW j \in DOMAIN t, IsAudit(h[i]), IsAudit(t[j])
      PROVE  h[i].call # t[j].call
  <2>1. h[i] = s[1] /\ t[j] = s[j + 1] /\ j + 1 \in DOMAIN s /\ j + 1 # 1 /\ 1 \in DOMAIN s
    BY <1>1
  <2> QED BY <1>2, <1>7, <2>1 DEF OneAudit
<1>8. AuditedIn(h) \cap AuditedIn(t) = {}
  BY <1>7 DEF AuditedIn
<1> QED BY <1>1, <1>3, <1>4, <1>5, <1>6, <1>8 DEF AuditsOK, t, h

LEMMA AppendJoins ==
  ASSUME NEW s, NEW e, IsSeq(s)
  PROVE  Joins(Append(s, e), s, <<e>>, Len(s)) /\ Append(s, e) = s \o <<e>>
<1>1. PICK S : s \in Seq(S)
  BY DEF IsSeq
<1>2. s \in Seq(S \cup {e}) /\ e \in S \cup {e}
  BY <1>1
<1>3. Append(s, e) = s \o <<e>>
  BY <1>2
<1>4. Joins(s \o <<e>>, s, <<e>>, Len(s))
  BY OneEvent, Concat
<1> QED BY <1>3, <1>4

ResultOf(e) == IF IsResult(e) THEN {e.message.call} ELSE {}

LEMMA QueueAdds ==
  ASSUME NEW q, NEW e, QueueOK(q), IsSeq(e.message.calls),
         IsResult(e) => e.message.call \notin ToolsIn(q)
  PROVE  /\ QueueOK(Append(q, e))
         /\ ToolsIn(Append(q, e)) = ToolsIn(q) \cup ResultOf(e)
         /\ ErrIn(Append(q, e)) <=> ErrIn(q) \/ e.message.role = "error"
<1> DEFINE u == Append(q, e)
           n == Len(q)
           t == <<e>>
<1>1. Joins(u, q, t, n) /\ DOMAIN t = {1} /\ t[1] = e
  BY AppendJoins, OneEvent DEF QueueOK
<1> HIDE DEF u, n, t
<1>2. /\ IsSeq(u) /\ n + 1 \in DOMAIN u /\ u[n + 1] = e
      /\ \A i \in DOMAIN q : i \in DOMAIN u /\ u[i] = q[i]
      /\ \A i \in DOMAIN u : i \in DOMAIN q \/ i = n + 1
  BY <1>1 DEF Joins
<1>3. ToolsIn(u) = ToolsIn(q) \cup ResultOf(e)
  BY <1>2 DEF ToolsIn, ResultOf
<1>4. ErrIn(u) <=> ErrIn(q) \/ e.message.role = "error"
  BY <1>2 DEF ErrIn
<1>5. \A i \in DOMAIN q : IsResult(q[i]) /\ IsResult(e) => q[i].message.call # e.message.call
  BY DEF ToolsIn
<1>6. OneResult(u)
  BY <1>2, <1>5 DEF OneResult, QueueOK
<1>7. \A i \in DOMAIN u : IsSeq(u[i].message.calls)
  BY <1>2 DEF QueueOK
<1> QED BY <1>2, <1>3, <1>4, <1>6, <1>7 DEF QueueOK, u

LEMMA QueueSplit ==
  ASSUME NEW q, QueueOK(q), q # <<>>
  PROVE  /\ QueueOK(Tail(q)) /\ IsSeq(Head(q).message.calls)
         /\ ToolsIn(q) = ResultOf(Head(q)) \cup ToolsIn(Tail(q))
         /\ ResultOf(Head(q)) \cap ToolsIn(Tail(q)) = {}
         /\ ErrIn(q) <=> ErrIn(Tail(q)) \/ Head(q).message.role = "error"
<1> DEFINE t == Tail(q)
           h == Head(q)
<1>1. /\ IsSeq(t) /\ h = q[1] /\ 1 \in DOMAIN q
      /\ \A i \in DOMAIN t : i + 1 \in DOMAIN q /\ i + 1 # 1 /\ t[i] = q[i + 1]
      /\ \A i \in DOMAIN t, j \in DOMAIN t : i + 1 = j + 1 => i = j
      /\ \A i \in DOMAIN q : i = 1 \/ \E j \in DOMAIN t : i = j + 1
  BY Split DEF QueueOK
<1> HIDE DEF t, h
<1>2. OneResult(q) /\ \A i \in DOMAIN q : IsSeq(q[i].message.calls)
  BY DEF QueueOK
<1>3. OneResult(t)
  BY <1>1, <1>2 DEF OneResult
<1>4. QueueOK(t) /\ IsSeq(h.message.calls)
  BY <1>1, <1>2, <1>3 DEF QueueOK
<1>5. ToolsIn(q) = ResultOf(h) \cup ToolsIn(t)
  BY <1>1 DEF ToolsIn, ResultOf
<1>6. ErrIn(q) <=> ErrIn(t) \/ h.message.role = "error"
  BY <1>1 DEF ErrIn
<1>7. \A j \in DOMAIN t : IsResult(h) /\ IsResult(t[j]) => h.message.call # t[j].message.call
  BY <1>1, <1>2 DEF OneResult
<1>8. ResultOf(h) \cap ToolsIn(t) = {}
  BY <1>7 DEF ResultOf, ToolsIn
<1> QED BY <1>4, <1>5, <1>6, <1>8 DEF t, h

-----------------------------------------------------------------------------
(* What is recorded of a message.                                             *)

\* A sequence made of another, element by element.
LEMMA MappedSeq ==
  ASSUME NEW s, IsSeq(s), NEW f, DOMAIN f = DOMAIN s, f = [i \in DOMAIN f |-> f[i]]
  PROVE  IsSeq(f)
<1>1. PICK S : s \in Seq(S)
  BY DEF IsSeq
<1>2. Len(s) \in Nat /\ DOMAIN s = 1 .. Len(s)
  BY <1>1
<1>3. f \in [1 .. Len(s) -> {f[i] : i \in DOMAIN f}]
  BY <1>2
<1>4. f \in Seq({f[i] : i \in DOMAIN f})
  BY <1>2, <1>3
<1> QED BY <1>4, Zenon DEF IsSeq

LEMMA Silent1 ==
  ASSUME NEW e, ~IsAudit(e)
  PROVE  Silent(<<e>>)
  BY OneEvent DEF Silent

LEMMA EvidenceIsSeq == \A tool, has : IsSeq(Evidence(tool, has))
<1> SUFFICES ASSUME NEW tool, NEW has PROVE IsSeq(Evidence(tool, has))
  OBVIOUS
<1>1. \A t : IsSeq(Lists(t, has))
  BY OneEvent, NoEvents DEF Lists
<1>2. IsSeq(Maps(has)) /\ IsSeq(Histories(has))
  BY OneEvent, NoEvents DEF Maps, Histories
<1>3. IsSeq(Lists(tool, has) \o Maps(has))
  BY <1>1, <1>2, Concat DEF Joins
<1>4. IsSeq(<<[kind |-> "markdown", source |-> tool]>>)
  BY OneEvent
<1> QED BY <1>1, <1>2, <1>3, <1>4, NoEvents DEF Evidence

LEMMA ToolEventsAudit ==
  ASSUME NEW r, NEW m, NEW output, Input(r, m.call) = [run |-> r, call |-> m.call]
  PROVE  AuditsOK(r, ToolEvents(r, m, output)) /\ AuditedIn(ToolEvents(r, m, output)) = {m.call}
<1> DEFINE evidence == Evidence(output.tool, output.has)
           audit    == [type |-> "tool.audit", call |-> m.call, input |-> Input(r, m.call)]
           kept     == Artifact(r, 1, "tool_call", output.tool, output)
           e1       == Event(IF Failed(output) THEN "tool.failed" ELSE "tool.completed")
           e2       == ToolResult(m)
           closing  == <<e1, e2, audit>>
           more     == [i \in DOMAIN evidence |->
                          Artifact(r, 4 + i, evidence[i].kind, evidence[i].source, output)]
           rest     == IF Failed(output) THEN <<>> ELSE more
<1>1. ToolEvents(r, m, output)
        = IF output.size = "empty" THEN closing ELSE (<<kept>> \o closing) \o rest
  BY Zenon DEF ToolEvents
<1>2. ~IsAudit(kept) /\ ~IsAudit(e1) /\ ~IsAudit(e2)
  BY DEF IsAudit, Artifact, Event, ToolResult
<1>3. IsAudit(audit) /\ audit.call = m.call /\ audit.input = [run |-> r, call |-> m.call]
  BY DEF IsAudit
<1>4. IsSeq(more) /\ \A i \in DOMAIN more : ~IsAudit(more[i])
  <2>1. IsSeq(evidence)
    BY EvidenceIsSeq
  <2>2. \A i \in DOMAIN more : ~IsAudit(more[i])
    BY DEF IsAudit, Artifact
  <2>3. DOMAIN more = DOMAIN evidence /\ more = [i \in DOMAIN more |-> more[i]]
    OBVIOUS
  <2> HIDE DEF more, evidence
  <2> QED BY <2>1, <2>2, <2>3, MappedSeq
<1> HIDE DEF more, audit, kept, e1, e2
<1>5. Silent(rest)
  BY <1>4, NoEvents DEF Silent
<1>6. IsSeq(closing) /\ DOMAIN closing = 1 .. 3
      /\ closing[1] = e1 /\ closing[2] = e2 /\ closing[3] = audit
  <2>1. closing \in Seq({e1, e2, audit})
    OBVIOUS
  <2>2. IsSeq(closing)
    BY <2>1, Zenon DEF IsSeq
  <2> QED BY <2>2
<1> HIDE DEF closing, rest
<1>7. \A i \in DOMAIN closing : IsAudit(closing[i]) <=> i = 3
  BY <1>2, <1>3, <1>6
<1>8. AuditsOK(r, closing) /\ AuditedIn(closing) = {m.call}
  BY <1>3, <1>6, <1>7 DEF AuditsOK, OneAudit, OwnInputs, AuditedIn
<1> DEFINE whole == <<kept>> \o closing
<1>9. AuditsOK(r, whole) /\ AuditedIn(whole) = {m.call}
  <2>1. IsSeq(<<kept>>)
    BY OneEvent
  <2>2. Joins(whole, <<kept>>, closing, 1)
    <3>1. Joins(whole, <<kept>>, closing, Len(<<kept>>))
      BY <1>6, <2>1, Concat
    <3>2. Len(<<kept>>) = 1
      OBVIOUS
    <3> QED BY <3>1, <3>2, Zenon
  <2>3. DOMAIN <<kept>> = {1} /\ <<kept>>[1] = kept
    BY OneEvent
  <2> DEFINE first == <<kept>>
  <2> HIDE DEF whole, first
  <2>4. IsSeq(whole) /\ DOMAIN whole = {1, 2, 3, 4}
        /\ whole[1] = kept /\ whole[2] = e1 /\ whole[3] = e2 /\ whole[4] = audit
    <3>1. Joins(whole, first, closing, 1) /\ DOMAIN first = {1} /\ first[1] = kept
      BY <2>2, <2>3 DEF first
    <3>2. /\ IsSeq(whole) /\ 1 \in DOMAIN whole /\ whole[1] = kept
          /\ \A j \in {1, 2, 3} : 1 + j \in DOMAIN whole /\ whole[1 + j] = closing[j]
          /\ \A i \in DOMAIN whole : i = 1 \/ \E j \in {1, 2, 3} : i = 1 + j
      BY <1>6, <3>1 DEF Joins
    <3> QED BY <1>6, <3>2
  <2>5. \A i \in DOMAIN whole : IsAudit(whole[i]) <=> i = 4
    BY <1>2, <1>3, <2>4
  <2> QED BY <1>3, <2>4, <2>5 DEF AuditsOK, OneAudit, OwnInputs, AuditedIn
<1> HIDE DEF whole
<1>10. AuditsOK(r, whole \o rest) /\ AuditedIn(whole \o rest) = AuditedIn(whole)
  BY <1>5, <1>9, SilentAdd, Zenon
<1>11. AuditsOK(r, whole \o rest) /\ AuditedIn(whole \o rest) = {m.call}
  BY <1>9, <1>10, Zenon
<1>12. ToolEvents(r, m, output) = closing \/ ToolEvents(r, m, output) = whole \o rest
  BY <1>1, Zenon DEF whole
<1> QED BY <1>8, <1>11, <1>12, Zenon

\* The types of the events that are recorded of a message.
Typed(e, K) == IsSeq(e) /\ \A i \in DOMAIN e : e[i].type \in K

AssistantTypes ==
  {"message.delta", "message.done", "message.created", "completion.message", "tool.started"}
ToolTypes ==
  {"artifact", "tool.failed", "tool.completed", "completion.tool_result", "tool.audit"}

LEMMA TypedBoth ==
  ASSUME NEW K, NEW s, NEW t, Typed(s, K), Typed(t, K)
  PROVE  Typed(s \o t, K)
<1>1. IsSeq(s) /\ IsSeq(t)
  BY DEF Typed
<1> DEFINE u == s \o t
<1>2. PICK n : Joins(u, s, t, n)
  BY <1>1, Concat
<1> HIDE DEF u
<1>3. \A i \in DOMAIN u : u[i].type \in K
  BY <1>2 DEF Typed, Joins
<1> QED BY <1>2, <1>3 DEF Typed, Joins, u

LEMMA TypedFew ==
  ASSUME NEW K
  PROVE  /\ Typed(<<>>, K)
         /\ \A e : e.type \in K => Typed(<<e>>, K)
  BY NoEvents, OneEvent DEF Typed

LEMMA AssistantEventsTyped ==
  ASSUME NEW r, NEW m, IsSeq(m.calls)
  PROVE  Typed(AssistantEvents(r, m), AssistantTypes)
<1> DEFINE K   == AssistantTypes
           e1  == Spoke("message.delta", m.text)
           e2  == Spoke("message.done", m.text)
           e3  == Message([m EXCEPT !.calls = <<>>, !.tools = <<>>])
           e4  == Spoke("message.created", m.text)
           e5  == Message(m)
           started == [i \in DOMAIN m.calls |-> [type |-> "tool.started", call |-> m.calls[i]]]
           said == <<e1, e2, e3>>
           made == IF m.text = NoText THEN <<>> ELSE <<e4>>
           told == IF m.text = NoText /\ m.calls = <<>> THEN <<>> ELSE <<e5>>
<1>1. AssistantEvents(r, m) = IF Streams(r) THEN IF m.text = NoText THEN <<>> ELSE said
                              ELSE (made \o told) \o started
  BY DEF AssistantEvents
<1>2. e1.type \in K /\ e2.type \in K /\ e3.type \in K /\ e4.type \in K /\ e5.type \in K
  BY DEF AssistantTypes, Spoke, Message
<1>3. Typed(started, K)
  <2>1. \A i \in DOMAIN started : started[i].type \in K
    BY DEF AssistantTypes
  <2>2. DOMAIN started = DOMAIN m.calls /\ started = [i \in DOMAIN started |-> started[i]]
    OBVIOUS
  <2> HIDE DEF started, K
  <2> QED BY <2>1, <2>2, MappedSeq DEF Typed
<1> HIDE DEF K, e1, e2, e3, e4, e5, started
<1>4. Typed(<<>>, K)
  BY TypedFew
<1>5. Typed(said, K)
  <2>1. said \in Seq({e1, e2, e3}) /\ DOMAIN said = 1 .. 3
        /\ said[1] = e1 /\ said[2] = e2 /\ said[3] = e3
    OBVIOUS
  <2>2. IsSeq(said)
    BY <2>1, Zenon DEF IsSeq
  <2> HIDE DEF said
  <2>3. \A i \in DOMAIN said : said[i].type \in K
    BY <1>2, <2>1
  <2> QED BY <2>2, <2>3 DEF Typed
<1>6. Typed(made, K) /\ Typed(told, K)
  BY <1>2, <1>4, TypedFew
<1> HIDE DEF said, made, told
<1>7. Typed((made \o told) \o started, K)
  BY <1>3, <1>6, TypedBoth
<1> QED BY <1>1, <1>4, <1>5, <1>7 DEF K

LEMMA ToolEventsTyped ==
  ASSUME NEW r, NEW m, NEW output
  PROVE  Typed(ToolEvents(r, m, output), ToolTypes)
<1> DEFINE K        == ToolTypes
           evidence == Evidence(output.tool, output.has)
           kept     == Artifact(r, 1, "tool_call", output.tool, output)
           e1       == Event(IF Failed(output) THEN "tool.failed" ELSE "tool.completed")
           e2       == ToolResult(m)
           e3       == [type |-> "tool.audit", call |-> m.call, input |-> Input(r, m.call)]
           closing  == <<e1, e2, e3>>
           more     == [i \in DOMAIN evidence |->
                          Artifact(r, 4 + i, evidence[i].kind, evidence[i].source, output)]
           rest     == IF Failed(output) THEN <<>> ELSE more
<1>1. ToolEvents(r, m, output)
        = IF output.size = "empty" THEN closing ELSE (<<kept>> \o closing) \o rest
  BY Zenon DEF ToolEvents
<1>2. kept.type \in K /\ e1.type \in K /\ e2.type \in K /\ e3.type \in K
  BY DEF ToolTypes, Artifact, Event, ToolResult
<1>3. Typed(more, K)
  <2>1. IsSeq(evidence)
    BY EvidenceIsSeq
  <2>2. \A i \in DOMAIN more : more[i].type \in K
    BY DEF ToolTypes, Artifact
  <2>3. DOMAIN more = DOMAIN evidence /\ more = [i \in DOMAIN more |-> more[i]]
    OBVIOUS
  <2> HIDE DEF more, evidence, K
  <2> QED BY <2>1, <2>2, <2>3, MappedSeq DEF Typed
<1> HIDE DEF K, more, kept, e1, e2, e3
<1>4. Typed(rest, K) /\ Typed(<<kept>>, K)
  BY <1>2, <1>3, TypedFew
<1>5. Typed(closing, K)
  <2>1. closing \in Seq({e1, e2, e3}) /\ DOMAIN closing = 1 .. 3
        /\ closing[1] = e1 /\ closing[2] = e2 /\ closing[3] = e3
    OBVIOUS
  <2>2. IsSeq(closing)
    BY <2>1, Zenon DEF IsSeq
  <2> HIDE DEF closing
  <2>3. \A i \in DOMAIN closing : closing[i].type \in K
    BY <1>2, <2>1
  <2> QED BY <2>2, <2>3 DEF Typed
<1> HIDE DEF closing, rest
<1>6. Typed((<<kept>> \o closing) \o rest, K)
  BY <1>4, <1>5, TypedBoth
<1> QED BY <1>1, <1>5, <1>6 DEF K

LEMMA AssistantEventsSilent ==
  ASSUME NEW r, NEW m, IsSeq(m.calls)
  PROVE  Silent(AssistantEvents(r, m))
  BY AssistantEventsTyped DEF Typed, AssistantTypes, Silent, IsAudit

-----------------------------------------------------------------------------
(* A call has an id of its own.                                               *)

LEMMA LeastNumber ==
  ASSUME NEW T \in SUBSET Nat, T # {}
  PROVE  \E x \in T : \A y \in T : x <= y
<1> DEFINE R == {ss \in Nat \X Nat : ss[1] < ss[2]}
<1>1. IsWellFoundedOn(R, Nat)
  BY NatLessThanWellFounded DEF OpToRel
<1>2. PICK x \in T : \A y \in T : <<y, x>> \notin R
  BY <1>1, WFMin
<1>3. ASSUME NEW y \in T, ~(x <= y)
      PROVE  FALSE
  <2>1. x \in Nat /\ y \in Nat /\ y < x
    BY <1>3
  <2>2. <<y, x>> \in R
    BY <2>1
  <2> QED BY <1>2, <2>2
<1> QED BY <1>3

LEMMA GreatestId ==
  ASSUME NEW U \in SUBSET Calls, U # {}
  PROVE  \E c \in U : \A d \in U : d <= c
<1> DEFINE T == {MaxCalls - c : c \in U}
<1>1. MaxCalls \in Nat
  BY ScriptAssumption
<1>2. U \subseteq 1 .. MaxCalls
  BY DEF Calls
<1>3. T \in SUBSET Nat /\ T # {}
  <2>1. \A c \in 1 .. MaxCalls : MaxCalls - c \in Nat
    BY <1>1
  <2> QED BY <1>2, <2>1
<1>4. PICK x \in T : \A y \in T : x <= y
  BY <1>3, LeastNumber
<1>5. PICK c \in U : x = MaxCalls - c
  BY <1>4
<1>6. ASSUME NEW d \in U
      PROVE  d <= c
  <2>1. MaxCalls - c <= MaxCalls - d
    BY <1>4, <1>5
  <2> QED BY <1>1, <1>2, <2>1
<1> QED BY <1>6

LEMMA FreshIdsAreNew ==
  ASSUME NEW n \in Nat, UsedIds \subseteq Calls
  PROVE  IsSeq(FreshIds(n)) /\ ToSet(FreshIds(n)) \cap UsedIds = {}
<1> DEFINE max   == CHOOSE c \in UsedIds : \A d \in UsedIds : d <= c
           first == IF UsedIds = {} THEN 1 ELSE 1 + max
           ids   == [i \in 1 .. n |-> first + i - 1]
<1>1. FreshIds(n) = ids
  BY DEF FreshIds
<1>2. UsedIds # {} => max \in UsedIds /\ \A d \in UsedIds : d <= max
  BY GreatestId
<1>3. UsedIds \subseteq Int
  BY ScriptAssumption DEF Calls
<1> HIDE DEF max
<1>4. first \in Int /\ \A d \in UsedIds : d < first
  <2>1. CASE UsedIds = {}
    BY <2>1
  <2>2. CASE UsedIds # {}
    <3>1. max \in Int /\ first = 1 + max
      BY <1>2, <1>3, <2>2
    <3>2. \A d \in Int : d <= max => d < 1 + max
      BY <3>1
    <3>3. 1 + max \in Int
      BY <3>1
    <3> QED BY <1>2, <1>3, <2>2, <3>1, <3>2, <3>3
  <2> QED BY <2>1, <2>2
<1> HIDE DEF first
<1>5. ids \in Seq(Int) /\ DOMAIN ids = 1 .. n
  BY <1>4
<1>6. \A i \in 1 .. n : ids[i] >= first
  BY <1>4
<1>7. \A i \in 1 .. n : ids[i] \notin UsedIds
  <2> SUFFICES ASSUME NEW i \in 1 .. n, ids[i] \in UsedIds PROVE FALSE
    OBVIOUS
  <2>1. ids[i] = first + i - 1 /\ first + i - 1 < first
    BY <1>4
  <2> QED BY <1>4, <2>1
<1> HIDE DEF ids
<1>8. IsSeq(ids)
  BY <1>5, Zenon DEF IsSeq
<1> QED BY <1>1, <1>5, <1>7, <1>8 DEF ToSet

-----------------------------------------------------------------------------
(* What holds of the audits.                                                  *)

TurnFields == {"at", "messages", "reply", "results", "calls", "asked"}
LoopFields == {"at", "answer", "drafts", "cites", "told"}
RunFields  == {"status", "session", "retryOf", "retryRoot", "parent"}

\* Open, of what the agent's goroutine knows.
OpenIn(t) == IF t.at = "calling" THEN ToSet(t.reply.calls) \ DOMAIN t.results ELSE {}

\* The places of a run's calls, which are the run's own, and never two places of
\* one call; what is known of the input of a call that waits in the queue.
Book(r, t, q, d, l, T) ==
  /\ DOMAIN t = TurnFields /\ t.calls \subseteq Calls
  /\ QueueOK(q) /\ AuditsOK(r, d) /\ AuditsOK(r, l)
  /\ OpenIn(t) \cup ToolsIn(q) \cup AuditedIn(d) \cup AuditedIn(l) \subseteq t.calls
  /\ OpenIn(t) \cap (ToolsIn(q) \cup AuditedIn(d) \cup AuditedIn(l)) = {}
  /\ ToolsIn(q) \cap (AuditedIn(d) \cup AuditedIn(l)) = {}
  /\ AuditedIn(d) \cap AuditedIn(l) = {}
  /\ \A c \in ToolsIn(q) : T[c] = [run |-> r, call |-> c]

\* Every call is somewhere.
Kept(t, q, d, l) == t.calls \subseteq OpenIn(t) \cup ToolsIn(q) \cup AuditedIn(d) \cup AuditedIn(l)

Going(r) == r \in DOMAIN rs => Live(r)

RunOK(r) ==
  /\ Book(r, turn[r], queue[r], todo[r], log[r], timings)
  /\ DOMAIN loop[r] = LoopFields
  /\ r \in DOMAIN rs => DOMAIN rs[r] = RunFields
  /\ r \notin DOMAIN rs => turn[r].at = "none"
  /\ loop[r].at = "completing" => turn[r].at = "over" /\ queue[r] = <<>> /\ todo[r] = <<>>
  /\ Going(r) /\ ~ErrIn(queue[r]) => Kept(turn[r], queue[r], todo[r], log[r])
  /\ r \in DOMAIN rs /\ rs[r].status = "completed" => turn[r].calls \subseteq AuditedIn(log[r])

Tables ==
  /\ scenario \in Scenarios
  /\ \E n \in Nat : n <= scenario.runs /\ DOMAIN rs = 1 .. n
  /\ DOMAIN log = Runs /\ DOMAIN turn = Runs /\ DOMAIN queue = Runs /\ DOMAIN todo = Runs
  /\ DOMAIN loop = Runs /\ DOMAIN timings = Calls

AuditInv ==
  /\ Tables
  /\ \A r \in Runs : RunOK(r)
  /\ \A q \in Runs : \A r \in Runs : q # r => turn[q].calls \cap turn[r].calls = {}

LEMMA RunsInTables ==
  ASSUME Tables, NEW r \in DOMAIN rs
  PROVE  r \in Runs
<1>1. PICK n \in Nat : n <= scenario.runs /\ DOMAIN rs = 1 .. n
  BY DEF Tables
<1>2. scenario.runs \in Nat
  BY TurnAssumption DEF Tables
<1> QED BY <1>1, <1>2 DEF Runs

\* A step of one run leaves the others, and the inputs of their calls, alone.
Same(q) ==
  /\ log'[q] = log[q] /\ turn'[q] = turn[q] /\ queue'[q] = queue[q] /\ todo'[q] = todo[q]
  /\ loop'[q] = loop[q] /\ (q \in DOMAIN rs' <=> q \in DOMAIN rs)
  /\ q \in DOMAIN rs => rs'[q] = rs[q]

Local(r) ==
  /\ scenario' = scenario
  /\ DOMAIN log' = Runs /\ DOMAIN turn' = Runs /\ DOMAIN queue' = Runs /\ DOMAIN todo' = Runs
  /\ DOMAIN loop' = Runs /\ DOMAIN timings' = Calls
  /\ \A q \in Runs \ {r} : Same(q)
  /\ \A c \in Calls \ turn[r].calls : timings'[c] = timings[c]

LEMMA OthersStay ==
  ASSUME NEW q, RunOK(q), Same(q), \A c \in turn[q].calls : timings'[c] = timings[c]
  PROVE  RunOK(q)'
<1>1. Book(q, turn[q], queue[q], todo[q], log[q], timings)
  BY DEF RunOK
<1>2. Book(q, turn[q], queue[q], todo[q], log[q], timings')
  BY <1>1 DEF Book
<1>3. Book(q, turn[q], queue[q], todo[q], log[q], timings)'
  BY <1>2 DEF Same
<1>4. Going(q)' <=> Going(q)
  BY DEF Same, Going, Live
<1>5. Kept(turn[q], queue[q], todo[q], log[q])' <=> Kept(turn[q], queue[q], todo[q], log[q])
  BY DEF Same
<1> QED BY <1>3, <1>4, <1>5 DEF RunOK, Same

LEMMA LocalStep ==
  ASSUME AuditInv, NEW r \in Runs, Local(r), RunOK(r)',
         \E n \in Nat : n <= scenario.runs /\ DOMAIN rs' = 1 .. n,
         \A q \in Runs \ {r} : turn'[r].calls \cap turn[q].calls = {}
  PROVE  AuditInv'
<1>1. Runs' = Runs
  BY DEF Local, Runs
<1>2. Tables'
  BY <1>1 DEF Tables, Local, AuditInv
<1>3. ASSUME NEW q \in Runs \ {r}
      PROVE  RunOK(q)'
  <2>1. RunOK(q) /\ turn[q].calls \cap turn[r].calls = {}
    BY DEF AuditInv
  <2>2. turn[q].calls \subseteq Calls
    BY <2>1 DEF RunOK, Book
  <2> QED BY <2>1, <2>2, OthersStay DEF Local
<1>4. \A q \in Runs : RunOK(q)'
  BY <1>3
<1>5. \A q \in Runs \ {r} : turn'[q] = turn[q]
  BY DEF Local, Same
<1>6. ASSUME NEW p \in Runs, NEW q \in Runs, p # q
      PROVE  turn'[p].calls \cap turn'[q].calls = {}
  BY <1>5, <1>6 DEF AuditInv
<1> QED BY <1>1, <1>2, <1>4, <1>6 DEF AuditInv

\* A step of a run that moves no call.
LEMMA SilentStep ==
  ASSUME AuditInv, NEW r \in DOMAIN rs, Local(r), DOMAIN rs' = DOMAIN rs,
         UNCHANGED <<queue, todo, timings>>,
         AuditsOK(r, log'[r]), AuditedIn(log'[r]) = AuditedIn(log[r]),
         DOMAIN turn'[r] = TurnFields, turn'[r].calls = turn[r].calls,
         OpenIn(turn'[r]) = OpenIn(turn[r]),
         DOMAIN loop'[r] = LoopFields, DOMAIN rs'[r] = RunFields,
         loop'[r].at = "completing" => turn'[r].at = "over" /\ queue[r] = <<>> /\ todo[r] = <<>>,
         Live(r)' => Live(r),
         rs'[r].status = "completed" => turn[r].calls \subseteq AuditedIn(log[r])
  PROVE  AuditInv'
<1>1. r \in Runs /\ RunOK(r)
  BY RunsInTables DEF AuditInv
<1>2. Book(r, turn[r], queue[r], todo[r], log[r], timings)
  BY <1>1 DEF RunOK
<1>3. Book(r, turn'[r], queue[r], todo[r], log'[r], timings)
  BY <1>2 DEF Book
<1>4. Book(r, turn[r], queue[r], todo[r], log[r], timings)'
  BY <1>3
<1>5. Kept(turn[r], queue[r], todo[r], log[r])' <=> Kept(turn[r], queue[r], todo[r], log[r])
  BY DEF Kept
<1>6. RunOK(r)'
  BY <1>1, <1>4, <1>5 DEF RunOK, Going
<1>7. \E n \in Nat : n <= scenario.runs /\ DOMAIN rs' = 1 .. n
  BY DEF AuditInv, Tables
<1>8. \A q \in Runs \ {r} : turn'[r].calls \cap turn[q].calls = {}
  BY <1>1 DEF AuditInv
<1> QED BY <1>1, <1>6, <1>7, <1>8, LocalStep

\* What the actions of a run need to know.
RunFacts(r) ==
  /\ r \in Runs /\ RunOK(r)
  /\ DOMAIN log = Runs /\ DOMAIN turn = Runs /\ DOMAIN queue = Runs /\ DOMAIN todo = Runs
  /\ DOMAIN loop = Runs /\ DOMAIN timings = Calls
  /\ DOMAIN turn[r] = TurnFields /\ DOMAIN loop[r] = LoopFields /\ DOMAIN rs[r] = RunFields
  /\ Book(r, turn[r], queue[r], todo[r], log[r], timings)
  /\ AuditsOK(r, log[r]) /\ AuditsOK(r, todo[r]) /\ QueueOK(queue[r])

LEMMA FactsHold ==
  ASSUME AuditInv, NEW r \in DOMAIN rs
  PROVE  RunFacts(r)
<1>1. r \in Runs /\ RunOK(r)
  BY RunsInTables DEF AuditInv
<1> QED BY <1>1 DEF RunFacts, AuditInv, Tables, RunOK, Book

\* Events that are no audits are appended.
LEMMA AppendsSilently ==
  ASSUME NEW r, RunFacts(r), NEW e, Silent(e), log' = Appended(r, e)
  PROVE  /\ AuditsOK(r, log'[r]) /\ AuditedIn(log'[r]) = AuditedIn(log[r])
         /\ DOMAIN log' = Runs /\ \A q \in Runs \ {r} : log'[q] = log[q]
<1>1. log'[r] = log[r] \o e /\ DOMAIN log' = Runs /\ \A q \in Runs \ {r} : log'[q] = log[q]
  BY DEF Appended, RunFacts
<1>2. AuditsOK(r, log[r])
  BY DEF RunFacts
<1> QED BY <1>1, <1>2, SilentAdd

LEMMA StartAudits ==
  ASSUME AuditInv, NEW r \in DOMAIN rs, Start(r)
  PROVE  AuditInv' /\ Local(r)
<1>1. RunFacts(r)
  BY FactsHold
<1> DEFINE asked == IF Streams(r) THEN <<Message(Question(r))>> ELSE <<>>
           begun == <<Event("run.started")>>
           e     == asked \o begun
<1>2. Silent(e)
  <2>1. ~IsAudit(Message(Question(r))) /\ ~IsAudit(Event("run.started"))
    BY DEF IsAudit, Message, Event
  <2>2. Silent(<<>>)
    BY NoEvents DEF Silent
  <2>3. Silent(asked) /\ Silent(begun)
    BY <2>1, <2>2, Silent1
  <2> HIDE DEF asked, begun
  <2> QED BY <2>3, SilentBoth
<1>3. log' = Appended(r, e)
  BY DEF Start
<1> HIDE DEF e
<1>4. /\ AuditsOK(r, log'[r]) /\ AuditedIn(log'[r]) = AuditedIn(log[r])
      /\ DOMAIN log' = Runs /\ \A q \in Runs \ {r} : log'[q] = log[q]
  BY <1>1, <1>2, <1>3, AppendsSilently
<1>5. /\ DOMAIN turn' = Runs /\ \A q \in Runs \ {r} : turn'[q] = turn[q]
      /\ DOMAIN turn'[r] = TurnFields /\ turn'[r].at = "thinking" /\ turn'[r].calls = turn[r].calls
  BY <1>1 DEF Start, RunFacts, TurnFields
<1>6. /\ DOMAIN loop' = Runs /\ \A q \in Runs \ {r} : loop'[q] = loop[q]
      /\ loop'[r] = Loop("running")
  BY <1>1 DEF Start, RunFacts
<1>7. DOMAIN loop'[r] = LoopFields /\ loop'[r].at = "running"
  BY <1>6 DEF Loop, LoopFields
<1>8. /\ DOMAIN rs' = DOMAIN rs /\ \A q \in DOMAIN rs \ {r} : rs'[q] = rs[q]
      /\ DOMAIN rs'[r] = RunFields /\ rs'[r].status = "running"
  BY <1>1 DEF Start, RunFacts, RunFields
<1>9. UNCHANGED <<scenario, queue, todo, timings>> /\ Live(r) /\ turn[r].at = "created"
  BY DEF Start
<1>10. Local(r)
  BY <1>1, <1>4, <1>5, <1>6, <1>8, <1>9 DEF Local, Same, RunFacts
<1>11. OpenIn(turn'[r]) = OpenIn(turn[r])
  BY <1>5, <1>9 DEF OpenIn
<1> QED BY <1>4, <1>5, <1>7, <1>8, <1>9, <1>10, <1>11, SilentStep

LEMMA AskAudits ==
  ASSUME AuditInv, NEW r \in DOMAIN rs, AskModel(r)
  PROVE  AuditInv' /\ Local(r)
<1>1. RunFacts(r)
  BY FactsHold
<1> DEFINE request == Warned(turn[r].messages)
           event == [type |-> "completion.request", messages |-> request]
           e     == <<event>>
<1>2. Silent(e)
  BY Silent1 DEF IsAudit
<1>3. log' = Appended(r, e)
  BY DEF AskModel
<1>4. /\ AuditsOK(r, log'[r]) /\ AuditedIn(log'[r]) = AuditedIn(log[r])
      /\ DOMAIN log' = Runs /\ \A q \in Runs \ {r} : log'[q] = log[q]
  BY <1>1, <1>2, <1>3, AppendsSilently
<1> HIDE DEF e
<1>5. turn' = [turn EXCEPT ![r].at = "asked", ![r].messages = request, ![r].asked = @ + 1]
  BY Zenon DEF AskModel
<1> HIDE DEF request
<1>6. /\ DOMAIN turn' = Runs /\ \A q \in Runs \ {r} : turn'[q] = turn[q]
      /\ DOMAIN turn'[r] = TurnFields /\ turn'[r].at = "asked" /\ turn'[r].calls = turn[r].calls
  BY <1>1, <1>5 DEF RunFacts, TurnFields
<1>7. UNCHANGED <<scenario, rs, queue, todo, loop, timings>> /\ Live(r) /\ turn[r].at = "thinking"
  BY DEF AskModel
<1>8. Local(r)
  BY <1>1, <1>4, <1>6, <1>7 DEF Local, Same, RunFacts
<1>9. OpenIn(turn'[r]) = OpenIn(turn[r])
  BY <1>6, <1>7 DEF OpenIn
<1>10. loop[r].at # "completing" /\ rs[r].status # "completed"
  BY <1>1, <1>7 DEF RunFacts, RunOK, Live
<1>11. Live(r)' <=> Live(r)
  BY <1>7 DEF Live
<1>12. DOMAIN rs[r] = RunFields /\ DOMAIN loop[r] = LoopFields
  BY <1>1 DEF RunFacts
<1> QED BY <1>4, <1>6, <1>7, <1>8, <1>9, <1>10, <1>11, <1>12, SilentStep

LEMMA ToolsReturnedAudits ==
  ASSUME AuditInv, NEW r \in DOMAIN rs, ToolsReturned(r)
  PROVE  AuditInv' /\ Local(r)
<1>1. RunFacts(r)
  BY FactsHold
<1>2. PICK M : turn' = [turn EXCEPT ![r].at = "thinking", ![r].messages = M]
  BY Zenon DEF ToolsReturned
<1>3. /\ DOMAIN turn' = Runs /\ \A q \in Runs \ {r} : turn'[q] = turn[q]
      /\ DOMAIN turn'[r] = TurnFields /\ turn'[r].at = "thinking" /\ turn'[r].calls = turn[r].calls
  BY <1>1, <1>2 DEF RunFacts, TurnFields
<1>4. UNCHANGED <<scenario, rs, log, queue, todo, loop, timings>> /\ Live(r)
      /\ turn[r].at = "calling" /\ Open(r) = {}
  BY DEF ToolsReturned
<1>5. Local(r)
  BY <1>1, <1>3, <1>4 DEF Local, Same, RunFacts
<1>6. OpenIn(turn'[r]) = OpenIn(turn[r])
  BY <1>3, <1>4 DEF OpenIn, Open, Asked
<1>7. loop[r].at # "completing" /\ rs[r].status # "completed"
  BY <1>1, <1>4 DEF RunFacts, RunOK, Live
<1>8. Live(r)' <=> Live(r)
  BY <1>4 DEF Live
<1>9. DOMAIN rs[r] = RunFields /\ DOMAIN loop[r] = LoopFields /\ AuditsOK(r, log[r])
  BY <1>1 DEF RunFacts
<1> QED BY <1>3, <1>4, <1>5, <1>6, <1>7, <1>8, <1>9, SilentStep

LEMMA CompleteAudits ==
  ASSUME AuditInv, NEW r \in DOMAIN rs, Complete(r)
  PROVE  AuditInv' /\ Local(r)
<1>1. RunFacts(r)
  BY FactsHold
<1>2. /\ DOMAIN loop' = Runs /\ \A q \in Runs \ {r} : loop'[q] = loop[q]
      /\ DOMAIN loop'[r] = LoopFields
  <2>1. CASE loop[r].answer = NoText
    <3>1. loop' = [loop EXCEPT ![r].at = "completing", ![r].told = 1]
      BY <2>1 DEF Complete
    <3> QED BY <1>1, <3>1 DEF RunFacts, LoopFields
  <2>2. CASE loop[r].answer # NoText
    <3>1. PICK X : loop' = [loop EXCEPT ![r].at = "completing", ![r].cites = X]
      BY <2>2, Zenon DEF Complete
    <3> QED BY <1>1, <3>1 DEF RunFacts, LoopFields
  <2> QED BY <2>1, <2>2
<1>3. UNCHANGED <<scenario, rs, log, turn, queue, todo, timings>> /\ Live(r)
      /\ todo[r] = <<>> /\ turn[r].at = "over" /\ queue[r] = <<>>
  BY DEF Complete, Drained
<1>4. Local(r)
  BY <1>1, <1>2, <1>3 DEF Local, Same, RunFacts
<1>5. rs[r].status # "completed" /\ (Live(r)' <=> Live(r))
  BY <1>3 DEF Live
<1>6. DOMAIN rs[r] = RunFields /\ DOMAIN turn[r] = TurnFields /\ AuditsOK(r, log[r])
  BY <1>1 DEF RunFacts
<1> QED BY <1>2, <1>3, <1>4, <1>5, <1>6, SilentStep

LEMMA TellAnswerAudits ==
  ASSUME AuditInv, NEW r \in DOMAIN rs, TellAnswer(r)
  PROVE  AuditInv' /\ Local(r)
<1>1. RunFacts(r)
  BY FactsHold
<1> DEFINE event == AnswerEvent(loop[r].answer, loop[r].cites, loop[r].told)
           e     == <<event>>
<1>2. ~IsAudit(event)
  BY DEF IsAudit, AnswerEvent, Spoke
<1>3. log' = Appended(r, e)
  BY DEF TellAnswer
<1> HIDE DEF event
<1>4. /\ AuditsOK(r, log'[r]) /\ AuditedIn(log'[r]) = AuditedIn(log[r])
      /\ DOMAIN log' = Runs /\ \A q \in Runs \ {r} : log'[q] = log[q]
  BY <1>1, <1>2, <1>3, Silent1, AppendsSilently
<1>5. /\ DOMAIN loop' = Runs /\ \A q \in Runs \ {r} : loop'[q] = loop[q]
      /\ DOMAIN loop'[r] = LoopFields
  BY <1>1 DEF TellAnswer, RunFacts, LoopFields
<1>6. UNCHANGED <<scenario, rs, turn, queue, todo, timings>> /\ Live(r)
      /\ loop[r].at = "completing"
  BY DEF TellAnswer
<1>7. turn[r].at = "over" /\ queue[r] = <<>> /\ todo[r] = <<>>
  BY <1>1, <1>6 DEF RunFacts, RunOK
<1>8. Local(r)
  BY <1>1, <1>4, <1>5, <1>6 DEF Local, Same, RunFacts
<1>9. rs[r].status # "completed" /\ (Live(r)' <=> Live(r))
  BY <1>6 DEF Live
<1>10. DOMAIN rs[r] = RunFields /\ DOMAIN turn[r] = TurnFields
  BY <1>1 DEF RunFacts
<1> QED BY <1>4, <1>5, <1>6, <1>7, <1>8, <1>9, <1>10, SilentStep

LEMMA CompletedAudits ==
  ASSUME AuditInv, NEW r \in DOMAIN rs, Completed(r)
  PROVE  AuditInv' /\ Local(r)
<1>1. RunFacts(r)
  BY FactsHold
<1> DEFINE event == Event("run.completed")
           e     == <<event>>
<1>2. ~IsAudit(event)
  BY DEF IsAudit, Event
<1>3. log' = Appended(r, e)
  BY DEF Completed
<1> HIDE DEF event
<1>4. /\ AuditsOK(r, log'[r]) /\ AuditedIn(log'[r]) = AuditedIn(log[r])
      /\ DOMAIN log' = Runs /\ \A q \in Runs \ {r} : log'[q] = log[q]
  BY <1>1, <1>2, <1>3, Silent1, AppendsSilently
<1>5. /\ DOMAIN loop' = Runs /\ \A q \in Runs \ {r} : loop'[q] = loop[q]
      /\ DOMAIN loop'[r] = LoopFields /\ loop'[r].at = "returned"
  BY <1>1 DEF Completed, RunFacts, LoopFields
<1>6. /\ DOMAIN rs' = DOMAIN rs /\ \A q \in DOMAIN rs \ {r} : rs'[q] = rs[q]
      /\ DOMAIN rs'[r] = RunFields
  BY <1>1 DEF Completed, RunFacts, RunFields
<1>7. UNCHANGED <<scenario, turn, queue, todo, timings>> /\ Live(r)
      /\ loop[r].at = "completing"
  BY DEF Completed, MayEnd
<1>8. turn[r].at = "over" /\ queue[r] = <<>> /\ todo[r] = <<>>
  BY <1>1, <1>7 DEF RunFacts, RunOK
<1>9. ToolsIn(queue[r]) = {} /\ ~ErrIn(queue[r]) /\ AuditedIn(todo[r]) = {} /\ OpenIn(turn[r]) = {}
  BY <1>8, NoEvents DEF OpenIn
<1>10. Kept(turn[r], queue[r], todo[r], log[r])
  BY <1>1, <1>7, <1>9 DEF RunFacts, RunOK, Going
<1>11. turn[r].calls \subseteq AuditedIn(log[r])
  BY <1>9, <1>10 DEF Kept
<1>12. Local(r)
  BY <1>1, <1>4, <1>5, <1>6, <1>7 DEF Local, Same, RunFacts
<1>13. DOMAIN turn[r] = TurnFields
  BY <1>1 DEF RunFacts
<1> QED BY <1>4, <1>5, <1>6, <1>7, <1>11, <1>12, <1>13, SilentStep

LEMMA CancelAudits ==
  ASSUME AuditInv, NEW r \in DOMAIN rs, Cancel(r)
  PROVE  AuditInv' /\ Local(r)
<1>1. RunFacts(r)
  BY FactsHold
<1> DEFINE event == Event("run.cancelled")
           e     == <<event>>
<1>2. ~IsAudit(event)
  BY DEF IsAudit, Event
<1>3. log' = Appended(r, e)
  BY DEF Cancel
<1> HIDE DEF event
<1>4. /\ AuditsOK(r, log'[r]) /\ AuditedIn(log'[r]) = AuditedIn(log[r])
      /\ DOMAIN log' = Runs /\ \A q \in Runs \ {r} : log'[q] = log[q]
  BY <1>1, <1>2, <1>3, Silent1, AppendsSilently
<1>5. /\ DOMAIN rs' = DOMAIN rs /\ \A q \in DOMAIN rs \ {r} : rs'[q] = rs[q]
      /\ DOMAIN rs'[r] = RunFields /\ rs'[r].status = "cancelled"
  BY <1>1 DEF Cancel, RunFacts, RunFields
<1>6. UNCHANGED <<scenario, turn, queue, todo, loop, timings>> /\ Live(r)
  BY DEF Cancel
<1>7. loop[r].at = "completing" => turn[r].at = "over" /\ queue[r] = <<>> /\ todo[r] = <<>>
  BY <1>1 DEF RunFacts, RunOK
<1>8. Local(r)
  BY <1>1, <1>4, <1>5, <1>6 DEF Local, Same, RunFacts
<1>9. DOMAIN turn[r] = TurnFields /\ DOMAIN loop[r] = LoopFields
  BY <1>1 DEF RunFacts
<1> QED BY <1>4, <1>5, <1>6, <1>7, <1>8, <1>9, SilentStep

\* A step of a run that moves calls.
LEMMA MoveStep ==
  ASSUME AuditInv, NEW r \in DOMAIN rs, Local(r), DOMAIN rs' = DOMAIN rs,
         Book(r, turn'[r], queue'[r], todo'[r], log'[r], timings'),
         DOMAIN loop'[r] = LoopFields, DOMAIN rs'[r] = RunFields,
         loop'[r].at # "completing",
         Live(r)' /\ ~ErrIn(queue'[r]) => Kept(turn'[r], queue'[r], todo'[r], log'[r]),
         rs'[r].status = "completed" => turn'[r].calls \subseteq AuditedIn(log'[r]),
         \A q \in Runs \ {r} : turn'[r].calls \cap turn[q].calls = {}
  PROVE  AuditInv'
<1>1. r \in Runs
  BY RunsInTables DEF AuditInv
<1>2. RunOK(r)'
  BY DEF RunOK, Going
<1>3. \E n \in Nat : n <= scenario.runs /\ DOMAIN rs' = 1 .. n
  BY DEF AuditInv, Tables
<1> QED BY <1>1, <1>2, <1>3, LocalStep

LEMMA OthersCalls ==
  ASSUME AuditInv, NEW r \in Runs
  PROVE  \A q \in Runs \ {r} : turn[r].calls \cap turn[q].calls = {}
  BY DEF AuditInv

LEMMA AppendAudits ==
  ASSUME AuditInv, NEW r \in DOMAIN rs, Append1(r)
  PROVE  AuditInv' /\ Local(r)
<1>1. RunFacts(r)
  BY FactsHold
<1> DEFINE d == todo[r]
           l == log[r]
           h == <<Head(todo[r])>>
           rest == Tail(todo[r])
<1>2. UNCHANGED <<scenario, rs, turn, queue, loop, timings>> /\ Live(r) /\ d # <<>>
  BY DEF Append1
<1>3. /\ log'[r] = l \o h /\ DOMAIN log' = Runs /\ \A q \in Runs \ {r} : log'[q] = log[q]
      /\ todo'[r] = rest /\ DOMAIN todo' = Runs /\ \A q \in Runs \ {r} : todo'[q] = todo[q]
  BY <1>1 DEF Append1, Appended, RunFacts
<1>4. /\ AuditsOK(r, l) /\ AuditsOK(r, d) /\ AuditedIn(d) \cap AuditedIn(l) = {}
  BY <1>1 DEF RunFacts, Book
<1>5. /\ AuditsOK(r, h) /\ AuditsOK(r, rest)
      /\ AuditedIn(h) \cap AuditedIn(rest) = {}
      /\ AuditedIn(d) = AuditedIn(h) \cup AuditedIn(rest)
  BY <1>2, <1>4, AuditsSplit
<1> HIDE DEF h, rest
<1>6. AuditedIn(l) \cap AuditedIn(h) = {}
  BY <1>4, <1>5
<1>7. AuditsOK(r, l \o h) /\ AuditedIn(l \o h) = AuditedIn(l) \cup AuditedIn(h)
  <2>1. AuditsOK(r, l) /\ AuditsOK(r, h) /\ AuditedIn(l) \cap AuditedIn(h) = {}
    BY <1>4, <1>5, <1>6
  <2>2. \A p, u : AuditsOK(r, p) /\ AuditsOK(r, u) /\ AuditedIn(p) \cap AuditedIn(u) = {}
          => AuditsOK(r, p \o u) /\ AuditedIn(p \o u) = AuditedIn(p) \cup AuditedIn(u)
    BY AuditsAdd
  <2> HIDE DEF l
  <2> QED BY <2>1, <2>2, Zenon
<1>8. Book(r, turn[r], queue[r], d, l, timings)
  BY <1>1 DEF RunFacts
<1> DEFINE l2 == l \o h
<1>9. AuditsOK(r, l2) /\ AuditedIn(l2) = AuditedIn(l) \cup AuditedIn(h)
  BY <1>7
<1> HIDE DEF d, l, l2
<1>10. Book(r, turn[r], queue[r], rest, l2, timings)
  BY <1>5, <1>8, <1>9 DEF Book
<1>11. Kept(turn[r], queue[r], d, l) => Kept(turn[r], queue[r], rest, l2)
  BY <1>5, <1>9 DEF Kept
<1>12. log'[r] = l2 /\ todo'[r] = rest
  BY <1>3 DEF l2
<1>13. Local(r)
  BY <1>1, <1>2, <1>3 DEF Local, Same, RunFacts
<1>14. loop[r].at # "completing" /\ rs[r].status # "completed" /\ (Live(r)' <=> Live(r))
  BY <1>1, <1>2 DEF RunFacts, RunOK, Live, d
<1>15. ~ErrIn(queue[r]) => Kept(turn[r], queue[r], d, l)
  BY <1>1, <1>2 DEF RunFacts, RunOK, Going, d, l
<1>16. DOMAIN rs[r] = RunFields /\ DOMAIN loop[r] = LoopFields /\ r \in Runs
  BY <1>1 DEF RunFacts
<1>17. \A q \in Runs \ {r} : turn'[r].calls \cap turn[q].calls = {}
  BY <1>2, <1>16, OthersCalls
<1>18. Book(r, turn'[r], queue'[r], todo'[r], log'[r], timings')
  BY <1>2, <1>10, <1>12
<1>19. ~ErrIn(queue'[r]) => Kept(turn'[r], queue'[r], todo'[r], log'[r])
  BY <1>2, <1>11, <1>12, <1>15
<1> QED BY <1>2, <1>13, <1>14, <1>16, <1>17, <1>18, <1>19, MoveStep

LEMMA FailAudits ==
  ASSUME AuditInv, NEW r \in DOMAIN rs, Fail(r)
  PROVE  AuditInv' /\ Local(r)
<1>1. RunFacts(r)
  BY FactsHold
<1> DEFINE e == <<Event("error"), Event("run.failed")>>
<1>2. Silent(e)
  <2>1. IsSeq(e)
    <3>1. e \in Seq({Event("error"), Event("run.failed")})
      OBVIOUS
    <3> QED BY <3>1, Zenon DEF IsSeq
  <2> QED BY <2>1 DEF Silent, IsAudit, Event
<1>3. log' = Appended(r, e)
  BY DEF Fail
<1> HIDE DEF e
<1>4. /\ AuditsOK(r, log'[r]) /\ AuditedIn(log'[r]) = AuditedIn(log[r])
      /\ DOMAIN log' = Runs /\ \A q \in Runs \ {r} : log'[q] = log[q]
  BY <1>1, <1>2, <1>3, AppendsSilently
<1>5. /\ DOMAIN loop' = Runs /\ \A q \in Runs \ {r} : loop'[q] = loop[q]
      /\ DOMAIN loop'[r] = LoopFields /\ loop'[r].at = "returned"
      /\ DOMAIN queue' = Runs /\ \A q \in Runs \ {r} : queue'[q] = queue[q]
      /\ queue'[r] = <<>>
  BY <1>1 DEF Fail, RunFacts, LoopFields
<1>6. /\ DOMAIN rs' = DOMAIN rs /\ \A q \in DOMAIN rs \ {r} : rs'[q] = rs[q]
      /\ DOMAIN rs'[r] = RunFields /\ rs'[r].status = "failed"
  BY <1>1 DEF Fail, RunFacts, RunFields
<1>7. UNCHANGED <<scenario, turn, todo, timings>>
  BY DEF Fail
<1>8. Local(r)
  BY <1>1, <1>4, <1>5, <1>6, <1>7 DEF Local, Same, RunFacts
<1>9. Book(r, turn[r], queue[r], todo[r], log[r], timings) /\ r \in Runs
  BY <1>1 DEF RunFacts
<1>10. Book(r, turn[r], <<>>, todo[r], log'[r], timings)
  BY <1>4, <1>9, NoEvents DEF Book
<1>11. Book(r, turn'[r], queue'[r], todo'[r], log'[r], timings')
  BY <1>5, <1>7, <1>10
<1>12. ~Live(r)' /\ rs'[r].status # "completed"
  BY <1>6 DEF Live
<1>13. \A q \in Runs \ {r} : turn'[r].calls \cap turn[q].calls = {}
  BY <1>7, <1>9, OthersCalls
<1> QED BY <1>5, <1>6, <1>8, <1>11, <1>12, <1>13, MoveStep

LEMMA StopsAudits ==
  ASSUME AuditInv, NEW r \in DOMAIN rs, Stops(r)
  PROVE  AuditInv' /\ Local(r)
<1>1. RunFacts(r)
  BY FactsHold
<1>2. /\ DOMAIN loop' = Runs /\ \A q \in Runs \ {r} : loop'[q] = loop[q]
      /\ DOMAIN loop'[r] = LoopFields /\ loop'[r].at = "returned"
      /\ DOMAIN queue' = Runs /\ \A q \in Runs \ {r} : queue'[q] = queue[q]
      /\ DOMAIN todo' = Runs /\ \A q \in Runs \ {r} : todo'[q] = todo[q]
      /\ queue'[r] = <<>> /\ todo'[r] = <<>>
  BY <1>1 DEF Stops, RunFacts, LoopFields
<1>3. UNCHANGED <<scenario, rs, log, turn, timings>> /\ ~Live(r)
  BY DEF Stops
<1>4. Local(r)
  BY <1>1, <1>2, <1>3 DEF Local, Same, RunFacts
<1>5. Book(r, turn[r], queue[r], todo[r], log[r], timings) /\ r \in Runs /\ DOMAIN rs[r] = RunFields
  BY <1>1 DEF RunFacts
<1>6. Book(r, turn[r], <<>>, <<>>, log[r], timings)
  BY <1>5, NoEvents DEF Book
<1>7. Book(r, turn'[r], queue'[r], todo'[r], log'[r], timings')
  BY <1>2, <1>3, <1>6
<1>8. ~Live(r)' /\ (rs'[r].status = "completed" => turn'[r].calls \subseteq AuditedIn(log'[r]))
  BY <1>1, <1>3 DEF Live, RunFacts, RunOK
<1>9. \A q \in Runs \ {r} : turn'[r].calls \cap turn[q].calls = {}
  BY <1>3, <1>5, OthersCalls
<1> QED BY <1>2, <1>3, <1>4, <1>5, <1>7, <1>8, <1>9, MoveStep

\* The agent's goroutine says something.
LEMMA Tells ==
  ASSUME NEW r, RunFacts(r), NEW m, NEW output, Tell(r, m, output), IsSeq(m.calls),
         m.role = "tool" => m.call \notin ToolsIn(queue[r])
  PROVE  /\ DOMAIN queue' = Runs /\ \A q \in Runs \ {r} : queue'[q] = queue[q]
         /\ QueueOK(queue'[r])
         /\ ToolsIn(queue'[r]) = ToolsIn(queue[r]) \cup (IF m.role = "tool" THEN {m.call} ELSE {})
         /\ ErrIn(queue'[r]) <=> ErrIn(queue[r]) \/ m.role = "error"
<1> DEFINE e == [message |-> m, output |-> output]
<1>1. /\ DOMAIN queue' = Runs /\ \A q \in Runs \ {r} : queue'[q] = queue[q]
      /\ queue'[r] = Append(queue[r], e)
  BY DEF Tell, RunFacts
<1>2. e.message = m
  OBVIOUS
<1> HIDE DEF e
<1>3. QueueOK(queue[r]) /\ IsSeq(e.message.calls) /\ (IsResult(e) <=> m.role = "tool")
  BY <1>2 DEF RunFacts, IsResult
<1>4. IsResult(e) => e.message.call \notin ToolsIn(queue[r])
  BY <1>2, <1>3
<1>5. /\ QueueOK(Append(queue[r], e))
      /\ ToolsIn(Append(queue[r], e)) = ToolsIn(queue[r]) \cup ResultOf(e)
      /\ ErrIn(Append(queue[r], e)) <=> ErrIn(queue[r]) \/ e.message.role = "error"
  BY <1>3, <1>4, QueueAdds, Zenon
<1>6. ResultOf(e) = IF m.role = "tool" THEN {m.call} ELSE {}
  BY <1>2 DEF ResultOf, IsResult
<1> QED BY <1>1, <1>2, <1>5, <1>6

LEMMA ErrorIs == Error.role = "error" /\ IsSeq(Error.calls)
<1>1. Error.role = "error" /\ Error.calls = <<>>
  BY DEF Error, Said
<1> QED BY <1>1, NoEvents

\* The agent's goroutine ends with an error.
LEMMA ErrorAudits ==
  ASSUME AuditInv, NEW r \in DOMAIN rs, Tell(r, Error, NoOutput),
         turn' = [turn EXCEPT ![r].at = "over"], turn[r].at # "over",
         UNCHANGED <<scenario, rs, log, todo, loop>>,
         DOMAIN timings' = Calls, \A c \in Calls \ OpenIn(turn[r]) : timings'[c] = timings[c]
  PROVE  AuditInv' /\ Local(r)
<1>1. RunFacts(r)
  BY FactsHold
<1>2. /\ DOMAIN queue' = Runs /\ \A q \in Runs \ {r} : queue'[q] = queue[q]
      /\ QueueOK(queue'[r]) /\ ToolsIn(queue'[r]) = ToolsIn(queue[r]) /\ ErrIn(queue'[r])
  BY <1>1, ErrorIs, Tells
<1>3. /\ DOMAIN turn' = Runs /\ \A q \in Runs \ {r} : turn'[q] = turn[q]
      /\ DOMAIN turn'[r] = TurnFields /\ turn'[r].at = "over" /\ turn'[r].calls = turn[r].calls
  BY <1>1 DEF RunFacts, TurnFields
<1>4. Book(r, turn[r], queue[r], todo[r], log[r], timings) /\ r \in Runs
  BY <1>1 DEF RunFacts
<1>5. Local(r)
  BY <1>1, <1>2, <1>3, <1>4 DEF Local, Same, RunFacts, Book
<1>6. OpenIn(turn'[r]) = {}
  BY <1>3 DEF OpenIn
<1>7. \A c \in ToolsIn(queue[r]) : timings'[c] = timings[c]
  BY <1>4 DEF Book
<1>8. Book(r, turn'[r], queue'[r], todo[r], log[r], timings')
  BY <1>2, <1>3, <1>4, <1>6, <1>7 DEF Book
<1>9. loop[r].at # "completing" /\ DOMAIN loop[r] = LoopFields /\ DOMAIN rs[r] = RunFields
  BY <1>1 DEF RunFacts, RunOK
<1>10. rs[r].status = "completed" => turn'[r].calls \subseteq AuditedIn(log[r])
  BY <1>1, <1>3 DEF RunFacts, RunOK
<1>11. \A q \in Runs \ {r} : turn'[r].calls \cap turn[q].calls = {}
  BY <1>3, <1>4, OthersCalls
<1> QED BY <1>2, <1>5, <1>8, <1>9, <1>10, <1>11, MoveStep

LEMMA AgentFailsAudits ==
  ASSUME AuditInv, NEW r \in DOMAIN rs, AgentFails(r)
  PROVE  AuditInv' /\ Local(r)
<1>1. DOMAIN timings' = Calls /\ timings' = timings /\ turn[r].at # "over"
  BY DEF AgentFails, AuditInv, Tables
<1> QED BY <1>1, ErrorAudits DEF AgentFails

LEMMA CondenserFailsAudits ==
  ASSUME AuditInv, NEW r \in DOMAIN rs, NEW c \in Calls, CondenserFails(r, c)
  PROVE  AuditInv' /\ Local(r)
<1>1. c \in OpenIn(turn[r]) /\ turn[r].at # "over"
  BY DEF CondenserFails, Open, OpenIn, Asked
<1>2. DOMAIN timings' = Calls /\ \A d \in Calls \ OpenIn(turn[r]) : timings'[d] = timings[d]
  BY <1>1 DEF CondenserFails, Put, AuditInv, Tables
<1> QED BY <1>1, <1>2, ErrorAudits DEF CondenserFails

LEMMA ToolReturnsAudits ==
  ASSUME AuditInv, NEW r \in DOMAIN rs, NEW c \in Calls, ToolReturns(r, c)
  PROVE  AuditInv' /\ Local(r)
<1>1. RunFacts(r)
  BY FactsHold
<1>2. PICK output :
        LET m == [Said("tool", r) EXCEPT !.call = c, !.size = output.size, !.tool = ToolOf(r, c)]
        IN  /\ Tell(r, m, output)
            /\ turn' = [turn EXCEPT ![r].results =
                 [d \in {c} \cup DOMAIN turn[r].results |->
                    IF d = c THEN m ELSE turn[r].results[d]]]
  BY Zenon DEF ToolReturns
<1> DEFINE m == [Said("tool", r) EXCEPT !.call = c, !.size = output.size, !.tool = ToolOf(r, c)]
           results == [d \in {c} \cup DOMAIN turn[r].results |->
                         IF d = c THEN m ELSE turn[r].results[d]]
<1>3. Tell(r, m, output) /\ turn' = [turn EXCEPT ![r].results = results]
  BY <1>2
<1>4. m.role = "tool" /\ m.call = c /\ m.calls = <<>>
  BY DEF Said
<1> HIDE DEF m, results
<1>5. Book(r, turn[r], queue[r], todo[r], log[r], timings) /\ r \in Runs
  BY <1>1 DEF RunFacts
<1>6. c \in OpenIn(turn[r]) /\ turn[r].at = "calling" /\ c \in turn[r].calls
  BY <1>5 DEF ToolReturns, Open, OpenIn, Asked, Book
<1>7. c \notin ToolsIn(queue[r]) \cup AuditedIn(todo[r]) \cup AuditedIn(log[r])
  BY <1>5, <1>6 DEF Book
<1>8. IsSeq(m.calls) /\ m.call \notin ToolsIn(queue[r])
  BY <1>4, <1>7, NoEvents
<1>9. /\ DOMAIN queue' = Runs /\ \A q \in Runs \ {r} : queue'[q] = queue[q]
      /\ QueueOK(queue'[r]) /\ ToolsIn(queue'[r]) = ToolsIn(queue[r]) \cup {c}
      /\ (ErrIn(queue'[r]) <=> ErrIn(queue[r]))
  BY <1>1, <1>3, <1>4, <1>8, Tells
<1>10. /\ DOMAIN turn' = Runs /\ \A q \in Runs \ {r} : turn'[q] = turn[q]
       /\ DOMAIN turn'[r] = TurnFields /\ turn'[r].at = turn[r].at /\ turn'[r].reply = turn[r].reply
       /\ turn'[r].calls = turn[r].calls /\ turn'[r].results = results
  BY <1>1, <1>3 DEF RunFacts, TurnFields
<1>11. DOMAIN turn'[r].results = {c} \cup DOMAIN turn[r].results
  BY <1>10 DEF results
<1>12. OpenIn(turn'[r]) = OpenIn(turn[r]) \ {c}
  BY <1>6, <1>10, <1>11 DEF OpenIn
<1>13. timings' = [timings EXCEPT ![c] = [run |-> r, call |-> c]]
       /\ UNCHANGED <<scenario, rs, log, todo, loop>>
  BY DEF ToolReturns, Put
<1>14. DOMAIN timings' = Calls /\ timings'[c] = [run |-> r, call |-> c]
       /\ \A d \in Calls \ {c} : timings'[d] = timings[d]
  BY <1>1, <1>13 DEF RunFacts
<1>15. Local(r)
  BY <1>1, <1>6, <1>9, <1>10, <1>13, <1>14 DEF Local, Same, RunFacts
<1>16. \A d \in ToolsIn(queue'[r]) : timings'[d] = [run |-> r, call |-> d]
  <2>1. ToolsIn(queue[r]) \subseteq Calls /\ \A d \in ToolsIn(queue[r]) : timings[d] = [run |-> r, call |-> d]
    BY <1>5 DEF Book
  <2> QED BY <1>7, <1>9, <1>14, <2>1
<1>17. Book(r, turn'[r], queue'[r], todo[r], log[r], timings')
  <2>1. OpenIn(turn'[r]) \cup ToolsIn(queue'[r]) = OpenIn(turn[r]) \cup ToolsIn(queue[r])
    BY <1>6, <1>9, <1>12
  <2>2. OpenIn(turn'[r]) \cap (ToolsIn(queue'[r]) \cup AuditedIn(todo[r]) \cup AuditedIn(log[r])) = {}
    BY <1>5, <1>9, <1>12 DEF Book
  <2>3. ToolsIn(queue'[r]) \cap (AuditedIn(todo[r]) \cup AuditedIn(log[r])) = {}
    BY <1>5, <1>7, <1>9 DEF Book
  <2>4. OpenIn(turn'[r]) \cup ToolsIn(queue'[r]) \cup AuditedIn(todo[r]) \cup AuditedIn(log[r])
        \subseteq turn'[r].calls
    BY <1>5, <1>10, <2>1 DEF Book
  <2> QED BY <1>5, <1>9, <1>10, <1>16, <2>2, <2>3, <2>4 DEF Book
<1>18. Kept(turn[r], queue[r], todo[r], log[r]) => Kept(turn'[r], queue'[r], todo[r], log[r])
  BY <1>9, <1>10, <1>12 DEF Kept
<1>19. loop[r].at # "completing" /\ DOMAIN loop[r] = LoopFields /\ DOMAIN rs[r] = RunFields
  BY <1>1, <1>6 DEF RunFacts, RunOK
<1>20. Live(r) /\ ~ErrIn(queue'[r]) => Kept(turn'[r], queue'[r], todo[r], log[r])
  BY <1>1, <1>9, <1>18 DEF RunFacts, RunOK, Going
<1>21. rs[r].status = "completed" => turn'[r].calls \subseteq AuditedIn(log[r])
  BY <1>1, <1>10 DEF RunFacts, RunOK
<1>22. \A q \in Runs \ {r} : turn'[r].calls \cap turn[q].calls = {}
  BY <1>5, <1>10, OthersCalls
<1>23. Live(r)' <=> Live(r)
  BY <1>13 DEF Live
<1> QED BY <1>13, <1>15, <1>17, <1>19, <1>20, <1>21, <1>22, <1>23, MoveStep

LEMMA RecordAudits ==
  ASSUME AuditInv, NEW r \in DOMAIN rs, Record(r)
  PROVE  AuditInv' /\ Local(r)
<1>1. RunFacts(r)
  BY FactsHold
<1> DEFINE q    == queue[r]
           head == Head(queue[r])
           m    == head.message
           rest == Tail(queue[r])
<1>2. /\ loop[r].at = "running" /\ todo[r] = <<>> /\ q # <<>> /\ Live(r) /\ m.role # "error"
      /\ UNCHANGED <<scenario, rs, log, turn>>
  BY DEF Record
<1>3. Book(r, turn[r], q, todo[r], log[r], timings) /\ r \in Runs /\ QueueOK(q)
      /\ DOMAIN rs[r] = RunFields
  BY <1>1 DEF RunFacts
<1>4. /\ QueueOK(rest) /\ IsSeq(m.calls)
      /\ ToolsIn(q) = ResultOf(head) \cup ToolsIn(rest)
      /\ ResultOf(head) \cap ToolsIn(rest) = {}
      /\ ErrIn(q) <=> ErrIn(rest)
  BY <1>2, <1>3, QueueSplit
<1>5. queue'[r] = rest /\ DOMAIN queue' = Runs /\ \A p \in Runs \ {r} : queue'[p] = queue[p]
  BY <1>1 DEF Record, RunFacts
<1>6. /\ DOMAIN todo' = Runs /\ \A p \in Runs \ {r} : todo'[p] = todo[p]
      /\ todo'[r] = IF m.role = "tool" THEN ToolEvents(r, m, head.output) ELSE AssistantEvents(r, m)
  BY <1>1, Zenon DEF Record, RunFacts
<1>7. timings' = IF m.role = "tool" THEN [timings EXCEPT ![m.call] = NoTiming] ELSE timings
  BY Zenon DEF Record
<1>8. PICK answer, drafts : loop' = [loop EXCEPT ![r].answer = answer, ![r].drafts = drafts]
  BY Zenon DEF Record
<1>9. /\ DOMAIN loop' = Runs /\ \A p \in Runs \ {r} : loop'[p] = loop[p]
      /\ DOMAIN loop'[r] = LoopFields /\ loop'[r].at = loop[r].at
  BY <1>1, <1>8 DEF RunFacts, LoopFields
<1>10. ResultOf(head) = IF m.role = "tool" THEN {m.call} ELSE {}
  BY DEF ResultOf, IsResult
<1>11. AuditedIn(todo[r]) = {}
  BY <1>2, NoEvents
<1> HIDE DEF q, rest, head, m
<1>12. AuditsOK(r, todo'[r]) /\ AuditedIn(todo'[r]) = ResultOf(head)
  <2>1. CASE m.role = "tool"
    <3>1. m.call \in ToolsIn(q)
      BY <1>4, <1>10, <2>1
    <3>2. timings[m.call] = [run |-> r, call |-> m.call]
      BY <1>3, <3>1 DEF Book
    <3>3. Input(r, m.call) = [run |-> r, call |-> m.call]
      BY <3>2 DEF Input
    <3> QED BY <1>6, <1>10, <2>1, <3>3, ToolEventsAudit
  <2>2. CASE m.role # "tool"
    <3>1. Silent(todo'[r])
      BY <1>4, <1>6, <2>2, AssistantEventsSilent
    <3> QED BY <1>10, <2>2, <3>1, SilentAudits
  <2> QED BY <2>1, <2>2
<1>13. ResultOf(head) \subseteq turn[r].calls
  BY <1>3, <1>4 DEF Book
<1>14. DOMAIN timings' = Calls /\ \A c \in Calls \ ResultOf(head) : timings'[c] = timings[c]
  BY <1>1, <1>7, <1>10 DEF RunFacts
<1>15. Local(r)
  BY <1>1, <1>2, <1>5, <1>6, <1>9, <1>13, <1>14 DEF Local, Same, RunFacts
<1>16. \A c \in ToolsIn(rest) : timings'[c] = [run |-> r, call |-> c]
  <2>1. \A c \in ToolsIn(rest) : c \in Calls /\ timings[c] = [run |-> r, call |-> c]
    BY <1>3, <1>4 DEF Book
  <2> QED BY <1>4, <1>14, <2>1
<1>17. Book(r, turn'[r], queue'[r], todo'[r], log'[r], timings')
  <2>1. Book(r, turn[r], rest, todo'[r], log[r], timings')
    <3>1. ToolsIn(rest) \cup AuditedIn(todo'[r]) = ToolsIn(q) \cup AuditedIn(todo[r])
          /\ ToolsIn(rest) \cap AuditedIn(todo'[r]) = {}
      BY <1>4, <1>11, <1>12
    <3>2. OpenIn(turn[r]) \cap (ToolsIn(rest) \cup AuditedIn(todo'[r]) \cup AuditedIn(log[r])) = {}
      BY <1>3, <3>1 DEF Book
    <3>3. ToolsIn(rest) \cap (AuditedIn(todo'[r]) \cup AuditedIn(log[r])) = {}
          /\ AuditedIn(todo'[r]) \cap AuditedIn(log[r]) = {}
      BY <1>3, <1>11, <3>1 DEF Book
    <3>4. OpenIn(turn[r]) \cup ToolsIn(rest) \cup AuditedIn(todo'[r]) \cup AuditedIn(log[r])
          \subseteq turn[r].calls
      BY <1>3, <3>1 DEF Book
    <3> QED BY <1>3, <1>4, <1>12, <1>16, <3>2, <3>3, <3>4 DEF Book
  <2> QED BY <1>2, <1>5, <2>1
<1>18. Kept(turn[r], q, todo[r], log[r]) => Kept(turn[r], rest, todo'[r], log[r])
  BY <1>4, <1>11, <1>12 DEF Kept
<1>19. ~ErrIn(queue'[r]) => Kept(turn'[r], queue'[r], todo'[r], log'[r])
  BY <1>1, <1>2, <1>4, <1>5, <1>18 DEF RunFacts, RunOK, Going, q
<1>20. loop'[r].at # "completing" /\ rs[r].status # "completed"
  BY <1>2, <1>9 DEF Live
<1>21. \A p \in Runs \ {r} : turn'[r].calls \cap turn[p].calls = {}
  BY <1>2, <1>3, OthersCalls
<1> QED BY <1>2, <1>3, <1>9, <1>15, <1>17, <1>19, <1>20, <1>21, MoveStep

LEMMA ModelRepliesAudits ==
  ASSUME AuditInv, NEW r \in DOMAIN rs, ModelReplies(r)
  PROVE  AuditInv' /\ Local(r)
<1>1. RunFacts(r)
  BY FactsHold
<1>2. PICK reply \in scenario.replies :
        LET calls == FreshIds(Len(reply.tools))
            m     == [Answered(r, reply.text) EXCEPT !.calls = calls, !.tools = reply.tools]
        IN  /\ ToSet(calls) \subseteq Calls
            /\ Tell(r, m, NoOutput)
            /\ turn' = [turn EXCEPT
                 ![r].at = IF calls = <<>> THEN "over" ELSE "calling",
                 ![r].messages = Append(@, m),
                 ![r].reply = m,
                 ![r].calls = @ \cup ToSet(calls),
                 ![r].results = <<>>]
  BY Zenon DEF ModelReplies
<1> DEFINE ids  == FreshIds(Len(reply.tools))
           m    == [Answered(r, reply.text) EXCEPT !.calls = ids, !.tools = reply.tools]
           made == ToSet(ids)
           at   == IF ids = <<>> THEN "over" ELSE "calling"
<1>3. made \subseteq Calls /\ Tell(r, m, NoOutput)
      /\ turn' = [turn EXCEPT ![r].at = at, ![r].messages = Append(@, m), ![r].reply = m,
                              ![r].calls = @ \cup made, ![r].results = <<>>]
  BY <1>2
<1>4. m.role = "assistant" /\ m.calls = ids
  BY DEF Answered, Said
<1>5. Book(r, turn[r], queue[r], todo[r], log[r], timings) /\ r \in Runs
      /\ DOMAIN rs[r] = RunFields /\ DOMAIN loop[r] = LoopFields
  BY <1>1 DEF RunFacts
<1>6. \A q \in Runs : turn[q].calls \subseteq UsedIds
  BY DEF UsedIds
<1>7. IsSeq(ids) /\ made \cap UsedIds = {}
  <2>1. UsedIds \subseteq Calls
    BY DEF AuditInv, RunOK, Book, UsedIds
  <2>2. Len(reply.tools) \in Nat
    BY TurnAssumption DEF AuditInv, Tables
  <2> QED BY <2>1, <2>2, FreshIdsAreNew
<1>8. UNCHANGED <<scenario, rs, log, todo, loop, timings>> /\ Live(r) /\ turn[r].at = "asked"
  BY DEF ModelReplies
<1>9. ids = <<>> => made = {}
  BY DEF ToSet
<1>10. made = ToSet(ids) /\ (at = IF ids = <<>> THEN "over" ELSE "calling")
  OBVIOUS
<1> HIDE DEF ids, m, made, at
<1>11. /\ DOMAIN queue' = Runs /\ \A q \in Runs \ {r} : queue'[q] = queue[q]
       /\ QueueOK(queue'[r]) /\ ToolsIn(queue'[r]) = ToolsIn(queue[r])
       /\ (ErrIn(queue'[r]) <=> ErrIn(queue[r]))
  BY <1>1, <1>3, <1>4, <1>7, Tells
<1>12. /\ DOMAIN turn' = Runs /\ \A q \in Runs \ {r} : turn'[q] = turn[q]
       /\ DOMAIN turn'[r] = TurnFields /\ turn'[r].at = at /\ turn'[r].reply = m
       /\ turn'[r].calls = turn[r].calls \cup made /\ turn'[r].results = <<>>
  BY <1>1, <1>3 DEF RunFacts, TurnFields
<1>13. OpenIn(turn'[r]) = made
  BY <1>4, <1>9, <1>10, <1>12 DEF OpenIn
<1>14. OpenIn(turn[r]) = {}
  BY <1>8 DEF OpenIn
<1>15. Local(r)
  BY <1>1, <1>8, <1>11, <1>12 DEF Local, Same, RunFacts
<1>16. made \cap turn[r].calls = {}
  BY <1>5, <1>6, <1>7
<1>17. Book(r, turn'[r], queue'[r], todo[r], log[r], timings)
  <2>1. OpenIn(turn'[r]) \cap (ToolsIn(queue'[r]) \cup AuditedIn(todo[r]) \cup AuditedIn(log[r])) = {}
    BY <1>5, <1>11, <1>13, <1>16 DEF Book
  <2>2. OpenIn(turn'[r]) \cup ToolsIn(queue'[r]) \cup AuditedIn(todo[r]) \cup AuditedIn(log[r])
        \subseteq turn'[r].calls
    BY <1>5, <1>11, <1>12, <1>13 DEF Book
  <2> QED BY <1>3, <1>5, <1>11, <1>12, <2>1, <2>2 DEF Book
<1>18. Kept(turn[r], queue[r], todo[r], log[r]) => Kept(turn'[r], queue'[r], todo[r], log[r])
  BY <1>11, <1>12, <1>13, <1>14 DEF Kept
<1>19. ~ErrIn(queue'[r]) => Kept(turn'[r], queue'[r], todo[r], log[r])
  BY <1>1, <1>8, <1>11, <1>18 DEF RunFacts, RunOK, Going
<1>20. loop[r].at # "completing" /\ rs[r].status # "completed"
  BY <1>1, <1>8 DEF RunFacts, RunOK, Live
<1>21. \A q \in Runs \ {r} : turn'[r].calls \cap turn[q].calls = {}
  <2>1. \A q \in Runs \ {r} : turn[r].calls \cap turn[q].calls = {}
    BY <1>5, OthersCalls
  <2>2. \A q \in Runs : made \cap turn[q].calls = {}
    BY <1>6, <1>7
  <2> QED BY <1>12, <2>1, <2>2
<1> QED BY <1>5, <1>8, <1>15, <1>17, <1>19, <1>20, <1>21, MoveStep

LEMMA CreateAudits ==
  ASSUME AuditInv, NEW retryOf, CreateRun(retryOf)
  PROVE  AuditInv'
<1>r. PICK r : r = Cardinality(DOMAIN rs) + 1
  OBVIOUS
<1>1. PICK n \in Nat : n <= scenario.runs /\ DOMAIN rs = 1 .. n
  BY DEF AuditInv, Tables
<1>2. Cardinality(1 .. n) = n
  BY FS_Interval
<1>3. r = n + 1 /\ r \in Nat
  BY <1>r, <1>1, <1>2
<1>4. PICK new :
        /\ new.status = "queued" /\ DOMAIN new = RunFields
        /\ rs' = [x \in 1 .. r |-> IF x = r THEN new ELSE rs[x]]
  <2> DEFINE new == [status |-> "queued", session |-> 1, retryOf |-> retryOf,
                     retryRoot |-> IF retryOf = None THEN None ELSE ReplayRoot(rs, retryOf),
                     parent |-> scenario.parent]
  <2>1. rs' = [x \in 1 .. r |-> IF x = r THEN new ELSE rs[x]]
    BY <1>r, Zenon DEF CreateRun
  <2>2. new.status = "queued" /\ DOMAIN new = RunFields
    BY DEF RunFields
  <2> HIDE DEF new
  <2> QED BY <2>1, <2>2
<1>5. PICK M : turn' = [turn EXCEPT ![r].at = "created", ![r].messages = M]
  BY <1>r, Zenon DEF CreateRun
<1>6. r \in Runs /\ log' = Appended(r, <<Event("run.created")>>)
      /\ UNCHANGED <<scenario, queue, todo, loop, timings>>
  BY <1>r, Zenon DEF CreateRun
<1>7. r <= scenario.runs
  BY <1>3, <1>6, TurnAssumption DEF AuditInv, Tables, Runs
<1>8. /\ DOMAIN rs' = 1 .. r /\ rs'[r] = new
      /\ \A q \in Runs \ {r} : q \in DOMAIN rs' <=> q \in DOMAIN rs
      /\ \A q \in DOMAIN rs : rs'[q] = rs[q]
      /\ r \notin DOMAIN rs
  BY <1>1, <1>3, <1>4, TurnAssumption DEF Runs, AuditInv, Tables
<1>9. RunOK(r)
  BY <1>6 DEF AuditInv
<1>10. Book(r, turn[r], queue[r], todo[r], log[r], timings) /\ DOMAIN loop[r] = LoopFields
       /\ turn[r].at = "none" /\ loop[r].at # "completing"
  BY <1>8, <1>9 DEF RunOK
<1>11. ~ErrIn(queue[r]) => Kept(turn[r], queue[r], todo[r], log[r])
  BY <1>8, <1>9 DEF RunOK, Going
<1>12. AuditsOK(r, log[r]) /\ DOMAIN turn[r] = TurnFields
  BY <1>10 DEF Book
<1>13. DOMAIN log = Runs /\ DOMAIN turn = Runs /\ DOMAIN queue = Runs /\ DOMAIN todo = Runs
       /\ DOMAIN loop = Runs /\ DOMAIN timings = Calls
  BY DEF AuditInv, Tables
<1>14. /\ DOMAIN log' = Runs /\ \A q \in Runs \ {r} : log'[q] = log[q]
       /\ log'[r] = log[r] \o <<Event("run.created")>>
  BY <1>6, <1>13 DEF Appended
<1>15. AuditsOK(r, log'[r]) /\ AuditedIn(log'[r]) = AuditedIn(log[r])
  <2>1. Silent(<<Event("run.created")>>)
    BY Silent1 DEF IsAudit, Event
  <2> QED BY <1>12, <1>14, <2>1, SilentAdd
<1>16. /\ DOMAIN turn' = Runs /\ \A q \in Runs \ {r} : turn'[q] = turn[q]
       /\ DOMAIN turn'[r] = TurnFields /\ turn'[r].at = "created" /\ turn'[r].calls = turn[r].calls
  BY <1>5, <1>6, <1>12, <1>13 DEF TurnFields
<1>17. OpenIn(turn'[r]) = OpenIn(turn[r])
  BY <1>10, <1>16 DEF OpenIn
<1>18. Local(r)
  BY <1>6, <1>8, <1>13, <1>14, <1>16 DEF Local, Same
<1>19. Book(r, turn'[r], queue[r], todo[r], log'[r], timings)
  BY <1>10, <1>15, <1>16, <1>17 DEF Book
<1>20. Kept(turn[r], queue[r], todo[r], log[r]) => Kept(turn'[r], queue[r], todo[r], log'[r])
  BY <1>15, <1>16, <1>17 DEF Kept
<1>21. Book(r, turn[r], queue[r], todo[r], log[r], timings)'
  BY <1>6, <1>19
<1>22. ~ErrIn(queue'[r]) => Kept(turn'[r], queue'[r], todo'[r], log'[r])
  BY <1>6, <1>11, <1>20
<1>23. r \in DOMAIN rs'
  BY <1>3, <1>8
<1>24. RunOK(r)'
  BY <1>4, <1>6, <1>8, <1>10, <1>21, <1>22, <1>23 DEF RunOK
<1>25. \E k \in Nat : k <= scenario.runs /\ DOMAIN rs' = 1 .. k
  BY <1>3, <1>7, <1>8
<1>26. \A q \in Runs \ {r} : turn'[r].calls \cap turn[q].calls = {}
  BY <1>6, <1>16, OthersCalls
<1> QED BY <1>6, <1>18, <1>24, <1>25, <1>26, LocalStep

LEMMA InitAudits == Init => AuditInv
<1> SUFFICES ASSUME Init PROVE AuditInv
  OBVIOUS
<1>1. scenario \in Scenarios /\ rs = <<>> /\ DOMAIN log = Runs /\ DOMAIN turn = Runs
      /\ DOMAIN queue = Runs /\ DOMAIN todo = Runs /\ DOMAIN loop = Runs /\ DOMAIN timings = Calls
  BY DEF Init
<1>2. scenario.runs \in Nat
  BY <1>1, TurnAssumption
<1>3. DOMAIN rs = 1 .. 0 /\ 0 <= scenario.runs /\ 0 \in Nat
  BY <1>1, <1>2
<1>4. Tables
  BY <1>1, <1>3 DEF Tables
<1>5. ASSUME NEW r \in Runs
      PROVE  RunOK(r) /\ turn[r].calls = {}
  <2>1. log[r] = <<>> /\ queue[r] = <<>> /\ todo[r] = <<>> /\ turn[r] = NoTurn /\ loop[r] = Loop("none")
    BY DEF Init
  <2>2. DOMAIN turn[r] = TurnFields /\ turn[r].at = "none" /\ turn[r].calls = {}
    BY <2>1 DEF NoTurn, TurnFields
  <2>3. DOMAIN loop[r] = LoopFields /\ loop[r].at = "none"
    BY <2>1 DEF Loop, LoopFields
  <2>4. OpenIn(turn[r]) = {}
    BY <2>2 DEF OpenIn
  <2>5. Book(r, turn[r], <<>>, <<>>, <<>>, timings)
    BY <2>2, <2>4, NoEvents DEF Book
  <2>6. Kept(turn[r], queue[r], todo[r], log[r])
    BY <2>2 DEF Kept
  <2>7. r \notin DOMAIN rs
    BY <1>3
  <2> QED BY <2>1, <2>2, <2>3, <2>5, <2>6, <2>7 DEF RunOK
<1> QED BY <1>4, <1>5 DEF AuditInv

LEMMA SameAudits == AuditInv /\ UNCHANGED turnVars => AuditInv'
<1> SUFFICES ASSUME AuditInv, UNCHANGED turnVars PROVE AuditInv'
  OBVIOUS
<1>1. UNCHANGED <<scenario, rs, log, turn, queue, todo, loop, timings>>
  BY DEF turnVars
<1>2. Runs' = Runs
  BY <1>1 DEF Runs
<1>3. Tables'
  BY <1>1, <1>2 DEF AuditInv, Tables
<1>4. ASSUME NEW r \in Runs PROVE RunOK(r)'
  <2>1. RunOK(r) /\ Same(r)
    BY <1>1 DEF AuditInv, Same
  <2> QED BY <1>1, <2>1, OthersStay
<1> QED BY <1>1, <1>2, <1>3, <1>4 DEF AuditInv

LEMMA NextAudits == AuditInv /\ [Next]_vars => AuditInv'
<1> SUFFICES ASSUME AuditInv, [Next]_vars PROVE AuditInv'
  OBVIOUS
<1>1. ASSUME NEW retryOf, CreateRun(retryOf) PROVE AuditInv'
  BY <1>1, CreateAudits
<1>2. ASSUME NEW r \in DOMAIN rs, Agent(r) PROVE AuditInv'
  <2>1. ASSUME NEW c \in Calls, Script(r, c) PROVE AuditInv'
    BY <2>1, SameAudits DEF Script
  <2> QED BY <1>2, <2>1, StartAudits, AskAudits, ModelRepliesAudits, AgentFailsAudits,
             ToolsReturnedAudits, ToolReturnsAudits, CondenserFailsAudits DEF Agent
<1>3. ASSUME NEW r \in DOMAIN rs, Recorder(r) PROVE AuditInv'
  BY <1>3, RecordAudits, AppendAudits, CompleteAudits, TellAnswerAudits, CompletedAudits,
     FailAudits, StopsAudits DEF Recorder
<1>4. ASSUME NEW r \in DOMAIN rs, Cancel(r) PROVE AuditInv'
  BY <1>4, CancelAudits
<1>5. CASE Cleanup
  BY <1>5, SameAudits DEF Cleanup
<1>6. CASE UNCHANGED vars
  BY <1>6, SameAudits DEF vars
<1> QED BY <1>1, <1>2, <1>3, <1>4, <1>5, <1>6, Zenon DEF Next

LEMMA AuditsFollow == AuditInv => CallsAreAudited
<1> SUFFICES ASSUME AuditInv, NEW r \in DOMAIN rs, rs[r].status = "completed",
                    NEW c \in turn[r].calls
             PROVE  \E i \in Events(r, "tool.audit") :
                      /\ log[r][i].call = c
                      /\ log[r][i].input = [run |-> r, call |-> c]
                      /\ \A j \in Events(r, "tool.audit") \ {i} : log[r][j].call # c
  BY DEF CallsAreAudited
<1>1. RunFacts(r)
  BY FactsHold
<1>2. c \in AuditedIn(log[r]) /\ AuditsOK(r, log[r])
  BY <1>1 DEF RunFacts, RunOK
<1>3. PICK i \in DOMAIN log[r] : IsAudit(log[r][i]) /\ log[r][i].call = c
  BY <1>2 DEF AuditedIn
<1>4. \A j \in Events(r, "tool.audit") : j \in DOMAIN log[r] /\ IsAudit(log[r][j])
  BY DEF Events, IsAudit
<1>5. i \in Events(r, "tool.audit")
  BY <1>3 DEF Events, IsAudit
<1>6. log[r][i].input = [run |-> r, call |-> c]
  BY <1>2, <1>3 DEF AuditsOK, OwnInputs
<1>7. \A j \in Events(r, "tool.audit") \ {i} : log[r][j].call # c
  BY <1>2, <1>3, <1>4 DEF AuditsOK, OneAudit
<1> QED BY <1>3, <1>5, <1>6, <1>7

\* A run that completes has audited every tool call its model made, once and
\* with that call's own input, though its loop is behind the tools and the
\* runs of a server share the store of inputs (eino_runner.go, Run, Record).
THEOREM CompletedRunsAreAudited == Spec => []CallsAreAudited
<1>1. Init => AuditInv
  BY InitAudits
<1>2. AuditInv /\ [Next]_vars => AuditInv'
  BY NextAudits
<1>3. AuditInv => CallsAreAudited
  BY AuditsFollow
<1> QED BY <1>1, <1>2, <1>3, PTL DEF Spec

-----------------------------------------------------------------------------
(* Functions that are computed step by step, and what is picked from a       *)
(* sequence (AnswerCitations, AgentContext).                                  *)

\* A set that holds 0 and, with a number below `last`, the next one, holds all
\* up to `last`.
LEMMA UpTo ==
  ASSUME NEW last \in Nat, NEW P, 0 \in P, \A n \in 1 .. last : n - 1 \in P => n \in P
  PROVE  \A n \in 0 .. last : n \in P
<1> DEFINE missing == {n \in 0 .. last : n \notin P}
<1> SUFFICES ASSUME missing # {} PROVE FALSE
  OBVIOUS
<1>1. missing \in SUBSET Nat
  OBVIOUS
<1> HIDE DEF missing
<1>2. PICK n \in missing : \A y \in missing : n <= y
  BY <1>1, LeastNumber
<1>3. n \in 1 .. last /\ n \notin P
  BY <1>2 DEF missing
<1>4. n - 1 \in 0 .. last /\ ~(n <= n - 1)
  BY <1>3
<1>5. n - 1 \in P
  BY <1>2, <1>4 DEF missing
<1> QED BY <1>3, <1>5

\* A function on 0 .. last that starts with `base` and is carried on by `step`.
Iterates(f, last, V, base, step) ==
  /\ f \in [0 .. last -> V]
  /\ f[0] = base
  /\ \A n \in 1 .. last : f[n] = step[<<n, f[n - 1]>>]

LEMMA Iteration ==
  ASSUME NEW last \in Nat, NEW V, NEW base \in V, NEW step \in [(1 .. last) \X V -> V]
  PROVE  \E f : Iterates(f, last, V, base, step)
<1> DEFINE P == {n \in 0 .. last : \E f : Iterates(f, n, V, base, step)}
<1>1. 0 \in P
  <2> DEFINE f == [n \in 0 .. 0 |-> base]
  <2>1. Iterates(f, 0, V, base, step)
    BY DEF Iterates
  <2> QED BY <2>1
<1>2. ASSUME NEW n \in 1 .. last, n - 1 \in P
      PROVE  n \in P
  <2>1. PICK f : Iterates(f, n - 1, V, base, step)
    BY <1>2
  <2>2. /\ f \in [0 .. n - 1 -> V] /\ f[0] = base
        /\ \A k \in 1 .. n - 1 : f[k] = step[<<k, f[k - 1]>>]
    BY <2>1, Zenon DEF Iterates
  <2>3. 0 \in 0 .. n - 1 /\ n - 1 \in 0 .. n - 1 /\ n \in 0 .. last /\ n \in 1 .. last
    OBVIOUS
  <2>4. f[n - 1] \in V
    BY <2>2, <2>3
  <2> DEFINE v == step[<<n, f[n - 1]>>]
  <2>5. v \in V
    BY <2>3, <2>4
  <2> HIDE DEF v
  <2> DEFINE g == [k \in 0 .. n |-> IF k \in 0 .. n - 1 THEN f[k] ELSE v]
  <2>6. g \in [0 .. n -> V]
    BY <2>2, <2>5
  <2>7. (\A k \in 0 .. n - 1 : g[k] = f[k]) /\ g[n] = v
    OBVIOUS
  <2> HIDE DEF g
  <2>8. ASSUME NEW k \in 1 .. n
        PROVE  g[k] = step[<<k, g[k - 1]>>]
    <3>1. k - 1 \in 0 .. n - 1 /\ k \in 0 .. n /\ (k = n \/ (k \in 1 .. n - 1 /\ k \in 0 .. n - 1))
      OBVIOUS
    <3>2. g[k - 1] = f[k - 1]
      BY <2>7, <3>1
    <3> QED BY <2>2, <2>7, <3>1, <3>2 DEF v
  <2>9. g[0] = base
    BY <2>2, <2>3, <2>7
  <2>10. Iterates(g, n, V, base, step)
    BY <2>6, <2>8, <2>9 DEF Iterates
  <2> QED BY <2>3, <2>10
<1>3. last \in P
  <2> HIDE DEF P
  <2> QED BY <1>1, <1>2, UpTo
<1> QED BY <1>3

Picks(f, s, I, last) ==
  f = [n \in 0 .. last |-> IF n = 0 THEN <<>>
                           ELSE IF n \in I THEN Append(f[n - 1], s[n]) ELSE f[n - 1]]

LEMMA PicksExist ==
  ASSUME NEW S, NEW s \in Seq(S), NEW I
  PROVE  \E f \in [0 .. Len(s) -> Seq(S)] : Picks(f, s, I, Len(s))
<1> DEFINE last == Len(s)
           step == [x \in (1 .. last) \X Seq(S) |->
                      IF x[1] \in I THEN Append(x[2], s[x[1]]) ELSE x[2]]
<1>1. last \in Nat /\ <<>> \in Seq(S) /\ \A n \in 1 .. last : s[n] \in S
  OBVIOUS
<1>2. step \in [(1 .. last) \X Seq(S) -> Seq(S)]
  <2> SUFFICES ASSUME NEW x \in (1 .. last) \X Seq(S)
               PROVE  (IF x[1] \in I THEN Append(x[2], s[x[1]]) ELSE x[2]) \in Seq(S)
    OBVIOUS
  <2>1. x[1] \in 1 .. last /\ x[2] \in Seq(S)
    OBVIOUS
  <2>2. s[x[1]] \in S
    BY <1>1, <2>1
  <2> QED BY <2>1, <2>2
<1>3. \A n \in 1 .. last, v \in Seq(S) : step[<<n, v>>] = IF n \in I THEN Append(v, s[n]) ELSE v
  OBVIOUS
<1> HIDE DEF last, step
<1>4. PICK f : Iterates(f, last, Seq(S), <<>>, step)
  BY <1>1, <1>2, Iteration
<1>5. /\ f \in [0 .. last -> Seq(S)] /\ f[0] = <<>>
      /\ \A n \in 1 .. last : f[n] = step[<<n, f[n - 1]>>]
  BY <1>4, Zenon DEF Iterates
<1>6. ASSUME NEW n \in 1 .. last
      PROVE  f[n] = IF n \in I THEN Append(f[n - 1], s[n]) ELSE f[n - 1]
  <2>1. n - 1 \in 0 .. last
    BY <1>1
  <2>2. f[n - 1] \in Seq(S)
    BY <1>5, <2>1
  <2> QED BY <1>3, <1>5, <2>2
<1>7. \A n \in 0 .. last : n = 0 \/ (n \in 1 .. last /\ n # 0)
  BY <1>1
<1>8. f = [n \in 0 .. last |-> IF n = 0 THEN <<>>
             ELSE IF n \in I THEN Append(f[n - 1], s[n]) ELSE f[n - 1]]
  BY <1>5, <1>6, <1>7
<1> QED BY <1>5, <1>8 DEF Picks, last

PickedBy(f, S, s, I) ==
  /\ f \in [0 .. Len(s) -> Seq(S)] /\ f[0] = <<>> /\ Picked(s, I) = f[Len(s)]
  /\ \A n \in 1 .. Len(s) : f[n] = IF n \in I THEN Append(f[n - 1], s[n]) ELSE f[n - 1]

LEMMA PickedIs ==
  ASSUME NEW S, NEW s \in Seq(S), NEW I
  PROVE  \E f : PickedBy(f, S, s, I)
<1> DEFINE f    == CHOOSE f : Picks(f, s, I, Len(s))
           last == Len(s)
           P    == {n \in 0 .. last : f[n] \in Seq(S)}
<1>1. Picks(f, s, I, last)
  BY PicksExist
<1>2. Picked(s, I) = f[last]
  BY DEF Picked, Picks
<1>3. last \in Nat /\ <<>> \in Seq(S) /\ \A n \in 1 .. last : s[n] \in S
  OBVIOUS
<1> HIDE DEF f, last
<1>4. /\ DOMAIN f = 0 .. last /\ f = [n \in DOMAIN f |-> f[n]]
      /\ \A n \in 0 .. last : f[n] = IF n = 0 THEN <<>>
                                    ELSE IF n \in I THEN Append(f[n - 1], s[n]) ELSE f[n - 1]
  BY <1>1 DEF Picks
<1>5. f[0] = <<>> /\ 0 \in P
  <2>1. 0 \in 0 .. last
    BY <1>3
  <2>2. f[0] = <<>>
    BY <1>4, <2>1, Zenon
  <2> QED BY <1>3, <2>1, <2>2, Zenon
<1>6. ASSUME NEW n \in 1 .. last
      PROVE  f[n] = IF n \in I THEN Append(f[n - 1], s[n]) ELSE f[n - 1]
  <2>1. n \in 0 .. last /\ n # 0
    BY <1>3
  <2> QED BY <1>4, <2>1, Zenon
<1>7. ASSUME NEW n \in 1 .. last, n - 1 \in P
      PROVE  n \in P
  <2>1. f[n - 1] \in Seq(S) /\ s[n] \in S /\ n \in 0 .. last
    BY <1>3, <1>7
  <2>2. Append(f[n - 1], s[n]) \in Seq(S)
    BY <2>1
  <2>3. f[n] \in Seq(S)
    BY <1>6, <2>1, <2>2, Zenon
  <2> QED BY <2>1, <2>3
<1>8. \A n \in 0 .. last : n \in P
  <2> HIDE DEF P
  <2> QED BY <1>3, <1>5, <1>7, UpTo
<1>9. f \in [0 .. last -> Seq(S)]
  BY <1>4, <1>8
<1>10. PickedBy(f, S, s, I)
  BY <1>2, <1>5, <1>6, <1>9, Zenon DEF PickedBy, last
<1> QED BY <1>10

\* t holds the elements of s at the positions in J, in their order: the i-th is
\* the one at at[i].
Selects(t, at, s, J) ==
  /\ at \in [DOMAIN t -> J]
  /\ \A i \in DOMAIN t : t[i] = s[at[i]]
  /\ \A i, j \in DOMAIN t : i < j => at[i] < at[j]
  /\ \A k \in J : \E i \in DOMAIN t : at[i] = k

LEMMA SelectsOneMore ==
  ASSUME NEW S, NEW t \in Seq(S), NEW s, NEW n \in Nat, NEW J, J \subseteq 1 .. n - 1, s[n] \in S,
         NEW at, Selects(t, at, s, J)
  PROVE  \E bt : Selects(Append(t, s[n]), bt, s, J \cup {n})
<1> DEFINE u  == Append(t, s[n])
           m  == Len(t)
           bt == [i \in 1 .. m + 1 |-> IF i \in 1 .. m THEN at[i] ELSE n]
<1>1. /\ m \in Nat /\ DOMAIN t = 1 .. m /\ DOMAIN u = 1 .. m + 1
      /\ (\A i \in 1 .. m : u[i] = t[i]) /\ u[m + 1] = s[n]
  OBVIOUS
<1>2. \A i \in 1 .. m + 1 : i \in 1 .. m \/ i = m + 1
  BY <1>1
<1>3. (\A i \in 1 .. m : i \in 1 .. m + 1) /\ m + 1 \in 1 .. m + 1 /\ m + 1 \notin 1 .. m
  BY <1>1
<1> HIDE DEF u, m
<1>4. DOMAIN bt = 1 .. m + 1 /\ (\A i \in 1 .. m : bt[i] = at[i]) /\ bt[m + 1] = n
      /\ bt = [i \in 1 .. m + 1 |-> bt[i]]
  BY <1>3
<1> HIDE DEF bt
<1>5. /\ at \in [1 .. m -> J] /\ (\A i \in 1 .. m : t[i] = s[at[i]])
      /\ (\A i, j \in 1 .. m : i < j => at[i] < at[j])
      /\ (\A k \in J : \E i \in 1 .. m : at[i] = k)
  BY <1>1 DEF Selects
<1>6. bt \in [1 .. m + 1 -> J \cup {n}]
  BY <1>2, <1>4, <1>5
<1>7. \A i \in 1 .. m + 1 : u[i] = s[bt[i]]
  BY <1>1, <1>2, <1>4, <1>5
<1>8. ASSUME NEW i \in 1 .. m + 1, NEW j \in 1 .. m + 1, i < j
      PROVE  bt[i] < bt[j]
  <2>1. i \in 1 .. m
    BY <1>1, <1>8
  <2>2. CASE j \in 1 .. m
    BY <1>4, <1>5, <1>8, <2>1, <2>2
  <2>3. CASE j = m + 1
    <3>1. bt[i] \in J /\ bt[j] = n
      BY <1>4, <1>5, <2>1, <2>3
    <3>2. \A b \in 1 .. n - 1 : b < n
      OBVIOUS
    <3> QED BY <3>1, <3>2
  <2> QED BY <1>2, <2>2, <2>3
<1>9. \A k \in J \cup {n} : \E i \in 1 .. m + 1 : bt[i] = k
  BY <1>3, <1>4, <1>5
<1>10. Selects(u, bt, s, J \cup {n})
  BY <1>1, <1>6, <1>7, <1>8, <1>9 DEF Selects
<1> QED BY <1>10 DEF u

LEMMA PickedSelects ==
  ASSUME NEW S, NEW s \in Seq(S), NEW I
  PROVE  Picked(s, I) \in Seq(S) /\ \E at : Selects(Picked(s, I), at, s, I \cap DOMAIN s)
<1> DEFINE last == Len(s)
<1>0. PICK f : PickedBy(f, S, s, I)
  BY PickedIs
<1>1. /\ f \in [0 .. last -> Seq(S)] /\ f[0] = <<>> /\ Picked(s, I) = f[last]
      /\ \A n \in 1 .. last : f[n] = IF n \in I THEN Append(f[n - 1], s[n]) ELSE f[n - 1]
  BY <1>0, Zenon DEF PickedBy
<1>2. last \in Nat /\ DOMAIN s = 1 .. last /\ \A n \in 1 .. last : s[n] \in S
  OBVIOUS
<1> HIDE DEF last
<1> DEFINE J(n) == I \cap 1 .. n
           P    == {n \in 0 .. last : \E at : Selects(f[n], at, s, J(n))}
<1>3. 0 \in P
  <2> DEFINE at == [i \in {} |-> 0]
  <2>1. J(0) = {} /\ DOMAIN f[0] = {} /\ 0 \in 0 .. last
    BY <1>1, <1>2
  <2>2. at \in [{} -> {}]
    OBVIOUS
  <2> HIDE DEF at, J
  <2>3. Selects(f[0], at, s, J(0))
    BY <2>1, <2>2 DEF Selects
  <2> QED BY <2>1, <2>3
<1>4. ASSUME NEW n \in 1 .. last, n - 1 \in P
      PROVE  n \in P
  <2>1. PICK at : Selects(f[n - 1], at, s, J(n - 1))
    BY <1>4
  <2>2. n - 1 \in 0 .. last /\ n \in 0 .. last /\ n \in Nat /\ s[n] \in S
    BY <1>2
  <2>3. f[n - 1] \in Seq(S) /\ f[n] = IF n \in I THEN Append(f[n - 1], s[n]) ELSE f[n - 1]
    BY <1>1, <2>2
  <2>4. J(n - 1) \subseteq 1 .. n - 1 /\ J(n) = IF n \in I THEN J(n - 1) \cup {n} ELSE J(n - 1)
    BY <1>2
  <2> HIDE DEF J
  <2>5. \E bt : Selects(f[n], bt, s, J(n))
    <3>1. CASE n \in I
      <4>1. \E bt : Selects(Append(f[n - 1], s[n]), bt, s, J(n - 1) \cup {n})
        BY <2>1, <2>2, <2>3, <2>4, SelectsOneMore
      <4> QED BY <2>3, <2>4, <3>1, <4>1
    <3>2. CASE n \notin I
      BY <2>1, <2>3, <2>4, <3>2
    <3> QED BY <3>1, <3>2
  <2> QED BY <2>2, <2>5
<1>5. last \in P
  <2>1. last \in 0 .. last
    BY <1>2
  <2> HIDE DEF P
  <2> QED BY <1>2, <1>3, <1>4, <2>1, UpTo
<1>6. J(last) = I \cap DOMAIN s
  BY <1>2
<1>7. Picked(s, I) \in Seq(S)
  BY <1>1, <1>2
<1> QED BY <1>1, <1>5, <1>6, <1>7

-----------------------------------------------------------------------------
(* What is flattened.                                                         *)

Flattens(f, seqs, last) ==
  f = [i \in 1 .. last |-> IF i = 1 THEN seqs[i] ELSE f[i - 1] \o seqs[i]]

LEMMA FlatteningExists ==
  ASSUME NEW S, NEW seqs \in Seq(Seq(S)), Len(seqs) # 0
  PROVE  \E f : Flattens(f, seqs, Len(seqs))
<1> DEFINE k    == Len(seqs)
           last == k - 1
           step == [x \in (1 .. last) \X Seq(S) |-> x[2] \o seqs[x[1] + 1]]
<1>1. k \in Nat \ {0} /\ last \in Nat /\ \A n \in 1 .. k : seqs[n] \in Seq(S)
  OBVIOUS
<1>2. step \in [(1 .. last) \X Seq(S) -> Seq(S)]
  <2> SUFFICES ASSUME NEW x \in (1 .. last) \X Seq(S)
               PROVE  x[2] \o seqs[x[1] + 1] \in Seq(S)
    OBVIOUS
  <2>1. x[1] \in 1 .. last /\ x[2] \in Seq(S) /\ x[1] + 1 \in 1 .. k
    BY <1>1
  <2>2. seqs[x[1] + 1] \in Seq(S)
    BY <1>1, <2>1
  <2> QED BY <2>1, <2>2
<1>3. \A n \in 1 .. last, v \in Seq(S) : step[<<n, v>>] = v \o seqs[n + 1]
  OBVIOUS
<1>4. 1 \in 1 .. k /\ seqs[1] \in Seq(S)
  BY <1>1
<1> HIDE DEF step
<1>5. PICK h : Iterates(h, last, Seq(S), seqs[1], step)
  <2> HIDE DEF last
  <2> QED BY <1>1, <1>2, <1>4, Iteration
<1>6. /\ h \in [0 .. last -> Seq(S)] /\ h[0] = seqs[1]
      /\ \A n \in 1 .. last : h[n] = step[<<n, h[n - 1]>>]
  BY <1>5, Zenon DEF Iterates
<1> DEFINE f == [i \in 1 .. k |-> h[i - 1]]
<1>7. DOMAIN f = 1 .. k /\ f = [i \in 1 .. k |-> f[i]] /\ \A i \in 1 .. k : f[i] = h[i - 1]
  OBVIOUS
<1> HIDE DEF f
<1>8. ASSUME NEW i \in 1 .. k
      PROVE  f[i] = IF i = 1 THEN seqs[i] ELSE f[i - 1] \o seqs[i]
  <2>1. CASE i = 1
    <3>1. f[1] = h[1 - 1]
      BY <1>4, <1>7, Zenon
    <3>2. 1 - 1 = 0
      OBVIOUS
    <3>3. f[1] = seqs[1]
      BY <1>6, <3>1, <3>2
    <3> QED BY <2>1, <3>3
  <2>2. CASE i # 1
    <3> DEFINE n == i - 1
    <3>1. n \in 1 .. last /\ n \in 1 .. k /\ n - 1 \in 0 .. last /\ n + 1 = i
      BY <1>1, <2>2
    <3>2. f[i] = h[n] /\ f[n] = h[n - 1]
      BY <1>7, <3>1
    <3> HIDE DEF n
    <3>3. h[n - 1] \in Seq(S)
      BY <1>6, <3>1
    <3>4. h[n] = h[n - 1] \o seqs[n + 1]
      BY <1>3, <1>6, <3>1, <3>3
    <3>5. f[i] = f[n] \o seqs[i]
      BY <3>1, <3>2, <3>4
    <3> QED BY <2>2, <3>5 DEF n
  <2> QED BY <2>1, <2>2
<1>9. Flattens(f, seqs, k)
  <2> HIDE DEF k
  <2> QED BY <1>7, <1>8 DEF Flattens
<1> QED BY <1>9

FlattenedBy(f, S, seqs) ==
  /\ f \in [1 .. Len(seqs) -> Seq(S)] /\ FlattenSeq(seqs) = f[Len(seqs)] /\ f[1] = seqs[1]
  /\ \A n \in 2 .. Len(seqs) : f[n] = f[n - 1] \o seqs[n]

LEMMA FlatteningIs ==
  ASSUME NEW S, NEW seqs \in Seq(Seq(S)), Len(seqs) # 0
  PROVE  \E f : FlattenedBy(f, S, seqs)
<1> DEFINE f == CHOOSE f : Flattens(f, seqs, Len(seqs))
           k == Len(seqs)
           P == {n \in 0 .. k : n = 0 \/ f[n] \in Seq(S)}
<1>1. Flattens(f, seqs, k)
  BY FlatteningExists
<1>2. FlattenSeq(seqs) = f[k]
  BY DEF FlattenSeq, Flattens
<1>3. k \in Nat \ {0} /\ \A n \in 1 .. k : seqs[n] \in Seq(S)
  OBVIOUS
<1> HIDE DEF f, k
<1>4. DOMAIN f = 1 .. k /\ f = [i \in DOMAIN f |-> f[i]]
      /\ \A i \in 1 .. k : f[i] = IF i = 1 THEN seqs[i] ELSE f[i - 1] \o seqs[i]
  BY <1>1 DEF Flattens
<1>5. f[1] = seqs[1]
  <2>1. 1 \in 1 .. k
    BY <1>3
  <2> QED BY <1>4, <2>1, Zenon
<1>6. ASSUME NEW n \in 2 .. k
      PROVE  f[n] = f[n - 1] \o seqs[n]
  <2>1. n \in 1 .. k /\ n # 1
    BY <1>3
  <2> QED BY <1>4, <2>1, Zenon
<1>7. 0 \in P
  BY <1>3
<1>8. ASSUME NEW n \in 1 .. k, n - 1 \in P
      PROVE  n \in P
  <2>1. n \in 0 .. k /\ seqs[n] \in Seq(S)
    BY <1>3
  <2>2. CASE n = 1
    BY <1>5, <2>1, <2>2
  <2>3. CASE n \in 2 .. k
    <3>1. f[n - 1] \in Seq(S)
      BY <1>8, <2>3
    <3>2. f[n - 1] \o seqs[n] \in Seq(S)
      BY <2>1, <3>1
    <3>3. f[n] \in Seq(S)
      BY <1>6, <2>3, <3>2, Zenon
    <3> QED BY <2>1, <3>3
  <2> QED BY <2>2, <2>3
<1>9. \A n \in 0 .. k : n \in P
  <2> HIDE DEF P
  <2> QED BY <1>3, <1>7, <1>8, UpTo
<1>10. f \in [1 .. k -> Seq(S)]
  <2>1. \A n \in 1 .. k : n \in 0 .. k /\ n # 0
    BY <1>3
  <2>2. \A n \in 1 .. k : f[n] \in Seq(S)
    BY <1>9, <2>1
  <2> QED BY <1>4, <2>2
<1>11. FlattenedBy(f, S, seqs)
  BY <1>2, <1>5, <1>6, <1>10, Zenon DEF FlattenedBy, k
<1> QED BY <1>11

LEMMA FlatSeq ==
  ASSUME NEW S, NEW seqs \in Seq(Seq(S))
  PROVE  FlattenSeq(seqs) \in Seq(S)
<1>1. CASE Len(seqs) = 0
  <2>1. seqs = <<>>
    BY <1>1
  <2> QED BY <1>1, <2>1 DEF FlattenSeq
<1>2. CASE Len(seqs) # 0
  <2>1. PICK f : FlattenedBy(f, S, seqs)
    BY <1>2, FlatteningIs
  <2>2. f \in [1 .. Len(seqs) -> Seq(S)] /\ FlattenSeq(seqs) = f[Len(seqs)]
    BY <2>1, Zenon DEF FlattenedBy
  <2>3. Len(seqs) \in 1 .. Len(seqs)
    BY <1>2
  <2> QED BY <2>2, <2>3
<1> QED BY <1>1, <1>2

-----------------------------------------------------------------------------
(* Conversations (agent_context.go): a tool's result follows the message that *)
(* called the tool.                                                           *)

MessageFields == {"role", "turn", "text", "calls", "tools", "call", "tool", "size"}

IsMessage(m) == DOMAIN m = MessageFields /\ IsSeq(m.calls)
IsConversation(M) ==
  IsSeq(M) /\ (\A i \in DOMAIN M : IsMessage(M[i])) /\ ToolsAnswerCalls(M)
AsksOf(M, r) == \E i \in DOMAIN M : M[i] = Question(r)

\* m calls the tool whose result n is.
Called(m, n) == m.role = "assistant" /\ n.call \in ToSet(m.calls)

LEMMA SaidIs ==
  ASSUME NEW role, NEW r
  PROVE  /\ IsMessage(Said(role, r)) /\ Said(role, r).role = role /\ Said(role, r).text = NoText
         /\ Said(role, r).calls = <<>> /\ Said(role, r).size = "small"
<1>1. DOMAIN Said(role, r) = MessageFields
  BY DEF Said, MessageFields
<1>2. Said(role, r).calls = <<>>
  BY DEF Said
<1> QED BY <1>1, <1>2, NoEvents DEF Said, IsMessage

LEMMA AnsweredIs ==
  ASSUME NEW r, NEW text
  PROVE  /\ IsMessage(Answered(r, text)) /\ Answered(r, text).role = "assistant"
         /\ Answered(r, text).text = text
<1>1. DOMAIN Said("assistant", r) = MessageFields /\ IsSeq(Said("assistant", r).calls)
      /\ Said("assistant", r).role = "assistant"
  BY SaidIs DEF IsMessage
<1> QED BY <1>1 DEF IsMessage, Answered, MessageFields

LEMMA ConversationGrows ==
  ASSUME NEW M, IsConversation(M), NEW N, IsSeq(N), \A j \in DOMAIN N : IsMessage(N[j]),
         \A j \in DOMAIN N : N[j].role = "tool" =>
           \/ \E i \in DOMAIN M : Called(M[i], N[j])
           \/ \E i \in 1 .. j - 1 : Called(N[i], N[j])
  PROVE  /\ IsConversation(M \o N)
         /\ \A r : AsksOf(M, r) \/ AsksOf(N, r) => AsksOf(M \o N, r)
<1> DEFINE u == M \o N
           n == Len(M)
<1>1. PICK S : M \in Seq(S)
  BY DEF IsConversation, IsSeq
<1>2. PICK T : N \in Seq(T)
  BY DEF IsSeq
<1>3. n \in Nat /\ DOMAIN M = 1 .. n /\ Len(N) \in Nat /\ DOMAIN N = 1 .. Len(N)
  BY <1>1, <1>2
<1>4. Joins(u, M, N, n)
  BY Concat DEF IsConversation
<1>5. /\ IsSeq(u)
      /\ \A i \in DOMAIN M : i \in DOMAIN u /\ u[i] = M[i]
      /\ \A j \in DOMAIN N : n + j \in DOMAIN u /\ u[n + j] = N[j]
      /\ \A i \in DOMAIN u : i \in DOMAIN M \/ \E j \in DOMAIN N : i = n + j
  BY <1>4, Zenon DEF Joins
<1> HIDE DEF u, n
<1>6. /\ \A i \in DOMAIN M : IsMessage(M[i])
      /\ \A i \in DOMAIN M : M[i].role = "tool" => \E j \in 1 .. i - 1 : Called(M[j], M[i])
  BY DEF IsConversation, ToolsAnswerCalls, Called
<1>7. \A i \in DOMAIN u : IsMessage(u[i])
  BY <1>5, <1>6
<1>8. ASSUME NEW i \in DOMAIN M, u[i].role = "tool"
      PROVE  \E j \in 1 .. i - 1 : Called(u[j], u[i])
  <2>1. PICK j \in 1 .. i - 1 : Called(M[j], M[i])
    BY <1>5, <1>6, <1>8
  <2>2. j \in DOMAIN M
    BY <1>3
  <2> QED BY <1>5, <2>1, <2>2
<1>9. ASSUME NEW k \in DOMAIN N, u[n + k].role = "tool"
      PROVE  \E j \in 1 .. n + k - 1 : Called(u[j], u[n + k])
  <2>1. u[n + k] = N[k]
    BY <1>5
  <2>2. CASE \E i \in DOMAIN M : Called(M[i], N[k])
    <3>1. PICK i \in DOMAIN M : Called(M[i], N[k])
      BY <2>2
    <3>2. i \in 1 .. n + k - 1
      BY <1>3
    <3> QED BY <1>5, <2>1, <3>1, <3>2
  <2>3. CASE \E i \in 1 .. k - 1 : Called(N[i], N[k])
    <3>1. PICK i \in 1 .. k - 1 : Called(N[i], N[k])
      BY <2>3
    <3>2. i \in DOMAIN N /\ n + i \in 1 .. n + k - 1
      BY <1>3
    <3> QED BY <1>5, <2>1, <3>1, <3>2
  <2> QED BY <1>9, <2>1, <2>2, <2>3
<1>10. ToolsAnswerCalls(u)
  <2> SUFFICES ASSUME NEW i \in DOMAIN u, u[i].role = "tool"
               PROVE  \E j \in 1 .. i - 1 : Called(u[j], u[i])
    BY DEF ToolsAnswerCalls, Called
  <2>1. CASE i \in DOMAIN M
    BY <1>8, <2>1
  <2>2. ASSUME NEW k \in DOMAIN N, i = n + k
        PROVE  \E j \in 1 .. i - 1 : Called(u[j], u[i])
    <3>1. u[n + k].role = "tool"
      BY <2>2
    <3>2. \E j \in 1 .. n + k - 1 : Called(u[j], u[n + k])
      BY <1>9, <3>1
    <3> QED BY <1>3, <2>2, <3>2
  <2> QED BY <1>5, <2>1, <2>2
<1>11. \A r : AsksOf(M, r) \/ AsksOf(N, r) => AsksOf(u, r)
  BY <1>5 DEF AsksOf
<1> QED BY <1>5, <1>7, <1>10, <1>11 DEF IsConversation, u

LEMMA OneMessage ==
  ASSUME NEW M, IsConversation(M), NEW m, IsMessage(m), m.role # "tool"
  PROVE  /\ IsConversation(Append(M, m)) /\ Append(M, m) = M \o <<m>>
         /\ \A r : AsksOf(M, r) => AsksOf(Append(M, m), r)
<1>1. IsSeq(<<m>>) /\ DOMAIN <<m>> = {1} /\ <<m>>[1] = m
  BY OneEvent
<1>2. Append(M, m) = M \o <<m>>
  BY AppendJoins DEF IsConversation
<1>3. IsConversation(M \o <<m>>) /\ \A r : AsksOf(M, r) => AsksOf(M \o <<m>>, r)
  <2> DEFINE N == <<m>>
  <2>1. IsSeq(N) /\ (\A j \in DOMAIN N : IsMessage(N[j])) /\ \A j \in DOMAIN N : N[j].role # "tool"
    BY <1>1
  <2> HIDE DEF N
  <2>2. IsConversation(M \o N) /\ \A r : AsksOf(M, r) \/ AsksOf(N, r) => AsksOf(M \o N, r)
    BY <2>1, ConversationGrows
  <2> QED BY <2>2 DEF N
<1> QED BY <1>2, <1>3

LEMMA BothConversations ==
  ASSUME NEW M, NEW N, IsConversation(M), IsConversation(N)
  PROVE  /\ IsConversation(M \o N)
         /\ \A r : AsksOf(M, r) \/ AsksOf(N, r) => AsksOf(M \o N, r)
<1>1. IsSeq(N) /\ \A j \in DOMAIN N : IsMessage(N[j])
  BY DEF IsConversation
<1>2. \A j \in DOMAIN N : N[j].role = "tool" => \E i \in 1 .. j - 1 : Called(N[i], N[j])
  BY DEF IsConversation, ToolsAnswerCalls, Called
<1> QED BY <1>1, <1>2, ConversationGrows

LEMMA NoConversation == IsConversation(<<>>)
  BY NoEvents DEF IsConversation, ToolsAnswerCalls

LEMMA QuestionAsks ==
  ASSUME NEW r
  PROVE  IsConversation(<<Question(r)>>) /\ AsksOf(<<Question(r)>>, r)
<1>1. IsMessage(Question(r)) /\ Question(r).role = "user"
  BY SaidIs DEF Question
<1>2. IsSeq(<<Question(r)>>) /\ DOMAIN <<Question(r)>> = {1} /\ <<Question(r)>>[1] = Question(r)
  BY OneEvent
<1> DEFINE M == <<Question(r)>>
<1> HIDE DEF M
<1>3. IsConversation(M) /\ AsksOf(M, r)
  BY <1>1, <1>2 DEF IsConversation, ToolsAnswerCalls, AsksOf, M
<1> QED BY <1>3 DEF M

\* A message shown again.
LEMMA CompactedIs ==
  ASSUME NEW m, IsMessage(m)
  PROVE  /\ IsMessage(Compacted(m)) /\ Compacted(m).role = m.role /\ Compacted(m).call = m.call
         /\ Compacted(m).calls = m.calls
         /\ m.role # "tool" => Compacted(m) = m
<1> DEFINE c == [m EXCEPT !.size = "compact"]
<1>1. DOMAIN c = MessageFields /\ c.role = m.role /\ c.call = m.call /\ c.calls = m.calls
  BY DEF IsMessage, MessageFields
<1>2. IsMessage(c)
  BY <1>1 DEF IsMessage
<1> QED BY <1>1, <1>2 DEF Compacted

Shown(M) == {i \in DOMAIN M : \/ M[i].role \in {"user", "tool"}
                              \/ /\ M[i].role = "assistant"
                                 /\ M[i].text # NoText \/ M[i].calls # <<>>}

LEMMA ShownConversation ==
  ASSUME NEW M, IsConversation(M)
  PROVE  /\ IsConversation(Visible(M))
         /\ \A r : AsksOf(M, r) => AsksOf(Visible(M), r)
<1>1. PICK S : M \in Seq(S)
  BY DEF IsConversation, IsSeq
<1> DEFINE t == Picked(M, Shown(M))
           v == [i \in DOMAIN t |-> Compacted(t[i])]
<1>2. t \in Seq(S) /\ \E at : Selects(t, at, M, Shown(M) \cap DOMAIN M)
  BY <1>1, PickedSelects
<1>3. Shown(M) \cap DOMAIN M = Shown(M)
  BY DEF Shown
<1>4. PICK at : Selects(t, at, M, Shown(M))
  BY <1>2, <1>3
<1>5. Visible(M) = v
  BY DEF Visible, Shown
<1>6. DOMAIN v = DOMAIN t /\ v = [i \in DOMAIN v |-> v[i]] /\ \A i \in DOMAIN t : v[i] = Compacted(t[i])
  OBVIOUS
<1>7. IsSeq(t) /\ DOMAIN t = 1 .. Len(t) /\ Len(t) \in Nat /\ DOMAIN M = 1 .. Len(M) /\ Len(M) \in Nat
  BY <1>1, <1>2 DEF IsSeq
<1> HIDE DEF t, v
<1>8. IsSeq(v)
  BY <1>6, <1>7, MappedSeq
<1>9. /\ at \in [DOMAIN t -> Shown(M)]
      /\ \A i \in DOMAIN t : t[i] = M[at[i]]
      /\ \A i, j \in DOMAIN t : i < j => at[i] < at[j]
      /\ \A k \in Shown(M) : \E i \in DOMAIN t : at[i] = k
  BY <1>4, Zenon DEF Selects
<1>10. \A i \in DOMAIN t : at[i] \in DOMAIN M /\ at[i] \in Nat
  BY <1>7, <1>9 DEF Shown
<1>11. \A i \in DOMAIN t : IsMessage(t[i])
  BY <1>9, <1>10 DEF IsConversation
<1>12. \A i \in DOMAIN v : IsMessage(v[i])
  BY <1>6, <1>11, CompactedIs
<1>13. ASSUME NEW i \in DOMAIN v, v[i].role = "tool"
       PROVE  \E j \in 1 .. i - 1 : Called(v[j], v[i])
  <2>1. t[i].role = "tool" /\ t[i] = M[at[i]] /\ at[i] \in DOMAIN M /\ i \in DOMAIN t
    BY <1>6, <1>9, <1>10, <1>11, <1>13, CompactedIs
  <2>2. PICK k \in 1 .. at[i] - 1 : Called(M[k], M[at[i]])
    BY <2>1 DEF IsConversation, ToolsAnswerCalls, Called
  <2>3. k \in DOMAIN M /\ k < at[i] /\ k \in Nat
    BY <1>7, <1>10, <2>1
  <2>4. M[k].calls # <<>>
    <3>1. M[k].calls = <<>> => ToSet(M[k].calls) = {}
      BY DEF ToSet
    <3> QED BY <2>2, <3>1 DEF Called
  <2>5. k \in Shown(M)
    BY <2>2, <2>3, <2>4 DEF Shown, Called
  <2>6. PICK j \in DOMAIN t : at[j] = k
    BY <1>9, <2>5
  <2>7. j < i
    <3>1. ~(i < j) /\ i # j
      BY <1>9, <1>10, <2>1, <2>3, <2>6
    <3> QED BY <1>7, <2>1, <3>1
  <2>8. j \in 1 .. i - 1
    BY <1>7, <2>1, <2>7
  <2>9. Called(t[j], t[i])
    BY <1>9, <2>1, <2>2, <2>6
  <2>10. Called(v[j], v[i])
    <3>1. v[j] = Compacted(t[j]) /\ v[i] = Compacted(t[i])
      BY <1>6, <2>1
    <3>2. v[j].role = t[j].role /\ v[j].calls = t[j].calls /\ v[i].call = t[i].call
      BY <1>11, <2>1, <3>1, CompactedIs
    <3> QED BY <2>9, <3>2 DEF Called
  <2> QED BY <2>8, <2>10
<1>14. ToolsAnswerCalls(v)
  BY <1>13 DEF ToolsAnswerCalls, Called
<1>15. ASSUME NEW r, AsksOf(M, r)
       PROVE  AsksOf(v, r)
  <2>1. PICK k \in DOMAIN M : M[k] = Question(r)
    BY <1>15 DEF AsksOf
  <2>2. IsMessage(M[k]) /\ M[k].role = "user"
    BY <2>1, SaidIs DEF Question
  <2>3. k \in Shown(M)
    BY <2>2 DEF Shown
  <2>4. PICK i \in DOMAIN t : at[i] = k
    BY <1>9, <2>3
  <2>5. t[i] = M[k]
    BY <1>9, <2>4
  <2>6. v[i] = M[k] /\ i \in DOMAIN v
    BY <1>6, <2>2, <2>5, CompactedIs
  <2> QED BY <2>1, <2>6 DEF AsksOf
<1> QED BY <1>5, <1>8, <1>12, <1>14, <1>15 DEF IsConversation

LEMMA GreatestNumber ==
  ASSUME NEW n \in Nat, NEW U \in SUBSET (1 .. n), U # {}
  PROVE  Max(U) \in U /\ \A y \in U : Max(U) >= y
<1> DEFINE T == {n - c : c \in U}
<1>1. T \in SUBSET Nat /\ T # {}
  <2>1. \A c \in 1 .. n : n - c \in Nat
    OBVIOUS
  <2> QED BY <2>1
<1>2. PICK x \in T : \A y \in T : x <= y
  BY <1>1, LeastNumber
<1>3. PICK c \in U : x = n - c
  BY <1>2
<1>4. ASSUME NEW d \in U
      PROVE  c >= d
  <2>1. n - c <= n - d
    BY <1>2, <1>3
  <2>2. c \in 1 .. n /\ d \in 1 .. n
    OBVIOUS
  <2> QED BY <2>1, <2>2
<1> QED BY <1>4 DEF Max

\* What a log has to say of a run's conversation.
RequestAt(l, i) == l[i].type = "completion.request"
SaidAt(l, i) == l[i].type \in {"completion.message", "completion.tool_result"}
RequestsOK(r, l) ==
  \A i \in DOMAIN l : RequestAt(l, i) => IsConversation(l[i].messages) /\ AsksOf(l[i].messages, r)
HasRequest(l) == \E i \in DOMAIN l : RequestAt(l, i)
OnlyAsks(r, l) == \A i \in DOMAIN l : SaidAt(l, i) => l[i].message = Question(r)
LogOK(r, l) == IsSeq(l) /\ RequestsOK(r, l) /\ (HasRequest(l) \/ OnlyAsks(r, l))

LEMMA AnswerAdded ==
  ASSUME NEW r, NEW events, NEW M, IsConversation(M), AsksOf(M, r)
  PROVE  /\ IsConversation(WithAnswer(r, events, M))
         /\ HasTurn(WithAnswer(r, events, M), r, events)
<1> DEFINE answer == FinalAnswer(events)
           given  == M # <<>> /\ Last(M).role = "assistant" /\ Last(M).text = answer
           m      == Answered(r, answer)
<1>1. PICK i \in DOMAIN M : M[i] = Question(r)
  BY DEF AsksOf
<1>2. PICK S : M \in Seq(S)
  BY DEF IsConversation, IsSeq
<1>3. M[i].role = "user" /\ i \in 1 .. Len(M) /\ Len(M) \in Nat /\ DOMAIN M = 1 .. Len(M)
  BY <1>1, <1>2, SaidIs DEF Question
<1>4. CASE answer = NoText
  <2>1. WithAnswer(r, events, M) = M
    BY <1>4 DEF WithAnswer
  <2>2. HasTurn(M, r, events)
    BY <1>1, <1>4 DEF HasTurn
  <2> QED BY <2>1, <2>2
<1>5. CASE given
  <2>1. WithAnswer(r, events, M) = M
    BY <1>5 DEF WithAnswer
  <2>2. M[Len(M)].role = "assistant" /\ M[Len(M)].text = answer
    BY <1>5 DEF Last
  <2>3. i # Len(M)
    BY <1>3, <2>2
  <2>4. Len(M) \in i + 1 .. Len(M)
    BY <1>3, <2>3
  <2> HIDE DEF answer
  <2>5. \E j \in i + 1 .. Len(M) : M[j].role = "assistant" /\ M[j].text = answer
    BY <2>2, <2>4
  <2>6. HasTurn(M, r, events)
    BY <1>1, <2>5 DEF HasTurn, answer
  <2> QED BY <2>1, <2>6
<1>6. CASE answer # NoText /\ ~given
  <2>1. WithAnswer(r, events, M) = Append(M, m)
    BY <1>6 DEF WithAnswer
  <2>2. IsMessage(m) /\ m.role = "assistant" /\ m.text = answer
    BY AnsweredIs
  <2> HIDE DEF m
  <2>3. IsConversation(Append(M, m))
    BY <2>2, OneMessage
  <2>4. Append(M, m)[i] = M[i] /\ Append(M, m)[Len(M) + 1] = m /\ Len(Append(M, m)) = Len(M) + 1
        /\ i \in DOMAIN Append(M, m)
    BY <1>2, <1>3
  <2>5. Len(M) + 1 \in i + 1 .. Len(M) + 1
    BY <1>3
  <2> DEFINE A == Append(M, m)
  <2>6. i \in DOMAIN A /\ A[i] = Question(r) /\ Len(A) \in i + 1 .. Len(A)
        /\ A[Len(A)].role = "assistant" /\ A[Len(A)].text = answer
    BY <1>1, <2>2, <2>4, <2>5
  <2> HIDE DEF A, answer
  <2>7. HasTurn(A, r, events)
    BY <2>6 DEF HasTurn, answer
  <2> QED BY <2>1, <2>3, <2>7 DEF A
<1> QED BY <1>4, <1>5, <1>6

LEMMA AsksSomething == \A M, r : AsksOf(M, r) => M # <<>>
  BY DEF AsksOf

LEMMA TranscriptIs ==
  ASSUME NEW r, NEW l, LogOK(r, l), HasRequest(l)
  PROVE  /\ LatestTranscript(l) # <<>>
         /\ IsConversation(LatestTranscript(l)) /\ AsksOf(LatestTranscript(l), r)
<1> DEFINE requests == {i \in DOMAIN l :
                          l[i].type = "completion.request" /\ Visible(l[i].messages) # <<>>}
<1>1. ASSUME NEW i \in DOMAIN l, RequestAt(l, i)
      PROVE  /\ IsConversation(Visible(l[i].messages)) /\ AsksOf(Visible(l[i].messages), r)
             /\ Visible(l[i].messages) # <<>>
  BY <1>1, ShownConversation, AsksSomething DEF LogOK, RequestsOK
<1>2. requests # {}
  BY <1>1 DEF HasRequest, RequestAt
<1>3. PICK S : l \in Seq(S)
  BY DEF LogOK, IsSeq
<1>4. Len(l) \in Nat /\ requests \subseteq 1 .. Len(l)
  BY <1>3
<1>5. LatestTranscript(l) = Visible(l[Max(requests)].messages)
  BY <1>2 DEF LatestTranscript
<1>6. Max(requests) \in requests
  <2> HIDE DEF requests
  <2> QED BY <1>2, <1>4, GreatestNumber
<1>7. Max(requests) \in DOMAIN l /\ RequestAt(l, Max(requests))
  BY <1>6 DEF RequestAt
<1> QED BY <1>1, <1>5, <1>7

LEMMA NoTranscript ==
  ASSUME NEW l, ~HasRequest(l)
  PROVE  LatestTranscript(l) = <<>>
  BY DEF HasRequest, RequestAt, LatestTranscript

LEMMA EventsAsk ==
  ASSUME NEW r, NEW l, IsSeq(l), OnlyAsks(r, l)
  PROVE  IsConversation(FromEvents(r, l)) /\ HasTurn(FromEvents(r, l), r, l)
<1> DEFINE I    == {i \in DOMAIN l : l[i].type \in {"completion.message", "completion.tool_result"}}
           seen == Picked(l, I)
           said == [i \in DOMAIN seen |-> StoredResult(seen[i].message)]
<1>1. PICK S : l \in Seq(S)
  BY DEF IsSeq
<1>2. seen \in Seq(S) /\ \E at : Selects(seen, at, l, I \cap DOMAIN l)
  BY <1>1, PickedSelects
<1>3. PICK at : Selects(seen, at, l, I \cap DOMAIN l)
  BY <1>2
<1>4. FromEvents(r, l) = IF seen = <<>> THEN WithAnswer(r, l, <<Question(r)>>)
                         ELSE IF \E i \in DOMAIN said : said[i].role = "assistant" THEN said
                         ELSE WithAnswer(r, l, said)
  BY DEF FromEvents
<1>5. DOMAIN said = DOMAIN seen /\ said = [i \in DOMAIN said |-> said[i]]
      /\ \A i \in DOMAIN seen : said[i] = StoredResult(seen[i].message)
  OBVIOUS
<1>6. \A k \in I : l[k].message = Question(r)
  BY DEF OnlyAsks, SaidAt
<1> HIDE DEF seen, said, I
<1>7. \A i \in DOMAIN seen : seen[i].message = Question(r)
  BY <1>3, <1>6 DEF Selects
<1>8. IsMessage(Question(r)) /\ Question(r).role = "user" /\ StoredResult(Question(r)) = Question(r)
  BY SaidIs DEF Question, StoredResult
<1>9. \A i \in DOMAIN said : said[i] = Question(r)
  BY <1>5, <1>7, <1>8
<1>10. CASE seen = <<>>
  BY <1>4, <1>10, QuestionAsks, AnswerAdded
<1>11. CASE seen # <<>>
  <2>1. IsSeq(seen)
    BY <1>2 DEF IsSeq
  <2>2. IsSeq(said)
    BY <1>5, <2>1, MappedSeq
  <2>3. IsConversation(said)
    BY <1>8, <1>9, <2>2 DEF IsConversation, ToolsAnswerCalls
  <2>4. 1 \in DOMAIN seen
    BY <1>2, <1>11
  <2>5. AsksOf(said, r)
    BY <1>5, <1>9, <2>4 DEF AsksOf
  <2>6. FromEvents(r, l) = WithAnswer(r, l, said)
    BY <1>4, <1>8, <1>9, <1>11
  <2> QED BY <2>3, <2>5, <2>6, AnswerAdded
<1> QED BY <1>10, <1>11

\* What a run is given of an earlier turn: its question, its answer, and no
\* result without its call.
LEMMA TurnIsGiven ==
  ASSUME NEW r, NEW l, LogOK(r, l)
  PROVE  IsConversation(TurnOf(r, l)) /\ HasTurn(TurnOf(r, l), r, l)
<1>1. CASE HasRequest(l)
  <2>1. TurnOf(r, l) = WithAnswer(r, l, LatestTranscript(l))
    BY <1>1, TranscriptIs DEF TurnOf
  <2> QED BY <1>1, <2>1, TranscriptIs, AnswerAdded
<1>2. CASE ~HasRequest(l)
  <2>1. TurnOf(r, l) = FromEvents(r, l)
    BY <1>2, NoTranscript DEF TurnOf
  <2> QED BY <1>2, <2>1, EventsAsk DEF LogOK
<1> QED BY <1>1, <1>2

-----------------------------------------------------------------------------
(* The turns before a run, on its branch (agent_context.go,                   *)
(* activeRetryBranchRuns).                                                    *)

LEMMA BranchIs ==
  ASSUME NEW seen, NEW visible \in Seq(DOMAIN seen), NEW n \in DOMAIN seen
  PROVE  Branch(seen, visible, n) \in Seq(DOMAIN seen)
<1> DEFINE D    == DOMAIN seen
           same == {i \in DOMAIN visible : ReplayRoot(seen, visible[i]) = ReplayRoot(seen, n)}
           at   == CHOOSE i \in same : \A j \in same : i <= j
           cut  == SubSeq(visible, 1, at - 1)
<1>1. Append(visible, n) \in Seq(D) /\ <<n>> \in Seq(D)
  OBVIOUS
<1>2. ASSUME same # {}
      PROVE  Append(cut, n) \in Seq(D)
  <2>1. same \in SUBSET Nat /\ same \subseteq 1 .. Len(visible) /\ Len(visible) \in Nat
    OBVIOUS
  <2> HIDE DEF same
  <2>2. at \in same
    BY <1>2, <2>1, LeastNumber
  <2> HIDE DEF at
  <2>3. at - 1 \in Int /\ \A i \in 1 .. at - 1 : i \in 1 .. Len(visible)
    BY <2>1, <2>2
  <2>4. \A i \in 1 .. at - 1 : visible[i] \in D
    BY <2>3
  <2>5. cut \in Seq(D)
    <3> DEFINE m == at - 1
    <3>1. m \in Int /\ \A i \in 1 .. m : visible[i] \in D
      BY <2>3, <2>4
    <3> HIDE DEF m, D
    <3>2. SubSeq(visible, 1, m) \in Seq(D)
      BY <3>1, SubSeqProperties
    <3> QED BY <3>2 DEF m
  <2> QED BY <2>5
<1>3. Branch(seen, visible, n) \in {Append(visible, n), <<n>>} \/ (same # {} /\ Branch(seen, visible, n) = Append(cut, n))
  BY Zenon DEF Branch
<1> QED BY <1>1, <1>2, <1>3

Branches(f, seen, last) ==
  f = [n \in 0 .. last |-> IF n = 0 THEN <<>>
                           ELSE LET visible == f[n - 1]
                                IN  IF n \in DOMAIN seen THEN Branch(seen, visible, n) ELSE visible]

LEMMA BranchesExist ==
  ASSUME NEW seen, NEW last \in Nat
  PROVE  \E f : Branches(f, seen, last)
<1> DEFINE D    == DOMAIN seen
           step == [x \in (1 .. last) \X Seq(D) |->
                      IF x[1] \in D THEN Branch(seen, x[2], x[1]) ELSE x[2]]
<1>1. step \in [(1 .. last) \X Seq(D) -> Seq(D)]
  <2> SUFFICES ASSUME NEW x \in (1 .. last) \X Seq(D)
               PROVE  (IF x[1] \in D THEN Branch(seen, x[2], x[1]) ELSE x[2]) \in Seq(D)
    OBVIOUS
  <2>1. x[2] \in Seq(D)
    OBVIOUS
  <2> QED BY <2>1, BranchIs
<1>2. \A n \in 1 .. last, v \in Seq(D) :
         step[<<n, v>>] = IF n \in D THEN Branch(seen, v, n) ELSE v
  OBVIOUS
<1>3. <<>> \in Seq(D)
  OBVIOUS
<1> HIDE DEF step
<1>4. PICK f : Iterates(f, last, Seq(D), <<>>, step)
  BY <1>1, <1>3, Iteration
<1>5. /\ f \in [0 .. last -> Seq(D)] /\ f[0] = <<>>
      /\ \A n \in 1 .. last : f[n] = step[<<n, f[n - 1]>>]
  BY <1>4, Zenon DEF Iterates
<1>6. ASSUME NEW n \in 1 .. last
      PROVE  f[n] = IF n \in D THEN Branch(seen, f[n - 1], n) ELSE f[n - 1]
  <2>1. n - 1 \in 0 .. last
    OBVIOUS
  <2>2. f[n - 1] \in Seq(D)
    BY <1>5, <2>1
  <2> QED BY <1>2, <1>5, <2>2
<1>7. \A n \in 0 .. last : n = 0 \/ (n \in 1 .. last /\ n # 0)
  OBVIOUS
<1>8. Branches(f, seen, last)
  BY <1>5, <1>6, <1>7 DEF Branches
<1> QED BY <1>8

LEMMA ActiveBranchIs ==
  ASSUME NEW seen, NEW last \in Nat
  PROVE  ActiveBranch(seen, last) \in Seq(DOMAIN seen)
<1> DEFINE f == CHOOSE f : Branches(f, seen, last)
           D == DOMAIN seen
           P == {n \in 0 .. last : f[n] \in Seq(D)}
<1>1. Branches(f, seen, last)
  BY BranchesExist
<1>2. ActiveBranch(seen, last) = f[last]
  BY DEF ActiveBranch, Branches
<1> HIDE DEF f
<1>3. \A n \in 0 .. last : f[n] = IF n = 0 THEN <<>>
                                 ELSE IF n \in D THEN Branch(seen, f[n - 1], n) ELSE f[n - 1]
  BY <1>1 DEF Branches
<1>4. 0 \in P
  <2>1. 0 \in 0 .. last /\ <<>> \in Seq(D)
    OBVIOUS
  <2>2. f[0] = <<>>
    BY <1>3, <2>1, Zenon
  <2> QED BY <2>1, <2>2
<1>5. ASSUME NEW n \in 1 .. last, n - 1 \in P
      PROVE  n \in P
  <2>1. n \in 0 .. last /\ n # 0 /\ f[n - 1] \in Seq(D)
    BY <1>5
  <2>2. f[n] = IF n \in D THEN Branch(seen, f[n - 1], n) ELSE f[n - 1]
    BY <1>3, <2>1, Zenon
  <2>3. f[n] \in Seq(D)
    BY <2>1, <2>2, BranchIs
  <2> QED BY <2>1, <2>3
<1>6. last \in P
  <2>1. last \in 0 .. last
    OBVIOUS
  <2> HIDE DEF P
  <2> QED BY <1>4, <1>5, <2>1, UpTo
<1> QED BY <1>2, <1>6

LEMMA PriorRunsAre ==
  ASSUME NEW runs, NEW r \in Nat \ {0}, DOMAIN runs = 1 .. r
  PROVE  PriorRuns(runs, r) \in Seq(1 .. r - 1)
<1> DEFINE root  == IF runs[r].retryOf \in DOMAIN runs THEN runs[r].retryOf ELSE r
           prior == {x \in DOMAIN runs \ {r, root} :
                       /\ runs[x].session = runs[r].session
                       /\ runs[x].parent = None
                       /\ x < root
                       /\ IsTerminalRunStatus(runs[x].status)}
           seen  == [x \in prior |-> runs[x]]
<1>1. root \in 1 .. r
  OBVIOUS
<1>2. root - 1 \in Nat
  <2> HIDE DEF root
  <2> QED BY <1>1
<1>3. DOMAIN seen = prior /\ prior \subseteq 1 .. r - 1
  <2> HIDE DEF root
  <2> QED OBVIOUS
<1>4. PriorRuns(runs, r) = ActiveBranch(seen, root - 1)
  BY DEF PriorRuns
<1> HIDE DEF root, prior, seen
<1>5. ActiveBranch(seen, root - 1) \in Seq(DOMAIN seen)
  BY <1>2, ActiveBranchIs
<1> QED BY <1>3, <1>4, <1>5

LEMMA TurnsAdd ==
  ASSUME NEW M, NEW N, IsConversation(M), IsConversation(N), NEW p, NEW events,
         HasTurn(M, p, events) \/ HasTurn(N, p, events)
  PROVE  HasTurn(M \o N, p, events)
<1> DEFINE u == M \o N
           n == Len(M)
<1>1. PICK S : M \in Seq(S)
  BY DEF IsConversation, IsSeq
<1>2. PICK T : N \in Seq(T)
  BY DEF IsConversation, IsSeq
<1>3. n \in Nat /\ DOMAIN M = 1 .. n /\ Len(N) \in Nat /\ DOMAIN N = 1 .. Len(N)
      /\ Len(u) = n + Len(N)
  BY <1>1, <1>2
<1>4. Joins(u, M, N, n)
  BY Concat DEF IsConversation
<1>5. /\ \A i \in DOMAIN M : i \in DOMAIN u /\ u[i] = M[i]
      /\ \A j \in DOMAIN N : n + j \in DOMAIN u /\ u[n + j] = N[j]
  BY <1>4, Zenon DEF Joins
<1> DEFINE answer == FinalAnswer(events)
           Ends(L, j) == L[j].role = "assistant" /\ L[j].text = answer
<1> HIDE DEF u, n, answer
<1>6. CASE HasTurn(M, p, events)
  <2>1. PICK i \in DOMAIN M :
          M[i] = Question(p) /\ (answer # NoText => \E j \in i + 1 .. Len(M) : Ends(M, j))
    BY <1>6 DEF HasTurn, answer
  <2>2. i \in DOMAIN u /\ u[i] = Question(p)
    BY <1>5, <2>1
  <2>3. ASSUME answer # NoText
        PROVE  \E j \in i + 1 .. Len(u) : Ends(u, j)
    <3>1. PICK j \in i + 1 .. Len(M) : Ends(M, j)
      BY <2>1, <2>3
    <3>2. j \in DOMAIN M /\ j \in i + 1 .. Len(u)
      BY <1>3 DEF n
    <3> QED BY <1>5, <3>1, <3>2
  <2>4. HasTurn(u, p, events)
    BY <2>2, <2>3 DEF HasTurn, answer
  <2> QED BY <2>4 DEF u
<1>7. CASE HasTurn(N, p, events)
  <2>1. PICK i \in DOMAIN N :
          N[i] = Question(p) /\ (answer # NoText => \E j \in i + 1 .. Len(N) : Ends(N, j))
    BY <1>7 DEF HasTurn, answer
  <2>2. n + i \in DOMAIN u /\ u[n + i] = Question(p)
    BY <1>5, <2>1
  <2>3. ASSUME answer # NoText
        PROVE  \E j \in n + i + 1 .. Len(u) : Ends(u, j)
    <3>1. PICK j \in i + 1 .. Len(N) : Ends(N, j)
      BY <2>1, <2>3
    <3>2. j \in DOMAIN N /\ n + j \in n + i + 1 .. Len(u)
      BY <1>3
    <3>3. Ends(u, n + j)
      BY <1>5, <3>1, <3>2
    <3> QED BY <3>2, <3>3
  <2> DEFINE k == n + i
  <2>4. k \in DOMAIN u /\ u[k] = Question(p)
        /\ (answer # NoText => \E j \in k + 1 .. Len(u) : Ends(u, j))
    BY <2>2, <2>3
  <2> HIDE DEF k
  <2>5. HasTurn(u, p, events)
    BY <2>4 DEF HasTurn, answer
  <2> QED BY <2>5 DEF u
<1> QED BY <1>6, <1>7

\* A sequence of elements of S.
LEMMA ElementsIn ==
  ASSUME NEW s, IsSeq(s), NEW S, \A i \in DOMAIN s : s[i] \in S
  PROVE  s \in Seq(S)
<1>1. PICK T : s \in Seq(T)
  BY DEF IsSeq
<1>2. Len(s) \in Nat /\ DOMAIN s = 1 .. Len(s) /\ s = [i \in 1 .. Len(s) |-> s[i]]
  BY <1>1
<1>3. s \in [1 .. Len(s) -> S]
  BY <1>2
<1> QED BY <1>2, <1>3

\* The turns so far are a conversation, with every one of them in it.
Told(C, turns, ps, logs, n) ==
  IsConversation(C) /\ \A i \in 1 .. n : HasTurn(C, ps[i], logs[ps[i]])

LEMMA TurnsTold ==
  ASSUME NEW ps, NEW logs, NEW k \in Nat \ {0}, DOMAIN ps = 1 .. k,
         NEW turns, DOMAIN turns = 1 .. k, IsSeq(turns), Len(turns) = k,
         \A i \in 1 .. k : IsConversation(turns[i]) /\ HasTurn(turns[i], ps[i], logs[ps[i]])
  PROVE  Told(FlattenSeq(turns), turns, ps, logs, k)
<1> DEFINE S == UNION {{turns[i][j] : j \in DOMAIN turns[i]} : i \in 1 .. k}
           P(f) == {n \in 0 .. k : n # 0 => Told(f[n], turns, ps, logs, n)}
<1>1. ASSUME NEW i \in 1 .. k
      PROVE  turns[i] \in Seq(S)
  <2>1. IsSeq(turns[i])
    BY DEF IsConversation
  <2>2. \A j \in DOMAIN turns[i] : turns[i][j] \in S
    OBVIOUS
  <2> HIDE DEF S
  <2> QED BY <2>1, <2>2, ElementsIn
<1> HIDE DEF S
<1>2. turns \in Seq(Seq(S))
  BY <1>1, ElementsIn
<1>3. PICK f : FlattenedBy(f, S, turns)
  BY <1>2, FlatteningIs
<1>4. /\ FlattenSeq(turns) = f[k] /\ f[1] = turns[1]
      /\ \A n \in 2 .. k : f[n] = f[n - 1] \o turns[n]
  BY <1>3 DEF FlattenedBy
<1>5. 0 \in P(f)
  OBVIOUS
<1>6. ASSUME NEW n \in 1 .. k, n - 1 \in P(f)
      PROVE  n \in P(f)
  <2>1. CASE n = 1
    <3>1. Told(f[1], turns, ps, logs, 1)
      <4>1. 1 \in 1 .. k /\ \A i \in 1 .. 1 : i = 1
        OBVIOUS
      <4> QED BY <1>4, <4>1 DEF Told
    <3> QED BY <2>1, <3>1
  <2>2. CASE n \in 2 .. k
    <3>1. f[n] = f[n - 1] \o turns[n]
      BY <1>4, <2>2
    <3>2. Told(f[n - 1], turns, ps, logs, n - 1)
      BY <1>6, <2>2
    <3>3. IsConversation(f[n - 1]) /\ IsConversation(turns[n])
      BY <3>2 DEF Told
    <3>4. IsConversation(f[n])
      BY <3>1, <3>3, BothConversations
    <3>5. ASSUME NEW i \in 1 .. n
          PROVE  HasTurn(f[n], ps[i], logs[ps[i]])
      <4>1. i = n \/ i \in 1 .. n - 1
        OBVIOUS
      <4>2. HasTurn(f[n - 1], ps[i], logs[ps[i]]) \/ HasTurn(turns[n], ps[i], logs[ps[i]])
        BY <3>2, <4>1 DEF Told
      <4> QED BY <3>1, <3>3, <4>2, TurnsAdd
    <3> QED BY <3>4, <3>5 DEF Told
  <2> QED BY <2>1, <2>2
<1>7. k \in 0 .. k /\ k # 0
  OBVIOUS
<1>8. k \in P(f)
  <2> HIDE DEF P
  <2> QED BY <1>5, <1>6, <1>7, UpTo
<1> QED BY <1>4, <1>7, <1>8

LEMMA ConversationIs ==
  ASSUME NEW runs, NEW logs, NEW r \in Nat \ {0}, DOMAIN runs = 1 .. r,
         \A p \in 1 .. r - 1 : LogOK(p, logs[p])
  PROVE  /\ IsConversation(Conversation(runs, logs, r))
         /\ \A p \in ToSet(PriorRuns(runs, r)) :
              HasTurn(Conversation(runs, logs, r), p, logs[p])
<1> DEFINE ps    == PriorRuns(runs, r)
           turns == [i \in DOMAIN ps |-> TurnOf(ps[i], logs[ps[i]])]
           k     == Len(ps)
<1>1. ps \in Seq(1 .. r - 1)
  BY PriorRunsAre
<1>2. Conversation(runs, logs, r) = FlattenSeq(turns)
  BY DEF Conversation
<1>3. DOMAIN turns = DOMAIN ps /\ turns = [i \in DOMAIN turns |-> turns[i]]
      /\ \A i \in DOMAIN ps : turns[i] = TurnOf(ps[i], logs[ps[i]])
  OBVIOUS
<1> HIDE DEF ps, turns
<1>4. k \in Nat /\ DOMAIN ps = 1 .. k /\ IsSeq(ps) /\ \A i \in 1 .. k : ps[i] \in 1 .. r - 1
  BY <1>1 DEF IsSeq
<1>5. IsSeq(turns) /\ Len(turns) = k
  <2>1. IsSeq(turns)
    BY <1>3, <1>4, MappedSeq
  <2>2. Len(turns) \in Nat /\ DOMAIN turns = 1 .. Len(turns)
    BY <2>1 DEF IsSeq
  <2> QED BY <1>3, <1>4, <2>1, <2>2
<1>6. \A i \in 1 .. k : IsConversation(turns[i]) /\ HasTurn(turns[i], ps[i], logs[ps[i]])
  BY <1>3, <1>4, TurnIsGiven
<1>7. ToSet(ps) = {ps[i] : i \in 1 .. k}
  BY <1>4 DEF ToSet
<1>8. CASE k = 0
  <2>1. turns = <<>>
    BY <1>5, <1>8 DEF IsSeq
  <2>2. FlattenSeq(turns) = <<>>
    BY <2>1 DEF FlattenSeq
  <2>3. ToSet(ps) = {}
    BY <1>7, <1>8
  <2> QED BY <1>2, <2>2, <2>3, NoConversation DEF ps
<1>9. CASE k # 0
  <2>1. k \in Nat \ {0} /\ DOMAIN turns = 1 .. k
    BY <1>3, <1>4, <1>9
  <2> HIDE DEF k
  <2>2. Told(FlattenSeq(turns), turns, ps, logs, k)
    BY <1>4, <1>5, <1>6, <2>1, TurnsTold
  <2> QED BY <1>2, <1>7, <2>2 DEF Told, ps
<1> QED BY <1>8, <1>9

\* What a run starts with: what was said before, and its question.
LEMMA MessagesAre ==
  ASSUME NEW runs, NEW logs, NEW r \in Nat \ {0}, DOMAIN runs = 1 .. r,
         \A p \in 1 .. r - 1 : LogOK(p, logs[p])
  PROVE  /\ IsConversation(MessagesForRun(runs, logs, r))
         /\ AsksOf(MessagesForRun(runs, logs, r), r)
         /\ \A p \in ToSet(PriorRuns(runs, r)) :
              HasTurn(MessagesForRun(runs, logs, r), p, logs[p])
<1> DEFINE C == Conversation(runs, logs, r)
           a == Said("system", r)
           q == Question(r)
           N == <<a, q>>
<1>1. IsConversation(C) /\ \A p \in ToSet(PriorRuns(runs, r)) : HasTurn(C, p, logs[p])
  BY ConversationIs
<1>2. IsMessage(a) /\ a.role = "system" /\ IsMessage(q) /\ q.role = "user"
  BY SaidIs DEF Question
<1>3. MessagesForRun(runs, logs, r) = C \o N
  BY DEF MessagesForRun
<1>4. AsksOf(N, r)
  <2>1. 2 \in DOMAIN N /\ N[2] = Question(r)
    OBVIOUS
  <2> QED BY <2>1, Zenon DEF AsksOf
<1>5. IsConversation(N)
  <2> HIDE DEF a, q
  <2>1. N \in Seq({a, q}) /\ DOMAIN N = 1 .. 2 /\ N[1] = a /\ N[2] = q
    OBVIOUS
  <2>2. IsSeq(N)
    BY <2>1, Zenon DEF IsSeq
  <2> HIDE DEF N
  <2>3. \A i \in DOMAIN N : IsMessage(N[i]) /\ N[i].role # "tool"
    BY <1>2, <2>1
  <2> QED BY <2>2, <2>3 DEF IsConversation, ToolsAnswerCalls
<1> HIDE DEF C, N
<1>6. IsConversation(C \o N) /\ AsksOf(C \o N, r)
  BY <1>1, <1>4, <1>5, BothConversations
<1>7. \A p \in ToSet(PriorRuns(runs, r)) : HasTurn(C \o N, p, logs[p])
  BY <1>1, <1>5, TurnsAdd
<1> QED BY <1>3, <1>6, <1>7

-----------------------------------------------------------------------------
(* What a run's model is shown, and what of it is recorded. A request is in   *)
(* the log before anything else of the turn can be: until then the log says   *)
(* nothing but the question, which is all a later turn would be given of it.  *)

\* A reply whose tools work: it is among the messages, and every result there
\* is says which call it answers.
Replied(t) ==
  /\ \E i \in DOMAIN t.messages :
       t.messages[i].role = "assistant" /\ t.messages[i].calls = t.reply.calls
  /\ \A c \in DOMAIN t.results : IsMessage(t.results[c]) /\ t.results[c].call = c

\* Nothing was asked of the model yet.
Before(r, t, q, d, l) ==
  /\ OnlyAsks(r, l) /\ q = <<>> /\ d = <<>>
  /\ t.at \in {"none", "created", "thinking"} /\ t.asked = 0

\* What the goroutines of a run have to say, and have said.
TalkOK(r, t, q, d, l) ==
  /\ t.at # "none" => IsConversation(t.messages) /\ AsksOf(t.messages, r)
  /\ t.at = "calling" => Replied(t)
  /\ RequestsOK(r, l) /\ ~HasRequest(d)
  /\ HasRequest(l) \/ Before(r, t, q, d, l)

TalkInv == \A r \in Runs : TalkOK(r, turn[r], queue[r], todo[r], log[r])

LEMMA LogsAdd ==
  ASSUME NEW r, NEW l, NEW e, IsSeq(l), IsSeq(e)
  PROVE  /\ RequestsOK(r, l) /\ RequestsOK(r, e) => RequestsOK(r, l \o e)
         /\ HasRequest(l \o e) <=> HasRequest(l) \/ HasRequest(e)
         /\ OnlyAsks(r, l) /\ OnlyAsks(r, e) => OnlyAsks(r, l \o e)
<1> DEFINE u == l \o e
           n == Len(l)
<1>1. Joins(u, l, e, n)
  BY Concat
<1> HIDE DEF u, n
<1>2. RequestsOK(r, l) /\ RequestsOK(r, e) => RequestsOK(r, u)
  BY <1>1 DEF RequestsOK, RequestAt, Joins
<1>3. HasRequest(u) <=> HasRequest(l) \/ HasRequest(e)
  BY <1>1 DEF HasRequest, RequestAt, Joins
<1>4. OnlyAsks(r, l) /\ OnlyAsks(r, e) => OnlyAsks(r, u)
  BY <1>1 DEF OnlyAsks, SaidAt, Joins
<1> QED BY <1>2, <1>3, <1>4 DEF u

\* Events that are no part of a conversation.
Mute(e) ==
  /\ IsSeq(e)
  /\ \A i \in DOMAIN e :
       e[i].type \notin {"completion.request", "completion.message", "completion.tool_result"}

LEMMA MuteEvents ==
  ASSUME NEW r, NEW e, Mute(e)
  PROVE  RequestsOK(r, e) /\ ~HasRequest(e) /\ OnlyAsks(r, e) /\ IsSeq(e)
  BY DEF Mute, RequestsOK, HasRequest, RequestAt, OnlyAsks, SaidAt

LEMMA MuteEvent ==
  ASSUME NEW e, e.type \notin {"completion.request", "completion.message", "completion.tool_result"}
  PROVE  Mute(<<e>>)
  BY OneEvent DEF Mute

LEMMA TalkStep ==
  ASSUME TalkInv, NEW r \in Runs, Local(r), TalkOK(r, turn'[r], queue'[r], todo'[r], log'[r])
  PROVE  TalkInv'
<1>1. Runs' = Runs
  BY DEF Local, Runs
<1>2. \A q \in Runs \ {r} :
        turn'[q] = turn[q] /\ queue'[q] = queue[q] /\ todo'[q] = todo[q] /\ log'[q] = log[q]
  BY DEF Local, Same
<1>3. \A q \in Runs : TalkOK(q, turn'[q], queue'[q], todo'[q], log'[q])
  BY <1>2 DEF TalkInv
<1> QED BY <1>1, <1>3 DEF TalkInv

\* What is known of a run before it steps.
TalkFacts(r) ==
  /\ RunFacts(r) /\ IsSeq(log[r]) /\ IsSeq(todo[r]) /\ IsSeq(queue[r])
  /\ TalkOK(r, turn[r], queue[r], todo[r], log[r])

LEMMA TalkFactsHold ==
  ASSUME AuditInv, TalkInv, NEW r \in DOMAIN rs
  PROVE  TalkFacts(r)
<1>1. RunFacts(r)
  BY FactsHold
<1> QED BY <1>1 DEF TalkFacts, RunFacts, TalkInv, AuditsOK, QueueOK

\* A step that says nothing.
LEMMA MuteTalk ==
  ASSUME TalkInv, NEW r, TalkFacts(r), Local(r), NEW e, Mute(e),
         log'[r] = log[r] \o e \/ log'[r] = log[r], turn'[r] = turn[r],
         queue'[r] = queue[r] \/ queue'[r] = <<>>, todo'[r] = todo[r] \/ todo'[r] = <<>>
  PROVE  TalkInv'
<1>1. r \in Runs /\ IsSeq(log[r]) /\ TalkOK(r, turn[r], queue[r], todo[r], log[r])
  BY DEF TalkFacts, RunFacts
<1>2. RequestsOK(r, e) /\ ~HasRequest(e) /\ OnlyAsks(r, e) /\ IsSeq(e)
  BY MuteEvents
<1>3. /\ RequestsOK(r, log'[r]) /\ (HasRequest(log'[r]) <=> HasRequest(log[r]))
      /\ OnlyAsks(r, log[r]) => OnlyAsks(r, log'[r])
  <2>1. RequestsOK(r, log[r])
    BY <1>1 DEF TalkOK
  <2>2. /\ RequestsOK(r, log[r] \o e) /\ (HasRequest(log[r] \o e) <=> HasRequest(log[r]))
        /\ OnlyAsks(r, log[r]) => OnlyAsks(r, log[r] \o e)
    BY <1>1, <1>2, <2>1, LogsAdd
  <2> QED BY <2>1, <2>2, Zenon
<1>4. ~HasRequest(<<>>)
  BY DEF HasRequest
<1>5. TalkOK(r, turn'[r], queue'[r], todo'[r], log'[r])
  BY <1>1, <1>3, <1>4 DEF TalkOK, Before
<1> QED BY <1>1, <1>5, TalkStep

LEMMA RecorderTalks ==
  ASSUME AuditInv, TalkInv, NEW r \in DOMAIN rs,
         Complete(r) \/ TellAnswer(r) \/ Completed(r) \/ Fail(r) \/ Stops(r) \/ Cancel(r)
  PROVE  TalkInv'
<1>1. TalkFacts(r) /\ DOMAIN log = Runs /\ DOMAIN queue = Runs /\ DOMAIN todo = Runs /\ r \in Runs
  BY TalkFactsHold DEF TalkFacts, RunFacts
<1>2. Local(r)
  BY CompleteAudits, TellAnswerAudits, CompletedAudits, FailAudits, StopsAudits, CancelAudits
<1>3. turn' = turn
  BY DEF Complete, TellAnswer, Completed, Fail, Stops, Cancel
<1>4. Mute(<<>>)
  BY NoEvents DEF Mute
<1>5. CASE Complete(r) \/ Stops(r)
  <2>1. log' = log /\ (queue'[r] = queue[r] \/ queue'[r] = <<>>)
        /\ (todo'[r] = todo[r] \/ todo'[r] = <<>>)
    BY <1>1, <1>5 DEF Complete, Stops
  <2> QED BY <1>1, <1>2, <1>3, <1>4, <2>1, MuteTalk
<1>6. CASE TellAnswer(r)
  <2> DEFINE event == AnswerEvent(loop[r].answer, loop[r].cites, loop[r].told)
  <2>1. event.type \in {"answer.final", "citation.created"}
    BY DEF AnswerEvent, Spoke
  <2>2. log' = Appended(r, <<event>>) /\ queue' = queue /\ todo' = todo
    BY <1>6 DEF TellAnswer
  <2> HIDE DEF event
  <2>3. log'[r] = log[r] \o <<event>> /\ Mute(<<event>>)
    BY <1>1, <2>1, <2>2, MuteEvent DEF Appended
  <2> QED BY <1>1, <1>2, <1>3, <2>2, <2>3, MuteTalk
<1>7. CASE Completed(r) \/ Cancel(r)
  <2>1. PICK type \in {"run.completed", "run.cancelled"} : log' = Appended(r, <<Event(type)>>)
    BY <1>7 DEF Completed, Cancel
  <2>2. log'[r] = log[r] \o <<Event(type)>> /\ Mute(<<Event(type)>>)
    <3>1. Event(type).type = type
      BY DEF Event
    <3> QED BY <1>1, <2>1, <3>1, MuteEvent DEF Appended
  <2>3. queue' = queue /\ todo' = todo
    BY <1>7 DEF Completed, Cancel
  <2> QED BY <1>1, <1>2, <1>3, <2>2, <2>3, MuteTalk
<1>8. CASE Fail(r)
  <2> DEFINE a == Event("error")
             b == Event("run.failed")
             e == <<a, b>>
  <2>1. a.type = "error" /\ b.type = "run.failed"
    BY DEF Event
  <2>2. log' = Appended(r, e) /\ queue'[r] = <<>> /\ todo' = todo
    BY <1>1, <1>8 DEF Fail
  <2> HIDE DEF a, b
  <2>3. Mute(e)
    <3>1. e \in Seq({a, b}) /\ DOMAIN e = 1 .. 2 /\ e[1] = a /\ e[2] = b
      OBVIOUS
    <3>2. IsSeq(e)
      BY <3>1, Zenon DEF IsSeq
    <3> HIDE DEF e
    <3> QED BY <2>1, <3>1, <3>2 DEF Mute
  <2> HIDE DEF e
  <2>4. log'[r] = log[r] \o e
    BY <1>1, <2>2 DEF Appended
  <2> QED BY <1>1, <1>2, <1>3, <2>2, <2>3, <2>4, MuteTalk
<1> QED BY <1>5, <1>6, <1>7, <1>8

LEMMA StartTalks ==
  ASSUME AuditInv, TalkInv, NEW r \in DOMAIN rs, Start(r)
  PROVE  TalkInv'
<1>1. TalkFacts(r) /\ DOMAIN log = Runs /\ DOMAIN turn = Runs /\ DOMAIN turn[r] = TurnFields
      /\ r \in Runs
  BY TalkFactsHold DEF TalkFacts, RunFacts
<1>2. Local(r)
  BY StartAudits
<1> DEFINE asked == Message(Question(r))
           begun == Event("run.started")
           e1 == IF Streams(r) THEN <<asked>> ELSE <<>>
           e2 == <<begun>>
           e  == e1 \o e2
<1>3. asked.type = "completion.message" /\ asked.message = Question(r) /\ begun.type = "run.started"
  BY DEF Message, Event
<1>4. log' = Appended(r, e) /\ queue' = queue /\ todo' = todo
  BY DEF Start
<1> HIDE DEF asked, begun
<1>5. RequestsOK(r, e2) /\ ~HasRequest(e2) /\ OnlyAsks(r, e2) /\ IsSeq(e2)
  BY <1>3, MuteEvent, MuteEvents
<1>6. IsSeq(e1) /\ RequestsOK(r, e1) /\ ~HasRequest(e1) /\ OnlyAsks(r, e1)
  <2>1. Mute(<<>>)
    BY NoEvents DEF Mute
  <2>2. CASE e1 = <<>>
    BY <2>1, <2>2, MuteEvents
  <2>3. CASE e1 = <<asked>>
    BY <1>3, <2>3, OneEvent DEF RequestsOK, HasRequest, RequestAt, OnlyAsks, SaidAt
  <2> QED BY <2>2, <2>3
<1> HIDE DEF e1, e2
<1>7. IsSeq(e) /\ RequestsOK(r, e) /\ ~HasRequest(e) /\ OnlyAsks(r, e)
  <2>1. IsSeq(e)
    BY <1>5, <1>6, Concat DEF Joins
  <2> QED BY <1>5, <1>6, <2>1, LogsAdd
<1> HIDE DEF e
<1>8. log'[r] = log[r] \o e
  BY <1>1, <1>4 DEF Appended
<1>9. turn[r].at = "created" /\ turn'[r].at = "thinking" /\ turn'[r].messages = turn[r].messages
      /\ turn'[r].asked = turn[r].asked
  BY <1>1 DEF Start, TurnFields
<1>10. TalkOK(r, turn[r], queue[r], todo[r], log[r]) /\ IsSeq(log[r])
  BY <1>1 DEF TalkFacts
<1>11. /\ RequestsOK(r, log'[r]) /\ (HasRequest(log'[r]) <=> HasRequest(log[r]))
       /\ OnlyAsks(r, log[r]) => OnlyAsks(r, log'[r])
  <2>1. RequestsOK(r, log[r])
    BY <1>10 DEF TalkOK
  <2> QED BY <1>7, <1>8, <1>10, <2>1, LogsAdd
<1>12. TalkOK(r, turn'[r], queue'[r], todo'[r], log'[r])
  BY <1>4, <1>9, <1>10, <1>11 DEF TalkOK, Before
<1> QED BY <1>1, <1>2, <1>12, TalkStep

LEMMA AskTalks ==
  ASSUME AuditInv, TalkInv, NEW r \in DOMAIN rs, AskModel(r)
  PROVE  TalkInv'
<1>1. TalkFacts(r) /\ DOMAIN log = Runs /\ DOMAIN turn = Runs /\ DOMAIN turn[r] = TurnFields
      /\ r \in Runs
  BY TalkFactsHold DEF TalkFacts, RunFacts
<1>2. Local(r)
  BY AskAudits
<1> DEFINE M       == turn[r].messages
           request == Warned(M)
           event   == [type |-> "completion.request", messages |-> request]
           e       == <<event>>
<1>3. TalkOK(r, turn[r], queue[r], todo[r], log[r]) /\ IsSeq(log[r]) /\ turn[r].at = "thinking"
  BY <1>1 DEF TalkFacts, AskModel
<1>4. IsConversation(M) /\ AsksOf(M, r)
  BY <1>3 DEF TalkOK
<1>5. IsConversation(request) /\ AsksOf(request, r)
  <2>1. IsMessage(Warning) /\ Warning.role # "tool"
    <3>1. IsMessage(Said("system", None)) /\ Said("system", None).role = "system"
      BY SaidIs
    <3> QED BY <3>1 DEF Warning, IsMessage, MessageFields
  <2>2. request = M \/ request = Append(M, Warning)
    BY DEF Warned
  <2> HIDE DEF request
  <2> QED BY <1>4, <2>1, <2>2, OneMessage
<1>6. event.type = "completion.request" /\ event.messages = request
  OBVIOUS
<1>7. log' = Appended(r, e) /\ queue' = queue /\ todo' = todo
      /\ turn' = [turn EXCEPT ![r].at = "asked", ![r].messages = request, ![r].asked = @ + 1]
  BY Zenon DEF AskModel
<1> HIDE DEF request, event
<1>8. turn'[r].at = "asked" /\ turn'[r].messages = request
  BY <1>1, <1>7 DEF TurnFields
<1>9. IsSeq(e) /\ RequestsOK(r, e) /\ HasRequest(e)
  BY <1>5, <1>6, OneEvent DEF RequestsOK, HasRequest, RequestAt
<1>10. log'[r] = log[r] \o e
  BY <1>1, <1>7 DEF Appended
<1> HIDE DEF e
<1>11. RequestsOK(r, log'[r]) /\ HasRequest(log'[r])
  <2>1. RequestsOK(r, log[r])
    BY <1>3 DEF TalkOK
  <2> QED BY <1>3, <1>9, <1>10, <2>1, LogsAdd
<1>12. TalkOK(r, turn'[r], queue'[r], todo'[r], log'[r])
  BY <1>3, <1>5, <1>7, <1>8, <1>11 DEF TalkOK
<1> QED BY <1>1, <1>2, <1>12, TalkStep

LEMMA RepliesTalk ==
  ASSUME AuditInv, TalkInv, NEW r \in DOMAIN rs, ModelReplies(r)
  PROVE  TalkInv'
<1>1. TalkFacts(r) /\ DOMAIN turn = Runs /\ DOMAIN turn[r] = TurnFields /\ r \in Runs
  BY TalkFactsHold DEF TalkFacts, RunFacts
<1>2. Local(r)
  BY ModelRepliesAudits
<1>3. PICK reply \in scenario.replies :
        LET calls == FreshIds(Len(reply.tools))
            m     == [Answered(r, reply.text) EXCEPT !.calls = calls, !.tools = reply.tools]
        IN  /\ ToSet(calls) \subseteq Calls
            /\ Tell(r, m, NoOutput)
            /\ turn' = [turn EXCEPT
                 ![r].at = IF calls = <<>> THEN "over" ELSE "calling",
                 ![r].messages = Append(@, m),
                 ![r].reply = m,
                 ![r].calls = @ \cup ToSet(calls),
                 ![r].results = <<>>]
  BY Zenon DEF ModelReplies
<1> DEFINE ids  == FreshIds(Len(reply.tools))
           m    == [Answered(r, reply.text) EXCEPT !.calls = ids, !.tools = reply.tools]
           made == ToSet(ids)
           at   == IF ids = <<>> THEN "over" ELSE "calling"
           M    == turn[r].messages
<1>4. turn' = [turn EXCEPT ![r].at = at, ![r].messages = Append(@, m), ![r].reply = m,
                           ![r].calls = @ \cup made, ![r].results = <<>>]
  BY <1>3
<1>5. IsSeq(ids)
  <2>1. UsedIds \subseteq Calls
    BY DEF AuditInv, RunOK, Book, UsedIds
  <2>2. Len(reply.tools) \in Nat
    BY TurnAssumption DEF AuditInv, Tables
  <2> QED BY <2>1, <2>2, FreshIdsAreNew
<1>6. IsMessage(m) /\ m.role = "assistant" /\ m.calls = ids
  <2>1. IsMessage(Answered(r, reply.text)) /\ Answered(r, reply.text).role = "assistant"
    BY AnsweredIs
  <2> HIDE DEF ids
  <2> QED BY <1>5, <2>1 DEF IsMessage, MessageFields
<1>7. at \in {"over", "calling"}
  OBVIOUS
<1> HIDE DEF ids, m, made, at
<1>8. turn'[r].at = at /\ turn'[r].messages = Append(M, m) /\ turn'[r].reply = m
      /\ turn'[r].results = <<>>
  BY <1>1, <1>4 DEF TurnFields
<1>9. TalkOK(r, turn[r], queue[r], todo[r], log[r]) /\ turn[r].at = "asked"
      /\ log' = log /\ todo' = todo
  BY <1>1 DEF TalkFacts, ModelReplies
<1>10. IsConversation(M) /\ AsksOf(M, r) /\ RequestsOK(r, log[r]) /\ HasRequest(log[r])
       /\ ~HasRequest(todo[r])
  BY <1>9 DEF TalkOK, Before
<1>11. IsConversation(Append(M, m)) /\ AsksOf(Append(M, m), r) /\ Append(M, m) = M \o <<m>>
  BY <1>6, <1>10, OneMessage
<1>12. \E i \in DOMAIN Append(M, m) : Append(M, m)[i] = m
  <2>1. IsSeq(M)
    BY <1>10 DEF IsConversation
  <2>2. Joins(Append(M, m), M, <<m>>, Len(M))
    BY <2>1, AppendJoins
  <2>3. DOMAIN <<m>> = {1} /\ <<m>>[1] = m
    BY OneEvent
  <2> QED BY <2>2, <2>3 DEF Joins
<1>13. Replied(turn'[r])
  <2>1. DOMAIN turn'[r].results = {}
    BY <1>8
  <2> QED BY <1>6, <1>8, <1>12, <2>1 DEF Replied
<1>14. TalkOK(r, turn'[r], queue'[r], todo'[r], log'[r])
  BY <1>8, <1>9, <1>10, <1>11, <1>13 DEF TalkOK
<1> QED BY <1>1, <1>2, <1>14, TalkStep

LEMMA FailuresTalk ==
  ASSUME AuditInv, TalkInv, NEW r \in DOMAIN rs,
         AgentFails(r) \/ \E c \in Calls : CondenserFails(r, c)
  PROVE  TalkInv'
<1>1. TalkFacts(r) /\ DOMAIN turn = Runs /\ DOMAIN turn[r] = TurnFields /\ r \in Runs
  BY TalkFactsHold DEF TalkFacts, RunFacts
<1>2. Local(r)
  BY AgentFailsAudits, CondenserFailsAudits
<1>3. turn' = [turn EXCEPT ![r].at = "over"] /\ log' = log /\ todo' = todo
  BY DEF AgentFails, CondenserFails
<1>4. turn'[r].at = "over" /\ turn'[r].messages = turn[r].messages
  BY <1>1, <1>3 DEF TurnFields
<1>5. TalkOK(r, turn[r], queue[r], todo[r], log[r])
  BY <1>1 DEF TalkFacts
<1>6. turn[r].at \in {"asked", "calling"} \/ (turn[r].at = "thinking" /\ turn[r].asked # 0)
  BY TurnAssumption DEF AgentFails, CondenserFails, Open
<1>7. HasRequest(log[r])
  BY <1>5, <1>6 DEF TalkOK, Before
<1>8. TalkOK(r, turn'[r], queue'[r], todo'[r], log'[r])
  BY <1>3, <1>4, <1>5, <1>6, <1>7 DEF TalkOK
<1> QED BY <1>1, <1>2, <1>8, TalkStep

LEMMA ToolReturnsTalks ==
  ASSUME AuditInv, TalkInv, NEW r \in DOMAIN rs, NEW c \in Calls, ToolReturns(r, c)
  PROVE  TalkInv'
<1>1. TalkFacts(r) /\ DOMAIN turn = Runs /\ DOMAIN turn[r] = TurnFields /\ r \in Runs
  BY TalkFactsHold DEF TalkFacts, RunFacts
<1>2. Local(r)
  BY ToolReturnsAudits
<1>3. PICK output :
        LET m == [Said("tool", r) EXCEPT !.call = c, !.size = output.size, !.tool = ToolOf(r, c)]
        IN  /\ Tell(r, m, output)
            /\ turn' = [turn EXCEPT ![r].results =
                 [d \in {c} \cup DOMAIN turn[r].results |->
                    IF d = c THEN m ELSE turn[r].results[d]]]
  BY Zenon DEF ToolReturns
<1> DEFINE m   == [Said("tool", r) EXCEPT !.call = c, !.size = output.size, !.tool = ToolOf(r, c)]
           old == turn[r].results
           new == [d \in {c} \cup DOMAIN old |-> IF d = c THEN m ELSE old[d]]
<1>4. IsMessage(m) /\ m.call = c
  <2>1. IsMessage(Said("tool", r))
    BY SaidIs
  <2> QED BY <2>1 DEF IsMessage, MessageFields
<1>5. turn' = [turn EXCEPT ![r].results = new]
  BY <1>3
<1> HIDE DEF m
<1>6. DOMAIN new = {c} \cup DOMAIN old /\ \A d \in DOMAIN new : new[d] = IF d = c THEN m ELSE old[d]
  OBVIOUS
<1> HIDE DEF new
<1>7. turn'[r].at = turn[r].at /\ turn'[r].messages = turn[r].messages
      /\ turn'[r].reply = turn[r].reply /\ turn'[r].results = new
  BY <1>1, <1>5 DEF TurnFields
<1>8. TalkOK(r, turn[r], queue[r], todo[r], log[r]) /\ turn[r].at = "calling"
      /\ log' = log /\ todo' = todo
  BY <1>1 DEF TalkFacts, ToolReturns, Open
<1>9. Replied(turn[r]) /\ HasRequest(log[r])
  BY <1>8 DEF TalkOK, Before
<1>10. Replied(turn'[r])
  BY <1>4, <1>6, <1>7, <1>9 DEF Replied
<1>11. TalkOK(r, turn'[r], queue'[r], todo'[r], log'[r])
  BY <1>7, <1>8, <1>9, <1>10 DEF TalkOK
<1> QED BY <1>1, <1>2, <1>11, TalkStep

LEMMA ToolsReturnedTalks ==
  ASSUME AuditInv, TalkInv, NEW r \in DOMAIN rs, ToolsReturned(r)
  PROVE  TalkInv'
<1>1. TalkFacts(r) /\ DOMAIN turn = Runs /\ DOMAIN turn[r] = TurnFields /\ r \in Runs
  BY TalkFactsHold DEF TalkFacts, RunFacts
<1>2. Local(r)
  BY ToolsReturnedAudits
<1> DEFINE M     == turn[r].messages
           calls == turn[r].reply.calls
           res   == turn[r].results
           N     == [i \in DOMAIN calls |-> res[calls[i]]]
<1>3. TalkOK(r, turn[r], queue[r], todo[r], log[r]) /\ turn[r].at = "calling"
      /\ log' = log /\ todo' = todo
  BY <1>1 DEF TalkFacts, ToolsReturned
<1>4. IsConversation(M) /\ AsksOf(M, r) /\ Replied(turn[r]) /\ HasRequest(log[r])
  BY <1>3 DEF TalkOK, Before
<1>5. ToSet(calls) \subseteq DOMAIN res
  BY <1>3 DEF ToolsReturned, Open, Asked
<1>6. turn' = [turn EXCEPT ![r].at = "thinking", ![r].messages = @ \o N]
  BY Zenon DEF ToolsReturned, Asked
<1>7. PICK k \in DOMAIN M : M[k].role = "assistant" /\ M[k].calls = calls
  BY <1>4 DEF Replied
<1>8. IsSeq(calls)
  BY <1>4, <1>7 DEF IsConversation, IsMessage
<1>9. DOMAIN N = DOMAIN calls /\ N = [i \in DOMAIN N |-> N[i]] /\ \A i \in DOMAIN N : N[i] = res[calls[i]]
  OBVIOUS
<1> HIDE DEF N
<1>10. IsSeq(N)
  BY <1>8, <1>9, MappedSeq
<1>11. \A j \in DOMAIN N : IsMessage(N[j]) /\ N[j].call = calls[j] /\ calls[j] \in ToSet(calls)
  <2>1. \A j \in DOMAIN calls : calls[j] \in ToSet(calls)
    BY DEF ToSet
  <2> QED BY <1>4, <1>5, <1>9, <2>1 DEF Replied
<1>12. \A j \in DOMAIN N : Called(M[k], N[j])
  BY <1>7, <1>11 DEF Called
<1>13. IsConversation(M \o N) /\ AsksOf(M \o N, r)
  BY <1>4, <1>10, <1>11, <1>12, ConversationGrows
<1>14. turn'[r].at = "thinking" /\ turn'[r].messages = M \o N
  BY <1>1, <1>6 DEF TurnFields
<1>15. TalkOK(r, turn'[r], queue'[r], todo'[r], log'[r])
  BY <1>3, <1>4, <1>13, <1>14 DEF TalkOK
<1> QED BY <1>1, <1>2, <1>15, TalkStep

LEMMA NoRequests ==
  ASSUME NEW r, NEW m
  PROVE  /\ \A output : ~HasRequest(ToolEvents(r, m, output))
         /\ IsSeq(m.calls) => ~HasRequest(AssistantEvents(r, m))
<1>1. \A output : ~HasRequest(ToolEvents(r, m, output))
  BY ToolEventsTyped DEF Typed, ToolTypes, HasRequest, RequestAt
<1>2. IsSeq(m.calls) => ~HasRequest(AssistantEvents(r, m))
  BY AssistantEventsTyped DEF Typed, AssistantTypes, HasRequest, RequestAt
<1> QED BY <1>1, <1>2

LEMMA RecordTalks ==
  ASSUME AuditInv, TalkInv, NEW r \in DOMAIN rs, Record(r)
  PROVE  TalkInv'
<1>1. TalkFacts(r) /\ QueueOK(queue[r]) /\ DOMAIN todo = Runs /\ r \in Runs
  BY TalkFactsHold DEF TalkFacts, RunFacts
<1>2. Local(r)
  BY RecordAudits
<1> DEFINE head == Head(queue[r])
           m    == head.message
<1>3. /\ turn' = turn /\ log' = log /\ queue[r] # <<>>
      /\ todo'[r] = IF m.role = "tool" THEN ToolEvents(r, m, head.output) ELSE AssistantEvents(r, m)
  BY <1>1, Zenon DEF Record
<1>4. IsSeq(m.calls)
  BY <1>1, <1>3, QueueSplit
<1> HIDE DEF head, m
<1>5. ~HasRequest(todo'[r])
  BY <1>3, <1>4, NoRequests
<1>6. TalkOK(r, turn[r], queue[r], todo[r], log[r])
  BY <1>1 DEF TalkFacts
<1>7. TalkOK(r, turn'[r], queue'[r], todo'[r], log'[r])
  BY <1>3, <1>5, <1>6 DEF TalkOK, Before
<1> QED BY <1>1, <1>2, <1>7, TalkStep

LEMMA AppendTalks ==
  ASSUME AuditInv, TalkInv, NEW r \in DOMAIN rs, Append1(r)
  PROVE  TalkInv'
<1>1. TalkFacts(r) /\ IsSeq(log[r]) /\ IsSeq(todo[r]) /\ DOMAIN todo = Runs /\ DOMAIN log = Runs
      /\ r \in Runs
  BY TalkFactsHold DEF TalkFacts, RunFacts
<1>2. Local(r)
  BY AppendAudits
<1> DEFINE d == todo[r]
           h == <<Head(d)>>
<1>3. turn' = turn /\ d # <<>> /\ log'[r] = log[r] \o h /\ todo'[r] = Tail(d)
  BY <1>1 DEF Append1, Appended
<1>4. TalkOK(r, turn[r], queue[r], todo[r], log[r])
  BY <1>1 DEF TalkFacts
<1>5. ~HasRequest(d) /\ RequestsOK(r, log[r]) /\ HasRequest(log[r])
  BY <1>3, <1>4 DEF TalkOK, Before
<1>6. /\ Head(d) = d[1] /\ 1 \in DOMAIN d
      /\ \A i \in DOMAIN Tail(d) : i + 1 \in DOMAIN d /\ Tail(d)[i] = d[i + 1]
  BY <1>1, <1>3, Split
<1>7. ~HasRequest(Tail(d))
  BY <1>5, <1>6 DEF HasRequest, RequestAt
<1>8. IsSeq(h) /\ DOMAIN h = {1} /\ h[1] = Head(d)
  BY OneEvent
<1> HIDE DEF h
<1>9. RequestsOK(r, h)
  BY <1>5, <1>6, <1>8 DEF HasRequest, RequestsOK, RequestAt
<1>10. RequestsOK(r, log'[r]) /\ HasRequest(log'[r])
  BY <1>1, <1>3, <1>5, <1>8, <1>9, LogsAdd
<1>11. TalkOK(r, turn'[r], queue'[r], todo'[r], log'[r])
  BY <1>3, <1>4, <1>7, <1>10 DEF TalkOK
<1> QED BY <1>1, <1>2, <1>11, TalkStep

-----------------------------------------------------------------------------
(* A run is created: it is given the turns before it.                         *)

\* r is the run that was created, with its messages M.
Created(r, M) ==
  /\ r \in Runs /\ r \in Nat \ {0} /\ DOMAIN rs = 1 .. r - 1 /\ DOMAIN rs' = 1 .. r
  /\ rs'[r].status = "queued"
  /\ M = IF rs'[r].parent = None THEN MessagesForRun(rs', log, r) ELSE <<Question(r)>>
  /\ turn' = [turn EXCEPT ![r].at = "created", ![r].messages = M]
  /\ log' = Appended(r, <<Event("run.created")>>)
  /\ UNCHANGED <<scenario, queue, todo, loop, timings>>
  /\ \A q \in DOMAIN rs : rs'[q] = rs[q]

LEMMA Creates ==
  ASSUME AuditInv, NEW retryOf, CreateRun(retryOf)
  PROVE  \E r, M : Created(r, M)
<1>r. PICK r : r = Cardinality(DOMAIN rs) + 1
  OBVIOUS
<1>1. PICK n \in Nat : n <= scenario.runs /\ DOMAIN rs = 1 .. n
  BY DEF AuditInv, Tables
<1>2. Cardinality(1 .. n) = n
  BY FS_Interval
<1>3. r = n + 1 /\ r \in Nat \ {0} /\ n = r - 1
  BY <1>r, <1>1, <1>2
<1>4. PICK new :
        /\ new.status = "queued"
        /\ rs' = [x \in 1 .. r |-> IF x = r THEN new ELSE rs[x]]
        /\ turn' = [turn EXCEPT ![r].at = "created",
                                ![r].messages = IF new.parent = None THEN MessagesForRun(rs', log, r)
                                                ELSE <<Question(r)>>]
  <2> DEFINE new == [status |-> "queued", session |-> 1, retryOf |-> retryOf,
                     retryRoot |-> IF retryOf = None THEN None ELSE ReplayRoot(rs, retryOf),
                     parent |-> scenario.parent]
  <2>1. /\ rs' = [x \in 1 .. r |-> IF x = r THEN new ELSE rs[x]]
        /\ turn' = [turn EXCEPT ![r].at = "created",
                                ![r].messages = IF new.parent = None THEN MessagesForRun(rs', log, r)
                                                ELSE <<Question(r)>>]
    BY <1>r, Zenon DEF CreateRun
  <2>2. new.status = "queued"
    OBVIOUS
  <2> HIDE DEF new
  <2> QED BY <2>1, <2>2
<1>5. r \in Runs /\ log' = Appended(r, <<Event("run.created")>>)
      /\ UNCHANGED <<scenario, queue, todo, loop, timings>>
  BY <1>r, Zenon DEF CreateRun
<1>6. DOMAIN rs' = 1 .. r /\ rs'[r] = new /\ \A q \in DOMAIN rs : rs'[q] = rs[q]
  <2>1. r \in 1 .. r /\ \A q \in 1 .. n : q \in 1 .. r /\ q # r
    BY <1>3
  <2>2. DOMAIN rs' = 1 .. r /\ \A x \in 1 .. r : rs'[x] = IF x = r THEN new ELSE rs[x]
    BY <1>4
  <2> QED BY <1>1, <2>1, <2>2
<1>7. DOMAIN rs = 1 .. r - 1
  BY <1>1, <1>3
<1>8. Created(r, IF new.parent = None THEN MessagesForRun(rs', log, r) ELSE <<Question(r)>>)
  BY <1>3, <1>4, <1>5, <1>6, <1>7, Zenon DEF Created
<1> QED BY <1>8

LEMMA CreatedIsLocal ==
  ASSUME AuditInv, NEW r, NEW M, Created(r, M)
  PROVE  Local(r)
<1>1. DOMAIN log = Runs /\ DOMAIN turn = Runs /\ DOMAIN queue = Runs /\ DOMAIN todo = Runs
      /\ DOMAIN loop = Runs /\ DOMAIN timings = Calls
  BY DEF AuditInv, Tables
<1>2. r \in Runs /\ UNCHANGED <<scenario, queue, todo, loop, timings>>
  BY DEF Created
<1>3. /\ DOMAIN turn' = Runs /\ \A q \in Runs \ {r} : turn'[q] = turn[q]
      /\ DOMAIN log' = Runs /\ \A q \in Runs \ {r} : log'[q] = log[q]
  BY <1>1 DEF Created, Appended
<1>4. \A q \in Runs \ {r} : (q \in DOMAIN rs' <=> q \in DOMAIN rs) /\ (q \in DOMAIN rs => rs'[q] = rs[q])
  BY TurnAssumption DEF Created, Runs, AuditInv, Tables
<1> QED BY <1>1, <1>2, <1>3, <1>4 DEF Local, Same

\* What the run is given.
LEMMA GivenMessages ==
  ASSUME AuditInv, TalkInv, NEW r, NEW M, Created(r, M)
  PROVE  /\ IsConversation(M) /\ AsksOf(M, r)
         /\ rs'[r].parent = None =>
              \A p \in ToSet(PriorRuns(rs', r)) : HasTurn(M, p, log[p])
<1>1. r \in Runs /\ r \in Nat \ {0} /\ DOMAIN rs' = 1 .. r /\ DOMAIN rs = 1 .. r - 1
  BY DEF Created
<1>2. ASSUME NEW p \in 1 .. r - 1
      PROVE  LogOK(p, log[p])
  <2>1. p \in DOMAIN rs
    BY <1>1
  <2>2. TalkFacts(p)
    BY <2>1, TalkFactsHold
  <2> QED BY <2>2 DEF TalkFacts, TalkOK, Before, LogOK
<1>3. CASE rs'[r].parent = None
  <2>1. M = MessagesForRun(rs', log, r)
    BY <1>3 DEF Created
  <2>2. /\ IsConversation(MessagesForRun(rs', log, r))
        /\ AsksOf(MessagesForRun(rs', log, r), r)
        /\ \A p \in ToSet(PriorRuns(rs', r)) : HasTurn(MessagesForRun(rs', log, r), p, log[p])
    BY <1>1, <1>2, MessagesAre
  <2> QED BY <2>1, <2>2
<1>4. CASE rs'[r].parent # None
  <2>1. M = <<Question(r)>>
    BY <1>4 DEF Created
  <2> QED BY <1>4, <2>1, QuestionAsks
<1> QED BY <1>3, <1>4

LEMMA CreateTalks ==
  ASSUME AuditInv, TalkInv, NEW retryOf, CreateRun(retryOf)
  PROVE  TalkInv'
<1>1. PICK r, M : Created(r, M)
  BY Creates
<1>2. Local(r) /\ r \in Runs
  BY <1>1, CreatedIsLocal DEF Created
<1>3. IsConversation(M) /\ AsksOf(M, r)
  BY <1>1, GivenMessages
<1>4. TalkOK(r, turn[r], queue[r], todo[r], log[r]) /\ RunOK(r)
  BY <1>2 DEF TalkInv, AuditInv
<1>5. DOMAIN turn = Runs /\ DOMAIN log = Runs /\ DOMAIN turn[r] = TurnFields /\ IsSeq(log[r])
      /\ turn[r].at = "none"
  <2>1. r \notin DOMAIN rs
    BY <1>1 DEF Created
  <2> QED BY <1>4, <2>1 DEF AuditInv, Tables, RunOK, Book, AuditsOK
<1> DEFINE e == <<Event("run.created")>>
<1>6. turn'[r].at = "created" /\ turn'[r].messages = M /\ turn'[r].asked = turn[r].asked
      /\ log'[r] = log[r] \o e /\ queue' = queue /\ todo' = todo
  BY <1>1, <1>2, <1>5 DEF Created, Appended, TurnFields
<1>7. Mute(e)
  <2>1. Event("run.created").type = "run.created"
    BY DEF Event
  <2> QED BY <2>1, MuteEvent
<1>8. RequestsOK(r, e) /\ ~HasRequest(e) /\ OnlyAsks(r, e) /\ IsSeq(e)
  BY <1>7, MuteEvents
<1> HIDE DEF e
<1>9. /\ RequestsOK(r, log'[r]) /\ (HasRequest(log'[r]) <=> HasRequest(log[r]))
      /\ OnlyAsks(r, log[r]) => OnlyAsks(r, log'[r])
  <2>1. RequestsOK(r, log[r])
    BY <1>4 DEF TalkOK
  <2> QED BY <1>5, <1>6, <1>8, <2>1, LogsAdd
<1>10. TalkOK(r, turn'[r], queue'[r], todo'[r], log'[r])
  BY <1>3, <1>4, <1>6, <1>9 DEF TalkOK, Before
<1> QED BY <1>2, <1>10, TalkStep

LEMMA InitTalks == Init => TalkInv
<1> SUFFICES ASSUME Init, NEW r \in Runs
             PROVE  TalkOK(r, turn[r], queue[r], todo[r], log[r])
  BY DEF TalkInv
<1>1. log[r] = <<>> /\ queue[r] = <<>> /\ todo[r] = <<>> /\ turn[r] = NoTurn
  BY DEF Init
<1>2. turn[r].at = "none" /\ turn[r].asked = 0
  BY <1>1 DEF NoTurn
<1>3. DOMAIN <<>> = {}
  OBVIOUS
<1>4. RequestsOK(r, <<>>) /\ ~HasRequest(<<>>) /\ OnlyAsks(r, <<>>)
  BY <1>3, Zenon DEF RequestsOK, HasRequest, OnlyAsks
<1> QED BY <1>1, <1>2, <1>4 DEF TalkOK, Before

LEMMA SameTalks == TalkInv /\ UNCHANGED turnVars => TalkInv'
<1> SUFFICES ASSUME TalkInv, UNCHANGED turnVars PROVE TalkInv'
  OBVIOUS
<1>1. UNCHANGED <<scenario, log, turn, queue, todo>> /\ Runs' = Runs
  BY DEF turnVars, Runs
<1>2. \A r \in Runs : TalkOK(r, turn'[r], queue'[r], todo'[r], log'[r])
  BY <1>1 DEF TalkInv
<1> QED BY <1>1, <1>2 DEF TalkInv

LEMMA NextTalks == AuditInv /\ TalkInv /\ [Next]_vars => TalkInv'
<1> SUFFICES ASSUME AuditInv, TalkInv, [Next]_vars PROVE TalkInv'
  OBVIOUS
<1>1. ASSUME NEW retryOf, CreateRun(retryOf) PROVE TalkInv'
  BY <1>1, CreateTalks
<1>2. ASSUME NEW r \in DOMAIN rs, Agent(r) PROVE TalkInv'
  <2>1. ASSUME NEW c \in Calls, Script(r, c) PROVE TalkInv'
    BY <2>1, SameTalks DEF Script
  <2> QED BY <1>2, <2>1, StartTalks, AskTalks, RepliesTalk, FailuresTalk, ToolsReturnedTalks,
             ToolReturnsTalks DEF Agent
<1>3. ASSUME NEW r \in DOMAIN rs, Recorder(r) \/ Cancel(r) PROVE TalkInv'
  BY <1>3, RecordTalks, AppendTalks, RecorderTalks DEF Recorder
<1>4. CASE Cleanup
  BY <1>4, SameTalks DEF Cleanup
<1>5. CASE UNCHANGED vars
  BY <1>5, SameTalks DEF vars
<1> QED BY <1>1, <1>2, <1>3, <1>4, <1>5, Zenon DEF Next

LEMMA TalkFollows == AuditInv /\ TalkInv => ResultsFollowCalls
<1> SUFFICES ASSUME AuditInv, TalkInv, NEW r \in DOMAIN rs,
                    NEW i \in Events(r, "completion.request")
             PROVE  ToolsAnswerCalls(log[r][i].messages)
  BY DEF ResultsFollowCalls
<1>1. RequestsOK(r, log[r])
  BY TalkFactsHold DEF TalkFacts, TalkOK
<1>2. i \in DOMAIN log[r] /\ RequestAt(log[r], i)
  BY DEF Events, RequestAt
<1> QED BY <1>1, <1>2 DEF RequestsOK, IsConversation

\* No request of a run shows its model the result of a tool call that it does
\* not show as well, be it of this turn or of an earlier one, of which only a
\* part may have been recorded (agent_context.go, agentMessagesForRun;
\* eino_model_context.go).
THEOREM NoResultWithoutItsCall == Spec => []ResultsFollowCalls
<1>1. Init => AuditInv /\ TalkInv
  BY InitAudits, InitTalks
<1>2. AuditInv /\ TalkInv /\ [Next]_vars => AuditInv' /\ TalkInv'
  BY NextAudits, NextTalks
<1>3. AuditInv /\ TalkInv => ResultsFollowCalls
  BY TalkFollows
<1> QED BY <1>1, <1>2, <1>3, PTL DEF Spec

\* What a step has to keep.
TurnsKept ==
  \A r \in DOMAIN rs' \ DOMAIN rs :
    rs'[r].parent = None =>
      \A p \in ToSet(PriorRuns(rs', r)) : HasTurn(turn'[r].messages, p, log[p])

LEMMA NoNewRun ==
  ASSUME AuditInv, AuditInv', NEW r \in DOMAIN rs, Local(r)
  PROVE  DOMAIN rs' \subseteq DOMAIN rs
<1> SUFFICES ASSUME NEW q \in DOMAIN rs', q # r PROVE q \in DOMAIN rs
  OBVIOUS
<1>1. scenario' = scenario
  BY DEF Local
<1>2. PICK n \in Nat : n <= scenario.runs /\ DOMAIN rs' = 1 .. n
  BY <1>1 DEF AuditInv, Tables
<1>3. scenario.runs \in Nat
  BY TurnAssumption DEF AuditInv, Tables
<1>4. q \in Runs
  BY <1>2, <1>3 DEF Runs
<1> QED BY <1>4 DEF Local, Same

LEMMA StepsKeepTurns == AuditInv /\ TalkInv /\ [Next]_vars => TurnsKept
<1> SUFFICES ASSUME AuditInv, TalkInv, [Next]_vars PROVE TurnsKept
  OBVIOUS
<1>1. ASSUME NEW retryOf, CreateRun(retryOf) PROVE TurnsKept
  <2>1. PICK r, M : Created(r, M)
    BY <1>1, Creates
  <2>2. r \in Runs /\ DOMAIN rs = 1 .. r - 1 /\ DOMAIN rs' = 1 .. r /\ r \in Nat \ {0}
    BY <2>1 DEF Created
  <2>3. turn'[r].messages = M
    <3>1. DOMAIN turn = Runs /\ DOMAIN turn[r] = TurnFields
      BY <2>2 DEF AuditInv, Tables, RunOK, Book
    <3> QED BY <2>1, <2>2, <3>1 DEF Created, TurnFields
  <2>4. \A q \in DOMAIN rs' \ DOMAIN rs : q = r
    BY <2>2
  <2>5. rs'[r].parent = None => \A p \in ToSet(PriorRuns(rs', r)) : HasTurn(M, p, log[p])
    BY <2>1, GivenMessages
  <2> QED BY <2>3, <2>4, <2>5 DEF TurnsKept
<1>2. ASSUME DOMAIN rs' \subseteq DOMAIN rs PROVE TurnsKept
  BY <1>2 DEF TurnsKept
<1>3. ASSUME NEW r \in DOMAIN rs, Agent(r) PROVE TurnsKept
  <2>1. ASSUME NEW c \in Calls, Script(r, c) PROVE TurnsKept
    BY <1>2, <2>1 DEF Script, turnVars
  <2>2. ASSUME NEW c \in Calls, ToolReturns(r, c) \/ CondenserFails(r, c) PROVE TurnsKept
    BY <1>2, <2>2, ToolReturnsAudits, CondenserFailsAudits, NoNewRun
  <2>3. ASSUME Start(r) \/ AskModel(r) \/ ModelReplies(r) \/ AgentFails(r) \/ ToolsReturned(r)
        PROVE  TurnsKept
    BY <1>2, <2>3, StartAudits, AskAudits, ModelRepliesAudits, AgentFailsAudits,
       ToolsReturnedAudits, NoNewRun
  <2> QED BY <1>3, <2>1, <2>2, <2>3, Zenon DEF Agent
<1>4. ASSUME NEW r \in DOMAIN rs, Recorder(r) PROVE TurnsKept
  <2>1. AuditInv' /\ Local(r)
    BY <1>4, RecordAudits, AppendAudits, CompleteAudits, TellAnswerAudits, CompletedAudits,
       FailAudits, StopsAudits DEF Recorder
  <2> QED BY <1>2, <2>1, NoNewRun
<1>5. ASSUME NEW r \in DOMAIN rs, Cancel(r) PROVE TurnsKept
  BY <1>2, <1>5, CancelAudits, NoNewRun
<1>6. CASE Cleanup \/ UNCHANGED vars
  BY <1>2, <1>6 DEF Cleanup, vars, turnVars
<1> QED BY <1>1, <1>3, <1>4, <1>5, <1>6, Zenon DEF Next

\* A run is given every earlier turn of its branch, whole: the question of that
\* turn and, after it, the answer it ended with, from whichever of its events
\* they are read back (agent_context.go, agentMessagesForRun).
THEOREM EveryEarlierTurnIsGiven == Spec => EarlierTurnsAreKept
<1>1. Init => AuditInv /\ TalkInv
  BY InitAudits, InitTalks
<1>2. AuditInv /\ TalkInv /\ [Next]_vars => AuditInv' /\ TalkInv'
  BY NextAudits, NextTalks
<1>3. AuditInv /\ TalkInv /\ [Next]_vars => TurnsKept
  BY StepsKeepTurns
<1>4. Spec => [](AuditInv /\ TalkInv)
  BY <1>1, <1>2, PTL DEF Spec
<1>5. [][TurnsKept]_vars => EarlierTurnsAreKept
  BY DEF TurnsKept, EarlierTurnsAreKept
<1>6. Spec => [][TurnsKept]_vars
  BY <1>3, <1>4, PTL DEF Spec
<1> QED BY <1>5, <1>6, PTL

-----------------------------------------------------------------------------
(* What an answer cites (answer_citations.go): artifacts that were recorded.  *)

\* An event that records the artifact of that id.
Shows(e, id) == e.type = "artifact" /\ e.artifact.id = id

LEMMA CandidatesAre ==
  ASSUME NEW l, IsSeq(l)
  PROVE  /\ IsSeq(Candidates(l))
         /\ \A i \in DOMAIN Candidates(l) : \E k \in DOMAIN l : Shows(l[k], Candidates(l)[i].id)
<1>1. PICK S : l \in Seq(S)
  BY DEF IsSeq
<1> DEFINE I == {i \in DOMAIN l : l[i].type = "artifact" /\ CanSupportCitation(l[i].artifact)}
           t == Picked(l, I)
           C == [i \in DOMAIN t |-> t[i].artifact]
<1>2. t \in Seq(S) /\ \E at : Selects(t, at, l, I \cap DOMAIN l)
  BY <1>1, PickedSelects
<1>3. Candidates(l) = C
  BY DEF Candidates
<1>4. DOMAIN C = DOMAIN t /\ C = [i \in DOMAIN C |-> C[i]] /\ \A i \in DOMAIN t : C[i] = t[i].artifact
  OBVIOUS
<1>5. \A k \in I : k \in DOMAIN l /\ l[k].type = "artifact"
  OBVIOUS
<1> HIDE DEF t, I, C
<1>6. PICK at : Selects(t, at, l, I \cap DOMAIN l)
  BY <1>2
<1>7. \A i \in DOMAIN t : at[i] \in I /\ t[i] = l[at[i]]
  BY <1>6 DEF Selects
<1>8. IsSeq(C)
  <2>1. IsSeq(t)
    BY <1>2, Zenon DEF IsSeq
  <2> QED BY <1>4, <2>1, MappedSeq
<1>9. \A i \in DOMAIN C : at[i] \in DOMAIN l /\ Shows(l[at[i]], C[i].id)
  BY <1>4, <1>5, <1>7 DEF Shows
<1> QED BY <1>3, <1>8, <1>9

LEMMA LabelsAre ==
  ASSUME NEW text \in TextType
  PROVE  Labels(text) \in Seq(LabelType)
<1> DEFINE seqs  == [b \in DOMAIN text |-> text[b].labels]
           all   == FlattenSeq(seqs)
           first == {i \in DOMAIN all : \A j \in 1 .. i - 1 : all[j].name # all[i].name}
<1>1. Labels(text) = Picked(all, first)
  BY DEF Labels
<1>2. seqs \in Seq(Seq(LabelType))
  <2> DEFINE B == [prose : BOOLEAN, fenced : BOOLEAN, names : SUBSET STRING,
                   labels : Seq(LabelType), markers : {{}}]
  <2>a. text \in Seq(B) /\ \A block \in B : block.labels \in Seq(LabelType)
    BY DEF TextType
  <2> HIDE DEF B
  <2>1. Len(text) \in Nat /\ DOMAIN text = 1 .. Len(text)
        /\ \A b \in 1 .. Len(text) : text[b].labels \in Seq(LabelType)
    BY <2>a
  <2>2. seqs \in [1 .. Len(text) -> Seq(LabelType)]
    BY <2>1
  <2> QED BY <2>1, <2>2
<1> HIDE DEF seqs
<1>3. all \in Seq(LabelType)
  BY <1>2, FlatSeq
<1> HIDE DEF all, first
<1> QED BY <1>1, <1>3, PickedSelects

LEMMA ScoreIs ==
  ASSUME NEW label \in LabelType, NEW a, NEW text
  PROVE  Score(label, a, text) \in Int
<1>1. \A words : WordPoints("health", words) \in Nat /\ WordPoints("facts", words) \in Nat
                 /\ WordPoints("history", words) \in Nat /\ WordPoints("change", words) \in Nat
                 /\ WordPoints("topology", words) \in Nat /\ WordPoints("search", words) \in Nat
                 /\ WordPoints("capacity", words) \in Nat
  BY DEF WordPoints
<1>2. \A s : Points("health", s) \in Nat /\ Points("facts", s) \in Nat
             /\ Points("history", s) \in Nat /\ Points("change", s) \in Nat
             /\ Points("topology", s) \in Nat /\ Points("search", s) \in Nat
             /\ Points("capacity", s) \in Nat
  BY DEF Points
<1>3. \A theme \in Themes : Themed(theme, label, a) \in Nat
  BY <1>1, <1>2 DEF Themed, Themes
<1>4. Cardinality(label.themes \cap a.words) \in Nat
  <2>1. label.themes \subseteq Themes
    BY DEF LabelType
  <2>2. IsFiniteSet({"health", "facts", "history", "change", "topology", "search", "capacity"})
    <3>1. \A x : IsFiniteSet({x})
      BY FS_Singleton
    <3> DEFINE T1 == {"health"} \cup {"facts"}
               T2 == {"history"} \cup {"change"}
               T3 == {"topology"} \cup {"search"}
    <3>2. IsFiniteSet(T1) /\ IsFiniteSet(T2) /\ IsFiniteSet(T3) /\ IsFiniteSet({"capacity"})
      BY <3>1, FS_Union
    <3>3. {"health", "facts", "history", "change", "topology", "search", "capacity"}
          = (T1 \cup T2) \cup (T3 \cup {"capacity"})
      OBVIOUS
    <3> HIDE DEF T1, T2, T3
    <3>4. IsFiniteSet(T1 \cup T2) /\ IsFiniteSet(T3 \cup {"capacity"})
      BY <3>2, FS_Union
    <3>5. IsFiniteSet((T1 \cup T2) \cup (T3 \cup {"capacity"}))
      BY <3>4, FS_Union
    <3> QED BY <3>3, <3>5
  <2>3. IsFiniteSet(label.themes \cap a.words)
    BY <2>1, <2>2, FS_Subset DEF Themes
  <2> QED BY <2>3, FS_CardinalityType
<1> DEFINE c == Cardinality(label.themes \cap a.words)
<1>5. Score(label, a, text) =
        (IF Mentions(text, a) THEN 5 ELSE 0)
        + Themed("health", label, a) + Themed("facts", label, a) + Themed("history", label, a)
        + Themed("change", label, a) + Themed("topology", label, a) + Themed("search", label, a)
        + Themed("capacity", label, a) + 8 * c
  BY DEF Score
<1>6. c \in Nat
  BY <1>4
<1>7. /\ Themed("health", label, a) \in Nat /\ Themed("facts", label, a) \in Nat
      /\ Themed("history", label, a) \in Nat /\ Themed("change", label, a) \in Nat
      /\ Themed("topology", label, a) \in Nat /\ Themed("search", label, a) \in Nat
      /\ Themed("capacity", label, a) \in Nat
  BY <1>3 DEF Themes
<1>8. (IF Mentions(text, a) THEN 5 ELSE 0) \in Nat
  OBVIOUS
<1> HIDE DEF c
<1> QED BY <1>5, <1>6, <1>7, <1>8

\* Of positions with scores there is a first among the highest.
Beats(score, i, j) == score[i] > score[j] \/ (score[i] = score[j] /\ i <= j)

LEMMA SomeBest ==
  ASSUME NEW n \in Nat, NEW U \in SUBSET (1 .. n), U # {}, NEW score \in [U -> Int]
  PROVE  \E i \in U : \A j \in U : Beats(score, i, j)
<1> DEFINE V(k) == U \cap 1 .. k
           P == {k \in 0 .. n : V(k) # {} => \E i \in V(k) : \A j \in V(k) : Beats(score, i, j)}
<1>1. 0 \in P
  OBVIOUS
<1>2. ASSUME NEW k \in 1 .. n, k - 1 \in P
      PROVE  k \in P
  <2>1. CASE k \notin U
    <3>1. V(k) = V(k - 1)
      BY <2>1
    <3> HIDE DEF V
    <3> QED BY <1>2, <3>1
  <2>2. CASE k \in U
    <3>1. V(k) = V(k - 1) \cup {k} /\ \A j \in V(k - 1) : j \in U /\ j < k /\ j \in Int
      BY <2>2
    <3>2. score[k] \in Int /\ \A j \in V(k - 1) : score[j] \in Int
      BY <2>2, <3>1
    <3>3. CASE V(k - 1) = {}
      <4>1. V(k) = {k}
        BY <3>1, <3>3
      <4>2. Beats(score, k, k)
        BY DEF Beats
      <4> HIDE DEF V
      <4> QED BY <4>1, <4>2
    <3>4. CASE V(k - 1) # {}
      <4>1. PICK i \in V(k - 1) : \A j \in V(k - 1) : Beats(score, i, j)
        BY <1>2, <3>4
      <4> HIDE DEF V
      <4>2. CASE score[k] > score[i]
        <5>1. \A j \in V(k) : Beats(score, k, j)
          BY <3>1, <3>2, <4>1, <4>2 DEF Beats
        <5> QED BY <3>1, <5>1
      <4>3. CASE ~(score[k] > score[i])
        <5>1. \A j \in V(k) : Beats(score, i, j)
          BY <3>1, <3>2, <4>1, <4>3 DEF Beats
        <5> QED BY <3>1, <5>1
      <4> QED BY <4>2, <4>3
    <3> QED BY <3>3, <3>4
  <2> QED BY <2>1, <2>2
<1>3. n \in P
  <2>1. n \in 0 .. n
    OBVIOUS
  <2> HIDE DEF P
  <2> QED BY <1>1, <1>2, <2>1, UpTo
<1>4. V(n) = U
  OBVIOUS
<1> QED BY <1>3, <1>4

LEMMA BestIs ==
  ASSUME NEW text, NEW candidates, IsSeq(candidates), NEW cites, NEW label \in LabelType,
         Suited(label, candidates, cites, text) # {}
  PROVE  Best(label, candidates, cites, text) \in DOMAIN candidates
<1> DEFINE U == Suited(label, candidates, cites, text)
           n == Len(candidates)
           score == [i \in U |-> Score(label, candidates[i], text)]
<1>1. n \in Nat /\ DOMAIN candidates = 1 .. n
  BY DEF IsSeq
<1>2. U \subseteq DOMAIN candidates
  BY DEF Suited
<1> HIDE DEF U
<1>3. score \in [U -> Int] /\ \A i \in U : score[i] = Score(label, candidates[i], text)
  BY ScoreIs
<1> HIDE DEF score
<1>4. PICK b \in U : \A j \in U : Beats(score, b, j)
  <2>1. U # {} /\ U \in SUBSET (1 .. n)
    BY <1>1, <1>2 DEF U
  <2> HIDE DEF n
  <2> QED BY <1>1, <1>3, <2>1, SomeBest
<1> DEFINE B(i) == \A j \in U : LET si == Score(label, candidates[i], text)
                                    sj == Score(label, candidates[j], text)
                                IN  si > sj \/ (si = sj /\ i <= j)
<1>5. B(b)
  BY <1>3, <1>4 DEF Beats
<1>6. Best(label, candidates, cites, text) = CHOOSE i \in U : B(i)
  BY DEF Best, U
<1> HIDE DEF B
<1>7. (CHOOSE i \in U : B(i)) \in U
  BY <1>5
<1> QED BY <1>2, <1>6, <1>7

\* What a citation of one of these artifacts may be.
LabelNames(C) == {C[i].source : i \in DOMAIN C} \cup STRING
CiteSet(C) ==
  [artifact : {C[i].id : i \in DOMAIN C}, label : LabelNames(C), names : {C[i].names : i \in DOMAIN C}]

LEMMA CiteIs ==
  ASSUME NEW C, NEW cites \in Seq(CiteSet(C)), NEW i \in DOMAIN C, NEW name \in LabelNames(C)
  PROVE  Cite(cites, C[i], name) \in Seq(CiteSet(C))
<1> DEFINE cite == [artifact |-> C[i].id, label |-> name, names |-> C[i].names]
<1>1. cite \in CiteSet(C)
  BY DEF CiteSet
<1>2. Cite(cites, C[i], name) = cites \/ Cite(cites, C[i], name) = Append(cites, cite)
  BY DEF Cite
<1> HIDE DEF cite
<1>3. Append(cites, cite) \in Seq(CiteSet(C))
  BY <1>1
<1> QED BY <1>2, <1>3

LEMMA BindIs ==
  ASSUME NEW text, NEW C, IsSeq(C), NEW cites \in Seq(CiteSet(C)), NEW label \in LabelType
  PROVE  Bind(text, C, cites, label) \in Seq(CiteSet(C))
<1>1. CASE Suited(label, C, cites, text) = {}
  BY <1>1 DEF Bind
<1>2. CASE Suited(label, C, cites, text) # {}
  <2>1. Best(label, C, cites, text) \in DOMAIN C
    BY <1>2, BestIs
  <2>2. label.name \in LabelNames(C)
    BY DEF LabelType, LabelNames
  <2>3. Bind(text, C, cites, label) = Cite(cites, C[Best(label, C, cites, text)], label.name)
    BY <1>2 DEF Bind
  <2> QED BY <2>1, <2>2, <2>3, CiteIs
<1> QED BY <1>1, <1>2

LEMMA NoticeIs ==
  ASSUME NEW text, NEW C, NEW cites \in Seq(CiteSet(C)), NEW i \in DOMAIN C
  PROVE  Notice(text, cites, C[i]) \in Seq(CiteSet(C))
<1>1. C[i].source \in LabelNames(C)
  BY DEF LabelNames
<1>2. Cite(cites, C[i], C[i].source) \in Seq(CiteSet(C))
  BY <1>1, CiteIs
<1> QED BY <1>2 DEF Notice

Bounds(f, text, labels, C) ==
  f = [n \in 0 .. Len(labels) |-> IF n = 0 THEN <<>> ELSE Bind(text, C, f[n - 1], labels[n])]

LEMMA BoundsExist ==
  ASSUME NEW text, NEW labels \in Seq(LabelType), NEW C, IsSeq(C)
  PROVE  \E f : Bounds(f, text, labels, C)
<1> DEFINE last == Len(labels)
           V    == Seq(CiteSet(C))
           step == [x \in (1 .. last) \X V |-> Bind(text, C, x[2], labels[x[1]])]
<1>1. last \in Nat /\ DOMAIN labels = 1 .. last
  OBVIOUS
<1> HIDE DEF last
<1>2. \A n \in 1 .. last, v \in V : Bind(text, C, v, labels[n]) \in V
  BY <1>1, BindIs
<1> HIDE DEF V
<1>3. step \in [(1 .. last) \X V -> V]
  BY <1>2
<1>4. \A n \in 1 .. last, v \in V : step[<<n, v>>] = Bind(text, C, v, labels[n])
  OBVIOUS
<1>5. <<>> \in V
  BY DEF V
<1> HIDE DEF step
<1>6. PICK f : Iterates(f, last, V, <<>>, step)
  BY <1>1, <1>3, <1>5, Iteration
<1>7. /\ f \in [0 .. last -> V] /\ f[0] = <<>>
      /\ \A n \in 1 .. last : f[n] = step[<<n, f[n - 1]>>]
  BY <1>6, Zenon DEF Iterates
<1>8. ASSUME NEW n \in 1 .. last
      PROVE  f[n] = Bind(text, C, f[n - 1], labels[n])
  <2>1. n - 1 \in 0 .. last
    BY <1>1
  <2>2. f[n - 1] \in V
    BY <1>7, <2>1
  <2> QED BY <1>4, <1>7, <2>2
<1>9. \A n \in 0 .. last : n = 0 \/ (n \in 1 .. last /\ n # 0)
  BY <1>1
<1>10. Bounds(f, text, labels, C)
  BY <1>7, <1>8, <1>9 DEF Bounds, last
<1> QED BY <1>10

LEMMA BoundIs ==
  ASSUME NEW text, NEW labels \in Seq(LabelType), NEW C, IsSeq(C)
  PROVE  Bound(text, labels, C) \in Seq(CiteSet(C))
<1> DEFINE last == Len(labels)
           V    == Seq(CiteSet(C))
           f    == CHOOSE f : Bounds(f, text, labels, C)
           P    == {n \in 0 .. last : f[n] \in V}
<1>1. Bounds(f, text, labels, C)
  BY BoundsExist
<1>2. Bound(text, labels, C) = f[last]
  BY DEF Bound, Bounds
<1> HIDE DEF f
<1>3. last \in Nat /\ DOMAIN labels = 1 .. last
  OBVIOUS
<1>4. \A n \in 0 .. last : f[n] = IF n = 0 THEN <<>> ELSE Bind(text, C, f[n - 1], labels[n])
  BY <1>1 DEF Bounds
<1> HIDE DEF last
<1>5. 0 \in P
  <2>1. 0 \in 0 .. last /\ <<>> \in V
    BY <1>3
  <2>2. f[0] = <<>>
    BY <1>4, <2>1, Zenon
  <2> QED BY <2>1, <2>2
<1>6. ASSUME NEW n \in 1 .. last, n - 1 \in P
      PROVE  n \in P
  <2>1. n \in 0 .. last /\ n # 0 /\ f[n - 1] \in V
    BY <1>3, <1>6
  <2>2. f[n] = Bind(text, C, f[n - 1], labels[n])
    BY <1>4, <2>1, Zenon
  <2>3. f[n] \in V
    BY <1>3, <2>1, <2>2, BindIs
  <2> QED BY <2>1, <2>3
<1>7. last \in P
  <2>1. last \in 0 .. last
    BY <1>3
  <2> HIDE DEF P
  <2> QED BY <1>3, <1>5, <1>6, <2>1, UpTo
<1> QED BY <1>2, <1>7

Noticeds(f, text, C) ==
  f = [n \in 0 .. Len(C) |-> IF n = 0 THEN <<>> ELSE Notice(text, f[n - 1], C[n])]

LEMMA NoticedsExist ==
  ASSUME NEW text, NEW C, IsSeq(C)
  PROVE  \E f : Noticeds(f, text, C)
<1> DEFINE last == Len(C)
           V    == Seq(CiteSet(C))
           step == [x \in (1 .. last) \X V |-> Notice(text, x[2], C[x[1]])]
<1>1. last \in Nat /\ DOMAIN C = 1 .. last
  BY DEF IsSeq
<1> HIDE DEF last
<1>2. \A n \in 1 .. last, v \in V : Notice(text, v, C[n]) \in V
  BY <1>1, NoticeIs
<1> HIDE DEF V
<1>3. step \in [(1 .. last) \X V -> V]
  BY <1>2
<1>4. \A n \in 1 .. last, v \in V : step[<<n, v>>] = Notice(text, v, C[n])
  OBVIOUS
<1>5. <<>> \in V
  BY DEF V
<1> HIDE DEF step
<1>6. PICK f : Iterates(f, last, V, <<>>, step)
  BY <1>1, <1>3, <1>5, Iteration
<1>7. /\ f \in [0 .. last -> V] /\ f[0] = <<>>
      /\ \A n \in 1 .. last : f[n] = step[<<n, f[n - 1]>>]
  BY <1>6, Zenon DEF Iterates
<1>8. ASSUME NEW n \in 1 .. last
      PROVE  f[n] = Notice(text, f[n - 1], C[n])
  <2>1. n - 1 \in 0 .. last
    BY <1>1
  <2>2. f[n - 1] \in V
    BY <1>7, <2>1
  <2> QED BY <1>4, <1>7, <2>2
<1>9. \A n \in 0 .. last : n = 0 \/ (n \in 1 .. last /\ n # 0)
  BY <1>1
<1>10. Noticeds(f, text, C)
  BY <1>7, <1>8, <1>9 DEF Noticeds, last
<1> QED BY <1>10

LEMMA NoticedIs ==
  ASSUME NEW text, NEW C, IsSeq(C)
  PROVE  Noticed(text, C) \in Seq(CiteSet(C))
<1> DEFINE last == Len(C)
           V    == Seq(CiteSet(C))
           f    == CHOOSE f : Noticeds(f, text, C)
           P    == {n \in 0 .. last : f[n] \in V}
<1>1. Noticeds(f, text, C)
  BY NoticedsExist
<1>2. Noticed(text, C) = f[last]
  BY DEF Noticed, Noticeds
<1> HIDE DEF f
<1>3. last \in Nat /\ DOMAIN C = 1 .. last
  BY DEF IsSeq
<1>4. \A n \in 0 .. last : f[n] = IF n = 0 THEN <<>> ELSE Notice(text, f[n - 1], C[n])
  BY <1>1 DEF Noticeds
<1> HIDE DEF last
<1>5. 0 \in P
  <2>1. 0 \in 0 .. last /\ <<>> \in V
    BY <1>3
  <2>2. f[0] = <<>>
    BY <1>4, <2>1, Zenon
  <2> QED BY <2>1, <2>2
<1>6. ASSUME NEW n \in 1 .. last, n - 1 \in P
      PROVE  n \in P
  <2>1. n \in 0 .. last /\ n # 0 /\ f[n - 1] \in V
    BY <1>3, <1>6
  <2>2. f[n] = Notice(text, f[n - 1], C[n])
    BY <1>4, <2>1, Zenon
  <2>3. f[n] \in V
    BY <1>3, <2>1, <2>2, NoticeIs
  <2> QED BY <2>1, <2>3
<1>7. last \in P
  <2>1. last \in 0 .. last
    BY <1>3
  <2> HIDE DEF P
  <2> QED BY <1>3, <1>5, <1>6, <2>1, UpTo
<1> QED BY <1>2, <1>7

LEMMA VerifiedIs ==
  ASSUME NEW text \in TextType, NEW C, IsSeq(C)
  PROVE  Verified(text, C) \in Seq(CiteSet(C))
<1>1. Bound(text, Labels(text), C) \in Seq(CiteSet(C))
  BY LabelsAre, BoundIs
<1>2. Noticed(text, C) \in Seq(CiteSet(C))
  BY NoticedIs
<1> QED BY <1>1, <1>2 DEF Verified

\* What is placed are the citations, in their order.
LEMMA PlacedIs ==
  ASSUME NEW text, NEW cites, IsSeq(cites), NEW home
  PROVE  /\ IsSeq(Placed(text, cites, home)) /\ DOMAIN Placed(text, cites, home) = DOMAIN cites
         /\ \A i \in DOMAIN cites : Placed(text, cites, home)[i].artifact = cites[i].artifact
<1> DEFINE p == Placed(text, cites, home)
<1>1. DOMAIN p = DOMAIN cites /\ p = [i \in DOMAIN p |-> p[i]]
      /\ \A i \in DOMAIN cites : p[i].artifact = cites[i].artifact
  BY DEF Placed
<1> HIDE DEF p
<1>2. IsSeq(p)
  BY <1>1, MappedSeq
<1> QED BY <1>1, <1>2 DEF p

\* The links of an annotated answer are those of its citations.
LEMMA MarkersAre ==
  ASSUME NEW text \in TextType, NEW cites, NEW m \in Markers(Annotated(text, cites))
  PROVE  \E i \in DOMAIN cites : m.citation = i /\ m.artifact = cites[i].artifact
<1> DEFINE made(b) == IF ~text[b].prose THEN {}
                      ELSE {[citation |-> i, artifact |-> cites[i].artifact] :
                              i \in {j \in DOMAIN cites : cites[j].block = b}}
           new(b)  == [text[b] EXCEPT !.labels = <<>>, !.markers = made(b)]
<1>1. Annotated(text, cites) = [b \in DOMAIN text |-> new(b)]
  BY DEF Annotated
<1>2. \A b \in DOMAIN text : "markers" \in DOMAIN text[b]
  <2> DEFINE B == [prose : BOOLEAN, fenced : BOOLEAN, names : SUBSET STRING,
                   labels : Seq(LabelType), markers : {{}}]
  <2>1. text \in Seq(B)
    BY DEF TextType
  <2>2. \A block \in B : "markers" \in DOMAIN block
    OBVIOUS
  <2> HIDE DEF B
  <2>3. \A b \in DOMAIN text : text[b] \in B
    BY <2>1
  <2> QED BY <2>2, <2>3
<1> HIDE DEF made
<1>3. \A b \in DOMAIN text : new(b).markers = made(b)
  BY <1>2
<1> HIDE DEF new
<1>4. PICK b \in DOMAIN text : m \in made(b)
  BY <1>1, <1>3 DEF Markers
<1> QED BY <1>4 DEF made

-----------------------------------------------------------------------------
(* What holds of the answer's links. The answer and its citations are fixed   *)
(* before the first of them is told; the citations told are those before      *)
(* loop.told, and what each one cites is in the log before any of them.       *)

IsFinal(e) == e.type = "answer.final"
NoFinal(l) == \A i \in DOMAIN l : ~IsFinal(l[i])
\* That artifact was recorded before event f; that citation was recorded.
ShownBefore(l, f, id) == \E k \in DOMAIN l : k < f /\ Shows(l[k], id)
CitedIn(l, n, id) ==
  \E k \in DOMAIN l : l[k].type = "citation.created" /\ l[k].citation = n /\ l[k].artifact = id

\* What is known of the loop's answer, of the texts on their way to it, of the
\* answer's events, and of the citations'.
AnswerOK(L, t) ==
  /\ L.told \in Nat /\ IsSeq(L.cites) /\ L.answer \in TextType
  /\ L.at \in {"none", "running"} => L.told = 0 /\ L.cites = <<>>
  /\ t.at \in {"none", "created"} => L.told = 0 /\ L.cites = <<>>
TextsOK(q) == \A i \in DOMAIN q : q[i].message.text \in TextType
FinalsOK(L, l) ==
  /\ L.told = 0 => NoFinal(l)
  /\ \A f \in DOMAIN l : IsFinal(l[f]) =>
       /\ l[f].text = Annotated(L.answer, L.cites)
       /\ \A i \in DOMAIN L.cites : ShownBefore(l, f, L.cites[i].artifact)
CitesOK(L, l) ==
  /\ \A i \in DOMAIN L.cites : \E k \in DOMAIN l : Shows(l[k], L.cites[i].artifact)
  /\ \A n \in DOMAIN L.cites : n < L.told => CitedIn(l, n, L.cites[n].artifact)

LinkOK(L, t, q, d, l) ==
  AnswerOK(L, t) /\ TextsOK(q) /\ NoFinal(d) /\ FinalsOK(L, l) /\ CitesOK(L, l)

\* A completed run has told everything.
EndOK(r) == r \in DOMAIN rs /\ rs[r].status = "completed" => loop[r].told > Len(loop[r].cites)

LinkInv ==
  \A r \in Runs : LinkOK(loop[r], turn[r], queue[r], todo[r], log[r]) /\ EndOK(r)

LEMMA LinksGrow ==
  ASSUME NEW L, NEW l, NEW e, IsSeq(l), IsSeq(e), NoFinal(e), FinalsOK(L, l), CitesOK(L, l)
  PROVE  FinalsOK(L, l \o e) /\ CitesOK(L, l \o e)
<1> DEFINE u == l \o e
           n == Len(l)
<1>1. Joins(u, l, e, n)
  BY Concat
<1> HIDE DEF u, n
<1>2. \A i \in DOMAIN l : i \in DOMAIN u /\ u[i] = l[i]
  BY <1>1 DEF Joins
<1>3. \A i \in DOMAIN u : IsFinal(u[i]) => i \in DOMAIN l
  BY <1>1 DEF Joins, NoFinal
<1>4. FinalsOK(L, u)
  BY <1>2, <1>3 DEF FinalsOK, NoFinal, ShownBefore
<1>5. CitesOK(L, u)
  BY <1>2 DEF CitesOK, CitedIn
<1> QED BY <1>4, <1>5 DEF u

LEMMA LinkStep ==
  ASSUME LinkInv, NEW r \in Runs, Local(r),
         LinkOK(loop'[r], turn'[r], queue'[r], todo'[r], log'[r]), EndOK(r)'
  PROVE  LinkInv'
<1>1. Runs' = Runs
  BY DEF Local, Runs
<1>2. \A q \in Runs \ {r} : LinkOK(loop'[q], turn'[q], queue'[q], todo'[q], log'[q]) /\ EndOK(q)'
  BY DEF LinkInv, Local, Same, EndOK
<1> QED BY <1>1, <1>2 DEF LinkInv

LinkFacts(r) ==
  /\ RunFacts(r) /\ IsSeq(log[r]) /\ IsSeq(todo[r]) /\ IsSeq(queue[r]) /\ r \in Runs
  /\ DOMAIN log = Runs /\ DOMAIN turn = Runs /\ DOMAIN queue = Runs /\ DOMAIN todo = Runs
  /\ DOMAIN loop = Runs /\ DOMAIN turn[r] = TurnFields /\ DOMAIN loop[r] = LoopFields
  /\ DOMAIN rs[r] = RunFields
  /\ LinkOK(loop[r], turn[r], queue[r], todo[r], log[r]) /\ EndOK(r)

LEMMA LinkFactsHold ==
  ASSUME AuditInv, LinkInv, NEW r \in DOMAIN rs
  PROVE  LinkFacts(r)
<1>1. RunFacts(r)
  BY FactsHold
<1> QED BY <1>1 DEF LinkFacts, RunFacts, LinkInv, AuditsOK, QueueOK

\* The answer as the loop has it, and what it cites, stay.
SameAnswer(r) ==
  /\ loop'[r].told = loop[r].told /\ loop'[r].cites = loop[r].cites
  /\ loop'[r].answer = loop[r].answer
  /\ loop'[r].at \in {"none", "running"} => loop[r].at \in {"none", "running"}
  /\ turn'[r].at \in {"none", "created"} => turn[r].at \in {"none", "created"}

LEMMA QuietLinks ==
  ASSUME LinkInv, NEW r \in Runs, Local(r), SameAnswer(r), IsSeq(log[r]),
         \/ log'[r] = log[r]
         \/ \E e : IsSeq(e) /\ NoFinal(e) /\ log'[r] = log[r] \o e,
         TextsOK(queue'[r]), NoFinal(todo'[r]), EndOK(r)'
  PROVE  LinkInv'
<1>1. LinkOK(loop[r], turn[r], queue[r], todo[r], log[r])
  BY DEF LinkInv
<1>2. FinalsOK(loop[r], log'[r]) /\ CitesOK(loop[r], log'[r])
  <2>1. FinalsOK(loop[r], log[r]) /\ CitesOK(loop[r], log[r])
    BY <1>1 DEF LinkOK
  <2>2. CASE log'[r] = log[r]
    BY <2>1, <2>2
  <2>3. ASSUME NEW e, IsSeq(e), NoFinal(e), log'[r] = log[r] \o e
        PROVE  FinalsOK(loop[r], log'[r]) /\ CitesOK(loop[r], log'[r])
    BY <2>1, <2>3, LinksGrow
  <2> QED BY <2>2, <2>3
<1>3. FinalsOK(loop'[r], log'[r]) /\ CitesOK(loop'[r], log'[r])
  BY <1>2 DEF FinalsOK, CitesOK, SameAnswer
<1>4. AnswerOK(loop'[r], turn'[r])
  BY <1>1 DEF LinkOK, AnswerOK, SameAnswer
<1>5. LinkOK(loop'[r], turn'[r], queue'[r], todo'[r], log'[r])
  BY <1>3, <1>4 DEF LinkOK
<1> QED BY <1>5, LinkStep

LEMMA NoFinalEvent ==
  ASSUME NEW e, ~IsFinal(e)
  PROVE  IsSeq(<<e>>) /\ NoFinal(<<e>>)
  BY OneEvent DEF NoFinal

LEMMA NoTexts == NoFinal(<<>>) /\ TextsOK(<<>>) /\ NoText \in TextType
<1>1. NoFinal(<<>>) /\ TextsOK(<<>>)
  BY DEF NoFinal, TextsOK
<1>2. NoText \in TextType
  BY DEF NoText, TextType
<1> QED BY <1>1, <1>2

\* A live run has not completed.
LEMMA LiveEnd ==
  ASSUME NEW r, Live(r), rs' = rs
  PROVE  EndOK(r)'
  BY DEF EndOK, Live

LEMMA TextsAdd ==
  ASSUME NEW q, IsSeq(q), TextsOK(q), NEW e, e.message.text \in TextType
  PROVE  TextsOK(Append(q, e))
<1>1. Joins(Append(q, e), q, <<e>>, Len(q)) /\ DOMAIN <<e>> = {1} /\ <<e>>[1] = e
  BY AppendJoins, OneEvent
<1> DEFINE u == Append(q, e)
           n == Len(q)
<1> HIDE DEF u, n
<1>2. Joins(u, q, <<e>>, n)
  BY <1>1 DEF u, n
<1>3. TextsOK(u)
  BY <1>1, <1>2 DEF Joins, TextsOK
<1> QED BY <1>3 DEF u

LEMMA AskLinks ==
  ASSUME AuditInv, LinkInv, NEW r \in DOMAIN rs, AskModel(r)
  PROVE  LinkInv'
<1>1. LinkFacts(r)
  BY LinkFactsHold
<1>2. Local(r)
  BY AskAudits
<1> DEFINE request == Warned(turn[r].messages)
           event   == [type |-> "completion.request", messages |-> request]
           e       == <<event>>
<1>3. log' = Appended(r, e) /\ UNCHANGED <<rs, queue, todo, loop>> /\ Live(r)
      /\ turn' = [turn EXCEPT ![r].at = "asked", ![r].messages = request, ![r].asked = @ + 1]
  BY Zenon DEF AskModel
<1>4. IsSeq(e) /\ NoFinal(e)
  BY NoFinalEvent DEF IsFinal
<1> HIDE DEF e, request
<1>5. turn'[r].at = "asked" /\ log'[r] = log[r] \o e
  BY <1>1, <1>3 DEF LinkFacts, TurnFields, Appended
<1>6. SameAnswer(r) /\ TextsOK(queue'[r]) /\ NoFinal(todo'[r]) /\ r \in Runs /\ IsSeq(log[r])
  BY <1>1, <1>3, <1>5 DEF SameAnswer, LinkFacts, LinkOK
<1>7. EndOK(r)'
  BY <1>3, LiveEnd
<1> QED BY <1>2, <1>4, <1>5, <1>6, <1>7, QuietLinks

\* The goroutine says something, or has its results.
LEMMA SaysLinks ==
  ASSUME AuditInv, LinkInv, NEW r \in DOMAIN rs, Local(r), UNCHANGED <<rs, log, todo, loop>>,
         turn'[r].at \notin {"none", "created"},
         \/ queue'[r] = queue[r]
         \/ \E e : e.message.text \in TextType /\ queue'[r] = Append(queue[r], e)
  PROVE  LinkInv'
<1>1. LinkFacts(r)
  BY LinkFactsHold
<1>2. TextsOK(queue[r]) /\ NoFinal(todo'[r]) /\ IsSeq(queue[r]) /\ r \in Runs /\ IsSeq(log[r])
      /\ EndOK(r)
  BY <1>1 DEF LinkFacts, LinkOK
<1>3. TextsOK(queue'[r])
  <2>1. ASSUME NEW e, e.message.text \in TextType, queue'[r] = Append(queue[r], e)
        PROVE  TextsOK(queue'[r])
    BY <1>2, <2>1, TextsAdd
  <2> QED BY <1>2, <2>1
<1>4. SameAnswer(r)
  BY DEF SameAnswer
<1>5. EndOK(r)' /\ log'[r] = log[r]
  BY <1>2 DEF EndOK
<1> QED BY <1>2, <1>3, <1>4, <1>5, QuietLinks

LEMMA Queued ==
  ASSUME NEW r, LinkFacts(r), NEW m, NEW output, Tell(r, m, output), m.text \in TextType
  PROVE  \E e : e.message.text \in TextType /\ queue'[r] = Append(queue[r], e)
<1> DEFINE e == [message |-> m, output |-> output]
<1>1. queue'[r] = Append(queue[r], e)
  BY DEF Tell, LinkFacts
<1>2. e.message = m
  OBVIOUS
<1> HIDE DEF e
<1> QED BY <1>1, <1>2

LEMMA RepliesLink ==
  ASSUME AuditInv, LinkInv, NEW r \in DOMAIN rs, ModelReplies(r)
  PROVE  LinkInv'
<1>1. LinkFacts(r) /\ DOMAIN turn = Runs /\ DOMAIN turn[r] = TurnFields /\ r \in Runs
  BY LinkFactsHold DEF LinkFacts
<1>2. Local(r)
  BY ModelRepliesAudits
<1>3. PICK reply \in scenario.replies :
        LET calls == FreshIds(Len(reply.tools))
            m     == [Answered(r, reply.text) EXCEPT !.calls = calls, !.tools = reply.tools]
        IN  /\ ToSet(calls) \subseteq Calls
            /\ Tell(r, m, NoOutput)
            /\ turn' = [turn EXCEPT
                 ![r].at = IF calls = <<>> THEN "over" ELSE "calling",
                 ![r].messages = Append(@, m),
                 ![r].reply = m,
                 ![r].calls = @ \cup ToSet(calls),
                 ![r].results = <<>>]
  BY Zenon DEF ModelReplies
<1> DEFINE ids  == FreshIds(Len(reply.tools))
           m    == [Answered(r, reply.text) EXCEPT !.calls = ids, !.tools = reply.tools]
           made == ToSet(ids)
           at   == IF ids = <<>> THEN "over" ELSE "calling"
<1>4. /\ Tell(r, m, NoOutput)
      /\ turn' = [turn EXCEPT ![r].at = at, ![r].messages = Append(@, m), ![r].reply = m,
                              ![r].calls = @ \cup made, ![r].results = <<>>]
  BY <1>3
<1>5. m.text \in TextType
  <2>1. reply.text \in TextType
    BY TurnAssumption DEF AuditInv, Tables
  <2>2. m.text = reply.text
    BY DEF Answered, Said
  <2> QED BY <2>1, <2>2
<1>6. at \in {"over", "calling"}
  OBVIOUS
<1> HIDE DEF ids, m, made, at
<1>7. turn'[r].at = at
  BY <1>1, <1>4 DEF TurnFields
<1>8. UNCHANGED <<rs, log, todo, loop>>
  BY DEF ModelReplies
<1>9. \E e : e.message.text \in TextType /\ queue'[r] = Append(queue[r], e)
  BY <1>1, <1>4, <1>5, Queued
<1> QED BY <1>2, <1>6, <1>7, <1>8, <1>9, SaysLinks

LEMMA FailuresLink ==
  ASSUME AuditInv, LinkInv, NEW r \in DOMAIN rs,
         AgentFails(r) \/ \E c \in Calls : CondenserFails(r, c)
  PROVE  LinkInv'
<1>1. LinkFacts(r) /\ DOMAIN turn = Runs /\ DOMAIN turn[r] = TurnFields /\ r \in Runs
  BY LinkFactsHold DEF LinkFacts
<1>2. Local(r)
  BY AgentFailsAudits, CondenserFailsAudits
<1>3. turn' = [turn EXCEPT ![r].at = "over"] /\ Tell(r, Error, NoOutput)
      /\ UNCHANGED <<rs, log, todo, loop>>
  BY DEF AgentFails, CondenserFails
<1>4. turn'[r].at = "over"
  BY <1>1, <1>3 DEF TurnFields
<1>5. Error.text \in TextType
  <2>1. Error.text = NoText
    BY DEF Error, Said
  <2> QED BY <2>1, NoTexts
<1>6. \E e : e.message.text \in TextType /\ queue'[r] = Append(queue[r], e)
  BY <1>1, <1>3, <1>5, Queued
<1> QED BY <1>2, <1>3, <1>4, <1>6, SaysLinks

LEMMA ToolReturnsLinks ==
  ASSUME AuditInv, LinkInv, NEW r \in DOMAIN rs, NEW c \in Calls, ToolReturns(r, c)
  PROVE  LinkInv'
<1>1. LinkFacts(r) /\ DOMAIN turn = Runs /\ DOMAIN turn[r] = TurnFields /\ r \in Runs
  BY LinkFactsHold DEF LinkFacts
<1>2. Local(r)
  BY ToolReturnsAudits
<1>3. PICK output :
        LET m == [Said("tool", r) EXCEPT !.call = c, !.size = output.size, !.tool = ToolOf(r, c)]
        IN  /\ Tell(r, m, output)
            /\ turn' = [turn EXCEPT ![r].results =
                 [d \in {c} \cup DOMAIN turn[r].results |->
                    IF d = c THEN m ELSE turn[r].results[d]]]
  BY Zenon DEF ToolReturns
<1> DEFINE m == [Said("tool", r) EXCEPT !.call = c, !.size = output.size, !.tool = ToolOf(r, c)]
           results == [d \in {c} \cup DOMAIN turn[r].results |->
                         IF d = c THEN m ELSE turn[r].results[d]]
<1>4. Tell(r, m, output) /\ turn' = [turn EXCEPT ![r].results = results]
  BY <1>3
<1>5. m.text \in TextType
  <2>1. m.text = NoText
    BY DEF Said
  <2> QED BY <2>1, NoTexts
<1> HIDE DEF m, results
<1>6. turn'[r].at = turn[r].at /\ turn[r].at = "calling"
  BY <1>1, <1>4 DEF TurnFields, ToolReturns, Open
<1>7. UNCHANGED <<rs, log, todo, loop>>
  BY DEF ToolReturns
<1>8. \E e : e.message.text \in TextType /\ queue'[r] = Append(queue[r], e)
  BY <1>1, <1>4, <1>5, Queued
<1> QED BY <1>2, <1>6, <1>7, <1>8, SaysLinks

LEMMA ToolsReturnedLinks ==
  ASSUME AuditInv, LinkInv, NEW r \in DOMAIN rs, ToolsReturned(r)
  PROVE  LinkInv'
<1>1. LinkFacts(r) /\ DOMAIN turn = Runs /\ DOMAIN turn[r] = TurnFields /\ r \in Runs
  BY LinkFactsHold DEF LinkFacts
<1>2. Local(r)
  BY ToolsReturnedAudits
<1>3. PICK M : turn' = [turn EXCEPT ![r].at = "thinking", ![r].messages = M]
  BY Zenon DEF ToolsReturned
<1>4. turn'[r].at = "thinking"
  BY <1>1, <1>3 DEF TurnFields
<1>5. UNCHANGED <<rs, log, queue, todo, loop>>
  BY DEF ToolsReturned
<1> QED BY <1>2, <1>4, <1>5, SaysLinks

LEMMA StartLinks ==
  ASSUME AuditInv, LinkInv, NEW r \in DOMAIN rs, Start(r)
  PROVE  LinkInv'
<1>1. LinkFacts(r) /\ DOMAIN turn = Runs /\ DOMAIN turn[r] = TurnFields /\ DOMAIN log = Runs
      /\ DOMAIN loop = Runs /\ r \in Runs /\ DOMAIN rs[r] = RunFields
  BY LinkFactsHold DEF LinkFacts
<1>2. Local(r)
  BY StartAudits
<1> DEFINE asked == Message(Question(r))
           begun == Event("run.started")
           e1 == IF Streams(r) THEN <<asked>> ELSE <<>>
           e2 == <<begun>>
           e  == e1 \o e2
           K  == {"completion.message", "run.started"}
<1>3. asked.type \in K /\ begun.type \in K
  BY DEF Message, Event
<1>4. log' = Appended(r, e) /\ queue' = queue /\ todo' = todo /\ turn[r].at = "created"
      /\ loop' = [loop EXCEPT ![r] = Loop("running")] /\ rs' = [rs EXCEPT ![r].status = "running"]
  BY DEF Start
<1> HIDE DEF asked, begun, K
<1>5. Typed(e1, K) /\ Typed(e2, K)
  BY <1>3, TypedFew
<1> HIDE DEF e1, e2
<1>6. Typed(e, K)
  BY <1>5, TypedBoth
<1>7. IsSeq(e) /\ NoFinal(e)
  BY <1>6 DEF Typed, NoFinal, IsFinal, K
<1> HIDE DEF e
<1>8. log'[r] = log[r] \o e /\ loop'[r] = Loop("running")
  BY <1>1, <1>4 DEF Appended
<1>9. /\ loop'[r].told = 0 /\ loop'[r].cites = <<>> /\ loop'[r].answer = NoText
  BY <1>8 DEF Loop
<1>10. NoFinal(log[r]) /\ TextsOK(queue[r]) /\ NoFinal(todo[r]) /\ IsSeq(log[r])
  BY <1>1, <1>4 DEF LinkFacts, LinkOK, AnswerOK, FinalsOK
<1>11. FinalsOK(loop'[r], log[r]) /\ CitesOK(loop'[r], log[r])
  <2>1. DOMAIN loop'[r].cites = {}
    BY <1>9
  <2> QED BY <1>9, <1>10, <2>1 DEF FinalsOK, CitesOK, NoFinal
<1>12. FinalsOK(loop'[r], log'[r]) /\ CitesOK(loop'[r], log'[r])
  <2>1. PICK L : L = loop'[r]
    OBVIOUS
  <2>2. PICK l : l = log'[r]
    OBVIOUS
  <2>3. FinalsOK(L, l) /\ CitesOK(L, l)
    BY <1>7, <1>8, <1>10, <1>11, <2>1, <2>2, LinksGrow
  <2> QED BY <2>1, <2>2, <2>3
<1>13. AnswerOK(loop'[r], turn'[r])
  BY <1>9, NoEvents, NoTexts DEF AnswerOK
<1>14. LinkOK(loop'[r], turn'[r], queue'[r], todo'[r], log'[r])
  BY <1>4, <1>10, <1>12, <1>13 DEF LinkOK
<1>15. EndOK(r)'
  <2>1. rs'[r].status = "running"
    BY <1>1, <1>4 DEF RunFields
  <2> QED BY <2>1 DEF EndOK
<1> QED BY <1>1, <1>2, <1>14, <1>15, LinkStep

LEMMA RecordLinks ==
  ASSUME AuditInv, LinkInv, NEW r \in DOMAIN rs, Record(r)
  PROVE  LinkInv'
<1>1. LinkFacts(r) /\ QueueOK(queue[r])
  BY LinkFactsHold DEF LinkFacts, RunFacts
<1>2. Local(r)
  BY RecordAudits
<1> DEFINE q      == queue[r]
           head   == Head(q)
           m      == head.message
           rest   == Tail(q)
           answer == IF m.role = "assistant" /\ m.text # NoText THEN m.text ELSE loop[r].answer
<1>3. /\ loop[r].at = "running" /\ q # <<>> /\ Live(r) /\ UNCHANGED <<rs, log, turn>>
      /\ queue'[r] = rest
      /\ todo'[r] = IF m.role = "tool" THEN ToolEvents(r, m, head.output) ELSE AssistantEvents(r, m)
  BY <1>1, Zenon DEF Record, LinkFacts
<1>4. PICK drafts : loop' = [loop EXCEPT ![r].answer = IF m.role = "assistant" /\ m.text # NoText
                                                       THEN m.text ELSE @,
                                         ![r].drafts = drafts]
  BY Zenon DEF Record
<1>5. loop'[r].at = "running" /\ loop'[r].told = loop[r].told /\ loop'[r].cites = loop[r].cites
      /\ loop'[r].answer = answer
  BY <1>1, <1>3, <1>4 DEF LinkFacts, LoopFields
<1>6. LinkOK(loop[r], turn[r], q, todo[r], log[r])
  BY <1>1 DEF LinkFacts
<1>7. AnswerOK(loop[r], turn[r]) /\ TextsOK(q) /\ FinalsOK(loop[r], log[r])
  BY <1>6 DEF LinkOK
<1>8. loop[r].told = 0 /\ loop[r].cites = <<>> /\ loop[r].answer \in TextType /\ NoFinal(log[r])
  BY <1>3, <1>7 DEF AnswerOK, FinalsOK
<1>9. IsSeq(m.calls) /\ m = q[1].message /\ 1 \in DOMAIN q
      /\ \A i \in DOMAIN rest : i + 1 \in DOMAIN q /\ rest[i] = q[i + 1]
  BY <1>1, <1>3, QueueSplit, Split DEF QueueOK
<1>10. m.text \in TextType /\ TextsOK(rest)
  <2> HIDE DEF q, rest, m
  <2> QED BY <1>7, <1>9 DEF TextsOK
<1>11. answer \in TextType
  BY <1>8, <1>10
<1> HIDE DEF q, rest, head, m, answer
<1>12. NoFinal(todo'[r])
  BY <1>3, <1>9, ToolEventsTyped, AssistantEventsTyped
     DEF Typed, ToolTypes, AssistantTypes, NoFinal, IsFinal
<1>13. AnswerOK(loop'[r], turn'[r])
  BY <1>3, <1>5, <1>7, <1>8, <1>11 DEF AnswerOK
<1>14. FinalsOK(loop'[r], log'[r]) /\ CitesOK(loop'[r], log'[r])
  <2>1. DOMAIN loop'[r].cites = {}
    BY <1>5, <1>8
  <2> QED BY <1>3, <1>8, <2>1 DEF FinalsOK, CitesOK, NoFinal
<1>15. LinkOK(loop'[r], turn'[r], queue'[r], todo'[r], log'[r])
  BY <1>3, <1>10, <1>12, <1>13, <1>14 DEF LinkOK
<1>16. EndOK(r)'
  BY <1>3, LiveEnd
<1>17. r \in Runs
  BY <1>1 DEF LinkFacts
<1> QED BY <1>2, <1>15, <1>16, <1>17, LinkStep

LEMMA AppendLinks ==
  ASSUME AuditInv, LinkInv, NEW r \in DOMAIN rs, Append1(r)
  PROVE  LinkInv'
<1>1. LinkFacts(r)
  BY LinkFactsHold
<1>2. Local(r)
  BY AppendAudits
<1> DEFINE d == todo[r]
           h == <<Head(d)>>
<1>3. UNCHANGED <<rs, turn, queue, loop>> /\ Live(r) /\ d # <<>>
      /\ log'[r] = log[r] \o h /\ todo'[r] = Tail(d)
  BY <1>1 DEF Append1, Appended, LinkFacts
<1>4. NoFinal(d) /\ TextsOK(queue[r]) /\ IsSeq(log[r]) /\ IsSeq(d) /\ r \in Runs
  BY <1>1 DEF LinkFacts, LinkOK
<1>5. /\ Head(d) = d[1] /\ 1 \in DOMAIN d
      /\ \A i \in DOMAIN Tail(d) : i + 1 \in DOMAIN d /\ Tail(d)[i] = d[i + 1]
  BY <1>3, <1>4, Split
<1>6. NoFinal(Tail(d)) /\ ~IsFinal(Head(d))
  BY <1>4, <1>5 DEF NoFinal
<1>7. IsSeq(h) /\ NoFinal(h)
  BY <1>6, NoFinalEvent
<1> HIDE DEF h, d
<1>8. SameAnswer(r) /\ EndOK(r)'
  BY <1>3, LiveEnd DEF SameAnswer
<1> QED BY <1>2, <1>3, <1>4, <1>6, <1>7, <1>8, QuietLinks

LEMMA CompleteLinks ==
  ASSUME AuditInv, LinkInv, NEW r \in DOMAIN rs, Complete(r)
  PROVE  LinkInv'
<1>1. LinkFacts(r)
  BY LinkFactsHold
<1>2. Local(r)
  BY CompleteAudits
<1> DEFINE text == loop[r].answer
           C    == Candidates(log[r])
           V    == Verified(text, C)
<1>3. /\ loop[r].at = "running" /\ turn[r].at = "over" /\ Live(r)
      /\ UNCHANGED <<rs, log, turn, queue, todo>>
  BY DEF Complete, Drained
<1>4. LinkOK(loop[r], turn[r], queue[r], todo[r], log[r]) /\ IsSeq(log[r]) /\ r \in Runs
      /\ DOMAIN loop = Runs /\ DOMAIN loop[r] = LoopFields
  BY <1>1 DEF LinkFacts
<1>5. AnswerOK(loop[r], turn[r]) /\ TextsOK(queue[r]) /\ NoFinal(todo[r])
      /\ FinalsOK(loop[r], log[r])
  BY <1>4 DEF LinkOK
<1>6. loop[r].told = 0 /\ loop[r].cites = <<>> /\ text \in TextType /\ NoFinal(log[r])
  BY <1>3, <1>5 DEF AnswerOK, FinalsOK
<1>7. EndOK(r)'
  BY <1>3, LiveEnd
<1>8. PICK told, cites :
        /\ loop'[r].at = "completing" /\ loop'[r].answer = text
        /\ loop'[r].told = told /\ loop'[r].cites = cites
        /\ told \in {0, 1} /\ IsSeq(cites)
        /\ \A i \in DOMAIN cites : \E k \in DOMAIN log[r] : Shows(log[r][k], cites[i].artifact)
        /\ told = 1 => cites = <<>>
  <2>1. CASE text = NoText
    <3>1. loop' = [loop EXCEPT ![r].at = "completing", ![r].told = 1]
      BY <2>1 DEF Complete
    <3>2. loop'[r].at = "completing" /\ loop'[r].answer = text /\ loop'[r].told = 1
          /\ loop'[r].cites = <<>>
      BY <1>4, <1>6, <3>1 DEF LoopFields
    <3>3. IsSeq(<<>>) /\ DOMAIN <<>> = {}
      BY NoEvents
    <3> QED BY <3>2, <3>3
  <2>2. CASE text # NoText
    <3>1. PICK home : loop' = [loop EXCEPT ![r].at = "completing", ![r].cites = Placed(text, V, home)]
      BY <2>2, Zenon DEF Complete
    <3> DEFINE P == Placed(text, V, home)
    <3>2. IsSeq(C) /\ \A i \in DOMAIN C : \E k \in DOMAIN log[r] : Shows(log[r][k], C[i].id)
      BY <1>4, CandidatesAre
    <3>3. V \in Seq(CiteSet(C))
      <4>1. \A t \in TextType : \A D : IsSeq(D) => Verified(t, D) \in Seq(CiteSet(D))
        BY VerifiedIs
      <4> HIDE DEF C, text
      <4> QED BY <1>6, <3>2, <4>1
    <3> HIDE DEF V, C, text
    <3>4. IsSeq(V)
      BY <3>3, Zenon DEF IsSeq
    <3>5. \A i \in DOMAIN V : V[i].artifact \in {C[j].id : j \in DOMAIN C}
      <4>1. \A x \in CiteSet(C) : x.artifact \in {C[j].id : j \in DOMAIN C}
        BY DEF CiteSet
      <4>2. \A i \in DOMAIN V : V[i] \in CiteSet(C)
        BY <3>3
      <4> QED BY <4>1, <4>2
    <3>6. /\ IsSeq(P) /\ DOMAIN P = DOMAIN V
          /\ \A i \in DOMAIN V : P[i].artifact = V[i].artifact
      BY <3>4, PlacedIs
    <3> HIDE DEF P
    <3>7. loop' = [loop EXCEPT ![r].at = "completing", ![r].cites = P]
      BY <3>1 DEF P
    <3>8. loop'[r].at = "completing" /\ loop'[r].answer = loop[r].answer /\ loop'[r].told = 0
          /\ loop'[r].cites = P
      BY <1>4, <1>6, <3>7 DEF LoopFields
    <3>9. \A i \in DOMAIN P : \E k \in DOMAIN log[r] : Shows(log[r][k], P[i].artifact)
      BY <3>2, <3>5, <3>6
    <3> QED BY <3>6, <3>8, <3>9 DEF text
  <2> QED BY <2>1, <2>2
<1> HIDE DEF text, C, V
<1>9. AnswerOK(loop'[r], turn'[r])
  BY <1>3, <1>6, <1>8 DEF AnswerOK
<1>10. FinalsOK(loop'[r], log'[r])
  BY <1>3, <1>6 DEF FinalsOK, NoFinal
<1>11. CitesOK(loop'[r], log'[r])
  <2>1. \A i \in DOMAIN cites : \E k \in DOMAIN log[r] : Shows(log[r][k], cites[i].artifact)
    BY <1>8
  <2>2. \A n \in DOMAIN cites : ~(n < told)
    <3>1. CASE told = 1
      BY <1>8, <3>1
    <3>2. CASE told = 0
      <4>1. PICK S : cites \in Seq(S)
        BY <1>8 DEF IsSeq
      <4> QED BY <3>2, <4>1
    <3> QED BY <1>8, <3>1, <3>2
  <2> QED BY <1>3, <1>8, <2>1, <2>2 DEF CitesOK
<1>12. LinkOK(loop'[r], turn'[r], queue'[r], todo'[r], log'[r])
  BY <1>3, <1>5, <1>9, <1>10, <1>11 DEF LinkOK
<1> QED BY <1>2, <1>4, <1>7, <1>12, LinkStep

LEMMA TellAnswerLinks ==
  ASSUME AuditInv, LinkInv, NEW r \in DOMAIN rs, TellAnswer(r)
  PROVE  LinkInv'
<1>1. LinkFacts(r)
  BY LinkFactsHold
<1>2. Local(r)
  BY TellAnswerAudits
<1> DEFINE L     == loop[r]
           l     == log[r]
           told  == L.told
           event == AnswerEvent(L.answer, L.cites, told)
           e     == <<event>>
           u     == log'[r]
           n     == Len(l)
<1>3. /\ L.at = "completing" /\ told <= Len(L.cites) /\ Live(r)
      /\ UNCHANGED <<rs, turn, queue, todo>>
      /\ u = l \o e /\ loop' = [loop EXCEPT ![r].told = @ + 1]
  BY <1>1 DEF TellAnswer, Appended, LinkFacts
<1>4. /\ LinkOK(L, turn[r], queue[r], todo[r], l) /\ IsSeq(l) /\ r \in Runs
      /\ DOMAIN loop = Runs /\ DOMAIN loop[r] = LoopFields /\ turn[r].at = "over"
  BY <1>1, <1>3 DEF LinkFacts, RunFacts, RunOK
<1>5. AnswerOK(L, turn[r]) /\ TextsOK(queue[r]) /\ NoFinal(todo[r]) /\ FinalsOK(L, l) /\ CitesOK(L, l)
  BY <1>4 DEF LinkOK
<1>6. told \in Nat /\ IsSeq(L.cites) /\ L.answer \in TextType
  BY <1>5 DEF AnswerOK
<1>7. /\ loop'[r].at = "completing" /\ loop'[r].told = told + 1 /\ loop'[r].cites = L.cites
      /\ loop'[r].answer = L.answer
  BY <1>3, <1>4 DEF LoopFields
<1>8. EndOK(r)'
  BY <1>3, LiveEnd
<1>9. AnswerOK(loop'[r], turn'[r])
  BY <1>3, <1>4, <1>6, <1>7 DEF AnswerOK
<1>10. DOMAIN e = {1} /\ e[1] = event /\ IsSeq(e)
  BY OneEvent
<1>11. /\ told = 0 => event.type = "answer.final" /\ event.text = Annotated(L.answer, L.cites)
       /\ told # 0 => /\ event.type = "citation.created" /\ event.citation = told
                      /\ event.artifact = L.cites[told].artifact
  BY DEF AnswerEvent, Spoke
<1> HIDE DEF event, e, n
<1>12. /\ IsSeq(u) /\ n \in Nat /\ n + 1 \in DOMAIN u /\ u[n + 1] = event
       /\ \A i \in DOMAIN l : i \in DOMAIN u /\ u[i] = l[i] /\ i < n + 1
       /\ \A i \in DOMAIN u : i \in DOMAIN l \/ i = n + 1
  <2>1. Joins(l \o e, l, e, n)
    BY <1>4, <1>10, Concat DEF n
  <2>2. Joins(u, l, e, n)
    BY <1>3, <2>1
  <2>3. n \in Nat /\ \A i \in DOMAIN l : i < n + 1
    <3>1. PICK S : l \in Seq(S)
      BY <1>4 DEF IsSeq
    <3> QED BY <3>1 DEF n
  <2> HIDE DEF u, l
  <2> QED BY <1>10, <2>2, <2>3 DEF Joins
<1>13. \A i \in DOMAIN L.cites : \E k \in DOMAIN l : Shows(l[k], L.cites[i].artifact)
  BY <1>5 DEF CitesOK
<1>14. FinalsOK(loop'[r], u)
  <2>1. ~(told + 1 = 0)
    BY <1>6
  <2>2. ASSUME NEW f \in DOMAIN u, IsFinal(u[f])
        PROVE  /\ u[f].text = Annotated(L.answer, L.cites)
               /\ \A i \in DOMAIN L.cites : ShownBefore(u, f, L.cites[i].artifact)
    <3>1. CASE f \in DOMAIN l
      <4>1. l[f].text = Annotated(L.answer, L.cites) /\ u[f] = l[f]
            /\ \A i \in DOMAIN L.cites : ShownBefore(l, f, L.cites[i].artifact)
        BY <1>5, <1>12, <2>2, <3>1 DEF FinalsOK
      <4> HIDE DEF u, l
      <4> QED BY <1>12, <4>1 DEF ShownBefore
    <3>2. CASE f = n + 1
      <4>1. event.type = "answer.final"
        BY <1>12, <2>2, <3>2 DEF IsFinal
      <4>2. told = 0
        BY <1>11, <4>1
      <4>3. u[f].text = Annotated(L.answer, L.cites)
        BY <1>11, <1>12, <3>2, <4>2
      <4> HIDE DEF u, l
      <4>4. \A i \in DOMAIN L.cites : ShownBefore(u, f, L.cites[i].artifact)
        BY <1>12, <1>13, <3>2 DEF ShownBefore
      <4> QED BY <4>3, <4>4
    <3> QED BY <1>12, <3>1, <3>2
  <2> HIDE DEF u
  <2> QED BY <1>7, <2>1, <2>2 DEF FinalsOK
<1>15. CitesOK(loop'[r], u)
  <2>1. \A i \in DOMAIN L.cites : \E k \in DOMAIN u : Shows(u[k], L.cites[i].artifact)
    <3> HIDE DEF u, l
    <3> QED BY <1>12, <1>13
  <2>2. ASSUME NEW i \in DOMAIN L.cites, i < told + 1
        PROVE  CitedIn(u, i, L.cites[i].artifact)
    <3>1. i \in Nat /\ i # 0
      <4>1. PICK S : L.cites \in Seq(S)
        BY <1>6 DEF IsSeq
      <4> QED BY <4>1
    <3>2. CASE i < told
      <4>1. CitedIn(l, i, L.cites[i].artifact)
        BY <1>5, <3>2 DEF CitesOK
      <4> HIDE DEF u, l
      <4> QED BY <1>12, <4>1 DEF CitedIn
    <3>3. CASE i = told
      <4>1. event.type = "citation.created" /\ event.citation = i /\ event.artifact = L.cites[i].artifact
        BY <1>11, <3>1, <3>3
      <4> HIDE DEF u, l
      <4> QED BY <1>12, <4>1 DEF CitedIn
    <3>4. i < told \/ i = told
      <4> HIDE DEF told
      <4> QED BY <1>6, <2>2, <3>1
    <3> QED BY <3>2, <3>3, <3>4
  <2> HIDE DEF u
  <2> QED BY <1>7, <2>1, <2>2 DEF CitesOK
<1>16. LinkOK(loop'[r], turn'[r], queue'[r], todo'[r], log'[r])
  BY <1>3, <1>5, <1>9, <1>14, <1>15 DEF LinkOK
<1> QED BY <1>2, <1>4, <1>8, <1>16, LinkStep

\* The loop of a run ends, or another ends the run.
LEMMA EndsLinks ==
  ASSUME AuditInv, LinkInv, NEW r \in DOMAIN rs, Completed(r) \/ Fail(r) \/ Cancel(r) \/ Stops(r)
  PROVE  LinkInv'
<1>1. LinkFacts(r)
  BY LinkFactsHold
<1>2. Local(r) /\ r \in Runs /\ IsSeq(log[r]) /\ TextsOK(queue[r]) /\ NoFinal(todo[r]) /\ EndOK(r)
  BY <1>1, CompletedAudits, FailAudits, CancelAudits, StopsAudits DEF LinkFacts, LinkOK
<1>3. DOMAIN log = Runs /\ DOMAIN queue = Runs /\ DOMAIN todo = Runs /\ DOMAIN loop = Runs
      /\ DOMAIN loop[r] = LoopFields /\ DOMAIN rs[r] = RunFields
  BY <1>1 DEF LinkFacts
<1>4. TextsOK(<<>>) /\ NoFinal(<<>>)
  BY NoTexts
<1>5. CASE Completed(r) \/ Cancel(r)
  <2>1. PICK type \in {"run.completed", "run.cancelled"} : log' = Appended(r, <<Event(type)>>)
    BY <1>5 DEF Completed, Cancel
  <2> DEFINE e == <<Event(type)>>
  <2>2. IsSeq(e) /\ NoFinal(e)
    <3>1. Event(type).type = type
      BY DEF Event
    <3> QED BY <3>1, NoFinalEvent DEF IsFinal
  <2> HIDE DEF e
  <2>3. log'[r] = log[r] \o e
    BY <1>2, <1>3, <2>1 DEF Appended, e
  <2>4. UNCHANGED <<turn, queue, todo>>
        /\ loop'[r].told = loop[r].told /\ loop'[r].cites = loop[r].cites
        /\ loop'[r].answer = loop[r].answer /\ loop'[r].at \in {"returned", loop[r].at}
    BY <1>2, <1>3, <1>5 DEF Completed, Cancel, LoopFields
  <2>5. SameAnswer(r)
    BY <2>4 DEF SameAnswer
  <2>6. EndOK(r)'
    <3>1. CASE Completed(r)
      <4>1. loop[r].told > Len(loop[r].cites)
        BY <3>1 DEF Completed, MayEnd
      <4> QED BY <2>4, <4>1 DEF EndOK
    <3>2. CASE Cancel(r)
      <4>1. rs'[r].status = "cancelled"
        BY <1>3, <3>2 DEF Cancel, RunFields
      <4> QED BY <4>1 DEF EndOK
    <3> QED BY <1>5, <3>1, <3>2
  <2> QED BY <1>2, <2>2, <2>3, <2>4, <2>5, <2>6, QuietLinks
<1>6. CASE Fail(r)
  <2> DEFINE a == Event("error")
             b == Event("run.failed")
             e == <<a, b>>
             K == {"error", "run.failed"}
  <2>1. a.type \in K /\ b.type \in K
    BY DEF Event
  <2>2. log' = Appended(r, e) /\ queue'[r] = <<>> /\ UNCHANGED <<turn, todo>>
        /\ loop' = [loop EXCEPT ![r].at = "returned"] /\ rs' = [rs EXCEPT ![r].status = "failed"]
    BY <1>2, <1>3, <1>6 DEF Fail
  <2> HIDE DEF a, b
  <2>3. IsSeq(e) /\ NoFinal(e)
    <3>1. e \in Seq({a, b}) /\ DOMAIN e = 1 .. 2 /\ e[1] = a /\ e[2] = b
      OBVIOUS
    <3>2. IsSeq(e)
      BY <3>1, Zenon DEF IsSeq
    <3> HIDE DEF e
    <3> QED BY <2>1, <3>1, <3>2 DEF NoFinal, IsFinal
  <2> HIDE DEF e
  <2>4. log'[r] = log[r] \o e
    BY <1>2, <1>3, <2>2 DEF Appended
  <2>5. SameAnswer(r)
    BY <1>2, <1>3, <2>2 DEF SameAnswer, LoopFields
  <2>6. EndOK(r)'
    <3>1. rs'[r].status = "failed"
      BY <1>3, <2>2 DEF RunFields
    <3> QED BY <3>1 DEF EndOK
  <2> QED BY <1>2, <1>4, <2>2, <2>3, <2>4, <2>5, <2>6, QuietLinks
<1>7. CASE Stops(r)
  <2>1. log' = log /\ queue'[r] = <<>> /\ todo'[r] = <<>> /\ UNCHANGED <<rs, turn>>
        /\ loop' = [loop EXCEPT ![r].at = "returned"]
    BY <1>2, <1>3, <1>7 DEF Stops
  <2>2. loop'[r].told = loop[r].told /\ loop'[r].cites = loop[r].cites
        /\ loop'[r].answer = loop[r].answer /\ loop'[r].at = "returned"
    BY <1>2, <1>3, <2>1 DEF LoopFields
  <2>3. SameAnswer(r) /\ EndOK(r)'
    BY <1>2, <2>1, <2>2 DEF SameAnswer, EndOK
  <2> QED BY <1>2, <1>4, <2>1, <2>3, QuietLinks
<1> QED BY <1>5, <1>6, <1>7

LEMMA CreateLinks ==
  ASSUME AuditInv, LinkInv, NEW retryOf, CreateRun(retryOf)
  PROVE  LinkInv'
<1>1. PICK r, M : Created(r, M)
  BY Creates
<1>2. Local(r) /\ r \in Runs
  BY <1>1, CreatedIsLocal DEF Created
<1>3. LinkOK(loop[r], turn[r], queue[r], todo[r], log[r]) /\ RunOK(r)
  BY <1>2 DEF LinkInv, AuditInv
<1>4. DOMAIN turn = Runs /\ DOMAIN log = Runs /\ DOMAIN turn[r] = TurnFields /\ IsSeq(log[r])
      /\ turn[r].at = "none"
  <2>1. r \notin DOMAIN rs
    BY <1>1 DEF Created
  <2> QED BY <1>3, <2>1 DEF AuditInv, Tables, RunOK, Book, AuditsOK
<1> DEFINE event == Event("run.created")
           e     == <<event>>
<1>5. IsSeq(e) /\ NoFinal(e)
  <2>1. event.type = "run.created"
    BY DEF Event
  <2> QED BY <2>1, NoFinalEvent DEF IsFinal
<1> HIDE DEF event
<1>6. turn'[r].at = "created" /\ log'[r] = log[r] \o e /\ UNCHANGED <<queue, todo, loop>>
      /\ rs'[r].status = "queued"
  BY <1>1, <1>2, <1>4 DEF Created, Appended, TurnFields, event
<1> HIDE DEF e
<1>7. SameAnswer(r)
  BY <1>4, <1>6 DEF SameAnswer
<1>8. TextsOK(queue'[r]) /\ NoFinal(todo'[r])
  BY <1>3, <1>6 DEF LinkOK
<1>9. EndOK(r)'
  BY <1>6 DEF EndOK
<1> QED BY <1>2, <1>4, <1>5, <1>6, <1>7, <1>8, <1>9, QuietLinks

LEMMA InitLinks == Init => LinkInv
<1> SUFFICES ASSUME Init, NEW r \in Runs
             PROVE  LinkOK(loop[r], turn[r], queue[r], todo[r], log[r]) /\ EndOK(r)
  BY DEF LinkInv
<1>1. log[r] = <<>> /\ queue[r] = <<>> /\ todo[r] = <<>> /\ loop[r] = Loop("none") /\ rs = <<>>
  BY DEF Init
<1>2. loop[r].told = 0 /\ loop[r].cites = <<>> /\ loop[r].answer = NoText
  BY <1>1 DEF Loop
<1>3. DOMAIN <<>> = {}
  OBVIOUS
<1>4. AnswerOK(loop[r], turn[r])
  BY <1>2, NoEvents, NoTexts DEF AnswerOK
<1>5. FinalsOK(loop[r], <<>>) /\ CitesOK(loop[r], <<>>)
  BY <1>2, <1>3, NoTexts DEF FinalsOK, CitesOK
<1>6. EndOK(r)
  BY <1>1, <1>3 DEF EndOK
<1> QED BY <1>1, <1>4, <1>5, <1>6, NoTexts DEF LinkOK

LEMMA SameLinks == LinkInv /\ UNCHANGED turnVars => LinkInv'
<1> SUFFICES ASSUME LinkInv, UNCHANGED turnVars PROVE LinkInv'
  OBVIOUS
<1>1. UNCHANGED <<scenario, rs, log, turn, queue, todo, loop>> /\ Runs' = Runs
  BY DEF turnVars, Runs
<1>2. \A r \in Runs : LinkOK(loop'[r], turn'[r], queue'[r], todo'[r], log'[r]) /\ EndOK(r)'
  BY <1>1 DEF LinkInv, EndOK
<1> QED BY <1>1, <1>2 DEF LinkInv

LEMMA NextLinks == AuditInv /\ LinkInv /\ [Next]_vars => LinkInv'
<1> SUFFICES ASSUME AuditInv, LinkInv, [Next]_vars PROVE LinkInv'
  OBVIOUS
<1>1. ASSUME NEW retryOf, CreateRun(retryOf) PROVE LinkInv'
  BY <1>1, CreateLinks
<1>2. ASSUME NEW r \in DOMAIN rs, Agent(r) PROVE LinkInv'
  <2>1. ASSUME NEW c \in Calls, Script(r, c) PROVE LinkInv'
    BY <2>1, SameLinks DEF Script
  <2> QED BY <1>2, <2>1, StartLinks, AskLinks, RepliesLink, FailuresLink, ToolsReturnedLinks,
             ToolReturnsLinks DEF Agent
<1>3. ASSUME NEW r \in DOMAIN rs, Recorder(r) \/ Cancel(r) PROVE LinkInv'
  BY <1>3, RecordLinks, AppendLinks, CompleteLinks, TellAnswerLinks, EndsLinks DEF Recorder
<1>4. CASE Cleanup
  BY <1>4, SameLinks DEF Cleanup
<1>5. CASE UNCHANGED vars
  BY <1>5, SameLinks DEF vars
<1> QED BY <1>1, <1>2, <1>3, <1>4, <1>5, Zenon DEF Next

LEMMA LinksFollow == AuditInv /\ LinkInv => LinksResolve
<1> SUFFICES ASSUME AuditInv, LinkInv, NEW r \in DOMAIN rs, rs[r].status = "completed",
                    NEW f \in Events(r, "answer.final"), NEW m \in Markers(log[r][f].text)
             PROVE  /\ \E i \in Events(r, "citation.created") :
                         log[r][i].citation = m.citation /\ log[r][i].artifact = m.artifact
                    /\ \E i \in Events(r, "artifact") :
                         i < f /\ log[r][i].artifact.id = m.artifact
  BY DEF LinksResolve
<1> DEFINE L == loop[r]
           l == log[r]
<1>1. LinkOK(L, turn[r], queue[r], todo[r], l) /\ EndOK(r)
  BY LinkFactsHold DEF LinkFacts
<1>2. AnswerOK(L, turn[r]) /\ FinalsOK(L, l) /\ CitesOK(L, l) /\ L.told > Len(L.cites)
  BY <1>1 DEF LinkOK, EndOK
<1>3. f \in DOMAIN l /\ IsFinal(l[f])
  BY DEF Events, IsFinal
<1>4. /\ l[f].text = Annotated(L.answer, L.cites)
      /\ \A i \in DOMAIN L.cites : ShownBefore(l, f, L.cites[i].artifact)
  BY <1>2, <1>3 DEF FinalsOK
<1>5. PICK n \in DOMAIN L.cites : m.citation = n /\ m.artifact = L.cites[n].artifact
  <2>1. L.answer \in TextType /\ m \in Markers(Annotated(L.answer, L.cites))
    BY <1>2, <1>4 DEF AnswerOK
  <2> QED BY <2>1, MarkersAre
<1>6. n < L.told
  <2>1. PICK S : L.cites \in Seq(S)
    BY <1>2 DEF AnswerOK, IsSeq
  <2>2. n \in Nat /\ n <= Len(L.cites) /\ Len(L.cites) \in Nat /\ L.told \in Nat
    BY <1>2, <2>1 DEF AnswerOK
  <2> QED BY <1>2, <2>2
<1>7. CitedIn(l, n, m.artifact) /\ ShownBefore(l, f, m.artifact)
  BY <1>2, <1>4, <1>5, <1>6 DEF CitesOK
<1>8. \E i \in Events(r, "citation.created") :
        log[r][i].citation = m.citation /\ log[r][i].artifact = m.artifact
  BY <1>5, <1>7 DEF CitedIn, Events
<1>9. \E i \in Events(r, "artifact") : i < f /\ log[r][i].artifact.id = m.artifact
  BY <1>7 DEF ShownBefore, Shows, Events
<1> QED BY <1>8, <1>9

\* Every link in the answer of a run that completed leads to a citation that
\* was recorded, of an artifact that was recorded before the answer, whatever
\* the model wrote and the tools returned (answer_citations.go;
\* eino_runner.go, Complete).
THEOREM AnswersCiteTheirEvidence == Spec => []LinksResolve
<1>1. Init => AuditInv /\ LinkInv
  BY InitAudits, InitLinks
<1>2. AuditInv /\ LinkInv /\ [Next]_vars => AuditInv' /\ LinkInv'
  BY NextAudits, NextLinks
<1>3. AuditInv /\ LinkInv => LinksResolve
  BY LinksFollow
<1> QED BY <1>1, <1>2, <1>3, PTL DEF Spec
=============================================================================
