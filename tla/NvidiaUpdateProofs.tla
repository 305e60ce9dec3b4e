------------------------- MODULE NvidiaUpdateProofs -------------------------
(***************************************************************************)
(* Proofs about NvidiaUpdate, for any number of manifests, packages,       *)
(* folders and threads: no file is written before all results are in, at   *)
(* most one package is torn when the script fails, and what is written is  *)
(* the newest of every line with a source that offers it, whatever the     *)
(* order in which the results arrived.  No behaviour takes steps for ever. *)
(***************************************************************************)
EXTENDS NvidiaUpdate, NumberLemmas, FiniteSetTheorems, TLAPS

(* Everything has been taken and audited, and is to be written. *)
Audited ==
    /\ \A m \in Manifests : task[m] = "taken"
    /\ Unmapped = {}
    /\ ~args.auditOnly

(* The result of a future that was taken is not lost. *)
TakenRecorded == \A m \in Manifests : task[m] = "taken" => m \in Taken

(* The files differ from what they were only after the audit. *)
WritingIsAudited ==
    phase = "writing" \/ conandata # OldConandata \/ config # OldConfig =>
        Audited /\ phase \in {"writing", "done", "failed"}

(* A torn package is one that is to be updated, and its turn has come. *)
TornIsUpdating ==
    \A p \in PackageSet :
        config[p] # Listed(p) =>
            at \in DOMAIN Packages /\ p = Packages[at] /\ p \in ToUpdate

NvidiaInv ==
    /\ TypeOK
    /\ TakenRecorded
    /\ WritingIsAudited
    /\ TornIsUpdating
-----------------------------------------------------------------------------
(* The threads that run are a finite set. *)
LEMMA RunningFinite ==
    ASSUME NEW S \in SUBSET Tasks
    PROVE  IsFiniteSet(S) /\ Cardinality(S) \in Nat
<1>1. IsFiniteSet(Tasks)
  BY NvidiaAssumption, FS_Union DEF Tasks
<1> QED
  BY <1>1, FS_Subset, FS_CardinalityType

(* A change of tasks that starts none leaves the pool within its bound. *)
LEMMA FewerRunning ==
    ASSUME Cardinality(Running) <= Workers, Running' \subseteq Running
    PROVE  Cardinality(Running') <= Workers
<1>1. Running \in SUBSET Tasks
  BY DEF Running
<1>2. /\ IsFiniteSet(Running) /\ Cardinality(Running) \in Nat
      /\ Cardinality(Running') \in Nat
  BY <1>1, RunningFinite
<1>3. Cardinality(Running') <= Cardinality(Running)
  BY <1>2, FS_Subset
<1> QED
  BY <1>2, <1>3, NvidiaAssumption

LEMMA InitNvidia == Init => NvidiaInv
<1> SUFFICES ASSUME Init PROVE NvidiaInv
  OBVIOUS
<1> USE DEF Init
<1>1. TypeOK
  <2>1. Running = {}
    BY NvidiaAssumption DEF Running, Tasks
  <2>2. Cardinality(Running) <= Workers
    BY <2>1, FS_EmptySet, NvidiaAssumption
  <2>3. \A p \in PackageSet : \A entry \in config[p] : entry[2] \in Folders[p]
    BY NvidiaAssumption
  <2>4. answer \in [Manifests -> (UNION {Answers[m] : m \in Manifests}) \cup {NoAnswer}]
    OBVIOUS
  <2>5. taken \in Seq(Manifests)
    OBVIOUS
  <2>6. task \in [Tasks -> {"unsubmitted", "waiting", "running", "finished",
                           "raised", "taken"}]
    OBVIOUS
  <2> QED
    BY <2>2, <2>3, <2>4, <2>5, <2>6, NvidiaAssumption DEF TypeOK
<1>2. TakenRecorded
  BY NvidiaAssumption DEF TakenRecorded, Tasks
<1>3. WritingIsAudited
  BY DEF WritingIsAudited
<1>4. TornIsUpdating
  BY NvidiaAssumption DEF TornIsUpdating, Listed
<1> QED
  BY <1>1, <1>2, <1>3, <1>4 DEF NvidiaInv

LEMMA TypeStep == TypeOK /\ [Next]_vars => TypeOK'
<1> SUFFICES ASSUME TypeOK, [Next]_vars PROVE TypeOK'
  OBVIOUS
<1> USE DEF TypeOK
<1>1. ASSUME NEW t \in Tasks, StartTask(t) PROVE TypeOK'
  <2> USE <1>1 DEF StartTask
  <2>1. Running \in SUBSET Tasks /\ t \notin Running
    BY DEF Running
  <2>2. IsFiniteSet(Running) /\ Cardinality(Running) \in Nat
    BY <2>1, RunningFinite
  <2>3. Running' = Running \cup {t}
    BY DEF Running
  <2>4. Cardinality(Running') = Cardinality(Running) + 1
    BY <2>1, <2>2, <2>3, FS_AddElement
  <2>5. Cardinality(Running') <= Workers
    BY <2>2, <2>4, NvidiaAssumption
  <2> QED
    BY <2>5
<1>2. ASSUME NEW t \in Tasks, FetchFails(t) PROVE TypeOK'
  <2> USE <1>2 DEF FetchFails
  <2>1. Running' \subseteq Running
    BY DEF Running
  <2> QED
    BY <2>1, FewerRunning
<1>3. ASSUME NEW t \in Tasks, ResultRaises(t) PROVE TypeOK'
  <2> USE <1>3 DEF ResultRaises
  <2>1. Running' \subseteq Running
    BY DEF Running
  <2> QED
    BY <2>1, FewerRunning
<1>4. ASSUME NEW b \in Bases, IndexFetched(b) \/ TakeIndex(b) PROVE TypeOK'
  <2> USE <1>4 DEF IndexFetched, TakeIndex
  <2>1. Running' \subseteq Running
    BY DEF Running
  <2> QED
    BY <2>1, FewerRunning
<1>5. ASSUME NEW m \in Manifests, ManifestFetched(m) PROVE TypeOK'
  <2>1. Running' \subseteq Running
    BY <1>5 DEF ManifestFetched, Running
  <2>2. Cardinality(Running') <= Workers
    BY <2>1, FewerRunning
  <2>3. PICK a \in Answers[m] : answer' = [answer EXCEPT ![m] = a]
    BY <1>5 DEF ManifestFetched
  <2>4. answer' \in [Manifests -> (UNION {Answers[x] : x \in Manifests}) \cup {NoAnswer}]
    BY <2>3
  <2> QED
    BY <1>5, <2>2, <2>4 DEF ManifestFetched
<1>6. ASSUME NEW m \in Manifests, TakeManifest(m) PROVE TypeOK'
  <2>1. Running' \subseteq Running
    BY <1>6 DEF TakeManifest, Running
  <2>2. Cardinality(Running') <= Workers
    BY <2>1, FewerRunning
  <2>3. taken' \in Seq(Manifests)
    BY <1>6 DEF TakeManifest
  <2>4. UNCHANGED <<args, phase, answer, at, rewritten, conandata, config>>
    BY <1>6 DEF TakeManifest
  <2>5. task' \in [Tasks -> {"unsubmitted", "waiting", "running", "finished",
                            "raised", "taken"}]
    BY <1>6 DEF TakeManifest
  <2> QED
    BY <2>2, <2>3, <2>4, <2>5
<1>7. CASE PoolShutDown
  <2>1. Running' \subseteq Running
    BY <1>7 DEF Running, PoolShutDown
  <2> QED
    BY <1>7, <2>1, FewerRunning DEF PoolShutDown
<1>8. CASE SubmitManifests
  <2>1. Running' \subseteq Running
    BY <1>8 DEF Running, SubmitManifests
  <2> QED
    BY <1>8, <2>1, FewerRunning DEF SubmitManifests
<1>9. CASE Audit
  <2>1. Running' \subseteq Running
    BY <1>9 DEF Running, Audit
  <2> QED
    BY <1>9, <2>1, FewerRunning DEF Audit
<1>10. ASSUME NEW p \in PackageSet, NEW f \in Folders[p],
              UpdateConandata(p, f) \/ SelectionRaises(p, f)
       PROVE  TypeOK'
  <2> USE <1>10 DEF UpdateConandata, SelectionRaises
  <2>1. Running' \subseteq Running
    BY DEF Running
  <2>2. f \in AllFolders
    BY DEF AllFolders
  <2> QED
    BY <2>1, <2>2, FewerRunning
<1>11. ASSUME NEW p \in PackageSet, UpdateConfig(p) PROVE TypeOK'
  <2> USE <1>11 DEF UpdateConfig
  <2>1. Running' \subseteq Running
    BY DEF Running
  <2>2. \A q \in PackageSet : \A entry \in config'[q] : entry[2] \in Folders[q]
    BY DEF Listed
  <2> QED
    BY <2>1, <2>2, FewerRunning
<1>12. CASE NextPackage
  <2>1. Running' \subseteq Running
    BY <1>12 DEF Running, NextPackage
  <2> QED
    BY <1>12, <2>1, FewerRunning DEF NextPackage
<1>13. CASE UNCHANGED vars
  BY <1>13 DEF vars, Running
<1> QED
  BY <1>1, <1>2, <1>3, <1>4, <1>5, <1>6, <1>7, <1>8, <1>9, <1>10, <1>11,
     <1>12, <1>13 DEF Next

LEMMA TakenStep == TypeOK /\ TakenRecorded /\ [Next]_vars => TakenRecorded'
<1> SUFFICES ASSUME TypeOK, TakenRecorded, [Next]_vars,
                    NEW m \in Manifests, task'[m] = "taken"
             PROVE  m \in Taken'
  BY DEF TakenRecorded
<1> m \in Tasks
  BY DEF Tasks
<1>1. ASSUME NEW n \in Manifests, TakeManifest(n) PROVE m \in Taken'
  <2>1. Taken' = Taken \cup {n}
    BY <1>1 DEF TakeManifest, TypeOK, Taken
  <2>2. task[m] = "taken" \/ m = n
    BY <1>1 DEF TakeManifest, TypeOK
  <2> QED
    BY <2>1, <2>2 DEF TakenRecorded
<1>2. ASSUME UNCHANGED taken, task[m] = "taken" PROVE m \in Taken'
  BY <1>2 DEF TakenRecorded, Taken
<1>3. ASSUME NEW t \in Tasks, StartTask(t) \/ FetchFails(t) \/ ResultRaises(t)
      PROVE  m \in Taken'
  BY <1>2, <1>3 DEF StartTask, FetchFails, ResultRaises, TypeOK
<1>4. ASSUME NEW b \in Bases, IndexFetched(b) \/ TakeIndex(b) PROVE m \in Taken'
  BY <1>2, <1>4, NvidiaAssumption DEF IndexFetched, TakeIndex, TypeOK
<1>5. ASSUME NEW n \in Manifests, ManifestFetched(n) PROVE m \in Taken'
  BY <1>2, <1>5 DEF ManifestFetched, TypeOK
<1>6. CASE SubmitManifests
  BY <1>6, NvidiaAssumption DEF SubmitManifests
<1>7. CASE PoolShutDown \/ Audit \/ NextPackage
  BY <1>2, <1>7 DEF PoolShutDown, Audit, NextPackage
<1>8. ASSUME NEW p \in PackageSet,
             \/ \E f \in Folders[p] : UpdateConandata(p, f) \/ SelectionRaises(p, f)
             \/ UpdateConfig(p)
      PROVE  m \in Taken'
  BY <1>2, <1>8 DEF UpdateConandata, SelectionRaises, UpdateConfig
<1>9. CASE UNCHANGED vars
  BY <1>2, <1>9 DEF vars
<1> QED
  BY <1>1, <1>3, <1>4, <1>5, <1>6, <1>7, <1>8, <1>9 DEF Next

(* What decides the rest of the run does not change any more once every    *)
(* result has been taken.                                                  *)
LEMMA SettledAfterAudit ==
    ASSUME TypeOK, [Next]_vars, \A m \in Manifests : task[m] = "taken"
    PROVE  /\ UNCHANGED <<args, answer, taken>>
           /\ phase # "listing" => \A m \in Manifests : task'[m] = "taken"
           /\ Unmapped' = Unmapped /\ ToUpdate' = ToUpdate
<1>1. /\ UNCHANGED <<args, answer, taken>>
      /\ phase # "listing" => \A m \in Manifests : task'[m] = "taken"
  <2> \A m \in Manifests : m \in Tasks
    BY DEF Tasks
  <2>1. ASSUME NEW t \in Tasks, StartTask(t) \/ FetchFails(t) \/ ResultRaises(t)
        PROVE  UNCHANGED <<args, answer, taken>>
               /\ \A m \in Manifests : task'[m] = "taken"
    BY <2>1 DEF StartTask, FetchFails, ResultRaises, TypeOK
  <2>2. ASSUME NEW b \in Bases, IndexFetched(b) \/ TakeIndex(b)
        PROVE  UNCHANGED <<args, answer, taken>>
               /\ \A m \in Manifests : task'[m] = "taken"
    BY <2>2, NvidiaAssumption DEF IndexFetched, TakeIndex, TypeOK
  <2>3. ASSUME NEW m \in Manifests PROVE ~ManifestFetched(m) /\ ~TakeManifest(m)
    BY DEF ManifestFetched, TakeManifest
  <2>4. CASE SubmitManifests
    BY <2>4 DEF SubmitManifests
  <2>5. CASE PoolShutDown \/ Audit \/ NextPackage
    BY <2>5 DEF PoolShutDown, Audit, NextPackage
  <2>6. ASSUME NEW p \in PackageSet,
               \/ \E f \in Folders[p] : UpdateConandata(p, f) \/ SelectionRaises(p, f)
               \/ UpdateConfig(p)
        PROVE  UNCHANGED <<args, answer, taken>>
               /\ \A m \in Manifests : task'[m] = "taken"
    BY <2>6 DEF UpdateConandata, SelectionRaises, UpdateConfig
  <2>7. CASE UNCHANGED vars
    BY <2>7 DEF vars
  <2> QED
    BY <2>1, <2>2, <2>3, <2>4, <2>5, <2>6, <2>7 DEF Next
<1>2. UNCHANGED <<args, answer, taken>>
  BY <1>1
<1>3. Unmapped' = Unmapped
  BY <1>2 DEF Unmapped, Taken
<1>4. AllVersions' = AllVersions
  BY <1>2 DEF AllVersions, Offerers, Offering, Relevant, Taken
<1> QED
  BY <1>1, <1>2, <1>3, <1>4 DEF ToUpdate

LEMMA WritingStep ==
    TypeOK /\ WritingIsAudited /\ [Next]_vars => WritingIsAudited'
<1> SUFFICES ASSUME TypeOK, WritingIsAudited, [Next]_vars,
                    \/ phase' = "writing"
                    \/ conandata' # OldConandata
                    \/ config' # OldConfig
             PROVE  Audited' /\ phase' \in {"writing", "done", "failed"}
  BY DEF WritingIsAudited
<1>1. CASE Audit
  <2>1. phase' = "writing" \/ phase = "writing"
        \/ conandata # OldConandata \/ config # OldConfig
    BY <1>1 DEF Audit
  <2>2. phase = "fetching"
    BY <1>1 DEF Audit
  <2>3. phase' = "writing"
    BY <2>1, <2>2 DEF WritingIsAudited
  <2>4. Unmapped = {} /\ ~args.auditOnly /\ \A m \in Manifests : task[m] = "taken"
    BY <1>1, <2>3 DEF Audit
  <2>5. Unmapped' = Unmapped
    BY <1>1 DEF Audit, Unmapped, Taken
  <2> QED
    BY <1>1, <2>3, <2>4, <2>5 DEF Audit, Audited
<1>2. ASSUME phase = "writing" \/ conandata # OldConandata \/ config # OldConfig
      PROVE  Audited'
  <2>1. Audited /\ phase # "listing"
    BY <1>2 DEF WritingIsAudited
  <2> QED
    BY <2>1, SettledAfterAudit DEF Audited
<1>3. ASSUME NEW p \in PackageSet,
             \/ \E f \in Folders[p] : UpdateConandata(p, f) \/ SelectionRaises(p, f)
             \/ UpdateConfig(p)
      PROVE  Audited' /\ phase' \in {"writing", "done", "failed"}
  <2>1. phase = "writing" /\ phase' \in {"writing", "failed"}
    BY <1>3 DEF UpdateConandata, SelectionRaises, UpdateConfig, Updating
  <2> QED
    BY <1>2, <2>1
<1>4. CASE NextPackage
  <2>1. phase = "writing" /\ phase' \in {"writing", "done"}
    BY <1>4 DEF NextPackage
  <2> QED
    BY <1>2, <2>1
<1>5. ASSUME NEW t \in Tasks, ResultRaises(t)
      PROVE  Audited' /\ phase' \in {"writing", "done", "failed"}
  <2>1. conandata' = conandata /\ config' = config /\ phase' # "writing"
        /\ phase \in {"listing", "fetching"}
    BY <1>5 DEF ResultRaises
  <2> QED
    BY <2>1 DEF WritingIsAudited
<1>6. ASSUME UNCHANGED <<phase, conandata, config>>
      PROVE  Audited' /\ phase' \in {"writing", "done", "failed"}
  BY <1>2, <1>6 DEF WritingIsAudited
<1>7. ASSUME NEW t \in Tasks, StartTask(t) \/ FetchFails(t)
      PROVE  Audited' /\ phase' \in {"writing", "done", "failed"}
  BY <1>6, <1>7 DEF StartTask, FetchFails
<1>8. ASSUME NEW b \in Bases, IndexFetched(b) \/ TakeIndex(b)
      PROVE  Audited' /\ phase' \in {"writing", "done", "failed"}
  BY <1>6, <1>8 DEF IndexFetched, TakeIndex
<1>9. ASSUME NEW m \in Manifests, ManifestFetched(m) \/ TakeManifest(m)
      PROVE  Audited' /\ phase' \in {"writing", "done", "failed"}
  BY <1>6, <1>9 DEF ManifestFetched, TakeManifest
<1>10. CASE PoolShutDown \/ SubmitManifests
  <2>1. conandata' = conandata /\ config' = config /\ phase' # "writing"
        /\ phase \in {"raising", "listing"}
    BY <1>10 DEF PoolShutDown, SubmitManifests
  <2> QED
    BY <2>1 DEF WritingIsAudited
<1>11. CASE UNCHANGED vars
  BY <1>6, <1>11 DEF vars
<1> QED
  BY <1>1, <1>3, <1>4, <1>5, <1>7, <1>8, <1>9, <1>10, <1>11 DEF Next

LEMMA TornStep ==
    TypeOK /\ WritingIsAudited /\ TornIsUpdating /\ [Next]_vars => TornIsUpdating'
<1> SUFFICES ASSUME TypeOK, WritingIsAudited, TornIsUpdating, [Next]_vars,
                    NEW q \in PackageSet, config'[q] # Listed(q)'
             PROVE  /\ at' \in DOMAIN Packages /\ q = Packages[at']
                    /\ q \in ToUpdate'
  BY DEF TornIsUpdating
(* Steps that leave the files and the turn alone. *)
<1>1. ASSUME UNCHANGED <<at, conandata, config>>
      PROVE  /\ at' \in DOMAIN Packages /\ q = Packages[at']
             /\ q \in ToUpdate'
  <2>1. config[q] # Listed(q)
    BY <1>1 DEF Listed
  <2>2. conandata # OldConandata \/ config # OldConfig
    BY <2>1, NvidiaAssumption DEF Listed
  <2>3. ToUpdate' = ToUpdate
    BY <2>2, SettledAfterAudit DEF WritingIsAudited, Audited
  <2> QED
    BY <1>1, <2>1, <2>3 DEF TornIsUpdating
<1>2. ASSUME phase = "writing" PROVE ToUpdate' = ToUpdate
  BY <1>2, SettledAfterAudit DEF WritingIsAudited, Audited
<1>3. ASSUME NEW p \in PackageSet, NEW f \in Folders[p], UpdateConandata(p, f)
      PROVE  /\ at' \in DOMAIN Packages /\ q = Packages[at']
             /\ q \in ToUpdate'
  <2>1. /\ phase = "writing" /\ at' = at /\ config' = config
        /\ at \in DOMAIN Packages /\ Packages[at] = p /\ p \in ToUpdate
    BY <1>3 DEF UpdateConandata, Updating
  <2>2. CASE q = p
    BY <1>2, <2>1, <2>2
  <2>3. CASE q # p
    <3>1. f \notin Folders[q]
      BY <2>3, NvidiaAssumption
    <3>2. \A g \in Folders[q] : conandata'[g] = conandata[g]
      BY <1>3, <3>1 DEF UpdateConandata, TypeOK, AllFolders
    <3>3. Listed(q)' = Listed(q)
      BY <3>2 DEF Listed
    <3> QED
      BY <1>2, <2>1, <3>3 DEF TornIsUpdating
  <2> QED
    BY <2>2, <2>3
<1>4. ASSUME NEW p \in PackageSet, UpdateConfig(p) PROVE FALSE
  <2>1. /\ conandata' = conandata /\ Packages[at] = p
        /\ config' = [config EXCEPT ![p] = Listed(p)]
    BY <1>4 DEF UpdateConfig, Updating
  <2>2. Listed(q)' = Listed(q)
    BY <2>1 DEF Listed
  <2>3. q # p
    BY <2>1, <2>2 DEF TypeOK
  <2>4. config[q] # Listed(q)
    BY <2>1, <2>2, <2>3
  <2> QED
    BY <2>1, <2>3, <2>4 DEF TornIsUpdating
<1>5. CASE NextPackage
  <2>1. /\ conandata' = conandata /\ config' = config /\ phase = "writing"
        /\ at \in DOMAIN Packages => Packages[at] \notin ToUpdate
    BY <1>5 DEF NextPackage
  <2>2. config[q] # Listed(q)
    BY <2>1 DEF Listed
  <2> QED
    BY <2>1, <2>2 DEF TornIsUpdating
<1>6. ASSUME NEW t \in Tasks, StartTask(t) \/ FetchFails(t) \/ ResultRaises(t)
      PROVE  UNCHANGED <<at, conandata, config>>
  BY <1>6 DEF StartTask, FetchFails, ResultRaises
<1>7. ASSUME NEW b \in Bases, IndexFetched(b) \/ TakeIndex(b)
      PROVE  UNCHANGED <<at, conandata, config>>
  BY <1>7 DEF IndexFetched, TakeIndex
<1>8. ASSUME NEW m \in Manifests, ManifestFetched(m) \/ TakeManifest(m)
      PROVE  UNCHANGED <<at, conandata, config>>
  BY <1>8 DEF ManifestFetched, TakeManifest
<1>9. CASE PoolShutDown \/ SubmitManifests \/ Audit \/ UNCHANGED vars
  BY <1>1, <1>9 DEF PoolShutDown, SubmitManifests, Audit, vars
<1>10. ASSUME NEW p \in PackageSet, NEW f \in Folders[p], SelectionRaises(p, f)
       PROVE  UNCHANGED <<at, conandata, config>>
  BY <1>10 DEF SelectionRaises
<1> QED
  BY <1>1, <1>3, <1>4, <1>5, <1>6, <1>7, <1>8, <1>9, <1>10 DEF Next

(* The invariant holds in every state. *)
THEOREM NvidiaInvariance == Spec => []NvidiaInv
<1>1. NvidiaInv /\ [Next]_vars => NvidiaInv'
  BY TypeStep, TakenStep, WritingStep, TornStep DEF NvidiaInv
<1> QED
  BY <1>1, InitNvidia, PTL DEF Spec

(* The types of the updater hold for any number of manifests, packages,    *)
(* folders and threads; the pool never runs more tasks than it has threads.*)
THEOREM NvidiaTypeCorrect == Spec => []TypeOK
<1>1. NvidiaInv => TypeOK
  BY DEF NvidiaInv
<1> QED
  BY <1>1, NvidiaInvariance, PTL

(* update_all_conandata() only starts when the results of all manifests    *)
(* are in and audited: a failed or missing answer leaves every file as it  *)
(* was.  A failure while the files are rewritten leaves at most one        *)
(* package with a config.yml that does not list what its conandata.yml has.*)
THEOREM WritingIsOrderly == Spec => []WritesAreOrderly
<1>1. NvidiaInv => NothingWrittenEarly
  BY DEF NvidiaInv, WritingIsAudited, Audited, TakenRecorded, NothingWrittenEarly
<1>2. NvidiaInv => OnlyCurrentPackageTorn
  BY DEF NvidiaInv, TornIsUpdating, OnlyCurrentPackageTorn
<1>3. NvidiaInv => WritesAreOrderly
  BY <1>1, <1>2 DEF WritesAreOrderly
<1> QED
  BY <1>3, NvidiaInvariance, PTL
-----------------------------------------------------------------------------
(* Finitely many numbers, given by their places, have a greatest one. *)
LEMMA GreatestOfSequence ==
    ASSUME NEW n \in Nat, NEW S \in SUBSET (1..n), S # {}, NEW g \in [1..n -> Nat]
    PROVE  \E i \in S : \A j \in S : g[j] <= g[i]
<1> DEFINE V == {g[i] : i \in S}
<1>1. g \in Seq(Nat) /\ DOMAIN g = 1..n
  OBVIOUS
<1>2. PICK b \in Nat : \A i \in 1..n : g[i] <= b
  BY <1>1, SequenceIsBounded
<1>3. V \in SUBSET Nat /\ V # {} /\ \A v \in V : v <= b
  BY <1>2
<1>4. PICK m \in V : \A v \in V : v <= m
  <2> HIDE DEF V
  <2> QED
    BY <1>3, HasMaximum
<1> QED
  BY <1>4

(* What a manifest offers for a package has a version and variants. *)
LEMMA OfferType ==
    ASSUME TypeOK, NEW m \in Manifests, NEW p \in PackageSet, Offering(m, p) # {}
    PROVE  /\ Offer(m, p).version \in Nat
           /\ Variants(m, p) \in Seq(Nat)
           /\ Majors(m, p) \subseteq Nat
           /\ answer[m].date \in Nat
<1>1. \/ \E x \in Manifests : answer[m] \in Answers[x]
      \/ answer[m] = NoAnswer
  BY DEF TypeOK
<1>2. /\ answer[m].date \in Nat
      /\ \A nv \in DOMAIN answer[m].components :
            answer[m].components[nv] \in [version : Nat, variants : Seq(Nat)]
  BY <1>1, NvidiaAssumption DEF NoAnswer, NoDate
<1> DEFINE P == {i \in DOMAIN NvPackages[p] : NvPackages[p][i] \in Offering(m, p)}
<1>3. P \in SUBSET Nat /\ P # {}
  BY NvidiaAssumption DEF Offering, NvNames
<1>4. PICK k \in P : \A i \in P : k <= i
  <2> HIDE DEF P
  <2> QED
    BY <1>3, HasMinimum
<1>5. /\ k \in DOMAIN NvPackages[p] /\ NvPackages[p][k] \in Offering(m, p)
      /\ \A j \in 1..(k - 1) : NvPackages[p][j] \notin Offering(m, p)
  BY <1>3, <1>4, NvidiaAssumption
<1> DEFINE first == CHOOSE i \in DOMAIN NvPackages[p] :
                       /\ NvPackages[p][i] \in Offering(m, p)
                       /\ \A j \in 1..(i - 1) : NvPackages[p][j] \notin Offering(m, p)
<1>6. NvPackages[p][first] \in Offering(m, p)
  BY <1>5
<1>7. Offer(m, p) = answer[m].components[NvPackages[p][first]]
  BY DEF Offer
<1> HIDE DEF first
<1>8. Offer(m, p) \in [version : Nat, variants : Seq(Nat)]
  BY <1>2, <1>6, <1>7 DEF Offering
<1>9. Variants(m, p) \in Seq(Nat)
  BY <1>8 DEF Variants
<1> QED
  BY <1>2, <1>8, <1>9 DEF Majors

LEMMA TakenShape ==
    ASSUME TypeOK
    PROVE  /\ Len(taken) \in Nat /\ DOMAIN taken = 1..Len(taken)
           /\ \A i \in DOMAIN taken : taken[i] \in Manifests
           /\ Taken \subseteq Manifests
BY DEF TypeOK, Taken

(* Of some manifests that were taken, one has the greatest value. *)
LEMMA GreatestTaken ==
    ASSUME TypeOK, NEW S \in SUBSET Taken, S # {}, NEW g, \A m \in S : g[m] \in Nat
    PROVE  \E m \in S : \A n \in S : g[n] <= g[m]
<1>1. Len(taken) \in Nat /\ DOMAIN taken = 1..Len(taken)
  BY TakenShape
<1> DEFINE I == {i \in 1..Len(taken) : taken[i] \in S}
           h == [i \in 1..Len(taken) |-> IF taken[i] \in S THEN g[taken[i]] ELSE 0]
<1>2. I \in SUBSET (1..Len(taken)) /\ I # {}
  BY <1>1 DEF Taken
<1>3. h \in [1..Len(taken) -> Nat]
  OBVIOUS
<1>4. PICK i \in I : \A j \in I : h[j] <= h[i]
  <2> HIDE DEF I, h
  <2> QED
    BY <1>1, <1>2, <1>3, GreatestOfSequence
<1>5. ASSUME NEW n \in S PROVE g[n] <= g[taken[i]]
  <2>1. PICK j \in I : n = taken[j]
    BY <1>1 DEF Taken
  <2> QED
    BY <1>4, <2>1
<1> QED
  BY <1>5

(* Every group has a newest version, which is selected: the first half of  *)
(* NewestOfEveryLine. *)
LEMMA GroupHasNewest ==
    ASSUME TypeOK, NEW p \in PackageSet, NEW f,
           NEW m \in Offerers(Taken, p), InRange(f, Offer(m, p).version),
           NEW c \in Majors(m, p)
    PROVE  \E n \in Group(Taken, p, f, c, Key(f, Offer(m, p).version)) :
              /\ Offer(n, p).version >= Offer(m, p).version
              /\ Offer(n, p).version \in SelectedVersions(Taken, p, f)
<1> DEFINE G == Group(Taken, p, f, c, Key(f, Offer(m, p).version))
           g == [n \in Taken |-> Offer(n, p).version]
<1>1. m \in G /\ G \subseteq Taken
  BY DEF Group, Offerers
<1>2. \A n \in G : Offer(n, p).version \in Nat
  BY OfferType, TakenShape DEF Group, Offerers
<1>3. PICK n \in G : \A k \in G : g[k] <= g[n]
  <2>1. G \in SUBSET Taken /\ G # {} /\ \A k \in G : g[k] \in Nat
    BY <1>1, <1>2
  <2> HIDE DEF G, g
  <2> QED
    BY <2>1, GreatestTaken
<1>4. \A k \in G : Offer(k, p).version <= Offer(n, p).version
  BY <1>1, <1>3
<1>5. /\ n \in Offerers(Taken, p) /\ InRange(f, Offer(n, p).version) /\ c \in Majors(n, p)
      /\ Key(f, Offer(n, p).version) = Key(f, Offer(m, p).version)
  BY DEF Group
<1>6. IsNewest(Taken, p, f, c, n)
  BY <1>4, <1>5 DEF IsNewest
<1>7. c \in SelectedFor(Taken, p, f, Offer(n, p).version)
  BY <1>5, <1>6 DEF SelectedFor
<1>8. Offer(n, p).version \in SelectedVersions(Taken, p, f)
  BY <1>5, <1>7 DEF SelectedVersions
<1> QED
  BY <1>1, <1>2, <1>4, <1>8

(* The newest of some sources exists: by date, then by URL. *)
LEMMA NewestUrlIsSource ==
    ASSUME TypeOK, NEW p \in PackageSet, NEW v, NEW c, Sources(Taken, p, v, c) # {}
    PROVE  NewestUrl(p, v, c) \in Sources(Taken, p, v, c)
<1> DEFINE S == Sources(Taken, p, v, c)
           g == [m \in Taken |-> answer[m].date]
<1>1. S \in SUBSET Taken /\ S # {}
  BY DEF Sources, Offerers
<1>2. \A m \in S : m \in Manifests /\ answer[m].date \in Nat /\ UrlRank[m] \in Nat
  BY OfferType, TakenShape, NvidiaAssumption DEF Sources, Offerers
<1>3. PICK d \in S : \A m \in S : g[m] <= g[d]
  <2>1. \A m \in S : g[m] \in Nat
    BY <1>1, <1>2
  <2> HIDE DEF S, g
  <2> QED
    BY <1>1, <2>1, GreatestTaken
<1> DEFINE T == {m \in S : g[m] = g[d]}
<1>4. PICK u \in T : \A m \in T : UrlRank[m] <= UrlRank[u]
  <2>1. T \in SUBSET Taken /\ T # {} /\ \A m \in T : UrlRank[m] \in Nat
    BY <1>1, <1>2
  <2> HIDE DEF T
  <2> QED
    BY <2>1, GreatestTaken
<1>5. u \in S /\ \A m \in S : Later(u, m)
  BY <1>1, <1>2, <1>3, <1>4 DEF Later
<1> QED
  BY <1>5 DEF NewestUrl

(* Triples of numbers in the order of Precedes. *)
Triples == Nat \X Nat \X Nat

LEMMA LeastTriple ==
    ASSUME NEW P \in SUBSET Triples, P # {}
    PROVE  \E a \in P : \A b \in P : b = a \/ Precedes(a, b)
<1> DEFINE A == {t[1] : t \in P}
<1>1. PICK x \in A : \A y \in A : x <= y
  <2>1. A \in SUBSET Nat /\ A # {}
    BY DEF Triples
  <2> HIDE DEF A
  <2> QED
    BY <2>1, HasMinimum
<1> DEFINE Q == {t \in P : t[1] = x}
           B == {t[2] : t \in Q}
<1>2. PICK y \in B : \A z \in B : y <= z
  <2>1. B \in SUBSET Nat /\ B # {}
    BY <1>1 DEF Triples
  <2> HIDE DEF B
  <2> QED
    BY <2>1, HasMinimum
<1> DEFINE R == {t \in Q : t[2] = y}
           C == {t[3] : t \in R}
<1>3. PICK z \in C : \A w \in C : z <= w
  <2>1. C \in SUBSET Nat /\ C # {}
    BY <1>2 DEF Triples
  <2> HIDE DEF C
  <2> QED
    BY <2>1, HasMinimum
<1>4. PICK a \in R : a[3] = z
  BY <1>3
<1>5. ASSUME NEW b \in P PROVE b = a \/ Precedes(a, b)
  <2>1. b \in Triples /\ a \in Triples /\ a[1] = x /\ a[2] = y /\ a[3] = z
    BY <1>4
  <2>2. x <= b[1]
    BY <1>1
  <2>3. b[1] = x => y <= b[2]
    BY <1>2
  <2>4. b[1] = x /\ b[2] = y => z <= b[3]
    BY <1>3
  <2> QED
    BY <2>1, <2>2, <2>3, <2>4 DEF Precedes, Triples
<1> QED
  BY <1>4, <1>5

LEMMA GreatestTriple ==
    ASSUME NEW P \in SUBSET Triples, P # {}, NEW n \in Nat,
           \A t \in P : t[1] <= n /\ t[2] <= n,
           \A i \in Nat : \E k \in Nat : \A t \in P : t[2] = i => t[3] <= k
    PROVE  \E a \in P : \A b \in P : b = a \/ Precedes(b, a)
<1> DEFINE A == {t[1] : t \in P}
<1>1. PICK x \in A : \A y \in A : y <= x
  <2>1. A \in SUBSET Nat /\ A # {} /\ \A y \in A : y <= n
    BY DEF Triples
  <2> HIDE DEF A
  <2> QED
    BY <2>1, HasMaximum
<1> DEFINE Q == {t \in P : t[1] = x}
           B == {t[2] : t \in Q}
<1>2. PICK y \in B : \A z \in B : z <= y
  <2>1. B \in SUBSET Nat /\ B # {} /\ \A z \in B : z <= n
    BY <1>1 DEF Triples
  <2> HIDE DEF B
  <2> QED
    BY <2>1, HasMaximum
<1> DEFINE R == {t \in Q : t[2] = y}
           C == {t[3] : t \in R}
<1>3. PICK z \in C : \A w \in C : w <= z
  <2>0. y \in Nat
    BY <1>2 DEF Triples
  <2>1. PICK k \in Nat : \A t \in P : t[2] = y => t[3] <= k
    BY <2>0
  <2>2. C \in SUBSET Nat /\ C # {} /\ \A w \in C : w <= k
    BY <1>2, <2>1 DEF Triples
  <2> HIDE DEF C
  <2> QED
    BY <2>2, HasMaximum
<1>4. PICK a \in R : a[3] = z
  BY <1>3
<1>5. ASSUME NEW b \in P PROVE b = a \/ Precedes(b, a)
  <2>1. b \in Triples /\ a \in Triples /\ a[1] = x /\ a[2] = y /\ a[3] = z
    BY <1>4
  <2>2. b[1] <= x
    BY <1>1
  <2>3. b[1] = x => b[2] <= y
    BY <1>2
  <2>4. b[1] = x /\ b[2] = y => b[3] <= z
    BY <1>3
  <2> QED
    BY <2>1, <2>2, <2>3, <2>4 DEF Precedes, Triples
<1> QED
  BY <1>4, <1>5

(* The places of a group in the dict. *)
LEMMA FirstMetType ==
    ASSUME TypeOK, NEW p, NEW i \in DOMAIN taken, Offering(taken[i], p) # {}
    PROVE  FirstMet(p, Offer(taken[i], p).version) \in DOMAIN taken
<1> DEFINE v == Offer(taken[i], p).version
           S == {k \in DOMAIN taken : Offering(taken[k], p) # {}
                                      /\ Offer(taken[k], p).version = v}
<1>1. S \in SUBSET Nat /\ S # {} /\ DOMAIN taken = 1..Len(taken) /\ Len(taken) \in Nat
  <2>1. DOMAIN taken = 1..Len(taken) /\ Len(taken) \in Nat
    BY TakenShape
  <2>2. i \in S /\ S \subseteq DOMAIN taken
    OBVIOUS
  <2> HIDE DEF S
  <2> QED
    BY <2>1, <2>2
<1>2. PICK k \in S : \A l \in S : k <= l
  <2> HIDE DEF S
  <2> QED
    BY <1>1, HasMinimum
<1>3. \A j \in 1..(k - 1) : Offering(taken[j], p) # {} => Offer(taken[j], p).version # v
  <2> SUFFICES ASSUME NEW j \in 1..(k - 1), j \in S PROVE FALSE
    BY <1>1, <1>2
  <2> QED
    BY <1>1, <1>2
<1> QED
  BY <1>2, <1>3 DEF FirstMet

LEMMA PositionsShape ==
    ASSUME TypeOK, NEW p \in PackageSet, NEW f, NEW c, NEW v,
           NEW t \in Positions(p, f, c, v)
    PROVE  /\ t \in Triples
           /\ t[1] \in DOMAIN taken /\ t[2] \in DOMAIN taken
           /\ Variants(taken[t[2]], p) \in Seq(Nat)
           /\ t[3] \in DOMAIN Variants(taken[t[2]], p)
           /\ Variants(taken[t[2]], p)[t[3]] = c
<1>1. PICK i \in DOMAIN taken : \E j \in DOMAIN Variants(taken[i], p) :
         /\ taken[i] \in Group(Taken, p, f, c, Key(f, v))
         /\ Variants(taken[i], p)[j] = c
         /\ t = <<FirstMet(p, Offer(taken[i], p).version), i, j>>
  BY DEF Positions
<1>2. PICK j \in DOMAIN Variants(taken[i], p) :
         /\ taken[i] \in Group(Taken, p, f, c, Key(f, v))
         /\ Variants(taken[i], p)[j] = c
         /\ t = <<FirstMet(p, Offer(taken[i], p).version), i, j>>
  BY <1>1
<1>3. taken[i] \in Manifests /\ Offering(taken[i], p) # {} /\ DOMAIN taken = 1..Len(taken)
      /\ Len(taken) \in Nat
  BY <1>2, TakenShape DEF Group, Offerers
<1>4. FirstMet(p, Offer(taken[i], p).version) \in DOMAIN taken
  BY <1>3, FirstMetType
<1>5. Variants(taken[i], p) \in Seq(Nat)
  BY <1>3, OfferType
<1>6. i \in Nat /\ j \in Nat
  BY <1>2, <1>3, <1>5
<1> QED
  BY <1>2, <1>3, <1>4, <1>5, <1>6 DEF Triples

(* The group that was inserted last exists. *)
LEMMA LastGroupIsSelected ==
    ASSUME TypeOK, NEW p \in PackageSet, NEW f, NEW v, SelectedFor(Taken, p, f, v) # {}
    PROVE  LastGroup(p, f, v) \in SelectedFor(Taken, p, f, v)
<1> DEFINE C == SelectedFor(Taken, p, f, v)
           P == [c \in C |-> Positions(p, f, c, v)]
           Least == {t \in Triples : \E c \in C : t \in P[c]
                                        /\ \A b \in P[c] : b = t \/ Precedes(t, b)}
<1>1. ASSUME NEW c \in C
      PROVE  /\ P[c] \in SUBSET Triples
             /\ \A t \in P[c] : /\ t[1] \in DOMAIN taken /\ t[2] \in DOMAIN taken
                                /\ Variants(taken[t[2]], p) \in Seq(Nat)
                                /\ t[3] \in DOMAIN Variants(taken[t[2]], p)
                                /\ Variants(taken[t[2]], p)[t[3]] = c
  BY PositionsShape
<1>2. ASSUME NEW c \in C PROVE P[c] # {}
  <2>1. PICK m \in Offerers(Taken, p) :
           Offer(m, p).version = v /\ c \in Majors(m, p) /\ IsNewest(Taken, p, f, c, m)
    BY DEF SelectedFor
  <2>2. m \in Group(Taken, p, f, c, Key(f, v))
    BY <2>1 DEF Group, IsNewest
  <2>3. PICK i \in DOMAIN taken : m = taken[i]
    BY DEF Offerers, Taken
  <2>4. PICK j \in DOMAIN Variants(m, p) : Variants(m, p)[j] = c
    BY <2>1 DEF Majors
  <2>5. <<FirstMet(p, Offer(taken[i], p).version), i, j>> \in Positions(p, f, c, v)
    BY <2>2, <2>3, <2>4 DEF Positions
  <2> QED
    BY <2>5
<1> HIDE DEF P, C
<1>3. ASSUME NEW c \in C
      PROVE  \E t \in P[c] : t \in Least /\ \A b \in P[c] : b = t \/ Precedes(t, b)
  <2>1. PICK t \in P[c] : \A b \in P[c] : b = t \/ Precedes(t, b)
    BY <1>1, <1>2, LeastTriple
  <2> QED
    BY <1>1, <2>1
<1>4. Least \in SUBSET Triples /\ Least # {}
  BY <1>3 DEF C
<1>5. \A t \in Least : t[1] <= Len(taken) /\ t[2] <= Len(taken)
  BY <1>1, TakenShape
<1>6. ASSUME NEW i \in Nat PROVE \E k \in Nat : \A t \in Least : t[2] = i => t[3] <= k
  <2>1. CASE \E t \in Least : t[2] = i
    <3>1. Variants(taken[i], p) \in Seq(Nat)
      BY <1>1, <2>1
    <3>2. \A t \in Least : t[2] = i => t[3] \in DOMAIN Variants(taken[i], p)
      BY <1>1
    <3>3. Len(Variants(taken[i], p)) \in Nat
          /\ DOMAIN Variants(taken[i], p) = 1..Len(Variants(taken[i], p))
      BY <3>1
    <3> HIDE DEF Least
    <3>4. \A t \in Least : t[2] = i => t[3] <= Len(Variants(taken[i], p))
      BY <3>2, <3>3
    <3> QED
      BY <3>3, <3>4
  <2>2. CASE ~\E t \in Least : t[2] = i
    BY <2>2
  <2> QED
    BY <2>1, <2>2
<1>7. PICK q \in Least : \A b \in Least : b = q \/ Precedes(b, q)
  <2>1. Len(taken) \in Nat
    BY TakenShape
  <2> HIDE DEF Least
  <2> QED
    BY <1>4, <1>5, <1>6, <2>1, GreatestTriple
<1>8. PICK c \in C : q \in P[c] /\ \A b \in P[c] : b = q \/ Precedes(q, b)
  OBVIOUS
<1>9. ASSUME NEW d \in C \ {c} PROVE \E a \in P[d] : \A b \in P[c] : Precedes(a, b)
  <2>1. PICK a \in P[d] : a \in Least /\ \A b \in P[d] : b = a \/ Precedes(a, b)
    BY <1>3
  <2>2. a # q
    BY <1>1, <1>8
  <2>3. Precedes(a, q)
    BY <1>7, <2>1, <2>2
  <2>4. ASSUME NEW b \in P[c] PROVE Precedes(a, b)
    <3>1. a \in Triples /\ q \in Triples /\ b \in Triples
      BY <1>1
    <3>2. b = q \/ Precedes(q, b)
      BY <1>8
    <3> QED
      BY <2>3, <3>1, <3>2 DEF Precedes, Triples
  <2> QED
    BY <2>4
<1>10. \A d \in C \ {c} : \E a \in Positions(p, f, d, v) :
          \A b \in Positions(p, f, c, v) : Precedes(a, b)
  BY <1>9 DEF P
<1> QED
  BY <1>10 DEF LastGroup, C

(* What is selected depends on the results alone. *)
LEMMA SelectedIsSettled ==
    ASSUME UNCHANGED <<answer, taken>>, NEW p, NEW f
    PROVE  Selected(p, f)' = Selected(p, f)
BY DEF Selected, SelectedVersions, NewestUrl, LastGroup, SelectedFor, Positions, FirstMet,
       Sources, IsNewest, Group, Offer, Offerers, Offering, Relevant, Majors, Variants, Later,
       Taken

(* Files that were rewritten hold what was selected, those of the packages *)
(* that the script is past were rewritten, and it is done when it is past  *)
(* all. *)
SelectionIsWritten ==
    /\ at # 0
    /\ rewritten # {} \/ at # 1 => Audited /\ phase \in {"writing", "done", "failed"}
    /\ \A p \in PackageSet : \A f \in Folders[p] \cap rewritten :
          conandata[f] = Selected(p, f)
    /\ \A i \in DOMAIN Packages :
          i < at /\ Packages[i] \in ToUpdate => Folders[Packages[i]] \subseteq rewritten
    /\ phase = "done" /\ ~args.auditOnly => Audited /\ at \notin DOMAIN Packages

LEMMA SelectionStep ==
    NvidiaInv /\ SelectionIsWritten /\ [Next]_vars => SelectionIsWritten'
<1> SUFFICES ASSUME NvidiaInv, SelectionIsWritten, [Next]_vars PROVE SelectionIsWritten'
  OBVIOUS
<1>a. TypeOK /\ WritingIsAudited /\ at \in Nat
  BY DEF NvidiaInv, TypeOK
<1>b. ASSUME Audited, phase # "listing"
      PROVE  /\ Audited' /\ UNCHANGED <<args, answer, taken>>
             /\ ToUpdate' = ToUpdate
             /\ \A p, f : Selected(p, f)' = Selected(p, f)
  <2>1. /\ UNCHANGED <<args, answer, taken>> /\ ToUpdate' = ToUpdate
        /\ \A m \in Manifests : task'[m] = "taken"
        /\ Unmapped' = Unmapped
    BY <1>a, <1>b, SettledAfterAudit DEF Audited
  <2> QED
    BY <1>b, <2>1, SelectedIsSettled DEF Audited
(* Steps that leave the files and the turn alone. *)
<1>1. ASSUME UNCHANGED <<at, rewritten, conandata>>,
             phase \in {"writing", "done", "failed"} => phase' \in {phase, "failed"},
             phase' = "done" /\ ~args'.auditOnly => phase = "done"
      PROVE  SelectionIsWritten'
  <2>1. CASE rewritten # {} \/ at # 1
    <3>1. Audited /\ phase \in {"writing", "done", "failed"}
      BY <2>1 DEF SelectionIsWritten
    <3>2. /\ Audited' /\ UNCHANGED <<args, answer, taken>>
          /\ ToUpdate' = ToUpdate
          /\ \A p, f : Selected(p, f)' = Selected(p, f)
      BY <1>b, <3>1
    <3> QED
      BY <1>1, <3>1, <3>2 DEF SelectionIsWritten
  <2>2. CASE rewritten = {} /\ at = 1
    <3>1. \A i \in DOMAIN Packages : ~(i < at')
      BY <1>1, <2>2, NvidiaAssumption
    <3>2. phase' = "done" /\ ~args'.auditOnly => Audited' /\ at' \notin DOMAIN Packages
      <4> SUFFICES ASSUME phase' = "done", ~args'.auditOnly
                   PROVE  Audited' /\ at' \notin DOMAIN Packages
        OBVIOUS
      <4>1. phase = "done"
        BY <1>1
      <4>2. args' = args
        BY <4>1 DEF Next, vars, StartTask, FetchFails, ResultRaises, IndexFetched, TakeIndex,
                    ManifestFetched, TakeManifest, PoolShutDown, SubmitManifests, Audit,
                    UpdateConandata, SelectionRaises, UpdateConfig, NextPackage
      <4>3. Audited /\ at \notin DOMAIN Packages
        BY <4>1, <4>2 DEF SelectionIsWritten
      <4> QED
        BY <1>1, <1>b, <4>1, <4>3
    <3> QED
      BY <1>1, <2>2, <3>1, <3>2 DEF SelectionIsWritten
  <2> QED
    BY <2>1, <2>2
<1>2. ASSUME NEW t \in Tasks, StartTask(t) \/ FetchFails(t) PROVE SelectionIsWritten'
  BY <1>1, <1>2 DEF StartTask, FetchFails
<1>3. ASSUME NEW t \in Tasks, ResultRaises(t) PROVE SelectionIsWritten'
  <2>1. UNCHANGED <<at, rewritten, conandata>> /\ phase \in {"listing", "fetching"}
        /\ phase' = "raising"
    BY <1>3 DEF ResultRaises
  <2> QED
    BY <1>1, <2>1
<1>4. ASSUME NEW b \in Bases, IndexFetched(b) \/ TakeIndex(b) PROVE SelectionIsWritten'
  BY <1>1, <1>4 DEF IndexFetched, TakeIndex
<1>5. ASSUME NEW m \in Manifests, ManifestFetched(m) \/ TakeManifest(m) PROVE SelectionIsWritten'
  BY <1>1, <1>5 DEF ManifestFetched, TakeManifest
<1>6. CASE PoolShutDown \/ SubmitManifests
  <2>1. UNCHANGED <<at, rewritten, conandata>> /\ phase \in {"raising", "listing"}
        /\ phase' # "done"
    BY <1>6 DEF PoolShutDown, SubmitManifests
  <2> QED
    BY <1>1, <2>1
<1>7. CASE Audit
  <2>1. /\ UNCHANGED <<at, rewritten, conandata>> /\ phase = "fetching" /\ UNCHANGED args
        /\ phase' = "done" => args.auditOnly
    BY <1>7 DEF Audit
  <2> QED
    BY <1>1, <2>1
<1>8. ASSUME NEW p \in PackageSet, NEW f \in Folders[p], SelectionRaises(p, f)
      PROVE  SelectionIsWritten'
  BY <1>1, <1>8 DEF SelectionRaises
<1>c. ASSUME phase = "writing"
      PROVE  /\ Audited /\ Audited' /\ UNCHANGED args
             /\ ToUpdate' = ToUpdate
             /\ \A p, f : Selected(p, f)' = Selected(p, f)
  BY <1>a, <1>b, <1>c DEF WritingIsAudited
<1>9. ASSUME NEW p \in PackageSet, NEW f \in Folders[p], UpdateConandata(p, f)
      PROVE  SelectionIsWritten'
  <2>1. /\ phase = "writing" /\ UNCHANGED <<phase, at>>
        /\ conandata' = [conandata EXCEPT ![f] = Selected(p, f)]
        /\ rewritten' = rewritten \cup {f} /\ f \notin rewritten
    BY <1>9 DEF UpdateConandata, Updating
  <2>2. ASSUME NEW q \in PackageSet, NEW g \in Folders[q] \cap rewritten'
        PROVE  conandata'[g] = Selected(q, g)
    <3>1. CASE g = f
      <4>1. q = p
        BY <3>1, NvidiaAssumption
      <4> QED
        BY <1>a, <2>1, <3>1, <4>1 DEF TypeOK, AllFolders
    <3>2. CASE g # f
      BY <1>a, <2>1, <3>2 DEF SelectionIsWritten, TypeOK
    <3> QED
      BY <3>1, <3>2
  <2>3. \A i \in DOMAIN Packages :
           i < at' /\ Packages[i] \in ToUpdate' => Folders[Packages[i]] \subseteq rewritten'
    BY <1>c, <2>1 DEF SelectionIsWritten
  <2>4. at' # 0 /\ phase' = "writing" /\ Audited'
        /\ \A q, g : Selected(q, g)' = Selected(q, g)
    BY <1>c, <2>1 DEF SelectionIsWritten
  <2>5. \A q \in PackageSet : \A g \in Folders[q] \cap rewritten' :
           conandata'[g] = Selected(q, g)'
    BY <2>2, <2>4
  <2> QED
    BY <2>3, <2>4, <2>5 DEF SelectionIsWritten
<1>d. ASSUME phase = "writing", phase' \in {"writing", "done"}, UNCHANGED <<rewritten, conandata>>,
             \/ /\ at' = at + 1 /\ phase' = "writing"
                /\ at \in DOMAIN Packages
                /\ Packages[at] \in ToUpdate => Folders[Packages[at]] \subseteq rewritten
             \/ /\ at' = at /\ at \notin DOMAIN Packages
      PROVE  SelectionIsWritten'
  <2>1. at \in Nat /\ at' \in Nat /\ at' # 0 /\ DOMAIN Packages \subseteq Nat
    BY <1>a, <1>d, NvidiaAssumption DEF SelectionIsWritten
  <2>2. \A i \in DOMAIN Packages :
           i < at' /\ Packages[i] \in ToUpdate => Folders[Packages[i]] \subseteq rewritten
    <3> SUFFICES ASSUME NEW i \in DOMAIN Packages, i < at', Packages[i] \in ToUpdate
                 PROVE  Folders[Packages[i]] \subseteq rewritten
      OBVIOUS
    <3>1. i < at \/ (i = at /\ at' = at + 1)
      BY <1>d, <2>1
    <3> QED
      BY <1>d, <3>1 DEF SelectionIsWritten
  <2>3. \A q \in PackageSet : \A g \in Folders[q] \cap rewritten' :
           conandata'[g] = Selected(q, g)'
    BY <1>c, <1>d DEF SelectionIsWritten
  <2>4. \A i \in DOMAIN Packages :
           i < at' /\ Packages[i] \in ToUpdate' => Folders[Packages[i]] \subseteq rewritten'
    BY <1>c, <1>d, <2>2
  <2>5. phase' = "done" => at' \notin DOMAIN Packages
    BY <1>d
  <2> QED
    BY <1>c, <1>d, <2>1, <2>3, <2>4, <2>5 DEF SelectionIsWritten
<1>10. ASSUME NEW p \in PackageSet, UpdateConfig(p) PROVE SelectionIsWritten'
  BY <1>d, <1>10 DEF UpdateConfig, Updating
<1>11. CASE NextPackage
  BY <1>d, <1>11 DEF NextPackage
<1>12. CASE UNCHANGED vars
  BY <1>1, <1>12 DEF vars
<1> QED
  BY <1>2, <1>3, <1>4, <1>5, <1>6, <1>7, <1>8, <1>9, <1>10, <1>11, <1>12 DEF Next

LEMMA InitSelection == Init => SelectionIsWritten
BY NvidiaAssumption DEF Init, SelectionIsWritten

(* What is selected has a source that offers it, and a group it is the     *)
(* newest of: the second half of NewestOfEveryLine, and UrlOffersVersion.  *)
LEMMA SelectedIsOffered ==
    ASSUME TypeOK, NEW p \in PackageSet, NEW f, NEW s \in Selected(p, f)
    PROVE  /\ s[1] \in SelectedVersions(Taken, p, f)
           /\ s[2] \in Offerers(Taken, p)
           /\ Offer(s[2], p).version = s[1]
<1>1. PICK v \in SelectedVersions(Taken, p, f) :
         s = <<v, NewestUrl(p, v, LastGroup(p, f, v))>>
  BY DEF Selected
<1> DEFINE c == LastGroup(p, f, v)
<1>2. SelectedFor(Taken, p, f, v) # {}
  BY DEF SelectedVersions
<1>3. c \in SelectedFor(Taken, p, f, v)
  BY <1>2, LastGroupIsSelected
<1> HIDE DEF c
<1>4. PICK m \in Offerers(Taken, p) : Offer(m, p).version = v /\ c \in Majors(m, p)
  BY <1>3 DEF SelectedFor
<1>5. Sources(Taken, p, v, c) # {}
  BY <1>4 DEF Sources
<1>6. NewestUrl(p, v, c) \in Sources(Taken, p, v, c)
  BY <1>5, NewestUrlIsSource
<1> QED
  BY <1>1, <1>6 DEF Sources, c

LEMMA SelectedIsNewest ==
    ASSUME TypeOK, NEW p \in PackageSet, NEW f, NEW v \in SelectedVersions(Taken, p, f)
    PROVE  \E m \in Offerers(Taken, p) : \E c \in Majors(m, p) :
              /\ Offer(m, p).version = v /\ InRange(f, v)
              /\ \A n \in Group(Taken, p, f, c, Key(f, v)) : Offer(n, p).version <= v
<1>1. PICK c \in SelectedFor(Taken, p, f, v) : TRUE
  BY DEF SelectedVersions
<1>2. PICK m \in Offerers(Taken, p) :
         Offer(m, p).version = v /\ c \in Majors(m, p) /\ IsNewest(Taken, p, f, c, m)
  BY <1>1 DEF SelectedFor
<1> QED
  BY <1>2 DEF IsNewest

(* The files of a package that was updated hold what was selected, from    *)
(* the results of all manifests. *)
LEMMA UpdatedIsSelected ==
    ASSUME NvidiaInv, SelectionIsWritten, NEW p \in PackageSet, Updated(p), NEW f \in Folders[p]
    PROVE  Taken = Manifests /\ conandata[f] = Selected(p, f)
<1>1. Audited /\ at \notin DOMAIN Packages /\ p \in ToUpdate
  BY DEF Updated, SelectionIsWritten
<1>2. Taken = Manifests
  BY <1>1, TakenShape DEF NvidiaInv, Audited, TakenRecorded
<1>3. PICK i \in DOMAIN Packages : p = Packages[i]
  BY DEF PackageSet
<1>4. at \in Nat /\ at # 0 /\ DOMAIN Packages = 1..Len(Packages) /\ Len(Packages) \in Nat
  BY NvidiaAssumption DEF NvidiaInv, TypeOK, SelectionIsWritten
<1>5. i < at
  BY <1>1, <1>3, <1>4
<1>6. f \in rewritten
  BY <1>1, <1>3, <1>5 DEF SelectionIsWritten
<1> QED
  BY <1>2, <1>6 DEF SelectionIsWritten

LEMMA SelectionImplies == NvidiaInv /\ SelectionIsWritten => SelectionIsSound
<1> SUFFICES ASSUME NvidiaInv, SelectionIsWritten PROVE SelectionIsSound
  OBVIOUS
<1>a. TypeOK
  BY DEF NvidiaInv
<1>1. NewestOfEveryLine
  <2> SUFFICES ASSUME NEW p \in PackageSet, Updated(p), NEW f \in Folders[p]
      PROVE  LET offered == {m \in Offerers(Manifests, p) : InRange(f, Offer(m, p).version)}
                 written == {s[1] : s \in conandata[f]}
                 For(v, c) == \E m \in offered : Offer(m, p).version = v /\ c \in Majors(m, p)
                 Line(v) == {w \in written : Key(f, w) = Key(f, v)}
             IN  /\ \A m \in offered : \A c \in Majors(m, p) :
                       \E w \in Line(Offer(m, p).version) :
                           w >= Offer(m, p).version /\ For(w, c)
                 /\ \A v \in written : \E c \in UNION {Majors(m, p) : m \in offered} :
                       For(v, c) /\ \A w \in Line(v) : For(w, c) => w <= v
    BY DEF NewestOfEveryLine
  <2> DEFINE offered == {m \in Offerers(Manifests, p) : InRange(f, Offer(m, p).version)}
             written == {s[1] : s \in conandata[f]}
             For(v, c) == \E m \in offered : Offer(m, p).version = v /\ c \in Majors(m, p)
             Line(v) == {w \in written : Key(f, w) = Key(f, v)}
  <2>1. Taken = Manifests /\ conandata[f] = Selected(p, f)
    BY UpdatedIsSelected
  <2>2. written = SelectedVersions(Taken, p, f)
    <3>1. \A s \in Selected(p, f) : s[1] \in SelectedVersions(Taken, p, f)
      BY DEF Selected
    <3>2. ASSUME NEW v \in SelectedVersions(Taken, p, f)
          PROVE  \E s \in Selected(p, f) : s[1] = v
      <4>1. <<v, NewestUrl(p, v, LastGroup(p, f, v))>> \in Selected(p, f)
        BY DEF Selected
      <4> QED
        BY <4>1
    <3> QED
      BY <2>1, <3>1, <3>2
  <2>3. ASSUME NEW m \in offered, NEW c \in Majors(m, p)
        PROVE  \E w \in Line(Offer(m, p).version) : w >= Offer(m, p).version /\ For(w, c)
    <3>1. m \in Offerers(Taken, p) /\ InRange(f, Offer(m, p).version)
      BY <2>1
    <3>2. PICK n \in Group(Taken, p, f, c, Key(f, Offer(m, p).version)) :
             /\ Offer(n, p).version >= Offer(m, p).version
             /\ Offer(n, p).version \in SelectedVersions(Taken, p, f)
      BY <1>a, <3>1, GroupHasNewest
    <3>3. /\ n \in offered /\ c \in Majors(n, p)
          /\ Key(f, Offer(n, p).version) = Key(f, Offer(m, p).version)
      BY <2>1 DEF Group
    <3>4. Offer(n, p).version \in Line(Offer(m, p).version) /\ For(Offer(n, p).version, c)
      BY <2>2, <3>2, <3>3
    <3> QED
      BY <3>2, <3>4
  <2>4. ASSUME NEW v \in written
        PROVE  \E c \in UNION {Majors(m, p) : m \in offered} :
                  For(v, c) /\ \A w \in Line(v) : For(w, c) => w <= v
    <3>0. v \in SelectedVersions(Taken, p, f)
      BY <2>2
    <3>1. PICK m \in Offerers(Taken, p) : \E c \in Majors(m, p) :
              /\ Offer(m, p).version = v /\ InRange(f, v)
              /\ \A n \in Group(Taken, p, f, c, Key(f, v)) : Offer(n, p).version <= v
      BY <1>a, <3>0, SelectedIsNewest
    <3>2. PICK c \in Majors(m, p) :
              /\ Offer(m, p).version = v /\ InRange(f, v)
              /\ \A n \in Group(Taken, p, f, c, Key(f, v)) : Offer(n, p).version <= v
      BY <3>1
    <3>3. m \in offered
      BY <2>1, <3>2
    <3>4. ASSUME NEW w \in Line(v), For(w, c) PROVE w <= v
      <4>1. PICK n \in offered : Offer(n, p).version = w /\ c \in Majors(n, p)
        BY <3>4
      <4>2. n \in Group(Taken, p, f, c, Key(f, v))
        BY <2>1, <4>1 DEF Group
      <4> QED
        BY <3>2, <4>1, <4>2
    <3> QED
      BY <3>2, <3>3, <3>4
  <2> QED
    BY <2>3, <2>4
<1>2. UrlOffersVersion
  <2> SUFFICES ASSUME NEW p \in PackageSet, Updated(p), NEW f \in Folders[p],
                      NEW s \in conandata[f]
               PROVE  /\ s[2] \in Taken /\ Offering(s[2], p) # {}
                      /\ Offer(s[2], p).version = s[1]
    BY DEF UrlOffersVersion
  <2>1. s \in Selected(p, f)
    BY UpdatedIsSelected
  <2> QED
    BY <1>a, <2>1, SelectedIsOffered DEF Offerers
<1> QED
  BY <1>1, <1>2 DEF SelectionIsSound

(* Whatever the manifests offer, and in whatever order they arrive: a      *)
(* package that was updated has the newest version of every line, and      *)
(* every one of its versions a source that offers it, although the dicts   *)
(* of _select_versions() are filled in the order of arrival. *)
THEOREM SelectionIsSoundAlways == Spec => []SelectionIsSound
<1>1. Init => NvidiaInv /\ SelectionIsWritten
  BY InitNvidia, InitSelection
<1>2. NvidiaInv /\ SelectionIsWritten /\ [Next]_vars => (NvidiaInv /\ SelectionIsWritten)'
  BY TypeStep, TakenStep, WritingStep, TornStep, SelectionStep DEF NvidiaInv
<1>3. NvidiaInv /\ SelectionIsWritten => SelectionIsSound
  BY SelectionImplies
<1> QED
  BY <1>1, <1>2, <1>3, PTL DEF Spec
-----------------------------------------------------------------------------
(* The script ends: what ScriptEnds says apart from the assumption that it *)
(* and its requests go on.                                                 *)

PhaseOrder(ph) ==
    CASE ph = "listing" -> 0
      [] ph = "fetching" -> 1
      [] ph \in {"writing", "raising"} -> 2
      [] OTHER -> 3

(* What is still before a task that is in state s. *)
Before(s) ==
    CASE s = "waiting" -> {"waiting", "running", "finished"}
      [] s = "running" -> {"running", "finished"}
      [] s = "finished" -> {"finished"}
      [] OTHER -> {}

Outstanding ==
    {x \in Tasks \X {"waiting", "running", "finished"} : x[2] \in Before(task[x[1]])}

OutstandingSteps == Cardinality(Outstanding)

FoldersLeft == Cardinality(AllFolders \ rewritten)

(* Every step leads to the next phase, or a task on, or to the next of the *)
(* packages, or rewrites one of the folders that are left.                 *)
ScriptAdvances ==
    \/ PhaseOrder(phase) < PhaseOrder(phase')
    \/ phase' = phase /\ OutstandingSteps' < OutstandingSteps
    \/ phase' = phase /\ task' = task /\ at < at' /\ at' <= Len(Packages) + 1
    \/ phase' = phase /\ task' = task /\ at' = at /\ FoldersLeft' < FoldersLeft

LEMMA OutstandingType == IsFiniteSet(Outstanding) /\ OutstandingSteps \in Nat
<1>1. IsFiniteSet(Tasks)
  BY NvidiaAssumption, FS_Union DEF Tasks
<1>2. IsFiniteSet({"waiting", "running", "finished"})
  <2>1. IsFiniteSet({"waiting"}) /\ IsFiniteSet({"running"}) /\ IsFiniteSet({"finished"})
    BY FS_Singleton
  <2>2. IsFiniteSet({"waiting"} \cup {"running"})
    BY <2>1, FS_Union
  <2>3. IsFiniteSet(({"waiting"} \cup {"running"}) \cup {"finished"})
    BY <2>1, <2>2, FS_Union
  <2>4. {"waiting", "running", "finished"} = ({"waiting"} \cup {"running"}) \cup {"finished"}
    OBVIOUS
  <2> QED
    BY <2>3, <2>4
<1>3. IsFiniteSet(Tasks \X {"waiting", "running", "finished"})
  BY <1>1, <1>2, FS_Product
<1>4. IsFiniteSet(Outstanding)
  BY <1>3, FS_Subset DEF Outstanding
<1> QED
  BY <1>4, FS_CardinalityType DEF OutstandingSteps

(* A task that moves on leaves fewer steps. *)
LEMMA TaskAdvances ==
    ASSUME TypeOK, NEW t \in Tasks, NEW s, task' = [task EXCEPT ![t] = s],
           Before(s) \subseteq Before(task[t]), Before(s) # Before(task[t])
    PROVE  OutstandingSteps' < OutstandingSteps
<1>1. DOMAIN task = Tasks
  BY DEF TypeOK
<1>2. task'[t] = s /\ \A u \in Tasks \ {t} : task'[u] = task[u]
  BY <1>1
<1>3. Outstanding' \subseteq Outstanding
  BY <1>2 DEF Outstanding
<1>4. PICK k \in Before(task[t]) : k \notin Before(s)
  OBVIOUS
<1>5. k \in {"waiting", "running", "finished"}
  BY <1>4 DEF Before
<1>6. <<t, k>> \in Outstanding /\ <<t, k>> \notin Outstanding'
  BY <1>2, <1>4, <1>5 DEF Outstanding
<1>7. Outstanding' # Outstanding
  BY <1>6
<1>8. IsFiniteSet(Outstanding') /\ Cardinality(Outstanding') <= Cardinality(Outstanding)
      /\ Cardinality(Outstanding') # Cardinality(Outstanding)
  BY <1>3, <1>7, OutstandingType, FS_Subset
<1>9. Cardinality(Outstanding') \in Nat /\ Cardinality(Outstanding) \in Nat
  BY <1>8, OutstandingType, FS_CardinalityType
<1> QED
  BY <1>8, <1>9 DEF OutstandingSteps

LEMMA FoldersLeftType == IsFiniteSet(AllFolders \ rewritten) /\ FoldersLeft \in Nat
<1>1. IsFiniteSet(AllFolders \ rewritten)
  BY NvidiaAssumption, FS_Subset
<1> QED
  BY <1>1, FS_CardinalityType DEF FoldersLeft

LEMMA RewritingAdvances ==
    ASSUME NEW p \in PackageSet, NEW f \in Folders[p], UpdateConandata(p, f)
    PROVE  FoldersLeft' < FoldersLeft
<1>1. f \in AllFolders \ rewritten
  BY DEF AllFolders, UpdateConandata
<1>2. AllFolders \ rewritten' = (AllFolders \ rewritten) \ {f}
  BY DEF UpdateConandata
<1>3. Cardinality((AllFolders \ rewritten) \ {f}) = Cardinality(AllFolders \ rewritten) - 1
  BY <1>1, FoldersLeftType, FS_RemoveElement
<1>4. Cardinality(AllFolders \ rewritten) \in Nat
  BY FoldersLeftType DEF FoldersLeft
<1>5. FoldersLeft = Cardinality(AllFolders \ rewritten)
  BY DEF FoldersLeft
<1>6. FoldersLeft' = Cardinality((AllFolders \ rewritten) \ {f})
  BY <1>2 DEF FoldersLeft
<1> QED
  BY <1>3, <1>4, <1>5, <1>6

(* Whatever the servers answer, and in whatever order: no step of the      *)
(* script goes back, a task is never started twice, and every other step   *)
(* lowers the number of steps that the tasks, the packages or the folders  *)
(* have before them.                                                       *)
THEOREM ScriptGoesOn ==
    Spec => [][/\ OutstandingSteps \in Nat /\ FoldersLeft \in Nat
               /\ ScriptAdvances]_vars
<1>1. ASSUME TypeOK, Next
      PROVE  ScriptAdvances
  <2>1. ASSUME NEW t \in Tasks, StartTask(t)
        PROVE  ScriptAdvances
    <3>1. Before("running") \subseteq Before(task[t]) /\ Before("running") # Before(task[t])
      BY <2>1 DEF StartTask, Before
    <3> QED
      BY <1>1, <2>1, <3>1, TaskAdvances DEF StartTask, ScriptAdvances
  <2>2. ASSUME NEW t \in Tasks, FetchFails(t)
        PROVE  ScriptAdvances
    <3>1. Before("raised") \subseteq Before(task[t]) /\ Before("raised") # Before(task[t])
      BY <2>2 DEF FetchFails, Before
    <3> QED
      BY <1>1, <2>2, <3>1, TaskAdvances DEF FetchFails, ScriptAdvances
  <2>3. ASSUME NEW t \in Tasks, task[t] = "running", phase' = phase,
               task' = [task EXCEPT ![t] = "finished"]
        PROVE  ScriptAdvances
    <3>1. Before("finished") \subseteq Before(task[t]) /\ Before("finished") # Before(task[t])
      BY <2>3 DEF Before
    <3> QED
      BY <1>1, <2>3, <3>1, TaskAdvances DEF ScriptAdvances
  <2>4. ASSUME NEW t \in Tasks, task[t] = "finished", phase' = phase,
               task' = [task EXCEPT ![t] = "taken"]
        PROVE  ScriptAdvances
    <3>1. Before("taken") \subseteq Before(task[t]) /\ Before("taken") # Before(task[t])
      BY <2>4 DEF Before
    <3> QED
      BY <1>1, <2>4, <3>1, TaskAdvances DEF ScriptAdvances
  <2>5. ASSUME NEW b \in Bases, IndexFetched(b) \/ TakeIndex(b)
        PROVE  ScriptAdvances
    BY <2>3, <2>4, <2>5 DEF IndexFetched, TakeIndex, Tasks
  <2>6. ASSUME NEW m \in Manifests, ManifestFetched(m) \/ TakeManifest(m)
        PROVE  ScriptAdvances
    BY <2>3, <2>4, <2>6 DEF ManifestFetched, TakeManifest, Tasks
  <2>7. CASE \/ \E t \in Tasks : ResultRaises(t)
             \/ PoolShutDown
             \/ SubmitManifests
             \/ Audit
             \/ \E p \in PackageSet : \E f \in Folders[p] : SelectionRaises(p, f)
    <3>1. PhaseOrder(phase) < PhaseOrder(phase')
      BY <2>7
      DEF ResultRaises, PoolShutDown, SubmitManifests, Audit, SelectionRaises, Updating,
          PhaseOrder
    <3> QED
      BY <3>1 DEF ScriptAdvances
  <2>8. ASSUME NEW p \in PackageSet, NEW f \in Folders[p], UpdateConandata(p, f)
        PROVE  ScriptAdvances
    BY <2>8, RewritingAdvances DEF UpdateConandata, ScriptAdvances
  <2>9. ASSUME at \in DOMAIN Packages, at' = at + 1, phase' = phase, task' = task
        PROVE  ScriptAdvances
    <3>1. Len(Packages) \in Nat /\ DOMAIN Packages = 1..Len(Packages)
      BY NvidiaAssumption
    <3> QED
      BY <2>9, <3>1 DEF ScriptAdvances
  <2>10. ASSUME NEW p \in PackageSet, UpdateConfig(p)
         PROVE  ScriptAdvances
    BY <2>9, <2>10 DEF UpdateConfig, Updating
  <2>11. CASE NextPackage
    <3>1. CASE at \in DOMAIN Packages /\ at' = at + 1 /\ UNCHANGED phase
      BY <2>9, <2>11, <3>1 DEF NextPackage
    <3>2. CASE phase' = "done"
      BY <2>11, <3>2 DEF NextPackage, ScriptAdvances, PhaseOrder
    <3> QED
      BY <2>11, <3>1, <3>2 DEF NextPackage
  <2> QED
    BY <1>1, <2>1, <2>2, <2>5, <2>6, <2>7, <2>8, <2>10, <2>11 DEF Next
<1>2. TypeOK /\ [Next]_vars
         => [/\ OutstandingSteps \in Nat /\ FoldersLeft \in Nat
             /\ ScriptAdvances]_vars
  BY <1>1, OutstandingType, FoldersLeftType
<1> QED
  BY <1>2, NvidiaTypeCorrect, PTL DEF Spec
=============================================================================
