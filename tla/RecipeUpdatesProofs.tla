------------------------ MODULE RecipeUpdatesProofs -------------------------
(* Proofs about RecipeUpdates: whatever is stopped and run again, for any  *)
(* recipes, releases and things published. *)
EXTENDS RecipeUpdates, NumberLemmas

(***************************************************************************)
(* update-oneapi.py                                                        *)
(***************************************************************************)

(* What the files of the current package are while it is written. *)
BeingWritten ==
    /\ phase = "remove" => rest = selected
    /\ phase \in {"write", "dump"} =>
          /\ DOMAIN files[Recipe] \subseteq selected
          /\ \A v \in selected \ rest :
                v \in DOMAIN files[Recipe] /\ files[Recipe][v] # Torn
    /\ phase \in {"config", "open", "conandata"} =>
          /\ rest = {}
          /\ DOMAIN files[Recipe] = selected
          /\ \A v \in selected : files[Recipe][v] # Torn
    /\ phase \in {"open", "conandata"} => config[Recipe] = selected

(* The inductive invariant. *)
OneApiInv ==
    /\ OneApiTypeOK
    /\ DOMAIN files = OneApiRecipes
    /\ ProcessedIsWhole
    /\ BeingWritten

LEMMA PackagesShape ==
    /\ OneApiPackages \in Seq(OneApiRecipes)
    /\ Len(OneApiPackages) \in Nat \ {0}
    /\ DOMAIN OneApiPackages = 1..Len(OneApiPackages)
    /\ \A i \in DOMAIN OneApiPackages : OneApiPackages[i] \in OneApiRecipes
<1>1. PypiRecipes \subseteq OneApiRecipes
  <2> SUFFICES ASSUME NEW i \in DOMAIN PypiPackages
               PROVE  PypiPackages[i] \in OneApiRecipes
    BY DEF PypiRecipes
  <2>1. i \in DOMAIN OneApiPackages /\ OneApiPackages[i] = PypiPackages[i]
    BY OneApiAssumption DEF OneApiPackages
  <2> QED
    BY <2>1 DEF OneApiRecipes
<1>2. PypiPackages \in Seq(OneApiRecipes) /\ AptPackages \in Seq(OneApiRecipes)
  BY <1>1, OneApiAssumption
<1>3. OneApiPackages \in Seq(OneApiRecipes)
  BY <1>2 DEF OneApiPackages
<1>4. Len(OneApiPackages) = Len(PypiPackages) + Len(AptPackages)
  BY <1>2 DEF OneApiPackages
<1> QED
  BY <1>2, <1>3, <1>4, OneApiAssumption

LEMMA RecipeType ==
    ASSUME OneApiTypeOK, phase # "end"
    PROVE  /\ turn \in DOMAIN OneApiPackages
           /\ Recipe \in OneApiRecipes
BY PackagesShape DEF OneApiTypeOK, Recipe

(* What Intel may publish consists of version numbers. *)
LEMMA CandidatesAreNumbers ==
    ASSUME OneApiTypeOK, phase = "fetch", Answered
    PROVE  Candidates(Recipe) \subseteq Nat /\ SelectVersions(Recipe) \subseteq Nat
<1>1. Recipe \in OneApiRecipes
  BY RecipeType
<1>2. \A i \in 1..Len(answers) : answers[i] \in DOMAIN Upstream
  BY OneApiAssumption DEF OneApiTypeOK
<1>3. CASE IsApt(Recipe)
  <2>1. Len(answers) = Len(Architectures)
    BY <1>3 DEF Answered, Requests
  <2>2. \A i \in DOMAIN Architectures : answers[i] \in DOMAIN Upstream
    BY <1>2, <2>1 DEF Architectures
  <2>3. \A e \in AptIndex : e[2] \in Nat
    BY <2>2, OneApiAssumption DEF AptIndex
  <2>4. \A part \in Namesakes[Recipe] : AptVersions(part) \subseteq Nat
    BY <2>3 DEF AptVersions
  <2> QED
    BY <1>3, <2>4 DEF SelectVersions, Candidates, AptCandidates
<1>4. CASE ~IsApt(Recipe)
  <2>1. Recipe \in PypiRecipes
    BY <1>4 DEF IsApt
  <2>2. Parts[Recipe] \in Seq(PartsOf(Recipe)) /\ Len(Parts[Recipe]) > 0
    BY <1>1, OneApiAssumption
  <2>3. Root(Recipe) \in PartsOf(Recipe)
    BY <2>2 DEF Root
  <2>4. answers[1] \in DOMAIN Upstream
    <3>1. Len(answers) = 1 + Len(Parts[Recipe])
      BY <1>4 DEF Answered, Requests
    <3> QED
      BY <1>2, <2>2, <3>1
  <2>5. RootVersions(Recipe) \subseteq Nat
    BY <2>1, <2>3, <2>4, OneApiAssumption DEF RootVersions
  <2> QED
    BY <1>4, <2>5 DEF SelectVersions, Candidates
<1> QED
  BY <1>3, <1>4

LEMMA CurrentType ==
    ASSUME OneApiTypeOK, rest # {}
    PROVE  Current \in rest /\ Current \in Nat /\ Current \in selected
<1>1. rest \in SUBSET Nat
  BY DEF OneApiTypeOK
<1>2. \E v \in rest : \A w \in rest : v <= w
  BY <1>1, HasMinimum
<1> QED
  BY <1>1, <1>2 DEF Current, OneApiTypeOK

LEMMA SourcesAreNotTorn ==
    ASSUME NEW p, NEW v
    PROVE  SourcesOf(p, v) # Torn
<1>1. DOMAIN Torn = {}
  BY DEF Torn
<1>2. DOMAIN SourcesOf(p, v) # {}
  BY DEF SourcesOf, AptSources, PypiSources, Platforms
<1> QED
  BY <1>1, <1>2

LEMMA InitOneApi == OneApiInit => OneApiInv
<1> SUFFICES ASSUME OneApiInit PROVE OneApiInv
  OBVIOUS
<1> USE DEF OneApiInit
<1>1. config \in [OneApiRecipes -> SUBSET Nat] /\ conandata \in [OneApiRecipes -> SUBSET Nat]
  BY OneApiAssumption
<1>2. turn \in 1..(Len(OneApiPackages) + 1) /\ ~(turn > Len(OneApiPackages))
  BY PackagesShape
<1>3. now \in DOMAIN Upstream /\ begun \in 1..now /\ answers \in Seq(1..now)
  BY OneApiAssumption
<1>4. OneApiTypeOK
  BY <1>1, <1>2, <1>3, OneApiAssumption DEF OneApiTypeOK
<1>5. ProcessedIsWhole
  BY DEF ProcessedIsWhole, Processed
<1> QED
  BY <1>4, <1>5, OneApiAssumption DEF OneApiInv, BeingWritten

(* An invocation that ends early has processed nothing, and touches no     *)
(* file any more. *)
LEMMA EndingKeepsInv ==
    ASSUME OneApiInv, NEW how \in {"failed", "stopped"}, EndsOneApi(how)
    PROVE  OneApiInv'
<1>1. turn' \in 1..(Len(OneApiPackages) + 1) /\ ~(turn' > Len(OneApiPackages))
  BY PackagesShape DEF EndsOneApi
<1>2. answers' \in Seq(1..now')
  BY DEF EndsOneApi
<1>3. OneApiTypeOK'
  BY <1>1, <1>2 DEF OneApiInv, OneApiTypeOK, EndsOneApi
<1>4. ProcessedIsWhole'
  BY DEF ProcessedIsWhole, Processed, EndsOneApi
<1> QED
  BY <1>3, <1>4 DEF OneApiInv, BeingWritten, EndsOneApi

(* A step that changes the files of the current recipe leaves those before *)
(* it whole. *)
LEMMA OthersStayWhole ==
    ASSUME OneApiInv, phase \notin {"idle", "end"}, phase' # "idle", turn' = turn,
           \A p \in OneApiRecipes \ {Recipe} :
               /\ files'[p] = files[p]
               /\ config'[p] = config[p]
               /\ conandata'[p] = conandata[p]
    PROVE  ProcessedIsWhole'
<1> SUFFICES ASSUME NEW p \in Processed' PROVE IsWhole(p)'
  BY DEF ProcessedIsWhole
<1>1. PICK j \in DOMAIN OneApiPackages : j < turn /\ p = OneApiPackages[j]
  BY DEF Processed
<1>2. p \in Processed /\ p \in OneApiRecipes
  BY <1>1, PackagesShape DEF Processed
<1>3. p # Recipe
  BY <1>1, RecipeType, OneApiAssumption, PackagesShape DEF OneApiInv, Recipe
<1> QED
  BY <1>2, <1>3 DEF OneApiInv, ProcessedIsWhole, IsWhole

LEMMA StepOneApi == OneApiInv /\ [OneApiNext]_oneApiVars => OneApiInv'
<1> SUFFICES ASSUME OneApiInv, [OneApiNext]_oneApiVars PROVE OneApiInv'
  OBVIOUS
<1>a. OneApiTypeOK /\ DOMAIN files = OneApiRecipes /\ ProcessedIsWhole /\ BeingWritten
  BY DEF OneApiInv
<1>b. phase # "end" => turn \in DOMAIN OneApiPackages /\ Recipe \in OneApiRecipes
  BY <1>a, RecipeType
<1>1. CASE Publish
  <2>1. now' \in DOMAIN Upstream /\ begun' \in 1..now'
    BY <1>1, <1>a, OneApiAssumption DEF Publish, OneApiTypeOK
  <2>2. answers' \in Seq(1..now')
    <3>1. 1..now \subseteq 1..now'
      BY <1>1, <1>a, OneApiAssumption DEF Publish, OneApiTypeOK
    <3> QED
      BY <1>1, <1>a, <3>1 DEF Publish, OneApiTypeOK
  <2>3. OneApiTypeOK'
    BY <1>1, <1>a, <2>1, <2>2 DEF Publish, OneApiTypeOK
  <2>4. ProcessedIsWhole'
    BY <1>1, <1>a DEF Publish, ProcessedIsWhole, Processed, IsWhole
  <2> QED
    BY <1>1, <1>a, <2>3, <2>4 DEF OneApiInv, BeingWritten, Publish, Recipe
<1>2. CASE InvokeOneApi
  <2>1. turn' \in 1..(Len(OneApiPackages) + 1) /\ ~(turn' > Len(OneApiPackages))
    BY <1>2, PackagesShape DEF InvokeOneApi
  <2>2. begun' \in 1..now' /\ runs' \in 0..MaxRuns
    BY <1>2, <1>a, OneApiAssumption DEF InvokeOneApi, OneApiTypeOK
  <2>3. OneApiTypeOK'
    BY <1>2, <1>a, <2>1, <2>2 DEF InvokeOneApi, OneApiTypeOK
  <2>4. Processed' = {}
    BY <1>2, PackagesShape DEF InvokeOneApi, Processed
  <2> QED
    BY <1>2, <1>a, <2>3, <2>4
    DEF OneApiInv, BeingWritten, InvokeOneApi, ProcessedIsWhole
<1>3. CASE ListPackages
  <2>1. OneApiTypeOK'
    BY <1>3, <1>a DEF ListPackages, OneApiTypeOK
  <2>2. ProcessedIsWhole'
    BY <1>3, OthersStayWhole DEF ListPackages
  <2> QED
    BY <1>3, <1>a, <2>1, <2>2 DEF OneApiInv, BeingWritten, ListPackages
<1>4. CASE NewMklRaises \/ RequestFails \/ BuildRaises \/ StopOneApi
  BY <1>4, EndingKeepsInv DEF NewMklRaises, RequestFails, BuildRaises, StopOneApi
<1>5. CASE Request
  <2>1. answers' \in Seq(1..now')
    BY <1>5, <1>a, OneApiAssumption DEF Request, OneApiTypeOK
  <2>2. OneApiTypeOK'
    BY <1>5, <1>a, <2>1 DEF Request, OneApiTypeOK
  <2>3. ProcessedIsWhole'
    BY <1>5, OthersStayWhole DEF Request
  <2> QED
    BY <1>5, <1>a, <2>2, <2>3 DEF OneApiInv, BeingWritten, Request
<1>6. CASE Select
  <2>1. selected' \subseteq Nat
    BY <1>6, <1>a, CandidatesAreNumbers DEF Select
  <2>2. OneApiTypeOK'
    BY <1>6, <1>a, <2>1 DEF Select, OneApiTypeOK
  <2>3. ProcessedIsWhole'
    BY <1>6, OthersStayWhole DEF Select
  <2> QED
    BY <1>6, <1>a, <2>2, <2>3 DEF OneApiInv, BeingWritten, Select
<1>7. ASSUME NEW v \in OldSources, Unlink(v) PROVE OneApiInv'
  <2>1. \A p \in OneApiRecipes : DOMAIN files'[p] \subseteq Nat
    BY <1>7, <1>a, <1>b DEF Unlink, Without, OneApiTypeOK
  <2>2. OneApiTypeOK'
    BY <1>7, <1>a, <2>1 DEF Unlink, OneApiTypeOK
  <2>3. ProcessedIsWhole'
    BY <1>7, <1>a, OthersStayWhole DEF Unlink
  <2> QED
    BY <1>7, <1>a, <2>2, <2>3 DEF OneApiInv, BeingWritten, Unlink
<1>8. CASE Removed
  <2>1. OneApiTypeOK'
    BY <1>8, <1>a DEF Removed, OneApiTypeOK
  <2>2. ProcessedIsWhole'
    BY <1>8, OthersStayWhole DEF Removed
  <2>3. DOMAIN files[Recipe] \subseteq selected
    BY <1>8 DEF Removed, OldSources
  <2>4. \A v \in selected \ rest :
           v \in DOMAIN files[Recipe] /\ files[Recipe][v] # Torn
    BY <1>8, <1>a DEF Removed, BeingWritten
  <2> QED
    BY <1>8, <1>a, <2>1, <2>2, <2>3, <2>4 DEF OneApiInv, BeingWritten, Removed, Recipe
<1>9. CASE OpenFile
  <2>1. Current \in rest /\ Current \in Nat /\ Current \in selected
    BY <1>9, <1>a, CurrentType DEF OpenFile
  <2>2. files'[Recipe] = With(files[Recipe], Current, Torn)
    BY <1>9, <1>a, <1>b DEF OpenFile
  <2>3. \A p \in OneApiRecipes : DOMAIN files'[p] \subseteq Nat
    BY <1>9, <1>a, <1>b, <2>1 DEF OpenFile, With, OneApiTypeOK
  <2>4. OneApiTypeOK'
    BY <1>9, <1>a, <2>3 DEF OpenFile, OneApiTypeOK
  <2>5. ProcessedIsWhole'
    BY <1>9, <1>a, OthersStayWhole DEF OpenFile
  <2>6. BeingWritten'
    <3>1. Recipe' = Recipe
      BY <1>9 DEF OpenFile, Recipe
    <3>2. DOMAIN files'[Recipe] \subseteq selected
      BY <1>9, <1>a, <2>1, <2>2 DEF OpenFile, With, BeingWritten
    <3>3. \A v \in selected \ rest :
             v \in DOMAIN files'[Recipe] /\ files'[Recipe][v] # Torn
      BY <1>9, <1>a, <2>1, <2>2 DEF OpenFile, With, BeingWritten
    <3> QED
      BY <1>9, <3>1, <3>2, <3>3 DEF OpenFile, BeingWritten
  <2> QED
    BY <1>9, <1>a, <2>4, <2>5, <2>6 DEF OneApiInv, OpenFile
<1>10. CASE DumpFile
  <2>1. Current \in rest /\ Current \in Nat /\ Current \in selected
    BY <1>10, <1>a, CurrentType DEF DumpFile, OneApiTypeOK
  <2> DEFINE s == SourcesOf(Recipe, Current)
  <2>2. files'[Recipe] = With(files[Recipe], Current, s) /\ s # Torn
    BY <1>10, <1>a, <1>b, SourcesAreNotTorn DEF DumpFile
  <2> HIDE DEF s
  <2>3. \A p \in OneApiRecipes : DOMAIN files'[p] \subseteq Nat
    BY <1>10, <1>a, <1>b, <2>1 DEF DumpFile, With, OneApiTypeOK
  <2>4. OneApiTypeOK'
    BY <1>10, <1>a, <2>3 DEF DumpFile, OneApiTypeOK
  <2>5. ProcessedIsWhole'
    BY <1>10, <1>a, OthersStayWhole DEF DumpFile
  <2>6. BeingWritten'
    <3>1. Recipe' = Recipe
      BY <1>10 DEF DumpFile, Recipe
    <3>2. DOMAIN files'[Recipe] \subseteq selected
      BY <1>10, <1>a, <2>1, <2>2 DEF DumpFile, With, BeingWritten
    <3>3. \A v \in selected \ rest' :
             v \in DOMAIN files'[Recipe] /\ files'[Recipe][v] # Torn
      BY <1>10, <1>a, <2>1, <2>2 DEF DumpFile, With, BeingWritten
    <3> QED
      BY <1>10, <3>1, <3>2, <3>3 DEF DumpFile, BeingWritten
  <2> QED
    BY <1>10, <1>a, <2>4, <2>5, <2>6 DEF OneApiInv, DumpFile
<1>11. CASE OpenConfigYml
  <2>1. OneApiTypeOK'
    BY <1>11, <1>a DEF OpenConfigYml, OneApiTypeOK
  <2>2. ProcessedIsWhole'
    BY <1>11, <1>a, OthersStayWhole DEF OpenConfigYml, OneApiTypeOK
  <2>3. DOMAIN files[Recipe] = selected /\ \A v \in selected : files[Recipe][v] # Torn
    BY <1>11, <1>a DEF OpenConfigYml, BeingWritten
  <2> QED
    BY <1>11, <1>a, <2>1, <2>2, <2>3 DEF OneApiInv, BeingWritten, OpenConfigYml, Recipe
<1>12. CASE WriteConfigYml
  <2>1. OneApiTypeOK'
    BY <1>12, <1>a DEF WriteConfigYml, OneApiTypeOK
  <2>2. ProcessedIsWhole'
    BY <1>12, <1>a, OthersStayWhole DEF WriteConfigYml, OneApiTypeOK
  <2>3. config'[Recipe] = selected
    BY <1>12, <1>a, <1>b DEF WriteConfigYml, OneApiTypeOK
  <2> QED
    BY <1>12, <1>a, <2>1, <2>2, <2>3 DEF OneApiInv, BeingWritten, WriteConfigYml, Recipe
<1>13. CASE OpenConandataYml
  <2>1. OneApiTypeOK'
    BY <1>13, <1>a DEF OpenConandataYml, OneApiTypeOK
  <2>2. ProcessedIsWhole'
    BY <1>13, <1>a, OthersStayWhole DEF OpenConandataYml, OneApiTypeOK
  <2> QED
    BY <1>13, <1>a, <2>1, <2>2 DEF OneApiInv, BeingWritten, OpenConandataYml, Recipe
<1>14. CASE WriteConandataYml
  <2>0. /\ phase = "conandata"
        /\ conandata' = [conandata EXCEPT ![Recipe] = selected]
        /\ turn' = turn + 1
        /\ answers' \in {answers, <<>>}
        /\ selected' = {}
        /\ phase' = IF turn = Len(OneApiPackages) THEN "end" ELSE "fetch"
        /\ UNCHANGED <<now, rest, files, config, outcome, begun, runs>>
    BY <1>14, Zenon DEF WriteConandataYml
  <2>1. turn \in 1..Len(OneApiPackages) /\ Len(OneApiPackages) \in Nat
    BY <2>0, <1>b, PackagesShape
  <2>2. answers' \in Seq(1..now')
    <3>1. answers \in Seq(1..now) /\ <<>> \in Seq(1..now)
      BY <1>a DEF OneApiTypeOK
    <3>2. answers' \in {answers, <<>>} /\ now' = now
      BY <2>0
    <3> QED
      BY <3>1, <3>2
  <2>3. OneApiTypeOK'
    <3>1. phase' \in {"end", "fetch"} /\ (phase' = "end" <=> turn = Len(OneApiPackages))
      BY <2>0
    <3>2. turn' \in 1..(Len(OneApiPackages) + 1)
          /\ (turn' > Len(OneApiPackages) <=> phase' = "end")
      BY <2>0, <2>1, <3>1
    <3>3. conandata' \in [OneApiRecipes -> SUBSET Nat]
      BY <2>0, <1>a DEF OneApiTypeOK
    <3>4. rest' = {} /\ selected' = {}
      BY <2>0, <1>a DEF BeingWritten
    <3> QED
      BY <2>0, <1>a, <2>2, <3>1, <3>2, <3>3, <3>4 DEF OneApiTypeOK
  <2>4. ASSUME NEW p \in OneApiRecipes, p = Recipe PROVE IsWhole(p)'
    <3>1. config[p] = selected /\ DOMAIN files[p] = selected
          /\ \A v \in selected : files[p][v] # Torn
      BY <2>0, <2>4, <1>a DEF BeingWritten
    <3>2. conandata'[p] = selected
      BY <2>0, <2>4, <1>a DEF OneApiTypeOK
    <3> QED
      BY <2>0, <3>1, <3>2 DEF IsWhole
  <2>5. ProcessedIsWhole'
    <3> SUFFICES ASSUME NEW p \in Processed' PROVE IsWhole(p)'
      BY DEF ProcessedIsWhole
    <3>1. PICK j \in DOMAIN OneApiPackages : j < turn' /\ p = OneApiPackages[j]
      <4>1. phase' # "idle"
        BY <2>0
      <4> QED
        BY <4>1 DEF Processed
    <3>2. CASE j = turn
      BY <2>4, <3>1, <3>2, PackagesShape DEF Recipe
    <3>3. CASE j # turn
      <4>1. j < turn /\ p \in OneApiRecipes
        <5>1. j \in 1..Len(OneApiPackages)
          BY PackagesShape
        <5>2. j < turn
          BY <2>0, <2>1, <3>1, <3>3, <5>1
        <5> QED
          BY <3>1, <5>2, PackagesShape
      <4>2. p # Recipe
        BY <1>b, <2>0, <3>1, <3>3, OneApiAssumption DEF Recipe
      <4>3. IsWhole(p)
        BY <2>0, <1>a, <3>1, <4>1 DEF ProcessedIsWhole, Processed
      <4> QED
        BY <2>0, <1>a, <4>1, <4>2, <4>3 DEF IsWhole, WriteConandataYml, OneApiTypeOK
    <3> QED
      BY <3>2, <3>3
  <2> QED
    BY <2>0, <1>a, <2>3, <2>5 DEF OneApiInv, BeingWritten
<1>15. CASE FinishOneApi
  <2>1. turn' \in 1..(Len(OneApiPackages) + 1) /\ ~(turn' > Len(OneApiPackages))
    BY <1>15, PackagesShape DEF FinishOneApi, EndsOneApi
  <2>2. OneApiTypeOK'
    BY <1>15, <1>a, <2>1 DEF FinishOneApi, EndsOneApi, OneApiTypeOK
  <2>3. ProcessedIsWhole'
    <3>1. \A j \in DOMAIN OneApiPackages : j < turn
      BY <1>15, <1>a, PackagesShape DEF FinishOneApi, OneApiTypeOK
    <3>2. Processed' \subseteq Processed
      BY <1>15, <3>1 DEF Processed, FinishOneApi
    <3> QED
      BY <1>15, <1>a, <3>2 DEF ProcessedIsWhole, IsWhole, FinishOneApi, EndsOneApi
  <2> QED
    BY <1>15, <1>a, <2>2, <2>3 DEF OneApiInv, BeingWritten, FinishOneApi, EndsOneApi
<1>16. CASE UNCHANGED oneApiVars
  BY <1>16, <1>a
  DEF oneApiVars, OneApiInv, OneApiTypeOK, ProcessedIsWhole, Processed, IsWhole,
      BeingWritten, Recipe
<1> QED
  BY <1>1, <1>2, <1>3, <1>4, <1>5, <1>6, <1>7, <1>8, <1>9, <1>10, <1>11, <1>12,
     <1>13, <1>14, <1>15, <1>16 DEF OneApiNext
(* The mapping of OneApiMaintenance. *)
OneApiStatus ==
    IF phase # "idle" THEN "running"
    ELSE CASE outcome = "none" -> "idle"
           [] outcome = "done" -> "done"
           [] OTHER -> "stopped"

OneApiComplete ==
    [p \in OneApiRecipes |->
        {v \in config[p] \cap conandata[p] \cap DOMAIN files[p] : files[p][v] # Torn}]

LEMMA OneApiMapped ==
    ASSUME OneApiTypeOK
    PROVE  config \in [OneApiRecipes -> SUBSET Nat]
           /\ OneApiComplete \in [OneApiRecipes -> SUBSET Nat]
BY DEF OneApiTypeOK, OneApiComplete

(* A step that changes at most one recipe is an Edit or a stutter of the   *)
(* abstract specification. *)
LEMMA OneApiEdits ==
    ASSUME OneApiTypeOK, OneApiTypeOK', phase # "idle", phase' # "idle",
           NEW r \in OneApiRecipes,
           \A p \in OneApiRecipes \ {r} :
               /\ files'[p] = files[p]
               /\ config'[p] = config[p]
               /\ conandata'[p] = conandata[p]
    PROVE  OneApiMaintenance!Edit(r)
<1>1. OneApiStatus = "running" /\ OneApiStatus' = "running"
  BY DEF OneApiStatus
<1>2. config' \in [OneApiRecipes -> SUBSET Nat]
      /\ OneApiComplete' \in [OneApiRecipes -> SUBSET Nat]
  BY OneApiMapped DEF OneApiTypeOK, OneApiComplete
<1>3. \A p \in OneApiRecipes \ {r} : OneApiComplete'[p] = OneApiComplete[p]
  BY DEF OneApiComplete
<1> QED
  BY <1>1, <1>2, <1>3
  DEF OneApiMaintenance!Edit, OneApiMaintenance!PerRecipe, OneApiStatus, OneApiComplete

LEMMA OneApiRefines ==
    OneApiInv /\ OneApiInv' /\ [OneApiNext]_oneApiVars
        => [OneApiMaintenance!Next]_(OneApiMaintenance!vars)
<1> SUFFICES ASSUME OneApiInv, OneApiInv', [OneApiNext]_oneApiVars
             PROVE  [OneApiMaintenance!Next]_(OneApiMaintenance!vars)
  OBVIOUS
<1>a. OneApiTypeOK /\ OneApiTypeOK' /\ ProcessedIsWhole /\ DOMAIN files = OneApiRecipes
  BY DEF OneApiInv
<1>b. phase \notin {"end"} => Recipe \in OneApiRecipes
  BY <1>a, RecipeType
<1>c. ASSUME UNCHANGED <<OneApiStatus, config, OneApiComplete>>
      PROVE  UNCHANGED OneApiMaintenance!vars
  BY <1>c DEF OneApiMaintenance!vars, OneApiStatus, OneApiComplete
<1>1. CASE Publish
  <2>1. UNCHANGED <<OneApiStatus, config, OneApiComplete>>
    BY <1>1 DEF Publish, OneApiStatus, OneApiComplete
  <2> QED
    BY <1>c, <2>1
<1>2. CASE InvokeOneApi
  <2>1. UNCHANGED OneApiComplete /\ config' \in [OneApiRecipes -> SUBSET Nat]
    BY <1>2, <1>a DEF InvokeOneApi, OneApiComplete, OneApiTypeOK
  <2>2. OneApiStatus # "running" /\ OneApiStatus' = "running"
    BY <1>2, <1>a DEF InvokeOneApi, OneApiStatus, OneApiTypeOK
  <2>3. OneApiMaintenance!Begin
    BY <2>1, <2>2
    DEF OneApiMaintenance!Begin, OneApiMaintenance!PerRecipe, OneApiStatus, OneApiComplete
  <2> QED
    BY <2>3 DEF OneApiMaintenance!Next
<1>3. CASE ListPackages \/ Request \/ Select \/ Removed
  <2>1. UNCHANGED <<OneApiStatus, config, OneApiComplete>>
    BY <1>3 DEF ListPackages, Request, Select, Removed, OneApiStatus, OneApiComplete
  <2> QED
    BY <1>c, <2>1
<1>4. ASSUME NEW how \in {"failed", "stopped"}, phase # "idle", EndsOneApi(how)
      PROVE  OneApiMaintenance!Next
  <2>1. OneApiStatus = "running" /\ OneApiStatus' = "stopped"
    BY <1>4 DEF EndsOneApi, OneApiStatus
  <2>2. UNCHANGED <<config, OneApiComplete>>
    BY <1>4 DEF EndsOneApi, OneApiComplete
  <2>3. OneApiMaintenance!GiveUp
    BY <2>1, <2>2 DEF OneApiMaintenance!GiveUp, OneApiStatus, OneApiComplete
  <2> QED
    BY <2>3 DEF OneApiMaintenance!Next
<1>5. CASE NewMklRaises \/ RequestFails \/ BuildRaises \/ StopOneApi
  BY <1>4, <1>5 DEF NewMklRaises, RequestFails, BuildRaises, StopOneApi
<1>6. ASSUME NEW r \in OneApiRecipes, OneApiMaintenance!Edit(r)
      PROVE  OneApiMaintenance!Next
  BY <1>6 DEF OneApiMaintenance!Next
<1>7. ASSUME NEW v \in OldSources, Unlink(v) PROVE OneApiMaintenance!Next
  BY <1>a, <1>b, <1>6, <1>7, OneApiEdits DEF Unlink
<1>8. CASE OpenFile
  BY <1>a, <1>b, <1>6, <1>8, OneApiEdits DEF OpenFile
<1>9. CASE DumpFile
  BY <1>a, <1>b, <1>6, <1>9, OneApiEdits DEF DumpFile
<1>10. CASE OpenConfigYml
  BY <1>a, <1>b, <1>6, <1>10, OneApiEdits DEF OpenConfigYml, OneApiTypeOK
<1>11. CASE WriteConfigYml
  BY <1>a, <1>b, <1>6, <1>11, OneApiEdits DEF WriteConfigYml, OneApiTypeOK
<1>12. CASE OpenConandataYml
  BY <1>a, <1>b, <1>6, <1>12, OneApiEdits DEF OpenConandataYml, OneApiTypeOK
<1>13. CASE WriteConandataYml
  <2>1. /\ phase = "conandata"
        /\ conandata' = [conandata EXCEPT ![Recipe] = selected]
        /\ phase' = IF turn = Len(OneApiPackages) THEN "end" ELSE "fetch"
        /\ UNCHANGED <<files, config>>
    BY <1>13, Zenon DEF WriteConandataYml
  <2>2. phase' # "idle"
    BY <2>1
  <2> QED
    BY <1>a, <1>b, <1>6, <2>1, <2>2, OneApiEdits DEF OneApiTypeOK
<1>14. CASE FinishOneApi
  <2>1. OneApiStatus = "running" /\ OneApiStatus' = "done"
    BY <1>14 DEF FinishOneApi, EndsOneApi, OneApiStatus
  <2>2. UNCHANGED <<config, OneApiComplete>>
    BY <1>14 DEF FinishOneApi, EndsOneApi, OneApiComplete
  <2>3. \A p \in OneApiRecipes : config[p] \subseteq OneApiComplete[p]
    <3> SUFFICES ASSUME NEW p \in OneApiRecipes PROVE config[p] \subseteq OneApiComplete[p]
      OBVIOUS
    <3>1. PICK j \in DOMAIN OneApiPackages : p = OneApiPackages[j]
      BY DEF OneApiRecipes
    <3>2. j < turn
      BY <1>14, <1>a, PackagesShape DEF FinishOneApi, OneApiTypeOK
    <3>3. IsWhole(p)
      BY <1>14, <1>a, <3>1, <3>2 DEF ProcessedIsWhole, Processed, FinishOneApi
    <3> QED
      BY <3>3 DEF IsWhole, OneApiComplete
  <2>4. OneApiMaintenance!Finish
    BY <2>1, <2>2, <2>3 DEF OneApiMaintenance!Finish, OneApiStatus, OneApiComplete
  <2> QED
    BY <2>4 DEF OneApiMaintenance!Next
<1>15. CASE UNCHANGED oneApiVars
  <2>1. UNCHANGED <<OneApiStatus, config, OneApiComplete>>
    BY <1>15 DEF oneApiVars, OneApiStatus, OneApiComplete
  <2> QED
    BY <1>c, <2>1
<1> QED
  BY <1>1, <1>2, <1>3, <1>5, <1>7, <1>8, <1>9, <1>10, <1>11, <1>12, <1>13, <1>14,
     <1>15 DEF OneApiNext

(* Sources that Conan can use, for one version. *)
HasAllParts(p, s) ==
    /\ IsApt(p) => PartsOf(p) \ OptionalParts \subseteq s["Linux"]
    /\ p \in CompleteSets => \A platform \in Platforms :
          s[platform] = PartsOf(p) \ (IF platform \in DOMAIN Excluded[p]
                                      THEN Excluded[p][platform] ELSE {})

(* The files that the first invocation found. *)
OldSourcesAreComplete ==
    \A p \in OneApiRecipes : \A v \in DOMAIN OldFiles[p] :
        OldFiles[p][v] # Torn => HasAllParts(p, OldFiles[p][v])

(* What is selected stays complete until its file is written: the answers  *)
(* are those that it was selected from. *)
SelectedIsComplete ==
    /\ phase \in {"remove", "write", "dump"} => selected \subseteq Candidates(Recipe)
    /\ phase = "dump" => ~PartMissing(Recipe, Current)

CompleteInv ==
    /\ OneApiInv
    /\ SelectedIsComplete
    /\ \A p \in OneApiRecipes : \A v \in DOMAIN files[p] :
          files[p][v] # Torn => HasAllParts(p, files[p][v])

LEMMA CompleteIsComplete == CompleteInv => SourcesAreComplete
BY Zenon DEF CompleteInv, SourcesAreComplete, HasAllParts

LEMMA SelectedHasAllParts ==
    ASSUME NEW p, NEW v \in Candidates(p), ~PartMissing(p, v)
    PROVE  HasAllParts(p, SourcesOf(p, v))
<1>1. CASE IsApt(p)
  <2>1. SourcesOf(p, v) = AptSources(p, v) /\ p \notin CompleteSets
    BY <1>1, OneApiAssumption DEF SourcesOf, IsApt
  <2>2. AptSources(p, v)["Linux"] = {part \in PartsOf(p) : AptPart(part, v)}
    BY DEF AptSources
  <2>3. \A part \in PartsOf(p) \ OptionalParts : AptPart(part, v)
    BY <1>1, Zenon DEF PartMissing
  <2>4. PartsOf(p) \ OptionalParts \subseteq {part \in PartsOf(p) : AptPart(part, v)}
    BY <2>3, Zenon
  <2> QED
    BY <2>1, <2>2, <2>4 DEF HasAllParts
<1>2. CASE ~IsApt(p)
  <2>1. SourcesOf(p, v) = PypiSources(p, v) /\ IsCompleteSet(p, v)
    BY <1>2 DEF SourcesOf, Candidates
  <2> QED
    BY <1>2, <2>1 DEF HasAllParts, IsCompleteSet
<1> QED
  BY <1>1, <1>2

LEMMA InitComplete == OldSourcesAreComplete /\ OneApiInit => CompleteInv
BY InitOneApi DEF OldSourcesAreComplete, OneApiInit, CompleteInv, SelectedIsComplete

LEMMA StepComplete == CompleteInv /\ [OneApiNext]_oneApiVars => CompleteInv'
<1> SUFFICES ASSUME CompleteInv, [OneApiNext]_oneApiVars
             PROVE  /\ SelectedIsComplete'
                    /\ \A p \in OneApiRecipes : \A v \in DOMAIN files'[p] :
                          files'[p][v] # Torn => HasAllParts(p, files'[p][v])
  BY StepOneApi DEF CompleteInv, HasAllParts
<1>a. OneApiTypeOK /\ SelectedIsComplete /\ DOMAIN files = OneApiRecipes
      /\ \A p \in OneApiRecipes : \A v \in DOMAIN files[p] :
            files[p][v] # Torn => HasAllParts(p, files[p][v])
  BY DEF CompleteInv, OneApiInv
<1>1. ASSUME NEW how, EndsOneApi(how)
      PROVE  SelectedIsComplete' /\ files' = files
  BY <1>1 DEF EndsOneApi, SelectedIsComplete
<1>2. CASE NewMklRaises \/ RequestFails \/ BuildRaises \/ FinishOneApi \/ StopOneApi
  BY <1>1, <1>2, <1>a DEF NewMklRaises, RequestFails, BuildRaises, FinishOneApi, StopOneApi
<1>3. CASE InvokeOneApi \/ ListPackages \/ Request \/ OpenConfigYml \/ WriteConfigYml
           \/ OpenConandataYml
  <2>1. phase' \notin {"remove", "write", "dump"} /\ files' = files
    BY <1>3 DEF InvokeOneApi, ListPackages, Request, OpenConfigYml, WriteConfigYml,
                OpenConandataYml
  <2> QED
    BY <1>a, <2>1 DEF SelectedIsComplete
<1>4. CASE WriteConandataYml
  <2>1. phase' \in {"end", "fetch"} /\ files' = files
    <3>1. /\ phase' = IF turn = Len(OneApiPackages) THEN "end" ELSE "fetch"
          /\ UNCHANGED files
      BY <1>4, Zenon DEF WriteConandataYml
    <3> QED
      BY <3>1
  <2> QED
    BY <1>a, <2>1 DEF SelectedIsComplete
<1>b. ASSUME UNCHANGED <<turn, answers, selected>>
      PROVE  Recipe' = Recipe /\ Candidates(Recipe)' = Candidates(Recipe)
             /\ \A v : PartMissing(Recipe, v)' <=> PartMissing(Recipe, v)
  BY <1>b DEF Recipe, Candidates, AptCandidates, RootVersions, IsCompleteSet, PypiSources, Published,
              AptVersions, AptIndex, PartMissing, AptPart
<1>5. CASE Publish \/ UNCHANGED oneApiVars
  <2>1. UNCHANGED <<phase, turn, answers, selected, rest, files>>
    BY <1>5 DEF Publish, oneApiVars
  <2>2. Current' = Current
    BY <2>1 DEF Current
  <2> QED
    BY <1>a, <1>b, <2>1, <2>2 DEF SelectedIsComplete
<1>6. CASE Select
  <2>1. /\ selected' = SelectVersions(Recipe) /\ phase' = "remove"
        /\ UNCHANGED <<turn, answers, files>>
    BY <1>6 DEF Select
  <2>2. Recipe' = Recipe /\ Candidates(Recipe)' = Candidates(Recipe)
    BY <2>1 DEF Recipe, Candidates, AptCandidates, RootVersions, IsCompleteSet, PypiSources, Published,
                AptVersions, AptIndex
  <2>3. selected' \subseteq Candidates(Recipe)
    BY <2>1 DEF SelectVersions
  <2> QED
    BY <1>a, <2>1, <2>2, <2>3 DEF SelectedIsComplete
<1>7. ASSUME NEW v \in OldSources, Unlink(v)
      PROVE  SelectedIsComplete' /\ \A p \in OneApiRecipes : \A w \in DOMAIN files'[p] :
                files'[p][w] # Torn => HasAllParts(p, files'[p][w])
  <2>1. /\ phase = "remove" /\ UNCHANGED <<phase, turn, answers, selected>>
        /\ files' = [files EXCEPT ![Recipe] = Without(@, v)]
    BY <1>7 DEF Unlink
  <2>2. ASSUME NEW p \in OneApiRecipes, NEW w \in DOMAIN files'[p]
        PROVE  w \in DOMAIN files[p] /\ files'[p][w] = files[p][w]
    BY <1>a, <2>1 DEF Without
  <2> QED
    BY <1>a, <1>b, <2>1, <2>2 DEF SelectedIsComplete
<1>8. CASE Removed
  <2>1. phase = "remove" /\ phase' = "write" /\ UNCHANGED <<turn, answers, selected, files>>
    BY <1>8 DEF Removed
  <2> QED
    BY <1>a, <1>b, <2>1 DEF SelectedIsComplete
<1>c. Recipe \in OneApiRecipes \/ phase = "end"
  BY <1>a, RecipeType
<1>9. CASE OpenFile
  <2>1. /\ phase = "write" /\ phase' = "dump" /\ ~PartMissing(Recipe, Current)
        /\ UNCHANGED <<turn, answers, selected, rest>>
        /\ files' = [files EXCEPT ![Recipe] = With(@, Current, Torn)]
    BY <1>9 DEF OpenFile
  <2>2. Current' = Current
    BY <2>1 DEF Current
  <2>3. ASSUME NEW p \in OneApiRecipes, NEW w \in DOMAIN files'[p], files'[p][w] # Torn
        PROVE  w \in DOMAIN files[p] /\ files'[p][w] = files[p][w]
    BY <1>a, <1>c, <2>1, <2>3 DEF With
  <2> QED
    BY <1>a, <1>b, <2>1, <2>2, <2>3 DEF SelectedIsComplete
<1>10. CASE DumpFile
  <2> DEFINE s == SourcesOf(Recipe, Current)
  <2>1. /\ phase = "dump" /\ phase' = "write"
        /\ UNCHANGED <<turn, answers, selected>>
        /\ files' = [files EXCEPT ![Recipe] = With(@, Current, s)]
    BY <1>10 DEF DumpFile
  <2>2. Current \in Candidates(Recipe) /\ ~PartMissing(Recipe, Current)
    BY <1>a, <2>1, CurrentType DEF SelectedIsComplete, OneApiTypeOK
  <2>3. HasAllParts(Recipe, s)
    BY <2>2, SelectedHasAllParts
  <2> HIDE DEF s
  <2>4. ASSUME NEW p \in OneApiRecipes, NEW w \in DOMAIN files'[p], files'[p][w] # Torn
        PROVE  HasAllParts(p, files'[p][w])
    <3>1. CASE p = Recipe /\ w = Current
      BY <1>a, <2>1, <2>3, <3>1 DEF With
    <3>2. CASE ~(p = Recipe /\ w = Current)
      <4>1. w \in DOMAIN files[p] /\ files'[p][w] = files[p][w]
        BY <1>a, <1>c, <2>1, <3>2 DEF With
      <4> QED
        BY <1>a, <2>4, <4>1
    <3> QED
      BY <3>1, <3>2
  <2> QED
    BY <1>a, <1>b, <2>1, <2>4 DEF SelectedIsComplete
<1> QED
  BY <1>2, <1>3, <1>4, <1>5, <1>6, <1>7, <1>8, <1>9, <1>10 DEF OneApiNext

(* No answer is older than the invocation it was given to. *)
AnswersAreRecent ==
    /\ phase = "idle" => answers = <<>>
    /\ \A i \in DOMAIN answers : begun <= answers[i]

(* The versions in S are as new as those on offer when the script began. *)
CoversOffer(p, S) ==
    \A v \in Offered(p) : v >= MinVersion[p] => \E w \in S : Line(w) = Line(v) /\ w >= v

SelectedCovers ==
    phase \in {"remove", "write", "dump", "config", "open", "conandata"} =>
        CoversOffer(Recipe, selected)

ProcessedCovers == \A p \in Processed : CoversOffer(p, config[p])

(* The inductive invariant: what is selected for the package in hand, and  *)
(* what the packages before it list, is as new as the offer. *)
OfferInv ==
    /\ OneApiInv
    /\ AnswersAreRecent
    /\ SelectedCovers
    /\ ProcessedCovers

(* Versions of a line are bounded by its last patch level. *)
LEMMA LineHasNewest ==
    ASSUME NEW S \in SUBSET Nat, NEW v \in S
    PROVE  \E w \in S : /\ Line(w) = Line(v) /\ w >= v
                        /\ \A x \in S : Line(x) = Line(w) => x <= w
<1> DEFINE L == {x \in S : Line(x) = Line(v)}
<1>1. L \in SUBSET Nat /\ L # {} /\ v \in L
  OBVIOUS
<1>2. \A x \in L : x <= v + 9
  BY DEF Line
<1>3. PICK w \in L : \A x \in L : x <= w
  BY <1>1, <1>2, HasMaximum
<1> QED
  BY <1>1, <1>3

LEMMA OfferedAreCandidates ==
    ASSUME UpstreamGrows, OneApiTypeOK, AnswersAreRecent, phase = "fetch", Answered
    PROVE  Offered(Recipe) \subseteq Candidates(Recipe)
<1>1. Recipe \in OneApiRecipes
  BY RecipeType
<1>2. begun \in DOMAIN Upstream
      /\ \A i \in 1..Len(answers) : answers[i] \in DOMAIN Upstream /\ begun <= answers[i]
  BY OneApiAssumption DEF OneApiTypeOK, AnswersAreRecent
<1>3. CASE IsApt(Recipe)
  <2>1. Len(answers) = Len(Architectures)
    BY <1>3 DEF Answered, Requests
  <2>2. \A i \in DOMAIN Architectures :
           Upstream[begun].apt[Architectures[i]] \subseteq Upstream[answers[i]].apt[Architectures[i]]
    <3>1. DOMAIN Architectures = 1..Len(answers)
      BY <2>1 DEF Architectures
    <3> QED
      BY <1>2, <3>1 DEF UpstreamGrows
  <2>3. UNION {Upstream[begun].apt[Architectures[i]] : i \in DOMAIN Architectures}
            \subseteq AptIndex
    BY <2>2 DEF AptIndex
  <2>4. Offered(Recipe) \subseteq AptVersions(Root(Recipe))
    BY <1>3, <2>3 DEF Offered, AptVersions
  <2>5. Root(Recipe) \in Namesakes[Recipe]
    BY <1>1, <1>3, OneApiAssumption DEF IsApt
  <2> QED
    BY <1>3, <2>4, <2>5 DEF Candidates, AptCandidates
<1>4. CASE ~IsApt(Recipe)
  <2>1. Recipe \in PypiRecipes
    BY <1>4 DEF IsApt
  <2>2. Parts[Recipe] \in Seq(PartsOf(Recipe)) /\ Len(Parts[Recipe]) > 0
        /\ Root(Recipe) \in PartsOf(Recipe)
    BY <1>1, OneApiAssumption DEF Root
  <2>3. Len(answers) = 1 + Len(Parts[Recipe])
    BY <1>4 DEF Answered, Requests
  <2>4. \A i \in DOMAIN Parts[Recipe] :
           answers[i + 1] \in DOMAIN Upstream /\ begun <= answers[i + 1]
    <3>1. \A i \in DOMAIN Parts[Recipe] : i + 1 \in 1..Len(answers)
      BY <2>2, <2>3
    <3> QED
      BY <1>2, <3>1
  <2> SUFFICES ASSUME NEW v \in Offered(Recipe) PROVE v \in Candidates(Recipe)
    OBVIOUS
  <2>5. v \in RootVersions(Recipe)
    <3>1. v \in DOMAIN Upstream[begun].pypi[Root(Recipe)]
      BY <1>4 DEF Offered
    <3>2. answers[1] \in DOMAIN Upstream /\ begun <= answers[1]
      BY <1>2, <2>2, <2>3
    <3> QED
      BY <1>2, <2>1, <2>2, <3>1, <3>2 DEF UpstreamGrows, RootVersions
  <2>6. IsCompleteSet(Recipe, v)
    <3> SUFFICES ASSUME Recipe \in CompleteSets, NEW platform \in Platforms
                 PROVE  PypiSources(Recipe, v)[platform] =
                            PartsOf(Recipe) \ (IF platform \in DOMAIN Excluded[Recipe]
                                               THEN Excluded[Recipe][platform] ELSE {})
      BY DEF IsCompleteSet
    <3> DEFINE Away == IF platform \in DOMAIN Excluded[Recipe]
                       THEN Excluded[Recipe][platform] ELSE {}
               There(i) == /\ v \in DOMAIN Published(Recipe, i)
                           /\ platform \in Published(Recipe, i)[v]
    <3>1. PypiSources(Recipe, v)[platform] =
             {Parts[Recipe][i] : i \in {j \in DOMAIN Parts[Recipe] : There(j)}}
      BY DEF PypiSources
    <3>2. {part \in PartsOf(Recipe) :
              /\ v \in DOMAIN Upstream[begun].pypi[part]
              /\ platform \in Upstream[begun].pypi[part][v]} = PartsOf(Recipe) \ Away
      BY <1>4 DEF Offered
    <3>3. ASSUME NEW i \in DOMAIN Parts[Recipe], Parts[Recipe][i] \notin Away
          PROVE  There(i)
      <4>1. Parts[Recipe][i] \in PartsOf(Recipe)
        BY DEF PartsOf
      <4>2. /\ v \in DOMAIN Upstream[begun].pypi[Parts[Recipe][i]]
            /\ platform \in Upstream[begun].pypi[Parts[Recipe][i]][v]
        BY <3>2, <3>3, <4>1
      <4> QED
        BY <1>2, <2>1, <2>4, <4>1, <4>2 DEF UpstreamGrows, Published
    <3>4. ASSUME NEW i \in DOMAIN Parts[Recipe], There(i)
          PROVE  Parts[Recipe][i] \notin Away
      <4>1. Parts[Recipe][i] \in PartsOf(Recipe)
        BY DEF PartsOf
      <4> QED
        BY <2>4, <3>4, <4>1 DEF UpstreamGrows, Published
    <3> HIDE DEF Away, There
    <3>5. {Parts[Recipe][i] : i \in {j \in DOMAIN Parts[Recipe] : There(j)}}
             = PartsOf(Recipe) \ Away
      BY <3>3, <3>4 DEF PartsOf
    <3> QED
      BY <3>1, <3>5 DEF Away
  <2> QED
    BY <1>4, <2>5, <2>6 DEF Candidates
<1> QED
  BY <1>3, <1>4

(* select_versions() leaves out only versions with a newer one of the same *)
(* line. *)
LEMMA SelectionCovers ==
    ASSUME UpstreamGrows, OneApiTypeOK, AnswersAreRecent, phase = "fetch", Answered
    PROVE  CoversOffer(Recipe, SelectVersions(Recipe))
<1>1. Candidates(Recipe) \in SUBSET Nat /\ MinVersion[Recipe] \in Nat
  BY CandidatesAreNumbers, RecipeType, OneApiAssumption
<1> SUFFICES ASSUME NEW v \in Offered(Recipe), v >= MinVersion[Recipe]
             PROVE  \E w \in SelectVersions(Recipe) : Line(w) = Line(v) /\ w >= v
  BY DEF CoversOffer
<1>2. v \in Candidates(Recipe)
  BY OfferedAreCandidates
<1>3. PICK w \in Candidates(Recipe) :
         /\ Line(w) = Line(v) /\ w >= v
         /\ \A x \in Candidates(Recipe) : Line(x) = Line(w) => x <= w
  BY <1>1, <1>2, LineHasNewest
<1>4. w \in Nat /\ v \in Nat /\ w >= MinVersion[Recipe]
  BY <1>1, <1>2, <1>3
<1> QED
  BY <1>3, <1>4 DEF SelectVersions

LEMMA InitOffer == OneApiInit => OfferInv
BY InitOneApi DEF OneApiInit, OfferInv, AnswersAreRecent, SelectedCovers,
                  ProcessedCovers, Processed

LEMMA StepOffer ==
    ASSUME UpstreamGrows, OfferInv, [OneApiNext]_oneApiVars
    PROVE  OfferInv'
<1>a. /\ OneApiInv /\ OneApiTypeOK /\ DOMAIN files = OneApiRecipes /\ BeingWritten
      /\ AnswersAreRecent /\ SelectedCovers /\ ProcessedCovers
  BY DEF OfferInv, OneApiInv
<1>b. phase # "end" => turn \in DOMAIN OneApiPackages /\ Recipe \in OneApiRecipes
  BY <1>a, RecipeType
<1> SUFFICES AnswersAreRecent' /\ SelectedCovers' /\ ProcessedCovers'
  BY <1>a, StepOneApi DEF OfferInv
<1>c. ASSUME UNCHANGED begun, answers' = <<>> \/ UNCHANGED answers,
             phase' = "idle" => phase = "idle" \/ answers' = <<>>
      PROVE  AnswersAreRecent'
  BY <1>a, <1>c DEF AnswersAreRecent
<1>d. ASSUME UNCHANGED <<begun, turn, selected>>, SelectedCovers,
             phase \in {"remove", "write", "dump", "config", "open", "conandata"}
      PROVE  SelectedCovers'
  BY <1>d DEF SelectedCovers, CoversOffer, Offered, Recipe
<1>e. ASSUME UNCHANGED <<begun, turn>>, phase \notin {"idle", "end"}, phase' # "idle",
             \A p \in OneApiRecipes \ {Recipe} : config'[p] = config[p]
      PROVE  ProcessedCovers'
  <2> SUFFICES ASSUME NEW p \in Processed' PROVE CoversOffer(p, config[p])'
    BY DEF ProcessedCovers
  <2>1. PICK j \in DOMAIN OneApiPackages : j < turn /\ p = OneApiPackages[j]
    BY <1>e DEF Processed
  <2>2. p \in Processed /\ p \in OneApiRecipes
    BY <1>e, <2>1, PackagesShape DEF Processed
  <2>3. p # Recipe
    <3>1. turn \in Nat /\ turn \in DOMAIN OneApiPackages /\ j # turn
      BY <1>b, <1>e, <2>1, PackagesShape
    <3> QED
      BY <2>1, <3>1, OneApiAssumption DEF Recipe
  <2>4. config'[p] = config[p] /\ CoversOffer(p, config[p])
    BY <1>a, <1>e, <2>2, <2>3 DEF ProcessedCovers
  <2> QED
    BY <1>e, <2>4 DEF CoversOffer, Offered
<1>1. CASE Publish \/ UNCHANGED oneApiVars
  <2>1. UNCHANGED <<phase, turn, answers, selected, config, begun, outcome>>
    BY <1>1 DEF Publish, oneApiVars
  <2>2. ProcessedCovers'
    BY <1>a, <2>1 DEF ProcessedCovers, Processed, CoversOffer, Offered
  <2>3. SelectedCovers'
    BY <1>a, <2>1 DEF SelectedCovers, CoversOffer, Offered, Recipe
  <2> QED
    BY <1>c, <2>1, <2>2, <2>3
<1>2. CASE InvokeOneApi
  <2>1. Processed' = {}
    BY <1>2, PackagesShape DEF InvokeOneApi, Processed
  <2>2. answers' = <<>>
    BY <1>2, <1>a DEF InvokeOneApi, AnswersAreRecent
  <2> QED
    BY <1>2, <2>1, <2>2
    DEF InvokeOneApi, AnswersAreRecent, SelectedCovers, ProcessedCovers
<1>3. CASE NewMklRaises \/ RequestFails \/ BuildRaises \/ StopOneApi
  <2>1. PICK how \in {"failed", "stopped"} : EndsOneApi(how)
    BY <1>3 DEF NewMklRaises, RequestFails, BuildRaises, StopOneApi
  <2>2. Processed' = {}
    BY <2>1 DEF EndsOneApi, Processed
  <2> QED
    BY <1>c, <2>1, <2>2 DEF EndsOneApi, SelectedCovers, ProcessedCovers
<1>4. CASE ListPackages
  <2>1. /\ UNCHANGED <<turn, answers, config, begun>>
        /\ phase = "list" /\ phase' = "fetch"
    BY <1>4 DEF ListPackages
  <2> QED
    BY <1>c, <1>e, <2>1 DEF SelectedCovers
<1>5. CASE Request
  <2>1. /\ UNCHANGED <<phase, turn, config, begun>> /\ phase = "fetch"
        /\ answers' = Append(answers, now)
    BY <1>5 DEF Request
  <2>2. AnswersAreRecent'
    BY <1>a, <2>1, OneApiAssumption DEF AnswersAreRecent, OneApiTypeOK
  <2> QED
    BY <1>e, <2>1, <2>2 DEF SelectedCovers
<1>6. CASE Select
  <2>1. /\ UNCHANGED <<turn, answers, config, begun>> /\ phase = "fetch"
        /\ phase' = "remove" /\ selected' = SelectVersions(Recipe) /\ Answered
    BY <1>6 DEF Select
  <2>2. CoversOffer(Recipe, selected')
    BY <1>a, <2>1, SelectionCovers
  <2>3. SelectedCovers'
    BY <2>1, <2>2 DEF SelectedCovers, CoversOffer, Offered, Recipe
  <2> QED
    BY <1>c, <1>e, <2>1, <2>3
<1>7. CASE \/ phase = "remove" /\ \E v \in OldSources : Unlink(v)
           \/ Removed \/ OpenFile \/ DumpFile \/ OpenConandataYml
  <2>1. /\ UNCHANGED <<turn, answers, selected, config, begun>>
        /\ phase \in {"remove", "write", "dump", "open"} /\ phase' # "idle"
    BY <1>7 DEF Unlink, Removed, OpenFile, DumpFile, OpenConandataYml
  <2> QED
    BY <1>a, <1>c, <1>d, <1>e, <2>1
<1>8. CASE OpenConfigYml \/ WriteConfigYml
  <2>1. /\ UNCHANGED <<turn, answers, selected, begun>>
        /\ phase \in {"write", "config"} /\ phase' # "idle"
        /\ \E s : config' = [config EXCEPT ![Recipe] = s]
    BY <1>8 DEF OpenConfigYml, WriteConfigYml
  <2>2. \A p \in OneApiRecipes \ {Recipe} : config'[p] = config[p]
    BY <1>a, <2>1 DEF OneApiTypeOK
  <2> QED
    BY <1>a, <1>c, <1>d, <1>e, <2>1, <2>2
<1>9. CASE WriteConandataYml
  <2>1. /\ phase = "conandata" /\ phase' \in {"end", "fetch"}
        /\ UNCHANGED <<config, begun>> /\ turn' = turn + 1
        /\ answers' = <<>> \/ UNCHANGED answers
    <3>1. /\ phase = "conandata"
          /\ phase' = IF turn = Len(OneApiPackages) THEN "end" ELSE "fetch"
          /\ UNCHANGED <<config, begun>> /\ turn' = turn + 1
          /\ answers' = IF IsApt(Recipe) /\ NextIsApt THEN answers ELSE <<>>
      BY <1>9, Zenon DEF WriteConandataYml
    <3> QED
      BY <3>1
  <2>2. CoversOffer(Recipe, config[Recipe])
    BY <1>a, <2>1 DEF SelectedCovers, BeingWritten
  <2>3. ASSUME NEW p \in Processed' PROVE CoversOffer(p, config[p])'
    <3>1. PICK j \in DOMAIN OneApiPackages : j < turn + 1 /\ p = OneApiPackages[j]
      BY <2>1 DEF Processed
    <3>2. CoversOffer(p, config[p])
      <4>1. CASE j = turn
        BY <2>2, <3>1, <4>1 DEF Recipe
      <4>2. CASE j # turn
        <5>1. j < turn
          BY <1>b, <2>1, <3>1, <4>2, PackagesShape
        <5> QED
          BY <1>a, <2>1, <3>1, <5>1 DEF ProcessedCovers, Processed
      <4> QED
        BY <4>1, <4>2
    <3> QED
      BY <2>1, <3>2 DEF CoversOffer, Offered
  <2>4. ProcessedCovers'
    BY <2>3 DEF ProcessedCovers
  <2> QED
    BY <1>c, <2>1, <2>4 DEF SelectedCovers
<1>10. CASE FinishOneApi
  <2>1. /\ phase = "end" /\ phase' = "idle" /\ answers' = <<>>
        /\ UNCHANGED <<config, begun>>
    BY <1>10 DEF FinishOneApi, EndsOneApi
  <2>2. \A j \in DOMAIN OneApiPackages : j < turn
    BY <1>a, <2>1, PackagesShape DEF OneApiTypeOK
  <2>3. ASSUME NEW p \in Processed' PROVE CoversOffer(p, config[p])'
    <3>1. p \in Processed
      BY <2>1, <2>2 DEF Processed
    <3> QED
      BY <1>a, <2>1, <3>1 DEF ProcessedCovers, CoversOffer, Offered
  <2>4. ProcessedCovers'
    BY <2>3 DEF ProcessedCovers
  <2> QED
    BY <1>c, <2>1, <2>4 DEF SelectedCovers
<1> QED
  BY <1>1, <1>2, <1>3, <1>4, <1>5, <1>6, <1>7, <1>8, <1>9, <1>10 DEF OneApiNext

(***************************************************************************)
(* update_suitesparse.py                                                   *)
(***************************************************************************)

(* Two files of a recipe that an invocation can work with: FilesAgree for  *)
(* one recipe, without CHOOSE. *)
Versions(c) == {c[i] : i \in DOMAIN c}
IsNewest(c, v) == \A w \in Versions(c) : w <= v

Agrees(c, d) ==
    /\ \A i, j \in DOMAIN c : IsNewest(c, c[i]) /\ c[j] = c[i] => j = i
    /\ \A i, j \in DOMAIN d.sources :
          IsNewest(c, d.sources[i][1]) /\ d.sources[j][1] = d.sources[i][1] => j = i
    /\ \A i \in DOMAIN d.sources : d.sources[i][1] \in Versions(c)
    /\ d.patches \subseteq Versions(c)

AllAgree ==
    \A p \in SuiteSparseRecipes :
        configYml[p] # EmptyConfig => Agrees(configYml[p], conandataYml[p])

(* The version that an invocation inserts has no sources yet if it is to   *)
(* be the newest one. *)
IsFresh(c, d) ==
    /\ NewVersion \in Versions(c)
    /\ IsNewest(c, NewVersion) =>
          \A i \in DOMAIN d.sources : d.sources[i][1] # NewVersion

(* What has been edited, and what the other file says meanwhile. *)
EditedAgrees ==
    /\ step \in {"config", "conandata", "url", "write"} =>
          at \in DOMAIN Members[release] /\ Package \in SuiteSparseRecipes
    /\ step = "config" =>
          /\ text # EmptyConfig
          /\ Agrees(text, conandataYml[Package])
          /\ IsFresh(text, conandataYml[Package])
    /\ step \in {"conandata", "url", "write"} => configYml[Package] # EmptyConfig
    /\ step = "conandata" => IsFresh(configYml[Package], conandataYml[Package])
    /\ step = "url" => CurrentVersion(Package) = NewVersion /\ Package # GraphBLAS
    /\ step = "write" => Agrees(configYml[Package], text)

(* What was decided about the archive of GraphBLAS is what its turn finds. *)
GraphblasIsDecided ==
    /\ step \in {"update", "config", "conandata", "url", "write"} =>
          \A g \in DOMAIN Members[release] :
              /\ Members[release][g][1] = GraphBLAS
              /\ at < g \/ (at = g /\ step = "update")
              => /\ configYml[GraphBLAS] # EmptyConfig
                 /\ graphblasSource =
                       (CurrentVersion(GraphBLAS) # Members[release][g][2])
    /\ step \in {"config", "conandata"} /\ Package = GraphBLAS => graphblasSource

SuiteSparseInv ==
    /\ SuiteSparseTypeOK
    /\ AllAgree
    /\ EditedAgrees
    /\ GraphblasIsDecided

LEMMA CurrentIsNewest ==
    ASSUME SuiteSparseTypeOK, NEW p \in SuiteSparseRecipes, configYml[p] # EmptyConfig
    PROVE  /\ CurrentVersion(p) \in Versions(configYml[p])
           /\ CurrentVersion(p) \in Nat
           /\ IsNewest(configYml[p], CurrentVersion(p))
           /\ \A v \in Versions(configYml[p]) :
                 IsNewest(configYml[p], v) => v = CurrentVersion(p)
<1>1. configYml[p] \in Seq(Nat) /\ configYml[p] # <<>>
  BY DEF SuiteSparseTypeOK, Config, EmptyConfig
<1>2. \E m \in Listed(configYml, p) : \A n \in Listed(configYml, p) : n <= m
  BY <1>1, SequenceHasMaximum DEF Listed
<1>3. Listed(configYml, p) = Versions(configYml[p]) /\ Versions(configYml[p]) \subseteq Nat
  BY <1>1 DEF Listed, Versions
<1> QED
  BY <1>2, <1>3 DEF CurrentVersion, IsNewest

LEMMA AgreesIsFilesAgree ==
    ASSUME SuiteSparseTypeOK PROVE AllAgree => NewestIsUnique /\ SourcesAreListed
<1> SUFFICES ASSUME AllAgree, NEW p \in SuiteSparseRecipes, configYml[p] # EmptyConfig
             PROVE  /\ \A i, j \in DOMAIN configYml[p] :
                          configYml[p][i] = CurrentVersion(p)
                          /\ configYml[p][j] = CurrentVersion(p) => i = j
                    /\ \A i, j \in Entries(conandataYml, p, CurrentVersion(p)) : i = j
                    /\ \A i \in DOMAIN conandataYml[p].sources :
                          conandataYml[p].sources[i][1] \in Listed(configYml, p)
                    /\ conandataYml[p].patches \subseteq Listed(configYml, p)
  BY DEF NewestIsUnique, SourcesAreListed
<1>1. Agrees(configYml[p], conandataYml[p])
  BY DEF AllAgree
<1>2. IsNewest(configYml[p], CurrentVersion(p))
  BY CurrentIsNewest
<1> QED
  BY <1>1, <1>2 DEF Agrees, Entries, Listed, Versions

(* A sequence with one more element at its front. *)
LEMMA Prepended ==
    ASSUME NEW S, NEW x \in S, NEW s \in Seq(S), NEW t, t = <<x>> \o s
    PROVE  /\ t \in Seq(S)
           /\ t # <<>>
           /\ DOMAIN t = 1..(Len(s) + 1)
           /\ t[1] = x
           /\ \A i \in DOMAIN s : i + 1 \in DOMAIN t /\ t[i + 1] = s[i]
           /\ \A k \in DOMAIN t : k # 1 => k - 1 \in DOMAIN s /\ t[k] = s[k - 1]
  OBVIOUS

LEMMA VersionsOfPrepended ==
    ASSUME NEW v \in Nat, NEW c \in Seq(Nat)
    PROVE  Versions(<<v>> \o c) = Versions(c) \cup {v}
<1> DEFINE t == <<v>> \o c
<1>1. /\ DOMAIN t = 1..(Len(c) + 1) /\ t[1] = v
      /\ \A i \in DOMAIN c : i + 1 \in DOMAIN t /\ t[i + 1] = c[i]
      /\ \A k \in DOMAIN t : k # 1 => k - 1 \in DOMAIN c /\ t[k] = c[k - 1]
  BY Prepended
<1>2. 1 \in DOMAIN t
  BY <1>1
<1> HIDE DEF t
<1>3. Versions(t) = Versions(c) \cup {v}
  <2>1. ASSUME NEW k \in DOMAIN t PROVE t[k] \in Versions(c) \cup {v}
    BY <1>1, <2>1 DEF Versions
  <2>2. ASSUME NEW i \in DOMAIN c PROVE c[i] \in Versions(t)
    BY <1>1, <2>2 DEF Versions
  <2>3. v \in Versions(t)
    BY <1>1, <1>2 DEF Versions
  <2> QED
    BY <2>1, <2>2, <2>3 DEF Versions
<1> QED
  BY <1>3 DEF t

(* update_config_yml() inserts a version that is not the newest one. *)
LEMMA InsertingAgrees ==
    ASSUME NEW c \in Seq(Nat), NEW d \in Conandata, NEW v \in Nat, Agrees(c, d),
           ~(v \in Versions(c) /\ IsNewest(c, v))
    PROVE  /\ Agrees(<<v>> \o c, d)
           /\ IsNewest(<<v>> \o c, v) => \A i \in DOMAIN d.sources : d.sources[i][1] # v
<1> DEFINE t == <<v>> \o c
<1>1. /\ DOMAIN t = 1..(Len(c) + 1) /\ t[1] = v
      /\ \A i \in DOMAIN c : i + 1 \in DOMAIN t /\ t[i + 1] = c[i]
      /\ \A k \in DOMAIN t : k # 1 => k - 1 \in DOMAIN c /\ t[k] = c[k - 1]
      /\ Versions(t) = Versions(c) \cup {v}
  BY Prepended, VersionsOfPrepended
<1>2. Versions(c) \subseteq Nat /\ Len(c) \in Nat /\ DOMAIN c = 1..Len(c)
  BY DEF Versions
<1>3. \A w \in Nat : IsNewest(t, w) => IsNewest(c, w)
  BY <1>1 DEF IsNewest
<1> HIDE DEF t
<1>4. IsNewest(t, v) => v \notin Versions(c)
  BY <1>3
<1>5. ASSUME NEW i \in DOMAIN t, NEW j \in DOMAIN t, IsNewest(t, t[i]), t[j] = t[i]
      PROVE  j = i
  <2>1. CASE i = 1 /\ j # 1
    <3>1. t[j] \in Versions(c)
      BY <1>1, <2>1 DEF Versions
    <3> QED
      BY <1>1, <1>4, <1>5, <2>1, <3>1
  <2>2. CASE i # 1 /\ j = 1
    <3>1. t[i] \in Versions(c)
      BY <1>1, <2>2 DEF Versions
    <3> QED
      BY <1>1, <1>4, <1>5, <2>2, <3>1
  <2>3. CASE i # 1 /\ j # 1
    <3>1. i - 1 \in DOMAIN c /\ j - 1 \in DOMAIN c /\ c[i - 1] = t[i] /\ c[j - 1] = t[j]
      BY <1>1, <2>3
    <3>2. IsNewest(c, c[i - 1])
      BY <1>2, <1>3, <1>5, <3>1 DEF Versions
    <3>3. i - 1 = j - 1
      BY <1>5, <3>1, <3>2 DEF Agrees
    <3> QED
      BY <1>1, <1>2, <3>3
  <2> QED
    BY <2>1, <2>2, <2>3
<1>6. ASSUME NEW i \in DOMAIN d.sources, NEW j \in DOMAIN d.sources,
             IsNewest(t, d.sources[i][1]), d.sources[j][1] = d.sources[i][1]
      PROVE  j = i
  <2>1. d.sources[i][1] \in Versions(c)
    BY DEF Agrees
  <2>2. IsNewest(c, d.sources[i][1])
    BY <1>2, <1>3, <1>6, <2>1
  <2> QED
    BY <1>6, <2>2 DEF Agrees
<1>7. Agrees(t, d)
  BY <1>1, <1>5, <1>6 DEF Agrees
<1>8. IsNewest(t, v) => \A i \in DOMAIN d.sources : d.sources[i][1] # v
  BY <1>4 DEF Agrees
<1> QED
  BY <1>7, <1>8 DEF t

(* Sources and patches of a version go on top of those that are there. *)
LEMMA AddingSourcesAgrees ==
    ASSUME NEW c \in Seq(Nat), NEW d \in Conandata, NEW v \in Nat,
           NEW url \in Releases \cup {Own}, Agrees(c, d), v \in Versions(c),
           IsNewest(c, v) => \A i \in DOMAIN d.sources : d.sources[i][1] # v,
           NEW e, e.sources = <<<<v, url>>>> \o d.sources,
           e.patches = d.patches \/ e.patches = d.patches \cup {v}
    PROVE  Agrees(c, e)
<1>1. <<v, url>> \in Nat \X (Releases \cup {Own}) /\ d.sources \in Seq(Nat \X (Releases \cup {Own}))
  BY DEF Conandata
<1>2. /\ DOMAIN e.sources = 1..(Len(d.sources) + 1) /\ e.sources[1] = <<v, url>>
      /\ \A k \in DOMAIN e.sources : k # 1 =>
            k - 1 \in DOMAIN d.sources /\ e.sources[k] = d.sources[k - 1]
  BY <1>1, Prepended
<1>3. ASSUME NEW i \in DOMAIN e.sources, NEW j \in DOMAIN e.sources,
             IsNewest(c, e.sources[i][1]), e.sources[j][1] = e.sources[i][1]
      PROVE  j = i
  <2>1. CASE i = 1 \/ j = 1
    BY <1>2, <1>3, <2>1
  <2>2. CASE i # 1 /\ j # 1
    <3>1. i - 1 \in DOMAIN d.sources /\ j - 1 \in DOMAIN d.sources
          /\ d.sources[i - 1] = e.sources[i] /\ d.sources[j - 1] = e.sources[j]
      BY <1>2, <2>2
    <3>2. i - 1 = j - 1
      BY <1>3, <3>1 DEF Agrees
    <3> QED
      BY <1>2, <3>2
  <2> QED
    BY <2>1, <2>2
<1>4. ASSUME NEW i \in DOMAIN e.sources PROVE e.sources[i][1] \in Versions(c)
  <2>1. CASE i = 1
    BY <1>2, <2>1
  <2>2. CASE i # 1
    BY <1>2, <2>2 DEF Agrees
  <2> QED
    BY <2>1, <2>2
<1>5. e.patches \subseteq Versions(c)
  BY DEF Agrees
<1> QED
  BY <1>3, <1>4, <1>5 DEF Agrees

(* A recipe's files after a step that does not touch them. *)
LEMMA UntouchedAgree ==
    ASSUME AllAgree, NEW r, SuiteSparseTypeOK,
           \A p \in SuiteSparseRecipes \ {r} :
               configYml'[p] = configYml[p] /\ conandataYml'[p] = conandataYml[p],
           r \in SuiteSparseRecipes =>
               (configYml'[r] # EmptyConfig => Agrees(configYml'[r], conandataYml'[r]))
    PROVE  AllAgree'
BY DEF AllAgree

LEMMA MembersShape ==
    ASSUME NEW r \in Releases
    PROVE  /\ DOMAIN Members[r] = 1..Len(Members[r]) /\ Len(Members[r]) \in Nat
           /\ \A i \in DOMAIN Members[r] :
                 Members[r][i][1] \in SubPackages /\ Members[r][i][2] \in Nat
BY SuiteSparseAssumption

LEMMA NewVersionType ==
    ASSUME SuiteSparseTypeOK, at \in DOMAIN Members[release]
    PROVE  NewVersion \in Nat /\ Package \in SubPackages
<1>1. release \in Releases
  BY DEF SuiteSparseTypeOK
<1> QED
  BY <1>1, MembersShape DEF NewVersion, Package

(* The archive of GraphBLAS was decided for the version of its turn, which *)
(* is the only one: a package is a member once. *)
LEMMA GraphblasStaysDecided ==
    ASSUME SuiteSparseInv, at \in DOMAIN Members[release], UNCHANGED <<release, graphblasSource>>,
           step \in {"update", "config", "conandata", "url", "write"},
           \A p \in SuiteSparseRecipes : p # Package => configYml'[p] = configYml[p],
           at' = at \/ at' = at + 1,
           at' = at => step' # "update",
           step' \in {"config", "conandata"} /\ Package' = GraphBLAS => graphblasSource'
    PROVE  GraphblasIsDecided'
<1>1. release \in Releases /\ DOMAIN Members[release] = 1..Len(Members[release])
      /\ Len(Members[release]) \in Nat
  BY MembersShape DEF SuiteSparseInv, SuiteSparseTypeOK
<1>2. ASSUME NEW g \in DOMAIN Members[release], Members[release][g][1] = GraphBLAS,
             at' < g \/ (at' = g /\ step' = "update")
      PROVE  /\ configYml'[GraphBLAS] # EmptyConfig
             /\ graphblasSource' = (CurrentVersion(GraphBLAS)' # Members[release][g][2])
  <2>1. at < g
    BY <1>1, <1>2
  <2>2. GraphBLAS # Package /\ GraphBLAS \in SuiteSparseRecipes
    <3>1. Package = GraphBLAS => at = g
      BY <1>1, <1>2, SuiteSparseAssumption DEF Package
    <3>2. at \in Nat /\ g \in Nat
      BY <1>1
    <3> QED
      BY <2>1, <3>1, <3>2, SuiteSparseAssumption
  <2>3. configYml'[GraphBLAS] = configYml[GraphBLAS]
    BY <2>2
  <2>4. CurrentVersion(GraphBLAS)' = CurrentVersion(GraphBLAS)
    BY <2>3 DEF CurrentVersion, Listed
  <2> QED
    BY <1>2, <2>1, <2>3, <2>4 DEF SuiteSparseInv, GraphblasIsDecided
<1> QED
  BY <1>2 DEF GraphblasIsDecided

LEMMA InitSuiteSparse == SuiteSparseInit => SuiteSparseInv
<1> SUFFICES ASSUME SuiteSparseInit PROVE SuiteSparseInv
  OBVIOUS
<1> USE DEF SuiteSparseInit
<1>1. SuiteSparseTypeOK
  <2>1. release \in Releases
    BY SuiteSparseAssumption
  <2>2. configYml \in [SuiteSparseRecipes -> Config]
        /\ conandataYml \in [SuiteSparseRecipes -> Conandata]
    BY SuiteSparseAssumption DEF Config, Conandata
  <2>3. MaxInvocations \in Nat
    BY SuiteSparseAssumption
  <2>4. invocations \in 0..MaxInvocations /\ at \in Nat \ {0}
    BY <2>3
  <2>5. graphblasSource \in BOOLEAN
    OBVIOUS
  <2> QED
    BY <2>1, <2>2, <2>4, <2>5 DEF SuiteSparseTypeOK
<1>2. AllAgree
  <2> SUFFICES ASSUME NEW p \in SuiteSparseRecipes
               PROVE  Agrees(OldConfigYml[p], OldConandataYml[p])
    BY DEF AllAgree
  <2>1. Listed(OldConfigYml, p) = Versions(OldConfigYml[p])
    BY DEF Listed, Versions
  <2>2. \A i, j \in DOMAIN OldConfigYml[p] : OldConfigYml[p][i] = OldConfigYml[p][j] => i = j
    BY SuiteSparseAssumption
  <2>3. /\ \A v \in Versions(OldConfigYml[p]) :
              \E i \in DOMAIN OldConandataYml[p].sources :
                  Entries(OldConandataYml, p, v) = {i}
        /\ \A i \in DOMAIN OldConandataYml[p].sources :
              OldConandataYml[p].sources[i][1] \in Versions(OldConfigYml[p])
        /\ \A v \in OldConandataYml[p].patches : v \in Versions(OldConfigYml[p])
    BY <2>1, SuiteSparseAssumption
  <2>4. ASSUME NEW i \in DOMAIN OldConandataYml[p].sources,
               NEW j \in DOMAIN OldConandataYml[p].sources,
               OldConandataYml[p].sources[j][1] = OldConandataYml[p].sources[i][1]
        PROVE  j = i
    <3> DEFINE v == OldConandataYml[p].sources[i][1]
    <3>1. PICK k \in DOMAIN OldConandataYml[p].sources : Entries(OldConandataYml, p, v) = {k}
      BY <2>3
    <3>2. i \in Entries(OldConandataYml, p, v) /\ j \in Entries(OldConandataYml, p, v)
      BY <2>4 DEF Entries
    <3> QED
      BY <3>1, <3>2
  <2> QED
    BY <2>2, <2>3, <2>4 DEF Agrees
<1>3. EditedAgrees /\ GraphblasIsDecided
  BY DEF EditedAgrees, GraphblasIsDecided
<1> QED
  BY <1>1, <1>2, <1>3 DEF SuiteSparseInv

(* The script may end anywhere: it only forgets what it was doing. *)
LEMMA EndingKeepsFiles ==
    ASSUME SuiteSparseInv, NEW how \in {"done", "failed", "stopped"}, Ends(how),
           UNCHANGED <<configYml, conandataYml, release, at, text, invocations>>,
           graphblasSource' \in BOOLEAN
    PROVE  SuiteSparseInv'
<1>1. SuiteSparseTypeOK'
  BY DEF SuiteSparseInv, SuiteSparseTypeOK, Ends
<1>2. AllAgree'
  BY DEF SuiteSparseInv, AllAgree
<1>3. EditedAgrees' /\ GraphblasIsDecided'
  BY DEF EditedAgrees, GraphblasIsDecided, Ends
<1> QED
  BY <1>1, <1>2, <1>3 DEF SuiteSparseInv

LEMMA DownloadKeepsInv == SuiteSparseInv /\ Download => SuiteSparseInv'
<1> SUFFICES ASSUME SuiteSparseInv, Download PROVE SuiteSparseInv'
  OBVIOUS
<1>a. SuiteSparseTypeOK /\ AllAgree
  BY DEF SuiteSparseInv
<1>b. release \in Releases /\ GraphBLAS \in SuiteSparseRecipes
  BY <1>a, SuiteSparseAssumption DEF SuiteSparseTypeOK
<1>1. graphblasSource' \in BOOLEAN
  BY DEF Download
<1>2. CASE Unreadable(GraphBLAS)
  <2>1. /\ at' = 1 /\ Ends("failed")
        /\ UNCHANGED <<configYml, conandataYml, release, text, invocations>>
    BY <1>2 DEF Download
  <2>2. SuiteSparseTypeOK'
    BY <1>1, <1>a, <2>1 DEF SuiteSparseTypeOK, Ends
  <2>3. AllAgree'
    BY <1>a, <2>1 DEF AllAgree
  <2>4. EditedAgrees' /\ GraphblasIsDecided'
    BY <2>1 DEF EditedAgrees, GraphblasIsDecided, Ends
  <2> QED
    BY <2>2, <2>3, <2>4 DEF SuiteSparseInv
<1>3. CASE ~Unreadable(GraphBLAS)
  <2>1. /\ at' = 1 /\ step' = "update"
        /\ graphblasSource' = (CurrentVersion(GraphBLAS) # VersionIn(release, GraphBLAS))
        /\ UNCHANGED <<configYml, conandataYml, release, text, result, invocations>>
    BY <1>3 DEF Download
  <2>2. SuiteSparseTypeOK'
    BY <1>1, <1>a, <2>1 DEF SuiteSparseTypeOK
  <2>3. AllAgree'
    BY <1>a, <2>1 DEF AllAgree
  <2>4. EditedAgrees'
    BY <2>1 DEF EditedAgrees
  <2>5. ASSUME NEW g \in DOMAIN Members[release], Members[release][g][1] = GraphBLAS
        PROVE  VersionIn(release, GraphBLAS) = Members[release][g][2]
    <3>1. \A j \in DOMAIN Members[release] : Members[release][j][1] = GraphBLAS => j = g
      BY <1>b, <2>5, SuiteSparseAssumption
    <3> QED
      BY <2>5, <3>1 DEF VersionIn
  <2>6. configYml'[GraphBLAS] # EmptyConfig /\ CurrentVersion(GraphBLAS)' = CurrentVersion(GraphBLAS)
    BY <1>3, <1>b, <2>1 DEF Unreadable, CurrentVersion, Listed
  <2>7. GraphblasIsDecided'
    BY <2>1, <2>5, <2>6 DEF GraphblasIsDecided
  <2> QED
    BY <2>2, <2>3, <2>4, <2>7 DEF SuiteSparseInv
<1> QED
  BY <1>2, <1>3

(* A package is updated: its two files one after the other. *)
LEMMA ConfigKeepsInv == SuiteSparseInv /\ (OpenConfig \/ WriteConfig) => SuiteSparseInv'
<1>1. ASSUME SuiteSparseInv, OpenConfig PROVE SuiteSparseInv'
  <2> DEFINE p == Package
             c == configYml[p]
  <2>a. /\ SuiteSparseTypeOK /\ AllAgree /\ step = "update" /\ at \in DOMAIN Members[release]
        /\ p \in SuiteSparseRecipes /\ c # EmptyConfig /\ CurrentVersion(p) # NewVersion
        /\ configYml' = [configYml EXCEPT ![p] = EmptyConfig]
        /\ text' = <<NewVersion>> \o c /\ step' = "config"
        /\ UNCHANGED <<conandataYml, release, at, graphblasSource, result, invocations>>
    BY <1>1 DEF SuiteSparseInv, OpenConfig, Updating, Unreadable
  <2>b. NewVersion \in Nat /\ c \in Seq(Nat) /\ conandataYml[p] \in Conandata
    BY <2>a, NewVersionType DEF SuiteSparseTypeOK, Config
  <2>c. Package' = Package /\ NewVersion' = NewVersion
    BY <2>a DEF Package, NewVersion
  <2> HIDE DEF p
  <2>1. configYml' \in [SuiteSparseRecipes -> Config] /\ configYml'[p] = EmptyConfig
    BY <2>a DEF SuiteSparseTypeOK, Config, EmptyConfig
  <2>2. text' \in Seq(Nat) /\ text' # <<>>
    BY <2>a, <2>b, Prepended
  <2>3. SuiteSparseTypeOK'
    BY <2>a, <2>1, <2>2 DEF SuiteSparseTypeOK, Config
  <2>4. AllAgree'
    BY <2>a, <2>1 DEF AllAgree, SuiteSparseTypeOK
  <2>5. ~(NewVersion \in Versions(c) /\ IsNewest(c, NewVersion))
    BY <2>a, CurrentIsNewest
  <2>6. Agrees(c, conandataYml[p])
    BY <2>a DEF AllAgree
  <2>7. /\ Agrees(text', conandataYml[p])
        /\ IsNewest(text', NewVersion) =>
              \A i \in DOMAIN conandataYml[p].sources : conandataYml[p].sources[i][1] # NewVersion
        /\ NewVersion \in Versions(text')
    BY <2>a, <2>b, <2>5, <2>6, InsertingAgrees, VersionsOfPrepended
  <2>8. EditedAgrees'
    BY <2>a, <2>c, <2>2, <2>7 DEF EditedAgrees, IsFresh, EmptyConfig, p
  <2>9. p = GraphBLAS => graphblasSource'
    BY <1>1, <2>a DEF SuiteSparseInv, GraphblasIsDecided, p, Package, NewVersion
  <2>10. GraphblasIsDecided'
    BY <1>1, <2>a, <2>c, <2>9, GraphblasStaysDecided DEF p, SuiteSparseTypeOK
  <2> QED
    BY <2>3, <2>4, <2>8, <2>10 DEF SuiteSparseInv
<1>2. ASSUME SuiteSparseInv, WriteConfig PROVE SuiteSparseInv'
  <2> DEFINE p == Package
  <2>a. /\ SuiteSparseTypeOK /\ AllAgree /\ EditedAgrees /\ step = "config"
        /\ at \in DOMAIN Members[release] /\ p \in SuiteSparseRecipes
        /\ configYml' = [configYml EXCEPT ![p] = text] /\ step' = "conandata"
        /\ UNCHANGED <<conandataYml, release, at, graphblasSource, text, result, invocations>>
        /\ text # EmptyConfig /\ text \in Config
        /\ Agrees(text, conandataYml[p]) /\ IsFresh(text, conandataYml[p])
    BY <1>2 DEF SuiteSparseInv, WriteConfig, EditedAgrees, SuiteSparseTypeOK
  <2>c. Package' = Package /\ NewVersion' = NewVersion
    BY <2>a DEF Package, NewVersion
  <2> HIDE DEF p
  <2>1. configYml' \in [SuiteSparseRecipes -> Config] /\ configYml'[p] = text
    BY <2>a DEF SuiteSparseTypeOK
  <2>2. SuiteSparseTypeOK'
    BY <2>a, <2>1 DEF SuiteSparseTypeOK
  <2>3. AllAgree'
    BY <2>a, <2>1 DEF AllAgree, SuiteSparseTypeOK
  <2>4. EditedAgrees'
    BY <2>a, <2>c, <2>1 DEF EditedAgrees, IsFresh, p
  <2>5. p = GraphBLAS => graphblasSource'
    BY <1>2, <2>a DEF SuiteSparseInv, GraphblasIsDecided, p
  <2>6. GraphblasIsDecided'
    BY <1>2, <2>a, <2>c, <2>5, GraphblasStaysDecided DEF p, SuiteSparseTypeOK
  <2> QED
    BY <2>2, <2>3, <2>4, <2>6 DEF SuiteSparseInv
<1> QED
  BY <1>1, <1>2

LEMMA UpToDateKeepsInv == SuiteSparseInv /\ AlreadyUpToDate => SuiteSparseInv'
<1> SUFFICES ASSUME SuiteSparseInv, AlreadyUpToDate PROVE SuiteSparseInv'
  OBVIOUS
<1>a. /\ SuiteSparseTypeOK /\ AllAgree /\ step = "update" /\ at \in DOMAIN Members[release]
      /\ Package \in SuiteSparseRecipes /\ configYml[Package] # EmptyConfig
      /\ CurrentVersion(Package) = NewVersion
      /\ UNCHANGED <<configYml, conandataYml, release, graphblasSource, text, result,
                     invocations>>
  BY DEF SuiteSparseInv, AlreadyUpToDate, Updating, Unreadable
<1>b. \/ Package = GraphBLAS /\ at' = at + 1 /\ step' = step
      \/ Package # GraphBLAS /\ step' = "url" /\ at' = at
  BY DEF AlreadyUpToDate
<1>1. SuiteSparseTypeOK'
  BY <1>a, <1>b DEF SuiteSparseTypeOK
<1>2. AllAgree'
  BY <1>a DEF AllAgree
<1>3. EditedAgrees'
  BY <1>a, <1>b DEF EditedAgrees, Package, NewVersion, CurrentVersion, Listed
<1>4. GraphblasIsDecided'
  BY <1>a, <1>b, GraphblasStaysDecided DEF SuiteSparseTypeOK
<1> QED
  BY <1>1, <1>2, <1>3, <1>4 DEF SuiteSparseInv

LEMMA ConandataKeepsInv ==
    SuiteSparseInv /\ (OpenConandata \/ UpdateUrl) => SuiteSparseInv'
<1> SUFFICES ASSUME SuiteSparseInv, OpenConandata \/ UpdateUrl PROVE SuiteSparseInv'
  OBVIOUS
<1> DEFINE p == Package
           c == configYml[p]
           d == conandataYml[p]
<1>a. /\ SuiteSparseTypeOK /\ AllAgree /\ EditedAgrees
      /\ at \in DOMAIN Members[release] /\ p \in SuiteSparseRecipes
      /\ step \in {"conandata", "url"} /\ c # EmptyConfig
      /\ conandataYml' = [conandataYml EXCEPT ![p] = EmptyConandata] /\ step' = "write"
      /\ UNCHANGED <<configYml, release, at, graphblasSource, result, invocations>>
  BY DEF SuiteSparseInv, EditedAgrees, OpenConandata, UpdateUrl
<1>b. c \in Seq(Nat) /\ d \in Conandata /\ NewVersion \in Nat /\ release \in Releases
  BY <1>a, NewVersionType DEF SuiteSparseTypeOK, Config
<1>c. Package' = Package /\ NewVersion' = NewVersion
  BY <1>a DEF Package, NewVersion
<1>d. Agrees(c, d)
  BY <1>a DEF AllAgree
<1> HIDE DEF p
<1>1. text' \in Conandata /\ Agrees(c, text')
  <2>1. CASE OpenConandata
    <3> DEFINE url == IF p = GraphBLAS THEN Own ELSE release
    <3>1. text' = WithNewVersion(d, url) /\ step = "conandata" /\ url \in Releases \cup {Own}
      BY <1>b, <2>1 DEF OpenConandata, p
    <3> HIDE DEF url
    <3>2. /\ text' = [sources |-> text'.sources, patches |-> text'.patches]
          /\ text'.sources = <<<<NewVersion, url>>>> \o d.sources
          /\ text'.patches = d.patches \/ text'.patches = d.patches \cup {NewVersion}
      BY <3>1 DEF WithNewVersion
    <3>3. <<NewVersion, url>> \in Nat \X (Releases \cup {Own})
          /\ d.sources \in Seq(Nat \X (Releases \cup {Own})) /\ d.patches \in SUBSET Nat
      BY <1>b, <3>1 DEF Conandata
    <3>4. text'.sources \in Seq(Nat \X (Releases \cup {Own}))
      BY <3>2, <3>3, Prepended
    <3>5. text' \in Conandata
      BY <1>b, <3>2, <3>3, <3>4 DEF Conandata
    <3>6. IsFresh(c, d)
      BY <1>a, <3>1 DEF EditedAgrees, p
    <3> QED
      BY <1>b, <1>d, <3>1, <3>2, <3>5, <3>6, AddingSourcesAgrees DEF IsFresh
  <2>2. CASE UpdateUrl
    <3>1. PICK i \in DOMAIN d.sources :
             /\ Entries(conandataYml, p, NewVersion) = {i}
             /\ text' = [d EXCEPT !.sources[i] = <<NewVersion, release>>]
      BY <2>2 DEF UpdateUrl, p
    <3>2. d.sources[i][1] = NewVersion
      BY <3>1 DEF Entries
    <3>3. /\ d.sources \in Seq(Nat \X (Releases \cup {Own}))
          /\ <<NewVersion, release>> \in Nat \X (Releases \cup {Own})
      BY <1>b DEF Conandata
    <3>4. /\ text'.patches = d.patches
          /\ text' = [sources |-> text'.sources, patches |-> text'.patches]
          /\ text'.sources = [d.sources EXCEPT ![i] = <<NewVersion, release>>]
      BY <1>b, <3>1 DEF Conandata
    <3>5. /\ text'.sources \in Seq(Nat \X (Releases \cup {Own}))
          /\ DOMAIN text'.sources = DOMAIN d.sources
          /\ \A k \in DOMAIN d.sources : text'.sources[k][1] = d.sources[k][1]
      BY <3>2, <3>3, <3>4
    <3>6. text' \in Conandata
      BY <1>b, <3>4, <3>5 DEF Conandata
    <3> QED
      BY <1>d, <3>4, <3>5, <3>6 DEF Agrees
  <2> QED
    BY <2>1, <2>2
<1>2. EmptyConandata \in Conandata /\ Agrees(c, EmptyConandata)
  BY <1>d DEF EmptyConandata, Conandata, Agrees
<1>3. conandataYml' \in [SuiteSparseRecipes -> Conandata] /\ conandataYml'[p] = EmptyConandata
  BY <1>a, <1>2 DEF SuiteSparseTypeOK
<1>4. SuiteSparseTypeOK'
  BY <1>a, <1>1, <1>3 DEF SuiteSparseTypeOK
<1>5. AllAgree'
  BY <1>a, <1>2, <1>3 DEF AllAgree, SuiteSparseTypeOK
<1>6. EditedAgrees'
  BY <1>a, <1>c, <1>1 DEF EditedAgrees, p
<1>7. GraphblasIsDecided'
  BY <1>a, <1>c, GraphblasStaysDecided DEF SuiteSparseTypeOK
<1> QED
  BY <1>4, <1>5, <1>6, <1>7 DEF SuiteSparseInv

LEMMA WriteConandataKeepsInv == SuiteSparseInv /\ WriteConandata => SuiteSparseInv'
<1> SUFFICES ASSUME SuiteSparseInv, WriteConandata PROVE SuiteSparseInv'
  OBVIOUS
<1> DEFINE p == Package
<1>a. /\ SuiteSparseTypeOK /\ AllAgree
      /\ at \in DOMAIN Members[release] /\ p \in SuiteSparseRecipes
      /\ step = "write" /\ step' = "update" /\ at' = at + 1
      /\ conandataYml' = [conandataYml EXCEPT ![p] = text]
      /\ UNCHANGED <<configYml, release, graphblasSource, text, result, invocations>>
      /\ text \in Conandata /\ Agrees(configYml[p], text)
  BY DEF SuiteSparseInv, EditedAgrees, WriteConandata, SuiteSparseTypeOK
<1> HIDE DEF p
<1>1. conandataYml' \in [SuiteSparseRecipes -> Conandata] /\ conandataYml'[p] = text
  BY <1>a DEF SuiteSparseTypeOK
<1>2. SuiteSparseTypeOK'
  BY <1>a, <1>1 DEF SuiteSparseTypeOK
<1>3. AllAgree'
  BY <1>a, <1>1 DEF AllAgree, SuiteSparseTypeOK
<1>4. EditedAgrees'
  BY <1>a DEF EditedAgrees
<1>5. GraphblasIsDecided'
  BY <1>a, GraphblasStaysDecided DEF SuiteSparseTypeOK
<1> QED
  BY <1>2, <1>3, <1>4, <1>5 DEF SuiteSparseInv

LEMMA StepSuiteSparse ==
    SuiteSparseInv /\ [SuiteSparseNext]_suiteSparseVars => SuiteSparseInv'
<1> SUFFICES ASSUME SuiteSparseInv, [SuiteSparseNext]_suiteSparseVars PROVE SuiteSparseInv'
  OBVIOUS
<1>a. SuiteSparseTypeOK /\ MaxInvocations \in Nat
  BY SuiteSparseAssumption DEF SuiteSparseInv
<1>1. ASSUME NEW r \in Releases, InvokeSuiteSparse(r) PROVE SuiteSparseInv'
  <2>1. SuiteSparseTypeOK'
    BY <1>1, <1>a DEF InvokeSuiteSparse, SuiteSparseTypeOK
  <2>2. AllAgree' /\ EditedAgrees' /\ GraphblasIsDecided'
    BY <1>1 DEF SuiteSparseInv, InvokeSuiteSparse, AllAgree, EditedAgrees, GraphblasIsDecided
  <2> QED
    BY <2>1, <2>2 DEF SuiteSparseInv
<1>2. CASE DownloadFails \/ UpdateRaises \/ ConandataRaises \/ UpdateUrlRaises
           \/ FinishSuiteSparse \/ StopSuiteSparse
  <2>1. /\ UNCHANGED <<configYml, conandataYml, release, text, invocations>>
        /\ UNCHANGED at
        /\ UNCHANGED graphblasSource
        /\ Ends("failed") \/ Ends("done") \/ Ends("stopped")
    BY <1>2 DEF DownloadFails, UpdateRaises, ConandataRaises, UpdateUrlRaises,
                FinishSuiteSparse, StopSuiteSparse
  <2>2. graphblasSource' \in BOOLEAN
    BY <1>a, <2>1 DEF SuiteSparseTypeOK
  <2> QED
    BY <2>1, <2>2, EndingKeepsFiles
<1>3. CASE UNCHANGED suiteSparseVars
  <2>1. SuiteSparseTypeOK'
    BY <1>3, <1>a DEF suiteSparseVars, SuiteSparseTypeOK
  <2>2. AllAgree' /\ EditedAgrees' /\ GraphblasIsDecided'
    BY <1>3 DEF SuiteSparseInv, suiteSparseVars, AllAgree, EditedAgrees, GraphblasIsDecided,
                IsFresh, Package, NewVersion, CurrentVersion, Listed
  <2> QED
    BY <2>1, <2>2 DEF SuiteSparseInv
<1> QED
  BY <1>1, <1>2, <1>3, DownloadKeepsInv, UpToDateKeepsInv, ConfigKeepsInv,
     ConandataKeepsInv, WriteConandataKeepsInv DEF SuiteSparseNext

(* Where any version has patches the newest one has, as in a recipe whose  *)
(* patches update_conandata_yml() has copied.  update_url_only() copies    *)
(* none, and leaves a newest version without patches as it is.             *)
Covers(c, d) ==
    \A v \in Versions(c) :
        IsNewest(c, v) /\ d.patches # {} /\ (\E i \in DOMAIN d.sources : d.sources[i][1] = v)
            => v \in d.patches

PatchesCoverNewest ==
    \A p \in SuiteSparseRecipes : Covers(OldConfigYml[p], OldConandataYml[p])

(* Two files that offer v with its sources, from the release r where v is  *)
(* the newest version. *)
Provides(c, d, v, r) ==
    /\ c # EmptyConfig
    /\ v \in Versions(c)
    /\ \E i \in DOMAIN d.sources : d.sources[i][1] = v
    /\ d.patches # {} => v \in d.patches
    /\ IsNewest(c, v) => \A i \in DOMAIN d.sources :
                            d.sources[i][1] = v => d.sources[i] = <<v, r>>

(* The member i of the release has its sources. *)
IsProvided(i) ==
    LET p == Members[release][i][1] IN
    p # GraphBLAS =>
        /\ p \in SuiteSparseRecipes
        /\ Provides(configYml[p], conandataYml[p], Members[release][i][2], release)

AllCovered ==
    /\ \A p \in SuiteSparseRecipes :
          configYml[p] # EmptyConfig => Covers(configYml[p], conandataYml[p])
    /\ step = "config" => Covers(text, conandataYml[Package])
    /\ step = "write" => Covers(configYml[Package], text)

PastIsProvided ==
    /\ step \in {"update", "config", "conandata", "url", "write"} =>
          \A i \in DOMAIN Members[release] : i < at => IsProvided(i)
    /\ step = "write" /\ Package # GraphBLAS =>
          Provides(configYml[Package], text, NewVersion, release)
    /\ step = "idle" /\ result = "done" =>
          \A i \in DOMAIN Members[release] : IsProvided(i)

DoneInv ==
    /\ SuiteSparseInv
    /\ AllCovered
    /\ PastIsProvided

LEMMA InitDone == PatchesCoverNewest /\ SuiteSparseInit => DoneInv
<1> SUFFICES ASSUME PatchesCoverNewest, SuiteSparseInit PROVE DoneInv
  OBVIOUS
<1>1. SuiteSparseInv
  BY InitSuiteSparse
<1>2. AllCovered
  BY DEF AllCovered, PatchesCoverNewest, SuiteSparseInit
<1>3. PastIsProvided
  BY DEF PastIsProvided, SuiteSparseInit
<1> QED
  BY <1>1, <1>2, <1>3 DEF DoneInv

(* Members that the script is past stay provided while others are edited. *)
LEMMA OthersStayProvided ==
    ASSUME SuiteSparseInv, at \in DOMAIN Members[release], UNCHANGED release,
           \A p \in SuiteSparseRecipes : p # Package =>
               configYml'[p] = configYml[p] /\ conandataYml'[p] = conandataYml[p],
           NEW i \in DOMAIN Members[release], i # at, IsProvided(i)
    PROVE  IsProvided(i)'
<1>1. Members[release][i][1] # Package
  BY SuiteSparseAssumption DEF SuiteSparseInv, SuiteSparseTypeOK, Package
<1> QED
  BY <1>1 DEF IsProvided

(* What update_config_yml() and update_conandata_yml() leave. *)
LEMMA InsertedIsProvided ==
    ASSUME NEW c, NEW d \in Conandata, NEW v \in Nat, NEW url \in Releases \cup {Own},
           c # EmptyConfig, v \in Versions(c),
           IsNewest(c, v) => \A i \in DOMAIN d.sources : d.sources[i][1] # v,
           Covers(c, d),
           NEW e, e.sources = <<<<v, url>>>> \o d.sources,
           e.patches = IF d.patches = {} THEN {} ELSE d.patches \cup {v}
    PROVE  /\ Covers(c, e)
           /\ Provides(c, e, v, url)
<1>1. <<v, url>> \in Nat \X (Releases \cup {Own}) /\ d.sources \in Seq(Nat \X (Releases \cup {Own}))
  BY DEF Conandata
<1>2. /\ DOMAIN e.sources = 1..(Len(d.sources) + 1) /\ e.sources[1] = <<v, url>>
      /\ \A k \in DOMAIN e.sources : k # 1 =>
            k - 1 \in DOMAIN d.sources /\ e.sources[k] = d.sources[k - 1]
  BY <1>1, Prepended
<1>3. 1 \in DOMAIN e.sources /\ e.sources[1][1] = v
  BY <1>1, <1>2
<1>4. ASSUME NEW w \in Versions(c), IsNewest(c, w), e.patches # {},
             NEW k \in DOMAIN e.sources, e.sources[k][1] = w
      PROVE  w \in e.patches
  <2>1. CASE k = 1
    BY <1>2, <1>4, <2>1
  <2>2. CASE k # 1
    <3>1. k - 1 \in DOMAIN d.sources /\ d.sources[k - 1][1] = w
      BY <1>2, <1>4, <2>2
    <3> QED
      BY <1>4, <3>1 DEF Covers
  <2> QED
    BY <2>1, <2>2
<1>5. ASSUME IsNewest(c, v), NEW i \in DOMAIN e.sources, e.sources[i][1] = v
      PROVE  e.sources[i] = <<v, url>>
  BY <1>2, <1>5
<1> QED
  BY <1>3, <1>4, <1>5 DEF Covers, Provides

LEMMA StepDone == DoneInv /\ [SuiteSparseNext]_suiteSparseVars => DoneInv'
<1> SUFFICES ASSUME DoneInv, [SuiteSparseNext]_suiteSparseVars PROVE AllCovered' /\ PastIsProvided'
  BY StepSuiteSparse DEF DoneInv
<1>a. SuiteSparseInv /\ AllCovered /\ PastIsProvided /\ SuiteSparseTypeOK /\ AllAgree
      /\ EditedAgrees /\ release \in Releases
  BY DEF DoneInv, SuiteSparseInv, SuiteSparseTypeOK
<1>b. /\ DOMAIN Members[release] = 1..Len(Members[release]) /\ Len(Members[release]) \in Nat
      /\ at \in Nat \ {0}
  BY <1>a, MembersShape DEF SuiteSparseTypeOK
<1>1. ASSUME NEW r \in Releases, InvokeSuiteSparse(r) PROVE AllCovered' /\ PastIsProvided'
  BY <1>1, <1>a DEF InvokeSuiteSparse, AllCovered, PastIsProvided
<1>2. ASSUME NEW how \in {"failed", "stopped"}, Ends(how),
             UNCHANGED <<configYml, conandataYml>>
      PROVE  AllCovered' /\ PastIsProvided'
  BY <1>2, <1>a DEF Ends, AllCovered, PastIsProvided
<1>3. CASE DownloadFails \/ UpdateRaises \/ ConandataRaises \/ UpdateUrlRaises \/ StopSuiteSparse
  BY <1>2, <1>3 DEF DownloadFails, UpdateRaises, ConandataRaises, UpdateUrlRaises,
                    StopSuiteSparse
<1>4. CASE Download
  <2>1. /\ UNCHANGED <<configYml, conandataYml>> /\ at' = 1
        /\ Ends("failed") \/ step' = "update"
        /\ UNCHANGED release
    BY <1>4 DEF Download
  <2>2. CASE Ends("failed")
    BY <1>2, <2>1, <2>2
  <2>3. CASE step' = "update"
    BY <1>a, <1>b, <2>1, <2>3 DEF AllCovered, PastIsProvided
  <2> QED
    BY <2>1, <2>2, <2>3
<1>5. CASE FinishSuiteSparse
  <2>1. \A i \in DOMAIN Members[release] : i < at
    BY <1>5, <1>b DEF FinishSuiteSparse
  <2>2. /\ step = "update" /\ step' = "idle"
        /\ UNCHANGED <<configYml, conandataYml, release>>
    BY <1>5 DEF FinishSuiteSparse, Ends
  <2>3. \A i \in DOMAIN Members[release] : IsProvided(i)
    BY <1>a, <2>1, <2>2 DEF PastIsProvided
  <2>4. \A i \in DOMAIN Members[release] : IsProvided(i)'
    BY <2>2, <2>3 DEF IsProvided
  <2> QED
    BY <1>a, <2>2, <2>4 DEF AllCovered, PastIsProvided
<1>6. CASE AlreadyUpToDate
  <2>1. /\ step = "update" /\ UNCHANGED <<configYml, conandataYml, release>>
        /\ \/ Package = GraphBLAS /\ at' = at + 1 /\ step' = step
           \/ Package # GraphBLAS /\ step' = "url" /\ at' = at
    BY <1>6 DEF AlreadyUpToDate, Updating
  <2>2. \A i \in DOMAIN Members[release] : i < at => IsProvided(i)
    BY <1>a, <2>1 DEF PastIsProvided
  <2>3. Package = GraphBLAS => IsProvided(at)
    BY DEF IsProvided, Package
  <2>4. \A i \in DOMAIN Members[release] : i < at' => IsProvided(i)
    BY <1>b, <2>1, <2>2, <2>3
  <2>5. \A i \in DOMAIN Members[release] : i < at' => IsProvided(i)'
    BY <2>1, <2>4 DEF IsProvided
  <2> QED
    BY <1>a, <2>1, <2>5 DEF AllCovered, PastIsProvided
<1>c. ASSUME at \in DOMAIN Members[release], UNCHANGED <<release, at>>,
             step \in {"update", "config", "conandata", "url", "write"},
             \A p \in SuiteSparseRecipes : p # Package =>
                 configYml'[p] = configYml[p] /\ conandataYml'[p] = conandataYml[p]
      PROVE  \A i \in DOMAIN Members[release] : i < at => IsProvided(i)'
  <2>1. ASSUME NEW i \in DOMAIN Members[release], i < at PROVE IsProvided(i)'
    <3>1. i # at /\ IsProvided(i)
      BY <1>a, <1>b, <1>c, <2>1 DEF PastIsProvided
    <3> QED
      BY <1>a, <1>c, <3>1, OthersStayProvided
  <2> QED
    BY <2>1
<1>7. CASE OpenConfig
  <2> DEFINE p == Package
             c == configYml[p]
             d == conandataYml[p]
  <2>1. /\ step = "update" /\ at \in DOMAIN Members[release]
        /\ p \in SuiteSparseRecipes /\ c # EmptyConfig /\ CurrentVersion(p) # NewVersion
        /\ configYml' = [configYml EXCEPT ![p] = EmptyConfig]
        /\ text' = <<NewVersion>> \o c /\ step' = "config"
        /\ UNCHANGED <<conandataYml, release, at>>
    BY <1>7 DEF OpenConfig, Updating, Unreadable
  <2>2. NewVersion \in Nat /\ c \in Seq(Nat) /\ d \in Conandata /\ Agrees(c, d)
    BY <1>a, <2>1, NewVersionType DEF SuiteSparseTypeOK, Config, AllAgree
  <2>3. ~(NewVersion \in Versions(c) /\ IsNewest(c, NewVersion))
    BY <1>a, <2>1, CurrentIsNewest
  <2>4. IsNewest(text', NewVersion) =>
           \A i \in DOMAIN d.sources : d.sources[i][1] # NewVersion
    BY <2>1, <2>2, <2>3, InsertingAgrees
  <2>5. Versions(text') = Versions(c) \cup {NewVersion}
    BY <2>1, <2>2, VersionsOfPrepended
  <2>6. Covers(text', d)
    <3>1. Covers(c, d)
      BY <1>a, <2>1 DEF AllCovered
    <3>2. \A w \in Versions(c) : IsNewest(text', w) => IsNewest(c, w)
      BY <2>5 DEF IsNewest
    <3> QED
      BY <2>4, <2>5, <3>1, <3>2 DEF Covers
  <2>7. Package' = Package
    BY <2>1 DEF Package
  <2> HIDE DEF p
  <2>8. AllCovered'
    BY <1>a, <2>1, <2>6, <2>7 DEF AllCovered, SuiteSparseTypeOK, p
  <2>9. \A i \in DOMAIN Members[release] : i < at => IsProvided(i)'
    BY <1>a, <1>c, <2>1 DEF SuiteSparseTypeOK, p
  <2> QED
    BY <2>1, <2>8, <2>9 DEF PastIsProvided
<1>8. CASE WriteConfig
  <2>1. /\ step = "config" /\ step' = "conandata"
        /\ configYml' = [configYml EXCEPT ![Package] = text]
        /\ UNCHANGED <<conandataYml, release, at>>
        /\ at \in DOMAIN Members[release] /\ Package \in SuiteSparseRecipes
    BY <1>8, <1>a DEF WriteConfig, EditedAgrees
  <2>2. AllCovered'
    BY <1>a, <2>1 DEF AllCovered, SuiteSparseTypeOK
  <2>3. \A i \in DOMAIN Members[release] : i < at => IsProvided(i)'
    BY <1>a, <1>c, <2>1 DEF SuiteSparseTypeOK
  <2> QED
    BY <2>1, <2>2, <2>3 DEF PastIsProvided
<1>9. CASE OpenConandata
  <2> DEFINE p == Package
             c == configYml[p]
             d == conandataYml[p]
             url == IF p = GraphBLAS THEN Own ELSE release
  <2>1. /\ step = "conandata" /\ step' = "write"
        /\ text' = WithNewVersion(d, url)
        /\ conandataYml' = [conandataYml EXCEPT ![p] = EmptyConandata]
        /\ UNCHANGED <<configYml, release, at>>
        /\ at \in DOMAIN Members[release] /\ p \in SuiteSparseRecipes
        /\ c # EmptyConfig /\ IsFresh(c, d)
    BY <1>9, <1>a DEF OpenConandata, EditedAgrees
  <2>2. NewVersion \in Nat /\ d \in Conandata /\ url \in Releases \cup {Own} /\ Covers(c, d)
    BY <1>a, <2>1, NewVersionType DEF SuiteSparseTypeOK, AllCovered
  <2>3. p # GraphBLAS => url = release
    OBVIOUS
  <2>4. Package' = Package /\ NewVersion' = NewVersion
    BY <2>1 DEF Package, NewVersion
  <2> HIDE DEF p, url
  <2>5. /\ text'.sources = <<<<NewVersion, url>>>> \o d.sources
        /\ text'.patches = IF d.patches = {} THEN {} ELSE d.patches \cup {NewVersion}
    BY <2>1 DEF WithNewVersion
  <2>6. Covers(c, text') /\ Provides(c, text', NewVersion, url)
    BY <2>1, <2>2, <2>5, InsertedIsProvided DEF IsFresh
  <2>7. Covers(c, EmptyConandata)
    BY DEF Covers, EmptyConandata
  <2>8. AllCovered'
    BY <1>a, <2>1, <2>4, <2>6, <2>7 DEF AllCovered, SuiteSparseTypeOK, p
  <2>9. \A i \in DOMAIN Members[release] : i < at => IsProvided(i)'
    BY <1>a, <1>c, <2>1 DEF SuiteSparseTypeOK, p
  <2> QED
    BY <2>1, <2>3, <2>4, <2>6, <2>8, <2>9 DEF PastIsProvided, p
<1>10. CASE UpdateUrl
  <2> DEFINE p == Package
             c == configYml[p]
             d == conandataYml[p]
  <2>1. /\ step = "url" /\ step' = "write"
        /\ conandataYml' = [conandataYml EXCEPT ![p] = EmptyConandata]
        /\ UNCHANGED <<configYml, release, at>>
        /\ at \in DOMAIN Members[release] /\ p \in SuiteSparseRecipes
        /\ c # EmptyConfig /\ CurrentVersion(p) = NewVersion
    BY <1>10, <1>a DEF UpdateUrl, EditedAgrees
  <2>2. PICK i \in DOMAIN d.sources :
           /\ Entries(conandataYml, p, NewVersion) = {i}
           /\ text' = [d EXCEPT !.sources[i] = <<NewVersion, release>>]
    BY <1>10 DEF UpdateUrl
  <2>3. Package' = Package /\ NewVersion' = NewVersion
    BY <2>1 DEF Package, NewVersion
  <2>4. d \in Conandata /\ Covers(c, d) /\ NewVersion \in Versions(c) /\ NewVersion \in Nat
        /\ IsNewest(c, NewVersion)
    BY <1>a, <2>1, CurrentIsNewest DEF SuiteSparseTypeOK, AllCovered
  <2> HIDE DEF p
  <2>5. d.sources[i][1] = NewVersion /\ \A k \in DOMAIN d.sources :
           d.sources[k][1] = NewVersion => k = i
    BY <2>2 DEF Entries
  <2>6. /\ text'.patches = d.patches
        /\ text'.sources = [d.sources EXCEPT ![i] = <<NewVersion, release>>]
    BY <2>2, <2>4 DEF Conandata
  <2>7. /\ DOMAIN text'.sources = DOMAIN d.sources
        /\ \A k \in DOMAIN d.sources : text'.sources[k][1] = d.sources[k][1]
        /\ text'.sources[i] = <<NewVersion, release>>
    BY <2>5, <2>6
  <2>8. Covers(c, text')
    BY <2>4, <2>6, <2>7 DEF Covers
  <2>9. NewVersion \in d.patches \/ d.patches = {}
    BY <2>4, <2>5 DEF Covers
  <2>10. Provides(c, text', NewVersion, release)
    BY <2>1, <2>4, <2>5, <2>6, <2>7, <2>9 DEF Provides
  <2>11. Covers(c, EmptyConandata)
    BY DEF Covers, EmptyConandata
  <2>12. AllCovered'
    BY <1>a, <2>1, <2>3, <2>8, <2>11 DEF AllCovered, SuiteSparseTypeOK, p
  <2>13. \A k \in DOMAIN Members[release] : k < at => IsProvided(k)'
    BY <1>a, <1>c, <2>1 DEF SuiteSparseTypeOK, p
  <2> QED
    BY <2>1, <2>3, <2>10, <2>12, <2>13 DEF PastIsProvided, p
<1>11. CASE WriteConandata
  <2>1. /\ step = "write" /\ step' = "update" /\ at' = at + 1
        /\ conandataYml' = [conandataYml EXCEPT ![Package] = text]
        /\ UNCHANGED <<configYml, release>>
        /\ at \in DOMAIN Members[release] /\ Package \in SuiteSparseRecipes
    BY <1>11, <1>a DEF WriteConandata, EditedAgrees
  <2>2. AllCovered'
    BY <1>a, <2>1 DEF AllCovered, SuiteSparseTypeOK
  <2>3. \A i \in DOMAIN Members[release] : i < at => IsProvided(i)
    BY <1>a, <2>1 DEF PastIsProvided
  <2>4. ASSUME NEW i \in DOMAIN Members[release], i < at PROVE IsProvided(i)'
    <3>1. i # at /\ \A p \in SuiteSparseRecipes : p # Package =>
             configYml'[p] = configYml[p] /\ conandataYml'[p] = conandataYml[p]
      BY <1>a, <1>b, <2>1, <2>4 DEF SuiteSparseTypeOK
    <3> QED
      BY <1>a, <2>1, <2>3, <2>4, <3>1, OthersStayProvided
  <2>5. ASSUME NEW i \in DOMAIN Members[release], i = at PROVE IsProvided(i)'
    <3>1. conandataYml'[Package] = text
      BY <1>a, <2>1 DEF SuiteSparseTypeOK
    <3>2. Package # GraphBLAS => Provides(configYml[Package], text, NewVersion, release)
      BY <1>a, <2>1 DEF PastIsProvided
    <3>3. Members[release'][i][1] = Package /\ Members[release'][i][2] = NewVersion
      BY <2>1, <2>5 DEF Package, NewVersion
    <3> QED
      BY <2>1, <3>1, <3>2, <3>3 DEF IsProvided
  <2>6. \A i \in DOMAIN Members[release] : i < at' => IsProvided(i)'
    <3> SUFFICES ASSUME NEW i \in DOMAIN Members[release], i < at' PROVE IsProvided(i)'
      OBVIOUS
    <3>1. i < at \/ i = at
      BY <1>b, <2>1
    <3> QED
      BY <2>4, <2>5, <3>1
  <2> QED
    BY <2>1, <2>2, <2>6 DEF PastIsProvided
<1>12. CASE UNCHANGED suiteSparseVars
  BY <1>12, <1>a DEF suiteSparseVars, AllCovered, PastIsProvided, IsProvided, Package, NewVersion
<1> QED
  BY <1>1, <1>3, <1>4, <1>5, <1>6, <1>7, <1>8, <1>9, <1>10, <1>11, <1>12 DEF SuiteSparseNext

(* The mapping of SuiteSparseMaintenance. *)
SuiteSparseStatus ==
    IF step # "idle" THEN "running"
    ELSE CASE result = "none" -> "idle"
           [] result = "done" -> "done"
           [] OTHER -> "stopped"

SuiteSparseWanted ==
    [p \in SubPackages |->
        IF p \in PackagesOf(release) \ {GraphBLAS} THEN {VersionIn(release, p)}
        ELSE {}]

SuiteSparseComplete ==
    [p \in SubPackages |->
        IF p \notin SuiteSparseRecipes THEN {}
        ELSE {v \in Listed(configYml, p) : HasSources(p, v)}]

LEMMA VersionOfMember ==
    ASSUME release \in Releases, NEW i \in DOMAIN Members[release]
    PROVE  VersionIn(release, Members[release][i][1]) = Members[release][i][2]
<1>1. \A j \in DOMAIN Members[release] :
         Members[release][j][1] = Members[release][i][1] => j = i
  BY SuiteSparseAssumption
<1> QED
  BY <1>1 DEF VersionIn

LEMMA ProvidedHasSources ==
    ASSUME SuiteSparseTypeOK, NEW i \in DOMAIN Members[release], IsProvided(i),
           NEW p, p = Members[release][i][1], p # GraphBLAS,
           NEW v, v = Members[release][i][2]
    PROVE  /\ HasSources(p, v)
           /\ CurrentVersion(p) = v =>
                 \A k \in Entries(conandataYml, p, v) :
                     conandataYml[p].sources[k] = <<v, release>>
<1>1. p \in SuiteSparseRecipes /\ Provides(configYml[p], conandataYml[p], v, release)
  BY DEF IsProvided
<1>2. v \in Listed(configYml, p)
  BY <1>1 DEF Provides, Versions, Listed
<1>3. HasSources(p, v)
  BY <1>1, <1>2 DEF Provides, HasSources, Entries
<1>4. IsNewest(configYml[p], CurrentVersion(p))
  BY <1>1, CurrentIsNewest DEF Provides
<1> QED
  BY <1>1, <1>3, <1>4 DEF Provides, Entries

LEMMA DoneIsUpdated == DoneInv => DoneMeansUpdated
<1> SUFFICES ASSUME DoneInv, result = "done", step = "idle",
                    NEW p \in PackagesOf(release) \ {GraphBLAS},
                    NEW v, v = VersionIn(release, p)
             PROVE  /\ HasSources(p, v)
                    /\ CurrentVersion(p) = v =>
                          \A i \in Entries(conandataYml, p, v) :
                              conandataYml[p].sources[i] = <<v, release>>
  BY DEF DoneMeansUpdated
<1>1. SuiteSparseTypeOK /\ release \in Releases
  BY DEF DoneInv, SuiteSparseInv, SuiteSparseTypeOK
<1>2. PICK i \in DOMAIN Members[release] : p = Members[release][i][1]
  BY DEF PackagesOf
<1>3. v = Members[release][i][2] /\ IsProvided(i)
  BY <1>1, <1>2, VersionOfMember DEF DoneInv, PastIsProvided
<1>4. HasSources(p, v)
  BY <1>1, <1>2, <1>3, ProvidedHasSources
<1>5. CurrentVersion(p) = v =>
         \A k \in Entries(conandataYml, p, v) : conandataYml[p].sources[k] = <<v, release>>
  BY <1>1, <1>2, <1>3, ProvidedHasSources
<1> QED
  BY <1>4, <1>5, Zenon

LEMMA SuiteSparseMapped ==
    ASSUME SuiteSparseTypeOK
    PROVE  /\ SuiteSparseWanted \in [SubPackages -> SUBSET Nat]
           /\ SuiteSparseComplete \in [SubPackages -> SUBSET Nat]
<1>1. release \in Releases
  BY DEF SuiteSparseTypeOK
<1>2. ASSUME NEW p \in PackagesOf(release) PROVE VersionIn(release, p) \in Nat
  <2>1. PICK i \in DOMAIN Members[release] : p = Members[release][i][1]
    BY DEF PackagesOf
  <2> QED
    BY <1>1, <2>1, VersionOfMember, MembersShape
<1>3. ASSUME NEW p \in SuiteSparseRecipes PROVE Listed(configYml, p) \subseteq Nat
  BY DEF SuiteSparseTypeOK, Config, Listed
<1> QED
  BY <1>2, <1>3 DEF SuiteSparseWanted, SuiteSparseComplete

(* A step that changes at most one recipe. *)
LEMMA SuiteSparseEdits ==
    ASSUME SuiteSparseTypeOK, SuiteSparseTypeOK', step # "idle", step' # "idle",
           NEW r \in SuiteSparseRecipes, UNCHANGED release,
           \A p \in SuiteSparseRecipes \ {r} :
               configYml'[p] = configYml[p] /\ conandataYml'[p] = conandataYml[p]
    PROVE  SuiteSparseMaintenance!Edit(r)
<1>1. SuiteSparseStatus = "running" /\ SuiteSparseStatus' = "running"
  BY DEF SuiteSparseStatus
<1>2. /\ SuiteSparseWanted \in [SubPackages -> SUBSET Nat]
      /\ SuiteSparseComplete' \in [SubPackages -> SUBSET Nat]
  <2>1. SuiteSparseWanted \in [SubPackages -> SUBSET Nat]
    BY SuiteSparseMapped
  <2>2. ASSUME NEW p \in SuiteSparseRecipes PROVE Listed(configYml, p)' \subseteq Nat
    BY DEF SuiteSparseTypeOK, Config, Listed
  <2> QED
    BY <2>1, <2>2 DEF SuiteSparseComplete
<1>3. SuiteSparseWanted' = SuiteSparseWanted
  BY DEF SuiteSparseWanted
<1>4. \A p \in SubPackages \ {r} : SuiteSparseComplete'[p] = SuiteSparseComplete[p]
  <2> SUFFICES ASSUME NEW p \in SubPackages \ {r}
               PROVE  SuiteSparseComplete'[p] = SuiteSparseComplete[p]
    OBVIOUS
  <2>1. CASE p \notin SuiteSparseRecipes
    BY <2>1 DEF SuiteSparseComplete
  <2>2. CASE p \in SuiteSparseRecipes
    BY <2>2 DEF SuiteSparseComplete, HasSources, Listed, Entries
  <2> QED
    BY <2>1, <2>2
<1> QED
  BY <1>1, <1>2, <1>3, <1>4
  DEF SuiteSparseMaintenance!Edit, SuiteSparseMaintenance!PerRecipe,
      SuiteSparseStatus, SuiteSparseWanted, SuiteSparseComplete

LEMMA SuiteSparseRefines ==
    DoneInv /\ DoneInv' /\ [SuiteSparseNext]_suiteSparseVars
        => [SuiteSparseMaintenance!Next]_(SuiteSparseMaintenance!vars)
<1> SUFFICES ASSUME DoneInv, DoneInv', [SuiteSparseNext]_suiteSparseVars
             PROVE  [SuiteSparseMaintenance!Next]_(SuiteSparseMaintenance!vars)
  OBVIOUS
<1>a. /\ SuiteSparseTypeOK /\ SuiteSparseTypeOK' /\ PastIsProvided /\ EditedAgrees
      /\ release \in Releases /\ release' \in Releases
  BY DEF DoneInv, SuiteSparseInv, SuiteSparseTypeOK
<1>b. ASSUME UNCHANGED <<configYml, conandataYml, release>>
      PROVE  UNCHANGED <<SuiteSparseWanted, SuiteSparseComplete>>
  BY <1>b DEF SuiteSparseWanted, SuiteSparseComplete, HasSources, Listed, Entries
<1>c. ASSUME UNCHANGED <<SuiteSparseStatus, SuiteSparseWanted, SuiteSparseComplete>>
      PROVE  UNCHANGED SuiteSparseMaintenance!vars
  BY <1>c DEF SuiteSparseMaintenance!vars, SuiteSparseStatus, SuiteSparseWanted,
              SuiteSparseComplete
<1>1. ASSUME NEW r \in Releases, InvokeSuiteSparse(r) PROVE SuiteSparseMaintenance!Next
  <2>1. SuiteSparseStatus # "running" /\ SuiteSparseStatus' = "running"
    BY <1>1, <1>a DEF InvokeSuiteSparse, SuiteSparseStatus, SuiteSparseTypeOK
  <2>2. SuiteSparseWanted' \in [SubPackages -> SUBSET Nat]
    <3>1. ASSUME NEW p \in PackagesOf(release') PROVE VersionIn(release', p) \in Nat
      <4>1. PICK i \in DOMAIN Members[release'] : p = Members[release'][i][1]
        BY DEF PackagesOf
      <4>2. \A j \in DOMAIN Members[release'] : Members[release'][j][1] = p => j = i
        BY <1>a, <4>1, SuiteSparseAssumption
      <4> QED
        BY <1>a, <4>1, <4>2, MembersShape DEF VersionIn
    <3> QED
      BY <3>1 DEF SuiteSparseWanted
  <2>3. UNCHANGED SuiteSparseComplete
    BY <1>1 DEF InvokeSuiteSparse, SuiteSparseComplete, HasSources, Listed, Entries
  <2>4. SuiteSparseMaintenance!Begin
    BY <2>1, <2>2, <2>3
    DEF SuiteSparseMaintenance!Begin, SuiteSparseMaintenance!PerRecipe,
        SuiteSparseStatus, SuiteSparseWanted, SuiteSparseComplete
  <2> QED
    BY <2>4 DEF SuiteSparseMaintenance!Next
<1>2. ASSUME NEW how \in {"failed", "stopped"}, step # "idle", Ends(how),
             UNCHANGED <<configYml, conandataYml, release>>
      PROVE  SuiteSparseMaintenance!Next
  <2>1. SuiteSparseStatus = "running" /\ SuiteSparseStatus' = "stopped"
    BY <1>2 DEF Ends, SuiteSparseStatus
  <2>2. SuiteSparseMaintenance!GiveUp
    BY <1>2, <1>b, <2>1
    DEF SuiteSparseMaintenance!GiveUp, SuiteSparseStatus, SuiteSparseWanted,
        SuiteSparseComplete
  <2> QED
    BY <2>2 DEF SuiteSparseMaintenance!Next
<1>3. CASE DownloadFails \/ UpdateRaises \/ ConandataRaises \/ UpdateUrlRaises \/ StopSuiteSparse
  BY <1>2, <1>3 DEF DownloadFails, UpdateRaises, ConandataRaises, UpdateUrlRaises,
                    StopSuiteSparse, Updating
<1>4. CASE Download
  <2>1. /\ step = "download" /\ UNCHANGED <<configYml, conandataYml, release>>
        /\ Ends("failed") \/ step' = "update"
    BY <1>4 DEF Download
  <2>2. CASE Ends("failed")
    BY <1>2, <2>1, <2>2
  <2>3. CASE step' = "update"
    <3>1. UNCHANGED SuiteSparseStatus
      BY <2>1, <2>3 DEF SuiteSparseStatus
    <3> QED
      BY <1>b, <1>c, <2>1, <3>1
  <2> QED
    BY <2>1, <2>2, <2>3
<1>5. CASE AlreadyUpToDate
  <2>1. step = "update" /\ step' \in {"update", "url"}
        /\ UNCHANGED <<configYml, conandataYml, release>>
    BY <1>5 DEF AlreadyUpToDate, Updating
  <2>2. UNCHANGED SuiteSparseStatus
    BY <2>1 DEF SuiteSparseStatus
  <2> QED
    BY <1>b, <1>c, <2>1, <2>2
<1>6. CASE OpenConfig \/ WriteConfig \/ OpenConandata \/ UpdateUrl \/ WriteConandata
  <2>1. /\ step # "idle" /\ step' # "idle" /\ UNCHANGED release
        /\ \A p \in SuiteSparseRecipes \ {Package} :
              configYml'[p] = configYml[p] /\ conandataYml'[p] = conandataYml[p]
    BY <1>6, <1>a DEF OpenConfig, WriteConfig, OpenConandata, UpdateUrl, WriteConandata,
                      Updating, SuiteSparseTypeOK
  <2>2. Package \in SuiteSparseRecipes
    BY <1>6, <1>a DEF OpenConfig, WriteConfig, OpenConandata, UpdateUrl, WriteConandata,
                      Unreadable, EditedAgrees
  <2>3. PICK r \in SuiteSparseRecipes : r = Package
    BY <2>2
  <2>4. SuiteSparseMaintenance!Edit(r)
    BY <1>a, <2>1, <2>3, SuiteSparseEdits
  <2>5. r \in SubPackages
    BY DEF SubPackages
  <2> QED
    BY <2>4, <2>5 DEF SuiteSparseMaintenance!Next
<1>7. CASE FinishSuiteSparse
  <2>1. /\ step = "update" /\ step' = "idle" /\ result' = "done"
        /\ UNCHANGED <<configYml, conandataYml, release>>
    BY <1>7 DEF FinishSuiteSparse, Ends
  <2>2. SuiteSparseStatus = "running" /\ SuiteSparseStatus' = "done"
    BY <2>1 DEF SuiteSparseStatus
  <2>3. \A i \in DOMAIN Members[release] : i < at
    BY <1>7, <1>a, MembersShape DEF FinishSuiteSparse, SuiteSparseTypeOK
  <2>4. \A p \in SubPackages : SuiteSparseWanted[p] \subseteq SuiteSparseComplete[p]
    <3> SUFFICES ASSUME NEW p \in PackagesOf(release) \ {GraphBLAS}, p \in SubPackages
                 PROVE  VersionIn(release, p) \in SuiteSparseComplete[p]
      BY DEF SuiteSparseWanted
    <3>1. PICK i \in DOMAIN Members[release] : p = Members[release][i][1]
      BY DEF PackagesOf
    <3>2. IsProvided(i) /\ VersionIn(release, p) = Members[release][i][2]
      BY <1>a, <2>1, <2>3, <3>1, VersionOfMember DEF PastIsProvided
    <3>3. HasSources(p, VersionIn(release, p))
      BY <1>a, <3>1, <3>2, ProvidedHasSources
    <3> QED
      BY <3>3 DEF SuiteSparseComplete, HasSources
  <2>5. SuiteSparseMaintenance!Finish
    BY <1>b, <2>1, <2>2, <2>4
    DEF SuiteSparseMaintenance!Finish, SuiteSparseStatus, SuiteSparseWanted,
        SuiteSparseComplete
  <2> QED
    BY <2>5 DEF SuiteSparseMaintenance!Next
<1>8. CASE UNCHANGED suiteSparseVars
  <2>1. UNCHANGED SuiteSparseStatus /\ UNCHANGED <<configYml, conandataYml, release>>
    BY <1>8 DEF suiteSparseVars, SuiteSparseStatus
  <2> QED
    BY <1>b, <1>c, <2>1
<1> QED
  BY <1>1, <1>3, <1>4, <1>5, <1>6, <1>7, <1>8 DEF SuiteSparseNext

(* The entry of v that is read. *)
LEMMA LastEntry ==
    ASSUME NEW S, NEW s \in Seq(S), NEW v, NEW i \in DOMAIN s, s[i][1] = v
    PROVE  \E k \in DOMAIN s : /\ s[k][1] = v
                               /\ \A l \in DOMAIN s : s[l][1] = v => l <= k
<1> DEFINE E == {k \in DOMAIN s : s[k][1] = v}
<1>1. E \in SUBSET Nat /\ E # {} /\ Len(s) \in Nat /\ \A k \in E : k <= Len(s)
  OBVIOUS
<1>2. PICK k \in E : \A l \in E : l <= k
  <2> HIDE DEF E
  <2> QED
    BY <1>1, HasMaximum
<1> QED
  BY <1>2

LEMMA PrependingKeepsUrl ==
    ASSUME NEW S, NEW s \in Seq(S), NEW v, NEW i \in DOMAIN s, s[i][1] = v,
           NEW t, DOMAIN t = 1..(Len(s) + 1),
           \A l \in DOMAIN t : l # 1 => l - 1 \in DOMAIN s /\ t[l] = s[l - 1]
    PROVE  UrlRead(t, v) = UrlRead(s, v)
<1>1. PICK k \in DOMAIN s : s[k][1] = v /\ \A l \in DOMAIN s : s[l][1] = v => l <= k
  BY LastEntry
<1>2. /\ DOMAIN t = 1..(Len(s) + 1) /\ Len(s) \in Nat /\ DOMAIN s = 1..Len(s)
      /\ t[k + 1] = s[k]
      /\ \A l \in DOMAIN t : l # 1 => l - 1 \in DOMAIN s /\ t[l] = s[l - 1]
  BY <1>1
<1>3. \A l \in DOMAIN t : t[l][1] = v => l <= k + 1
  <2> SUFFICES ASSUME NEW l \in DOMAIN t, t[l][1] = v, l # 1 PROVE l <= k + 1
    BY <1>2
  <2>1. l - 1 <= k
    BY <1>1, <1>2
  <2> QED
    BY <1>2, <2>1
<1>4. k + 1 \in DOMAIN t /\ t[k + 1][1] = v
  BY <1>1, <1>2
<1>5. UrlRead(t, v) = t[k + 1][2]
  <2>1. \A m \in DOMAIN t :
           t[m][1] = v /\ (\A l \in DOMAIN t : t[l][1] = v => l <= m) => m = k + 1
    BY <1>2, <1>3, <1>4
  <2>2. (CHOOSE m \in DOMAIN t : t[m][1] = v /\ \A l \in DOMAIN t : t[l][1] = v => l <= m)
            = k + 1
    BY <1>3, <1>4, <2>1
  <2> QED
    BY <2>2 DEF UrlRead
<1>6. UrlRead(s, v) = s[k][2]
  <2>1. (CHOOSE m \in DOMAIN s : s[m][1] = v /\ \A l \in DOMAIN s : s[l][1] = v => l <= m) = k
    <3>1. \A m \in DOMAIN s :
             s[m][1] = v /\ (\A l \in DOMAIN s : s[l][1] = v => l <= m) => m = k
      BY <1>1, <1>2
    <3> QED
      BY <1>1, <3>1
  <2> QED
    BY <2>1 DEF UrlRead
<1> QED
  BY <1>2, <1>5, <1>6

(* Entries of other versions do not count. *)
LEMMA ReplacingKeepsUrl ==
    ASSUME NEW S, NEW s \in Seq(S), NEW v, NEW i \in DOMAIN s, s[i][1] = v,
           NEW t, DOMAIN t = DOMAIN s,
           \A k \in DOMAIN s : t[k][1] = s[k][1],
           \A k \in DOMAIN s : s[k][1] = v => t[k] = s[k]
    PROVE  UrlRead(t, v) = UrlRead(s, v)
<1>1. PICK k \in DOMAIN s : s[k][1] = v /\ \A l \in DOMAIN s : s[l][1] = v => l <= k
  BY LastEntry
<1>2. DOMAIN s \subseteq Nat
  OBVIOUS
<1>3. (CHOOSE m \in DOMAIN s : s[m][1] = v /\ \A l \in DOMAIN s : s[l][1] = v => l <= m) = k
  <2>1. \A m \in DOMAIN s :
           s[m][1] = v /\ (\A l \in DOMAIN s : s[l][1] = v => l <= m) => m = k
    BY <1>1, <1>2
  <2> QED
    BY <1>1, <2>1
<1>4. (CHOOSE m \in DOMAIN t : t[m][1] = v /\ \A l \in DOMAIN t : t[l][1] = v => l <= m) = k
  <2>1. \A m \in DOMAIN t :
           t[m][1] = v /\ (\A l \in DOMAIN t : t[l][1] = v => l <= m) => m = k
    BY <1>1, <1>2
  <2> QED
    BY <1>1, <2>1
<1> QED
  BY <1>1, <1>3, <1>4 DEF UrlRead

LEMMA WritingKeepsUrls ==
    ASSUME SuiteSparseInv, [SuiteSparseNext]_suiteSparseVars, step # "write", step' = "write",
           NEW v \in Listed(configYml, Package), v < CurrentVersion(Package),
           Entries(conandataYml, Package, v) # {}
    PROVE  UrlRead(text'.sources, v) = UrlRead(conandataYml[Package].sources, v)
<1> DEFINE d == conandataYml[Package]
           S == Nat \X (Releases \cup {Own})
<1>a. OpenConandata \/ UpdateUrl
  BY DEF SuiteSparseNext, suiteSparseVars, InvokeSuiteSparse, Download, DownloadFails,
         UpdateRaises, AlreadyUpToDate, OpenConfig, WriteConfig, ConandataRaises,
         UpdateUrlRaises, WriteConandata, FinishSuiteSparse, StopSuiteSparse, Ends
<1>b. /\ SuiteSparseTypeOK /\ EditedAgrees /\ release \in Releases
      /\ at \in DOMAIN Members[release] /\ Package \in SuiteSparseRecipes
      /\ configYml[Package] # EmptyConfig
  BY <1>a DEF SuiteSparseInv, SuiteSparseTypeOK, EditedAgrees, OpenConandata, UpdateUrl
<1>c. d \in Conandata /\ d.sources \in Seq(S) /\ NewVersion \in Nat
      /\ CurrentVersion(Package) \in Nat /\ v \in Nat
  BY <1>b, NewVersionType, CurrentIsNewest DEF SuiteSparseTypeOK, Conandata, Config, Listed
<1>d. PICK i \in DOMAIN d.sources : d.sources[i][1] = v
  BY DEF Entries
<1>1. CASE OpenConandata
  <2> DEFINE url == IF Package = GraphBLAS THEN Own ELSE release
  <2>1. text' = WithNewVersion(d, url)
    BY <1>1 DEF OpenConandata
  <2>2. url \in Releases \cup {Own}
    BY <1>b
  <2> HIDE DEF url
  <2> DEFINE s == d.sources
             t == text'.sources
             x == <<NewVersion, url>>
  <2>3. t = <<x>> \o s /\ x \in S /\ s \in Seq(S) /\ i \in DOMAIN s /\ s[i][1] = v
    BY <1>c, <1>d, <2>1, <2>2 DEF WithNewVersion
  <2> HIDE DEF s, t, x, S
  <2>4. /\ DOMAIN t = 1..(Len(s) + 1)
        /\ \A l \in DOMAIN t : l # 1 => l - 1 \in DOMAIN s /\ t[l] = s[l - 1]
    BY <2>3, Prepended
  <2>5. UrlRead(t, v) = UrlRead(s, v)
    BY <2>3, <2>4, PrependingKeepsUrl
  <2> QED
    BY <2>5 DEF s, t
<1>2. CASE UpdateUrl
  <2>1. PICK k \in DOMAIN d.sources :
           /\ Entries(conandataYml, Package, NewVersion) = {k}
           /\ text' = [d EXCEPT !.sources[k] = <<NewVersion, release>>]
    BY <1>2 DEF UpdateUrl
  <2>2. d.sources[k][1] = NewVersion /\ NewVersion = CurrentVersion(Package)
    BY <1>2, <1>b, <2>1 DEF Entries, UpdateUrl, EditedAgrees
  <2>3. text'.sources = [d.sources EXCEPT ![k] = <<NewVersion, release>>]
    BY <1>c, <2>1 DEF Conandata
  <2>4. NewVersion # v
    BY <1>c, <2>2
  <2>5. /\ DOMAIN text'.sources = DOMAIN d.sources
        /\ \A l \in DOMAIN d.sources : text'.sources[l][1] = d.sources[l][1]
        /\ \A l \in DOMAIN d.sources : d.sources[l][1] = v => text'.sources[l] = d.sources[l]
    BY <2>2, <2>3, <2>4
  <2> HIDE DEF S, d
  <2> QED
    BY <1>c, <1>d, <2>5, ReplacingKeepsUrl DEF d
<1> QED
  BY <1>a, <1>1, <1>2

(***************************************************************************)
(* Both scripts                                                            *)
(***************************************************************************)
LEMMA BothSteps ==
    [UpdateNext]_updateVars => [SuiteSparseNext]_suiteSparseVars /\ [OneApiNext]_oneApiVars
                               /\ UNCHANGED script
BY DEF UpdateNext, updateVars

(* The state of both scripts has its types: no invocation, wherever an     *)
(* earlier one was stopped, leaves its loop early or late, or writes       *)
(* anything but versions and sources (main() of both). *)
THEOREM UpdateTypeCorrect == UpdateSpec => []UpdateTypeOK
<1> DEFINE I == SuiteSparseInv /\ OneApiInv
               /\ script \in {"update_suitesparse.py", "update-oneapi.py"}
<1>1. UpdateInit => I
  BY InitSuiteSparse, InitOneApi DEF UpdateInit
<1>2. I /\ [UpdateNext]_updateVars => I'
  BY BothSteps, StepSuiteSparse, StepOneApi
<1>3. I => UpdateTypeOK
  BY DEF UpdateTypeOK, SuiteSparseInv, OneApiInv
<1> QED
  BY <1>1, <1>2, <1>3, PTL DEF UpdateSpec

LEMMA SuiteSparseAlways == UpdateSpec => []SuiteSparseInv
<1>1. UpdateInit => SuiteSparseInv
  BY InitSuiteSparse DEF UpdateInit
<1>2. SuiteSparseInv /\ [UpdateNext]_updateVars => SuiteSparseInv'
  BY BothSteps, StepSuiteSparse
<1> QED
  BY <1>1, <1>2, PTL DEF UpdateSpec

(* What update_config_yml() reads and what update_url_only() looks for     *)
(* agree in every recipe, whatever was stopped and run again for whichever *)
(* release, and main() never unpacks None: what is decided about the       *)
(* archive of GraphBLAS before the loop is what its turn in it finds. *)
THEOREM FilesAgreeAlways == UpdateSpec => []FilesAgree
<1>1. SuiteSparseInv => NewestIsUnique /\ SourcesAreListed
  BY AgreesIsFilesAgree DEF SuiteSparseInv
<1>2. SuiteSparseInv => NoneIsNeverUnpacked
  BY Zenon DEF SuiteSparseInv, GraphblasIsDecided, NoneIsNeverUnpacked, NothingToUnpack
<1>3. SuiteSparseInv => FilesAgree
  BY <1>1, <1>2 DEF FilesAgree
<1> QED
  BY <1>3, SuiteSparseAlways, PTL

(* Neither update_conandata_yml() nor update_url_only() changes the URL    *)
(* that is read for a version that is not the newest one. *)
THEOREM UrlsAreKept == UpdateSpec => OlderUrlsAreKept
<1>1. SuiteSparseInv /\ [UpdateNext]_updateVars =>
         [step # "write" /\ step' = "write" =>
             \A v \in Listed(configYml, Package) :
                 v < CurrentVersion(Package) /\ Entries(conandataYml, Package, v) # {} =>
                     UrlRead(text'.sources, v) =
                         UrlRead(conandataYml[Package].sources, v)]_suiteSparseVars
  BY BothSteps, WritingKeepsUrls
<1> QED
  BY <1>1, SuiteSparseAlways, PTL DEF UpdateSpec, OlderUrlsAreKept

LEMMA DoneAlways == PatchesCoverNewest /\ UpdateSpec => []DoneInv
<1>1. PatchesCoverNewest /\ UpdateInit => DoneInv
  BY InitDone DEF UpdateInit
<1>2. DoneInv /\ [UpdateNext]_updateVars => DoneInv'
  BY BothSteps, StepDone
<1> QED
  BY <1>1, <1>2, PTL DEF UpdateSpec

(* When update_suitesparse.py is done, all sub-packages of the release but *)
(* GraphBLAS have their sources, whatever earlier invocations have left. *)
THEOREM DoneIsDone == PatchesCoverNewest /\ UpdateSpec => []DoneMeansUpdated
BY DoneAlways, DoneIsUpdated, PTL

(* update_suitesparse.py implements RecipeMaintenance: it works on one     *)
(* recipe at a time, and is not done before all are complete. *)
THEOREM SuiteSparseImplementsMaintenance ==
    PatchesCoverNewest /\ UpdateSpec => SuiteSparseIsMaintenance
<1>1. UpdateInit => SuiteSparseMaintenance!Init
  <2> SUFFICES ASSUME UpdateInit PROVE SuiteSparseMaintenance!Init
    OBVIOUS
  <2>1. SuiteSparseTypeOK
    BY InitSuiteSparse DEF UpdateInit, SuiteSparseInv
  <2>2. SuiteSparseStatus = "idle"
    BY DEF UpdateInit, SuiteSparseInit, SuiteSparseStatus
  <2> QED
    BY <2>1, <2>2, SuiteSparseMapped
    DEF SuiteSparseMaintenance!Init, SuiteSparseMaintenance!PerRecipe, SuiteSparseStatus,
        SuiteSparseWanted, SuiteSparseComplete
<1>2. DoneInv /\ DoneInv' /\ [UpdateNext]_updateVars
          => [SuiteSparseMaintenance!Next]_(SuiteSparseMaintenance!vars)
  BY BothSteps, SuiteSparseRefines
<1> QED
  BY <1>1, <1>2, DoneAlways, PTL
  DEF UpdateSpec, SuiteSparseIsMaintenance, SuiteSparseMaintenance!Spec

LEMMA OneApiAlways == UpdateSpec => []OneApiInv
<1>1. UpdateInit => OneApiInv
  BY InitOneApi DEF UpdateInit
<1>2. OneApiInv /\ [UpdateNext]_updateVars => OneApiInv'
  BY BothSteps, StepOneApi
<1> QED
  BY <1>1, <1>2, PTL DEF UpdateSpec

(* update-oneapi.py heals what a stop has torn: every recipe that an       *)
(* invocation is past is whole, and all are when it is done. *)
THEOREM ProcessedIsWholeAlways == UpdateSpec => []ProcessedIsWhole
<1>1. OneApiInv => ProcessedIsWhole
  BY DEF OneApiInv
<1> QED
  BY <1>1, OneApiAlways, PTL

(* What update-oneapi.py leaves behind is whole, and no file of sources    *)
(* lacks a part that the recipe needs, although every part is asked for    *)
(* separately. *)
THEOREM RecipesAreSoundAlways ==
    OldSourcesAreComplete /\ UpdateSpec => []RecipesAreSound
<1>1. OldSourcesAreComplete /\ UpdateInit => CompleteInv
  BY InitComplete DEF UpdateInit
<1>2. CompleteInv /\ [UpdateNext]_updateVars => CompleteInv'
  BY BothSteps, StepComplete
<1>3. ProcessedIsWhole /\ SourcesAreComplete => RecipesAreSound
  BY DEF RecipesAreSound
<1> QED
  BY <1>1, <1>2, <1>3, CompleteIsComplete, ProcessedIsWholeAlways, PTL DEF UpdateSpec

(* When update-oneapi.py is done, its recipes list for every line the      *)
(* newest version that was on offer when it began, or a newer one,         *)
(* whatever is published between two of its requests and whatever earlier  *)
(* invocations have left: as long as nothing is withdrawn. *)
THEOREM NothingReleasedIsMissedAlways ==
    UpstreamGrows /\ UpdateSpec => []NothingReleasedIsMissed
<1>1. UpdateInit => OfferInv
  BY InitOffer DEF UpdateInit
<1>2. UpstreamGrows /\ OfferInv /\ [UpdateNext]_updateVars => OfferInv'
  BY BothSteps, StepOffer
<1>3. OfferInv => NothingReleasedIsMissed
  <2> SUFFICES ASSUME OfferInv, phase = "idle", outcome = "done", NEW p \in OneApiRecipes
               PROVE  CoversOffer(p, config[p])
    BY DEF NothingReleasedIsMissed, CoversOffer
  <2>1. p \in Processed
    BY DEF Processed, OneApiRecipes
  <2> QED
    BY <2>1 DEF OfferInv, ProcessedCovers
<1>4. UpstreamGrows => UpstreamGrows'
  BY DEF UpstreamGrows
<1> QED
  BY <1>1, <1>2, <1>3, <1>4, PTL DEF UpdateSpec

(* update-oneapi.py implements RecipeMaintenance for the versions that its *)
(* config.yml offers. *)
THEOREM OneApiImplementsMaintenance == UpdateSpec => OneApiIsMaintenance
<1>1. UpdateInit => OneApiMaintenance!Init
  <2> SUFFICES ASSUME UpdateInit PROVE OneApiMaintenance!Init
    OBVIOUS
  <2>1. OneApiTypeOK
    BY InitOneApi DEF UpdateInit, OneApiInv
  <2>2. OneApiStatus = "idle"
    BY DEF UpdateInit, OneApiInit, OneApiStatus
  <2> QED
    BY <2>1, <2>2, OneApiMapped
    DEF OneApiMaintenance!Init, OneApiMaintenance!PerRecipe, OneApiStatus, OneApiComplete
<1>2. OneApiInv /\ OneApiInv' /\ [UpdateNext]_updateVars
          => [OneApiMaintenance!Next]_(OneApiMaintenance!vars)
  BY BothSteps, OneApiRefines
<1> QED
  BY <1>1, <1>2, OneApiAlways, PTL
  DEF UpdateSpec, OneApiIsMaintenance, OneApiMaintenance!Spec
=============================================================================
