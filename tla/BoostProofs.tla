---------------------------- MODULE BoostProofs ----------------------------
(***************************************************************************)
(* Proofs about BoostOptions and BoostPackage for every dependency file,   *)
(* version, profile and answer of the user that the assumptions admit:     *)
(* configure() selects the least closed set of modules, and brings back a  *)
(* module the settings rule out only through the coupling of math and      *)
(* random; what it removes is not read by the methods after it, and those  *)
(* methods describe one and the same package.  The loop that enables       *)
(* dependencies lowers a number with each of them.                         *)
(***************************************************************************)
EXTENDS BoostPackage, FiniteSetTheorems, TLAPS

Wanted == Selection!Least(Requested)

DepsClosed(S) == \A m \in S : Deps[m] \subseteq S

(* What has been achieved at each point of configure(). *)
Progress ==
    /\ pc \in {"configure", "header_only", "defaults"} => with = asked
    /\ pc = "header_only" => AskedHeaderOnly
    /\ pc \in {"defaults", "disable", "assign", "enable", "couple", "remove"}
          => ~AskedHeaderOnly
    /\ pc = "disable" =>
          with = [m \in Available |->
                    IF asked[m] = "None" THEN DefaultValue(m) ELSE asked[m]]
    /\ pc = "assign" => Enabled = Requested
    /\ pc \in {"enable", "couple"} =>
          Requested \subseteq Enabled /\ Enabled \subseteq Wanted
    /\ pc = "couple" => DepsClosed(Enabled)
    /\ pc \in {"remove", "configured"} => Enabled = Wanted

(* Which ruled out modules can be enabled at each point. *)
BlockedProgress ==
    /\ pc \in {"assign", "enable", "couple"} => Blocked(settings) \cap Enabled = {}
    /\ pc \in {"remove", "configured"} =>
          Blocked(settings) \cap Enabled \subseteq {"math", "random"}

OptionsInv == TypeOK /\ Progress /\ BlockedProgress
-----------------------------------------------------------------------------
(* The operators. *)

LEMMA NeedsType == Needs \in [Available -> SUBSET Available]
BY GraphAssumption DEF Needs, Named

LEMMA RequestedType == Requested \subseteq Available
BY DEF Requested

LEMMA LeastContains ==
    ASSUME NEW R \in SUBSET Available
    PROVE  R \subseteq Selection!Least(R)
BY DEF Selection!Least

LEMMA LeastIsLeast ==
    ASSUME NEW R, NEW S \in SUBSET Available,
           R \subseteq S, Selection!Closed(S)
    PROVE  Selection!Least(R) \subseteq S
BY DEF Selection!Least

LEMMA LeastClosed ==
    ASSUME NEW R \in SUBSET Available
    PROVE  Selection!Closed(Selection!Least(R))
<1> DEFINE L == Selection!Least(R)
<1> SUFFICES ASSUME NEW m \in L, NEW d \in Needs[m]
             PROVE  d \in L
  BY DEF Selection!Closed
<1>1. m \in Available /\ d \in Available
  BY NeedsType DEF Selection!Least
<1>2. ASSUME NEW S \in SUBSET Available, R \subseteq S, Selection!Closed(S)
      PROVE  d \in S
  <2>1. m \in S
    BY <1>2 DEF Selection!Least
  <2> QED
    BY <1>2, <2>1 DEF Selection!Closed
<1> QED
  BY <1>1, <1>2 DEF Selection!Least

(* A module with a disabled dependency is disabled by the same call. *)
LEMMA DisabledUpward ==
    ASSUME NEW name \in Callable, NEW m \in Available,
           NEW d \in Deps[m], d \in DisabledBy[name]
    PROVE  m \in DisabledBy[name]
<1>1. m \in Modules
  BY GraphAssumption
<1>2. d \in AllSuperModules(name)
  BY DEF DisabledBy
<1>3. ASSUME NEW S \in SUBSET (Modules \cup {name}), name \in S, UpwardClosed(S)
      PROVE  m \in S
  <2>1. d \in S
    BY <1>2, <1>3 DEF AllSuperModules
  <2> QED
    BY <1>1, <1>3, <2>1 DEF UpwardClosed
<1>4. m \in AllSuperModules(name)
  BY <1>1, <1>3 DEF AllSuperModules
<1> QED
  BY <1>4 DEF DisabledBy

LEMMA CallsAreCallable ==
    ASSUME NEW s
    PROVE  DisableCalls(s) \subseteq Callable
BY DEF DisableCalls, Callable

LEMMA BlockedUpward ==
    ASSUME NEW s, NEW m \in Available, NEW d \in Deps[m], d \in Blocked(s)
    PROVE  m \in Blocked(s)
<1>1. PICK name \in DisableCalls(s) : d \in DisabledBy[name]
  BY DEF Blocked
<1>2. m \in DisabledBy[name]
  BY <1>1, DisabledUpward, CallsAreCallable
<1> QED
  BY <1>2 DEF Blocked

(* The coupling of math and random completes a set that is closed under    *)
(* the dependencies of the file.                                           *)
LEMMA CouplingCloses ==
    ASSUME NEW E \in SUBSET Available, DepsClosed(E)
    PROVE  /\ "math" \in E => Selection!Closed(E \cup {"random"})
           /\ "random" \in E /\ "math" \notin E
                 => Selection!Closed(E \cup {"math"})
           /\ "random" \notin E /\ "math" \notin E => Selection!Closed(E)
<1> USE GraphAssumption DEF Named
<1>1. CASE "math" \in E
  <2>1. Deps["math"] \subseteq E
    BY <1>1 DEF DepsClosed
  <2>2. Deps["random"] \subseteq E \cup {"random"}
    BY <1>1, <2>1, CouplingAssumption
  <2>3. \A m \in E \cup {"random"} : Needs[m] \subseteq E \cup {"random"}
    BY <1>1, <2>2 DEF Needs, DepsClosed
  <2> QED
    BY <1>1, <2>3 DEF Selection!Closed
<1>2. CASE "random" \in E /\ "math" \notin E
  <2>1. Deps["random"] \subseteq E
    BY <1>2 DEF DepsClosed
  <2>2. Deps["math"] \subseteq E
    BY <1>2, <2>1, CouplingAssumption
  <2>3. \A m \in E \cup {"math"} : Needs[m] \subseteq E \cup {"math"}
    BY <1>2, <2>2 DEF Needs, DepsClosed
  <2> QED
    BY <1>2, <2>3 DEF Selection!Closed
<1>3. CASE "random" \notin E /\ "math" \notin E
  BY <1>3 DEF Needs, DepsClosed, Selection!Closed
<1> QED
  BY <1>1, <1>2, <1>3
-----------------------------------------------------------------------------
(* Types. *)

LEMMA TypeInit == Init => TypeOK
BY ChoicesAssumption DEF Init, TypeOK, Tri

LEMMA TypeStep == TypeOK /\ [Next]_vars => TypeOK'
<1> SUFFICES ASSUME TypeOK, [Next]_vars PROVE TypeOK'
  OBVIOUS
<1> USE DEF TypeOK
<1>1. CASE ConfigOptions
  BY <1>1 DEF ConfigOptions
<1>2. CASE ApplyUserOptions
  <2>1. IconvDefault(settings) \in Iconv
    BY DEF IconvDefault, Iconv
  <2>2. other' \in Others
    BY <1>2, <2>1 DEF ApplyUserOptions, Others
  <2> QED
    BY <1>2, <2>2 DEF ApplyUserOptions
<1>3. CASE DecideHeaderOnly
  <2>1. HeaderOnly \in BOOLEAN
    BY DEF HeaderOnly, Others
  <2>2. other' \in Others
    BY <1>3, <2>1 DEF DecideHeaderOnly, Others
  <2> QED
    BY <1>3, <2>2 DEF DecideHeaderOnly
<1>4. CASE ForceDisableBinaryModules
  <2>1. other' \in Others
    BY <1>4 DEF ForceDisableBinaryModules, Others
  <2> QED
    BY <1>4, <2>1 DEF ForceDisableBinaryModules, Tri
<1>5. CASE FillDefaults
  BY <1>5 DEF FillDefaults, DefaultValue, Tri
<1>6. CASE DisableUnsupported
  BY <1>6 DEF DisableUnsupported, Tri
<1>7. CASE AssignWithoutValue
  BY <1>7 DEF AssignWithoutValue
<1>8. ASSUME NEW m \in Available, NEW d \in Available, EnableDependency(m, d)
      PROVE  TypeOK'
  BY <1>8 DEF EnableDependency, Tri
<1>9. CASE NothingToEnable
  BY <1>9 DEF NothingToEnable
<1>10. CASE CoupleMathAndRandom
  <2>1. with' \in [Available -> Tri]
    BY <1>10 DEF CoupleMathAndRandom, Tri
  <2> QED
    BY <1>10, <2>1 DEF CoupleMathAndRandom
<1>11. CASE RemoveUnusedOptions
  BY <1>11 DEF RemoveUnusedOptions
<1>12. CASE UNCHANGED vars
  BY <1>12 DEF vars
<1> QED
  BY <1>1, <1>2, <1>3, <1>4, <1>5, <1>6, <1>7, <1>8, <1>9, <1>10, <1>11,
     <1>12
  DEF Next
-----------------------------------------------------------------------------
(* What the user asked for does not change under way. *)

LEMMA AskedStable ==
    ASSUME TypeOK, Progress, [Next]_vars
    PROVE  /\ UNCHANGED <<asked, settings>>
           /\ other'.build_all = other.build_all
           /\ AskedHeaderOnly' = AskedHeaderOnly
           /\ Requested' = Requested
           /\ Wanted' = Wanted
<1>1. UNCHANGED <<asked, settings>>
  BY DEF Next, vars, ConfigOptions, ApplyUserOptions, DecideHeaderOnly,
     ForceDisableBinaryModules, FillDefaults, DisableUnsupported,
     AssignWithoutValue, EnableDependency, NothingToEnable,
     CoupleMathAndRandom, RemoveUnusedOptions
<1>2. \/ other' = other
      \/ \E i \in Iconv : other' = [other EXCEPT !.i18n_backend_iconv = i]
      \/ DecideHeaderOnly
      \/ ForceDisableBinaryModules
  <2>1. CASE ApplyUserOptions
    <3>1. IconvDefault(settings) \in Iconv
      BY DEF IconvDefault, Iconv
    <3>2. other.i18n_backend_iconv \in Iconv \cup {"None"}
      BY DEF TypeOK, Others
    <3> QED
      BY <2>1, <3>1, <3>2 DEF ApplyUserOptions
  <2> QED
    BY <2>1 DEF Next, vars, ConfigOptions, FillDefaults, DisableUnsupported,
       AssignWithoutValue, EnableDependency, NothingToEnable,
       CoupleMathAndRandom, RemoveUnusedOptions
<1>3. /\ other'.build_all = other.build_all
      /\ other'.header_only = IF pc = "configure" /\ DecideHeaderOnly
                              THEN HeaderOnly ELSE other.header_only
  BY <1>2 DEF TypeOK, Others, DecideHeaderOnly, ForceDisableBinaryModules
<1>4. AskedHeaderOnly' = AskedHeaderOnly
  <2>1. CASE DecideHeaderOnly
    <3>1. with = asked
      BY <2>1 DEF DecideHeaderOnly, Progress
    <3>2. Enabled # {} <=> \E m \in Available : asked[m] = "True"
      BY <3>1 DEF Enabled
    <3> QED
      BY <1>1, <1>3, <2>1, <3>2
      DEF AskedHeaderOnly, HeaderOnly, DecideHeaderOnly
  <2>2. CASE ~DecideHeaderOnly
    BY <1>1, <1>3, <2>2 DEF AskedHeaderOnly
  <2> QED
    BY <2>1, <2>2
<1>5. Requested' = Requested
  BY <1>1, <1>3, <1>4 DEF Requested, DefaultValue, Blocked, DisableCalls,
     HasCoroutine
<1>6. Wanted' = Wanted
  BY <1>5 DEF Wanted
<1> QED
  BY <1>1, <1>3, <1>4, <1>5, <1>6
-----------------------------------------------------------------------------
(* Progress. *)

LEMMA ProgressInit == Init => Progress
BY DEF Init, Progress

(* The defaults and the disable() calls together leave what is requested.  *)
LEMMA DisableGivesRequested ==
    ASSUME TypeOK, Progress, DisableUnsupported
    PROVE  Enabled' = Requested
<1>1. ~AskedHeaderOnly
  BY DEF DisableUnsupported, Progress
<1>2. \A m \in Available :
        with[m] = IF asked[m] = "None" THEN DefaultValue(m) ELSE asked[m]
  BY DEF DisableUnsupported, Progress
<1>3. \A m \in Available :
        with'[m] = IF m \in Blocked(settings) THEN "False" ELSE with[m]
  BY DEF DisableUnsupported
<1>4. \A m \in Available : asked[m] \in Tri
  BY DEF TypeOK
<1>5. \A m \in Available : m \in Enabled' <=> m \in Requested
  BY <1>1, <1>2, <1>3, <1>4 DEF Enabled, Requested, Tri, DefaultValue
<1> QED
  BY <1>5 DEF Enabled, Requested

(* Enabling a dependency of a wanted module stays within the wanted ones.  *)
LEMMA EnableStaysWanted ==
    ASSUME TypeOK, Progress, NEW m \in Available, NEW d \in Available,
           EnableDependency(m, d)
    PROVE  /\ Enabled' = Enabled \cup {d}
           /\ Enabled \cup {d} \subseteq Wanted
<1>1. Enabled' = Enabled \cup {d}
  BY DEF EnableDependency, Enabled, TypeOK
<1>2. m \in Wanted
  BY DEF EnableDependency, Progress
<1>3. d \in Needs[m]
  BY DEF EnableDependency, Needs
<1>4. Selection!Closed(Wanted)
  BY RequestedType, LeastClosed DEF Wanted
<1>5. d \in Wanted
  BY <1>2, <1>3, <1>4 DEF Selection!Closed
<1> QED
  BY <1>1, <1>5 DEF EnableDependency, Progress

LEMMA CouplingGivesWanted ==
    ASSUME TypeOK, Progress, CoupleMathAndRandom
    PROVE  Enabled' = Wanted
<1> USE GraphAssumption DEF Named
<1>1. /\ Requested \subseteq Enabled
      /\ Enabled \subseteq Wanted
      /\ DepsClosed(Enabled)
      /\ Enabled \in SUBSET Available
  BY DEF CoupleMathAndRandom, Progress, Enabled
<1>2. Selection!Closed(Wanted)
  BY RequestedType, LeastClosed DEF Wanted
<1>3. Enabled' = IF "math" \in Enabled THEN Enabled \cup {"random"}
                 ELSE IF "random" \in Enabled THEN Enabled \cup {"math"}
                 ELSE Enabled
  <2>1. CASE "math" \in Enabled
    BY <2>1 DEF CoupleMathAndRandom, Enabled, TypeOK
  <2>2. CASE "math" \notin Enabled /\ "random" \in Enabled
    BY <2>2 DEF CoupleMathAndRandom, Enabled, TypeOK
  <2>3. CASE "math" \notin Enabled /\ "random" \notin Enabled
    BY <2>3 DEF CoupleMathAndRandom, Enabled
  <2> QED
    BY <2>1, <2>2, <2>3
<1>4. Selection!Closed(Enabled')
  BY <1>1, <1>3, CouplingCloses
<1>5. Enabled' \subseteq Available /\ Requested \subseteq Enabled'
  BY <1>1, <1>3
<1>6. Wanted \subseteq Enabled'
  BY <1>4, <1>5, LeastIsLeast DEF Wanted
<1>7. "math" \in Enabled => "random" \in Wanted
  BY <1>1, <1>2 DEF Selection!Closed, Needs
<1>8. "random" \in Enabled => "math" \in Wanted
  BY <1>1, <1>2 DEF Selection!Closed, Needs
<1> QED
  BY <1>1, <1>3, <1>6, <1>7, <1>8

LEMMA ProgressStep ==
    TypeOK /\ Progress /\ [Next]_vars => Progress'
<1> SUFFICES ASSUME TypeOK, Progress, [Next]_vars PROVE Progress'
  OBVIOUS
<1>0. /\ UNCHANGED <<asked, settings>>
      /\ other'.build_all = other.build_all
      /\ AskedHeaderOnly' = AskedHeaderOnly
      /\ Requested' = Requested
      /\ Wanted' = Wanted
  BY AskedStable
<1> HIDE DEF Wanted
<1>1. CASE ConfigOptions
  BY <1>1 DEF ConfigOptions, Progress
<1>2. CASE ApplyUserOptions
  BY <1>0, <1>2 DEF ApplyUserOptions, Progress
<1>3. CASE DecideHeaderOnly
  <2>1. with = asked
    BY <1>3 DEF DecideHeaderOnly, Progress
  <2>2. HeaderOnly = AskedHeaderOnly
    BY <2>1 DEF HeaderOnly, AskedHeaderOnly, Enabled
  <2>3. with' = asked' /\ (pc' = "header_only" <=> AskedHeaderOnly)
        /\ pc' \in {"header_only", "defaults"}
    BY <1>0, <1>3, <2>1, <2>2 DEF DecideHeaderOnly
  <2> QED
    BY <1>0, <2>3 DEF Progress
<1>4. CASE ForceDisableBinaryModules
  <2>1. AskedHeaderOnly
    BY <1>4 DEF ForceDisableBinaryModules, Progress
  <2>2. Requested = {}
    BY <2>1 DEF Requested
  <2>3. Wanted = {}
    BY <2>2, LeastIsLeast DEF Wanted, Selection!Closed
  <2>4. Enabled' = {}
    BY <1>4 DEF ForceDisableBinaryModules, Enabled
  <2> QED
    BY <1>0, <1>4, <2>3, <2>4 DEF ForceDisableBinaryModules, Progress
<1>5. CASE FillDefaults
  <2>1. with = asked /\ ~AskedHeaderOnly
    BY <1>5 DEF FillDefaults, Progress
  <2>2. \A m : DefaultValue(m)' = DefaultValue(m)
    BY <1>0 DEF DefaultValue
  <2>3. with' = [m \in Available |->
                  IF asked'[m] = "None" THEN DefaultValue(m)' ELSE asked'[m]]
    BY <1>0, <1>5, <2>1, <2>2 DEF FillDefaults
  <2> QED
    BY <1>0, <1>5, <2>1, <2>3 DEF FillDefaults, Progress
<1>6. CASE DisableUnsupported
  <2>1. Enabled' = Requested /\ ~AskedHeaderOnly
    BY <1>6, DisableGivesRequested DEF DisableUnsupported, Progress
  <2> QED
    BY <1>0, <1>6, <2>1 DEF DisableUnsupported, Progress
<1>7. CASE AssignWithoutValue
  <2>1. Enabled = Requested /\ ~AskedHeaderOnly
    BY <1>7 DEF AssignWithoutValue, Progress
  <2>2. Requested \subseteq Wanted
    BY RequestedType, LeastContains DEF Wanted
  <2>3. Enabled' = Enabled
    BY <1>7 DEF AssignWithoutValue, Enabled
  <2> QED
    BY <1>0, <1>7, <2>1, <2>2, <2>3 DEF AssignWithoutValue, Progress
<1>8. ASSUME NEW m \in Available, NEW d \in Available, EnableDependency(m, d)
      PROVE  Progress'
  <2>1. Enabled' = Enabled \cup {d} /\ Enabled \cup {d} \subseteq Wanted
    BY <1>8, EnableStaysWanted
  <2> QED
    BY <1>0, <1>8, <2>1 DEF EnableDependency, Progress
<1>9. CASE NothingToEnable
  <2>1. Enabled' = Enabled
    BY <1>9 DEF NothingToEnable, Enabled
  <2> QED
    BY <1>0, <1>9, <2>1 DEF NothingToEnable, Progress, DepsClosed
<1>10. CASE CoupleMathAndRandom
  <2>1. Enabled' = Wanted /\ ~AskedHeaderOnly
    BY <1>10, CouplingGivesWanted DEF CoupleMathAndRandom, Progress
  <2> QED
    BY <1>0, <1>10, <2>1 DEF CoupleMathAndRandom, Progress
<1>11. CASE RemoveUnusedOptions
  <2>1. Enabled' = Enabled
    BY <1>11 DEF RemoveUnusedOptions, Enabled
  <2> QED
    BY <1>0, <1>11, <2>1 DEF RemoveUnusedOptions, Progress
<1>12. CASE UNCHANGED vars
  <2>1. Enabled' = Enabled /\ \A m : DefaultValue(m)' = DefaultValue(m)
    BY <1>12 DEF vars, Enabled, DefaultValue
  <2> QED
    BY <1>0, <1>12, <2>1 DEF vars, Progress
<1> QED
  BY <1>1, <1>2, <1>3, <1>4, <1>5, <1>6, <1>7, <1>8, <1>9, <1>10, <1>11,
     <1>12
  DEF Next
-----------------------------------------------------------------------------
(* Ruled out modules. *)

LEMMA BlockedStep ==
    OptionsInv /\ [Next]_vars => BlockedProgress'
<1> SUFFICES ASSUME OptionsInv, [Next]_vars PROVE BlockedProgress'
  OBVIOUS
<1> USE DEF OptionsInv
<1>0. /\ settings' = settings
      /\ Requested' = Requested
  BY AskedStable
<1>1. Blocked(settings)' = Blocked(settings)
  BY <1>0 DEF Blocked, DisableCalls, HasCoroutine
<1>2. ASSUME NEW m \in Available, NEW d \in Available, EnableDependency(m, d)
      PROVE  BlockedProgress'
  <2>1. m \notin Blocked(settings) /\ d \in Deps[m]
    BY <1>2 DEF EnableDependency, BlockedProgress
  <2>2. d \notin Blocked(settings)
    BY <2>1, BlockedUpward
  <2>3. Enabled' = Enabled \cup {d}
    BY <1>2, EnableStaysWanted
  <2> QED
    BY <1>1, <1>2, <2>2, <2>3 DEF EnableDependency, BlockedProgress
<1>3. CASE DisableUnsupported
  <2>1. Enabled' = Requested
    BY <1>3, DisableGivesRequested
  <2> QED
    BY <1>1, <1>3, <2>1 DEF DisableUnsupported, BlockedProgress, Requested
<1>4. CASE CoupleMathAndRandom
  <2>1. Enabled' \subseteq Enabled \cup {"math", "random"}
    BY <1>4 DEF CoupleMathAndRandom, Enabled, TypeOK
  <2> QED
    BY <1>1, <1>4, <2>1 DEF CoupleMathAndRandom, BlockedProgress
<1>5. CASE ForceDisableBinaryModules
  BY <1>1, <1>5 DEF ForceDisableBinaryModules, BlockedProgress, Enabled
<1>6. CASE with' = with /\ pc' = pc
  BY <1>1, <1>6 DEF BlockedProgress, Enabled
<1>7. CASE AssignWithoutValue \/ NothingToEnable \/ RemoveUnusedOptions
  <2>1. Enabled' = Enabled
    BY <1>7 DEF AssignWithoutValue, NothingToEnable, RemoveUnusedOptions,
       Enabled
  <2> QED
    BY <1>1, <1>7, <2>1 DEF AssignWithoutValue, NothingToEnable,
       RemoveUnusedOptions, BlockedProgress
<1>8. CASE pc' \in {"apply", "configure", "header_only", "defaults", "disable"}
  BY <1>8 DEF BlockedProgress
<1> QED
  BY <1>2, <1>3, <1>4, <1>5, <1>6, <1>7, <1>8
  DEF Next, vars, ConfigOptions, ApplyUserOptions, DecideHeaderOnly,
      FillDefaults

LEMMA OptionsInvInductive ==
    /\ Init => OptionsInv
    /\ OptionsInv /\ [Next]_vars => OptionsInv'
<1>1. Init => OptionsInv
  BY TypeInit, ProgressInit DEF OptionsInv, Init, BlockedProgress
<1>2. OptionsInv /\ [Next]_vars => OptionsInv'
  BY TypeStep, ProgressStep, BlockedStep DEF OptionsInv
<1> QED
  BY <1>1, <1>2
-----------------------------------------------------------------------------
(* The options keep their types in every behaviour. *)
THEOREM OptionsTypeCorrect == Spec => []TypeOK
BY TypeInit, TypeStep, PTL DEF Spec

(* For every dependency file, version and profile: a module that disable() *)
(* switched off is on again after configure() only if it is math or random *)
(* and the coupling of the two brought it back.                            *)
THEOREM DisabledModulesStayOff == Spec => []BlockedOnlyByCoupling
<1>1. OptionsInv => BlockedOnlyByCoupling
  BY DEF OptionsInv, BlockedProgress, BlockedOnlyByCoupling
<1> QED
  BY OptionsInvInductive, <1>1, PTL DEF Spec

(* configure() implements the abstract selection: whatever the order in    *)
(* which dependencies are enabled, the modules built are the least closed  *)
(* set that contains the requested ones.                                   *)
THEOREM ConfigureSelectsLeast == Spec => ImplementsSelection
<1>1. Init => Selection!Init
  BY RequestedType DEF Init, Selection!Init
<1>2. OptionsInv /\ [Next]_vars => [Selection!Settle]_(Selection!vars)
  <2> SUFFICES ASSUME OptionsInv, [Next]_vars
               PROVE  [Selection!Settle]_(Selection!vars)
    OBVIOUS
  <2>0. Requested' = Requested /\ Wanted' = Wanted
    BY AskedStable DEF OptionsInv
  <2>1. CASE pc = "configured"
    <3>1. UNCHANGED <<pc, with>>
      BY <2>1 DEF Next, vars, ConfigOptions, ApplyUserOptions,
         DecideHeaderOnly, ForceDisableBinaryModules, FillDefaults,
         DisableUnsupported, AssignWithoutValue, EnableDependency,
         NothingToEnable, CoupleMathAndRandom, RemoveUnusedOptions
    <3> QED
      BY <2>0, <3>1 DEF Selection!vars, Enabled
  <2>2. CASE pc # "configured" /\ pc' = "configured"
    <3>1. Enabled' = Wanted'
      BY <2>2, OptionsInvInductive DEF OptionsInv, Progress
    <3> QED
      BY <2>0, <2>2, <3>1 DEF Selection!Settle, Wanted
  <2>3. CASE pc # "configured" /\ pc' # "configured"
    BY <2>0, <2>3 DEF Selection!vars
  <2> QED
    BY <2>1, <2>2, <2>3
<1> QED
  BY <1>1, <1>2, OptionsInvInductive, PTL
  DEF Spec, ImplementsSelection, Selection!Spec
-----------------------------------------------------------------------------
(* What configure() removes, and what it leaves for the other methods. *)
Removal ==
    /\ pc # "configured" => Removable \ {"with_stacktrace_backtrace"} \subseteq present
    /\ pc # "config_options" /\ settings.os = "Windows" =>
          "with_stacktrace_backtrace" \notin present
    /\ pc = "header_only" => other.header_only
    /\ pc \in {"defaults", "disable", "assign", "enable", "couple", "remove"} =>
          ~other.header_only
    /\ pc = "configured" =>
          /\ other.header_only => Enabled = {} /\ ~other.with_stacktrace_backtrace
          /\ ~other.header_only /\ "with_stacktrace_backtrace" \in present =>
                "stacktrace" \in Enabled
          /\ "locale" \in Enabled =>
                {"i18n_backend_iconv", "i18n_backend_icu"} \subseteq present
          /\ "python" \in Enabled => {"numpy", "python_buildid"} \subseteq present
          /\ Addr2lineAvailable => "addr2line_location" \in present

LEMMA RemovalInit == Init => Removal
BY DEF Init, Removal

LEMMA RemovalStep == TypeOK /\ Removal /\ [Next]_vars => Removal'
<1> SUFFICES ASSUME TypeOK, Removal, [Next]_vars PROVE Removal'
  OBVIOUS
<1>0. ASSUME UNCHANGED <<settings, present>>, pc # "configured", pc' # "configured",
             pc' # "config_options" => pc # "config_options",
             other'.header_only = other.header_only,
             pc' = "header_only" => pc = "header_only",
             pc' \in {"defaults", "disable", "assign", "enable", "couple", "remove"} =>
                pc \in {"defaults", "disable", "assign", "enable", "couple", "remove"}
      PROVE  Removal'
  BY <1>0 DEF Removal
<1>1. CASE ConfigOptions
  BY <1>1 DEF ConfigOptions, Removal
<1>2. CASE ApplyUserOptions
  <2>1. other'.header_only = other.header_only
    BY <1>2 DEF ApplyUserOptions, TypeOK, Others
  <2> QED
    BY <1>0, <1>2, <2>1 DEF ApplyUserOptions
<1>3. CASE DecideHeaderOnly
  <2>1. other'.header_only = HeaderOnly
    BY <1>3 DEF DecideHeaderOnly, TypeOK, Others
  <2> QED
    BY <1>3, <2>1 DEF DecideHeaderOnly, Removal
<1>4. CASE ForceDisableBinaryModules
  <2>1. Enabled' = {} /\ ~other'.with_stacktrace_backtrace
        /\ other'.header_only = other.header_only
    BY <1>4 DEF ForceDisableBinaryModules, Enabled, TypeOK, Others
  <2>2. Addr2lineAvailable' => FALSE
    BY <2>1 DEF Addr2lineAvailable
  <2> QED
    BY <1>4, <2>1, <2>2 DEF ForceDisableBinaryModules, Removal
<1>5. CASE FillDefaults \/ DisableUnsupported \/ AssignWithoutValue \/ NothingToEnable
           \/ CoupleMathAndRandom
  BY <1>0, <1>5 DEF FillDefaults, DisableUnsupported, AssignWithoutValue, NothingToEnable,
     CoupleMathAndRandom
<1>6. ASSUME NEW m \in Available, NEW d \in Available, EnableDependency(m, d)
      PROVE  Removal'
  BY <1>0, <1>6 DEF EnableDependency
<1>7. CASE RemoveUnusedOptions
  <2>1. Enabled' = Enabled /\ (Addr2lineAvailable' <=> Addr2lineAvailable)
    BY <1>7 DEF RemoveUnusedOptions, Enabled, Addr2lineAvailable
  <2>2. /\ Removable \ {"with_stacktrace_backtrace"} \subseteq present
        /\ ~other.header_only
        /\ settings.os = "Windows" => "with_stacktrace_backtrace" \notin present
    BY <1>7 DEF RemoveUnusedOptions, Removal
  <2>3. /\ pc' = "configured" /\ present' = present \ Removed
        /\ UNCHANGED <<settings, other>>
    BY <1>7 DEF RemoveUnusedOptions
  <2>4. "with_stacktrace_backtrace" \in present' => "stacktrace" \in Enabled
    BY <2>3 DEF Removed
  <2>5. "locale" \in Enabled =>
           {"i18n_backend_iconv", "i18n_backend_icu"} \subseteq present'
    BY <2>2, <2>3 DEF Removed, Removable
  <2>6. "python" \in Enabled => {"numpy", "python_buildid"} \subseteq present'
    BY <2>2, <2>3 DEF Removed, Removable
  <2>7. Addr2lineAvailable => "addr2line_location" \in present'
    BY <2>2, <2>3 DEF Removed, Removable
  <2> QED
    BY <2>1, <2>2, <2>3, <2>4, <2>5, <2>6, <2>7 DEF Removal
<1>8. CASE UNCHANGED vars
  <2>1. Enabled' = Enabled /\ (Addr2lineAvailable' <=> Addr2lineAvailable)
    BY <1>8 DEF vars, Enabled, Addr2lineAvailable
  <2> QED
    BY <1>8, <2>1 DEF vars, Removal
<1> QED
  BY <1>1, <1>2, <1>3, <1>4, <1>5, <1>6, <1>7, <1>8 DEF Next

(* Nothing that is configured changes any more. *)
LEMMA ConfiguredStays ==
    ASSUME pc = "configured", [Next]_vars
    PROVE  UNCHANGED vars
BY DEF Next, vars, ConfigOptions, ApplyUserOptions, DecideHeaderOnly,
   ForceDisableBinaryModules, FillDefaults, DisableUnsupported, AssignWithoutValue,
   EnableDependency, NothingToEnable, CoupleMathAndRandom, RemoveUnusedOptions
-----------------------------------------------------------------------------
(* The methods that Conan calls after configure(). *)
PackageInv ==
    /\ OptionsInv
    /\ Removal
    /\ stage \in {"configure", "required", "valid", "invalid", "described"}
    /\ stage # "configure" => pc = "configured"
    /\ requires = IF stage # "configure" THEN Requires ELSE {}
    /\ components =
          IF stage = "described"
          THEN [c \in IF other.header_only THEN {} ELSE Described |-> ComponentRequires(c)]
          ELSE <<>>

LEMMA PackageInitially == PackageInit => PackageInv
BY OptionsInvInductive, RemovalInit DEF PackageInit, PackageInv

(* What the methods read was not removed. *)
LEMMA NothingReadIsMissing ==
    ASSUME Removal, pc = "configured"
    PROVE  /\ ~MissingOption(ValidateReads)
           /\ ~MissingOption(IF WithCpython THEN {"numpy"} ELSE {})
           /\ ~MissingOption(PackageInfoReads)
BY DEF Removal, MissingOption, ValidateReads, WithCpython, PackageInfoReads

LEMMA PackageStep == PackageInv /\ [PackageNext]_allVars => PackageInv'
<1> SUFFICES ASSUME PackageInv, [PackageNext]_allVars PROVE PackageInv'
  OBVIOUS
<1>1. OptionsInv' /\ Removal'
  <2>1. [Next]_vars
    BY DEF PackageNext, allVars, Validate, DeclareRequirements, PackageInfo
  <2> QED
    BY <2>1, OptionsInvInductive, RemovalStep DEF PackageInv, OptionsInv
<1>2. ASSUME UNCHANGED vars, UNCHANGED requires
      PROVE  /\ Requires' = Requires
             /\ [c \in IF other.header_only THEN {} ELSE Described |-> ComponentRequires(c)]'
                = [c \in IF other.header_only THEN {} ELSE Described |-> ComponentRequires(c)]
  BY <1>2 DEF vars, Requires, WithZlib, WithStacktraceBacktrace, WithIcu, WithIconv,
     WithCpython, WithNumpy, WithDependency, Enabled, Described, MissingDepmodules, Filtered,
     Addr2lineAvailable, ComponentRequires, ModuleRequires, External
<1>3. CASE (Next /\ UNCHANGED packageVars) \/ UNCHANGED allVars
  <2>1. UNCHANGED <<stage, requires, components>>
    BY <1>3 DEF packageVars, allVars
  <2>2. CASE stage = "configure"
    BY <1>1, <2>1, <2>2 DEF PackageInv
  <2>3. CASE stage # "configure"
    <3>1. UNCHANGED vars
      BY <1>3, <2>3, ConfiguredStays DEF PackageInv, allVars
    <3> QED
      BY <1>1, <1>2, <2>1, <2>3, <3>1 DEF PackageInv, vars
  <2> QED
    BY <2>2, <2>3
<1>4. CASE Validate
  <2>1. /\ stage' \in {"valid", "invalid"} /\ UNCHANGED <<vars, requires, components>>
        /\ stage = "required" /\ pc = "configured"
    BY <1>4, NothingReadIsMissing DEF PackageInv, Validate
  <2> QED
    BY <1>1, <1>2, <2>1 DEF PackageInv, vars
<1>5. CASE DeclareRequirements
  <2>1. stage' = "required" /\ requires' = Requires /\ UNCHANGED <<vars, components>>
        /\ stage = "configure" /\ pc = "configured"
    BY <1>5, NothingReadIsMissing DEF PackageInv, DeclareRequirements
  <2>2. Requires' = Requires
    BY <2>1 DEF vars, Requires, WithZlib, WithStacktraceBacktrace, WithIcu, WithIconv,
       WithCpython, WithNumpy, WithDependency, Enabled
  <2> QED
    BY <1>1, <2>1, <2>2 DEF PackageInv, vars
<1>6. CASE PackageInfo
  <2>1. /\ stage' = "described" /\ UNCHANGED <<vars, requires>>
        /\ components' =
              [c \in IF other.header_only THEN {} ELSE Described |-> ComponentRequires(c)]
        /\ stage = "valid" /\ pc = "configured"
    BY <1>6, NothingReadIsMissing DEF PackageInv, PackageInfo
  <2> QED
    BY <1>1, <1>2, <2>1 DEF PackageInv, vars
<1> QED
  BY <1>3, <1>4, <1>5, <1>6 DEF PackageNext

LEMMA PackageInvariance == PackageSpec => []PackageInv
BY PackageInitially, PackageStep, PTL DEF PackageSpec
-----------------------------------------------------------------------------
(* Types of what the package is made of. *)
LEMMA RequiresType == Requires \subseteq Packages
BY DEF Requires, Packages

LEMMA ExternalType ==
    ASSUME NEW m \in Modules
    PROVE  External(m) \subseteq Packages \cap requires
<1> SUFFICES ASSUME m \in Available, NEW r \in Requirements[m], ConanName[r] \in requires
             PROVE  ConanName[r] \in Packages
  BY DEF External
<1>1. r \in {"zlib", "icu", "iconv", "python"}
  BY PackageAssumption
<1> QED
  BY <1>1 DEF ConanName, Packages

LEMMA ComponentType ==
    ASSUME NEW m \in Modules
    PROVE  ComponentRequires(m) \subseteq Modules \cup {"_libboost"} \cup Packages
<1>1. Deps[m] \subseteq Modules /\ "python" \in Modules
  BY GraphAssumption DEF Named
<1>2. ModuleRequires(m) \subseteq Modules \cup {"_libboost"} \cup Packages
  BY <1>1, ExternalType DEF ModuleRequires
<1>3. {"libbacktrace", "numpy::numpy"} \subseteq Packages
  BY DEF Packages
<1> HIDE DEF ModuleRequires
<1>4. CASE m = "python"
  BY <1>1, <1>4 DEF ComponentRequires
<1>5. CASE m # "python"
  <2>1. ComponentRequires(m) \subseteq ModuleRequires(m) \cup {"libbacktrace", "numpy::numpy"}
    BY <1>5 DEF ComponentRequires
  <2> QED
    BY <1>2, <1>3, <2>1
<1> QED
  BY <1>4, <1>5

LEMMA PackageInvTypes == PackageInv => PackageTypeOK
<1> SUFFICES ASSUME PackageInv PROVE PackageTypeOK
  OBVIOUS
<1>1. TypeOK /\ requires \subseteq Packages
  BY RequiresType DEF PackageInv, OptionsInv
<1>2. /\ DOMAIN components \subseteq Modules
      /\ \A c \in DOMAIN components :
            components[c] \subseteq Modules \cup {"_libboost"} \cup Packages
  <2>1. CASE stage = "described"
    <3>1. components = [c \in IF other.header_only THEN {} ELSE Described |-> ComponentRequires(c)]
      BY <2>1 DEF PackageInv
    <3>2. DOMAIN components = IF other.header_only THEN {} ELSE Described
      BY <3>1
    <3>3. DOMAIN components \subseteq Modules
      BY <3>2 DEF Described
    <3>4. \A c \in DOMAIN components : components[c] = ComponentRequires(c)
      BY <3>1
    <3> QED
      BY <3>3, <3>4, ComponentType
  <2>2. CASE stage # "described"
    <3>1. components = <<>>
      BY <2>2 DEF PackageInv
    <3>2. DOMAIN components = {}
      BY <3>1
    <3> QED
      BY <3>2
  <2> QED
    BY <2>1, <2>2
<1> QED
  BY <1>1, <1>2 DEF PackageTypeOK, PackageInv
-----------------------------------------------------------------------------
(* Agreement.  What is built is closed under the dependencies. *)
LEMMA ConfiguredIsClosed ==
    ASSUME OptionsInv, pc = "configured"
    PROVE  Enabled \in SUBSET Available /\ DepsClosed(Enabled)
<1>1. Enabled = Wanted
  BY DEF OptionsInv, Progress
<1>2. Selection!Closed(Wanted)
  BY RequestedType, LeastClosed DEF Wanted
<1>3. \A m \in Enabled : Deps[m] \subseteq Enabled
  BY <1>1, <1>2 DEF Selection!Closed, Needs, Enabled
<1> QED
  BY <1>3 DEF DepsClosed, Enabled

LEMMA DependentModules ==
    ASSUME NEW m \in Modules
    PROVE  /\ m \in AllDependentModules[m]
           /\ AllDependentModules[m] \subseteq Modules
           /\ \A d \in Deps[m] : AllDependentModules[d] \subseteq AllDependentModules[m]
           /\ \A S \in SUBSET Modules :
                 m \in S /\ DepsClosed(S) => AllDependentModules[m] \subseteq S
<1>1. \A n \in Modules : AllDependentModules[n] =
         {x \in Modules : \A S \in SUBSET Modules : n \in S /\ DepsClosed(S) => x \in S}
  BY DEF AllDependentModules, DepsClosed
<1>2. ASSUME NEW d \in Deps[m], NEW x \in AllDependentModules[d]
      PROVE  x \in AllDependentModules[m]
  <2>1. d \in Modules
    BY GraphAssumption
  <2>2. ASSUME NEW S \in SUBSET Modules, m \in S, DepsClosed(S) PROVE x \in S
    <3>1. d \in S
      BY <2>2 DEF DepsClosed
    <3> QED
      BY <1>1, <1>2, <2>1, <2>2, <3>1
  <2>3. x \in Modules
    BY <1>1, <1>2, <2>1
  <2> QED
    BY <1>1, <2>2, <2>3
<1> QED
  BY <1>1, <1>2

(* The modules whose libraries package_info() may filter. *)
Filterable ==
    {"stacktrace_windbg", "stacktrace_basic", "stacktrace_backtrace", "stacktrace_addr2line",
     "fiber_numa", "numpy"}

(* What all dependency files of the recipe have in common: the filtered    *)
(* modules have no option and nothing depends on them, and python has no   *)
(* requirement but itself. *)
UsualFile ==
    /\ Filterable \cap Available = {}
    /\ \A m \in Modules : Deps[m] \cap Filterable = {}
    /\ {"numpy", "stacktrace_backtrace"} \subseteq Modules
    /\ Deps["numpy"] = {"python"}
    /\ Deps["stacktrace_backtrace"] = {"stacktrace"}
    /\ Requirements["python"] = {"python"}

LEMMA FilteredAreFilterable == Filtered \subseteq Filterable
BY DEF Filtered, Filterable

(* A module that is enabled is described, and so is what it depends on. *)
LEMMA EnabledIsDescribed ==
    ASSUME OptionsInv, pc = "configured", UsualFile, NEW m \in Enabled
    PROVE  m \in Described
<1>1. m \in Modules /\ m \in Available /\ Enabled \in SUBSET Modules
  BY ConfiguredIsClosed, GraphAssumption
<1>2. AllDependentModules[m] \subseteq Enabled
  BY <1>1, ConfiguredIsClosed, DependentModules
<1>3. MissingDepmodules(m) = {}
  BY <1>2 DEF MissingDepmodules
<1> QED
  BY <1>1, <1>3, FilteredAreFilterable DEF Described, UsualFile

LEMMA DescribedNeeds ==
    ASSUME UsualFile, NEW m \in Described
    PROVE  /\ m \in Modules
           /\ m \in Available => m \in Enabled
           /\ Deps[m] \cap Available \subseteq Enabled
           /\ Deps[m] \subseteq Described
<1>1. m \in Modules /\ MissingDepmodules(m) = {}
  BY DEF Described
<1>2. \A d \in AllDependentModules[m] : d \in Available => d \in Enabled
  BY <1>1 DEF MissingDepmodules
<1>3. ASSUME NEW d \in Deps[m]
      PROVE  d \in Described /\ (d \in Available => d \in Enabled)
  <2>1. d \in Modules
    BY <1>1, GraphAssumption
  <2>2. AllDependentModules[d] \subseteq AllDependentModules[m]
    BY <1>1, DependentModules
  <2>3. d \in AllDependentModules[d]
    BY <2>1, DependentModules
  <2>4. MissingDepmodules(d) = {}
    BY <1>2, <2>2 DEF MissingDepmodules
  <2>5. d \notin Filtered
    BY <1>1, FilteredAreFilterable DEF UsualFile
  <2> QED
    BY <1>2, <2>1, <2>2, <2>3, <2>4, <2>5 DEF Described
<1> QED
  BY <1>1, <1>2, <1>3, DependentModules

(* A package without binaries requires nothing. *)
LEMMA HeaderOnlyRequiresNothing ==
    ASSUME Enabled = {}, ~other.with_stacktrace_backtrace
    PROVE  Requires = {}
BY DEF Requires, WithZlib, WithStacktraceBacktrace, WithIcu, WithIconv, WithCpython, WithNumpy,
   WithDependency

(* Every component requires what is there. *)
LEMMA ComponentResolves ==
    ASSUME OptionsInv, Removal, pc = "configured", UsualFile, ~PythonConf, requires = Requires,
           NEW c \in Described
    PROVE  ComponentRequires(c) \subseteq Described \cup {"_libboost"} \cup requires
<1>1. c \in Modules /\ Deps[c] \subseteq Described
  BY DescribedNeeds
<1>2. External(c) \subseteq requires
  BY <1>1, ExternalType
<1>3. ModuleRequires(c) \subseteq Described \cup {"_libboost"} \cup requires
  BY <1>1, <1>2 DEF ModuleRequires
<1> HIDE DEF ModuleRequires
<1>4. CASE c = "python"
  BY <1>4 DEF ComponentRequires
<1>5. CASE c = "stacktrace_backtrace"
  <2>1. WithStacktraceBacktrace => "libbacktrace" \in requires
    BY DEF Requires
  <2>2. \/ ComponentRequires(c) = ModuleRequires(c)
        \/ /\ WithStacktraceBacktrace
           /\ ComponentRequires(c) = ModuleRequires(c) \cup {"libbacktrace"}
    BY <1>5 DEF ComponentRequires
  <2> QED
    BY <1>3, <2>1, <2>2
<1>6. CASE c = "numpy"
  <2>1. "python" \in Enabled
    <3>1. "python" \in Available /\ "python" \in Deps["numpy"]
      BY GraphAssumption DEF UsualFile, Named
    <3> QED
      BY <1>6, <3>1, DescribedNeeds
  <2>2. "numpy" \in present /\ other.numpy
    BY <1>6 DEF Described, Filtered
  <2>3. "numpy::numpy" \in requires
    BY <2>1, <2>2 DEF Requires, WithNumpy, WithCpython
  <2>4. ComponentRequires(c) = ModuleRequires(c) \cup {"numpy::numpy"}
    BY <1>6 DEF ComponentRequires
  <2> QED
    BY <1>3, <2>3, <2>4
<1>7. CASE c \notin {"python", "stacktrace_backtrace", "numpy"}
  <2>1. ComponentRequires(c) = ModuleRequires(c)
    BY <1>7 DEF ComponentRequires
  <2> QED
    BY <1>3, <2>1
<1> QED
  BY <1>4, <1>5, <1>6, <1>7

(* What a module looks for and requirements() names, its component uses. *)
LEMMA ExternalIsUsed ==
    ASSUME OptionsInv, Removal, pc = "configured", UsualFile, requires = Requires,
           NEW r \in {"zlib", "icu", "iconv"}, NEW m \in Enabled, r \in Requirements[m],
           ConanName[r] \in requires,
           r = "zlib" => other.zlib, r = "icu" => WithIcu, r = "iconv" => WithIconv
    PROVE  m \in Described /\ ConanName[r] \in ComponentRequires(m)
<1>1. m \in Described /\ m \in Available
  BY EnabledIsDescribed, ConfiguredIsClosed
<1>2. m # "python"
  BY DEF UsualFile
<1>3. m \notin Filterable
  BY <1>1 DEF UsualFile
<1>4. ConanName[r] \in External(m)
  BY <1>1 DEF External
<1>5. ComponentRequires(m) = ModuleRequires(m)
  BY <1>2, <1>3 DEF ComponentRequires, Filterable
<1> QED
  BY <1>1, <1>4, <1>5 DEF ModuleRequires

LEMMA RequiredIsUsed ==
    ASSUME OptionsInv, Removal, pc = "configured", UsualFile, ~other.header_only,
           requires = Requires, NEW x \in requires, x # "cpython"
    PROVE  \E c \in Described : x \in ComponentRequires(c)
<1>1. CASE WithZlib /\ x = "zlib-ng"
  <2>1. PICK m \in Enabled : "zlib" \in Requirements[m]
    BY <1>1 DEF WithZlib, WithDependency
  <2>2. ConanName["zlib"] = x /\ other.zlib
    BY <1>1 DEF ConanName, WithZlib
  <2> QED
    BY <2>1, <2>2, ExternalIsUsed
<1>2. CASE WithIcu /\ x = "icu"
  <2>1. PICK m \in Enabled : "icu" \in Requirements[m]
    BY <1>2 DEF WithIcu, WithDependency
  <2>2. ConanName["icu"] = x
    BY <1>2 DEF ConanName
  <2> QED
    BY <1>2, <2>1, <2>2, ExternalIsUsed
<1>3. CASE WithIconv /\ x = "libiconv"
  <2>1. PICK m \in Enabled : "iconv" \in Requirements[m]
    BY <1>3 DEF WithIconv, WithDependency
  <2>2. ConanName["iconv"] = x
    BY <1>3 DEF ConanName
  <2> QED
    BY <1>3, <2>1, <2>2, ExternalIsUsed
<1>4. CASE WithStacktraceBacktrace /\ x = "libbacktrace"
  <2> DEFINE b == "stacktrace_backtrace"
  <2>1. "stacktrace" \in Enabled /\ settings.os # "Windows" /\ other.with_stacktrace_backtrace
    BY <1>4 DEF WithStacktraceBacktrace, Removal
  <2>2. /\ b \in Modules /\ b \notin Available /\ Deps[b] = {"stacktrace"}
    BY DEF UsualFile, Filterable
  <2>3. AllDependentModules[b] \subseteq Enabled \cup {b}
    <3>1. Enabled \cup {b} \in SUBSET Modules /\ DepsClosed(Enabled \cup {b})
      BY <2>1, <2>2, ConfiguredIsClosed, GraphAssumption DEF DepsClosed
    <3> QED
      BY <2>2, <3>1, DependentModules
  <2>4. MissingDepmodules(b) = {}
    BY <2>2, <2>3 DEF MissingDepmodules
  <2>5. b \notin Filtered
    BY <2>1 DEF Filtered
  <2>6. b \in Described
    BY <2>2, <2>4, <2>5 DEF Described
  <2>7. "libbacktrace" \in ComponentRequires(b)
    BY <1>4, <2>1 DEF ComponentRequires
  <2> QED
    BY <1>4, <2>6, <2>7
<1>5. CASE WithNumpy /\ x = "numpy::numpy"
  <2> DEFINE n == "numpy"
  <2>1. "python" \in Enabled /\ other.numpy /\ n \in present
    BY <1>5 DEF WithNumpy, WithCpython, Removal
  <2>2. n \in Modules /\ n \notin Available /\ Deps[n] = {"python"}
    BY DEF UsualFile, Filterable
  <2>3. AllDependentModules[n] \subseteq Enabled \cup {n}
    <3>1. Enabled \cup {n} \in SUBSET Modules /\ DepsClosed(Enabled \cup {n})
      BY <2>1, <2>2, ConfiguredIsClosed, GraphAssumption DEF DepsClosed
    <3> QED
      BY <2>2, <3>1, DependentModules
  <2>4. MissingDepmodules(n) = {}
    BY <2>2, <2>3 DEF MissingDepmodules
  <2>5. n \notin Filtered
    BY <2>1 DEF Filtered
  <2>6. n \in Described
    BY <2>2, <2>4, <2>5 DEF Described
  <2>7. "numpy::numpy" \in ComponentRequires(n)
    BY DEF ComponentRequires
  <2> QED
    BY <1>5, <2>6, <2>7
<1> QED
  BY <1>1, <1>2, <1>3, <1>4, <1>5 DEF Requires

LEMMA PackageInvAgrees == UsualFile /\ ~PythonConf /\ PackageInv => MethodsAgree
<1> SUFFICES ASSUME UsualFile, ~PythonConf, PackageInv, stage = "described" PROVE MethodsAgree
  BY DEF MethodsAgree, DescribedWereBuilt, NoDanglingRequirement, RequirementsAreUsed
<1>1. OptionsInv /\ Removal /\ pc = "configured" /\ requires = Requires
  BY DEF PackageInv
<1>2. components = [c \in IF other.header_only THEN {} ELSE Described |-> ComponentRequires(c)]
  BY DEF PackageInv
<1>3. CASE other.header_only
  <2>1. DOMAIN components = {} /\ requires = {}
    BY <1>1, <1>2, <1>3, HeaderOnlyRequiresNothing DEF Removal
  <2> QED
    BY <1>3, <2>1 DEF MethodsAgree, DescribedWereBuilt, NoDanglingRequirement,
       RequirementsAreUsed
<1>4. CASE ~other.header_only
  <2>1. DOMAIN components = Described /\ \A c \in Described : components[c] = ComponentRequires(c)
    BY <1>2, <1>4
  <2>2. DescribedWereBuilt
    <3>1. Enabled \subseteq Described \cap Available
      BY <1>1, EnabledIsDescribed, ConfiguredIsClosed
    <3>2. /\ Described \cap Available \subseteq Enabled
          /\ \A c \in Described : Deps[c] \cap Available \subseteq Enabled
      BY DescribedNeeds
    <3> QED
      BY <2>1, <3>1, <3>2 DEF DescribedWereBuilt
  <2>3. NoDanglingRequirement
    BY <1>1, <2>1, ComponentResolves DEF NoDanglingRequirement
  <2>4. RequirementsAreUsed
    <3> SUFFICES ASSUME NEW x \in requires, x # "cpython"
                 PROVE  \E c \in DOMAIN components : x \in components[c]
      BY DEF RequirementsAreUsed
    <3>1. \E c \in Described : x \in ComponentRequires(c)
      BY <1>1, <1>4, RequiredIsUsed
    <3> QED
      BY <2>1, <3>1
  <2> QED
    BY <2>2, <2>3, <2>4 DEF MethodsAgree
<1> QED
  BY <1>3, <1>4
-----------------------------------------------------------------------------
(* configure() within Conan's sequence of methods is configure(): what is  *)
(* proved of Spec holds of PackageSpec. *)
THEOREM PackageConfigures == PackageSpec => Spec
<1>1. PackageInit => Init
  BY DEF PackageInit
<1>2. [PackageNext]_allVars => [Next]_vars
  BY DEF PackageNext, allVars, Validate, DeclareRequirements, PackageInfo
<1> QED
  BY <1>1, <1>2, PTL DEF PackageSpec, Spec

(* The package keeps its types: what requirements() names is a package it  *)
(* knows, what package_info() describes are modules.                       *)
THEOREM PackageTypeCorrect == PackageSpec => []PackageTypeOK
BY PackageInvariance, PackageInvTypes, PTL

(* No method that Conan calls after configure() reads an option that       *)
(* configure() has removed, for every version, profile and user. *)
THEOREM RemovedIsNeverRead == PackageSpec => []NoMissingOptionRead
<1>1. PackageInv => NoMissingOptionRead
  BY DEF PackageInv, NoMissingOptionRead
<1> QED
  BY <1>1, PackageInvariance, PTL

(* For every dependency file of the usual kind and a Python from Conan:    *)
(* requirements() and package_info() agree on what validate() let pass.    *)
THEOREM MethodsAgreeAlways ==
    UsualFile /\ ~PythonConf /\ PackageSpec => []MethodsAgree
<1> SUFFICES ASSUME UsualFile, ~PythonConf PROVE PackageSpec => []MethodsAgree
  OBVIOUS
<1>1. PackageInv => MethodsAgree
  BY PackageInvAgrees
<1> QED
  BY <1>1, PackageInvariance, PTL
-----------------------------------------------------------------------------
(* configure() ends: what PackageIsDecided says apart from the assumption  *)
(* that Conan goes on.                                                     *)

(* The order of the parts of configure(), and of the methods. *)
Part(p) ==
    CASE p = "config_options" -> 0
      [] p = "apply" -> 1
      [] p = "configure" -> 2
      [] p \in {"header_only", "defaults"} -> 3
      [] p = "disable" -> 4
      [] p = "assign" -> 5
      [] p = "enable" -> 6
      [] p = "couple" -> 7
      [] p = "remove" -> 8
      [] OTHER -> 9

Method(s) ==
    CASE s = "configure" -> 0
      [] s = "required" -> 1
      [] s = "valid" -> 2
      [] OTHER -> 3

(* The modules that could still be enabled. *)
NotEnabled == Cardinality(Available \ Enabled)

(* Every step leads on to the next part or method, or enables a module.    *)
PackageAdvances ==
    \/ Method(stage) < Method(stage')
    \/ stage' = stage /\ Part(pc) < Part(pc')
    \/ stage' = stage /\ pc' = pc /\ NotEnabled' < NotEnabled

LEMMA NotEnabledType == IsFiniteSet(Available \ Enabled) /\ NotEnabled \in Nat
<1>1. IsFiniteSet(Available \ Enabled)
  BY GraphAssumption, FS_Subset
<1> QED
  BY <1>1, FS_CardinalityType DEF NotEnabled

LEMMA EnablingAdvances ==
    ASSUME TypeOK, NEW m \in Available, NEW d \in Available, EnableDependency(m, d)
    PROVE  pc' = pc /\ NotEnabled' < NotEnabled
<1>1. Enabled' = Enabled \cup {d} /\ d \notin Enabled
  BY DEF EnableDependency, Enabled, TypeOK
<1>2. Available \ Enabled' = (Available \ Enabled) \ {d} /\ d \in Available \ Enabled
  BY <1>1
<1>3. Cardinality((Available \ Enabled) \ {d}) = Cardinality(Available \ Enabled) - 1
  BY <1>2, NotEnabledType, FS_RemoveElement
<1>4. Cardinality(Available \ Enabled) \in Nat
  BY NotEnabledType DEF NotEnabled
<1> QED
  BY <1>2, <1>3, <1>4 DEF NotEnabled, EnableDependency

(* For every dependency file, version, profile and user, and every order   *)
(* in which dependencies are met: no step of the recipe goes back, and the *)
(* loop of _enable_transitive_dependencies() lowers a number each time.    *)
THEOREM EnablingEnds == PackageSpec => [][PackageAdvances /\ NotEnabled \in Nat]_allVars
<1>1. ASSUME PackageInv, PackageNext
      PROVE  PackageAdvances /\ NotEnabled \in Nat
  <2>1. TypeOK
    BY <1>1 DEF PackageInv, OptionsInv
  <2>2. CASE Validate \/ DeclareRequirements \/ PackageInfo
    BY <2>2, NotEnabledType
    DEF Validate, DeclareRequirements, PackageInfo, PackageAdvances, Method
  <2>3. CASE Next /\ UNCHANGED packageVars
    <3>1. stage' = stage
      BY <2>3 DEF packageVars
    <3>2. ASSUME NEW m \in Available, NEW d \in Available, EnableDependency(m, d)
          PROVE  PackageAdvances
      BY <2>1, <3>1, <3>2, EnablingAdvances DEF PackageAdvances
    <3>3. ASSUME \/ ConfigOptions \/ ApplyUserOptions \/ DecideHeaderOnly
                 \/ ForceDisableBinaryModules \/ FillDefaults \/ DisableUnsupported
                 \/ AssignWithoutValue \/ NothingToEnable \/ CoupleMathAndRandom
                 \/ RemoveUnusedOptions
          PROVE  Part(pc) < Part(pc')
      BY <3>3
      DEF ConfigOptions, ApplyUserOptions, DecideHeaderOnly, ForceDisableBinaryModules,
          FillDefaults, DisableUnsupported, AssignWithoutValue, NothingToEnable,
          CoupleMathAndRandom, RemoveUnusedOptions, Part
    <3> QED
      BY <2>3, <3>1, <3>2, <3>3, NotEnabledType DEF Next, PackageAdvances
  <2> QED
    BY <1>1, <2>2, <2>3 DEF PackageNext
<1>2. PackageInv /\ PackageInv' /\ [PackageNext]_allVars
         => [PackageAdvances /\ NotEnabled \in Nat]_allVars
  BY <1>1
<1> QED
  BY <1>2, PackageInvariance, PTL DEF PackageSpec
=============================================================================
