------------------------- MODULE TypedCalls_proofs -------------------------
(***************************************************************************)
(* Proofs about TypedCalls: the tables of the C++ wrappers agree with the  *)
(* cases of the Java dispatch, class by class, hence a client that goes    *)
(* from wrapper to wrapper is never refused, and never holds a wrapper of  *)
(* none or of an object that its class is not for.                         *)
(***************************************************************************)
EXTENDS TypedCalls, TLAPS

Objects == Kinds \cup Adders

\* The kinds of objects behind the classes that share the methods of a base.
MethodBases ==
    [ContainerMethods |-> Container, BranchMethods |-> Branch,
     VoltageRegulationHolderMethods |-> VoltageRegulationHolder,
     ReactiveLimitsHolderMethods |-> ReactiveLimitsHolder,
     TapChangerHolderMethods |-> TapChangerHolder, FlowsLimitsHolderMethods |-> LimitsHolder,
     PropertiesHolder |-> PropertiesHolder, IdentifiableAdder |-> IdentifiableAdder,
     ConnectableAdder |-> ConnectableAdder, InjectionAdder |-> InjectionAdder,
     BranchAdder |-> BranchAdder]

\* The kinds of objects that an accessor of a class or of a base is called on.
KindsUnder(class) ==
    IF class \in DOMAIN MethodBases THEN MethodBases[class] ELSE KindsFor(class)

----------------------------------------------------------------------------
\* The kinds of objects

LEMMA KindNames ==
  \A kind \in
    {"ActivePowerLimits", "ApparentPowerLimits", "Area", "AreaBoundary", "Battery", "Boundary",
     "BoundaryLine", "BranchSide", "BranchTripping", "Bus", "BusList", "BusbarSection",
     "Component", "CurrentLimits", "CurvePoint", "ExponentialLoadModel", "Generation",
     "Generator", "Ground", "HvdcLine", "InternalConnection", "LccConverterStation", "Leg",
     "Line", "Load", "MinMaxReactiveLimits", "Network", "NodeList", "OperationalLimitsGroup",
     "Overload", "OverloadList", "OverloadManagementSystem", "PhaseTapChanger",
     "PhaseTapChangerStep", "RatioTapChanger", "RatioTapChangerStep", "ReactiveCapabilityCurve",
     "ReactiveCapabilityShape", "Section", "ShapePlane", "ShuntCompensator",
     "ShuntCompensatorLinearModel", "ShuntCompensatorNonLinearModel", "StaticVarCompensator",
     "Substation", "Switch", "SwitchList", "SwitchTripping", "TemporaryLimit", "Terminal",
     "ThreeWindingsTransformer", "ThreeWindingsTransformerTripping", "TieLine",
     "TwoWindingsTransformer", "VariantManager", "VoltageAngleLimit", "VoltageLevel",
     "VoltageRegulation", "VscConverterStation", "ZipLoadModel"} :
      kind \in Kinds
BY DEF Kinds, Identifiable, Connectable, Injection, Branch, Container, AutomationSystem,
       PropertiesHolder, Leg, TapChanger, TapChangerStep, LoadModel, OperationalLimits,
       LoadingLimits, ReactiveLimits, ShuntCompensatorModel, Tripping, List

LEMMA AdderNames ==
  \A kind \in
    {"ActivePowerLimitsAdder", "ApparentPowerLimitsAdder", "AreaAdder", "AreaBoundaryAdder",
     "BatteryAdder", "BoundaryLineAdder", "BranchTrippingAdder", "BusAdder",
     "BusBreakerSwitchAdder", "BusbarSectionAdder", "CurrentLimitsAdder",
     "ExponentialLoadModelAdder", "GenerationAdder", "GeneratorAdder", "GroundAdder",
     "HvdcLineAdder", "InternalConnectionAdder", "LccConverterStationAdder", "LegAdder",
     "LineAdder", "LoadAdder", "MinMaxReactiveLimitsAdder", "NodeBreakerSwitchAdder",
     "OverloadManagementSystemAdder", "PhaseTapChangerAdder", "PhaseTapChangerStepAdder",
     "PhaseTapChangerStepsReplacer", "PointAdder", "RatioTapChangerAdder",
     "RatioTapChangerStepAdder", "RatioTapChangerStepsReplacer", "ReactiveCapabilityCurveAdder",
     "ReactiveCapabilityShapeAdder", "SectionAdder", "ShuntCompensatorAdder",
     "ShuntCompensatorLinearModelAdder", "ShuntCompensatorNonLinearModelAdder",
     "StaticVarCompensatorAdder", "SubstationAdder", "SwitchTrippingAdder",
     "TemporaryLimitAdder", "ThreeWindingsTransformerAdder",
     "ThreeWindingsTransformerTrippingAdder", "TieLineAdder", "TwoWindingsTransformerAdder",
     "VoltageAngleLimitAdder", "VoltageLevelAdder", "VoltageRegulationAdder",
     "VoltageRegulationBuilder", "VscConverterStationAdder", "ZipLoadModelAdder"} :
      kind \in Adders
BY DEF Adders, IdentifiableAdder, InjectionAdder, BranchAdder, SwitchAdder, TapChangerAdder,
       TapChangerStepsReplacer, TapChangerStepAdder, LoadingLimitsAdder, ReactiveLimitsAdder,
       ShuntModelAdder, LoadModelAdder, TrippingAdder, VoltageRegulationAdderOrBuilder

\* An object is no adder, and None is neither.
LEMMA KindsDisjoint == Kinds \cap Adders = {} /\ None \notin Objects
<1>1. None \notin Identifiable \cup PropertiesHolder /\ (Identifiable \cup PropertiesHolder) \cap
        Adders = {}
  BY DEF None, Identifiable, Connectable, Injection, Branch, Container, AutomationSystem,
       PropertiesHolder, Leg, TapChanger, TapChangerStep, LoadModel, OperationalLimits,
       LoadingLimits, ReactiveLimits, ShuntCompensatorModel, Tripping, List,
       Adders, IdentifiableAdder, InjectionAdder, BranchAdder, SwitchAdder, TapChangerAdder,
       TapChangerStepsReplacer, TapChangerStepAdder, LoadingLimitsAdder, ReactiveLimitsAdder,
       ShuntModelAdder, LoadModelAdder, TrippingAdder, VoltageRegulationAdderOrBuilder
<1>2. Kinds \cap Adders = {} /\ None \notin Kinds
  BY <1>1 DEF None, Kinds, Leg, TapChangerStep, ReactiveLimits, ShuntCompensatorModel, List,
       Adders, IdentifiableAdder, InjectionAdder, BranchAdder, SwitchAdder, TapChangerAdder,
       TapChangerStepsReplacer, TapChangerStepAdder, LoadingLimitsAdder, ReactiveLimitsAdder,
       ShuntModelAdder, LoadModelAdder, TrippingAdder, VoltageRegulationAdderOrBuilder
<1>3. None \notin Adders
  BY DEF None, Adders, IdentifiableAdder, InjectionAdder, BranchAdder, SwitchAdder, TapChangerAdder,
       TapChangerStepsReplacer, TapChangerStepAdder, LoadingLimitsAdder, ReactiveLimitsAdder,
       ShuntModelAdder, LoadModelAdder, TrippingAdder, VoltageRegulationAdderOrBuilder
<1> QED  BY <1>2, <1>3 DEF Objects

\* What a case of the dispatch casts to, when it is a type.
LEMMA TypesAreKinds ==
  /\ Injection \subseteq Kinds /\ Connectable \subseteq Kinds /\ Branch \subseteq Kinds
  /\ HvdcConverterStation \subseteq Kinds /\ Container \subseteq Kinds
  /\ AutomationSystem \subseteq Kinds /\ Identifiable \subseteq Kinds
  /\ LineCharacteristics \subseteq Kinds /\ Leg \subseteq Kinds /\ TapChanger \subseteq Kinds
  /\ TapChangerStep \subseteq Kinds /\ TapChangerHolder \subseteq Kinds
  /\ VoltageRegulationHolder \subseteq Kinds /\ ReactiveLimits \subseteq Kinds
  /\ ReactiveLimitsHolder \subseteq Kinds /\ ShuntCompensatorModel \subseteq Kinds
  /\ LoadModel \subseteq Kinds /\ Tripping \subseteq Kinds /\ LoadingLimits \subseteq Kinds
  /\ OperationalLimits \subseteq Kinds /\ LimitsHolder \subseteq Kinds
  /\ PropertiesHolder \subseteq Kinds /\ SidedTripping \subseteq Kinds
  /\ OverloadChecked \subseteq Kinds /\ LimitsOwner \subseteq Kinds
  /\ PairingKeyHolder \subseteq Kinds /\ Connectables \subseteq Kinds
  /\ TwoOrThreeWindingsTransformer \subseteq Kinds
BY DEF Kinds, Identifiable, Connectable, Injection, Branch, Container, AutomationSystem,
       PropertiesHolder, Leg, TapChanger, TapChangerStep, LoadModel, OperationalLimits,
       LoadingLimits, ReactiveLimits, ShuntCompensatorModel, Tripping, List,
       HvdcConverterStation, LineCharacteristics, TapChangerHolder, VoltageRegulationHolder,
       ReactiveLimitsHolder, LimitsHolder, FlowsLimitsHolder, SidedTripping, OverloadChecked,
       LimitsOwner, PairingKeyHolder, Connectables, TwoOrThreeWindingsTransformer

LEMMA TypesAreAdders ==
  /\ InjectionAdder \subseteq Adders /\ BranchAdder \subseteq Adders
  /\ SwitchAdder \subseteq Adders /\ IdentifiableAdder \subseteq Adders
  /\ ConnectableAdder \subseteq Adders /\ HvdcConverterStationAdder \subseteq Adders
  /\ TapChangerAdder \subseteq Adders /\ TapChangerStepAdder \subseteq Adders
  /\ LoadingLimitsAdder \subseteq Adders /\ TrippingAdder \subseteq Adders
  /\ PropertiesHolderAdder \subseteq Adders /\ VoltageRegulationHolderAdder \subseteq Adders
  /\ VoltageRegulationAdderOrBuilder \subseteq Adders
BY DEF Adders, IdentifiableAdder, InjectionAdder, BranchAdder, SwitchAdder, TapChangerAdder,
       TapChangerStepsReplacer, TapChangerStepAdder, LoadingLimitsAdder, ReactiveLimitsAdder,
       ShuntModelAdder, LoadModelAdder, TrippingAdder, VoltageRegulationAdderOrBuilder,
       ConnectableAdder, HvdcConverterStationAdder, PropertiesHolderAdder,
       VoltageRegulationHolderAdder

LEMMA InstancesAreKinds ==
  \A code \in DOMAIN InstanceOf : InstanceOf[code] \subseteq Kinds /\ InstanceOf[code] # {}
<1>1. \A code \in DOMAIN InstanceOf : InstanceOf[code] \subseteq Kinds
  BY KindNames, TypesAreKinds DEF InstanceOf
<1>2. /\ Identifiable # {} /\ Connectable # {} /\ Injection # {} /\ Branch # {}
      /\ HvdcConverterStation # {} /\ LoadModel # {} /\ Tripping # {}
      /\ ShuntCompensatorModel # {} /\ Leg # {} /\ ReactiveLimits # {}
      /\ LoadingLimits # {} /\ LimitsHolder # {}
  BY DEF Identifiable, Connectable, Injection, Branch, HvdcConverterStation, LoadModel,
         Tripping, ShuntCompensatorModel, Leg, ReactiveLimits, LoadingLimits, LimitsHolder
<1>3. \A code \in DOMAIN InstanceOf : InstanceOf[code] # {}
  BY <1>2 DEF InstanceOf
<1> QED  BY <1>1, <1>3

----------------------------------------------------------------------------
\* What the dispatch answers

\* What these cases answer to a code of an object of a kind.
Given(cases, code, kind) == UNION {c.gives : c \in {d \in cases : code \in d.codes
      /\ kind \in d.on}}

\* A function asks its first cases, and its next cases of a code that no first case has.
LEMMA KnownFirst ==
  ASSUME NEW code, NEW first, NEW next
  PROVE  /\ (\E c \in first : code \in c.codes)
              => FirstKnown(code, <<first, next>>) = {d \in first : code \in d.codes}
         /\ (\A c \in first : code \notin c.codes)
              => FirstKnown(code, <<first, next>>) = {d \in next : code \in d.codes}
BY DEF FirstKnown, With

LEMMA AnswersObject ==
  ASSUME NEW op \in DOMAIN OnObject, NEW first, NEW next, OnObject[op] = <<first, next>>,
         NEW code, NEW kind, kind \notin Adders
  PROVE  /\ (\E c \in first : code \in c.codes) => Answers(op, code, kind) = Given(first, code,
                kind)
         /\ (\A c \in first : code \notin c.codes) => Answers(op, code, kind) = Given(next, code,
              kind)
<1>1. Answers(op, code, kind) = UNION {c.gives : c \in {d \in FirstKnown(code, <<first, next>>) :
        kind \in d.on}}
  BY DEF Answers
<1> QED  BY <1>1, KnownFirst DEF Given

LEMMA AnswersAdder ==
  ASSUME NEW op \in DOMAIN OnAdder, NEW first, NEW next, OnAdder[op] = <<first, next>>,
         NEW code, NEW kind \in Adders
  PROVE  /\ (\E c \in first : code \in c.codes) => Answers(op, code, kind) = Given(first, code,
                kind)
         /\ (\A c \in first : code \notin c.codes) => Answers(op, code, kind) = Given(next, code,
              kind)
<1>1. Answers(op, code, kind) = UNION {c.gives : c \in {d \in FirstKnown(code, <<first, next>>) :
        kind \in d.on}}
  BY DEF Answers
<1> QED  BY <1>1, KnownFirst DEF Given

\* The cases of a switch are asked of objects only, or of adders only; each answers something.
AskObjects(cases) == \A c \in cases : c.on \subseteq Kinds

AskAdders(cases) == \A c \in cases : c.on \subseteq Adders

Answering(cases) == \A c \in cases : c.gives # {}

OfObjects(cases) == AskObjects(cases) /\ Answering(cases)

OfAdders(cases) == AskAdders(cases) /\ Answering(cases)

\* No code has a case in both sets.
Apart(cases, others) == \A c \in cases, d \in others : c.codes \cap d.codes = {}

\* Where one of these cases is for a code and a kind, the function answers by it.
Decides(op, cases) ==
    \A c \in cases : \A code \in c.codes, kind \in c.on :
        c.gives # {} /\ c.gives \subseteq Answers(op, code, kind)

LEMMA FirstDecides ==
  ASSUME NEW op, NEW first, NEW next, NEW cases \in SUBSET first,
         \/ op \in DOMAIN OnObject /\ OnObject[op] = <<first, next>> /\ OfObjects(cases)
         \/ op \in DOMAIN OnAdder /\ OnAdder[op] = <<first, next>> /\ OfAdders(cases)
  PROVE  Decides(op, cases)
<1> SUFFICES ASSUME NEW c \in cases, NEW code \in c.codes, NEW kind \in c.on
             PROVE  c.gives # {} /\ c.gives \subseteq Answers(op, code, kind)
  BY DEF Decides
<1>1. c.gives # {}
  BY DEF OfObjects, OfAdders, Answering
<1>2. Answers(op, code, kind) = Given(first, code, kind)
  <2>1. CASE op \in DOMAIN OnObject /\ OnObject[op] = <<first, next>> /\ OfObjects(cases)
    <3>1. kind \notin Adders
      BY <2>1, KindsDisjoint DEF OfObjects, AskObjects
    <3> QED  BY <2>1, <3>1, AnswersObject
  <2>2. CASE op \in DOMAIN OnAdder /\ OnAdder[op] = <<first, next>> /\ OfAdders(cases)
    <3>1. kind \in Adders
      BY <2>2 DEF OfAdders, AskAdders
    <3> QED  BY <2>2, <3>1, AnswersAdder
  <2> QED  BY <2>1, <2>2
<1> QED  BY <1>1, <1>2 DEF Given

LEMMA NextDecides ==
  ASSUME NEW op, NEW first, NEW next, NEW cases \in SUBSET next, Apart(cases, first),
         \/ op \in DOMAIN OnObject /\ OnObject[op] = <<first, next>> /\ OfObjects(cases)
         \/ op \in DOMAIN OnAdder /\ OnAdder[op] = <<first, next>> /\ OfAdders(cases)
  PROVE  Decides(op, cases)
<1> SUFFICES ASSUME NEW c \in cases, NEW code \in c.codes, NEW kind \in c.on
             PROVE  c.gives # {} /\ c.gives \subseteq Answers(op, code, kind)
  BY DEF Decides
<1>1. c.gives # {}
  BY DEF OfObjects, OfAdders, Answering
<1>2. \A d \in first : code \notin d.codes
  BY DEF Apart
<1>3. Answers(op, code, kind) = Given(next, code, kind)
  <2>1. CASE op \in DOMAIN OnObject /\ OnObject[op] = <<first, next>> /\ OfObjects(cases)
    <3>1. kind \notin Adders
      BY <2>1, KindsDisjoint DEF OfObjects, AskObjects
    <3> QED  BY <1>2, <2>1, <3>1, AnswersObject
  <2>2. CASE op \in DOMAIN OnAdder /\ OnAdder[op] = <<first, next>> /\ OfAdders(cases)
    <3>1. kind \in Adders
      BY <2>2 DEF OfAdders, AskAdders
    <3> QED  BY <1>2, <2>2, <3>1, AnswersAdder
  <2> QED  BY <2>1, <2>2
<1> QED  BY <1>1, <1>3 DEF Given

----------------------------------------------------------------------------
\* Calls that answer

\* A call by one of these codes answers something, whatever object its wrapper is for.
Served(class, op, codes) ==
    /\ op \notin {"steps", "copy", "view"}
    /\ \A code \in codes, kind \in KindsUnder(class) : Answers(op, code, kind) # {}

\* Each code has a case for each of these kinds.
HasCase(cases, codes, kinds) ==
    \A code \in codes, kind \in kinds : \E c \in cases : code \in c.codes /\ kind \in c.on

\* The same of a column of a table: of its getters, of its setters, or of its adders'.
HasGetter(rows, codes, kinds) ==
    \A code \in codes, kind \in kinds : \E row \in rows : code \in row.codes /\ kind \in row.get

HasSetter(rows, codes, kinds) ==
    \A code \in codes, kind \in kinds : \E row \in rows : code \in row.codes /\ kind \in row.set

HasAdder(rows, codes, kinds) ==
    \A code \in codes, kind \in kinds : \E row \in rows : code \in row.codes /\ kind \in row.add

LEMMA CasesServe ==
  ASSUME NEW op, op \notin {"steps", "copy", "view"}, NEW cases, Decides(op, cases),
         NEW class, NEW codes, HasCase(cases, codes, KindsUnder(class))
  PROVE  Served(class, op, codes)
BY DEF Served, HasCase, Decides

LEMMA GettersServe ==
  ASSUME NEW op, op \notin {"steps", "copy", "view"}, NEW rows, Decides(op, Getters(rows)),
         NEW class, NEW codes, HasGetter(rows, codes, KindsUnder(class))
  PROVE  Served(class, op, codes)
<1>1. ASSUME NEW code \in codes, NEW kind \in KindsUnder(class)
      PROVE  \E c \in Getters(rows) : code \in c.codes /\ kind \in c.on
  <2>1. PICK row \in rows : code \in row.codes /\ kind \in row.get
    BY DEF HasGetter
  <2>2. Case(row.codes, row.get, AValue) \in Getters(rows)
    BY <2>1 DEF Getters
  <2> QED  BY <2>1, <2>2 DEF Case
<1> QED  BY <1>1, CasesServe DEF HasCase

LEMMA SettersServe ==
  ASSUME NEW op, op \notin {"steps", "copy", "view"}, NEW rows, Decides(op, Setters(rows)),
         NEW class, NEW codes, HasSetter(rows, codes, KindsUnder(class))
  PROVE  Served(class, op, codes)
<1>1. ASSUME NEW code \in codes, NEW kind \in KindsUnder(class)
      PROVE  \E c \in Setters(rows) : code \in c.codes /\ kind \in c.on
  <2>1. PICK row \in rows : code \in row.codes /\ kind \in row.set
    BY DEF HasSetter
  <2>2. Case(row.codes, row.set, {None}) \in Setters(rows)
    BY <2>1 DEF Setters
  <2> QED  BY <2>1, <2>2 DEF Case
<1> QED  BY <1>1, CasesServe DEF HasCase

LEMMA AddersServe ==
  ASSUME NEW op, op \notin {"steps", "copy", "view"}, NEW rows, Decides(op, AdderSetters(rows)),
         NEW class, NEW codes, HasAdder(rows, codes, KindsUnder(class))
  PROVE  Served(class, op, codes)
<1>1. ASSUME NEW code \in codes, NEW kind \in KindsUnder(class)
      PROVE  \E c \in AdderSetters(rows) : code \in c.codes /\ kind \in c.on
  <2>1. PICK row \in rows : code \in row.codes /\ kind \in row.add
    BY DEF HasAdder
  <2>2. Case(row.codes, row.add, {None}) \in AdderSetters(rows)
    BY <2>1 DEF AdderSetters
  <2> QED  BY <2>1, <2>2 DEF Case
<1> QED  BY <1>1, CasesServe DEF HasCase

----------------------------------------------------------------------------
\* The tables

\* The columns of a table are typed: objects, objects and adders.
Columns(rows) ==
    \A row \in rows : row.get \subseteq Kinds /\ row.set \subseteq Kinds /\ row.add \subseteq Adders

LEMMA ColumnsOf ==
  ASSUME NEW rows, Columns(rows)
  PROVE  OfObjects(Getters(rows)) /\ OfObjects(Setters(rows)) /\ OfAdders(AdderSetters(rows))
<1>1. OfObjects(Getters(rows))
  <2>1. AValue # {}
    BY DEF AValue
  <2> QED  BY <2>1 DEF Columns, OfObjects, AskObjects, Answering, Getters, Case
<1>2. OfObjects(Setters(rows))
  BY DEF Columns, OfObjects, AskObjects, Answering, Setters, Case
<1>3. OfAdders(AdderSetters(rows))
  BY DEF Columns, OfAdders, AskAdders, Answering, AdderSetters, Case
<1> QED  BY <1>1, <1>2, <1>3

LEMMA EquipmentColumns == Columns(EquipmentDoubles)
BY KindNames, AdderNames, TypesAreKinds, TypesAreAdders DEF Columns, EquipmentDoubles, Row

LEMMA LimitColumns == Columns(LimitDoubles)
BY KindNames, AdderNames, TypesAreKinds, TypesAreAdders DEF Columns, LimitDoubles, Row

LEMMA NumberColumns == Columns(Ints) /\ Columns(Enums) /\ Columns(Ordinals)
<1>1. Columns(Ints)
  BY KindNames, AdderNames, TypesAreKinds, TypesAreAdders DEF Columns, Ints, Row
<1>2. Columns(Enums)
  BY KindNames, AdderNames, TypesAreKinds, TypesAreAdders DEF Columns, Enums, Row
<1>3. Columns(Ordinals)
  BY KindNames, AdderNames, TypesAreKinds, TypesAreAdders DEF Columns, Ordinals, Row
<1> QED  BY <1>1, <1>2, <1>3

LEMMA FlagColumns == Columns(Bools)
BY KindNames, AdderNames, TypesAreKinds, TypesAreAdders DEF Columns, Bools, Row

LEMMA StringColumns == Columns(Strings)
BY KindNames, AdderNames, TypesAreKinds, TypesAreAdders DEF Columns, Strings, Row

----------------------------------------------------------------------------
\* The switches

\* What the readers, the writers and the finders are asked of.
LEMMA ReadersAsk ==
  /\ AskObjects(GetIntCases) /\ AskObjects(GetStringCases) /\ AskObjects(GetBoolCases)
  /\ AskObjects(OptIntCases) /\ AskObjects(OptStringCases) /\ AskObjects(StringListCases)
  /\ AskObjects(GetKeyedStringCases) /\ AskObjects(IntListCases)
       /\ AskObjects(EvaluateCases.evaluate1)
  /\ AskObjects(EvaluateCases.evaluate2) /\ AskObjects(EvaluateCases.evaluate3)
<1> USE KindNames, TypesAreKinds DEF AskObjects, Reads, Case
<1>1. AskObjects(GetIntCases)
  BY DEF GetIntCases
<1>2. AskObjects(GetStringCases)
  BY DEF GetStringCases
<1>3. AskObjects(GetBoolCases)
  BY DEF GetBoolCases
<1>4. AskObjects(OptIntCases)
  BY DEF OptIntCases
<1>5. AskObjects(OptStringCases)
  BY DEF OptStringCases
<1>6. AskObjects(StringListCases)
  BY DEF StringListCases
<1>7. AskObjects(GetKeyedStringCases)
  BY DEF GetKeyedStringCases
<1>8. AskObjects(IntListCases)
  BY DEF IntListCases
<1>9. AskObjects(EvaluateCases.evaluate1)
  BY DEF EvaluateCases
<1>10. AskObjects(EvaluateCases.evaluate2)
  BY DEF EvaluateCases
<1>11. AskObjects(EvaluateCases.evaluate3)
  BY DEF EvaluateCases
<1> QED  BY <1>1, <1>2, <1>3, <1>4, <1>5, <1>6, <1>7, <1>8, <1>9, <1>10, <1>11

LEMMA WritersAsk ==
  /\ AskObjects(SetIntCases) /\ AskObjects(SetStringCases) /\ AskObjects(SetKeyedStringCases)
  /\ AskObjects(SetRelatedCases) /\ AskObjects(ClearCases) /\ AskObjects(ActionCases)
  /\ AskObjects(RemoveCases) /\ AskObjects(ConnectCases)
<1> USE KindNames, TypesAreKinds DEF AskObjects, Writes, Finds, Case
<1>1. AskObjects(SetIntCases)
  BY DEF SetIntCases
<1>2. AskObjects(SetStringCases)
  BY DEF SetStringCases
<1>3. AskObjects(SetKeyedStringCases)
  BY DEF SetKeyedStringCases
<1>4. AskObjects(SetRelatedCases)
  BY DEF SetRelatedCases
<1>5. AskObjects(ClearCases)
  BY DEF ClearCases
<1>6. AskObjects(ActionCases)
  BY DEF ActionCases
<1>7. AskObjects(RemoveCases)
  BY DEF RemoveCases
<1>8. AskObjects(ConnectCases)
  <2> SUFFICES ASSUME NEW c \in ConnectCases PROVE c.on \subseteq Kinds
    BY DEF AskObjects
  <2>1. PICK k \in Connectables : c = Finds({"ACT_CONNECT", "ACT_DISCONNECT"}, {k}, {k})
    BY DEF ConnectCases
  <2> QED  BY <2>1
<1> QED  BY <1>1, <1>2, <1>3, <1>4, <1>5, <1>6, <1>7, <1>8

LEMMA EachAsks ==
  ASSUME NEW codes, NEW on, on \subseteq Kinds, NEW typeOf
  PROVE  AskObjects(EachOf(codes, on, typeOf))
BY DEF AskObjects, EachOf, Case

LEMMA FindersAsk ==
  /\ AskObjects(ChildCases) /\ AskObjects(RelatedCases) /\ AskObjects(RelatedByStringCases)
  /\ AskObjects(FindByIdCases) /\ AskObjects(RelatedByIndexCases)
<1> USE KindNames, TypesAreKinds DEF Finds, Case
<1>1. AskObjects(ChildrenOfType)
  <2> USE TypesAreKinds, KindNames
  <2>1. /\ {"VoltageLevel", "Bus", "Network"} \subseteq Kinds
        /\ {"Substation", "VoltageLevel", "Bus", "Network"} \subseteq Kinds
        /\ {"VoltageLevel", "Network"} \subseteq Kinds /\ {"Network"} \subseteq Kinds
    OBVIOUS
  <2>2. ASSUME NEW c \in ChildrenOfType
        PROVE  \E codes : \E on \in SUBSET Kinds : c \in EachOf(codes, on, InstanceOf)
    BY <2>1 DEF ChildrenOfType
  <2> QED  BY <2>2, EachAsks DEF AskObjects
<1>2. AskObjects(OtherChildren)
  BY DEF OtherChildren, AskObjects
<1>3. AskObjects(ReactiveLimitsOfType)
  BY EachAsks DEF ReactiveLimitsOfType
<1>4. AskObjects(OtherRelated)
  BY DEF OtherRelated, AskObjects
<1>5. AskObjects(RelatedByStringCases)
  BY DEF RelatedByStringCases, AskObjects
<1>6. AskObjects(FindByIdCases)
  BY DEF FindByIdCases, AskObjects
<1>7. AskObjects(RelatedByIndexCases)
  BY DEF RelatedByIndexCases, AskObjects
<1> QED  BY <1>1, <1>2, <1>3, <1>4, <1>5, <1>6, <1>7 DEF ChildCases, RelatedCases, AskObjects

LEMMA FieldsAsk ==
  /\ AskAdders(SetDoubleFields) /\ AskAdders(SetIntFields) /\ AskAdders(SetBoolFields)
  /\ AskAdders(SetStringFields) /\ AskAdders(SetKeyedStringFields) /\ AskAdders(SetRelatedFields)
  /\ AskAdders(AddCases)
<1> USE AdderNames, TypesAreAdders DEF AskAdders, Writes, Case
<1>1. AskAdders(SetDoubleFields)
  BY DEF SetDoubleFields
<1>2. AskAdders(SetIntFields)
  BY DEF SetIntFields
<1>3. AskAdders(SetBoolFields)
  BY DEF SetBoolFields
<1>4. AskAdders(SetStringFields)
  BY DEF SetStringFields
<1>5. AskAdders(SetKeyedStringFields)
  BY DEF SetKeyedStringFields
<1>6. AskAdders(SetRelatedFields)
  BY DEF SetRelatedFields
<1>7. AskAdders(AddCases)
  BY DEF AddCases, Added
<1> QED  BY <1>1, <1>2, <1>3, <1>4, <1>5, <1>6, <1>7

\* Each case answers something.
LEMMA AValueThere == AValue # {}
BY DEF AValue

LEMMA ReadersAnswer ==
  /\ Answering(GetIntCases) /\ Answering(GetStringCases) /\ Answering(GetBoolCases)
  /\ Answering(OptIntCases) /\ Answering(OptStringCases) /\ Answering(StringListCases)
  /\ Answering(GetKeyedStringCases) /\ Answering(IntListCases) /\ Answering(EvaluateCases.evaluate1)
  /\ Answering(EvaluateCases.evaluate2) /\ Answering(EvaluateCases.evaluate3)
<1> USE AValueThere DEF Answering, Reads, Case
<1>1. Answering(GetIntCases)
  BY DEF GetIntCases
<1>2. Answering(GetStringCases)
  BY DEF GetStringCases
<1>3. Answering(GetBoolCases)
  BY DEF GetBoolCases
<1>4. Answering(OptIntCases)
  BY DEF OptIntCases
<1>5. Answering(OptStringCases)
  BY DEF OptStringCases
<1>6. Answering(StringListCases)
  BY DEF StringListCases
<1>7. Answering(GetKeyedStringCases)
  BY DEF GetKeyedStringCases
<1>8. Answering(IntListCases)
  BY DEF IntListCases
<1>9. Answering(EvaluateCases.evaluate1)
  BY DEF EvaluateCases
<1>10. Answering(EvaluateCases.evaluate2)
  BY DEF EvaluateCases
<1>11. Answering(EvaluateCases.evaluate3)
  BY DEF EvaluateCases
<1> QED  BY <1>1, <1>2, <1>3, <1>4, <1>5, <1>6, <1>7, <1>8, <1>9, <1>10, <1>11

LEMMA WritersAnswer ==
  /\ Answering(SetIntCases) /\ Answering(SetStringCases) /\ Answering(SetKeyedStringCases)
  /\ Answering(SetRelatedCases) /\ Answering(ClearCases) /\ Answering(ActionCases)
  /\ Answering(RemoveCases) /\ Answering(ConnectCases) /\ Answering(SetDoubleFields)
  /\ Answering(SetIntFields) /\ Answering(SetBoolFields) /\ Answering(SetStringFields)
  /\ Answering(SetKeyedStringFields) /\ Answering(SetRelatedFields) /\ Answering(AddCases)
<1> USE DEF Answering, Writes, Finds, Maybe, Case
<1>1. Answering(SetIntCases)
  BY DEF SetIntCases
<1>2. Answering(SetStringCases)
  BY DEF SetStringCases
<1>3. Answering(SetKeyedStringCases)
  BY DEF SetKeyedStringCases
<1>4. Answering(SetRelatedCases)
  BY DEF SetRelatedCases
<1>5. Answering(ClearCases)
  BY DEF ClearCases
<1>6. Answering(ActionCases)
  BY DEF ActionCases
<1>7. Answering(RemoveCases)
  BY DEF RemoveCases
<1>8. Answering(ConnectCases)
  BY DEF ConnectCases
<1>9. Answering(SetDoubleFields)
  BY DEF SetDoubleFields
<1>10. Answering(SetIntFields)
  BY DEF SetIntFields
<1>11. Answering(SetBoolFields)
  BY DEF SetBoolFields
<1>12. Answering(SetStringFields)
  BY DEF SetStringFields
<1>13. Answering(SetKeyedStringFields)
  BY DEF SetKeyedStringFields
<1>14. Answering(SetRelatedFields)
  BY DEF SetRelatedFields
<1>15. Answering(AddCases)
  BY DEF AddCases
<1> QED  BY <1>1, <1>2, <1>3, <1>4, <1>5, <1>6, <1>7, <1>8, <1>9, <1>10, <1>11, <1>12, <1>13, <1>14,
              <1>15

LEMMA TypesThere ==
  /\ Identifiable # {} /\ AutomationSystem # {} /\ Tripping # {} /\ Leg # {} /\ Connectable # {}
  /\ HvdcConverterStation # {} /\ ShuntCompensatorModel # {} /\ LoadModel # {} /\ LoadingLimits # {}
BY DEF Identifiable, AutomationSystem, Tripping, Leg, Connectable, HvdcConverterStation, Injection,
       ShuntCompensatorModel, LoadModel, LoadingLimits

LEMMA EachAnswers ==
  ASSUME NEW codes, NEW on, \A code \in codes : code \in DOMAIN InstanceOf
  PROVE  Answering(EachOf(codes, on, InstanceOf))
BY InstancesAreKinds DEF Answering, EachOf, Case

LEMMA FindersAnswer ==
  /\ Answering(ChildCases) /\ Answering(RelatedCases) /\ Answering(RelatedByStringCases)
  /\ Answering(FindByIdCases) /\ Answering(RelatedByIndexCases)
<1>1. \A code \in {"GENERATOR", "LOAD", "BATTERY", "SHUNT_COMPENSATOR", "STATIC_VAR_COMPENSATOR",
                   "BOUNDARY_LINE", "LCC_CONVERTER_STATION", "VSC_CONVERTER_STATION", "LINE"} :
        code \in DOMAIN InstanceOf
  BY DEF InstanceOf
<1>2. \A code \in {"TWO_WINDINGS_TRANSFORMER", "THREE_WINDINGS_TRANSFORMER"} :
        code \in DOMAIN InstanceOf
  BY DEF InstanceOf
<1>3. \A code \in {"CONNECTABLE", "AREA", "GROUND", "SWITCH", "BUSBAR_SECTION"} :
        code \in DOMAIN InstanceOf
  BY DEF InstanceOf
<1>4. \A code \in {"IDENTIFIABLE", "BRANCH", "HVDC_CONVERTER_STATION", "SUBSTATION",
                   "VOLTAGE_ANGLE_LIMIT", "HVDC_LINE", "TIE_LINE", "NETWORK"} :
        code \in DOMAIN InstanceOf
  BY DEF InstanceOf
<1>5. \A code \in {"CURRENT_LIMITS", "ACTIVE_POWER_LIMITS", "APPARENT_POWER_LIMITS"} :
        code \in DOMAIN InstanceOf
  BY DEF InstanceOf
<1>6. Answering(ChildrenOfType)
  BY <1>1, <1>2, <1>3, <1>4, <1>5, EachAnswers DEF ChildrenOfType, Answering
<1>7. Answering(OtherChildren)
  BY TypesThere, SMTT(30) DEF Answering, OtherChildren, Case
<1>8. \A code \in {"REACTIVE_LIMITS", "MIN_MAX_REACTIVE_LIMITS", "REACTIVE_CAPABILITY_CURVE",
                   "REACTIVE_CAPABILITY_SHAPE"} :
        code \in DOMAIN InstanceOf
  BY DEF InstanceOf
<1>9. Answering(ReactiveLimitsOfType)
  BY <1>8, EachAnswers DEF ReactiveLimitsOfType
<1>10. Answering(OtherRelated)
  <2> SUFFICES ASSUME NEW c \in OtherRelated PROVE c.gives # {}
    BY DEF Answering
  <2>1. \/ c.gives \in {{"Terminal"}, {"VoltageLevel"}, {"Boundary"}, {"Area"}, {"BoundaryLine"},
                      {"Network"}, {"VariantManager"}, {"ThreeWindingsTransformer"},
                      {"Substation"}, {"TemporaryLimit"}, HvdcConverterStation, Connectable,
                      ShuntCompensatorModel, {"ShuntCompensatorLinearModel"},
                      {"ShuntCompensatorNonLinearModel"}}
        \/ None \in c.gives
    BY DEF OtherRelated, Finds, Maybe, Case
  <2> QED  BY <2>1, TypesThere
<1>11. Answering(RelatedByStringCases)
  BY TypesThere DEF Answering, RelatedByStringCases, Finds, Maybe, Case
<1>12. Answering(FindByIdCases)
  <2> SUFFICES ASSUME NEW c \in FindByIdCases PROVE c.gives # {}
    BY DEF Answering
  <2>1. PICK code : c = Finds({code}, {"Network"}, InstanceOf[code])
    BY DEF FindByIdCases
  <2> QED  BY <2>1 DEF Finds, Maybe, Case
<1>13. Answering(RelatedByIndexCases)
  BY TypesThere DEF Answering, RelatedByIndexCases, Finds, Maybe, Case
<1> QED  BY <1>6, <1>7, <1>9, <1>10, <1>11, <1>12, <1>13 DEF ChildCases, RelatedCases, Answering

----------------------------------------------------------------------------
\* No code is in the table and in the switch of a function both

LEMMA ReadersApart ==
  /\ Apart(GetIntCases, Getters(IntsAndOrdinals)) /\ Apart(GetBoolCases, Getters(Bools))
  /\ Apart(GetStringCases, Getters(Strings))
<1> USE DEF Apart, Getters, Reads, Case, Row
<1>1. Apart(GetIntCases, Getters(Ints))
  BY DEF GetIntCases, Ints
<1>2. Apart(GetIntCases, Getters(Enums))
  BY DEF GetIntCases, Enums
<1>3. Apart(GetIntCases, Getters(Ordinals))
  BY DEF GetIntCases, Ordinals
<1>4. Apart(GetIntCases, Getters(IntsAndOrdinals))
  BY <1>1, <1>2, <1>3 DEF IntsAndOrdinals
<1>5. Apart(GetBoolCases, Getters(Bools))
  BY DEF GetBoolCases, Bools, InstanceOf
<1>6. Apart(GetStringCases, Getters(Strings))
  BY DEF GetStringCases, Strings
<1> QED  BY <1>4, <1>5, <1>6

LEMMA WritersApart ==
  Apart(SetIntCases, Setters(IntsAndOrdinals)) /\ Apart(SetStringCases, Setters(Strings))
<1> USE DEF Apart, Setters, Writes, Case, Row
<1>1. Apart(SetIntCases, Setters(Ints))
  BY DEF SetIntCases, Ints
<1>2. Apart(SetIntCases, Setters(Enums))
  BY DEF SetIntCases, Enums
<1>3. Apart(SetIntCases, Setters(Ordinals))
  BY DEF SetIntCases, Ordinals
<1>4. Apart(SetIntCases, Setters(IntsAndOrdinals))
  BY <1>1, <1>2, <1>3 DEF IntsAndOrdinals
<1>5. Apart(SetStringCases, Setters(Strings))
  BY DEF SetStringCases, Strings
<1> QED  BY <1>4, <1>5

LEMMA FieldsApart ==
  /\ Apart(SetDoubleFields, AdderSetters(Doubles)) /\ Apart(SetIntFields,
       AdderSetters(IntsAndOrdinals))
  /\ Apart(SetBoolFields, AdderSetters(Bools)) /\ Apart(SetStringFields, AdderSetters(Strings))
<1> USE DEF Apart, AdderSetters, Writes, Case, Row
<1>1. Apart(SetDoubleFields, AdderSetters(EquipmentDoubles))
  BY DEF SetDoubleFields, EquipmentDoubles
<1>2. Apart(SetDoubleFields, AdderSetters(LimitDoubles))
  BY DEF SetDoubleFields, LimitDoubles
<1>3. Apart(SetIntFields, AdderSetters(Ints))
  BY DEF SetIntFields, Ints
<1>4. Apart(SetIntFields, AdderSetters(Enums))
  BY DEF SetIntFields, Enums
<1>5. Apart(SetIntFields, AdderSetters(Ordinals))
  BY DEF SetIntFields, Ordinals
<1>6. Apart(SetBoolFields, AdderSetters(Bools))
  BY DEF SetBoolFields, Bools
<1>7. Apart(SetStringFields, AdderSetters(Strings))
  BY DEF SetStringFields, Strings
<1> QED  BY <1>1, <1>2, <1>3, <1>4, <1>5, <1>6, <1>7 DEF Doubles, IntsAndOrdinals

----------------------------------------------------------------------------
\* What each function asks, first and next

LEMMA ObjectFunctions ==
  /\ DOMAIN OnObject = {"getDouble", "setDouble", "getInt", "setInt", "getBool", "setBool",
       "getString", "setString", "getOptInt", "getOptString", "getStringList", "getIntList",
       "getKeyedString", "setKeyedString", "evaluate1", "evaluate2", "evaluate3", "countChildren",
       "getChildren", "getRelated", "getRelatedByString", "getRelatedByIndex", "setRelated",
             "clear",
       "invoke"}
  /\ OnObject["getDouble"] = <<Getters(Doubles), {}>>
  /\ OnObject["setDouble"] = <<Setters(Doubles), {}>>
  /\ OnObject["getInt"] = <<Getters(IntsAndOrdinals), GetIntCases>>
  /\ OnObject["setInt"] = <<Setters(IntsAndOrdinals), SetIntCases>>
  /\ OnObject["getBool"] = <<Getters(Bools), GetBoolCases>>
  /\ OnObject["setBool"] = <<Setters(Bools), {}>>
  /\ OnObject["getString"] = <<Getters(Strings), GetStringCases>>
  /\ OnObject["setString"] = <<Setters(Strings), SetStringCases>>
  /\ OnObject["getOptInt"] = <<OptIntCases, Getters(IntsAndOrdinals) \cup GetIntCases>>
  /\ OnObject["getOptString"] = <<OptStringCases, Getters(Strings) \cup GetStringCases>>
  /\ OnObject["getStringList"] = <<{}, StringListCases>>
  /\ OnObject["getIntList"] = <<{}, IntListCases>>
  /\ OnObject["getKeyedString"] = <<{}, GetKeyedStringCases>>
  /\ OnObject["setKeyedString"] = <<{}, SetKeyedStringCases>>
  /\ OnObject["evaluate1"] = <<{}, EvaluateCases.evaluate1>>
  /\ OnObject["evaluate2"] = <<{}, EvaluateCases.evaluate2>>
  /\ OnObject["evaluate3"] = <<{}, EvaluateCases.evaluate3>>
  /\ OnObject["countChildren"] = <<{}, ChildCases>>
  /\ OnObject["getChildren"] = <<{}, ChildCases>>
  /\ OnObject["getRelated"] = <<{}, RelatedCases>>
  /\ OnObject["getRelatedByString"] = <<{}, RelatedByStringCases \cup FindByIdCases>>
  /\ OnObject["getRelatedByIndex"] = <<{}, RelatedByIndexCases>>
  /\ OnObject["setRelated"] = <<{}, SetRelatedCases>>
  /\ OnObject["clear"] = <<{}, ClearCases>>
  /\ OnObject["invoke"] = <<ConnectCases \cup ActionCases \cup RemoveCases, EquipmentAdderCases \cup
       PartAdderCases>>
BY DEF OnObject

LEMMA AdderFunctions ==
  /\ DOMAIN OnAdder = {"setDouble", "setInt", "setBool", "setString", "setKeyedString",
       "setRelated",
       "invoke"}
  /\ OnAdder["setDouble"] = <<AdderSetters(Doubles), SetDoubleFields>>
  /\ OnAdder["setInt"] = <<AdderSetters(IntsAndOrdinals), SetIntFields>>
  /\ OnAdder["setBool"] = <<AdderSetters(Bools), SetBoolFields>>
  /\ OnAdder["setString"] = <<AdderSetters(Strings), SetStringFields>>
  /\ OnAdder["setKeyedString"] = <<{}, SetKeyedStringFields>>
  /\ OnAdder["setRelated"] = <<{}, SetRelatedFields>>
  /\ OnAdder["invoke"] = <<AddCases, EquipmentAdderCases \cup PartAdderCases>>
BY DEF OnAdder
\* The tables decide first.
LEMMA DoublesDecide ==
  /\ Decides("getDouble", Getters(EquipmentDoubles)) /\ Decides("getDouble", Getters(LimitDoubles))
  /\ Decides("setDouble", Setters(EquipmentDoubles)) /\ Decides("setDouble", Setters(LimitDoubles))
  /\ Decides("setDouble", AdderSetters(EquipmentDoubles))
  /\ Decides("setDouble", AdderSetters(LimitDoubles))
  /\ Decides("setDouble", SetDoubleFields)
<1>1. /\ OfObjects(Getters(EquipmentDoubles)) /\ OfObjects(Setters(EquipmentDoubles))
      /\ OfAdders(AdderSetters(EquipmentDoubles))
  BY EquipmentColumns, ColumnsOf
<1>2. /\ OfObjects(Getters(LimitDoubles)) /\ OfObjects(Setters(LimitDoubles))
      /\ OfAdders(AdderSetters(LimitDoubles))
  BY LimitColumns, ColumnsOf
<1>3. /\ Getters(EquipmentDoubles) \subseteq Getters(Doubles)
      /\ Getters(LimitDoubles) \subseteq Getters(Doubles)
  BY DEF Getters, Doubles
<1>4. /\ Setters(EquipmentDoubles) \subseteq Setters(Doubles)
      /\ Setters(LimitDoubles) \subseteq Setters(Doubles)
  BY DEF Setters, Doubles
<1>5. /\ AdderSetters(EquipmentDoubles) \subseteq AdderSetters(Doubles)
      /\ AdderSetters(LimitDoubles) \subseteq AdderSetters(Doubles)
  BY DEF AdderSetters, Doubles
<1>6. Decides("getDouble", Getters(EquipmentDoubles)) /\ Decides("getDouble", Getters(LimitDoubles))
  BY <1>1, <1>2, <1>3, ObjectFunctions, FirstDecides
<1>7. Decides("setDouble", Setters(EquipmentDoubles)) /\ Decides("setDouble", Setters(LimitDoubles))
  BY <1>1, <1>2, <1>4, ObjectFunctions, FirstDecides
<1>8. /\ Decides("setDouble", AdderSetters(EquipmentDoubles))
      /\ Decides("setDouble", AdderSetters(LimitDoubles))
  BY <1>1, <1>2, <1>5, AdderFunctions, FirstDecides
<1>9. Decides("setDouble", SetDoubleFields)
  BY FieldsAsk, WritersAnswer, FieldsApart, AdderFunctions, NextDecides DEF OfAdders
<1> QED  BY <1>6, <1>7, <1>8, <1>9

LEMMA IntsDecide ==
  /\ Decides("getInt", Getters(Ints)) /\ Decides("getInt", Getters(Enums))
  /\ Decides("getInt", Getters(Ordinals)) /\ Decides("getInt", GetIntCases)
  /\ Decides("setInt", Setters(Ints)) /\ Decides("setInt", Setters(Enums))
  /\ Decides("setInt", Setters(Ordinals)) /\ Decides("setInt", SetIntCases)
  /\ Decides("setInt", AdderSetters(Ints)) /\ Decides("setInt", AdderSetters(Enums))
  /\ Decides("setInt", AdderSetters(Ordinals)) /\ Decides("setInt", SetIntFields)
<1>1. /\ OfObjects(Getters(Ints)) /\ OfObjects(Setters(Ints)) /\ OfAdders(AdderSetters(Ints))
      /\ OfObjects(Getters(Enums)) /\ OfObjects(Setters(Enums)) /\ OfAdders(AdderSetters(Enums))
      /\ OfObjects(Getters(Ordinals)) /\ OfObjects(Setters(Ordinals))
      /\ OfAdders(AdderSetters(Ordinals))
  BY NumberColumns, ColumnsOf
<1>2. /\ Getters(Ints) \subseteq Getters(IntsAndOrdinals)
      /\ Getters(Enums) \subseteq Getters(IntsAndOrdinals)
      /\ Getters(Ordinals) \subseteq Getters(IntsAndOrdinals)
  BY DEF Getters, IntsAndOrdinals
<1>3. /\ Setters(Ints) \subseteq Setters(IntsAndOrdinals)
      /\ Setters(Enums) \subseteq Setters(IntsAndOrdinals)
      /\ Setters(Ordinals) \subseteq Setters(IntsAndOrdinals)
  BY DEF Setters, IntsAndOrdinals
<1>4. /\ AdderSetters(Ints) \subseteq AdderSetters(IntsAndOrdinals)
      /\ AdderSetters(Enums) \subseteq AdderSetters(IntsAndOrdinals)
      /\ AdderSetters(Ordinals) \subseteq AdderSetters(IntsAndOrdinals)
  BY DEF AdderSetters, IntsAndOrdinals
<1>5. /\ Decides("getInt", Getters(Ints)) /\ Decides("getInt", Getters(Enums))
      /\ Decides("getInt", Getters(Ordinals))
  BY <1>1, <1>2, ObjectFunctions, FirstDecides
<1>6. /\ Decides("setInt", Setters(Ints)) /\ Decides("setInt", Setters(Enums))
      /\ Decides("setInt", Setters(Ordinals))
  BY <1>1, <1>3, ObjectFunctions, FirstDecides
<1>7. /\ Decides("setInt", AdderSetters(Ints)) /\ Decides("setInt", AdderSetters(Enums))
      /\ Decides("setInt", AdderSetters(Ordinals))
  BY <1>1, <1>4, AdderFunctions, FirstDecides
<1>8. Decides("getInt", GetIntCases)
  BY ReadersAsk, ReadersAnswer, ReadersApart, ObjectFunctions, NextDecides DEF OfObjects
<1>9. Decides("setInt", SetIntCases)
  BY WritersAsk, WritersAnswer, WritersApart, ObjectFunctions, NextDecides DEF OfObjects
<1>10. Decides("setInt", SetIntFields)
  BY FieldsAsk, WritersAnswer, FieldsApart, AdderFunctions, NextDecides DEF OfAdders
<1> QED  BY <1>5, <1>6, <1>7, <1>8, <1>9, <1>10

LEMMA BoolsDecide ==
  /\ Decides("getBool", Getters(Bools)) /\ Decides("getBool", GetBoolCases)
  /\ Decides("setBool", Setters(Bools)) /\ Decides("setBool", AdderSetters(Bools))
  /\ Decides("setBool", SetBoolFields)
<1>1. OfObjects(Getters(Bools)) /\ OfObjects(Setters(Bools)) /\ OfAdders(AdderSetters(Bools))
  BY FlagColumns, ColumnsOf
<1>2. Decides("getBool", Getters(Bools)) /\ Decides("setBool", Setters(Bools))
  BY <1>1, ObjectFunctions, FirstDecides
<1>3. Decides("setBool", AdderSetters(Bools))
  BY <1>1, AdderFunctions, FirstDecides
<1>4. Decides("getBool", GetBoolCases)
  BY ReadersAsk, ReadersAnswer, ReadersApart, ObjectFunctions, NextDecides DEF OfObjects
<1>5. Decides("setBool", SetBoolFields)
  BY FieldsAsk, WritersAnswer, FieldsApart, AdderFunctions, NextDecides DEF OfAdders
<1> QED  BY <1>2, <1>3, <1>4, <1>5

LEMMA StringsDecide ==
  /\ Decides("getString", Getters(Strings)) /\ Decides("getString", GetStringCases)
  /\ Decides("setString", Setters(Strings)) /\ Decides("setString", SetStringCases)
  /\ Decides("setString", AdderSetters(Strings)) /\ Decides("setString", SetStringFields)
<1>1. /\ OfObjects(Getters(Strings)) /\ OfObjects(Setters(Strings))
      /\ OfAdders(AdderSetters(Strings))
  BY StringColumns, ColumnsOf
<1>2. Decides("getString", Getters(Strings)) /\ Decides("setString", Setters(Strings))
  BY <1>1, ObjectFunctions, FirstDecides
<1>3. Decides("setString", AdderSetters(Strings))
  BY <1>1, AdderFunctions, FirstDecides
<1>4. Decides("getString", GetStringCases)
  BY ReadersAsk, ReadersAnswer, ReadersApart, ObjectFunctions, NextDecides DEF OfObjects
<1>5. Decides("setString", SetStringCases)
  BY WritersAsk, WritersAnswer, WritersApart, ObjectFunctions, NextDecides DEF OfObjects
<1>6. Decides("setString", SetStringFields)
  BY FieldsAsk, WritersAnswer, FieldsApart, AdderFunctions, NextDecides DEF OfAdders
<1> QED  BY <1>2, <1>3, <1>4, <1>5, <1>6

\* The functions without a table.
LEMMA OnlyDecides ==
  ASSUME NEW op, NEW cases,
         \/ op \in DOMAIN OnObject /\ OnObject[op] = <<{}, cases>> /\ OfObjects(cases)
         \/ op \in DOMAIN OnAdder /\ OnAdder[op] = <<{}, cases>> /\ OfAdders(cases)
  PROVE  Decides(op, cases)
BY NextDecides DEF Apart

LEMMA SwitchesDecide ==
  /\ Decides("getOptInt", OptIntCases) /\ Decides("getOptString", OptStringCases)
  /\ Decides("getStringList", StringListCases) /\ Decides("getIntList", IntListCases)
  /\ Decides("getKeyedString", GetKeyedStringCases)
  /\ Decides("setKeyedString", SetKeyedStringCases)
  /\ Decides("setKeyedString", SetKeyedStringFields)
  /\ Decides("evaluate1", EvaluateCases.evaluate1)
  /\ Decides("evaluate2", EvaluateCases.evaluate2)
  /\ Decides("evaluate3", EvaluateCases.evaluate3)
  /\ Decides("countChildren", ChildCases)
  /\ Decides("setRelated", SetRelatedCases) /\ Decides("setRelated", SetRelatedFields)
  /\ Decides("clear", ClearCases)
<1>1. Decides("getOptInt", OptIntCases) /\ Decides("getOptString", OptStringCases)
  <2>1. OfObjects(OptIntCases) /\ OfObjects(OptStringCases)
    BY ReadersAsk, ReadersAnswer DEF OfObjects
  <2>2. Decides("getOptInt", OptIntCases)
    BY <2>1, ObjectFunctions, FirstDecides
  <2>3. Decides("getOptString", OptStringCases)
    BY <2>1, ObjectFunctions, FirstDecides
  <2> QED  BY <2>2, <2>3
<1>2. /\ Decides("getStringList", StringListCases) /\ Decides("getIntList", IntListCases)
      /\ Decides("getKeyedString", GetKeyedStringCases)
      /\ Decides("evaluate1", EvaluateCases.evaluate1)
      /\ Decides("evaluate2", EvaluateCases.evaluate2)
      /\ Decides("evaluate3", EvaluateCases.evaluate3)
  BY ReadersAsk, ReadersAnswer, ObjectFunctions, OnlyDecides DEF OfObjects
<1>3. /\ Decides("setKeyedString", SetKeyedStringCases)
      /\ Decides("setRelated", SetRelatedCases) /\ Decides("clear", ClearCases)
  BY WritersAsk, WritersAnswer, ObjectFunctions, OnlyDecides DEF OfObjects
<1>4. Decides("setKeyedString", SetKeyedStringFields) /\ Decides("setRelated", SetRelatedFields)
  BY FieldsAsk, WritersAnswer, AdderFunctions, OnlyDecides DEF OfAdders
<1>5. Decides("countChildren", ChildCases)
  BY FindersAsk, FindersAnswer, ObjectFunctions, OnlyDecides DEF OfObjects
<1> QED  BY <1>1, <1>2, <1>3, <1>4, <1>5

LEMMA ActionsDecide ==
  /\ Decides("invoke", ConnectCases) /\ Decides("invoke", ActionCases)
  /\ Decides("invoke", RemoveCases) /\ Decides("invoke", AddCases)
<1>1. OfObjects(ConnectCases) /\ OfObjects(ActionCases) /\ OfObjects(RemoveCases)
  BY WritersAsk, WritersAnswer DEF OfObjects
<1>2. OfAdders(AddCases)
  BY FieldsAsk, WritersAnswer DEF OfAdders
<1>3. /\ Decides("invoke", ConnectCases) /\ Decides("invoke", ActionCases)
      /\ Decides("invoke", RemoveCases)
  <2> DEFINE first == ConnectCases \cup ActionCases \cup RemoveCases
  <2>1. /\ ConnectCases \in SUBSET first /\ ActionCases \in SUBSET first
        /\ RemoveCases \in SUBSET first
    OBVIOUS
  <2>2. "invoke" \in DOMAIN OnObject
        /\ OnObject["invoke"] = <<first, EquipmentAdderCases \cup PartAdderCases>>
    BY ObjectFunctions
  <2> HIDE DEF first
  <2> QED  BY <1>1, <2>1, <2>2, FirstDecides
<1>4. Decides("invoke", AddCases)
  BY <1>2, AdderFunctions, FirstDecides
<1> QED  BY <1>3, <1>4

----------------------------------------------------------------------------
\* The objects of each class

LEMMA KindsOfBases ==
  /\ KindsUnder("ContainerMethods") = Container /\ KindsUnder("BranchMethods") = Branch
  /\ KindsUnder("VoltageRegulationHolderMethods") = VoltageRegulationHolder
  /\ KindsUnder("ReactiveLimitsHolderMethods") = ReactiveLimitsHolder
  /\ KindsUnder("TapChangerHolderMethods") = TapChangerHolder
  /\ KindsUnder("FlowsLimitsHolderMethods") = LimitsHolder
  /\ KindsUnder("PropertiesHolder") = PropertiesHolder
  /\ KindsUnder("IdentifiableAdder") = IdentifiableAdder
  /\ KindsUnder("ConnectableAdder") = ConnectableAdder
  /\ KindsUnder("InjectionAdder") = InjectionAdder /\ KindsUnder("BranchAdder") = BranchAdder
BY DEF KindsUnder, MethodBases

LEMMA KindsOfTypes ==
  /\ KindsUnder("Identifiable") = Identifiable /\ KindsFor("Identifiable") = Identifiable
  /\ KindsUnder("Connectable") = Connectable /\ KindsFor("Connectable") = Connectable
  /\ KindsUnder("Injection") = Injection /\ KindsFor("Injection") = Injection
  /\ KindsUnder("Branch") = Branch /\ KindsFor("Branch") = Branch
  /\ KindsUnder("HvdcConverterStation") = HvdcConverterStation
  /\ KindsFor("HvdcConverterStation") = HvdcConverterStation
<1>1. {"Identifiable", "Connectable", "Injection", "Branch", "HvdcConverterStation"}
        \subseteq DOMAIN TypeCode
  BY DEF TypeCode
<1>2. /\ InstanceOf[TypeCode["Identifiable"]] = Identifiable
      /\ InstanceOf[TypeCode["Connectable"]] = Connectable
      /\ InstanceOf[TypeCode["Injection"]] = Injection
      /\ InstanceOf[TypeCode["Branch"]] = Branch
      /\ InstanceOf[TypeCode["HvdcConverterStation"]] = HvdcConverterStation
  BY DEF TypeCode, InstanceOf
<1>3. {"Identifiable", "Connectable", "Injection", "Branch", "HvdcConverterStation"}
        \cap DOMAIN MethodBases = {}
  BY DEF MethodBases
<1> QED  BY <1>1, <1>2, <1>3 DEF KindsUnder, KindsFor

LEMMA KindsOfPartTypes ==
  /\ KindsUnder("LoadModel") = LoadModel /\ KindsFor("LoadModel") = LoadModel
  /\ KindsUnder("ReactiveLimits") = ReactiveLimits /\ KindsFor("ReactiveLimits") = ReactiveLimits
  /\ KindsUnder("ShuntCompensatorModel") = ShuntCompensatorModel
  /\ KindsFor("ShuntCompensatorModel") = ShuntCompensatorModel
  /\ KindsUnder("LoadingLimits") = LoadingLimits /\ KindsFor("LoadingLimits") = LoadingLimits
  /\ KindsUnder("Tripping") = Tripping /\ KindsFor("Tripping") = Tripping
  /\ KindsUnder("Leg") = Leg /\ KindsFor("Leg") = Leg
  /\ KindsUnder("BranchSideLimits") = LimitsHolder /\ KindsFor("BranchSideLimits") = LimitsHolder
  /\ KindsUnder("Point") = {"CurvePoint"} /\ KindsFor("Point") = {"CurvePoint"}
  /\ KindsUnder("Plane") = {"ShapePlane"} /\ KindsFor("Plane") = {"ShapePlane"}
<1> DEFINE types == {"LoadModel", "ReactiveLimits", "ShuntCompensatorModel", "LoadingLimits",
                     "Tripping", "Leg", "BranchSideLimits", "Point", "Plane"}
<1>1. types \subseteq DOMAIN TypeCode
  BY DEF TypeCode
<1>2. /\ InstanceOf[TypeCode["LoadModel"]] = LoadModel
      /\ InstanceOf[TypeCode["ReactiveLimits"]] = ReactiveLimits
      /\ InstanceOf[TypeCode["ShuntCompensatorModel"]] = ShuntCompensatorModel
      /\ InstanceOf[TypeCode["LoadingLimits"]] = LoadingLimits
      /\ InstanceOf[TypeCode["Tripping"]] = Tripping
  BY DEF TypeCode, InstanceOf
<1>3. /\ InstanceOf[TypeCode["Leg"]] = Leg
      /\ InstanceOf[TypeCode["BranchSideLimits"]] = LimitsHolder
      /\ InstanceOf[TypeCode["Point"]] = {"CurvePoint"}
      /\ InstanceOf[TypeCode["Plane"]] = {"ShapePlane"}
  BY DEF TypeCode, InstanceOf
<1>4. types \cap DOMAIN MethodBases = {}
  BY DEF MethodBases
<1> QED  BY <1>1, <1>2, <1>3, <1>4 DEF KindsUnder, KindsFor

\* Those with a type code, and those without.
LEMMA KindsOfClasses ==
  \A class \in
    {"ActivePowerLimits", "ApparentPowerLimits", "Area", "AreaBoundary", "Battery", "Boundary",
     "BoundaryLine", "BranchTripping", "Bus", "BusbarSection", "Component", "CurrentLimits",
     "ExponentialLoadModel", "Generation", "Generator", "Ground", "HvdcLine",
     "LccConverterStation", "Line", "Load", "MinMaxReactiveLimits", "OperationalLimitsGroup",
     "Overload", "OverloadManagementSystem", "PhaseTapChanger", "PhaseTapChangerStep",
     "RatioTapChanger", "RatioTapChangerStep", "ReactiveCapabilityCurve",
     "ReactiveCapabilityShape", "Section", "ShuntCompensator", "ShuntCompensatorLinearModel",
     "ShuntCompensatorNonLinearModel", "StaticVarCompensator", "Substation", "Switch",
     "SwitchTripping", "TemporaryLimit", "ThreeWindingsTransformer",
     "ThreeWindingsTransformerTripping", "TieLine", "TwoWindingsTransformer", "VariantManager",
     "VoltageAngleLimit", "VoltageLevel", "VscConverterStation", "ZipLoadModel"} :
      KindsUnder(class) = {class} /\ KindsFor(class) = {class}
<1>1. \A class \in DOMAIN TypeCode \ DOMAIN MethodBases :
        KindsUnder(class) = InstanceOf[TypeCode[class]] /\ KindsFor(class) =
              InstanceOf[TypeCode[class]]
  BY DEF KindsUnder, KindsFor
<1>2. \A class \in DOMAIN TypeCode : class \notin DOMAIN MethodBases
  BY DEF TypeCode, MethodBases
<1> QED  BY <1>1, <1>2 DEF TypeCode, InstanceOf

LEMMA KindsOfOthers ==
  \A class \in
    {"BusList", "InternalConnection", "Network", "NodeList", "OverloadList", "SwitchList",
     "Terminal", "VoltageRegulation"} :
      KindsUnder(class) = {class} /\ KindsFor(class) = {class}
<1> DEFINE classes == {"BusList", "InternalConnection", "Network", "NodeList", "OverloadList",
                       "SwitchList", "Terminal", "VoltageRegulation"}
<1>1. classes \cap DOMAIN TypeCode = {} /\ classes \cap DOMAIN MethodBases = {}
  BY DEF TypeCode, MethodBases
<1>2. \A class \in classes : \A host \in DOMAIN ViewsOf : class \notin ViewsOf[host]
  BY DEF ViewsOf
<1>3. \A class \in classes : {host \in DOMAIN ViewsOf : class \in ViewsOf[host]} = {}
  BY <1>2
<1> QED  BY <1>1, <1>3 DEF KindsUnder, KindsFor


LEMMA KindsOfViews ==
  /\ KindsUnder("Network.BusBreakerView") = {"Network"}
  /\ KindsFor("Network.BusBreakerView") = {"Network"}
  /\ KindsUnder("Network.BusView") = {"Network"} /\ KindsFor("Network.BusView") = {"Network"}
  /\ KindsUnder("VoltageLevel.NodeBreakerView") = {"VoltageLevel"}
  /\ KindsFor("VoltageLevel.NodeBreakerView") = {"VoltageLevel"}
  /\ KindsUnder("VoltageLevel.BusBreakerView") = {"VoltageLevel"}
  /\ KindsFor("VoltageLevel.BusBreakerView") = {"VoltageLevel"}
  /\ KindsUnder("VoltageLevel.BusView") = {"VoltageLevel"}
  /\ KindsFor("VoltageLevel.BusView") = {"VoltageLevel"}
  /\ KindsUnder("Terminal.BusBreakerView") = {"Terminal"}
  /\ KindsFor("Terminal.BusBreakerView") = {"Terminal"}
  /\ KindsUnder("Terminal.BusView") = {"Terminal"} /\ KindsFor("Terminal.BusView") = {"Terminal"}
  /\ KindsUnder("Terminal.NodeBreakerView") = {"Terminal"}
  /\ KindsFor("Terminal.NodeBreakerView") = {"Terminal"}
<1> DEFINE views == {"Network.BusBreakerView", "Network.BusView", "VoltageLevel.NodeBreakerView",
                     "VoltageLevel.BusBreakerView", "VoltageLevel.BusView",
                     "Terminal.BusBreakerView", "Terminal.BusView", "Terminal.NodeBreakerView"}
<1> DEFINE hosts(view) == {k \in DOMAIN ViewsOf : view \in ViewsOf[k]}
<1>1. views \cap DOMAIN TypeCode = {} /\ views \cap DOMAIN MethodBases = {}
  BY DEF TypeCode, MethodBases
<1>2. /\ hosts("Network.BusBreakerView") = {"Network"} /\ hosts("Network.BusView") = {"Network"}
      /\ hosts("VoltageLevel.NodeBreakerView") = {"VoltageLevel"}
      /\ hosts("VoltageLevel.BusBreakerView") = {"VoltageLevel"}
      /\ hosts("VoltageLevel.BusView") = {"VoltageLevel"}
  BY DEF ViewsOf
<1>3. /\ hosts("Terminal.BusBreakerView") = {"Terminal"} /\ hosts("Terminal.BusView") = {"Terminal"}
      /\ hosts("Terminal.NodeBreakerView") = {"Terminal"}
  BY DEF ViewsOf
<1> QED  BY <1>1, <1>2, <1>3 DEF KindsUnder, KindsFor

LEMMA KindsOfAdders ==
  \A class \in Adders :
    /\ class \notin DOMAIN TypeCode /\ KindsFor(class) = {class}
    /\ class \notin DOMAIN MethodBases => KindsUnder(class) = {class}
<1>1. Adders \cap DOMAIN TypeCode = {}
  BY DEF TypeCode, Adders, IdentifiableAdder, InjectionAdder, BranchAdder, SwitchAdder,
       TapChangerAdder, TapChangerStepsReplacer, TapChangerStepAdder, LoadingLimitsAdder,
       ReactiveLimitsAdder, ShuntModelAdder, LoadModelAdder, TrippingAdder,
       VoltageRegulationAdderOrBuilder
<1>2. \A host \in DOMAIN ViewsOf : ViewsOf[host] \cap Adders = {}
  BY DEF ViewsOf, Adders, IdentifiableAdder, InjectionAdder, BranchAdder, SwitchAdder,
       TapChangerAdder, TapChangerStepsReplacer, TapChangerStepAdder, LoadingLimitsAdder,
       ReactiveLimitsAdder, ShuntModelAdder, LoadModelAdder, TrippingAdder,
       VoltageRegulationAdderOrBuilder
<1>3. \A class \in Adders : {k \in DOMAIN ViewsOf : class \in ViewsOf[k]} = {}
  BY <1>2
<1> QED  BY <1>1, <1>3 DEF KindsUnder, KindsFor

\* The classes whose wrappers the accessors make are for objects or adders.
MadeClasses ==
    DOMAIN TypeCode \cup Adders
      \cup {"BusList", "InternalConnection", "Network", "NodeList", "OverloadList", "SwitchList",
            "Terminal", "VoltageRegulation"}
      \cup UNION {ViewsOf[host] : host \in DOMAIN ViewsOf}

LEMMA MadeKinds ==
  ASSUME NEW class \in MadeClasses
  PROVE  KindsFor(class) \subseteq Objects
<1>1. CASE class \in DOMAIN TypeCode
  <2>1. TypeCode[class] \in DOMAIN InstanceOf
    BY <1>1 DEF TypeCode, InstanceOf
  <2> QED  BY <1>1, <2>1, InstancesAreKinds DEF KindsFor, Objects
<1>2. CASE class \in Adders
  BY <1>2, KindsOfAdders DEF Objects
<1>3. CASE class \in {"BusList", "InternalConnection", "Network", "NodeList", "OverloadList",
                      "SwitchList", "Terminal", "VoltageRegulation"}
  BY <1>3, KindsOfOthers, KindNames DEF Objects
<1>4. CASE class \in UNION {ViewsOf[host] : host \in DOMAIN ViewsOf}
  BY <1>4, KindsOfViews, KindNames DEF Objects, ViewsOf
<1> QED  BY <1>1, <1>2, <1>3, <1>4 DEF MadeClasses

----------------------------------------------------------------------------
\* Classes, their bases and their objects

\* The answers that make a wrapper of this class, or none where the accessor allows it.
Taken(how, class) == IF how = "maybe" THEN Maybe(KindsFor(class)) ELSE KindsFor(class)

\* Whatever object its wrapper is for, the accessor is answered, and by what its class is for.
Fits(r) ==
    /\ r.how \in {"value", "one", "maybe", "many", "view"}
    /\ r.how # "value" => KindsFor(r.gives) \subseteq Objects
    /\ r.op = "copy" => r.how \in {"one", "maybe", "many"}
    /\ \A kind \in KindsUnder(r.class) :
         IF r.how = "view" THEN kind \in KindsFor(r.gives)
         ELSE IF r.op = "copy"
         THEN Restarted(r, kind) # {} /\ Restarted(r, kind) \subseteq KindsFor(r.gives)
         ELSE /\ AnswersTo(r, kind) # {}
              /\ r.how # "value" => AnswersTo(r, kind) \subseteq Taken(r.how, r.gives)

----------------------------------------------------------------------------
\* The forms of accessors

\* A call by this code is answered, and by nothing but what is taken as this class.
Linked(class, op, how, code, gives) ==
    /\ op \notin {"steps", "copy", "view"} /\ how \in {"one", "maybe", "many"}
    /\ KindsFor(gives) \subseteq Objects
    /\ \A kind \in KindsUnder(class) :
         Answers(op, code, kind) # {} /\ Answers(op, code, kind) \subseteq Taken(how, gives)

LEMMA ValuesFit ==
  ASSUME NEW class, NEW calls, \A op \in DOMAIN calls : Served(class, op, calls[op])
  PROVE  \A r \in Values(class, calls) : Fits(r)
<1> SUFFICES ASSUME NEW op \in DOMAIN calls, NEW code \in calls[op]
             PROVE  Fits(Accessor(class, op, code, "value", "nothing"))
  BY DEF Values
<1>1. Served(class, op, calls[op])
  OBVIOUS
<1> QED  BY <1>1 DEF Fits, Accessor, Served, AnswersTo

LEMMA NumbersFit ==
  ASSUME NEW class, NEW codes, Served(class, "getDouble", codes), Served(class, "setDouble", codes)
  PROVE  \A r \in Numbers(class, codes) : Fits(r)
<1> DEFINE calls == [getDouble |-> codes, setDouble |-> codes]
<1>1. \A op \in DOMAIN calls : Served(class, op, calls[op])
  OBVIOUS
<1> HIDE DEF calls
<1>2. \A r \in Values(class, calls) : Fits(r)
  BY <1>1, ValuesFit
<1> QED  BY <1>2 DEF Numbers, calls

LEMMA CountsFit ==
  ASSUME NEW class, NEW codes, Served(class, "countChildren", codes)
  PROVE  \A r \in Counts(class, codes) : Fits(r)
<1> DEFINE calls == [countChildren |-> codes]
<1>1. \A op \in DOMAIN calls : Served(class, op, calls[op])
  OBVIOUS
<1> HIDE DEF calls
<1>2. \A r \in Values(class, calls) : Fits(r)
  BY <1>1, ValuesFit
<1> QED  BY <1>2 DEF Counts, calls

LEMMA LinkFits ==
  ASSUME NEW class, NEW op, NEW how, NEW code, NEW gives, Linked(class, op, how, code, gives)
  PROVE  Fits(Accessor(class, op, code, how, gives))
BY DEF Fits, Accessor, Linked, AnswersTo

LEMMA LinksFit ==
  ASSUME NEW class, NEW op, NEW how, NEW links,
         \A link \in links : Linked(class, op, how, link[1], link[2])
  PROVE  \A r \in Links(class, op, how, links) : Fits(r)
BY LinkFits DEF Links

LEMMA AddsFit ==
  ASSUME NEW class, NEW links, \A link \in links : Linked(class, "invoke", "one", link[1], link[2])
  PROVE  \A r \in Adds(class, links) : Fits(r)
BY LinksFit DEF Adds

\* The links of classes to themselves.
LEMMA TypedFit ==
  ASSUME NEW class, NEW op, NEW how, NEW classes,
         \A c \in classes : Linked(class, op, how, TypeCode[c], c)
  PROVE  \A r \in Links(class, op, how, OfType(classes)) : Fits(r)
<1>1. \A link \in OfType(classes) : Linked(class, op, how, link[1], link[2])
  BY DEF OfType
<1> QED  BY <1>1, LinksFit

LEMMA MakesFit ==
  ASSUME NEW adder, NEW class, Linked(adder, "invoke", "one", "ACT_ADD", class)
  PROVE  \A r \in Makes(adder, class) : Fits(r)
<1>1. \A link \in {<<"ACT_ADD", class>>} : Linked(adder, "invoke", "one", link[1], link[2])
  OBVIOUS
<1> QED  BY <1>1, LinksFit DEF Makes

LEMMA ReturnsFit ==
  ASSUME NEW adder, Served(adder, "invoke", {"ACT_ADD"})
  PROVE  \A r \in Returns(adder) : Fits(r)
<1> DEFINE calls == [invoke |-> {"ACT_ADD"}]
<1>1. \A op \in DOMAIN calls : Served(adder, op, calls[op])
  OBVIOUS
<1> HIDE DEF calls
<1>2. \A r \in Values(adder, calls) : Fits(r)
  BY <1>1, ValuesFit
<1> QED  BY <1>2 DEF Returns, calls

\* A copy is restarted, whatever its wrapper is for, and by an adder of the class.
Copied(class, code, adder) ==
    /\ KindsFor(adder) \subseteq Objects
    /\ \A kind \in KindsUnder(class) :
         LET restarted == {a \in Answers("invoke", code, kind) : kind \in CopyCases[Added[a]]}
         IN restarted # {} /\ restarted \subseteq KindsFor(adder)

LEMMA CopiesFit ==
  ASSUME NEW class, NEW links, \A link \in links : Copied(class, link[1], link[2])
  PROVE  \A r \in Copies(class, links) : Fits(r)
<1> SUFFICES ASSUME NEW link \in links
             PROVE  Fits(Accessor(class, "copy", link[1], "one", link[2]))
  BY DEF Copies, Links
<1>1. Copied(class, link[1], link[2])
  OBVIOUS
<1> QED  BY <1>1 DEF Fits, Accessor, Copied, Restarted

LEMMA ViewsFit ==
  ASSUME NEW class, NEW classes,
         \A c \in classes : KindsUnder(class) \subseteq KindsFor(c) /\ KindsFor(c) \subseteq Objects
  PROVE  \A r \in Views(class, classes) : Fits(r)
<1> SUFFICES ASSUME NEW c \in classes PROVE Fits(Accessor(class, "view", "", "view", c))
  BY DEF Views
<1>1. KindsUnder(class) \subseteq KindsFor(c) /\ KindsFor(c) \subseteq Objects
  OBVIOUS
<1> QED  BY <1>1 DEF Fits, Accessor

\* A call in steps is known, has these fields, and what making it answers is taken.
LEMMA StepsFit ==
  ASSUME NEW class, NEW code, NEW fields, NEW how, NEW gives,
         how \in {"value", "one", "maybe"}, how # "value" => KindsFor(gives) \subseteq Objects,
         \A kind \in KindsUnder(class) :
           /\ AnswersInSteps(code, kind, fields) # {}
           /\ how # "value" => AnswersInSteps(code, kind, fields) \subseteq Taken(how, gives)
  PROVE  \A r \in Steps(class, code, fields, how, gives) : Fits(r)
<1> DEFINE r == [Accessor(class, "steps", code, how, gives) EXCEPT !.fields = fields]
<1>1. /\ r.class = class /\ r.op = "steps" /\ r.code = code /\ r.how = how /\ r.gives = gives
      /\ r.fields = fields
  BY DEF Accessor
<1> HIDE DEF r
<1>2. Fits(r)
  BY <1>1 DEF Fits, AnswersTo
<1> QED  BY <1>2 DEF Steps, r

LEMMA DoesFit ==
  ASSUME NEW class, NEW code, NEW fields,
         \A kind \in KindsUnder(class) : AnswersInSteps(code, kind, fields) # {}
  PROVE  \A r \in Does(class, code, fields) : Fits(r)
<1>1. \A r \in Steps(class, code, fields, "value", "nothing") : Fits(r)
  BY StepsFit
<1> QED  BY <1>1 DEF Does

----------------------------------------------------------------------------
\* Calls that answer objects

\* Those of these cases that are for one of the codes and one of the kinds give only this.
GivesOnly(cases, codes, kinds, taken) ==
    \A c \in cases, code \in codes, kind \in kinds :
        code \in c.codes /\ kind \in c.on => c.gives \subseteq taken

LEMMA GivenLinked ==
  ASSUME NEW op, op \notin {"steps", "copy", "view"}, NEW how, how \in {"one", "maybe", "many"},
         NEW class, NEW code, NEW gives \in MadeClasses, NEW cases, Answering(cases),
         \A kind \in KindsUnder(class) : Answers(op, code, kind) = Given(cases, code, kind),
         HasCase(cases, {code}, KindsUnder(class)),
         GivesOnly(cases, {code}, KindsUnder(class), Taken(how, gives))
  PROVE  Linked(class, op, how, code, gives)
<1>1. ASSUME NEW kind \in KindsUnder(class)
      PROVE  Answers(op, code, kind) # {} /\ Answers(op, code, kind) \subseteq Taken(how, gives)
  <2>1. PICK c \in cases : code \in c.codes /\ kind \in c.on
    BY DEF HasCase
  <2>2. Given(cases, code, kind) # {}
    BY <2>1 DEF Given, Answering
  <2>3. Given(cases, code, kind) \subseteq Taken(how, gives)
    BY DEF Given, GivesOnly
  <2> QED  BY <2>2, <2>3
<1> QED  BY <1>1, MadeKinds DEF Linked

\* Where the others have no case of the code and the kind, these answer alone.
LEMMA GivenAlone ==
  ASSUME NEW all, NEW cases, cases \subseteq all, NEW code, NEW kind,
         \A c \in all : c \in cases \/ ~(code \in c.codes /\ kind \in c.on)
  PROVE  Given(all, code, kind) = Given(cases, code, kind)
BY DEF Given

\* A function with one switch answers objects by it.
LEMMA OnlyLinked ==
  ASSUME NEW op \in DOMAIN OnObject, op \notin {"steps", "copy", "view"},
         NEW all, OnObject[op] = <<{}, all>>, Answering(all), NEW how \in {"one", "maybe", "many"},
         NEW class, KindsUnder(class) \subseteq Kinds, NEW code, NEW gives \in MadeClasses,
         NEW cases, cases \subseteq all,
         \A c \in all, kind \in KindsUnder(class) :
           c \in cases \/ ~(code \in c.codes /\ kind \in c.on),
         HasCase(cases, {code}, KindsUnder(class)),
         GivesOnly(cases, {code}, KindsUnder(class), Taken(how, gives))
  PROVE  Linked(class, op, how, code, gives)
<1>1. ASSUME NEW kind \in KindsUnder(class)
      PROVE  Answers(op, code, kind) = Given(cases, code, kind)
  <2>1. kind \notin Adders
    BY KindsDisjoint
  <2>2. Answers(op, code, kind) = Given(all, code, kind)
    BY <2>1, AnswersObject
  <2> QED  BY <2>2, GivenAlone
<1>2. Answering(cases)
  BY DEF Answering
<1> QED  BY <1>1, <1>2, GivenLinked

LEMMA ChildrenApart == Apart(ChildrenOfType, OtherChildren)
<1>1. ASSUME NEW c \in ChildrenOfType
      PROVE  \E code \in
               {"GENERATOR", "LOAD", "BATTERY", "SHUNT_COMPENSATOR", "STATIC_VAR_COMPENSATOR",
                "BOUNDARY_LINE", "LCC_CONVERTER_STATION", "VSC_CONVERTER_STATION", "LINE",
                "TWO_WINDINGS_TRANSFORMER", "THREE_WINDINGS_TRANSFORMER", "CONNECTABLE", "AREA",
                "GROUND", "SWITCH", "BUSBAR_SECTION", "IDENTIFIABLE", "BRANCH",
                "HVDC_CONVERTER_STATION", "SUBSTATION", "VOLTAGE_ANGLE_LIMIT", "HVDC_LINE",
                "TIE_LINE", "NETWORK", "CURRENT_LIMITS", "ACTIVE_POWER_LIMITS",
                "APPARENT_POWER_LIMITS"} :
               c.codes = {code}
  BY DEF ChildrenOfType, EachOf, Case
<1> QED  BY <1>1 DEF Apart, OtherChildren, Case

LEMMA RelatedApart == Apart(ReactiveLimitsOfType, OtherRelated)
<1>1. ASSUME NEW c \in ReactiveLimitsOfType
      PROVE  \E code \in {"REACTIVE_LIMITS", "MIN_MAX_REACTIVE_LIMITS",
                          "REACTIVE_CAPABILITY_CURVE", "REACTIVE_CAPABILITY_SHAPE"} :
               c.codes = {code}
  BY DEF ReactiveLimitsOfType, EachOf, Case
<1> QED  BY <1>1 DEF Apart, OtherRelated, Finds, Case

\* What a list answers: objects of the type of the code, or of the type of its case.
LEMMA OtherChildrenLinked ==
  ASSUME NEW class, KindsUnder(class) \subseteq Kinds, NEW code, NEW gives \in MadeClasses,
         HasCase(OtherChildren, {code}, KindsUnder(class)),
         GivesOnly(OtherChildren, {code}, KindsUnder(class), KindsFor(gives))
  PROVE  Linked(class, "getChildren", "many", code, gives)
<1>1. \A c \in ChildCases, kind \in KindsUnder(class) :
        c \in OtherChildren \/ ~(code \in c.codes /\ kind \in c.on)
  BY ChildrenApart DEF Apart, HasCase, ChildCases
<1>2. OtherChildren \subseteq ChildCases
  BY DEF ChildCases
<1>3. Taken("many", gives) = KindsFor(gives)
  BY DEF Taken
<1> QED  BY <1>1, <1>2, <1>3, FindersAnswer, ObjectFunctions, OnlyLinked

LEMMA ChildrenOfTypeLinked ==
  ASSUME NEW class, KindsUnder(class) \subseteq Kinds, NEW code, NEW gives \in MadeClasses,
         KindsFor(gives) = InstanceOf[code], HasCase(ChildrenOfType, {code}, KindsUnder(class))
  PROVE  Linked(class, "getChildren", "many", code, gives)
<1>1. \A c \in ChildCases, kind \in KindsUnder(class) :
        c \in ChildrenOfType \/ ~(code \in c.codes /\ kind \in c.on)
  BY ChildrenApart DEF Apart, HasCase, ChildCases
<1>2. ChildrenOfType \subseteq ChildCases
  BY DEF ChildCases
<1>3. \A c \in ChildrenOfType : code \in c.codes => c.gives = InstanceOf[code]
  BY DEF ChildrenOfType, EachOf, Case
<1>4. GivesOnly(ChildrenOfType, {code}, KindsUnder(class), Taken("many", gives))
  BY <1>3 DEF GivesOnly, Taken
<1> QED  BY <1>1, <1>2, <1>4, FindersAnswer, ObjectFunctions, OnlyLinked

LEMMA OtherRelatedLinked ==
  ASSUME NEW class, KindsUnder(class) \subseteq Kinds, NEW code, NEW gives \in MadeClasses,
         NEW how \in {"one", "maybe"}, HasCase(OtherRelated, {code}, KindsUnder(class)),
         GivesOnly(OtherRelated, {code}, KindsUnder(class), Taken(how, gives))
  PROVE  Linked(class, "getRelated", how, code, gives)
<1>1. \A c \in RelatedCases, kind \in KindsUnder(class) :
        c \in OtherRelated \/ ~(code \in c.codes /\ kind \in c.on)
  BY RelatedApart DEF Apart, HasCase, RelatedCases
<1>2. OtherRelated \subseteq RelatedCases
  BY DEF RelatedCases
<1> QED  BY <1>1, <1>2, FindersAnswer, ObjectFunctions, OnlyLinked

\* The reactive limits of whatever has them.
LEMMA ReactiveLimitsLinked ==
  Linked("ReactiveLimitsHolderMethods", "getRelated", "one", "REACTIVE_LIMITS", "ReactiveLimits")
<1> DEFINE class == "ReactiveLimitsHolderMethods"
           code == "REACTIVE_LIMITS"
<1>1. KindsUnder(class) = ReactiveLimitsHolder /\ KindsUnder(class) \subseteq Kinds
  BY KindsOfBases, TypesAreKinds
<1>2. \A c \in RelatedCases, kind \in KindsUnder(class) :
        c \in ReactiveLimitsOfType \/ ~(code \in c.codes /\ kind \in c.on)
  BY DEF RelatedCases, OtherRelated, Finds, Case
<1>3. ReactiveLimitsOfType \subseteq RelatedCases
  BY DEF RelatedCases
<1>4. Case({code}, ReactiveLimitsHolder, InstanceOf[code]) \in ReactiveLimitsOfType
  BY DEF ReactiveLimitsOfType, EachOf
<1>5. HasCase(ReactiveLimitsOfType, {code}, KindsUnder(class))
  BY <1>1, <1>4 DEF HasCase, Case
<1>6. ASSUME NEW c \in ReactiveLimitsOfType, code \in c.codes
      PROVE  c.gives = KindsFor("ReactiveLimits")
  <2>1. c.gives = InstanceOf[code]
    BY <1>6 DEF ReactiveLimitsOfType, EachOf, Case
  <2> QED  BY <2>1, KindsOfPartTypes DEF InstanceOf
<1>7. GivesOnly(ReactiveLimitsOfType, {code}, KindsUnder(class), Taken("one", "ReactiveLimits"))
  BY <1>6 DEF GivesOnly, Taken
<1>8. "ReactiveLimits" \in MadeClasses
  BY DEF MadeClasses, TypeCode
<1> QED  BY <1>1, <1>2, <1>3, <1>5, <1>7, <1>8, FindersAnswer, ObjectFunctions, OnlyLinked,
            SMTT(30)

LEMMA NamedLinked ==
  ASSUME NEW class, KindsUnder(class) \subseteq Kinds, NEW code, NEW gives \in MadeClasses,
         NEW how \in {"one", "maybe"}, HasCase(RelatedByStringCases, {code}, KindsUnder(class)),
         GivesOnly(RelatedByStringCases, {code}, KindsUnder(class), Taken(how, gives)),
         "Network" \in KindsUnder(class) => code \in {"REL_BBV_BUS", "REL_BV_BUS"}
  PROVE  Linked(class, "getRelatedByString", how, code, gives)
<1> DEFINE all == RelatedByStringCases \cup FindByIdCases
<1>1. \A c \in FindByIdCases :
        c.on = {"Network"} /\ "REL_BBV_BUS" \notin c.codes /\ "REL_BV_BUS" \notin c.codes
  BY DEF FindByIdCases, Finds, Case
<1>2. \A c \in all, kind \in KindsUnder(class) :
        c \in RelatedByStringCases \/ ~(code \in c.codes /\ kind \in c.on)
  BY <1>1
<1>3. RelatedByStringCases \subseteq all /\ Answering(all)
  BY FindersAnswer DEF Answering
<1>4. /\ "getRelatedByString" \in DOMAIN OnObject
      /\ OnObject["getRelatedByString"] = <<{}, all>>
  BY ObjectFunctions
<1> HIDE DEF all
<1> QED  BY <1>2, <1>3, <1>4, OnlyLinked

\* A network finds by its identifier whatever has a type code.
LEMMA LookedUpLinked ==
  ASSUME NEW code, NEW gives \in MadeClasses, KindsFor(gives) = InstanceOf[code],
         HasCase(FindByIdCases, {code}, {"Network"})
  PROVE  Linked("Network", "getRelatedByString", "maybe", code, gives)
<1> DEFINE all == RelatedByStringCases \cup FindByIdCases
           class == "Network"
<1>1. KindsUnder(class) = {"Network"} /\ KindsUnder(class) \subseteq Kinds
  BY KindsOfOthers, KindNames
<1>2. code \notin {"REL_BBV_BUS", "REL_BV_BUS"}
  BY DEF HasCase, FindByIdCases, Finds, Case
<1>3. \A c \in RelatedByStringCases : "Network" \in c.on => c.codes = {"REL_BBV_BUS", "REL_BV_BUS"}
  BY DEF RelatedByStringCases, Finds, Case, Branch, LimitsHolder, FlowsLimitsHolder, Leg
<1>4. \A c \in all, kind \in KindsUnder(class) :
        c \in FindByIdCases \/ ~(code \in c.codes /\ kind \in c.on)
  BY <1>1, <1>2, <1>3
<1>5. FindByIdCases \subseteq all /\ Answering(all)
  BY FindersAnswer DEF Answering
<1>6. /\ "getRelatedByString" \in DOMAIN OnObject
      /\ OnObject["getRelatedByString"] = <<{}, all>>
  BY ObjectFunctions
<1>7. \A c \in FindByIdCases : code \in c.codes => c.gives = Maybe(KindsFor(gives))
  BY DEF FindByIdCases, Finds, Case
<1>8. GivesOnly(FindByIdCases, {code}, KindsUnder(class), Taken("maybe", gives))
  BY <1>7 DEF GivesOnly, Taken
<1>9. HasCase(FindByIdCases, {code}, KindsUnder(class))
  BY <1>1
<1> HIDE DEF all, class
<1>10. ASSUME NEW how \in {"one", "maybe", "many"}, NEW op \in DOMAIN OnObject,
             op \notin {"steps", "copy", "view"}, OnObject[op] = <<{}, all>>,
             GivesOnly(FindByIdCases, {code}, KindsUnder(class), Taken(how, gives))
      PROVE  Linked(class, op, how, code, gives)
  BY <1>1, <1>4, <1>5, <1>9, <1>10, OnlyLinked
<1>11. Linked(class, "getRelatedByString", "maybe", code, gives)
  BY <1>6, <1>8, <1>10
<1> QED  BY <1>11 DEF class

LEMMA IndexedLinked ==
  ASSUME NEW class, KindsUnder(class) \subseteq Kinds, NEW code, NEW gives \in MadeClasses,
         NEW how \in {"one", "maybe"}, HasCase(RelatedByIndexCases, {code}, KindsUnder(class)),
         GivesOnly(RelatedByIndexCases, {code}, KindsUnder(class), Taken(how, gives))
  PROVE  Linked(class, "getRelatedByIndex", how, code, gives)
BY FindersAnswer, ObjectFunctions, OnlyLinked


----------------------------------------------------------------------------
\* Calls that start adders, and their add()

\* A code that starts an adder is no action's, and one of a part is not one of equipment.
LEMMA StartersApart ==
  /\ Apart(EquipmentAdderCases, ConnectCases) /\ Apart(PartAdderCases, ConnectCases)
  /\ Apart(EquipmentAdderCases, ActionCases) /\ Apart(PartAdderCases, ActionCases)
  /\ Apart(EquipmentAdderCases, RemoveCases) /\ Apart(PartAdderCases, RemoveCases)
  /\ Apart(EquipmentAdderCases, AddCases) /\ Apart(PartAdderCases, AddCases)
  /\ Apart(EquipmentAdderCases, PartAdderCases)
<1>1. \A c \in ConnectCases : c.codes = {"ACT_CONNECT", "ACT_DISCONNECT"}
  <2> SUFFICES ASSUME NEW c \in ConnectCases PROVE c.codes = {"ACT_CONNECT", "ACT_DISCONNECT"}
    OBVIOUS
  <2>1. PICK k \in Connectables : c = Finds({"ACT_CONNECT", "ACT_DISCONNECT"}, {k}, {k})
    BY DEF ConnectCases
  <2> QED  BY <2>1 DEF Finds, Case
<1>2. \A c \in RemoveCases : c.codes = {"ACT_REMOVE"}
  BY DEF RemoveCases, Writes, Case
<1>3. \A c \in AddCases : c.codes = {"ACT_ADD"}
  BY DEF AddCases, Writes, Case
<1>4. /\ Apart(EquipmentAdderCases, ConnectCases) /\ Apart(EquipmentAdderCases, RemoveCases)
      /\ Apart(EquipmentAdderCases, AddCases)
  BY <1>1, <1>2, <1>3 DEF Apart, EquipmentAdderCases, Case
<1>5. /\ Apart(PartAdderCases, ConnectCases) /\ Apart(PartAdderCases, RemoveCases)
      /\ Apart(PartAdderCases, AddCases)
  BY <1>1, <1>2, <1>3 DEF Apart, PartAdderCases, Case
<1>6. Apart(EquipmentAdderCases, ActionCases)
  BY DEF Apart, EquipmentAdderCases, ActionCases, Writes, Case
<1>7. Apart(PartAdderCases, ActionCases)
  BY DEF Apart, PartAdderCases, ActionCases, Writes, Case
<1>8. Apart(EquipmentAdderCases, PartAdderCases)
  BY DEF Apart, EquipmentAdderCases, PartAdderCases, Case
<1> QED  BY <1>4, <1>5, <1>6, <1>7, <1>8

LEMMA StartersAnswer == Answering(EquipmentAdderCases) /\ Answering(PartAdderCases)
<1>1. Answering(EquipmentAdderCases)
  BY SMTT(60) DEF Answering, EquipmentAdderCases, Case
<1>2. Answering(PartAdderCases)
  BY DEF Answering, PartAdderCases, Case
<1> QED  BY <1>1, <1>2

\* On whatever object, a code that starts an adder is asked of the cases that have it.
LEMMA StartedBy ==
  ASSUME NEW cases \in {EquipmentAdderCases, PartAdderCases}, NEW c \in cases,
         NEW code \in c.codes, NEW kind
  PROVE  Answers("invoke", code, kind) = Given(cases, code, kind)
<1> DEFINE all == EquipmentAdderCases \cup PartAdderCases
           first == ConnectCases \cup ActionCases \cup RemoveCases
<1>1. \A d \in all : d \in cases \/ ~(code \in d.codes /\ kind \in d.on)
  BY StartersApart DEF Apart
<1>2. (\A d \in first : code \notin d.codes) /\ (\A d \in AddCases : code \notin d.codes)
  BY StartersApart DEF Apart
<1>3. cases \subseteq all
  OBVIOUS
<1>4. "invoke" \in DOMAIN OnObject /\ OnObject["invoke"] = <<first, all>>
  BY ObjectFunctions
<1>5. "invoke" \in DOMAIN OnAdder /\ OnAdder["invoke"] = <<AddCases, all>>
  BY AdderFunctions
<1> HIDE DEF all, first
<1>6. Answers("invoke", code, kind) = Given(all, code, kind)
  <2>1. CASE kind \in Adders
    BY <1>2, <1>5, <2>1, AnswersAdder
  <2>2. CASE kind \notin Adders
    BY <1>2, <1>4, <2>2, AnswersObject
  <2> QED  BY <2>1, <2>2
<1> QED  BY <1>1, <1>3, <1>6, GivenAlone

LEMMA StartedLinked ==
  ASSUME NEW cases \in {EquipmentAdderCases, PartAdderCases}, NEW class, NEW code,
         NEW gives \in MadeClasses, HasCase(cases, {code}, KindsUnder(class)),
         GivesOnly(cases, {code}, KindsUnder(class), KindsFor(gives))
  PROVE  Linked(class, "invoke", "one", code, gives)
<1>1. ASSUME NEW kind \in KindsUnder(class)
      PROVE  Answers("invoke", code, kind) = Given(cases, code, kind)
  BY StartedBy DEF HasCase
<1>2. Answering(cases)
  BY StartersAnswer
<1>3. Taken("one", gives) = KindsFor(gives)
  BY DEF Taken
<1> QED  BY <1>1, <1>2, <1>3, GivenLinked

LEMMA MadeLinked ==
  ASSUME NEW adder \in DOMAIN Added, NEW class, KindsFor(class) \subseteq Objects,
         Added[adder] \in KindsFor(class), KindsUnder(adder) = {adder}
  PROVE  Linked(adder, "invoke", "one", "ACT_ADD", class)
<1> DEFINE next == EquipmentAdderCases \cup PartAdderCases
<1>1. DOMAIN Added \subseteq Adders
  BY AdderNames DEF Added
<1>2. Case({"ACT_ADD"}, {adder}, {Added[adder]}) \in AddCases
  BY DEF AddCases
<1>3. Given(AddCases, "ACT_ADD", adder) = {Added[adder]}
  BY <1>2 DEF Given, AddCases, Writes, Case
<1>4. "invoke" \in DOMAIN OnAdder /\ OnAdder["invoke"] = <<AddCases, next>>
  BY AdderFunctions
<1>5. \E c \in AddCases : "ACT_ADD" \in c.codes
  BY <1>2 DEF Case
<1> HIDE DEF next
<1>6. Answers("invoke", "ACT_ADD", adder) = {Added[adder]}
  BY <1>1, <1>3, <1>4, <1>5, AnswersAdder
<1> QED  BY <1>6 DEF Linked, Taken

\* A copied object is given to the adder of its kind.
LEMMA StartedCopied ==
  ASSUME NEW cases \in {EquipmentAdderCases, PartAdderCases}, NEW class, NEW code,
         NEW adder \in DOMAIN Added, KindsUnder(class) \subseteq CopyCases[Added[adder]],
         HasCase(cases, {code}, KindsUnder(class)),
         GivesOnly(cases, {code}, KindsUnder(class), {adder})
  PROVE  Copied(class, code, adder)
<1>1. DOMAIN Added \subseteq Adders
  BY AdderNames DEF Added
<1>2. KindsFor(adder) = {adder} /\ KindsFor(adder) \subseteq Objects
  BY <1>1, KindsOfAdders DEF Objects
<1>3. ASSUME NEW kind \in KindsUnder(class)
      PROVE  Answers("invoke", code, kind) = {adder}
  <2>1. PICK c \in cases : code \in c.codes /\ kind \in c.on
    BY DEF HasCase
  <2>2. c.gives = {adder}
    BY <2>1, StartersAnswer DEF GivesOnly, Answering
  <2>3. Given(cases, code, kind) = {adder}
    BY <2>1, <2>2 DEF Given, GivesOnly
  <2> QED  BY <2>1, <2>3, StartedBy
<1> QED  BY <1>2, <1>3 DEF Copied
----------------------------------------------------------------------------
\* An adder that is not a base of adders is for the adder of its own name.
LEMMA KindsOfEachAdder ==
  \A class \in
    {"ActivePowerLimitsAdder", "ApparentPowerLimitsAdder", "AreaAdder", "AreaBoundaryAdder",
     "BatteryAdder", "BoundaryLineAdder", "BranchTrippingAdder", "BusAdder",
     "BusBreakerSwitchAdder", "BusbarSectionAdder", "CurrentLimitsAdder",
     "ExponentialLoadModelAdder", "GenerationAdder", "GeneratorAdder", "GroundAdder",
     "HvdcLineAdder", "InternalConnectionAdder", "LccConverterStationAdder", "LegAdder",
     "LineAdder", "LoadAdder", "MinMaxReactiveLimitsAdder", "NodeBreakerSwitchAdder",
     "OverloadManagementSystemAdder", "PhaseTapChangerAdder", "PhaseTapChangerStepAdder",
     "PhaseTapChangerStepsReplacer", "PointAdder", "RatioTapChangerAdder",
     "RatioTapChangerStepAdder", "RatioTapChangerStepsReplacer", "ReactiveCapabilityCurveAdder",
     "ReactiveCapabilityShapeAdder", "SectionAdder", "ShuntCompensatorAdder",
     "ShuntCompensatorLinearModelAdder", "ShuntCompensatorNonLinearModelAdder",
     "StaticVarCompensatorAdder", "SubstationAdder", "SwitchTrippingAdder", "TemporaryLimitAdder",
     "ThreeWindingsTransformerAdder", "ThreeWindingsTransformerTrippingAdder", "TieLineAdder",
     "TwoWindingsTransformerAdder", "VoltageAngleLimitAdder", "VoltageLevelAdder",
     "VoltageRegulationAdder", "VoltageRegulationBuilder", "VscConverterStationAdder",
     "ZipLoadModelAdder"} :
      KindsUnder(class) = {class} /\ KindsFor(class) = {class}
BY AdderNames, KindsOfAdders DEF MethodBases

----------------------------------------------------------------------------
\* Values.  The accessors of values by the cases that they fall in: an ask is a class and the codes
\* that its wrappers pass to one function.  Each lemma says that all the asks of a set are served.
ActionAsked ==
    {<<"Network", {"ACT_FLATTEN"}>>,
     <<"VoltageLevel.BusBreakerView", {"ACT_REMOVE_ALL_BUSES", "ACT_REMOVE_ALL_SWITCHES"}>>,
     <<"Connectable", {"ACT_UNSET_SOLVED_VALUES"}>>, <<"Terminal", {"ACT_UNSET_SOLVED_VALUES"}>>,
     <<"Bus", {"ACT_UNSET_SOLVED_VALUES"}>>,
     <<"Generator", {"ACT_APPLY_SOLVED_VALUES", "ACT_SET_TARGET_P_TO_P"}>>,
     <<"Battery", {"ACT_APPLY_SOLVED_VALUES", "ACT_SET_TARGET_P_TO_P"}>>,
     <<"Load", {"ACT_APPLY_SOLVED_VALUES", "ACT_SET_TARGET_P_TO_P", "ACT_SET_TARGET_Q_TO_Q"}>>,
     <<"ShuntCompensator", {"ACT_UNSET_SECTION_COUNT", "ACT_UNSET_SOLVED_SECTION_COUNT",
        "ACT_APPLY_SOLVED_VALUES", "ACT_SET_SECTION_COUNT_TO_SOLVED_SECTION_COUNT"}>>,
     <<"TieLine", {"ACT_REMOVE_UPDATING_BOUNDARY_LINES"}>>,
     <<"BoundaryLine", {"ACT_APPLY_SOLVED_VALUES", "ACT_SET_TARGET_P_TO_P",
        "ACT_SET_TARGET_Q_TO_Q", "ACT_SET_TARGET_V_TO_V"}>>,
     <<"TwoWindingsTransformer", {"ACT_APPLY_SOLVED_VALUES",
        "ACT_SET_RATIO_TAP_POSITION_TO_SOLVED_TAP_POSITION",
        "ACT_SET_PHASE_TAP_POSITION_TO_SOLVED_TAP_POSITION"}>>,
     <<"ThreeWindingsTransformer", {"ACT_APPLY_SOLVED_VALUES",
        "ACT_SET_RATIO_TAP_POSITION_TO_SOLVED_TAP_POSITION",
        "ACT_SET_PHASE_TAP_POSITION_TO_SOLVED_TAP_POSITION"}>>,
     <<"VoltageRegulationHolderMethods", {"ACT_SET_TARGET_Q_TO_Q", "ACT_SET_TARGET_V_TO_V"}>>,
     <<"RatioTapChanger", {"ACT_UNSET_TAP_POSITION", "ACT_UNSET_SOLVED_TAP_POSITION",
        "ACT_APPLY_SOLVED_VALUES", "ACT_SET_TAP_POSITION_TO_SOLVED_TAP_POSITION"}>>,
     <<"PhaseTapChanger", {"ACT_UNSET_TAP_POSITION", "ACT_UNSET_SOLVED_TAP_POSITION",
        "ACT_APPLY_SOLVED_VALUES", "ACT_SET_TAP_POSITION_TO_SOLVED_TAP_POSITION"}>>}

LEMMA ActionAskedServed == \A ask \in ActionAsked : Served(ask[1], "invoke", ask[2])
<1>1. \A ask \in ActionAsked : HasCase(ActionCases, ask[2], KindsUnder(ask[1]))
  BY KindsOfBases, KindsOfTypes, KindsOfPartTypes, KindsOfClasses, KindsOfOthers, KindsOfViews DEF
       ActionAsked, HasCase, ActionCases, Writes, Case, Connectable, Injection, TapChanger,
       TwoOrThreeWindingsTransformer, VoltageRegulationHolder
<1> QED  BY <1>1, ActionsDecide, CasesServe

StringListAsked ==
    {<<"Network", {"AREA_TYPE"}>>, <<"Network", {"NETWORK_COUNTRIES"}>>,
     <<"Substation", {"SUBSTATION_GEOGRAPHICAL_TAGS"}>>, <<"Identifiable", {"ALIASES"}>>,
     <<"PropertiesHolder", {"PROPERTY_NAMES"}>>,
     <<"FlowsLimitsHolderMethods", {"ALL_SELECTED_OLG_IDS", "ALL_SELECTED_OLG_IDS_ORDERED"}>>,
     <<"VariantManager", {"VARIANT_IDS"}>>}

LEMMA StringListAskedServed == \A ask \in StringListAsked : Served(ask[1], "getStringList", ask[2])
<1>1. \A ask \in StringListAsked : HasCase(StringListCases, ask[2], KindsUnder(ask[1]))
  BY KindsOfBases, KindsOfTypes, KindsOfPartTypes, KindsOfClasses, KindsOfOthers DEF
       StringListAsked, HasCase, StringListCases, Reads, Case
<1> QED  BY <1>1, SwitchesDecide, CasesServe

Evaluate1Asked ==
    {<<"Network", {"NETWORK_VALIDATION_LEVEL"}>>,
     <<"VoltageLevel.NodeBreakerView", {"VL_NBV_ATTACHED_EQUIPMENT", "FICTITIOUS_P0",
        "FICTITIOUS_Q0"}>>, <<"ShuntCompensator", {"SHUNT_B", "SHUNT_G"}>>,
     <<"BranchMethods", {"OVERLOADED"}>>, <<"ThreeWindingsTransformer", {"OVERLOADED"}>>,
     <<"ReactiveLimits", {"RL_MIN_Q", "RL_MAX_Q"}>>,
     <<"LoadingLimits", {"LL_TEMPORARY_LIMIT_VALUE"}>>}

LEMMA Evaluate1AskedServed == \A ask \in Evaluate1Asked : Served(ask[1], "evaluate1", ask[2])
<1> DEFINE cases == EvaluateCases.evaluate1
<1>1. \A c \in {Reads({"RL_MIN_Q", "RL_MAX_Q"}, ReactiveLimits),
              Reads({"LL_TEMPORARY_LIMIT_VALUE"}, LoadingLimits),
              Reads({"SHUNT_B", "SHUNT_G"}, {"ShuntCompensator"}),
              Reads({"FICTITIOUS_P0", "FICTITIOUS_Q0", "VL_NBV_ATTACHED_EQUIPMENT"},
                    {"VoltageLevel"}),
              Reads({"NETWORK_VALIDATION_LEVEL"}, {"Network"}),
              Reads({"OVERLOADED"}, OverloadChecked)} :
        c \in cases
  BY DEF EvaluateCases
<1> HIDE DEF cases
<1>2. \A ask \in Evaluate1Asked : HasCase(cases, ask[2], KindsUnder(ask[1]))
  BY <1>1, KindsOfBases, KindsOfTypes, KindsOfPartTypes, KindsOfClasses, KindsOfOthers, KindsOfViews
       DEF Evaluate1Asked, HasCase, Reads, Case, Branch, OverloadChecked
<1> QED  BY <1>2, SwitchesDecide, CasesServe DEF cases

GetStringAsked ==
    {<<"Network", {"NETWORK_CASE_DATE"}>>, <<"VoltageLevel", {"VL_TOPOLOGY_TEXT"}>>,
     <<"SwitchTripping", {"TRIPPING_ELEMENT_ID"}>>, <<"BranchTripping", {"TRIPPING_ELEMENT_ID"}>>,
     <<"ThreeWindingsTransformerTripping", {"TRIPPING_ELEMENT_ID"}>>}

LEMMA GetStringAskedServed == \A ask \in GetStringAsked : Served(ask[1], "getString", ask[2])
<1>1. \A ask \in GetStringAsked : HasCase(GetStringCases, ask[2], KindsUnder(ask[1]))
  BY KindsOfBases, KindsOfTypes, KindsOfPartTypes, KindsOfClasses, KindsOfOthers DEF GetStringAsked,
       HasCase, GetStringCases, Reads, Case, Tripping
<1> QED  BY <1>1, StringsDecide, CasesServe

StringsRead ==
    {<<"Network", {"NETWORK_SOURCE_FORMAT"}>>, <<"Identifiable", {"ID", "NAME"}>>,
     <<"OperationalLimitsGroup", {"OLG_ID"}>>, <<"LoadingLimits", {"LL_PERMANENT_LIMIT_NAME"}>>,
     <<"TemporaryLimit", {"TL_NAME"}>>,
     <<"Overload", {"OVERLOAD_PREVIOUS_LIMIT_NAME", "OVERLOAD_OLG_ID"}>>,
     <<"VoltageAngleLimit", {"VAL_ID"}>>, <<"Area", {"AREA_TYPE"}>>,
     <<"Tripping", {"TRIPPING_KEY", "TRIPPING_NAME"}>>,
     <<"OverloadManagementSystem", {"OMS_MONITORED_ELEMENT_ID"}>>,
     <<"VariantManager", {"WORKING_VARIANT_ID"}>>}

LEMMA StringsReadServed == \A ask \in StringsRead : Served(ask[1], "getString", ask[2])
<1>1. \A ask \in StringsRead : HasGetter(Strings, ask[2], KindsUnder(ask[1]))
  BY KindsOfBases, KindsOfTypes, KindsOfPartTypes, KindsOfClasses, KindsOfOthers DEF StringsRead,
       HasGetter, Strings, Row
<1> QED  BY <1>1, StringsDecide, GettersServe

SetStringAsked ==
    {<<"Network", {"NETWORK_CASE_DATE"}>>,
     <<"VoltageLevel.NodeBreakerView", {"VL_NBV_REMOVE_SWITCH"}>>,
     <<"VoltageLevel.BusBreakerView", {"VL_BBV_REMOVE_SWITCH"}>>, <<"Substation", {"COUNTRY"}>>,
     <<"Terminal.BusBreakerView", {"TERMINAL_BUS_BREAKER_CONNECTABLE_BUS_ID"}>>,
     <<"FlowsLimitsHolderMethods", {"REMOVE_OLG", "SELECTED_OLG_ID", "ADD_SELECTED_OLG",
        "DESELECT_OLG"}>>, <<"ThreeWindingsTransformerTripping", {"TRIPPING_ELEMENT_ID"}>>,
     <<"SwitchTripping", {"TRIPPING_ELEMENT_ID"}>>, <<"BranchTripping", {"TRIPPING_ELEMENT_ID"}>>}

LEMMA SetStringAskedServed == \A ask \in SetStringAsked : Served(ask[1], "setString", ask[2])
<1>1. \A ask \in SetStringAsked : HasCase(SetStringCases, ask[2], KindsUnder(ask[1]))
  BY KindsOfBases, KindsOfTypes, KindsOfPartTypes, KindsOfClasses, KindsOfOthers, KindsOfViews DEF
       SetStringAsked, HasCase, SetStringCases, Writes, Case, Tripping
<1> QED  BY <1>1, StringsDecide, CasesServe

IntsRead ==
    {<<"Network", {"NETWORK_FORECAST_DISTANCE"}>>,
     <<"Component", {"COMPONENT_NUM", "COMPONENT_SIZE"}>>,
     <<"ShuntCompensator", {"SHUNT_SECTION_COUNT", "SHUNT_MAX_SECTION_COUNT"}>>,
     <<"ReactiveCapabilityCurve", {"CURVE_POINT_COUNT"}>>,
     <<"RatioTapChanger", {"TC_LOW_TAP_POSITION", "TC_HIGH_TAP_POSITION", "TC_STEP_COUNT",
        "TC_TAP_POSITION"}>>,
     <<"PhaseTapChanger", {"TC_LOW_TAP_POSITION", "TC_HIGH_TAP_POSITION", "TC_STEP_COUNT",
        "TC_TAP_POSITION"}>>, <<"TemporaryLimit", {"TL_ACCEPTABLE_DURATION"}>>,
     <<"InternalConnection", {"IC_NODE1", "IC_NODE2"}>>}

LEMMA IntsReadServed == \A ask \in IntsRead : Served(ask[1], "getInt", ask[2])
<1>1. \A ask \in IntsRead : HasGetter(Ints, ask[2], KindsUnder(ask[1]))
  BY KindsOfBases, KindsOfTypes, KindsOfPartTypes, KindsOfClasses, KindsOfOthers DEF IntsRead,
       HasGetter, Ints, Row, TapChanger
<1> QED  BY <1>1, IntsDecide, GettersServe

OrdinalsRead ==
    {<<"Network", {"NETWORK_VALIDATION_LEVEL"}>>, <<"ContainerMethods", {"CONTAINER_TYPE"}>>,
     <<"Identifiable", {"IDENTIFIABLE_TYPE"}>>, <<"LoadModel", {"LOAD_MODEL_TYPE"}>>,
     <<"ShuntCompensator", {"SHUNT_MODEL_TYPE"}>>,
     <<"HvdcConverterStation", {"CONVERTER_STATION_HVDC_TYPE"}>>, <<"Leg", {"LEG_SIDE"}>>,
     <<"ReactiveLimits", {"RL_KIND"}>>, <<"PhaseTapChanger", {"PTC_REGULATION_MODE"}>>,
     <<"LoadingLimits", {"LL_LIMIT_TYPE"}>>, <<"VoltageAngleLimit", {"LL_LIMIT_TYPE"}>>,
     <<"Tripping", {"TRIPPING_TYPE"}>>}

LEMMA OrdinalsReadServed == \A ask \in OrdinalsRead : Served(ask[1], "getInt", ask[2])
<1>1. \A ask \in OrdinalsRead : HasGetter(Ordinals, ask[2], KindsUnder(ask[1]))
  BY KindsOfBases, KindsOfTypes, KindsOfPartTypes, KindsOfClasses, KindsOfOthers DEF OrdinalsRead,
       HasGetter, Ordinals, Row, LoadingLimits, OperationalLimits
<1> QED  BY <1>1, IntsDecide, GettersServe

IntsWritten ==
    {<<"Network", {"NETWORK_FORECAST_DISTANCE"}>>,
     <<"ShuntCompensator", {"SHUNT_SECTION_COUNT", "SHUNT_SOLVED_SECTION_COUNT"}>>,
     <<"ShuntCompensatorLinearModel", {"SHUNT_MAX_SECTION_COUNT"}>>,
     <<"RatioTapChanger", {"TC_LOW_TAP_POSITION", "TC_TAP_POSITION", "TC_SOLVED_TAP_POSITION"}>>,
     <<"PhaseTapChanger", {"TC_LOW_TAP_POSITION", "TC_TAP_POSITION", "TC_SOLVED_TAP_POSITION"}>>}

LEMMA IntsWrittenServed == \A ask \in IntsWritten : Served(ask[1], "setInt", ask[2])
<1>1. \A ask \in IntsWritten : HasSetter(Ints, ask[2], KindsUnder(ask[1]))
  BY KindsOfBases, KindsOfTypes, KindsOfPartTypes, KindsOfClasses, KindsOfOthers DEF IntsWritten,
       HasSetter, Ints, Row, TapChanger
<1> QED  BY <1>1, IntsDecide, SettersServe

SetIntAsked ==
    {<<"Network", {"NETWORK_MIN_VALIDATION_LEVEL"}>>, <<"HvdcLine", {"HVDC_CONVERTERS_MODE"}>>,
     <<"VoltageRegulation", {"VR_MODE"}>>, <<"PhaseTapChanger", {"PTC_REGULATION_MODE"}>>,
     <<"ThreeWindingsTransformerTripping", {"TRIPPING_SIDE"}>>,
     <<"BranchTripping", {"TRIPPING_SIDE"}>>}

LEMMA SetIntAskedServed == \A ask \in SetIntAsked : Served(ask[1], "setInt", ask[2])
<1>1. \A ask \in SetIntAsked : HasCase(SetIntCases, ask[2], KindsUnder(ask[1]))
  BY KindsOfBases, KindsOfTypes, KindsOfPartTypes, KindsOfClasses, KindsOfOthers DEF SetIntAsked,
       HasCase, SetIntCases, Writes, Case, SidedTripping
<1> QED  BY <1>1, IntsDecide, CasesServe

BoolsRead ==
    {<<"Network", {"NETWORK_DETACHABLE"}>>, <<"Identifiable", {"FICTITIOUS"}>>,
     <<"Connectable", {"EQUIVALENT"}>>, <<"Terminal", {"TERMINAL_CONNECTED"}>>,
     <<"Bus", {"BUS_IN_MAIN_CONNECTED_COMPONENT", "BUS_IN_MAIN_SYNCHRONOUS_COMPONENT"}>>,
     <<"Switch", {"SW_OPEN", "SW_RETAINED"}>>, <<"Generator", {"GEN_CONDENSER"}>>,
     <<"BoundaryLine", {"BL_PAIRED"}>>, <<"Generation", {"GENERATION_VOLTAGE_REGULATION_ON"}>>,
     <<"VoltageRegulationHolderMethods", {"HAS_REGULATING_TERMINAL"}>>,
     <<"VoltageRegulation", {"VR_REGULATING", "VR_WITH_TERMINAL"}>>,
     <<"Plane", {"PLANE_LESS_OR_EQUAL", "PLANE_GREATER_OR_EQUAL"}>>,
     <<"RatioTapChanger", {"TC_LOAD_TAP_CHANGING_CAPABILITIES"}>>,
     <<"PhaseTapChanger", {"TC_LOAD_TAP_CHANGING_CAPABILITIES"}>>,
     <<"OperationalLimitsGroup", {"OLG_EMPTY"}>>, <<"TemporaryLimit", {"TL_FICTITIOUS"}>>,
     <<"AreaBoundary", {"AREA_BOUNDARY_AC"}>>, <<"Tripping", {"TRIPPING_OPEN_ACTION"}>>,
     <<"OverloadManagementSystem", {"AUTOMATION_SYSTEM_ENABLED"}>>,
     <<"VariantManager", {"VARIANT_MULTI_THREAD_ACCESS"}>>}

LEMMA BoolsReadServed == \A ask \in BoolsRead : Served(ask[1], "getBool", ask[2])
<1>1. \A ask \in BoolsRead : HasGetter(Bools, ask[2], KindsUnder(ask[1]))
  BY KindsOfBases, KindsOfTypes, KindsOfPartTypes, KindsOfClasses, KindsOfOthers DEF BoolsRead,
       HasGetter, Bools, Row, AutomationSystem, TapChanger
<1> QED  BY <1>1, BoolsDecide, GettersServe

IntListAsked ==
    {<<"VoltageLevel.NodeBreakerView", {"VL_NBV_NODES"}>>,
     <<"VoltageRegulationHolderMethods", {"REGULATING_MODES", "WITH_MODES"}>>,
     <<"NodeList", {"ELEMENTS"}>>}

LEMMA IntListAskedServed == \A ask \in IntListAsked : Served(ask[1], "getIntList", ask[2])
<1>1. \A ask \in IntListAsked : HasCase(IntListCases, ask[2], KindsUnder(ask[1]))
  BY KindsOfBases, KindsOfTypes, KindsOfPartTypes, KindsOfClasses, KindsOfOthers, KindsOfViews DEF
       IntListAsked, HasCase, IntListCases, Reads, Case
<1> QED  BY <1>1, SwitchesDecide, CasesServe

GetIntAsked ==
    {<<"VoltageLevel.NodeBreakerView", {"VL_NBV_MAXIMUM_NODE_INDEX"}>>,
     <<"Terminal", {"TERMINAL_SIDE"}>>, <<"Terminal.NodeBreakerView", {"TERMINAL_NODE"}>>,
     <<"Switch", {"SW_NODE1", "SW_NODE2"}>>, <<"BranchMethods", {"OVERLOAD_DURATION"}>>,
     <<"ThreeWindingsTransformer", {"OVERLOAD_DURATION"}>>, <<"VoltageRegulation", {"VR_MODE"}>>,
     <<"BranchTripping", {"TRIPPING_SIDE"}>>,
     <<"ThreeWindingsTransformerTripping", {"TRIPPING_SIDE"}>>}

LEMMA GetIntAskedServed == \A ask \in GetIntAsked : Served(ask[1], "getInt", ask[2])
<1>1. \A ask \in GetIntAsked : HasCase(GetIntCases, ask[2], KindsUnder(ask[1]))
  BY KindsOfBases, KindsOfTypes, KindsOfPartTypes, KindsOfClasses, KindsOfOthers, KindsOfViews DEF
       GetIntAsked, HasCase, GetIntCases, Reads, Case, Branch, OverloadChecked, SidedTripping
<1> QED  BY <1>1, IntsDecide, CasesServe

EnumsWritten ==
    {<<"VoltageLevel", {"VL_TOPOLOGY_KIND"}>>, <<"Generator", {"GEN_ENERGY_SOURCE"}>>,
     <<"Load", {"LOAD_TYPE"}>>}

LEMMA EnumsWrittenServed == \A ask \in EnumsWritten : Served(ask[1], "setInt", ask[2])
<1>1. \A ask \in EnumsWritten : HasSetter(Enums, ask[2], KindsUnder(ask[1]))
  BY KindsOfBases, KindsOfTypes, KindsOfPartTypes, KindsOfClasses, KindsOfOthers DEF EnumsWritten,
       HasSetter, Enums, Row
<1> QED  BY <1>1, IntsDecide, SettersServe

SetRelatedAsked ==
    {<<"VoltageLevel", {"ADD_AREA", "REMOVE_AREA"}>>,
     <<"PhaseTapChanger", {"REL_REGULATION_TERMINAL"}>>,
     <<"Area", {"ADD_VOLTAGE_LEVEL", "REMOVE_VOLTAGE_LEVEL", "REMOVE_AREA_BOUNDARY"}>>,
     <<"OverloadManagementSystem", {"ADD_TRIPPING"}>>}

LEMMA SetRelatedAskedServed == \A ask \in SetRelatedAsked : Served(ask[1], "setRelated", ask[2])
<1>1. \A ask \in SetRelatedAsked : HasCase(SetRelatedCases, ask[2], KindsUnder(ask[1]))
  BY KindsOfBases, KindsOfTypes, KindsOfPartTypes, KindsOfClasses, KindsOfOthers DEF
       SetRelatedAsked, HasCase, SetRelatedCases, Writes, Case, AutomationSystem
<1> QED  BY <1>1, SwitchesDecide, CasesServe

RemoveAsked ==
    {<<"VoltageLevel", {"ACT_REMOVE"}>>, <<"Substation", {"ACT_REMOVE"}>>,
     <<"Connectable", {"ACT_REMOVE"}>>, <<"HvdcLine", {"ACT_REMOVE"}>>,
     <<"TieLine", {"ACT_REMOVE"}>>, <<"RatioTapChanger", {"ACT_REMOVE"}>>,
     <<"PhaseTapChanger", {"ACT_REMOVE"}>>, <<"LoadingLimits", {"ACT_REMOVE"}>>,
     <<"VoltageAngleLimit", {"ACT_REMOVE"}>>, <<"Area", {"ACT_REMOVE"}>>,
     <<"OverloadManagementSystem", {"ACT_REMOVE"}>>}

LEMMA RemoveAskedServed == \A ask \in RemoveAsked : Served(ask[1], "invoke", ask[2])
<1>1. \A ask \in RemoveAsked : HasCase(RemoveCases, ask[2], KindsUnder(ask[1]))
  BY KindsOfBases, KindsOfTypes, KindsOfPartTypes, KindsOfClasses, KindsOfOthers DEF RemoveAsked,
       HasCase, RemoveCases, Writes, Case, AutomationSystem, Connectable, Injection, LoadingLimits,
       OperationalLimits, TapChanger
<1> QED  BY <1>1, ActionsDecide, CasesServe

EquipmentRead ==
    {<<"VoltageLevel", {"VL_NOMINAL_V", "VL_LOW_VOLTAGE_LIMIT", "VL_HIGH_VOLTAGE_LIMIT"}>>,
     <<"Terminal", {"TERMINAL_P", "TERMINAL_Q"}>>, <<"Terminal", {"TERMINAL_I"}>>,
     <<"Bus", {"BUS_V", "BUS_ANGLE", "FICTITIOUS_P0", "FICTITIOUS_Q0"}>>,
     <<"Bus", {"BUS_P", "BUS_Q"}>>,
     <<"Generator", {"GEN_TARGET_P", "GEN_MIN_P", "GEN_MAX_P", "GEN_RATED_S"}>>,
     <<"Load", {"LOAD_P0", "LOAD_Q0"}>>,
     <<"ZipLoadModel", {"ZIP_C0P", "ZIP_C1P", "ZIP_C2P", "ZIP_C0Q", "ZIP_C1Q", "ZIP_C2Q"}>>,
     <<"ExponentialLoadModel", {"EXP_NP", "EXP_NQ"}>>,
     <<"ShuntCompensator", {"SHUNT_B", "SHUNT_G"}>>,
     <<"ShuntCompensatorLinearModel", {"SHUNT_B_PER_SECTION", "SHUNT_G_PER_SECTION"}>>,
     <<"Section", {"SHUNT_SECTION_B", "SHUNT_SECTION_G"}>>,
     <<"StaticVarCompensator", {"SVC_B_MIN", "SVC_B_MAX"}>>,
     <<"HvdcConverterStation", {"CONVERTER_STATION_LOSS_FACTOR"}>>,
     <<"LccConverterStation", {"LCC_POWER_FACTOR"}>>,
     <<"HvdcLine", {"HVDC_R", "HVDC_NOMINAL_V", "HVDC_ACTIVE_POWER_SETPOINT", "HVDC_MAX_P"}>>,
     <<"Line", {"LINE_R", "LINE_X", "LINE_G1", "LINE_B1", "LINE_G2", "LINE_B2"}>>,
     <<"TieLine", {"LINE_R", "LINE_X", "LINE_G1", "LINE_B1", "LINE_G2", "LINE_B2"}>>,
     <<"BoundaryLine", {"BL_P0", "BL_Q0", "BL_R", "BL_X", "BL_G", "BL_B"}>>,
     <<"Generation", {"GENERATION_TARGET_P", "GENERATION_MIN_P", "GENERATION_MAX_P",
        "GENERATION_TARGET_Q", "GENERATION_TARGET_V"}>>,
     <<"Boundary", {"BOUNDARY_V", "BOUNDARY_ANGLE", "BOUNDARY_P", "BOUNDARY_Q", "BOUNDARY_I"}>>,
     <<"TwoWindingsTransformer", {"TWO_WT_R", "TWO_WT_X", "TWO_WT_G", "TWO_WT_B",
        "TWO_WT_RATED_U1", "TWO_WT_RATED_U2", "TWO_WT_RATED_S"}>>,
     <<"Leg", {"LEG_R", "LEG_X", "LEG_G", "LEG_B", "LEG_RATED_U", "LEG_RATED_S"}>>,
     <<"VoltageRegulationHolderMethods", {"LOCAL_TARGET_V", "LOCAL_TARGET_Q"}>>,
     <<"VoltageRegulationHolderMethods", {"REGULATING_TARGET_V", "REGULATING_TARGET_Q"}>>,
     <<"VoltageRegulation", {"VR_TARGET_VALUE", "VR_TARGET_DEADBAND", "VR_SLOPE"}>>,
     <<"PhaseTapChanger", {"PTC_REGULATION_VALUE", "PTC_TARGET_DEADBAND"}>>,
     <<"RatioTapChangerStep", {"STEP_RHO", "STEP_R", "STEP_X", "STEP_G", "STEP_B"}>>,
     <<"PhaseTapChangerStep", {"STEP_RHO", "STEP_R", "STEP_X", "STEP_G", "STEP_B"}>>,
     <<"PhaseTapChangerStep", {"PTC_STEP_ALPHA"}>>}

LEMMA EquipmentReadServed == \A ask \in EquipmentRead : Served(ask[1], "getDouble", ask[2])
<1>1. \A ask \in EquipmentRead : HasGetter(EquipmentDoubles, ask[2], KindsUnder(ask[1]))
  BY KindsOfBases, KindsOfTypes, KindsOfPartTypes, KindsOfClasses, KindsOfOthers DEF EquipmentRead,
       HasGetter, EquipmentDoubles, Row, LineCharacteristics, TapChangerStep
<1> QED  BY <1>1, DoublesDecide, GettersServe

EquipmentWritten ==
    {<<"VoltageLevel", {"VL_NOMINAL_V", "VL_LOW_VOLTAGE_LIMIT", "VL_HIGH_VOLTAGE_LIMIT"}>>,
     <<"Terminal", {"TERMINAL_P", "TERMINAL_Q"}>>,
     <<"Bus", {"BUS_V", "BUS_ANGLE", "FICTITIOUS_P0", "FICTITIOUS_Q0"}>>,
     <<"Generator", {"GEN_TARGET_P", "GEN_MIN_P", "GEN_MAX_P", "GEN_RATED_S"}>>,
     <<"Load", {"LOAD_P0", "LOAD_Q0"}>>,
     <<"ZipLoadModel", {"ZIP_C0P", "ZIP_C1P", "ZIP_C2P", "ZIP_C0Q", "ZIP_C1Q", "ZIP_C2Q"}>>,
     <<"ExponentialLoadModel", {"EXP_NP", "EXP_NQ"}>>,
     <<"ShuntCompensatorLinearModel", {"SHUNT_B_PER_SECTION", "SHUNT_G_PER_SECTION"}>>,
     <<"Section", {"SHUNT_SECTION_B", "SHUNT_SECTION_G"}>>,
     <<"StaticVarCompensator", {"SVC_B_MIN", "SVC_B_MAX"}>>,
     <<"HvdcConverterStation", {"CONVERTER_STATION_LOSS_FACTOR"}>>,
     <<"LccConverterStation", {"LCC_POWER_FACTOR"}>>,
     <<"HvdcLine", {"HVDC_R", "HVDC_NOMINAL_V", "HVDC_ACTIVE_POWER_SETPOINT", "HVDC_MAX_P"}>>,
     <<"Line", {"LINE_R", "LINE_X", "LINE_G1", "LINE_B1", "LINE_G2", "LINE_B2"}>>,
     <<"BoundaryLine", {"BL_P0", "BL_Q0", "BL_R", "BL_X", "BL_G", "BL_B"}>>,
     <<"Generation", {"GENERATION_TARGET_P", "GENERATION_MIN_P", "GENERATION_MAX_P",
        "GENERATION_TARGET_Q", "GENERATION_TARGET_V"}>>,
     <<"TwoWindingsTransformer", {"TWO_WT_R", "TWO_WT_X", "TWO_WT_G", "TWO_WT_B",
        "TWO_WT_RATED_U1", "TWO_WT_RATED_U2", "TWO_WT_RATED_S"}>>,
     <<"Leg", {"LEG_R", "LEG_X", "LEG_G", "LEG_B", "LEG_RATED_U", "LEG_RATED_S"}>>,
     <<"VoltageRegulationHolderMethods", {"LOCAL_TARGET_V", "LOCAL_TARGET_Q"}>>,
     <<"VoltageRegulation", {"VR_TARGET_VALUE", "VR_TARGET_DEADBAND", "VR_SLOPE"}>>,
     <<"PhaseTapChanger", {"PTC_REGULATION_VALUE", "PTC_TARGET_DEADBAND"}>>,
     <<"RatioTapChangerStep", {"STEP_RHO", "STEP_R", "STEP_X", "STEP_G", "STEP_B"}>>,
     <<"PhaseTapChangerStep", {"STEP_RHO", "STEP_R", "STEP_X", "STEP_G", "STEP_B"}>>,
     <<"PhaseTapChangerStep", {"PTC_STEP_ALPHA"}>>}

LEMMA EquipmentWrittenServed == \A ask \in EquipmentWritten : Served(ask[1], "setDouble", ask[2])
<1>1. \A ask \in EquipmentWritten : HasSetter(EquipmentDoubles, ask[2], KindsUnder(ask[1]))
  BY KindsOfBases, KindsOfTypes, KindsOfPartTypes, KindsOfClasses, KindsOfOthers DEF
       EquipmentWritten, HasSetter, EquipmentDoubles, Row, TapChangerStep
<1> QED  BY <1>1, DoublesDecide, SettersServe

EnumsRead ==
    {<<"VoltageLevel", {"VL_TOPOLOGY_KIND"}>>, <<"Switch", {"SW_KIND"}>>,
     <<"Generator", {"GEN_ENERGY_SOURCE"}>>, <<"Load", {"LOAD_TYPE"}>>,
     <<"HvdcLine", {"HVDC_CONVERTERS_MODE"}>>, <<"LoadingLimits", {"LL_DETECTION_KIND"}>>,
     <<"OverloadManagementSystem", {"OMS_MONITORED_SIDE"}>>}

LEMMA EnumsReadServed == \A ask \in EnumsRead : Served(ask[1], "getInt", ask[2])
<1>1. \A ask \in EnumsRead : HasGetter(Enums, ask[2], KindsUnder(ask[1]))
  BY KindsOfBases, KindsOfTypes, KindsOfPartTypes, KindsOfClasses, KindsOfOthers DEF EnumsRead,
       HasGetter, Enums, Row
<1> QED  BY <1>1, IntsDecide, GettersServe

OptStringAsked ==
    {<<"Substation", {"COUNTRY"}>>, <<"Substation", {"SUBSTATION_TSO"}>>,
     <<"Identifiable", {"NAME"}>>, <<"TieLine", {"BL_PAIRING_KEY"}>>,
     <<"BoundaryLine", {"BL_PAIRING_KEY"}>>, <<"FlowsLimitsHolderMethods", {"SELECTED_OLG_ID"}>>}

LEMMA OptStringAskedServed == \A ask \in OptStringAsked : Served(ask[1], "getOptString", ask[2])
<1>1. \A ask \in OptStringAsked : HasCase(OptStringCases, ask[2], KindsUnder(ask[1]))
  BY KindsOfBases, KindsOfTypes, KindsOfPartTypes, KindsOfClasses, KindsOfOthers DEF OptStringAsked,
       HasCase, OptStringCases, Reads, Case, PairingKeyHolder
<1> QED  BY <1>1, SwitchesDecide, CasesServe

StringsWritten ==
    {<<"Substation", {"SUBSTATION_TSO", "ADD_GEOGRAPHICAL_TAG"}>>,
     <<"Identifiable", {"ID", "NAME"}>>, <<"BoundaryLine", {"BL_PAIRING_KEY"}>>,
     <<"LoadingLimits", {"LL_PERMANENT_LIMIT_NAME"}>>, <<"Tripping", {"TRIPPING_NAME"}>>,
     <<"VariantManager", {"REMOVE_VARIANT"}>>, <<"VariantManager", {"WORKING_VARIANT_ID"}>>}

LEMMA StringsWrittenServed == \A ask \in StringsWritten : Served(ask[1], "setString", ask[2])
<1>1. \A ask \in StringsWritten : HasSetter(Strings, ask[2], KindsUnder(ask[1]))
  BY KindsOfBases, KindsOfTypes, KindsOfPartTypes, KindsOfClasses, KindsOfOthers DEF StringsWritten,
       HasSetter, Strings, Row
<1> QED  BY <1>1, StringsDecide, SettersServe

BoolsWritten ==
    {<<"Identifiable", {"FICTITIOUS"}>>, <<"Connectable", {"EQUIVALENT"}>>,
     <<"Switch", {"SW_OPEN", "SW_RETAINED"}>>,
     <<"Generation", {"GENERATION_VOLTAGE_REGULATION_ON"}>>,
     <<"VoltageRegulation", {"VR_REGULATING"}>>,
     <<"RatioTapChanger", {"TC_LOAD_TAP_CHANGING_CAPABILITIES"}>>,
     <<"PhaseTapChanger", {"TC_LOAD_TAP_CHANGING_CAPABILITIES"}>>,
     <<"PhaseTapChanger", {"REGULATING"}>>, <<"Tripping", {"TRIPPING_OPEN_ACTION"}>>,
     <<"OverloadManagementSystem", {"AUTOMATION_SYSTEM_ENABLED"}>>,
     <<"VariantManager", {"VARIANT_MULTI_THREAD_ACCESS"}>>}

LEMMA BoolsWrittenServed == \A ask \in BoolsWritten : Served(ask[1], "setBool", ask[2])
<1>1. \A ask \in BoolsWritten : HasSetter(Bools, ask[2], KindsUnder(ask[1]))
  BY KindsOfBases, KindsOfTypes, KindsOfPartTypes, KindsOfClasses, KindsOfOthers DEF BoolsWritten,
       HasSetter, Bools, Row, AutomationSystem, TapChanger
<1> QED  BY <1>1, BoolsDecide, SettersServe

GetKeyedStringAsked ==
    {<<"Identifiable", {"ALIAS_TYPE", "ALIAS_FROM_TYPE"}>>, <<"PropertiesHolder", {"PROPERTY"}>>}

LEMMA GetKeyedStringAskedServed == \A ask \in GetKeyedStringAsked :
    Served(ask[1], "getKeyedString", ask[2])
<1>1. \A ask \in GetKeyedStringAsked : HasCase(GetKeyedStringCases, ask[2], KindsUnder(ask[1]))
  BY KindsOfBases, KindsOfTypes, KindsOfPartTypes, KindsOfClasses, KindsOfOthers DEF
       GetKeyedStringAsked, HasCase, GetKeyedStringCases, Reads, Case
<1> QED  BY <1>1, SwitchesDecide, CasesServe

SetKeyedStringAsked ==
    {<<"Identifiable", {"ALIAS_TYPE", "UNIQUE_ALIAS_TYPE"}>>, <<"PropertiesHolder", {"PROPERTY"}>>}

LEMMA SetKeyedStringAskedServed == \A ask \in SetKeyedStringAsked :
    Served(ask[1], "setKeyedString", ask[2])
<1>1. \A ask \in SetKeyedStringAsked : HasCase(SetKeyedStringCases, ask[2], KindsUnder(ask[1]))
  BY KindsOfBases, KindsOfTypes, KindsOfPartTypes, KindsOfClasses, KindsOfOthers DEF
       SetKeyedStringAsked, HasCase, SetKeyedStringCases, Writes, Case
<1> QED  BY <1>1, SwitchesDecide, CasesServe

ConnectAsked ==
    {<<"Connectable", {"ACT_CONNECT", "ACT_DISCONNECT"}>>,
     <<"Terminal", {"ACT_CONNECT", "ACT_DISCONNECT"}>>,
     <<"HvdcLine", {"ACT_CONNECT", "ACT_DISCONNECT"}>>,
     <<"TieLine", {"ACT_CONNECT", "ACT_DISCONNECT"}>>}

LEMMA ConnectAskedServed == \A ask \in ConnectAsked : Served(ask[1], "invoke", ask[2])
<1>1. \A kind \in Connectables :
        Finds({"ACT_CONNECT", "ACT_DISCONNECT"}, {kind}, {kind}) \in ConnectCases
  BY DEF ConnectCases
<1>2. \A ask \in ConnectAsked :
        KindsUnder(ask[1]) \subseteq Connectables /\ ask[2] = {"ACT_CONNECT", "ACT_DISCONNECT"}
  BY KindsOfTypes, KindsOfClasses, KindsOfOthers DEF ConnectAsked, Connectables
<1>3. \A ask \in ConnectAsked : HasCase(ConnectCases, ask[2], KindsUnder(ask[1]))
  BY <1>1, <1>2 DEF HasCase, Finds, Case
<1> QED  BY <1>3, ActionsDecide, CasesServe

LimitsRead ==
    {<<"Battery", {"BAT_TARGET_P", "BAT_MIN_P", "BAT_MAX_P"}>>,
     <<"BusbarSection", {"BBS_V", "BBS_ANGLE"}>>,
     <<"ThreeWindingsTransformer", {"THREE_WT_RATED_U0"}>>,
     <<"MinMaxReactiveLimits", {"RL_MIN_Q", "RL_MAX_Q"}>>,
     <<"Point", {"POINT_P", "POINT_MIN_Q", "POINT_MAX_Q"}>>,
     <<"ReactiveCapabilityCurve", {"CURVE_MIN_P", "CURVE_MAX_P"}>>,
     <<"Plane", {"PLANE_ALPHA", "PLANE_BETA", "PLANE_GAMMA", "PLANE_DELTA"}>>,
     <<"LoadingLimits", {"LL_PERMANENT_LIMIT"}>>, <<"TemporaryLimit", {"TL_VALUE"}>>,
     <<"Overload", {"OVERLOAD_PREVIOUS_LIMIT", "OVERLOAD_LIMIT_SCALING"}>>,
     <<"VoltageAngleLimit", {"VAL_LOW_LIMIT", "VAL_HIGH_LIMIT"}>>,
     <<"Area", {"AREA_INTERCHANGE_TARGET"}>>,
     <<"Area", {"AREA_AC_INTERCHANGE", "AREA_DC_INTERCHANGE", "AREA_INTERCHANGE"}>>,
     <<"AreaBoundary", {"AREA_BOUNDARY_P", "AREA_BOUNDARY_Q"}>>,
     <<"Tripping", {"TRIPPING_CURRENT_LIMIT"}>>}

LEMMA LimitsReadServed == \A ask \in LimitsRead : Served(ask[1], "getDouble", ask[2])
<1>1. \A ask \in LimitsRead : HasGetter(LimitDoubles, ask[2], KindsUnder(ask[1]))
  BY KindsOfBases, KindsOfTypes, KindsOfPartTypes, KindsOfClasses, KindsOfOthers DEF LimitsRead,
       HasGetter, LimitDoubles, Row
<1> QED  BY <1>1, DoublesDecide, GettersServe

LimitsWritten ==
    {<<"Battery", {"BAT_TARGET_P", "BAT_MIN_P", "BAT_MAX_P"}>>,
     <<"ThreeWindingsTransformer", {"THREE_WT_RATED_U0"}>>,
     <<"Plane", {"PLANE_LESS_OR_EQUAL", "PLANE_GREATER_OR_EQUAL"}>>,
     <<"LoadingLimits", {"LL_PERMANENT_LIMIT"}>>, <<"Area", {"AREA_INTERCHANGE_TARGET"}>>,
     <<"Tripping", {"TRIPPING_CURRENT_LIMIT"}>>}

LEMMA LimitsWrittenServed == \A ask \in LimitsWritten : Served(ask[1], "setDouble", ask[2])
<1>1. \A ask \in LimitsWritten : HasSetter(LimitDoubles, ask[2], KindsUnder(ask[1]))
  BY KindsOfBases, KindsOfTypes, KindsOfPartTypes, KindsOfClasses, KindsOfOthers DEF LimitsWritten,
       HasSetter, LimitDoubles, Row
<1> QED  BY <1>1, DoublesDecide, SettersServe

OptIntAsked ==
    {<<"ShuntCompensator", {"SHUNT_SECTION_COUNT", "SHUNT_SOLVED_SECTION_COUNT"}>>,
     <<"RatioTapChanger", {"TC_TAP_POSITION", "TC_SOLVED_TAP_POSITION", "TC_NEUTRAL_POSITION"}>>,
     <<"PhaseTapChanger", {"TC_TAP_POSITION", "TC_SOLVED_TAP_POSITION", "TC_NEUTRAL_POSITION"}>>}

LEMMA OptIntAskedServed == \A ask \in OptIntAsked : Served(ask[1], "getOptInt", ask[2])
<1>1. \A ask \in OptIntAsked : HasCase(OptIntCases, ask[2], KindsUnder(ask[1]))
  BY KindsOfBases, KindsOfTypes, KindsOfPartTypes, KindsOfClasses, KindsOfOthers DEF OptIntAsked,
       HasCase, OptIntCases, Reads, Case, TapChanger
<1> QED  BY <1>1, SwitchesDecide, CasesServe

GetBoolAsked ==
    {<<"BranchMethods", {"OVERLOADED"}>>, <<"ThreeWindingsTransformer", {"OVERLOADED"}>>,
     <<"VoltageRegulationHolderMethods", {"REGULATING"}>>, <<"RatioTapChanger", {"REGULATING"}>>,
     <<"PhaseTapChanger", {"REGULATING"}>>}

LEMMA GetBoolAskedServed == \A ask \in GetBoolAsked : Served(ask[1], "getBool", ask[2])
<1>1. \A ask \in GetBoolAsked : HasCase(GetBoolCases, ask[2], KindsUnder(ask[1]))
  BY KindsOfBases, KindsOfTypes, KindsOfPartTypes, KindsOfClasses, KindsOfOthers DEF GetBoolAsked,
       HasCase, GetBoolCases, Reads, Case, Branch, OverloadChecked, TapChanger,
             VoltageRegulationHolder
<1> QED  BY <1>1, BoolsDecide, CasesServe

Evaluate2Asked ==
    {<<"BranchMethods", {"CHECK_PERMANENT_LIMIT"}>>,
     <<"ThreeWindingsTransformer", {"CHECK_PERMANENT_LIMIT"}>>,
     <<"ReactiveCapabilityCurve", {"RL_MIN_Q", "RL_MAX_Q"}>>,
     <<"ReactiveCapabilityShape", {"RL_MIN_Q", "RL_MAX_Q"}>>}

LEMMA Evaluate2AskedServed == \A ask \in Evaluate2Asked : Served(ask[1], "evaluate2", ask[2])
<1> DEFINE cases == EvaluateCases.evaluate2
<1>1. \A c \in {Reads({"RL_MIN_Q", "RL_MAX_Q"}, {"ReactiveCapabilityCurve",
        "ReactiveCapabilityShape"}),
              Reads({"CHECK_PERMANENT_LIMIT"}, OverloadChecked)} :
        c \in cases
  BY DEF EvaluateCases
<1> HIDE DEF cases
<1>2. \A ask \in Evaluate2Asked : HasCase(cases, ask[2], KindsUnder(ask[1]))
  BY <1>1, KindsOfBases, KindsOfTypes, KindsOfPartTypes, KindsOfClasses, KindsOfOthers DEF
       Evaluate2Asked, HasCase, Reads, Case, Branch, OverloadChecked
<1> QED  BY <1>2, SwitchesDecide, CasesServe DEF cases

Evaluate3Asked ==
    {<<"BranchMethods", {"CHECK_PERMANENT_LIMIT"}>>,
     <<"ThreeWindingsTransformer", {"CHECK_PERMANENT_LIMIT"}>>,
     <<"ReactiveCapabilityShape", {"SHAPE_IS_INSIDE"}>>}

LEMMA Evaluate3AskedServed == \A ask \in Evaluate3Asked : Served(ask[1], "evaluate3", ask[2])
<1> DEFINE cases == EvaluateCases.evaluate3
<1>1. \A c \in {Reads({"CHECK_PERMANENT_LIMIT"}, OverloadChecked),
              Reads({"SHAPE_IS_INSIDE"}, {"ReactiveCapabilityShape"})} :
        c \in cases
  BY DEF EvaluateCases
<1> HIDE DEF cases
<1>2. \A ask \in Evaluate3Asked : HasCase(cases, ask[2], KindsUnder(ask[1]))
  BY <1>1, KindsOfBases, KindsOfTypes, KindsOfPartTypes, KindsOfClasses, KindsOfOthers DEF
       Evaluate3Asked, HasCase, Reads, Case, Branch, OverloadChecked
<1> QED  BY <1>2, SwitchesDecide, CasesServe DEF cases

ClearAsked ==
    {<<"VoltageRegulationHolderMethods", {"VOLTAGE_REGULATION"}>>,
     <<"FlowsLimitsHolderMethods", {"REL_SELECTED_OLG"}>>,
     <<"OperationalLimitsGroup", {"CURRENT_LIMITS", "ACTIVE_POWER_LIMITS",
        "APPARENT_POWER_LIMITS"}>>}

LEMMA ClearAskedServed == \A ask \in ClearAsked : Served(ask[1], "clear", ask[2])
<1>1. \A ask \in ClearAsked : HasCase(ClearCases, ask[2], KindsUnder(ask[1]))
  BY KindsOfBases, KindsOfTypes, KindsOfPartTypes, KindsOfClasses, KindsOfOthers DEF ClearAsked,
       HasCase, ClearCases, Writes, Case
<1> QED  BY <1>1, SwitchesDecide, CasesServe

StringsGiven ==
    {<<"IdentifiableAdder", {"ID", "NAME"}>>,
     <<"BranchAdder", {"BRANCH_VOLTAGE_LEVEL1", "BRANCH_VOLTAGE_LEVEL2", "BRANCH_BUS1",
        "BRANCH_BUS2", "BRANCH_CONNECTABLE_BUS1", "BRANCH_CONNECTABLE_BUS2"}>>,
     <<"SubstationAdder", {"SUBSTATION_TSO"}>>, <<"BusBreakerSwitchAdder", {"SW_BUS1", "SW_BUS2"}>>,
     <<"AreaAdder", {"AREA_TYPE"}>>, <<"BoundaryLineAdder", {"BL_PAIRING_KEY"}>>,
     <<"HvdcLineAdder", {"HVDC_CONVERTER_STATION_ID1", "HVDC_CONVERTER_STATION_ID2"}>>,
     <<"TieLineAdder", {"BOUNDARY_LINE1_ID", "BOUNDARY_LINE2_ID"}>>,
     <<"CurrentLimitsAdder", {"LL_PERMANENT_LIMIT_NAME"}>>,
     <<"ActivePowerLimitsAdder", {"LL_PERMANENT_LIMIT_NAME"}>>,
     <<"ApparentPowerLimitsAdder", {"LL_PERMANENT_LIMIT_NAME"}>>,
     <<"TemporaryLimitAdder", {"TL_NAME"}>>, <<"VoltageAngleLimitAdder", {"VAL_ID"}>>,
     <<"OverloadManagementSystemAdder", {"OMS_MONITORED_ELEMENT_ID"}>>,
     <<"SwitchTrippingAdder", {"TRIPPING_KEY", "TRIPPING_NAME"}>>,
     <<"BranchTrippingAdder", {"TRIPPING_KEY", "TRIPPING_NAME"}>>,
     <<"ThreeWindingsTransformerTrippingAdder", {"TRIPPING_KEY", "TRIPPING_NAME"}>>}

LEMMA StringsGivenServed == \A ask \in StringsGiven : Served(ask[1], "setString", ask[2])
<1>1. \A ask \in StringsGiven : HasAdder(Strings, ask[2], KindsUnder(ask[1]))
  BY KindsOfBases, KindsOfEachAdder DEF StringsGiven, HasAdder, Strings, Row, LoadingLimitsAdder,
       TrippingAdder
<1> QED  BY <1>1, StringsDecide, AddersServe

SetBoolFieldsAsked ==
    {<<"IdentifiableAdder", {"ENSURE_ID_UNICITY"}>>, <<"NodeBreakerSwitchAdder", {"SW_OPEN"}>>,
     <<"BusBreakerSwitchAdder", {"SW_OPEN"}>>, <<"TemporaryLimitAdder", {"ENSURE_ID_UNICITY"}>>}

LEMMA SetBoolFieldsAskedServed == \A ask \in SetBoolFieldsAsked : Served(ask[1], "setBool", ask[2])
<1>1. \A ask \in SetBoolFieldsAsked : HasCase(SetBoolFields, ask[2], KindsUnder(ask[1]))
  BY KindsOfBases, KindsOfEachAdder DEF SetBoolFieldsAsked, HasCase, SetBoolFields, Writes, Case,
       BranchAdder, IdentifiableAdder, InjectionAdder, SwitchAdder
<1> QED  BY <1>1, BoolsDecide, CasesServe

BoolsGiven ==
    {<<"IdentifiableAdder", {"FICTITIOUS"}>>, <<"ConnectableAdder", {"EQUIVALENT"}>>,
     <<"VoltageRegulationAdder", {"VR_REGULATING"}>>,
     <<"VoltageRegulationBuilder", {"VR_REGULATING"}>>,
     <<"NodeBreakerSwitchAdder", {"SW_RETAINED"}>>, <<"AreaBoundaryAdder", {"AREA_BOUNDARY_AC"}>>,
     <<"GeneratorAdder", {"GEN_CONDENSER"}>>,
     <<"GenerationAdder", {"GENERATION_VOLTAGE_REGULATION_ON"}>>,
     <<"PhaseTapChangerAdder", {"REGULATING", "TC_LOAD_TAP_CHANGING_CAPABILITIES"}>>,
     <<"TemporaryLimitAdder", {"TL_FICTITIOUS"}>>,
     <<"OverloadManagementSystemAdder", {"AUTOMATION_SYSTEM_ENABLED"}>>,
     <<"SwitchTrippingAdder", {"TRIPPING_OPEN_ACTION"}>>,
     <<"BranchTrippingAdder", {"TRIPPING_OPEN_ACTION"}>>,
     <<"ThreeWindingsTransformerTrippingAdder", {"TRIPPING_OPEN_ACTION"}>>}

LEMMA BoolsGivenServed == \A ask \in BoolsGiven : Served(ask[1], "setBool", ask[2])
<1>1. \A ask \in BoolsGiven : HasAdder(Bools, ask[2], KindsUnder(ask[1]))
  BY KindsOfBases, KindsOfEachAdder DEF BoolsGiven, HasAdder, Bools, Row, TapChangerAdder,
       TrippingAdder, VoltageRegulationAdderOrBuilder
<1> QED  BY <1>1, BoolsDecide, AddersServe

SetStringFieldsAsked ==
    {<<"InjectionAdder", {"TERMINAL_BUS_BREAKER_BUS_ID",
        "TERMINAL_BUS_BREAKER_CONNECTABLE_BUS_ID"}>>, <<"SubstationAdder", {"COUNTRY"}>>,
     <<"LegAdder", {"TERMINAL_VOLTAGE_LEVEL_ID", "TERMINAL_BUS_BREAKER_BUS_ID",
        "TERMINAL_BUS_BREAKER_CONNECTABLE_BUS_ID"}>>,
     <<"SwitchTrippingAdder", {"TRIPPING_ELEMENT_ID"}>>,
     <<"BranchTrippingAdder", {"TRIPPING_ELEMENT_ID"}>>,
     <<"ThreeWindingsTransformerTrippingAdder", {"TRIPPING_ELEMENT_ID"}>>}

LEMMA SetStringFieldsAskedServed == \A ask \in SetStringFieldsAsked :
    Served(ask[1], "setString", ask[2])
<1>1. \A ask \in SetStringFieldsAsked : HasCase(SetStringFields, ask[2], KindsUnder(ask[1]))
  BY KindsOfBases, KindsOfEachAdder DEF SetStringFieldsAsked, HasCase, SetStringFields, Writes,
       Case, InjectionAdder, TrippingAdder
<1> QED  BY <1>1, StringsDecide, CasesServe

SetIntFieldsAsked ==
    {<<"InjectionAdder", {"TERMINAL_NODE"}>>, <<"VoltageRegulationAdder", {"VR_MODE"}>>,
     <<"VoltageRegulationBuilder", {"VR_MODE"}>>, <<"BusbarSectionAdder", {"TERMINAL_NODE"}>>,
     <<"LegAdder", {"TERMINAL_NODE", "LEG_SIDE"}>>,
     <<"PhaseTapChangerAdder", {"PTC_REGULATION_MODE"}>>,
     <<"BranchTrippingAdder", {"TRIPPING_SIDE"}>>,
     <<"ThreeWindingsTransformerTrippingAdder", {"TRIPPING_SIDE"}>>}

LEMMA SetIntFieldsAskedServed == \A ask \in SetIntFieldsAsked : Served(ask[1], "setInt", ask[2])
<1>1. \A ask \in SetIntFieldsAsked : HasCase(SetIntFields, ask[2], KindsUnder(ask[1]))
  BY KindsOfBases, KindsOfEachAdder DEF SetIntFieldsAsked, HasCase, SetIntFields, Writes, Case,
       InjectionAdder, VoltageRegulationAdderOrBuilder
<1> QED  BY <1>1, IntsDecide, CasesServe

IntsGiven ==
    {<<"BranchAdder", {"BRANCH_NODE1", "BRANCH_NODE2"}>>,
     <<"NodeBreakerSwitchAdder", {"SW_NODE1", "SW_NODE2"}>>,
     <<"InternalConnectionAdder", {"IC_NODE1", "IC_NODE2"}>>,
     <<"ShuntCompensatorAdder", {"SHUNT_SECTION_COUNT", "SHUNT_SOLVED_SECTION_COUNT"}>>,
     <<"ShuntCompensatorLinearModelAdder", {"SHUNT_MAX_SECTION_COUNT"}>>,
     <<"RatioTapChangerAdder", {"TC_LOW_TAP_POSITION", "TC_TAP_POSITION",
        "TC_SOLVED_TAP_POSITION"}>>,
     <<"PhaseTapChangerAdder", {"TC_LOW_TAP_POSITION", "TC_TAP_POSITION",
        "TC_SOLVED_TAP_POSITION"}>>, <<"TemporaryLimitAdder", {"TL_ACCEPTABLE_DURATION"}>>}

LEMMA IntsGivenServed == \A ask \in IntsGiven : Served(ask[1], "setInt", ask[2])
<1>1. \A ask \in IntsGiven : HasAdder(Ints, ask[2], KindsUnder(ask[1]))
  BY KindsOfBases, KindsOfEachAdder DEF IntsGiven, HasAdder, Ints, Row, TapChangerAdder
<1> QED  BY <1>1, IntsDecide, AddersServe

EquipmentGiven ==
    {<<"VoltageRegulationAdder", {"VR_TARGET_VALUE", "VR_TARGET_DEADBAND", "VR_SLOPE"}>>,
     <<"VoltageRegulationBuilder", {"VR_TARGET_VALUE", "VR_TARGET_DEADBAND", "VR_SLOPE"}>>,
     <<"VoltageLevelAdder", {"VL_NOMINAL_V", "VL_LOW_VOLTAGE_LIMIT", "VL_HIGH_VOLTAGE_LIMIT"}>>,
     <<"GeneratorAdder", {"GEN_MIN_P", "GEN_MAX_P", "GEN_TARGET_P", "GEN_RATED_S"}>>,
     <<"GeneratorAdder", {"LOCAL_TARGET_V", "LOCAL_TARGET_Q"}>>,
     <<"BatteryAdder", {"LOCAL_TARGET_V", "LOCAL_TARGET_Q"}>>,
     <<"LoadAdder", {"LOAD_P0", "LOAD_Q0"}>>,
     <<"ZipLoadModelAdder", {"ZIP_C0P", "ZIP_C1P", "ZIP_C2P", "ZIP_C0Q", "ZIP_C1Q", "ZIP_C2Q"}>>,
     <<"ExponentialLoadModelAdder", {"EXP_NP", "EXP_NQ"}>>,
     <<"ShuntCompensatorAdder", {"LOCAL_TARGET_V", "LOCAL_TARGET_Q"}>>,
     <<"ShuntCompensatorLinearModelAdder", {"SHUNT_B_PER_SECTION", "SHUNT_G_PER_SECTION"}>>,
     <<"SectionAdder", {"SHUNT_SECTION_B", "SHUNT_SECTION_G"}>>,
     <<"StaticVarCompensatorAdder", {"SVC_B_MIN", "SVC_B_MAX"}>>,
     <<"StaticVarCompensatorAdder", {"LOCAL_TARGET_V", "LOCAL_TARGET_Q"}>>,
     <<"BoundaryLineAdder", {"BL_P0", "BL_Q0", "BL_R", "BL_X", "BL_G", "BL_B"}>>,
     <<"GenerationAdder", {"GENERATION_TARGET_P", "GENERATION_MIN_P", "GENERATION_MAX_P",
        "GENERATION_TARGET_Q", "GENERATION_TARGET_V"}>>,
     <<"VscConverterStationAdder", {"CONVERTER_STATION_LOSS_FACTOR"}>>,
     <<"VscConverterStationAdder", {"LOCAL_TARGET_V", "LOCAL_TARGET_Q"}>>,
     <<"LccConverterStationAdder", {"CONVERTER_STATION_LOSS_FACTOR", "LCC_POWER_FACTOR"}>>,
     <<"HvdcLineAdder", {"HVDC_R", "HVDC_NOMINAL_V", "HVDC_ACTIVE_POWER_SETPOINT", "HVDC_MAX_P"}>>,
     <<"LineAdder", {"LINE_R", "LINE_X", "LINE_G1", "LINE_B1", "LINE_G2", "LINE_B2"}>>,
     <<"TwoWindingsTransformerAdder", {"TWO_WT_R", "TWO_WT_X", "TWO_WT_G", "TWO_WT_B",
        "TWO_WT_RATED_U1", "TWO_WT_RATED_U2", "TWO_WT_RATED_S"}>>,
     <<"PhaseTapChangerAdder", {"PTC_REGULATION_VALUE", "PTC_TARGET_DEADBAND"}>>,
     <<"RatioTapChangerStepAdder", {"STEP_RHO", "STEP_R", "STEP_X", "STEP_G", "STEP_B"}>>,
     <<"PhaseTapChangerStepAdder", {"STEP_RHO", "STEP_R", "STEP_X", "STEP_G", "STEP_B"}>>,
     <<"PhaseTapChangerStepAdder", {"PTC_STEP_ALPHA"}>>}

LEMMA EquipmentGivenServed == \A ask \in EquipmentGiven : Served(ask[1], "setDouble", ask[2])
<1>1. \A ask \in EquipmentGiven : HasAdder(EquipmentDoubles, ask[2], KindsUnder(ask[1]))
  BY KindsOfBases, KindsOfEachAdder DEF EquipmentGiven, HasAdder, EquipmentDoubles, Row,
       HvdcConverterStationAdder, TapChangerStepAdder, VoltageRegulationAdderOrBuilder,
       VoltageRegulationHolderAdder
<1> QED  BY <1>1, DoublesDecide, AddersServe

SetRelatedFieldsAsked ==
    {<<"VoltageRegulationAdder", {"REL_TERMINAL"}>>,
     <<"VoltageRegulationBuilder", {"REL_TERMINAL"}>>, <<"AreaAdder", {"ADD_VOLTAGE_LEVEL"}>>,
     <<"AreaBoundaryAdder", {"REL_TERMINAL", "BOUNDARY"}>>, <<"LineAdder", {"FILL_FROM"}>>,
     <<"TwoWindingsTransformerAdder", {"FILL_FROM"}>>,
     <<"PhaseTapChangerAdder", {"REL_REGULATION_TERMINAL"}>>,
     <<"VoltageAngleLimitAdder", {"REL_TERMINAL_FROM", "REL_TERMINAL_TO"}>>}

LEMMA SetRelatedFieldsAskedServed == \A ask \in SetRelatedFieldsAsked :
    Served(ask[1], "setRelated", ask[2])
<1>1. \A ask \in SetRelatedFieldsAsked : HasCase(SetRelatedFields, ask[2], KindsUnder(ask[1]))
  BY KindsOfBases, KindsOfEachAdder DEF SetRelatedFieldsAsked, HasCase, SetRelatedFields, Writes,
       Case, BranchAdder, VoltageRegulationAdderOrBuilder
<1> QED  BY <1>1, SwitchesDecide, CasesServe

EnumsGiven ==
    {<<"VoltageLevelAdder", {"VL_TOPOLOGY_KIND"}>>, <<"NodeBreakerSwitchAdder", {"SW_KIND"}>>,
     <<"GeneratorAdder", {"GEN_ENERGY_SOURCE"}>>, <<"LoadAdder", {"LOAD_TYPE"}>>,
     <<"HvdcLineAdder", {"HVDC_CONVERTERS_MODE"}>>, <<"CurrentLimitsAdder", {"LL_DETECTION_KIND"}>>,
     <<"ActivePowerLimitsAdder", {"LL_DETECTION_KIND"}>>,
     <<"ApparentPowerLimitsAdder", {"LL_DETECTION_KIND"}>>,
     <<"OverloadManagementSystemAdder", {"OMS_MONITORED_SIDE"}>>}

LEMMA EnumsGivenServed == \A ask \in EnumsGiven : Served(ask[1], "setInt", ask[2])
<1>1. \A ask \in EnumsGiven : HasAdder(Enums, ask[2], KindsUnder(ask[1]))
  BY KindsOfBases, KindsOfEachAdder DEF EnumsGiven, HasAdder, Enums, Row, LoadingLimitsAdder
<1> QED  BY <1>1, IntsDecide, AddersServe

LimitsGiven ==
    {<<"AreaAdder", {"AREA_INTERCHANGE_TARGET"}>>,
     <<"BatteryAdder", {"BAT_TARGET_P", "BAT_MIN_P", "BAT_MAX_P"}>>,
     <<"ThreeWindingsTransformerAdder", {"THREE_WT_RATED_U0"}>>,
     <<"CurrentLimitsAdder", {"LL_PERMANENT_LIMIT"}>>,
     <<"ActivePowerLimitsAdder", {"LL_PERMANENT_LIMIT"}>>,
     <<"ApparentPowerLimitsAdder", {"LL_PERMANENT_LIMIT"}>>,
     <<"TemporaryLimitAdder", {"TL_VALUE"}>>,
     <<"VoltageAngleLimitAdder", {"VAL_LOW_LIMIT", "VAL_HIGH_LIMIT"}>>,
     <<"MinMaxReactiveLimitsAdder", {"RL_MIN_Q", "RL_MAX_Q"}>>,
     <<"PointAdder", {"POINT_P", "POINT_MIN_Q", "POINT_MAX_Q"}>>,
     <<"SwitchTrippingAdder", {"TRIPPING_CURRENT_LIMIT"}>>,
     <<"BranchTrippingAdder", {"TRIPPING_CURRENT_LIMIT"}>>,
     <<"ThreeWindingsTransformerTrippingAdder", {"TRIPPING_CURRENT_LIMIT"}>>}

LEMMA LimitsGivenServed == \A ask \in LimitsGiven : Served(ask[1], "setDouble", ask[2])
<1>1. \A ask \in LimitsGiven : HasAdder(LimitDoubles, ask[2], KindsUnder(ask[1]))
  BY KindsOfBases, KindsOfEachAdder DEF LimitsGiven, HasAdder, LimitDoubles, Row,
       LoadingLimitsAdder, TrippingAdder
<1> QED  BY <1>1, DoublesDecide, AddersServe

SetDoubleFieldsAsked ==
    {<<"LegAdder", {"LEG_R", "LEG_X", "LEG_G", "LEG_B", "LEG_RATED_U", "LEG_RATED_S"}>>}

LEMMA SetDoubleFieldsAskedServed == \A ask \in SetDoubleFieldsAsked :
    Served(ask[1], "setDouble", ask[2])
<1>1. \A ask \in SetDoubleFieldsAsked : HasCase(SetDoubleFields, ask[2], KindsUnder(ask[1]))
  BY KindsOfBases, KindsOfEachAdder DEF SetDoubleFieldsAsked, HasCase, SetDoubleFields, Writes, Case
<1> QED  BY <1>1, DoublesDecide, CasesServe

\* What the accessors make are wrappers of objects or of adders.
LEMMA MadeNames ==
  \A class \in
    {"ActivePowerLimits", "ActivePowerLimitsAdder", "ApparentPowerLimits",
     "ApparentPowerLimitsAdder", "Area", "AreaAdder", "AreaBoundary", "AreaBoundaryAdder",
     "Battery", "BatteryAdder", "Boundary", "BoundaryLine", "BoundaryLineAdder", "Branch",
     "BranchSideLimits", "BranchTrippingAdder", "Bus", "BusAdder", "BusBreakerSwitchAdder",
     "BusList", "BusbarSection", "BusbarSectionAdder", "Component", "Connectable", "CurrentLimits",
     "CurrentLimitsAdder", "ExponentialLoadModelAdder", "Generation", "GenerationAdder",
     "Generator", "GeneratorAdder", "Ground", "GroundAdder", "HvdcConverterStation", "HvdcLine",
     "HvdcLineAdder", "Identifiable", "InternalConnection", "InternalConnectionAdder",
     "LccConverterStation", "LccConverterStationAdder", "Leg", "LegAdder", "Line", "LineAdder",
     "Load", "LoadAdder", "LoadModel", "LoadingLimits", "MinMaxReactiveLimitsAdder", "Network",
     "NodeBreakerSwitchAdder", "NodeList", "OperationalLimitsGroup", "Overload",
     "OverloadManagementSystem", "OverloadManagementSystemAdder", "PhaseTapChanger",
     "PhaseTapChangerAdder", "PhaseTapChangerStep", "PhaseTapChangerStepAdder",
     "PhaseTapChangerStepsReplacer", "Plane", "Point", "PointAdder", "RatioTapChanger",
     "RatioTapChangerAdder", "RatioTapChangerStep", "RatioTapChangerStepAdder",
     "RatioTapChangerStepsReplacer", "ReactiveCapabilityCurveAdder",
     "ReactiveCapabilityShapeAdder", "ReactiveLimits", "Section", "SectionAdder",
     "ShuntCompensator", "ShuntCompensatorAdder", "ShuntCompensatorLinearModelAdder",
     "ShuntCompensatorModel", "ShuntCompensatorNonLinearModelAdder", "StaticVarCompensator",
     "StaticVarCompensatorAdder", "Substation", "SubstationAdder", "Switch", "SwitchList",
     "SwitchTrippingAdder", "TemporaryLimit", "TemporaryLimitAdder", "Terminal",
     "ThreeWindingsTransformer", "ThreeWindingsTransformerAdder",
     "ThreeWindingsTransformerTrippingAdder", "TieLine", "TieLineAdder", "Tripping",
     "TwoWindingsTransformer", "TwoWindingsTransformerAdder", "VariantManager",
     "VoltageAngleLimit", "VoltageAngleLimitAdder", "VoltageLevel", "VoltageLevelAdder",
     "VoltageRegulation", "VoltageRegulationAdder", "VoltageRegulationBuilder",
     "VscConverterStation", "VscConverterStationAdder", "ZipLoadModelAdder"} :
      class \in MadeClasses
BY AdderNames DEF MadeClasses, TypeCode, ViewsOf

----------------------------------------------------------------------------
\* Wrappers.  An ask is here a class, how it takes the answer where this varies, a code, and the
\* class of the wrappers that are made of the answer.
ChildrenAsked ==
    {<<"Network", "BOUNDARY_ELEMENT", "Identifiable">>,
     <<"Network", "VOLTAGE_LEVEL", "VoltageLevel">>,
     <<"Network", "OVERLOAD_MANAGEMENT_SYSTEM", "OverloadManagementSystem">>,
     <<"Network.BusBreakerView", "BUS", "Bus">>,
     <<"Network.BusBreakerView", "REL_BBV_SWITCH", "Switch">>,
     <<"Network.BusView", "REL_BV_BUS", "Bus">>,
     <<"Network.BusView", "REL_CONNECTED_COMPONENT", "Component">>,
     <<"Network.BusView", "REL_SYNCHRONOUS_COMPONENT", "Component">>,
     <<"VoltageLevel.NodeBreakerView", "REL_NBV_SWITCH", "Switch">>,
     <<"VoltageLevel.NodeBreakerView", "INTERNAL_CONNECTION", "InternalConnection">>,
     <<"VoltageLevel.BusBreakerView", "BUS", "Bus">>,
     <<"VoltageLevel.BusBreakerView", "REL_BBV_SWITCH", "Switch">>,
     <<"VoltageLevel.BusView", "REL_BV_BUS", "Bus">>,
     <<"Substation", "VOLTAGE_LEVEL", "VoltageLevel">>,
     <<"Substation", "OVERLOAD_MANAGEMENT_SYSTEM", "OverloadManagementSystem">>,
     <<"Connectable", "TERMINAL", "Terminal">>, <<"Bus", "TERMINAL", "Terminal">>,
     <<"Component", "BUS", "Bus">>,
     <<"ShuntCompensatorNonLinearModel", "SHUNT_SECTION", "Section">>,
     <<"ThreeWindingsTransformer", "THREE_WINDINGS_TRANSFORMER_LEG", "Leg">>,
     <<"ReactiveCapabilityCurve", "REACTIVE_CURVE_POINT", "Point">>,
     <<"ReactiveCapabilityShape", "REACTIVE_CAPABILITY_SHAPE_PLANE", "Plane">>,
     <<"RatioTapChanger", "RATIO_TAP_CHANGER_STEP", "RatioTapChangerStep">>,
     <<"PhaseTapChanger", "PHASE_TAP_CHANGER_STEP", "PhaseTapChangerStep">>,
     <<"FlowsLimitsHolderMethods", "OPERATIONAL_LIMITS_GROUP", "OperationalLimitsGroup">>,
     <<"FlowsLimitsHolderMethods", "REL_SELECTED_OLG", "OperationalLimitsGroup">>,
     <<"LoadingLimits", "TEMPORARY_LIMIT", "TemporaryLimit">>,
     <<"Area", "VOLTAGE_LEVEL", "VoltageLevel">>, <<"Area", "AREA_BOUNDARY", "AreaBoundary">>,
     <<"OverloadManagementSystem", "TRIPPING", "Tripping">>, <<"BusList", "ELEMENTS", "Bus">>,
     <<"SwitchList", "ELEMENTS", "Switch">>, <<"OverloadList", "ELEMENTS", "Overload">>}

LEMMA ChildrenAskedLinked ==
  \A ask \in ChildrenAsked : Linked(ask[1], "getChildren", "many", ask[2], ask[3])
<1>1. \A ask \in ChildrenAsked : ask[3] \in MadeClasses
  BY MadeNames DEF ChildrenAsked
<1>2. \A ask \in ChildrenAsked : KindsUnder(ask[1]) \subseteq Kinds
  BY KindNames, TypesAreKinds, KindsOfBases, KindsOfTypes, KindsOfPartTypes, KindsOfClasses,
       KindsOfOthers, KindsOfViews DEF ChildrenAsked
<1>3. \A ask \in ChildrenAsked : HasCase(OtherChildren, {ask[2]}, KindsUnder(ask[1]))
  BY KindsOfBases, KindsOfTypes, KindsOfPartTypes, KindsOfClasses, KindsOfOthers, KindsOfViews DEF
       ChildrenAsked, HasCase, OtherChildren, Case, AutomationSystem, Connectable, Injection
<1>4. \A ask \in ChildrenAsked : GivesOnly(OtherChildren, {ask[2]}, KindsUnder(ask[1]),
        KindsFor(ask[3]))
  BY KindsOfBases, KindsOfTypes, KindsOfPartTypes, KindsOfClasses, KindsOfOthers, KindsOfViews DEF
       ChildrenAsked, GivesOnly, OtherChildren, Case, AutomationSystem, Branch, Connectable,
             Container,
       FlowsLimitsHolder, Identifiable, Injection, Leg, LimitsHolder, LoadingLimits, Tripping
<1> QED  BY <1>1, <1>2, <1>3, <1>4, OtherChildrenLinked DEF ChildrenAsked

RelatedAsked ==
    {<<"Network", "one", "VARIANT_MANAGER", "VariantManager">>,
     <<"VoltageLevel", "maybe", "REL_SUBSTATION", "Substation">>,
     <<"Identifiable", "one", "NETWORK", "Network">>,
     <<"Identifiable", "one", "REL_PARENT_NETWORK", "Network">>,
     <<"Injection", "one", "REL_TERMINAL", "Terminal">>,
     <<"Terminal.BusBreakerView", "maybe", "REL_BUS", "Bus">>,
     <<"Terminal.BusBreakerView", "maybe", "REL_CONNECTABLE_BUS", "Bus">>,
     <<"Terminal.BusView", "maybe", "REL_BV_BUS", "Bus">>,
     <<"Terminal.BusView", "maybe", "REL_BV_CONNECTABLE_BUS", "Bus">>,
     <<"Terminal", "one", "REL_CONNECTABLE", "Connectable">>,
     <<"Terminal", "one", "REL_VOLTAGE_LEVEL", "VoltageLevel">>,
     <<"Bus", "maybe", "REL_CONNECTED_COMPONENT", "Component">>,
     <<"Bus", "maybe", "REL_SYNCHRONOUS_COMPONENT", "Component">>,
     <<"Bus", "one", "REL_VOLTAGE_LEVEL", "VoltageLevel">>,
     <<"Switch", "one", "REL_VOLTAGE_LEVEL", "VoltageLevel">>,
     <<"Load", "maybe", "LOAD_MODEL", "LoadModel">>,
     <<"ShuntCompensator", "one", "SHUNT_COMPENSATOR_MODEL", "ShuntCompensatorModel">>,
     <<"HvdcConverterStation", "maybe", "REL_HVDC_LINE", "HvdcLine">>,
     <<"HvdcConverterStation", "maybe", "REL_OTHER_CONVERTER_STATION", "HvdcConverterStation">>,
     <<"HvdcLine", "one", "REL_CONVERTER_STATION1", "HvdcConverterStation">>,
     <<"HvdcLine", "one", "REL_CONVERTER_STATION2", "HvdcConverterStation">>,
     <<"BranchMethods", "one", "REL_TERMINAL1", "Terminal">>,
     <<"BranchMethods", "one", "REL_TERMINAL2", "Terminal">>,
     <<"BoundaryLine", "maybe", "TIE_LINE", "TieLine">>,
     <<"BoundaryLine", "maybe", "BOUNDARY_LINE_GENERATION", "Generation">>,
     <<"BoundaryLine", "one", "BOUNDARY", "Boundary">>,
     <<"Boundary", "one", "BOUNDARY_LINE", "BoundaryLine">>,
     <<"Boundary", "one", "REL_VOLTAGE_LEVEL", "VoltageLevel">>,
     <<"TwoWindingsTransformer", "maybe", "REL_SUBSTATION", "Substation">>,
     <<"ThreeWindingsTransformer", "maybe", "REL_SUBSTATION", "Substation">>,
     <<"Leg", "one", "THREE_WINDINGS_TRANSFORMER", "ThreeWindingsTransformer">>,
     <<"Leg", "one", "REL_TERMINAL", "Terminal">>,
     <<"VoltageRegulationHolderMethods", "maybe", "VOLTAGE_REGULATION", "VoltageRegulation">>,
     <<"VoltageRegulationHolderMethods", "one", "REL_REGULATING_TERMINAL", "Terminal">>,
     <<"VoltageRegulation", "maybe", "REL_TERMINAL", "Terminal">>,
     <<"TapChangerHolderMethods", "maybe", "RATIO_TAP_CHANGER", "RatioTapChanger">>,
     <<"TapChangerHolderMethods", "maybe", "PHASE_TAP_CHANGER", "PhaseTapChanger">>,
     <<"RatioTapChanger", "maybe", "REL_CURRENT_STEP", "RatioTapChangerStep">>,
     <<"RatioTapChanger", "maybe", "REL_SOLVED_CURRENT_STEP", "RatioTapChangerStep">>,
     <<"RatioTapChanger", "maybe", "REL_NEUTRAL_STEP", "RatioTapChangerStep">>,
     <<"PhaseTapChanger", "maybe", "REL_CURRENT_STEP", "PhaseTapChangerStep">>,
     <<"PhaseTapChanger", "maybe", "REL_SOLVED_CURRENT_STEP", "PhaseTapChangerStep">>,
     <<"PhaseTapChanger", "maybe", "REL_NEUTRAL_STEP", "PhaseTapChangerStep">>,
     <<"PhaseTapChanger", "maybe", "REL_REGULATION_TERMINAL", "Terminal">>,
     <<"FlowsLimitsHolderMethods", "maybe", "CURRENT_LIMITS", "CurrentLimits">>,
     <<"FlowsLimitsHolderMethods", "maybe", "ACTIVE_POWER_LIMITS", "ActivePowerLimits">>,
     <<"FlowsLimitsHolderMethods", "maybe", "APPARENT_POWER_LIMITS", "ApparentPowerLimits">>,
     <<"FlowsLimitsHolderMethods", "maybe", "REL_SELECTED_OLG", "OperationalLimitsGroup">>,
     <<"OperationalLimitsGroup", "maybe", "CURRENT_LIMITS", "CurrentLimits">>,
     <<"OperationalLimitsGroup", "maybe", "ACTIVE_POWER_LIMITS", "ActivePowerLimits">>,
     <<"OperationalLimitsGroup", "maybe", "APPARENT_POWER_LIMITS", "ApparentPowerLimits">>,
     <<"Overload", "one", "TEMPORARY_LIMIT", "TemporaryLimit">>,
     <<"VoltageAngleLimit", "one", "REL_TERMINAL_FROM", "Terminal">>,
     <<"VoltageAngleLimit", "one", "REL_TERMINAL_TO", "Terminal">>,
     <<"AreaBoundary", "one", "AREA", "Area">>, <<"AreaBoundary", "maybe", "BOUNDARY", "Boundary">>,
     <<"AreaBoundary", "maybe", "REL_TERMINAL", "Terminal">>,
     <<"OverloadManagementSystem", "one", "REL_SUBSTATION", "Substation">>}

LEMMA RelatedAskedLinked ==
  \A ask \in RelatedAsked : Linked(ask[1], "getRelated", ask[2], ask[3], ask[4])
<1>1. \A ask \in RelatedAsked : ask[4] \in MadeClasses
  BY MadeNames DEF RelatedAsked
<1>2. \A ask \in RelatedAsked : KindsUnder(ask[1]) \subseteq Kinds
  BY KindNames, TypesAreKinds, KindsOfBases, KindsOfTypes, KindsOfPartTypes, KindsOfClasses,
       KindsOfOthers, KindsOfViews DEF RelatedAsked
<1>3. \A ask \in RelatedAsked : HasCase(OtherRelated, {ask[3]}, KindsUnder(ask[1]))
  BY KindsOfBases, KindsOfTypes, KindsOfPartTypes, KindsOfClasses, KindsOfOthers, KindsOfViews DEF
       RelatedAsked, HasCase, OtherRelated, Finds, Case, AutomationSystem, FlowsLimitsHolder,
             Injection,
       Leg, LimitsHolder, LimitsOwner
<1>4. \A ask \in RelatedAsked : GivesOnly(OtherRelated, {ask[3]}, KindsUnder(ask[1]), Taken(ask[2],
        ask[4]))
  BY KindsOfBases, KindsOfTypes, KindsOfPartTypes, KindsOfClasses, KindsOfOthers, KindsOfViews DEF
       RelatedAsked, GivesOnly, OtherRelated, Finds, Case, Taken, Maybe, AutomationSystem, Branch,
       Connectable, Container, FlowsLimitsHolder, HvdcConverterStation, Identifiable, Injection,
             Leg,
       LimitsHolder, LimitsOwner, LoadModel, ShuntCompensatorModel, TapChangerHolder,
       VoltageRegulationHolder
<1>5. \A ask \in RelatedAsked : ask[2] \in {"one", "maybe"}
  BY DEF RelatedAsked
<1> QED  BY <1>1, <1>2, <1>3, <1>4, <1>5, OtherRelatedLinked

NamedAsked ==
    {<<"Network.BusBreakerView", "maybe", "REL_BBV_BUS", "Bus">>,
     <<"Network.BusView", "maybe", "REL_BV_BUS", "Bus">>,
     <<"VoltageLevel.NodeBreakerView", "maybe", "REL_NBV_SWITCH", "Switch">>,
     <<"VoltageLevel.NodeBreakerView", "maybe", "BUSBAR_SECTION", "BusbarSection">>,
     <<"VoltageLevel.BusBreakerView", "maybe", "REL_BBV_BUS", "Bus">>,
     <<"VoltageLevel.BusBreakerView", "maybe", "REL_BBV_SWITCH", "Switch">>,
     <<"VoltageLevel.BusBreakerView", "one", "REL_BBV_BUSES_OF_BV_BUS", "BusList">>,
     <<"VoltageLevel.BusBreakerView", "one", "REL_VL_BBV_BUS1", "Bus">>,
     <<"VoltageLevel.BusBreakerView", "one", "REL_VL_BBV_BUS2", "Bus">>,
     <<"VoltageLevel.BusView", "maybe", "REL_BV_BUS", "Bus">>,
     <<"VoltageLevel.BusView", "maybe", "REL_MERGED_BUS", "Bus">>,
     <<"VoltageLevel", "maybe", "CONNECTABLE", "Connectable">>,
     <<"VoltageLevel", "maybe", "AREA", "Area">>,
     <<"BranchMethods", "one", "REL_TERMINAL", "Terminal">>,
     <<"TieLine", "maybe", "BOUNDARY_LINE", "BoundaryLine">>,
     <<"ThreeWindingsTransformer", "one", "REL_TERMINAL", "Terminal">>,
     <<"FlowsLimitsHolderMethods", "maybe", "OPERATIONAL_LIMITS_GROUP", "OperationalLimitsGroup">>,
     <<"FlowsLimitsHolderMethods", "maybe", "CURRENT_LIMITS", "CurrentLimits">>,
     <<"FlowsLimitsHolderMethods", "maybe", "ACTIVE_POWER_LIMITS", "ActivePowerLimits">>,
     <<"FlowsLimitsHolderMethods", "maybe", "APPARENT_POWER_LIMITS", "ApparentPowerLimits">>}

LEMMA NamedAskedLinked ==
  \A ask \in NamedAsked : Linked(ask[1], "getRelatedByString", ask[2], ask[3], ask[4])
<1>1. \A ask \in NamedAsked : ask[4] \in MadeClasses
  BY MadeNames DEF NamedAsked
<1>2. \A ask \in NamedAsked : KindsUnder(ask[1]) \subseteq Kinds
  BY KindNames, TypesAreKinds, KindsOfBases, KindsOfTypes, KindsOfPartTypes, KindsOfClasses,
       KindsOfOthers, KindsOfViews DEF NamedAsked
<1>3. \A ask \in NamedAsked : HasCase(RelatedByStringCases, {ask[3]}, KindsUnder(ask[1]))
  BY KindsOfBases, KindsOfTypes, KindsOfPartTypes, KindsOfClasses, KindsOfOthers, KindsOfViews DEF
       NamedAsked, HasCase, RelatedByStringCases, Finds, Case, Branch
<1>4. \A ask \in NamedAsked : GivesOnly(RelatedByStringCases, {ask[3]}, KindsUnder(ask[1]),
        Taken(ask[2], ask[4]))
  BY KindsOfBases, KindsOfTypes, KindsOfPartTypes, KindsOfClasses, KindsOfOthers, KindsOfViews DEF
       NamedAsked, GivesOnly, RelatedByStringCases, Finds, Case, Taken, Maybe, Branch, Connectable,
       FlowsLimitsHolder, Injection, Leg, LimitsHolder
<1>5. \A ask \in NamedAsked : ask[2] \in {"one", "maybe"}
  BY DEF NamedAsked
<1>6. \A ask \in NamedAsked : "Network" \in KindsUnder(ask[1])
        => ask[3] \in {"REL_BBV_BUS", "REL_BV_BUS"}
  BY KindsOfBases, KindsOfTypes, KindsOfPartTypes, KindsOfClasses, KindsOfOthers, KindsOfViews DEF
       NamedAsked, Branch, LimitsHolder, FlowsLimitsHolder, Leg, Injection, Connectable, LimitsOwner
<1> QED  BY <1>1, <1>2, <1>3, <1>4, <1>5, <1>6, NamedLinked

IndexedAsked ==
    {<<"VoltageLevel.NodeBreakerView", "maybe", "REL_NBV_TERMINAL_AT_NODE", "Terminal">>,
     <<"VoltageLevel.NodeBreakerView", "one", "REL_NBV_SWITCH", "SwitchList">>,
     <<"VoltageLevel.NodeBreakerView", "one", "INTERNAL_CONNECTION", "NodeList">>,
     <<"HvdcLine", "one", "HVDC_CONVERTER_STATION", "HvdcConverterStation">>,
     <<"BranchMethods", "one", "FLOWS_LIMITS_HOLDER", "BranchSideLimits">>,
     <<"TieLine", "one", "BOUNDARY_LINE", "BoundaryLine">>,
     <<"ThreeWindingsTransformer", "one", "THREE_WINDINGS_TRANSFORMER_LEG", "Leg">>,
     <<"ThreeWindingsTransformer", "one", "REL_TERMINAL", "Terminal">>,
     <<"RatioTapChanger", "one", "RATIO_TAP_CHANGER_STEP", "RatioTapChangerStep">>,
     <<"PhaseTapChanger", "one", "PHASE_TAP_CHANGER_STEP", "PhaseTapChangerStep">>,
     <<"FlowsLimitsHolderMethods", "maybe", "LOADING_LIMITS", "LoadingLimits">>,
     <<"OperationalLimitsGroup", "maybe", "LOADING_LIMITS", "LoadingLimits">>,
     <<"LoadingLimits", "maybe", "TEMPORARY_LIMIT", "TemporaryLimit">>}

LEMMA IndexedAskedLinked ==
  \A ask \in IndexedAsked : Linked(ask[1], "getRelatedByIndex", ask[2], ask[3], ask[4])
<1>1. \A ask \in IndexedAsked : ask[4] \in MadeClasses
  BY MadeNames DEF IndexedAsked
<1>2. \A ask \in IndexedAsked : KindsUnder(ask[1]) \subseteq Kinds
  BY KindNames, TypesAreKinds, KindsOfBases, KindsOfTypes, KindsOfPartTypes, KindsOfClasses,
       KindsOfOthers, KindsOfViews DEF IndexedAsked
<1>3. \A ask \in IndexedAsked : HasCase(RelatedByIndexCases, {ask[3]}, KindsUnder(ask[1]))
  BY KindsOfBases, KindsOfTypes, KindsOfPartTypes, KindsOfClasses, KindsOfOthers, KindsOfViews DEF
       IndexedAsked, HasCase, RelatedByIndexCases, Finds, Case, FlowsLimitsHolder, Leg,
             LimitsHolder,
       LimitsOwner
<1>4. \A ask \in IndexedAsked : GivesOnly(RelatedByIndexCases, {ask[3]}, KindsUnder(ask[1]),
        Taken(ask[2], ask[4]))
  BY KindsOfBases, KindsOfTypes, KindsOfPartTypes, KindsOfClasses, KindsOfOthers, KindsOfViews DEF
       IndexedAsked, GivesOnly, RelatedByIndexCases, Finds, Case, Taken, Maybe, Branch,
       FlowsLimitsHolder, HvdcConverterStation, Leg, LimitsHolder, LimitsOwner, LoadingLimits
<1>5. \A ask \in IndexedAsked : ask[2] \in {"one", "maybe"}
  BY DEF IndexedAsked
<1> QED  BY <1>1, <1>2, <1>3, <1>4, <1>5, IndexedLinked

EquipmentStarted ==
    {<<"Network", "SUBSTATION", "SubstationAdder">>,
     <<"Network", "VOLTAGE_LEVEL", "VoltageLevelAdder">>, <<"Network", "LINE", "LineAdder">>,
     <<"Network", "HVDC_LINE", "HvdcLineAdder">>, <<"Network", "TIE_LINE", "TieLineAdder">>,
     <<"Network", "AREA", "AreaAdder">>,
     <<"Network", "VOLTAGE_ANGLE_LIMIT", "VoltageAngleLimitAdder">>,
     <<"VoltageLevel.NodeBreakerView", "BUSBAR_SECTION", "BusbarSectionAdder">>,
     <<"VoltageLevel.NodeBreakerView", "REL_NBV_SWITCH", "NodeBreakerSwitchAdder">>,
     <<"VoltageLevel.NodeBreakerView", "INTERNAL_CONNECTION", "InternalConnectionAdder">>,
     <<"VoltageLevel.BusBreakerView", "REL_BBV_SWITCH", "BusBreakerSwitchAdder">>,
     <<"VoltageLevel.BusBreakerView", "BUS", "BusAdder">>,
     <<"VoltageLevel", "GENERATOR", "GeneratorAdder">>, <<"VoltageLevel", "LOAD", "LoadAdder">>,
     <<"VoltageLevel", "GROUND", "GroundAdder">>, <<"VoltageLevel", "BATTERY", "BatteryAdder">>,
     <<"VoltageLevel", "SHUNT_COMPENSATOR", "ShuntCompensatorAdder">>,
     <<"VoltageLevel", "STATIC_VAR_COMPENSATOR", "StaticVarCompensatorAdder">>,
     <<"VoltageLevel", "VSC_CONVERTER_STATION", "VscConverterStationAdder">>,
     <<"VoltageLevel", "LCC_CONVERTER_STATION", "LccConverterStationAdder">>,
     <<"VoltageLevel", "BOUNDARY_LINE", "BoundaryLineAdder">>,
     <<"Substation", "VOLTAGE_LEVEL", "VoltageLevelAdder">>,
     <<"Substation", "TWO_WINDINGS_TRANSFORMER", "TwoWindingsTransformerAdder">>,
     <<"Substation", "THREE_WINDINGS_TRANSFORMER", "ThreeWindingsTransformerAdder">>,
     <<"Substation", "OVERLOAD_MANAGEMENT_SYSTEM", "OverloadManagementSystemAdder">>,
     <<"Area", "AREA_BOUNDARY", "AreaBoundaryAdder">>,
     <<"ShuntCompensatorAdder", "SHUNT_COMPENSATOR_LINEAR_MODEL",
        "ShuntCompensatorLinearModelAdder">>,
     <<"ShuntCompensatorAdder", "SHUNT_COMPENSATOR_NON_LINEAR_MODEL",
        "ShuntCompensatorNonLinearModelAdder">>,
     <<"ShuntCompensatorNonLinearModelAdder", "SHUNT_SECTION", "SectionAdder">>,
     <<"BoundaryLineAdder", "BOUNDARY_LINE_GENERATION", "GenerationAdder">>,
     <<"ThreeWindingsTransformerAdder", "THREE_WINDINGS_TRANSFORMER_LEG", "LegAdder">>}

LEMMA EquipmentStartedLinked ==
  \A ask \in EquipmentStarted : Linked(ask[1], "invoke", "one", ask[2], ask[3])
<1>1. \A ask \in EquipmentStarted : ask[3] \in MadeClasses
  BY MadeNames DEF EquipmentStarted
<1>3. \A ask \in EquipmentStarted : HasCase(EquipmentAdderCases, {ask[2]}, KindsUnder(ask[1]))
  BY KindsOfBases, KindsOfTypes, KindsOfPartTypes, KindsOfClasses, KindsOfOthers, KindsOfViews,
       KindsOfEachAdder DEF EquipmentStarted, HasCase, EquipmentAdderCases, Case
<1>4. \A ask \in EquipmentStarted : GivesOnly(EquipmentAdderCases, {ask[2]}, KindsUnder(ask[1]),
        KindsFor(ask[3]))
  BY KindsOfBases, KindsOfTypes, KindsOfPartTypes, KindsOfClasses, KindsOfOthers, KindsOfViews,
       KindsOfEachAdder DEF EquipmentStarted, GivesOnly, EquipmentAdderCases, Case
<1> QED  BY <1>1, <1>3, <1>4, StartedLinked

PartsStarted ==
    {<<"VoltageRegulationHolderMethods", "VOLTAGE_REGULATION", "VoltageRegulationBuilder">>,
     <<"ReactiveLimitsHolderMethods", "MIN_MAX_REACTIVE_LIMITS", "MinMaxReactiveLimitsAdder">>,
     <<"ReactiveLimitsHolderMethods", "REACTIVE_CAPABILITY_CURVE", "ReactiveCapabilityCurveAdder">>,
     <<"ReactiveLimitsHolderMethods", "REACTIVE_CAPABILITY_SHAPE", "ReactiveCapabilityShapeAdder">>,
     <<"TapChangerHolderMethods", "RATIO_TAP_CHANGER", "RatioTapChangerAdder">>,
     <<"TapChangerHolderMethods", "PHASE_TAP_CHANGER", "PhaseTapChangerAdder">>,
     <<"RatioTapChanger", "TC_STEPS_REPLACER", "RatioTapChangerStepsReplacer">>,
     <<"PhaseTapChanger", "TC_STEPS_REPLACER", "PhaseTapChangerStepsReplacer">>,
     <<"OperationalLimitsGroup", "CURRENT_LIMITS", "CurrentLimitsAdder">>,
     <<"OperationalLimitsGroup", "ACTIVE_POWER_LIMITS", "ActivePowerLimitsAdder">>,
     <<"OperationalLimitsGroup", "APPARENT_POWER_LIMITS", "ApparentPowerLimitsAdder">>,
     <<"GeneratorAdder", "VOLTAGE_REGULATION", "VoltageRegulationAdder">>,
     <<"BatteryAdder", "VOLTAGE_REGULATION", "VoltageRegulationAdder">>,
     <<"LoadAdder", "ZIP_LOAD_MODEL", "ZipLoadModelAdder">>,
     <<"LoadAdder", "EXPONENTIAL_LOAD_MODEL", "ExponentialLoadModelAdder">>,
     <<"ShuntCompensatorAdder", "VOLTAGE_REGULATION", "VoltageRegulationAdder">>,
     <<"StaticVarCompensatorAdder", "VOLTAGE_REGULATION", "VoltageRegulationAdder">>,
     <<"VscConverterStationAdder", "VOLTAGE_REGULATION", "VoltageRegulationAdder">>,
     <<"RatioTapChangerAdder", "RATIO_TAP_CHANGER_STEP", "RatioTapChangerStepAdder">>,
     <<"RatioTapChangerAdder", "VOLTAGE_REGULATION", "VoltageRegulationAdder">>,
     <<"PhaseTapChangerAdder", "PHASE_TAP_CHANGER_STEP", "PhaseTapChangerStepAdder">>,
     <<"RatioTapChangerStepsReplacer", "RATIO_TAP_CHANGER_STEP", "RatioTapChangerStepAdder">>,
     <<"PhaseTapChangerStepsReplacer", "PHASE_TAP_CHANGER_STEP", "PhaseTapChangerStepAdder">>,
     <<"CurrentLimitsAdder", "TEMPORARY_LIMIT", "TemporaryLimitAdder">>,
     <<"ActivePowerLimitsAdder", "TEMPORARY_LIMIT", "TemporaryLimitAdder">>,
     <<"ApparentPowerLimitsAdder", "TEMPORARY_LIMIT", "TemporaryLimitAdder">>,
     <<"ReactiveCapabilityCurveAdder", "REACTIVE_CURVE_POINT", "PointAdder">>,
     <<"OverloadManagementSystemAdder", "SWITCH_TRIPPING", "SwitchTrippingAdder">>,
     <<"OverloadManagementSystemAdder", "BRANCH_TRIPPING", "BranchTrippingAdder">>,
     <<"OverloadManagementSystemAdder", "THREE_WINDINGS_TRANSFORMER_TRIPPING",
        "ThreeWindingsTransformerTrippingAdder">>}

LEMMA PartsStartedLinked ==
  \A ask \in PartsStarted : Linked(ask[1], "invoke", "one", ask[2], ask[3])
<1>1. \A ask \in PartsStarted : ask[3] \in MadeClasses
  BY MadeNames DEF PartsStarted
<1>3. \A ask \in PartsStarted : HasCase(PartAdderCases, {ask[2]}, KindsUnder(ask[1]))
  BY KindsOfBases, KindsOfTypes, KindsOfPartTypes, KindsOfClasses, KindsOfOthers, KindsOfEachAdder
       DEF PartsStarted, HasCase, PartAdderCases, Case, LoadingLimitsAdder, VoltageRegulationHolder,
       VoltageRegulationHolderAdder
<1>4. \A ask \in PartsStarted : GivesOnly(PartAdderCases, {ask[2]}, KindsUnder(ask[1]),
        KindsFor(ask[3]))
  BY KindsOfBases, KindsOfTypes, KindsOfPartTypes, KindsOfClasses, KindsOfOthers, KindsOfEachAdder
       DEF PartsStarted, GivesOnly, PartAdderCases, Case, Leg, LoadingLimitsAdder,
             ReactiveLimitsHolder,
       TapChangerHolder, VoltageRegulationHolder, VoltageRegulationHolderAdder
<1> QED  BY <1>1, <1>3, <1>4, StartedLinked

----------------------------------------------------------------------------
\* The lists and the lookups of objects of a type

\* The types of the objects that each class lists by their type codes.
TypesListed ==
    [Network |->
        {"Connectable", "Branch", "HvdcConverterStation", "Substation", "Battery", "Generator",
         "Load", "Line", "TwoWindingsTransformer", "ThreeWindingsTransformer", "HvdcLine",
         "ShuntCompensator", "StaticVarCompensator", "BoundaryLine", "TieLine", "Ground", "Area",
         "VscConverterStation", "LccConverterStation", "Switch", "BusbarSection", "Identifiable",
         "VoltageAngleLimit"},
     VoltageLevel |->
        {"Generator", "Load", "Battery", "ShuntCompensator", "StaticVarCompensator", "BoundaryLine",
         "LccConverterStation", "VscConverterStation", "Line", "TwoWindingsTransformer",
         "ThreeWindingsTransformer", "Connectable", "Ground", "Switch", "BusbarSection", "Area"},
     Bus |->
        {"Line", "TwoWindingsTransformer", "ThreeWindingsTransformer", "Generator", "Battery",
         "Load", "ShuntCompensator", "BoundaryLine", "StaticVarCompensator", "LccConverterStation",
         "VscConverterStation"},
     Substation |-> {"TwoWindingsTransformer", "ThreeWindingsTransformer"}]

LEMMA TypesHaveCases ==
  /\ \A code \in {"GENERATOR", "LOAD", "BATTERY", "SHUNT_COMPENSATOR", "STATIC_VAR_COMPENSATOR",
                  "BOUNDARY_LINE", "LCC_CONVERTER_STATION", "VSC_CONVERTER_STATION", "LINE"} :
       HasCase(ChildrenOfType, {code}, {"VoltageLevel", "Bus", "Network"})
  /\ \A code \in {"TWO_WINDINGS_TRANSFORMER", "THREE_WINDINGS_TRANSFORMER"} :
       HasCase(ChildrenOfType, {code}, {"Substation", "VoltageLevel", "Bus", "Network"})
  /\ \A code \in {"CONNECTABLE", "AREA", "GROUND", "SWITCH", "BUSBAR_SECTION"} :
       HasCase(ChildrenOfType, {code}, {"VoltageLevel", "Network"})
  /\ \A code \in {"IDENTIFIABLE", "BRANCH", "HVDC_CONVERTER_STATION", "SUBSTATION",
                  "VOLTAGE_ANGLE_LIMIT", "HVDC_LINE", "TIE_LINE", "NETWORK"} :
       HasCase(ChildrenOfType, {code}, {"Network"})
  /\ \A code \in {"CURRENT_LIMITS", "ACTIVE_POWER_LIMITS", "APPARENT_POWER_LIMITS"} :
       HasCase(ChildrenOfType, {code}, LimitsHolder)
<1>1. ASSUME NEW codes, NEW on, EachOf(codes, on, InstanceOf) \subseteq ChildrenOfType
      PROVE  \A code \in codes : HasCase(ChildrenOfType, {code}, on)
  <2> SUFFICES ASSUME NEW code \in codes, NEW kind \in on
               PROVE  \E c \in ChildrenOfType : code \in c.codes /\ kind \in c.on
    BY DEF HasCase
  <2>1. Case({code}, on, InstanceOf[code]) \in ChildrenOfType
    BY <1>1 DEF EachOf
  <2> QED  BY <2>1 DEF Case
<1> QED  BY <1>1 DEF ChildrenOfType

\* A class with a type code is for the objects that instanceof answers true for.
LEMMA TypedClasses ==
  \A class \in DOMAIN TypeCode : class \in MadeClasses /\ KindsFor(class) =
        InstanceOf[TypeCode[class]]
BY DEF MadeClasses, KindsFor

LEMMA TypesListedLinked ==
  \A class \in DOMAIN TypesListed : \A child \in TypesListed[class] :
    Linked(class, "getChildren", "many", TypeCode[child], child)
<1>1. \A class \in DOMAIN TypesListed : \A child \in TypesListed[class] : child \in DOMAIN TypeCode
  BY DEF TypesListed, TypeCode
<1>2. \A class \in DOMAIN TypesListed : KindsUnder(class) = {class} /\ class \in Kinds
  BY KindsOfClasses, KindsOfOthers, KindNames DEF TypesListed
<1>3. \A child \in TypesListed["Network"] : HasCase(ChildrenOfType, {TypeCode[child]}, {"Network"})
  BY TypesHaveCases DEF TypesListed, TypeCode, HasCase
<1>4. \A child \in TypesListed["VoltageLevel"] :
        HasCase(ChildrenOfType, {TypeCode[child]}, {"VoltageLevel"})
  BY TypesHaveCases DEF TypesListed, TypeCode, HasCase
<1>5. \A child \in TypesListed["Bus"] : HasCase(ChildrenOfType, {TypeCode[child]}, {"Bus"})
  BY TypesHaveCases DEF TypesListed, TypeCode, HasCase
<1>6. \A child \in TypesListed["Substation"] :
        HasCase(ChildrenOfType, {TypeCode[child]}, {"Substation"})
  BY TypesHaveCases DEF TypesListed, TypeCode, HasCase
<1>7. \A class \in DOMAIN TypesListed : class \in {"Network", "VoltageLevel", "Bus", "Substation"}
  BY DEF TypesListed
<1>8. \A class \in DOMAIN TypesListed : \A child \in TypesListed[class] :
        HasCase(ChildrenOfType, {TypeCode[child]}, KindsUnder(class))
  BY <1>2, <1>3, <1>4, <1>5, <1>6, <1>7
<1> QED  BY <1>1, <1>2, <1>8, TypedClasses, ChildrenOfTypeLinked

\* The other lists by type: a network's subnetworks, the busbar sections of a view.
LEMMA OthersListedLinked ==
  /\ Linked("Network", "getChildren", "many", "NETWORK", "Network")
  /\ Linked("VoltageLevel.NodeBreakerView", "getChildren", "many", "BUSBAR_SECTION",
       "BusbarSection")
<1>1. Linked("VoltageLevel.NodeBreakerView", "getChildren", "many", "BUSBAR_SECTION",
        "BusbarSection")
  <2>1. /\ InstanceOf["BUSBAR_SECTION"] = {"BusbarSection"} /\ "BusbarSection" \in MadeClasses
        /\ KindsFor("BusbarSection") = {"BusbarSection"}
        /\ KindsUnder("VoltageLevel.NodeBreakerView") = {"VoltageLevel"} /\ "VoltageLevel" \in Kinds
    BY KindsOfClasses, KindsOfViews, KindNames, MadeNames DEF InstanceOf
  <2>2. HasCase(ChildrenOfType, {"BUSBAR_SECTION"}, {"VoltageLevel"})
    BY TypesHaveCases DEF HasCase
  <2> QED  BY <2>1, <2>2, ChildrenOfTypeLinked
<1>2. Linked("Network", "getChildren", "many", "NETWORK", "Network")
  <2>1. KindsUnder("Network") = {"Network"} /\ KindsFor("Network") = {"Network"}
          /\ "Network" \in Kinds
    BY KindsOfOthers, KindNames
  <2>2. HasCase(ChildrenOfType, {"NETWORK"}, {"Network"})
    BY TypesHaveCases
  <2>3. "Network" \in MadeClasses /\ InstanceOf["NETWORK"] = {"Network"}
    BY DEF MadeClasses, InstanceOf
  <2> QED  BY <2>1, <2>2, <2>3, ChildrenOfTypeLinked
<1> QED  BY <1>1, <1>2

\* The loading limits of a holder, each in a wrapper of its class or of their base.
LEMMA LimitsListedLinked ==
  \A child \in LimitTypes :
    /\ Linked("FlowsLimitsHolderMethods", "getChildren", "many", TypeCode[child], child)
    /\ Linked("FlowsLimitsHolderMethods", "getChildren", "many", TypeCode[child], "LoadingLimits")
<1> SUFFICES ASSUME NEW child \in LimitTypes
             PROVE  /\ Linked("FlowsLimitsHolderMethods", "getChildren", "many", TypeCode[child],
                           child)
                    /\ Linked("FlowsLimitsHolderMethods", "getChildren", "many", TypeCode[child],
                              "LoadingLimits")
  OBVIOUS
<1>1. child \in {"CurrentLimits", "ActivePowerLimits", "ApparentPowerLimits"}
  BY DEF LimitTypes
<1>2. /\ child \in DOMAIN TypeCode
      /\ TypeCode[child] \in {"CURRENT_LIMITS", "ACTIVE_POWER_LIMITS", "APPARENT_POWER_LIMITS"}
  BY <1>1 DEF TypeCode
<1>3. /\ KindsUnder("FlowsLimitsHolderMethods") = LimitsHolder
      /\ KindsUnder("FlowsLimitsHolderMethods") \subseteq Kinds
  BY KindsOfBases, TypesAreKinds
<1>4. HasCase(ChildrenOfType, {TypeCode[child]}, LimitsHolder)
  BY <1>2, TypesHaveCases
<1>5. Linked("FlowsLimitsHolderMethods", "getChildren", "many", TypeCode[child], child)
  BY <1>2, <1>3, <1>4, TypedClasses, ChildrenOfTypeLinked
<1>6. KindsFor(child) = {child} /\ KindsFor("LoadingLimits") = LoadingLimits
        /\ child \in LoadingLimits
  BY <1>1, KindsOfClasses, KindsOfPartTypes DEF LoadingLimits
<1>7. LoadingLimits \subseteq Objects
  BY TypesAreKinds DEF Objects
<1>8. Linked("FlowsLimitsHolderMethods", "getChildren", "many", TypeCode[child], "LoadingLimits")
  BY <1>5, <1>6, <1>7 DEF Linked, Taken
<1> QED  BY <1>5, <1>8

\* find<T>(): every type that a network finds by an identifier.
TypesFound ==
    {"Connectable", "Branch", "HvdcConverterStation", "Substation", "VoltageLevel", "Battery",
     "Generator", "Load", "Line", "TwoWindingsTransformer", "ThreeWindingsTransformer", "HvdcLine",
     "ShuntCompensator", "StaticVarCompensator", "BoundaryLine", "TieLine", "Ground", "Area",
     "OverloadManagementSystem", "VscConverterStation", "LccConverterStation", "Switch",
     "BusbarSection", "Identifiable", "VoltageAngleLimit"}

CodesFound ==
    {"NETWORK", "CONNECTABLE", "BRANCH", "HVDC_CONVERTER_STATION", "SUBSTATION", "VOLTAGE_LEVEL",
     "BATTERY", "GENERATOR", "LOAD", "LINE", "TWO_WINDINGS_TRANSFORMER",
     "THREE_WINDINGS_TRANSFORMER", "HVDC_LINE", "SHUNT_COMPENSATOR", "STATIC_VAR_COMPENSATOR",
     "BOUNDARY_LINE", "TIE_LINE", "GROUND", "AREA", "OVERLOAD_MANAGEMENT_SYSTEM",
     "VSC_CONVERTER_STATION", "LCC_CONVERTER_STATION", "SWITCH", "BUSBAR_SECTION", "IDENTIFIABLE",
     "VOLTAGE_ANGLE_LIMIT"}

LEMMA LookupsHaveCases == \A code \in CodesFound : HasCase(FindByIdCases, {code}, {"Network"})
<1> SUFFICES ASSUME NEW code \in CodesFound
             PROVE  \E c \in FindByIdCases : code \in c.codes /\ "Network" \in c.on
  BY DEF HasCase
<1>1. Finds({code}, {"Network"}, InstanceOf[code]) \in FindByIdCases
  BY DEF FindByIdCases, CodesFound
<1> QED  BY <1>1 DEF Finds, Case

LEMMA TypesFoundLinked ==
  /\ \A child \in TypesFound : Linked("Network", "getRelatedByString", "maybe", TypeCode[child],
       child)
  /\ Linked("Network", "getRelatedByString", "maybe", "NETWORK", "Network")
<1>1. \A child \in TypesFound : child \in DOMAIN TypeCode
  BY DEF TypesFound, TypeCode
<1>2. \A child \in TypesFound : HasCase(FindByIdCases, {TypeCode[child]}, {"Network"})
  <2>1. \A child \in TypesFound : TypeCode[child] \in CodesFound
    BY DEF TypesFound, TypeCode, CodesFound
  <2> QED  BY <2>1, LookupsHaveCases
<1>3. \A child \in TypesFound :
        Linked("Network", "getRelatedByString", "maybe", TypeCode[child], child)
  BY <1>1, <1>2, TypedClasses, LookedUpLinked
<1>4. /\ "Network" \in MadeClasses /\ InstanceOf["NETWORK"] = {"Network"}
      /\ KindsFor("Network") = {"Network"}
  BY KindsOfOthers DEF MadeClasses, InstanceOf
<1>5. HasCase(FindByIdCases, {"NETWORK"}, {"Network"})
  BY LookupsHaveCases DEF CodesFound
<1>6. Linked("Network", "getRelatedByString", "maybe", "NETWORK", "Network")
  BY <1>4, <1>5, LookedUpLinked
<1> QED  BY <1>3, <1>6

----------------------------------------------------------------------------
\* Counts, copies, calls in steps and the other forms

\* What is listed can be counted.
LEMMA CountsServed ==
  ASSUME NEW class, NEW codes,
         \A code \in codes : \E gives : Linked(class, "getChildren", "many", code, gives)
  PROVE  Served(class, "countChildren", codes)
<1>1. \A code, kind : Answers("countChildren", code, kind) = Answers("getChildren", code, kind)
  <2>1. /\ "countChildren" \in DOMAIN OnObject /\ "countChildren" \notin DOMAIN OnAdder
        /\ "getChildren" \in DOMAIN OnObject /\ "getChildren" \notin DOMAIN OnAdder
        /\ OnObject["countChildren"] = OnObject["getChildren"]
    BY DEF OnObject, OnAdder
  <2> QED  BY <2>1 DEF Answers
<1> QED  BY <1>1 DEF Served, Linked

\* An adder with an object of its own makes a wrapper of the class of this object.
LEMMA AddersMake ==
  ASSUME NEW adder \in DOMAIN Added, NEW class, class = Added[adder]
  PROVE  \A r \in Makes(adder, class) : Fits(r)
<1>1. KindsUnder(adder) = {adder}
  BY KindsOfEachAdder DEF Added
<1>2. KindsFor(class) = {class} /\ class \in Kinds
  BY KindsOfClasses, KindsOfOthers, KindNames DEF Added
<1>3. Linked(adder, "invoke", "one", "ACT_ADD", class)
  BY <1>1, <1>2, MadeLinked DEF Objects
<1> QED  BY <1>3, MakesFit

\* So does the add() of the others answer, with nothing.
LEMMA AdderReturns ==
  ASSUME NEW adder \in Adders \ DOMAIN Added, KindsUnder(adder) = {adder}
  PROVE  \A r \in Returns(adder) : Fits(r)
<1> DEFINE next == EquipmentAdderCases \cup PartAdderCases
<1>1. Writes({"ACT_ADD"}, Adders \ DOMAIN Added) \in AddCases
  BY DEF AddCases
<1>2. Given(AddCases, "ACT_ADD", adder) # {}
  BY <1>1 DEF Given, Writes, Case
<1>3. "invoke" \in DOMAIN OnAdder /\ OnAdder["invoke"] = <<AddCases, next>>
  BY AdderFunctions
<1>4. \E c \in AddCases : "ACT_ADD" \in c.codes
  BY <1>1 DEF Writes, Case
<1> HIDE DEF next
<1>5. Answers("invoke", "ACT_ADD", adder) = Given(AddCases, "ACT_ADD", adder)
  BY <1>3, <1>4, AnswersAdder
<1>6. Served(adder, "invoke", {"ACT_ADD"})
  BY <1>2, <1>5 DEF Served
<1> QED  BY <1>6, ReturnsFit

\* The adders that are started inside another, and those of what has properties.
AddersInside ==
    {"BranchTrippingAdder", "ExponentialLoadModelAdder", "GenerationAdder",
     "InternalConnectionAdder", "LegAdder", "PhaseTapChangerStepAdder",
     "PhaseTapChangerStepsReplacer", "PointAdder", "RatioTapChangerStepAdder",
     "RatioTapChangerStepsReplacer", "SectionAdder", "ShuntCompensatorLinearModelAdder",
     "ShuntCompensatorNonLinearModelAdder", "SwitchTrippingAdder", "TemporaryLimitAdder",
     "ThreeWindingsTransformerTrippingAdder", "VoltageRegulationAdder", "ZipLoadModelAdder"}

LEMMA AddersReturn == \A adder \in AddersInside : \A r \in Returns(adder) : Fits(r)
<1>1. \A adder \in AddersInside : adder \in Adders \ DOMAIN Added /\ KindsUnder(adder) = {adder}
  BY AdderNames, KindsOfEachAdder DEF AddersInside, Added
<1> QED  BY <1>1, AdderReturns

AddersWithProperties ==
    {"ActivePowerLimitsAdder", "ApparentPowerLimitsAdder", "BranchTrippingAdder",
     "CurrentLimitsAdder", "ExponentialLoadModelAdder", "PhaseTapChangerAdder",
     "PhaseTapChangerStepAdder", "PointAdder", "RatioTapChangerAdder",
     "RatioTapChangerStepAdder", "ReactiveCapabilityCurveAdder", "ReactiveCapabilityShapeAdder",
     "SwitchTrippingAdder", "TemporaryLimitAdder", "ThreeWindingsTransformerTrippingAdder",
     "VoltageAngleLimitAdder", "ZipLoadModelAdder"}

\* The properties of what an adder will make.
LEMMA PropertiesSet ==
  ASSUME NEW adders, adders \subseteq AddersWithProperties
  PROVE  \A r \in SetsProperties(adders) : Fits(r)
<1> SUFFICES ASSUME NEW adder \in adders
             PROVE  \A r \in Values(adder, [setKeyedString |-> {"PROPERTY"}]) : Fits(r)
  BY DEF SetsProperties
<1> DEFINE calls == [setKeyedString |-> {"PROPERTY"}]
<1>0. adder \in PropertiesHolderAdder /\ KindsUnder(adder) = {adder}
  BY KindsOfEachAdder DEF AddersWithProperties, PropertiesHolderAdder, TapChangerAdder,
     TapChangerStepAdder, LoadingLimitsAdder, ReactiveLimitsAdder, LoadModelAdder, TrippingAdder
<1>1. HasCase(SetKeyedStringFields, {"PROPERTY"}, KindsUnder(adder))
  BY <1>0 DEF HasCase, SetKeyedStringFields, Writes, Case
<1>2. Served(adder, "setKeyedString", {"PROPERTY"})
  BY <1>1, SwitchesDecide, CasesServe
<1>3. \A op \in DOMAIN calls : Served(adder, op, calls[op])
  BY <1>2
<1> HIDE DEF calls
<1>4. \A r \in Values(adder, calls) : Fits(r)
  BY <1>3, ValuesFit
<1> QED  BY <1>4 DEF calls

\* A call in steps answers what its case answers.
LEMMA CallAnswers ==
  ASSUME NEW c \in CallsInSteps, NEW kind \in c.on, NEW fields, fields \subseteq c.fields
  PROVE  c.gives \subseteq AnswersInSteps(c.code, kind, fields)
BY DEF AnswersInSteps

LEMMA CallDoes ==
  ASSUME NEW c \in CallsInSteps, c.gives # {}, NEW class, KindsUnder(class) \subseteq c.on,
         NEW fields, fields \subseteq c.fields
  PROVE  \A r \in Does(class, c.code, fields) : Fits(r)
<1>1. \A kind \in KindsUnder(class) : AnswersInSteps(c.code, kind, fields) # {}
  BY CallAnswers
<1> QED  BY <1>1, DoesFit

\* All that the calls by this code answer is taken.
TakenInSteps(code, how, gives) ==
    \A d \in CallsInSteps : d.code = code => d.gives \subseteq Taken(how, gives)

LEMMA CallGives ==
  ASSUME NEW c \in CallsInSteps, c.gives # {}, NEW class, KindsUnder(class) \subseteq c.on,
         NEW fields, fields \subseteq c.fields, NEW how \in {"one", "maybe"},
         NEW gives \in MadeClasses, TakenInSteps(c.code, how, gives)
  PROVE  \A r \in Steps(class, c.code, fields, how, gives) : Fits(r)
<1>1. ASSUME NEW kind \in KindsUnder(class)
      PROVE  /\ AnswersInSteps(c.code, kind, fields) # {}
             /\ AnswersInSteps(c.code, kind, fields) \subseteq Taken(how, gives)
  <2>1. AnswersInSteps(c.code, kind, fields) # {}
    BY CallAnswers
  <2>2. AnswersInSteps(c.code, kind, fields) \subseteq Taken(how, gives)
    BY DEF AnswersInSteps, TakenInSteps
  <2> QED  BY <2>1, <2>2
<1>2. KindsFor(gives) \subseteq Objects
  BY MadeKinds
<1> QED  BY <1>1, <1>2, StepsFit

LEMMA ConnectCodes == \A code : \A c \in CallsToConnect(code) : c.code = code
<1> SUFFICES ASSUME NEW code, NEW c \in CallsToConnect(code) PROVE c.code = code
  OBVIOUS
<1>1. PICK k \in Connectables :
        c = Call(code, {k}, {"SWITCH_PREDICATE", "TERMINAL_SIDE"}, Maybe({k}))
  BY DEF CallsToConnect
<1> QED  BY <1>1 DEF Call

LEMMA ConnectCalls ==
  ASSUME NEW code \in {"CONNECT", "DISCONNECT"}, NEW kind \in Connectables
  PROVE  \E c \in CallsInSteps :
           /\ c.code = code /\ c.on = {kind} /\ c.gives = Maybe({kind})
           /\ c.fields = {"SWITCH_PREDICATE", "TERMINAL_SIDE"}
<1> DEFINE c == Call(code, {kind}, {"SWITCH_PREDICATE", "TERMINAL_SIDE"}, Maybe({kind}))
<1>1. c \in CallsToConnect(code)
  BY DEF CallsToConnect
<1>2. /\ c.code = code /\ c.on = {kind} /\ c.gives = Maybe({kind})
      /\ c.fields = {"SWITCH_PREDICATE", "TERMINAL_SIDE"}
  BY DEF Call
<1> HIDE DEF c
<1>3. c \in CallsInSteps
  BY <1>1 DEF CallsInSteps
<1> QED  BY <1>2, <1>3

\* connectThrough() of whatever connects.
LEMMA ConnectsFit ==
  ASSUME NEW class \in {"Connectable", "Terminal", "HvdcLine", "TieLine"},
         NEW sides, sides \subseteq {"TERMINAL_SIDE"}
  PROVE  \A r \in Connects(class, sides) : Fits(r)
<1>1. KindsUnder(class) \subseteq Connectables
  BY KindsOfTypes, KindsOfClasses, KindsOfOthers DEF Connectables
<1>2. ASSUME NEW code \in {"CONNECT", "DISCONNECT"}, NEW fields,
             fields \subseteq {"SWITCH_PREDICATE", "TERMINAL_SIDE"}
      PROVE  \A r \in Does(class, code, fields) : Fits(r)
  <2>1. ASSUME NEW kind \in KindsUnder(class)
        PROVE  AnswersInSteps(code, kind, fields) # {}
    <3>1. PICK c \in CallsInSteps :
            /\ c.code = code /\ c.on = {kind} /\ c.gives = Maybe({kind})
            /\ c.fields = {"SWITCH_PREDICATE", "TERMINAL_SIDE"}
      BY <1>1, ConnectCalls
    <3>2. c.gives \subseteq AnswersInSteps(code, kind, fields)
      BY <1>2, <3>1, CallAnswers
    <3> QED  BY <3>1, <3>2 DEF Maybe
  <2> QED  BY <2>1, DoesFit
<1>3. \A r \in Values(class, [invoke |-> {"ACT_CONNECT", "ACT_DISCONNECT"}]) : Fits(r)
  <2> DEFINE calls == [invoke |-> {"ACT_CONNECT", "ACT_DISCONNECT"}]
  <2>1. Served(class, "invoke", {"ACT_CONNECT", "ACT_DISCONNECT"})
    BY ConnectAskedServed DEF ConnectAsked
  <2>2. \A op \in DOMAIN calls : Served(class, op, calls[op])
    BY <2>1
  <2> HIDE DEF calls
  <2>3. \A r \in Values(class, calls) : Fits(r)
    BY <2>2, ValuesFit
  <2> QED  BY <2>3 DEF calls
<1>4. ASSUME NEW fields, fields \subseteq {"SWITCH_PREDICATE", "TERMINAL_SIDE"}
      PROVE  \A r \in ConnectsThrough(class, fields) : Fits(r)
  BY <1>2, <1>4 DEF ConnectsThrough
<1>5. \A r \in ConnectsThrough(class, {"SWITCH_PREDICATE"} \cup sides) : Fits(r)
  BY <1>4
<1>6. \A r \in ConnectsThrough(class, {"SWITCH_PREDICATE"}) : Fits(r)
  BY <1>4
<1> QED  BY <1>3, <1>5, <1>6 DEF Connects

\* OverloadChecks.h
LEMMA OverloadChecksFit ==
  ASSUME NEW class \in {"BranchMethods", "ThreeWindingsTransformer"}
  PROVE  \A r \in OverloadChecks(class) : Fits(r)
<1> DEFINE calls == [evaluate2 |-> {"CHECK_PERMANENT_LIMIT"}, evaluate3 |->
             {"CHECK_PERMANENT_LIMIT"}]
<1>1. KindsUnder(class) \subseteq OverloadChecked
  BY KindsOfBases, KindsOfClasses DEF OverloadChecked
<1>2. Served(class, "evaluate2", {"CHECK_PERMANENT_LIMIT"})
  BY Evaluate2AskedServed DEF Evaluate2Asked
<1>3. Served(class, "evaluate3", {"CHECK_PERMANENT_LIMIT"})
  BY Evaluate3AskedServed DEF Evaluate3Asked
<1>4. \A op \in DOMAIN calls : Served(class, op, calls[op])
  BY <1>2, <1>3
<1>5. "Overload" \in MadeClasses /\ "OverloadList" \in MadeClasses
  BY MadeNames DEF MadeClasses
<1>6. ASSUME NEW fields \in {{"TERMINAL_SIDE", "LL_LIMIT_TYPE"},
                             {"TERMINAL_SIDE", "LIMIT_REDUCTION", "LL_LIMIT_TYPE"}}
      PROVE  \A r \in Steps(class, "CHECK_TEMPORARY_LIMITS", fields, "maybe", "Overload") : Fits(r)
  <2> DEFINE c == Call("CHECK_TEMPORARY_LIMITS", OverloadChecked, OverloadCheckFields,
               Maybe({"Overload"}))
  <2>1. c \in CallsInSteps
    BY DEF CallsInSteps
  <2>2. /\ c.code = "CHECK_TEMPORARY_LIMITS" /\ c.on = OverloadChecked
        /\ c.fields = OverloadCheckFields /\ c.gives = Maybe({"Overload"})
    BY DEF Call
  <2>3. c.gives # {} /\ fields \subseteq c.fields
    BY DEF Maybe, OverloadCheckFields, Call
  <2>4. Taken("maybe", "Overload") = Maybe({"Overload"})
    BY KindsOfClasses, KindsOfOthers DEF Taken
  <2>5. TakenInSteps("CHECK_TEMPORARY_LIMITS", "maybe", "Overload")
    BY <2>4, ConnectCodes DEF TakenInSteps, CallsInSteps, Call
  <2> HIDE DEF c
  <2> QED  BY <1>1, <1>5, <2>1, <2>2, <2>3, <2>5, CallGives
<1>7. ASSUME NEW fields \in {{"TERMINAL_SIDE", "LL_LIMIT_TYPE"},
                             {"TERMINAL_SIDE", "LIMIT_REDUCTION", "LL_LIMIT_TYPE"}}
      PROVE  \A r \in Steps(class, "CHECK_ALL_TEMPORARY_LIMITS", fields, "one", "OverloadList") :
                 Fits(r)
  <2> DEFINE c == Call("CHECK_ALL_TEMPORARY_LIMITS", OverloadChecked, OverloadCheckFields,
               {"OverloadList"})
  <2>1. c \in CallsInSteps
    BY DEF CallsInSteps
  <2>2. /\ c.code = "CHECK_ALL_TEMPORARY_LIMITS" /\ c.on = OverloadChecked
        /\ c.fields = OverloadCheckFields /\ c.gives = {"OverloadList"}
    BY DEF Call
  <2>3. c.gives # {} /\ fields \subseteq c.fields
    BY DEF Maybe, OverloadCheckFields, Call
  <2>4. Taken("one", "OverloadList") = {"OverloadList"}
    BY KindsOfClasses, KindsOfOthers DEF Taken
  <2>5. TakenInSteps("CHECK_ALL_TEMPORARY_LIMITS", "one", "OverloadList")
    BY <2>4, ConnectCodes DEF TakenInSteps, CallsInSteps, Call
  <2> HIDE DEF c
  <2> QED  BY <1>1, <1>5, <2>1, <2>2, <2>3, <2>5, CallGives
<1> HIDE DEF calls
<1>8. \A r \in Values(class, calls) : Fits(r)
  BY <1>4, ValuesFit
<1> QED  BY <1>6, <1>7, <1>8 DEF OverloadChecks, calls

\* Copies of what the class of the adder can restart.
LEMMA CopiesStart ==
  /\ Copied("Network", "LINE", "LineAdder")
  /\ Copied("Substation", "TWO_WINDINGS_TRANSFORMER", "TwoWindingsTransformerAdder")
  /\ Copied("ReactiveLimitsHolderMethods", "REACTIVE_CAPABILITY_CURVE",
            "ReactiveCapabilityCurveAdder")
  /\ Copied("TapChangerHolderMethods", "RATIO_TAP_CHANGER", "RatioTapChangerAdder")
  /\ Copied("TapChangerHolderMethods", "PHASE_TAP_CHANGER", "PhaseTapChangerAdder")
  /\ Copied("OperationalLimitsGroup", "CURRENT_LIMITS", "CurrentLimitsAdder")
  /\ Copied("OperationalLimitsGroup", "ACTIVE_POWER_LIMITS", "ActivePowerLimitsAdder")
  /\ Copied("OperationalLimitsGroup", "APPARENT_POWER_LIMITS", "ApparentPowerLimitsAdder")
<1>1. ASSUME NEW ask \in {<<"Network", "LINE", "LineAdder">>,
                          <<"Substation", "TWO_WINDINGS_TRANSFORMER",
                            "TwoWindingsTransformerAdder">>}
      PROVE  Copied(ask[1], ask[2], ask[3])
  <2>1. ask[3] \in DOMAIN Added /\ KindsUnder(ask[1]) \subseteq CopyCases[Added[ask[3]]]
    BY <1>1, KindsOfClasses, KindsOfOthers DEF Added, CopyCases
  <2>2. HasCase(EquipmentAdderCases, {ask[2]}, KindsUnder(ask[1]))
    BY <1>1, KindsOfClasses, KindsOfOthers DEF HasCase, EquipmentAdderCases, Case
  <2>3. GivesOnly(EquipmentAdderCases, {ask[2]}, KindsUnder(ask[1]), {ask[3]})
    BY <1>1, KindsOfClasses, KindsOfOthers DEF GivesOnly, EquipmentAdderCases, Case
  <2> QED  BY <2>1, <2>2, <2>3, StartedCopied
<1>2. ASSUME NEW ask \in {<<"ReactiveLimitsHolderMethods", "REACTIVE_CAPABILITY_CURVE",
                            "ReactiveCapabilityCurveAdder">>,
                          <<"TapChangerHolderMethods", "RATIO_TAP_CHANGER",
                            "RatioTapChangerAdder">>,
                          <<"TapChangerHolderMethods", "PHASE_TAP_CHANGER",
                            "PhaseTapChangerAdder">>,
                          <<"OperationalLimitsGroup", "CURRENT_LIMITS", "CurrentLimitsAdder">>,
                          <<"OperationalLimitsGroup", "ACTIVE_POWER_LIMITS",
                            "ActivePowerLimitsAdder">>,
                          <<"OperationalLimitsGroup", "APPARENT_POWER_LIMITS",
                            "ApparentPowerLimitsAdder">>}
      PROVE  Copied(ask[1], ask[2], ask[3])
  <2>1. ask[3] \in DOMAIN Added /\ KindsUnder(ask[1]) \subseteq CopyCases[Added[ask[3]]]
    BY <1>2, KindsOfBases, KindsOfClasses DEF Added, CopyCases
  <2>2. HasCase(PartAdderCases, {ask[2]}, KindsUnder(ask[1]))
    BY <1>2, KindsOfBases, KindsOfClasses DEF HasCase, PartAdderCases, Case
  <2>3. GivesOnly(PartAdderCases, {ask[2]}, KindsUnder(ask[1]), {ask[3]})
    BY <1>2, KindsOfBases, KindsOfClasses DEF GivesOnly, PartAdderCases, Case
  <2> QED  BY <2>1, <2>2, <2>3, StartedCopied
<1> QED  BY <1>1, <1>2

\* A network that is taken out of another is one.
LEMMA DetachedLinked == Linked("Network", "invoke", "one", "ACT_DETACH", "Network")
<1> DEFINE first == ConnectCases \cup ActionCases \cup RemoveCases
           next == EquipmentAdderCases \cup PartAdderCases
<1>1. /\ KindsUnder("Network") = {"Network"} /\ KindsFor("Network") = {"Network"}
      /\ "Network" \in Objects /\ "Network" \notin Adders
  BY KindsOfOthers, KindNames, KindsDisjoint DEF Objects
<1>2. Case({"ACT_DETACH"}, {"Network"}, {"Network"}) \in first
  BY DEF ActionCases
<1>3. \A c \in ActionCases : "ACT_DETACH" \in c.codes => c.gives = {"Network"}
  BY DEF ActionCases, Writes, Case
<1>4. ASSUME NEW c \in ConnectCases
      PROVE  "ACT_DETACH" \notin c.codes
  <2>1. PICK k \in Connectables : c = Finds({"ACT_CONNECT", "ACT_DISCONNECT"}, {k}, {k})
    BY DEF ConnectCases
  <2> QED  BY <2>1 DEF Finds, Case
<1>5. \A c \in RemoveCases : "ACT_DETACH" \notin c.codes
  BY DEF RemoveCases, Writes, Case
<1>6. \A c \in first : "ACT_DETACH" \in c.codes => c.gives = {"Network"}
  BY <1>3, <1>4, <1>5
<1>7. \E c \in first : "ACT_DETACH" \in c.codes /\ "Network" \in c.on /\ c.gives = {"Network"}
  BY <1>2 DEF Case
<1>8. "invoke" \in DOMAIN OnObject /\ OnObject["invoke"] = <<first, next>>
  BY ObjectFunctions
<1> HIDE DEF first, next
<1>9. Answers("invoke", "ACT_DETACH", "Network") = Given(first, "ACT_DETACH", "Network")
  BY <1>1, <1>7, <1>8, AnswersObject
<1>10. Given(first, "ACT_DETACH", "Network") = {"Network"}
  BY <1>6, <1>7 DEF Given
<1> QED  BY <1>1, <1>9, <1>10 DEF Linked, Taken

\* The codes of types are answered about any object.
LEMMA TypesAnswered ==
  \A class \in DOMAIN TypeCode, kind \in Kinds : Answers("getBool", TypeCode[class], kind) # {}
<1>1. \A class \in DOMAIN TypeCode : TypeCode[class] \in DOMAIN InstanceOf
  BY DEF TypeCode, InstanceOf
<1>2. Reads(DOMAIN InstanceOf, Kinds) \in GetBoolCases
  BY DEF GetBoolCases
<1>3. Decides("getBool", GetBoolCases)
  BY BoolsDecide
<1>4. ASSUME NEW code \in DOMAIN InstanceOf, NEW kind \in Kinds
      PROVE  Answers("getBool", code, kind) # {}
  BY <1>2, <1>3 DEF Decides, Reads, Case
<1> QED  BY <1>1, <1>4


\* A call in steps of the list of them: what it does, and what is made of its answer.
LEMMA CallDone ==
  ASSUME NEW class, NEW code, NEW on, NEW all, NEW gives, NEW fields,
         Call(code, on, all, gives) \in CallsInSteps, gives # {},
         KindsUnder(class) \subseteq on, fields \subseteq all
  PROVE  \A r \in Does(class, code, fields) : Fits(r)
<1> DEFINE c == Call(code, on, all, gives)
<1>1. c.code = code /\ c.on = on /\ c.fields = all /\ c.gives = gives
  BY DEF Call
<1>2. c \in CallsInSteps
  OBVIOUS
<1> HIDE DEF c
<1> QED  BY <1>1, <1>2, CallDoes

LEMMA CallTaken ==
  ASSUME NEW class, NEW code, NEW on, NEW all, NEW gives, NEW fields,
         Call(code, on, all, gives) \in CallsInSteps, gives # {},
         KindsUnder(class) \subseteq on, fields \subseteq all,
         NEW how \in {"one", "maybe"}, NEW made \in MadeClasses, TakenInSteps(code, how, made)
  PROVE  \A r \in Steps(class, code, fields, how, made) : Fits(r)
<1> DEFINE c == Call(code, on, all, gives)
<1>1. c.code = code /\ c.on = on /\ c.fields = all /\ c.gives = gives
  BY DEF Call
<1>2. c \in CallsInSteps
  OBVIOUS
<1> HIDE DEF c
<1> QED  BY <1>1, <1>2, CallGives
----------------------------------------------------------------------------
\* The accessors of one form

\* All these values are answered, numbers are read and written, and all these links are made.
Serves(class, calls) == \A op \in DOMAIN calls : Served(class, op, calls[op])

ServesNumbers(class, codes) ==
    Served(class, "getDouble", codes) /\ Served(class, "setDouble", codes)

Gives(class, op, how, links) == \A link \in links : Linked(class, op, how, link[1], link[2])

Starts(class, adders) == Gives(class, "invoke", "one", adders)

Restarts(class, adders) == \A adder \in adders : Copied(class, adder[1], adder[2])

LEMMA ServesFit ==
  ASSUME NEW class, NEW calls, Serves(class, calls)
  PROVE  \A r \in Values(class, calls) : Fits(r)
BY ValuesFit DEF Serves

LEMMA ServesNumbersFit ==
  ASSUME NEW class, NEW codes, ServesNumbers(class, codes)
  PROVE  \A r \in Numbers(class, codes) : Fits(r)
BY NumbersFit DEF ServesNumbers

LEMMA GivesFit ==
  ASSUME NEW class, NEW op, NEW how, NEW links, Gives(class, op, how, links)
  PROVE  \A r \in Links(class, op, how, links) : Fits(r)
BY LinksFit DEF Gives

LEMMA StartsFit ==
  ASSUME NEW class, NEW adders, Starts(class, adders)
  PROVE  \A r \in Adds(class, adders) : Fits(r)
BY AddsFit DEF Starts, Gives

LEMMA RestartsFit ==
  ASSUME NEW class, NEW adders, Restarts(class, adders)
  PROVE  \A r \in Copies(class, adders) : Fits(r)
BY CopiesFit DEF Restarts

\* The links of classes to themselves.
LEMMA GivesTypes ==
  ASSUME NEW class, NEW op, NEW how, NEW classes,
         \A c \in classes : Linked(class, op, how, TypeCode[c], c)
  PROVE  Gives(class, op, how, OfType(classes))
BY DEF Gives, OfType

----------------------------------------------------------------------------
\* Containers

LEMMA NetworkAddersFit == \A r \in NetworkAdders : Fits(r)
<1>1. /\ Starts("Network", {<<"SUBSTATION", "SubstationAdder">>, <<"VOLTAGE_LEVEL",
           "VoltageLevelAdder">>, <<"LINE", "LineAdder">>, <<"HVDC_LINE", "HvdcLineAdder">>,
           <<"TIE_LINE", "TieLineAdder">>, <<"AREA", "AreaAdder">>, <<"VOLTAGE_ANGLE_LIMIT",
           "VoltageAngleLimitAdder">>})
      /\ Restarts("Network", {<<"LINE", "LineAdder">>})
  BY CopiesStart, EquipmentStartedLinked DEF EquipmentStarted, Gives, Restarts, Starts
<1> QED  BY <1>1, RestartsFit, StartsFit DEF NetworkAdders

LEMMA SubnetworksFit == \A r \in Subnetworks : Fits(r)
<1>1. Served("Network", "invoke", {"ACT_FLATTEN"})
  BY ActionAskedServed DEF ActionAsked
<1>2. Serves("Network", [invoke |-> {"ACT_FLATTEN"}])
  BY <1>1 DEF Serves
<1>3. /\ Gives("Network", "getChildren", "many", {<<"NETWORK", "Network">>, <<"BOUNDARY_ELEMENT",
           "Identifiable">>})
      /\ Gives("Network", "getRelatedByString", "maybe", {<<"NETWORK", "Network">>})
      /\ Gives("Network", "invoke", "one", {<<"ACT_DETACH", "Network">>})
  BY ChildrenAskedLinked, DetachedLinked, OthersListedLinked, TypesFoundLinked DEF ChildrenAsked,
       Gives, TypesFound
<1>4. /\ Call("NETWORK", {"Network"}, {"ID", "NAME", "NETWORK_SOURCE_FORMAT"}, {"Network"}) \in
           CallsInSteps
      /\ Call("BOUNDARY_ELEMENT", {"Network"}, {"IDENTIFIABLE"}, Maybe(Identifiable)) \in
           CallsInSteps
  BY DEF CallsInSteps
<1>5. KindsUnder("Network") \subseteq {"Network"}
  BY KindsOfOthers
<1>6. /\ Taken("one", "Network") = {"Network"} /\ "Network" \in MadeClasses
  BY KindsOfClasses, KindsOfOthers, MadeNames DEF Taken
<1>7. TakenInSteps("NETWORK", "one", "Network")
  BY <1>6, ConnectCodes DEF TakenInSteps, CallsInSteps, Call
<1>8. \A r \in Steps("Network", "NETWORK", {"ID", "NAME", "NETWORK_SOURCE_FORMAT"}, "one",
       "Network") : Fits(r)
  BY <1>4, <1>5, <1>6, <1>7, CallTaken
<1>9. \A r \in Does("Network", "BOUNDARY_ELEMENT", {"IDENTIFIABLE"}) : Fits(r)
  BY <1>4, <1>5, <1>6, <1>7, CallDone DEF Maybe
<1> QED  BY <1>2, <1>3, <1>8, <1>9, GivesFit, ServesFit DEF Subnetworks

LEMMA NetworkListsFit == \A r \in NetworkLists : Fits(r)
<1>1. Served("Network", "getStringList", {"AREA_TYPE"})
  BY StringListAskedServed DEF StringListAsked
<1>2. Serves("Network", [getStringList |-> {"AREA_TYPE"}])
  BY <1>1 DEF Serves
<1>3. \A c \in Counted \cup {"Identifiable", "VoltageAngleLimit"} : Linked("Network", "getChildren",
       "many", TypeCode[c], c)
  BY ChildrenAskedLinked, TypesListedLinked DEF ChildrenAsked, Counted, TypeCode, TypesListed
<1>4. Gives("Network", "getChildren", "many", OfType(Counted \cup {"Identifiable",
       "VoltageAngleLimit"}))
  BY <1>3, GivesTypes
<1> QED  BY <1>2, <1>4, GivesFit, ServesFit DEF NetworkLists

LEMMA NetworkLookupsFit == \A r \in NetworkLookups : Fits(r)
<1>1. \A c \in Counted \cup {"Identifiable", "VoltageAngleLimit"} : Linked("Network",
       "getRelatedByString", "maybe", TypeCode[c], c)
  BY TypesFoundLinked DEF Counted, TypeCode, TypesFound
<1>2. Gives("Network", "getRelatedByString", "maybe", OfType(Counted \cup {"Identifiable",
       "VoltageAngleLimit"}))
  BY <1>1, GivesTypes
<1> QED  BY <1>2, GivesFit DEF NetworkLookups

LEMMA NetworkViewsFit == \A r \in NetworkViews : Fits(r)
<1>1. /\ Served("Network", "evaluate1", {"NETWORK_VALIDATION_LEVEL"})
      /\ Served("Network", "getStringList", {"NETWORK_COUNTRIES"})
  BY Evaluate1AskedServed, StringListAskedServed DEF Evaluate1Asked, StringListAsked
<1>2. Serves("Network", [evaluate1 |-> {"NETWORK_VALIDATION_LEVEL"}, getStringList |->
       {"NETWORK_COUNTRIES"}])
  BY <1>1 DEF Serves
<1>3. Gives("Network", "getRelated", "one", {<<"VARIANT_MANAGER", "VariantManager">>})
  BY RelatedAskedLinked DEF Gives, RelatedAsked
<1>4. \A c \in {"Network.BusBreakerView", "Network.BusView"} : KindsUnder("Network") \subseteq
       KindsFor(c) /\ KindsFor(c) \subseteq Objects
  BY KindsOfViews, KindsOfClasses, KindsOfOthers, KindNames DEF Objects
<1> QED  BY <1>2, <1>3, <1>4, GivesFit, ServesFit, ViewsFit DEF NetworkViews

LEMMA NetworkCountsFit == \A r \in NetworkCounts : Fits(r)
<1>1. \A code \in TypeCodes(Counted) : \E gives : Linked("Network", "getChildren", "many", code,
       gives)
  BY ChildrenAskedLinked, TypesListedLinked DEF ChildrenAsked, Counted, TypeCode, TypeCodes,
       TypesListed
<1>2. Served("Network", "countChildren", TypeCodes(Counted))
  BY <1>1, CountsServed
<1> QED  BY <1>2, CountsFit DEF NetworkCounts

LEMMA NetworkBusViewsFit == \A r \in NetworkBusViews : Fits(r)
<1>1. /\ Gives("Network.BusBreakerView", "getChildren", "many", {<<"BUS", "Bus">>,
           <<"REL_BBV_SWITCH", "Switch">>})
      /\ Gives("Network.BusBreakerView", "getRelatedByString", "maybe", {<<"REL_BBV_BUS", "Bus">>})
      /\ Gives("Network.BusView", "getChildren", "many", {<<"REL_BV_BUS", "Bus">>,
           <<"REL_CONNECTED_COMPONENT", "Component">>, <<"REL_SYNCHRONOUS_COMPONENT",
           "Component">>})
      /\ Gives("Network.BusView", "getRelatedByString", "maybe", {<<"REL_BV_BUS", "Bus">>})
  BY ChildrenAskedLinked, NamedAskedLinked DEF ChildrenAsked, Gives, NamedAsked
<1>2. \A code \in {"BUS", "REL_BBV_SWITCH"} : \E gives : Linked("Network.BusBreakerView",
       "getChildren", "many", code, gives)
  BY ChildrenAskedLinked DEF ChildrenAsked
<1>3. Served("Network.BusBreakerView", "countChildren", {"BUS", "REL_BBV_SWITCH"})
  BY <1>2, CountsServed
<1> QED  BY <1>1, <1>3, CountsFit, GivesFit DEF NetworkBusViews

LEMMA NetworkValuesFit == \A r \in NetworkValues : Fits(r)
<1>1. /\ Served("Network", "getString", {"NETWORK_CASE_DATE"})
      /\ Served("Network", "getString", {"NETWORK_SOURCE_FORMAT"})
      /\ Served("Network", "setString", {"NETWORK_CASE_DATE"})
      /\ Served("Network", "getInt", {"NETWORK_FORECAST_DISTANCE"})
      /\ Served("Network", "getInt", {"NETWORK_VALIDATION_LEVEL"})
      /\ Served("Network", "setInt", {"NETWORK_FORECAST_DISTANCE"})
      /\ Served("Network", "setInt", {"NETWORK_MIN_VALIDATION_LEVEL"})
      /\ Served("Network", "getBool", {"NETWORK_DETACHABLE"})
  BY BoolsReadServed, GetStringAskedServed, IntsReadServed, IntsWrittenServed, OrdinalsReadServed,
       SetIntAskedServed, SetStringAskedServed, StringsReadServed DEF BoolsRead, GetStringAsked,
       IntsRead, IntsWritten, OrdinalsRead, SetIntAsked, SetStringAsked, StringsRead
<1>2. /\ Served("Network", "getString", {"NETWORK_CASE_DATE", "NETWORK_SOURCE_FORMAT"})
      /\ Served("Network", "getInt", {"NETWORK_FORECAST_DISTANCE", "NETWORK_VALIDATION_LEVEL"})
      /\ Served("Network", "setInt", {"NETWORK_FORECAST_DISTANCE", "NETWORK_MIN_VALIDATION_LEVEL"})
  BY <1>1 DEF Served
<1>3. Serves("Network", [getString |-> {"NETWORK_CASE_DATE", "NETWORK_SOURCE_FORMAT"}, setString |->
       {"NETWORK_CASE_DATE"}, getInt |-> {"NETWORK_FORECAST_DISTANCE", "NETWORK_VALIDATION_LEVEL"},
       setInt |-> {"NETWORK_FORECAST_DISTANCE", "NETWORK_MIN_VALIDATION_LEVEL"}, getBool |->
       {"NETWORK_DETACHABLE"}])
  BY <1>1, <1>2 DEF Serves
<1> QED  BY <1>3, ServesFit DEF NetworkValues

LEMMA NodeBreakerViewFit == \A r \in NodeBreakerView : Fits(r)
<1>1. /\ Served("VoltageLevel.NodeBreakerView", "getIntList", {"VL_NBV_NODES"})
      /\ Served("VoltageLevel.NodeBreakerView", "getInt", {"VL_NBV_MAXIMUM_NODE_INDEX"})
      /\ Served("VoltageLevel.NodeBreakerView", "evaluate1", {"VL_NBV_ATTACHED_EQUIPMENT",
           "FICTITIOUS_P0", "FICTITIOUS_Q0"})
      /\ Served("VoltageLevel.NodeBreakerView", "setString", {"VL_NBV_REMOVE_SWITCH"})
  BY Evaluate1AskedServed, GetIntAskedServed, IntListAskedServed, SetStringAskedServed DEF
       Evaluate1Asked, GetIntAsked, IntListAsked, SetStringAsked
<1>2. Serves("VoltageLevel.NodeBreakerView", [getIntList |-> {"VL_NBV_NODES"}, getInt |->
       {"VL_NBV_MAXIMUM_NODE_INDEX"}, evaluate1 |-> {"VL_NBV_ATTACHED_EQUIPMENT", "FICTITIOUS_P0",
       "FICTITIOUS_Q0"}, setString |-> {"VL_NBV_REMOVE_SWITCH"}])
  BY <1>1 DEF Serves
<1>3. /\ Gives("VoltageLevel.NodeBreakerView", "getRelatedByIndex", "maybe",
           {<<"REL_NBV_TERMINAL_AT_NODE", "Terminal">>})
      /\ Gives("VoltageLevel.NodeBreakerView", "getRelatedByIndex", "one", {<<"REL_NBV_SWITCH",
           "SwitchList">>, <<"INTERNAL_CONNECTION", "NodeList">>})
      /\ Gives("VoltageLevel.NodeBreakerView", "getChildren", "many", {<<"REL_NBV_SWITCH",
           "Switch">>, <<"BUSBAR_SECTION", "BusbarSection">>, <<"INTERNAL_CONNECTION",
           "InternalConnection">>})
      /\ Gives("VoltageLevel.NodeBreakerView", "getRelatedByString", "maybe", {<<"REL_NBV_SWITCH",
           "Switch">>, <<"BUSBAR_SECTION", "BusbarSection">>})
      /\ Starts("VoltageLevel.NodeBreakerView", {<<"BUSBAR_SECTION", "BusbarSectionAdder">>,
           <<"REL_NBV_SWITCH", "NodeBreakerSwitchAdder">>, <<"INTERNAL_CONNECTION",
           "InternalConnectionAdder">>})
  BY ChildrenAskedLinked, EquipmentStartedLinked, IndexedAskedLinked, NamedAskedLinked,
       OthersListedLinked DEF ChildrenAsked, EquipmentStarted, Gives, IndexedAsked, NamedAsked,
       Starts
<1>4. \A code \in {"REL_NBV_SWITCH", "BUSBAR_SECTION", "INTERNAL_CONNECTION"} : \E gives :
       Linked("VoltageLevel.NodeBreakerView", "getChildren", "many", code, gives)
  BY ChildrenAskedLinked, OthersListedLinked DEF ChildrenAsked
<1>5. Served("VoltageLevel.NodeBreakerView", "countChildren", {"REL_NBV_SWITCH", "BUSBAR_SECTION",
       "INTERNAL_CONNECTION"})
  BY <1>4, CountsServed
<1>6. /\ Call("FICTITIOUS_P0", {"VoltageLevel"}, {"TERMINAL_NODE", "FICTITIOUS_P0"}, {None}) \in
           CallsInSteps
      /\ Call("FICTITIOUS_Q0", {"VoltageLevel"}, {"TERMINAL_NODE", "FICTITIOUS_Q0"}, {None}) \in
           CallsInSteps
      /\ Call("VL_NBV_REMOVE_INTERNAL_CONNECTIONS", {"VoltageLevel"}, {"IC_NODE1", "IC_NODE2"},
           {None}) \in CallsInSteps
  BY DEF CallsInSteps
<1>7. KindsUnder("VoltageLevel.NodeBreakerView") \subseteq {"VoltageLevel"}
  BY KindsOfViews
<1>8. \A r \in Does("VoltageLevel.NodeBreakerView", "FICTITIOUS_P0", {"TERMINAL_NODE",
       "FICTITIOUS_P0"}) : Fits(r)
  BY <1>6, <1>7, CallDone
<1>9. \A r \in Does("VoltageLevel.NodeBreakerView", "FICTITIOUS_Q0", {"TERMINAL_NODE",
       "FICTITIOUS_Q0"}) : Fits(r)
  BY <1>6, <1>7, CallDone
<1>10. \A r \in Does("VoltageLevel.NodeBreakerView", "VL_NBV_REMOVE_INTERNAL_CONNECTIONS",
       {"IC_NODE1", "IC_NODE2"}) : Fits(r)
  BY <1>6, <1>7, CallDone
<1> QED  BY <1>2, <1>3, <1>5, <1>8, <1>9, <1>10, CountsFit, GivesFit, ServesFit, StartsFit DEF
     NodeBreakerView

LEMMA BusBreakerViewFit == \A r \in BusBreakerView : Fits(r)
<1>1. /\ Served("VoltageLevel.BusBreakerView", "invoke", {"ACT_REMOVE_ALL_BUSES",
           "ACT_REMOVE_ALL_SWITCHES"})
      /\ Served("VoltageLevel.BusBreakerView", "setString", {"VL_BBV_REMOVE_SWITCH"})
  BY ActionAskedServed, SetStringAskedServed DEF ActionAsked, SetStringAsked
<1>2. Serves("VoltageLevel.BusBreakerView", [invoke |-> {"ACT_REMOVE_ALL_BUSES",
       "ACT_REMOVE_ALL_SWITCHES"}, setString |-> {"VL_BBV_REMOVE_SWITCH"}])
  BY <1>1 DEF Serves
<1>3. /\ Gives("VoltageLevel.BusBreakerView", "getChildren", "many", {<<"BUS", "Bus">>,
           <<"REL_BBV_SWITCH", "Switch">>})
      /\ Gives("VoltageLevel.BusBreakerView", "getRelatedByString", "maybe", {<<"REL_BBV_BUS",
           "Bus">>, <<"REL_BBV_SWITCH", "Switch">>})
      /\ Gives("VoltageLevel.BusBreakerView", "getRelatedByString", "one",
           {<<"REL_BBV_BUSES_OF_BV_BUS", "BusList">>, <<"REL_VL_BBV_BUS1", "Bus">>,
           <<"REL_VL_BBV_BUS2", "Bus">>})
      /\ Starts("VoltageLevel.BusBreakerView", {<<"REL_BBV_SWITCH", "BusBreakerSwitchAdder">>,
           <<"BUS", "BusAdder">>})
  BY ChildrenAskedLinked, EquipmentStartedLinked, NamedAskedLinked DEF ChildrenAsked,
       EquipmentStarted, Gives, NamedAsked, Starts
<1>4. \A code \in {"BUS", "REL_BBV_SWITCH"} : \E gives : Linked("VoltageLevel.BusBreakerView",
       "getChildren", "many", code, gives)
  BY ChildrenAskedLinked DEF ChildrenAsked
<1>5. Served("VoltageLevel.BusBreakerView", "countChildren", {"BUS", "REL_BBV_SWITCH"})
  BY <1>4, CountsServed
<1> QED  BY <1>2, <1>3, <1>5, CountsFit, GivesFit, ServesFit, StartsFit DEF BusBreakerView

LEMMA BusViewFit == \A r \in BusView : Fits(r)
<1>1. /\ Gives("VoltageLevel.BusView", "getChildren", "many", {<<"REL_BV_BUS", "Bus">>})
      /\ Gives("VoltageLevel.BusView", "getRelatedByString", "maybe", {<<"REL_BV_BUS", "Bus">>,
           <<"REL_MERGED_BUS", "Bus">>})
  BY ChildrenAskedLinked, NamedAskedLinked DEF ChildrenAsked, Gives, NamedAsked
<1> QED  BY <1>1, GivesFit DEF BusView

LEMMA VoltageLevelElementsFit == \A r \in VoltageLevelElements : Fits(r)
<1>1. /\ Served("VoltageLevel", "setInt", {"VL_TOPOLOGY_KIND"})
      /\ Served("VoltageLevel", "getString", {"VL_TOPOLOGY_TEXT"})
  BY EnumsWrittenServed, GetStringAskedServed DEF EnumsWritten, GetStringAsked
<1>2. Serves("VoltageLevel", [setInt |-> {"VL_TOPOLOGY_KIND"}, getString |-> {"VL_TOPOLOGY_TEXT"}])
  BY <1>1 DEF Serves
<1>3. /\ Gives("VoltageLevel", "getRelated", "maybe", {<<"REL_SUBSTATION", "Substation">>})
      /\ Gives("VoltageLevel", "getRelatedByString", "maybe", OfType({"Connectable"}))
  BY NamedAskedLinked, RelatedAskedLinked DEF Gives, NamedAsked, OfType, RelatedAsked, TypeCode
<1>4. \A c \in FeederEquipment \cup {"Connectable", "Ground", "Switch", "BusbarSection"} :
       Linked("VoltageLevel", "getChildren", "many", TypeCode[c], c)
  BY TypesListedLinked DEF FeederEquipment, TypeCode, TypesListed
<1>5. Gives("VoltageLevel", "getChildren", "many", OfType(FeederEquipment \cup {"Connectable",
       "Ground", "Switch", "BusbarSection"}))
  BY <1>4, GivesTypes
<1> QED  BY <1>2, <1>3, <1>5, GivesFit, ServesFit DEF VoltageLevelElements

LEMMA VoltageLevelCountsFit == \A r \in VoltageLevelCounts : Fits(r)
<1>1. \A code \in TypeCodes(FeederEquipment \cup {"Connectable", "Ground", "Switch"}) : \E gives :
       Linked("VoltageLevel", "getChildren", "many", code, gives)
  BY TypesListedLinked DEF FeederEquipment, TypeCode, TypeCodes, TypesListed
<1>2. Served("VoltageLevel", "countChildren", TypeCodes(FeederEquipment \cup {"Connectable",
       "Ground", "Switch"}))
  BY <1>1, CountsServed
<1> QED  BY <1>2, CountsFit DEF VoltageLevelCounts

LEMMA VoltageLevelAreasFit == \A r \in VoltageLevelAreas : Fits(r)
<1>1. Served("VoltageLevel", "setRelated", {"ADD_AREA", "REMOVE_AREA"})
  BY SetRelatedAskedServed DEF SetRelatedAsked
<1>2. Serves("VoltageLevel", [setRelated |-> {"ADD_AREA", "REMOVE_AREA"}])
  BY <1>1 DEF Serves
<1>3. /\ Gives("VoltageLevel", "getChildren", "many", OfType({"Area"}))
      /\ Gives("VoltageLevel", "getRelatedByString", "maybe", OfType({"Area"}))
  BY NamedAskedLinked, TypesListedLinked DEF Gives, NamedAsked, OfType, TypeCode, TypesListed
<1>4. \A c \in {"VoltageLevel.NodeBreakerView", "VoltageLevel.BusBreakerView",
       "VoltageLevel.BusView"} : KindsUnder("VoltageLevel") \subseteq KindsFor(c) /\ KindsFor(c)
       \subseteq Objects
  BY KindsOfViews, KindsOfClasses, KindsOfOthers, KindNames DEF Objects
<1> QED  BY <1>2, <1>3, <1>4, GivesFit, ServesFit, ViewsFit DEF VoltageLevelAreas

LEMMA VoltageLevelAddersFit == \A r \in VoltageLevelAdders : Fits(r)
<1>1. Served("VoltageLevel", "invoke", {"ACT_REMOVE"})
  BY RemoveAskedServed DEF RemoveAsked
<1>2. Serves("VoltageLevel", [invoke |-> {"ACT_REMOVE"}])
  BY <1>1 DEF Serves
<1>3. Starts("VoltageLevel", {<<"GENERATOR", "GeneratorAdder">>, <<"LOAD", "LoadAdder">>,
       <<"GROUND", "GroundAdder">>, <<"BATTERY", "BatteryAdder">>, <<"SHUNT_COMPENSATOR",
       "ShuntCompensatorAdder">>, <<"STATIC_VAR_COMPENSATOR", "StaticVarCompensatorAdder">>,
       <<"VSC_CONVERTER_STATION", "VscConverterStationAdder">>, <<"LCC_CONVERTER_STATION",
       "LccConverterStationAdder">>, <<"BOUNDARY_LINE", "BoundaryLineAdder">>})
  BY EquipmentStartedLinked DEF EquipmentStarted, Gives, Starts
<1> QED  BY <1>2, <1>3, ServesFit, StartsFit DEF VoltageLevelAdders

LEMMA VoltageLevelValuesFit == \A r \in VoltageLevelValues : Fits(r)
<1>1. /\ Served("VoltageLevel", "getDouble", {"VL_NOMINAL_V", "VL_LOW_VOLTAGE_LIMIT",
           "VL_HIGH_VOLTAGE_LIMIT"})
      /\ Served("VoltageLevel", "setDouble", {"VL_NOMINAL_V", "VL_LOW_VOLTAGE_LIMIT",
           "VL_HIGH_VOLTAGE_LIMIT"})
      /\ Served("VoltageLevel", "getInt", {"VL_TOPOLOGY_KIND"})
  BY EnumsReadServed, EquipmentReadServed, EquipmentWrittenServed DEF EnumsRead, EquipmentRead,
       EquipmentWritten
<1> QED  BY <1>1, ValuesFit DEF VoltageLevelValues

LEMMA SubstationElementsFit == \A r \in SubstationElements : Fits(r)
<1>1. /\ Served("Substation", "getOptString", {"COUNTRY"})
      /\ Served("Substation", "setString", {"COUNTRY"})
      /\ Served("Substation", "getStringList", {"SUBSTATION_GEOGRAPHICAL_TAGS"})
      /\ Served("Substation", "invoke", {"ACT_REMOVE"})
  BY OptStringAskedServed, RemoveAskedServed, SetStringAskedServed, StringListAskedServed DEF
       OptStringAsked, RemoveAsked, SetStringAsked, StringListAsked
<1>2. Serves("Substation", [getOptString |-> {"COUNTRY"}, setString |-> {"COUNTRY"}, getStringList
       |-> {"SUBSTATION_GEOGRAPHICAL_TAGS"}, invoke |-> {"ACT_REMOVE"}])
  BY <1>1 DEF Serves
<1>3. /\ Gives("Substation", "getChildren", "many", OfType({"VoltageLevel",
           "TwoWindingsTransformer", "ThreeWindingsTransformer", "OverloadManagementSystem"}))
      /\ Starts("Substation", {<<"VOLTAGE_LEVEL", "VoltageLevelAdder">>,
           <<"TWO_WINDINGS_TRANSFORMER", "TwoWindingsTransformerAdder">>,
           <<"THREE_WINDINGS_TRANSFORMER", "ThreeWindingsTransformerAdder">>,
           <<"OVERLOAD_MANAGEMENT_SYSTEM", "OverloadManagementSystemAdder">>})
      /\ Restarts("Substation", {<<"TWO_WINDINGS_TRANSFORMER", "TwoWindingsTransformerAdder">>})
  BY ChildrenAskedLinked, CopiesStart, EquipmentStartedLinked, TypesListedLinked DEF ChildrenAsked,
       EquipmentStarted, Gives, OfType, Restarts, Starts, TypeCode, TypesListed
<1>4. \A code \in TypeCodes({"TwoWindingsTransformer", "ThreeWindingsTransformer",
       "OverloadManagementSystem"}) : \E gives : Linked("Substation", "getChildren", "many", code,
       gives)
  BY ChildrenAskedLinked, TypesListedLinked DEF ChildrenAsked, TypeCode, TypeCodes, TypesListed
<1>5. Served("Substation", "countChildren", TypeCodes({"TwoWindingsTransformer",
       "ThreeWindingsTransformer", "OverloadManagementSystem"}))
  BY <1>4, CountsServed
<1> QED  BY <1>2, <1>3, <1>5, CountsFit, GivesFit, RestartsFit, ServesFit, StartsFit DEF
     SubstationElements

LEMMA SubstationValuesFit == \A r \in SubstationValues : Fits(r)
<1>1. /\ Served("Substation", "getOptString", {"SUBSTATION_TSO"})
      /\ Served("Substation", "setString", {"SUBSTATION_TSO", "ADD_GEOGRAPHICAL_TAG"})
  BY OptStringAskedServed, StringsWrittenServed DEF OptStringAsked, StringsWritten
<1> QED  BY <1>1, ValuesFit DEF SubstationValues

LEMMA ContainerValuesFit == \A r \in ContainerValues : Fits(r)
<1>1. Served("ContainerMethods", "getInt", {"CONTAINER_TYPE"})
  BY OrdinalsReadServed DEF OrdinalsRead
<1> QED  BY <1>1, ValuesFit DEF ContainerValues

----------------------------------------------------------------------------
\* Equipment

LEMMA IdentifiableValuesFit == \A r \in IdentifiableValues : Fits(r)
<1>1. /\ Served("Identifiable", "getString", {"ID", "NAME"})
      /\ Served("Identifiable", "setString", {"ID", "NAME"})
      /\ Served("Identifiable", "getOptString", {"NAME"})
      /\ Served("Identifiable", "getBool", {"FICTITIOUS"})
      /\ Served("Identifiable", "setBool", {"FICTITIOUS"})
      /\ Served("Identifiable", "getInt", {"IDENTIFIABLE_TYPE"})
  BY BoolsReadServed, BoolsWrittenServed, OptStringAskedServed, OrdinalsReadServed,
       StringsReadServed, StringsWrittenServed DEF BoolsRead, BoolsWritten, OptStringAsked,
       OrdinalsRead, StringsRead, StringsWritten
<1>2. Serves("Identifiable", [getString |-> {"ID", "NAME"}, setString |-> {"ID", "NAME"},
       getOptString |-> {"NAME"}, getBool |-> {"FICTITIOUS"}, setBool |-> {"FICTITIOUS"}, getInt |->
       {"IDENTIFIABLE_TYPE"}])
  BY <1>1, SMTT(30) DEF Serves
<1> QED  BY <1>2, ServesFit DEF IdentifiableValues

LEMMA IdentifiableLinksFit == \A r \in IdentifiableLinks : Fits(r)
<1>1. /\ Served("Identifiable", "getStringList", {"ALIASES"})
      /\ Served("Identifiable", "getKeyedString", {"ALIAS_TYPE", "ALIAS_FROM_TYPE"})
      /\ Served("Identifiable", "setKeyedString", {"ALIAS_TYPE", "UNIQUE_ALIAS_TYPE"})
  BY GetKeyedStringAskedServed, SetKeyedStringAskedServed, StringListAskedServed DEF
       GetKeyedStringAsked, SetKeyedStringAsked, StringListAsked
<1>2. Serves("Identifiable", [getStringList |-> {"ALIASES"}, getKeyedString |-> {"ALIAS_TYPE",
       "ALIAS_FROM_TYPE"}, setKeyedString |-> {"ALIAS_TYPE", "UNIQUE_ALIAS_TYPE"}])
  BY <1>1 DEF Serves
<1>3. Gives("Identifiable", "getRelated", "one", {<<"NETWORK", "Network">>, <<"REL_PARENT_NETWORK",
       "Network">>})
  BY RelatedAskedLinked DEF Gives, RelatedAsked
<1> QED  BY <1>2, <1>3, GivesFit, ServesFit DEF IdentifiableLinks

LEMMA PropertiesHolderValuesFit == \A r \in PropertiesHolderValues : Fits(r)
<1>1. /\ Served("PropertiesHolder", "getKeyedString", {"PROPERTY"})
      /\ Served("PropertiesHolder", "setKeyedString", {"PROPERTY"})
      /\ Served("PropertiesHolder", "getStringList", {"PROPERTY_NAMES"})
  BY GetKeyedStringAskedServed, SetKeyedStringAskedServed, StringListAskedServed DEF
       GetKeyedStringAsked, SetKeyedStringAsked, StringListAsked
<1> QED  BY <1>1, ValuesFit DEF PropertiesHolderValues

LEMMA ConnectableAccessorsFit == \A r \in ConnectableAccessors : Fits(r)
<1>1. /\ Served("Connectable", "invoke", {"ACT_UNSET_SOLVED_VALUES"})
      /\ Served("Connectable", "invoke", {"ACT_REMOVE"})
      /\ Served("Connectable", "getBool", {"EQUIVALENT"})
      /\ Served("Connectable", "setBool", {"EQUIVALENT"})
  BY ActionAskedServed, BoolsReadServed, BoolsWrittenServed, RemoveAskedServed DEF ActionAsked,
       BoolsRead, BoolsWritten, RemoveAsked
<1>2. Served("Connectable", "invoke", {"ACT_UNSET_SOLVED_VALUES", "ACT_REMOVE"})
  BY <1>1 DEF Served
<1>3. Serves("Connectable", [invoke |-> {"ACT_UNSET_SOLVED_VALUES", "ACT_REMOVE"}, getBool |->
       {"EQUIVALENT"}, setBool |-> {"EQUIVALENT"}])
  BY <1>1, <1>2 DEF Serves
<1>4. Gives("Connectable", "getChildren", "many", {<<"TERMINAL", "Terminal">>})
  BY ChildrenAskedLinked DEF ChildrenAsked, Gives
<1>5. \A r \in Connects("Connectable", {"TERMINAL_SIDE"}) : Fits(r)
  BY ConnectsFit
<1> QED  BY <1>3, <1>4, <1>5, GivesFit, ServesFit DEF ConnectableAccessors

LEMMA InjectionLinksFit == \A r \in InjectionLinks : Fits(r)
<1>1. Gives("Injection", "getRelated", "one", {<<"REL_TERMINAL", "Terminal">>})
  BY RelatedAskedLinked DEF Gives, RelatedAsked
<1> QED  BY <1>1, GivesFit DEF InjectionLinks

LEMMA TerminalAccessorsFit == \A r \in TerminalAccessors : Fits(r)
<1>1. /\ Served("Terminal", "invoke", {"ACT_UNSET_SOLVED_VALUES"})
      /\ Served("Terminal", "getInt", {"TERMINAL_SIDE"})
  BY ActionAskedServed, GetIntAskedServed DEF ActionAsked, GetIntAsked
<1>2. Serves("Terminal", [invoke |-> {"ACT_UNSET_SOLVED_VALUES"}, getInt |-> {"TERMINAL_SIDE"}])
  BY <1>1 DEF Serves
<1>3. /\ Gives("Terminal.BusBreakerView", "getRelated", "maybe", {<<"REL_BUS", "Bus">>,
           <<"REL_CONNECTABLE_BUS", "Bus">>})
      /\ Gives("Terminal.BusView", "getRelated", "maybe", {<<"REL_BV_BUS", "Bus">>,
           <<"REL_BV_CONNECTABLE_BUS", "Bus">>})
      /\ Gives("Terminal", "getRelated", "one", {<<"REL_CONNECTABLE", "Connectable">>,
           <<"REL_VOLTAGE_LEVEL", "VoltageLevel">>})
  BY RelatedAskedLinked DEF Gives, RelatedAsked
<1>4. \A c \in {"Terminal.BusBreakerView", "Terminal.BusView", "Terminal.NodeBreakerView"} :
       KindsUnder("Terminal") \subseteq KindsFor(c) /\ KindsFor(c) \subseteq Objects
  BY KindsOfViews, KindsOfClasses, KindsOfOthers, KindNames DEF Objects
<1>5. Call("MOVE_CONNECTABLE", {"Terminal"}, {"TERMINAL_BUS_BREAKER_CONNECTABLE_BUS_ID",
       "TERMINAL_CONNECTED", "TERMINAL_NODE", "TERMINAL_VOLTAGE_LEVEL_ID"}, {None}) \in CallsInSteps
  BY DEF CallsInSteps
<1>6. /\ KindsUnder("Terminal.BusBreakerView") \subseteq {"Terminal"}
      /\ KindsUnder("Terminal.NodeBreakerView") \subseteq {"Terminal"}
  BY KindsOfViews
<1>7. \A r \in Does("Terminal.BusBreakerView", "MOVE_CONNECTABLE",
       {"TERMINAL_BUS_BREAKER_CONNECTABLE_BUS_ID", "TERMINAL_CONNECTED"}) : Fits(r)
  BY <1>5, <1>6, CallDone
<1>8. \A r \in Does("Terminal.NodeBreakerView", "MOVE_CONNECTABLE", {"TERMINAL_NODE",
       "TERMINAL_VOLTAGE_LEVEL_ID"}) : Fits(r)
  BY <1>5, <1>6, CallDone
<1>9. \A r \in Connects("Terminal", {}) : Fits(r)
  BY ConnectsFit
<1> QED  BY <1>2, <1>3, <1>4, <1>7, <1>8, <1>9, GivesFit, ServesFit, ViewsFit DEF TerminalAccessors

LEMMA TerminalValuesFit == \A r \in TerminalValues : Fits(r)
<1>1. /\ Served("Terminal", "getDouble", {"TERMINAL_P", "TERMINAL_Q"})
      /\ Served("Terminal", "setDouble", {"TERMINAL_P", "TERMINAL_Q"})
      /\ Served("Terminal", "getDouble", {"TERMINAL_I"})
      /\ Served("Terminal", "getBool", {"TERMINAL_CONNECTED"})
      /\ Served("Terminal.BusBreakerView", "setString", {"TERMINAL_BUS_BREAKER_CONNECTABLE_BUS_ID"})
      /\ Served("Terminal.NodeBreakerView", "getInt", {"TERMINAL_NODE"})
  BY BoolsReadServed, EquipmentReadServed, EquipmentWrittenServed, GetIntAskedServed,
       SetStringAskedServed DEF BoolsRead, EquipmentRead, EquipmentWritten, GetIntAsked,
       SetStringAsked
<1>2. /\ ServesNumbers("Terminal", {"TERMINAL_P", "TERMINAL_Q"})
      /\ Serves("Terminal", [getDouble |-> {"TERMINAL_I"}, getBool |-> {"TERMINAL_CONNECTED"}])
      /\ Serves("Terminal.BusBreakerView", [setString |->
           {"TERMINAL_BUS_BREAKER_CONNECTABLE_BUS_ID"}])
      /\ Serves("Terminal.NodeBreakerView", [getInt |-> {"TERMINAL_NODE"}])
  BY <1>1, SMTT(30) DEF Serves, ServesNumbers
<1> QED  BY <1>2, ServesFit, ServesNumbersFit DEF TerminalValues

LEMMA BusLinksFit == \A r \in BusLinks : Fits(r)
<1>1. Served("Bus", "invoke", {"ACT_UNSET_SOLVED_VALUES"})
  BY ActionAskedServed DEF ActionAsked
<1>2. Serves("Bus", [invoke |-> {"ACT_UNSET_SOLVED_VALUES"}])
  BY <1>1 DEF Serves
<1>3. /\ Gives("Bus", "getRelated", "maybe", {<<"REL_CONNECTED_COMPONENT", "Component">>,
           <<"REL_SYNCHRONOUS_COMPONENT", "Component">>})
      /\ Gives("Bus", "getRelated", "one", {<<"REL_VOLTAGE_LEVEL", "VoltageLevel">>})
  BY RelatedAskedLinked DEF Gives, RelatedAsked
<1>4. \A c \in {"Line", "TwoWindingsTransformer", "ThreeWindingsTransformer", "Generator",
       "Battery", "Load", "ShuntCompensator", "BoundaryLine", "StaticVarCompensator",
       "LccConverterStation", "VscConverterStation"} : Linked("Bus", "getChildren", "many",
       TypeCode[c], c)
  BY ChildrenAskedLinked, TypesListedLinked DEF ChildrenAsked, TypeCode, TypesListed
<1>5. Gives("Bus", "getChildren", "many", {<<"TERMINAL", "Terminal">>} \cup OfType({"Line",
       "TwoWindingsTransformer", "ThreeWindingsTransformer", "Generator", "Battery", "Load",
       "ShuntCompensator", "BoundaryLine", "StaticVarCompensator", "LccConverterStation",
       "VscConverterStation"}))
  BY <1>4, ChildrenAskedLinked DEF Gives, OfType, ChildrenAsked
<1>6. \A code \in {"TERMINAL"} : \E gives : Linked("Bus", "getChildren", "many", code, gives)
  BY ChildrenAskedLinked DEF ChildrenAsked
<1>7. Served("Bus", "countChildren", {"TERMINAL"})
  BY <1>6, CountsServed
<1> QED  BY <1>2, <1>3, <1>5, <1>7, CountsFit, GivesFit, ServesFit DEF BusLinks

LEMMA BusValuesFit == \A r \in BusValues : Fits(r)
<1>1. /\ Served("Bus", "getDouble", {"BUS_V", "BUS_ANGLE", "FICTITIOUS_P0", "FICTITIOUS_Q0"})
      /\ Served("Bus", "setDouble", {"BUS_V", "BUS_ANGLE", "FICTITIOUS_P0", "FICTITIOUS_Q0"})
      /\ Served("Bus", "getDouble", {"BUS_P", "BUS_Q"})
      /\ Served("Bus", "getBool", {"BUS_IN_MAIN_CONNECTED_COMPONENT",
           "BUS_IN_MAIN_SYNCHRONOUS_COMPONENT"})
  BY BoolsReadServed, EquipmentReadServed, EquipmentWrittenServed DEF BoolsRead, EquipmentRead,
       EquipmentWritten
<1> QED  BY <1>1, NumbersFit, ValuesFit DEF BusValues

LEMMA SwitchLinksFit == \A r \in SwitchLinks : Fits(r)
<1>1. Gives("Switch", "getRelated", "one", {<<"REL_VOLTAGE_LEVEL", "VoltageLevel">>})
  BY RelatedAskedLinked DEF Gives, RelatedAsked
<1> QED  BY <1>1, GivesFit DEF SwitchLinks

LEMMA SwitchValuesFit == \A r \in SwitchValues : Fits(r)
<1>1. /\ Served("Switch", "getBool", {"SW_OPEN", "SW_RETAINED"})
      /\ Served("Switch", "setBool", {"SW_OPEN", "SW_RETAINED"})
      /\ Served("Switch", "getInt", {"SW_KIND"})
      /\ Served("Switch", "getInt", {"SW_NODE1", "SW_NODE2"})
  BY BoolsReadServed, BoolsWrittenServed, EnumsReadServed, GetIntAskedServed DEF BoolsRead,
       BoolsWritten, EnumsRead, GetIntAsked
<1>2. Served("Switch", "getInt", {"SW_KIND", "SW_NODE1", "SW_NODE2"})
  BY <1>1 DEF Served
<1> QED  BY <1>1, <1>2, ValuesFit DEF SwitchValues

LEMMA ComponentAccessorsFit == \A r \in ComponentAccessors : Fits(r)
<1>1. Served("Component", "getInt", {"COMPONENT_NUM", "COMPONENT_SIZE"})
  BY IntsReadServed DEF IntsRead
<1>2. Serves("Component", [getInt |-> {"COMPONENT_NUM", "COMPONENT_SIZE"}])
  BY <1>1 DEF Serves
<1>3. Gives("Component", "getChildren", "many", OfType({"Bus"}))
  BY ChildrenAskedLinked DEF ChildrenAsked, Gives, OfType, TypeCode
<1> QED  BY <1>2, <1>3, GivesFit, ServesFit DEF ComponentAccessors

LEMMA GeneratorValuesFit == \A r \in GeneratorValues : Fits(r)
<1>1. /\ Served("Generator", "getDouble", {"GEN_TARGET_P", "GEN_MIN_P", "GEN_MAX_P", "GEN_RATED_S"})
      /\ Served("Generator", "setDouble", {"GEN_TARGET_P", "GEN_MIN_P", "GEN_MAX_P", "GEN_RATED_S"})
      /\ Served("Generator", "getBool", {"GEN_CONDENSER"})
      /\ Served("Generator", "getInt", {"GEN_ENERGY_SOURCE"})
      /\ Served("Generator", "setInt", {"GEN_ENERGY_SOURCE"})
  BY BoolsReadServed, EnumsReadServed, EnumsWrittenServed, EquipmentReadServed,
       EquipmentWrittenServed DEF BoolsRead, EnumsRead, EnumsWritten, EquipmentRead,
       EquipmentWritten
<1> QED  BY <1>1, NumbersFit, ValuesFit DEF GeneratorValues

LEMMA GeneratorTargetsFit == \A r \in TargetsFromSolved("Generator") : Fits(r)
<1>1. Served("Generator", "invoke", {"ACT_APPLY_SOLVED_VALUES", "ACT_SET_TARGET_P_TO_P"})
  BY ActionAskedServed DEF ActionAsked
<1> QED  BY <1>1, ValuesFit DEF TargetsFromSolved

LEMMA BatteryValuesFit == \A r \in BatteryValues : Fits(r)
<1>1. /\ Served("Battery", "getDouble", {"BAT_TARGET_P", "BAT_MIN_P", "BAT_MAX_P"})
      /\ Served("Battery", "setDouble", {"BAT_TARGET_P", "BAT_MIN_P", "BAT_MAX_P"})
  BY LimitsReadServed, LimitsWrittenServed DEF LimitsRead, LimitsWritten
<1> QED  BY <1>1, NumbersFit DEF BatteryValues

LEMMA BatteryTargetsFit == \A r \in TargetsFromSolved("Battery") : Fits(r)
<1>1. Served("Battery", "invoke", {"ACT_APPLY_SOLVED_VALUES", "ACT_SET_TARGET_P_TO_P"})
  BY ActionAskedServed DEF ActionAsked
<1> QED  BY <1>1, ValuesFit DEF TargetsFromSolved

LEMMA LoadLinksFit == \A r \in LoadLinks : Fits(r)
<1>1. Served("Load", "invoke", {"ACT_APPLY_SOLVED_VALUES", "ACT_SET_TARGET_P_TO_P",
       "ACT_SET_TARGET_Q_TO_Q"})
  BY ActionAskedServed DEF ActionAsked
<1>2. Serves("Load", [invoke |-> {"ACT_APPLY_SOLVED_VALUES", "ACT_SET_TARGET_P_TO_P",
       "ACT_SET_TARGET_Q_TO_Q"}])
  BY <1>1 DEF Serves
<1>3. Gives("Load", "getRelated", "maybe", OfType({"LoadModel"}))
  BY RelatedAskedLinked DEF Gives, OfType, RelatedAsked, TypeCode
<1> QED  BY <1>2, <1>3, GivesFit, ServesFit DEF LoadLinks

LEMMA LoadValuesFit == \A r \in LoadValues : Fits(r)
<1>1. /\ Served("Load", "getDouble", {"LOAD_P0", "LOAD_Q0"})
      /\ Served("Load", "setDouble", {"LOAD_P0", "LOAD_Q0"})
      /\ Served("Load", "getInt", {"LOAD_TYPE"}) /\ Served("Load", "setInt", {"LOAD_TYPE"})
  BY EnumsReadServed, EnumsWrittenServed, EquipmentReadServed, EquipmentWrittenServed DEF EnumsRead,
       EnumsWritten, EquipmentRead, EquipmentWritten
<1> QED  BY <1>1, NumbersFit, ValuesFit DEF LoadValues

LEMMA LoadModelValuesFit == \A r \in LoadModelValues : Fits(r)
<1>1. /\ Served("LoadModel", "getInt", {"LOAD_MODEL_TYPE"})
      /\ Served("ZipLoadModel", "getDouble", {"ZIP_C0P", "ZIP_C1P", "ZIP_C2P", "ZIP_C0Q", "ZIP_C1Q",
           "ZIP_C2Q"})
      /\ Served("ZipLoadModel", "setDouble", {"ZIP_C0P", "ZIP_C1P", "ZIP_C2P", "ZIP_C0Q", "ZIP_C1Q",
           "ZIP_C2Q"})
      /\ Served("ExponentialLoadModel", "getDouble", {"EXP_NP", "EXP_NQ"})
      /\ Served("ExponentialLoadModel", "setDouble", {"EXP_NP", "EXP_NQ"})
  BY EquipmentReadServed, EquipmentWrittenServed, OrdinalsReadServed DEF EquipmentRead,
       EquipmentWritten, OrdinalsRead
<1> QED  BY <1>1, NumbersFit, ValuesFit DEF LoadModelValues

LEMMA BusbarSectionValuesFit == \A r \in BusbarSectionValues : Fits(r)
<1>1. Served("BusbarSection", "getDouble", {"BBS_V", "BBS_ANGLE"})
  BY LimitsReadServed DEF LimitsRead
<1> QED  BY <1>1, ValuesFit DEF BusbarSectionValues

LEMMA ShuntCompensatorLinksFit == \A r \in ShuntCompensatorLinks : Fits(r)
<1>1. /\ Served("ShuntCompensator", "evaluate1", {"SHUNT_B", "SHUNT_G"})
      /\ Served("ShuntCompensator", "invoke", {"ACT_UNSET_SECTION_COUNT",
           "ACT_UNSET_SOLVED_SECTION_COUNT", "ACT_APPLY_SOLVED_VALUES",
           "ACT_SET_SECTION_COUNT_TO_SOLVED_SECTION_COUNT"})
  BY ActionAskedServed, Evaluate1AskedServed DEF ActionAsked, Evaluate1Asked
<1>2. Serves("ShuntCompensator", [evaluate1 |-> {"SHUNT_B", "SHUNT_G"}, invoke |->
       {"ACT_UNSET_SECTION_COUNT", "ACT_UNSET_SOLVED_SECTION_COUNT", "ACT_APPLY_SOLVED_VALUES",
       "ACT_SET_SECTION_COUNT_TO_SOLVED_SECTION_COUNT"}])
  BY <1>1 DEF Serves
<1>3. Gives("ShuntCompensator", "getRelated", "one", OfType({"ShuntCompensatorModel"}))
  BY RelatedAskedLinked DEF Gives, OfType, RelatedAsked, TypeCode
<1> QED  BY <1>2, <1>3, GivesFit, ServesFit DEF ShuntCompensatorLinks

LEMMA ShuntCompensatorValuesFit == \A r \in ShuntCompensatorValues : Fits(r)
<1>1. /\ Served("ShuntCompensator", "getInt", {"SHUNT_SECTION_COUNT", "SHUNT_MAX_SECTION_COUNT"})
      /\ Served("ShuntCompensator", "getInt", {"SHUNT_MODEL_TYPE"})
      /\ Served("ShuntCompensator", "getOptInt", {"SHUNT_SECTION_COUNT",
           "SHUNT_SOLVED_SECTION_COUNT"})
      /\ Served("ShuntCompensator", "setInt", {"SHUNT_SECTION_COUNT", "SHUNT_SOLVED_SECTION_COUNT"})
      /\ Served("ShuntCompensator", "getDouble", {"SHUNT_B", "SHUNT_G"})
  BY EquipmentReadServed, IntsReadServed, IntsWrittenServed, OptIntAskedServed, OrdinalsReadServed
       DEF EquipmentRead, IntsRead, IntsWritten, OptIntAsked, OrdinalsRead
<1>2. Served("ShuntCompensator", "getInt", {"SHUNT_SECTION_COUNT", "SHUNT_MAX_SECTION_COUNT",
       "SHUNT_MODEL_TYPE"})
  BY <1>1 DEF Served
<1>3. Serves("ShuntCompensator", [getInt |-> {"SHUNT_SECTION_COUNT", "SHUNT_MAX_SECTION_COUNT",
       "SHUNT_MODEL_TYPE"}, getOptInt |-> {"SHUNT_SECTION_COUNT", "SHUNT_SOLVED_SECTION_COUNT"},
       setInt |-> {"SHUNT_SECTION_COUNT", "SHUNT_SOLVED_SECTION_COUNT"}, getDouble |-> {"SHUNT_B",
       "SHUNT_G"}])
  BY <1>1, <1>2 DEF Serves
<1> QED  BY <1>3, ServesFit DEF ShuntCompensatorValues

LEMMA LinearModelValuesFit == \A r \in LinearModelValues : Fits(r)
<1>1. /\ Served("ShuntCompensatorLinearModel", "getDouble", {"SHUNT_B_PER_SECTION",
           "SHUNT_G_PER_SECTION"})
      /\ Served("ShuntCompensatorLinearModel", "setDouble", {"SHUNT_B_PER_SECTION",
           "SHUNT_G_PER_SECTION"})
      /\ Served("ShuntCompensatorLinearModel", "setInt", {"SHUNT_MAX_SECTION_COUNT"})
  BY EquipmentReadServed, EquipmentWrittenServed, IntsWrittenServed DEF EquipmentRead,
       EquipmentWritten, IntsWritten
<1> QED  BY <1>1, NumbersFit, ValuesFit DEF LinearModelValues

LEMMA NonLinearModelAccessorsFit == \A r \in NonLinearModelAccessors : Fits(r)
<1>1. /\ Served("Section", "getDouble", {"SHUNT_SECTION_B", "SHUNT_SECTION_G"})
      /\ Served("Section", "setDouble", {"SHUNT_SECTION_B", "SHUNT_SECTION_G"})
  BY EquipmentReadServed, EquipmentWrittenServed DEF EquipmentRead, EquipmentWritten
<1>2. ServesNumbers("Section", {"SHUNT_SECTION_B", "SHUNT_SECTION_G"})
  BY <1>1 DEF ServesNumbers
<1>3. Gives("ShuntCompensatorNonLinearModel", "getChildren", "many", OfType({"Section"}))
  BY ChildrenAskedLinked DEF ChildrenAsked, Gives, OfType, TypeCode
<1> QED  BY <1>2, <1>3, GivesFit, ServesNumbersFit DEF NonLinearModelAccessors

LEMMA StaticVarCompensatorValuesFit == \A r \in StaticVarCompensatorValues : Fits(r)
<1>1. /\ Served("StaticVarCompensator", "getDouble", {"SVC_B_MIN", "SVC_B_MAX"})
      /\ Served("StaticVarCompensator", "setDouble", {"SVC_B_MIN", "SVC_B_MAX"})
  BY EquipmentReadServed, EquipmentWrittenServed DEF EquipmentRead, EquipmentWritten
<1> QED  BY <1>1, NumbersFit DEF StaticVarCompensatorValues

LEMMA HvdcConverterStationLinksFit == \A r \in HvdcConverterStationLinks : Fits(r)
<1>1. Gives("HvdcConverterStation", "getRelated", "maybe", {<<"REL_HVDC_LINE", "HvdcLine">>,
       <<"REL_OTHER_CONVERTER_STATION", "HvdcConverterStation">>})
  BY RelatedAskedLinked DEF Gives, RelatedAsked
<1> QED  BY <1>1, GivesFit DEF HvdcConverterStationLinks

LEMMA HvdcConverterStationValuesFit == \A r \in HvdcConverterStationValues : Fits(r)
<1>1. /\ Served("HvdcConverterStation", "getDouble", {"CONVERTER_STATION_LOSS_FACTOR"})
      /\ Served("HvdcConverterStation", "setDouble", {"CONVERTER_STATION_LOSS_FACTOR"})
      /\ Served("HvdcConverterStation", "getInt", {"CONVERTER_STATION_HVDC_TYPE"})
  BY EquipmentReadServed, EquipmentWrittenServed, OrdinalsReadServed DEF EquipmentRead,
       EquipmentWritten, OrdinalsRead
<1> QED  BY <1>1, NumbersFit, ValuesFit DEF HvdcConverterStationValues

LEMMA LccConverterStationValuesFit == \A r \in LccConverterStationValues : Fits(r)
<1>1. /\ Served("LccConverterStation", "getDouble", {"LCC_POWER_FACTOR"})
      /\ Served("LccConverterStation", "setDouble", {"LCC_POWER_FACTOR"})
  BY EquipmentReadServed, EquipmentWrittenServed DEF EquipmentRead, EquipmentWritten
<1> QED  BY <1>1, NumbersFit DEF LccConverterStationValues

LEMMA HvdcLineLinksFit == \A r \in HvdcLineLinks : Fits(r)
<1>1. Served("HvdcLine", "invoke", {"ACT_REMOVE"})
  BY RemoveAskedServed DEF RemoveAsked
<1>2. Serves("HvdcLine", [invoke |-> {"ACT_REMOVE"}])
  BY <1>1 DEF Serves
<1>3. /\ Gives("HvdcLine", "getRelated", "one", {<<"REL_CONVERTER_STATION1",
           "HvdcConverterStation">>, <<"REL_CONVERTER_STATION2", "HvdcConverterStation">>})
      /\ Gives("HvdcLine", "getRelatedByIndex", "one", OfType({"HvdcConverterStation"}))
  BY IndexedAskedLinked, RelatedAskedLinked DEF Gives, IndexedAsked, OfType, RelatedAsked, TypeCode
<1>4. \A r \in Connects("HvdcLine", {"TERMINAL_SIDE"}) : Fits(r)
  BY ConnectsFit
<1> QED  BY <1>2, <1>3, <1>4, GivesFit, ServesFit DEF HvdcLineLinks

LEMMA HvdcLineValuesFit == \A r \in HvdcLineValues : Fits(r)
<1>1. /\ Served("HvdcLine", "getDouble", {"HVDC_R", "HVDC_NOMINAL_V", "HVDC_ACTIVE_POWER_SETPOINT",
           "HVDC_MAX_P"})
      /\ Served("HvdcLine", "setDouble", {"HVDC_R", "HVDC_NOMINAL_V", "HVDC_ACTIVE_POWER_SETPOINT",
           "HVDC_MAX_P"})
      /\ Served("HvdcLine", "getInt", {"HVDC_CONVERTERS_MODE"})
      /\ Served("HvdcLine", "setInt", {"HVDC_CONVERTERS_MODE"})
  BY EnumsReadServed, EquipmentReadServed, EquipmentWrittenServed, SetIntAskedServed DEF EnumsRead,
       EquipmentRead, EquipmentWritten, SetIntAsked
<1> QED  BY <1>1, NumbersFit, ValuesFit DEF HvdcLineValues

LEMMA BranchLinksFit == \A r \in BranchLinks : Fits(r)
<1>1. /\ Gives("BranchMethods", "getRelated", "one", {<<"REL_TERMINAL1", "Terminal">>,
           <<"REL_TERMINAL2", "Terminal">>})
      /\ Gives("BranchMethods", "getRelatedByString", "one", {<<"REL_TERMINAL", "Terminal">>})
      /\ Gives("BranchMethods", "getRelatedByIndex", "one", OfType({"BranchSideLimits"}))
  BY IndexedAskedLinked, NamedAskedLinked, RelatedAskedLinked DEF Gives, IndexedAsked, NamedAsked,
       OfType, RelatedAsked, TypeCode
<1> QED  BY <1>1, GivesFit DEF BranchLinks

LEMMA BranchOverloadsFit == \A r \in BranchOverloads : Fits(r)
<1>1. /\ Served("BranchMethods", "getBool", {"OVERLOADED"})
      /\ Served("BranchMethods", "getInt", {"OVERLOAD_DURATION"})
      /\ Served("BranchMethods", "evaluate1", {"OVERLOADED"})
  BY Evaluate1AskedServed, GetBoolAskedServed, GetIntAskedServed DEF Evaluate1Asked, GetBoolAsked,
       GetIntAsked
<1>2. Serves("BranchMethods", [getBool |-> {"OVERLOADED"}, getInt |-> {"OVERLOAD_DURATION"},
       evaluate1 |-> {"OVERLOADED"}])
  BY <1>1 DEF Serves
<1>3. \A r \in OverloadChecks("BranchMethods") : Fits(r)
  BY OverloadChecksFit
<1> QED  BY <1>2, <1>3, ServesFit DEF BranchOverloads

LEMMA LineValuesFit == \A r \in LineValues : Fits(r)
<1>1. /\ Served("Line", "getDouble", {"LINE_R", "LINE_X", "LINE_G1", "LINE_B1", "LINE_G2",
           "LINE_B2"})
      /\ Served("Line", "setDouble", {"LINE_R", "LINE_X", "LINE_G1", "LINE_B1", "LINE_G2",
           "LINE_B2"})
  BY EquipmentReadServed, EquipmentWrittenServed DEF EquipmentRead, EquipmentWritten
<1> QED  BY <1>1, NumbersFit DEF LineValues

LEMMA TieLineLinksFit == \A r \in TieLineLinks : Fits(r)
<1>1. /\ Served("TieLine", "invoke", {"ACT_REMOVE"})
      /\ Served("TieLine", "invoke", {"ACT_REMOVE_UPDATING_BOUNDARY_LINES"})
  BY ActionAskedServed, RemoveAskedServed DEF ActionAsked, RemoveAsked
<1>2. Served("TieLine", "invoke", {"ACT_REMOVE", "ACT_REMOVE_UPDATING_BOUNDARY_LINES"})
  BY <1>1 DEF Served
<1>3. Serves("TieLine", [invoke |-> {"ACT_REMOVE", "ACT_REMOVE_UPDATING_BOUNDARY_LINES"}])
  BY <1>1, <1>2 DEF Serves
<1>4. /\ Gives("TieLine", "getRelatedByIndex", "one", OfType({"BoundaryLine"}))
      /\ Gives("TieLine", "getRelatedByString", "maybe", OfType({"BoundaryLine"}))
  BY IndexedAskedLinked, NamedAskedLinked DEF Gives, IndexedAsked, NamedAsked, OfType, TypeCode
<1>5. \A r \in Connects("TieLine", {"TERMINAL_SIDE"}) : Fits(r)
  BY ConnectsFit
<1> QED  BY <1>3, <1>4, <1>5, GivesFit, ServesFit DEF TieLineLinks

LEMMA TieLineValuesFit == \A r \in TieLineValues : Fits(r)
<1>1. /\ Served("TieLine", "getDouble", {"LINE_R", "LINE_X", "LINE_G1", "LINE_B1", "LINE_G2",
           "LINE_B2"})
      /\ Served("TieLine", "getOptString", {"BL_PAIRING_KEY"})
  BY EquipmentReadServed, OptStringAskedServed DEF EquipmentRead, OptStringAsked
<1>2. Serves("TieLine", [getDouble |-> {"LINE_R", "LINE_X", "LINE_G1", "LINE_B1", "LINE_G2",
       "LINE_B2"}, getOptString |-> {"BL_PAIRING_KEY"}])
  BY <1>1, SMTT(30) DEF Serves
<1> QED  BY <1>2, ServesFit DEF TieLineValues

LEMMA BoundaryLineLinksFit == \A r \in BoundaryLineLinks : Fits(r)
<1>1. Served("BoundaryLine", "invoke", {"ACT_APPLY_SOLVED_VALUES", "ACT_SET_TARGET_P_TO_P",
       "ACT_SET_TARGET_Q_TO_Q", "ACT_SET_TARGET_V_TO_V"})
  BY ActionAskedServed DEF ActionAsked
<1>2. Serves("BoundaryLine", [invoke |-> {"ACT_APPLY_SOLVED_VALUES", "ACT_SET_TARGET_P_TO_P",
       "ACT_SET_TARGET_Q_TO_Q", "ACT_SET_TARGET_V_TO_V"}])
  BY <1>1 DEF Serves
<1>3. /\ Gives("BoundaryLine", "getRelated", "maybe", OfType({"TieLine", "Generation"}))
      /\ Gives("BoundaryLine", "getRelated", "one", OfType({"Boundary"}))
      /\ Gives("Boundary", "getRelated", "one", OfType({"BoundaryLine"}) \cup
           {<<"REL_VOLTAGE_LEVEL", "VoltageLevel">>})
  BY RelatedAskedLinked DEF Gives, OfType, RelatedAsked, TypeCode
<1> QED  BY <1>2, <1>3, GivesFit, ServesFit DEF BoundaryLineLinks

LEMMA BoundaryLineValuesFit == \A r \in BoundaryLineValues : Fits(r)
<1>1. /\ Served("BoundaryLine", "getDouble", {"BL_P0", "BL_Q0", "BL_R", "BL_X", "BL_G", "BL_B"})
      /\ Served("BoundaryLine", "setDouble", {"BL_P0", "BL_Q0", "BL_R", "BL_X", "BL_G", "BL_B"})
      /\ Served("BoundaryLine", "getBool", {"BL_PAIRED"})
      /\ Served("BoundaryLine", "getOptString", {"BL_PAIRING_KEY"})
      /\ Served("BoundaryLine", "setString", {"BL_PAIRING_KEY"})
      /\ Served("Generation", "getDouble", {"GENERATION_TARGET_P", "GENERATION_MIN_P",
           "GENERATION_MAX_P", "GENERATION_TARGET_Q", "GENERATION_TARGET_V"})
      /\ Served("Generation", "setDouble", {"GENERATION_TARGET_P", "GENERATION_MIN_P",
           "GENERATION_MAX_P", "GENERATION_TARGET_Q", "GENERATION_TARGET_V"})
      /\ Served("Generation", "getBool", {"GENERATION_VOLTAGE_REGULATION_ON"})
      /\ Served("Generation", "setBool", {"GENERATION_VOLTAGE_REGULATION_ON"})
      /\ Served("Boundary", "getDouble", {"BOUNDARY_V", "BOUNDARY_ANGLE", "BOUNDARY_P",
           "BOUNDARY_Q", "BOUNDARY_I"})
  BY BoolsReadServed, BoolsWrittenServed, EquipmentReadServed, EquipmentWrittenServed,
       OptStringAskedServed, StringsWrittenServed DEF BoolsRead, BoolsWritten, EquipmentRead,
       EquipmentWritten, OptStringAsked, StringsWritten
<1>2. /\ ServesNumbers("BoundaryLine", {"BL_P0", "BL_Q0", "BL_R", "BL_X", "BL_G", "BL_B"})
      /\ Serves("BoundaryLine", [getBool |-> {"BL_PAIRED"}, getOptString |-> {"BL_PAIRING_KEY"},
           setString |-> {"BL_PAIRING_KEY"}])
      /\ ServesNumbers("Generation", {"GENERATION_TARGET_P", "GENERATION_MIN_P", "GENERATION_MAX_P",
           "GENERATION_TARGET_Q", "GENERATION_TARGET_V"})
      /\ Serves("Generation", [getBool |-> {"GENERATION_VOLTAGE_REGULATION_ON"}, setBool |->
           {"GENERATION_VOLTAGE_REGULATION_ON"}])
      /\ Serves("Boundary", [getDouble |-> {"BOUNDARY_V", "BOUNDARY_ANGLE", "BOUNDARY_P",
           "BOUNDARY_Q", "BOUNDARY_I"}])
  BY <1>1, SMTT(30) DEF Serves, ServesNumbers
<1> QED  BY <1>2, ServesFit, ServesNumbersFit DEF BoundaryLineValues

LEMMA TwoWindingsTransformerActionsFit == \A r \in TransformerActions("TwoWindingsTransformer") :
  Fits(r)
<1>1. Served("TwoWindingsTransformer", "invoke", {"ACT_APPLY_SOLVED_VALUES",
       "ACT_SET_RATIO_TAP_POSITION_TO_SOLVED_TAP_POSITION",
       "ACT_SET_PHASE_TAP_POSITION_TO_SOLVED_TAP_POSITION"})
  BY ActionAskedServed DEF ActionAsked
<1>2. Serves("TwoWindingsTransformer", [invoke |-> {"ACT_APPLY_SOLVED_VALUES",
       "ACT_SET_RATIO_TAP_POSITION_TO_SOLVED_TAP_POSITION",
       "ACT_SET_PHASE_TAP_POSITION_TO_SOLVED_TAP_POSITION"}])
  BY <1>1 DEF Serves
<1>3. Gives("TwoWindingsTransformer", "getRelated", "maybe", {<<"REL_SUBSTATION", "Substation">>})
  BY RelatedAskedLinked DEF Gives, RelatedAsked
<1> QED  BY <1>2, <1>3, GivesFit, ServesFit DEF TransformerActions

LEMMA TwoWindingsTransformerValuesFit == \A r \in TwoWindingsTransformerValues : Fits(r)
<1>1. /\ Served("TwoWindingsTransformer", "getDouble", {"TWO_WT_R", "TWO_WT_X", "TWO_WT_G",
           "TWO_WT_B", "TWO_WT_RATED_U1", "TWO_WT_RATED_U2", "TWO_WT_RATED_S"})
      /\ Served("TwoWindingsTransformer", "setDouble", {"TWO_WT_R", "TWO_WT_X", "TWO_WT_G",
           "TWO_WT_B", "TWO_WT_RATED_U1", "TWO_WT_RATED_U2", "TWO_WT_RATED_S"})
  BY EquipmentReadServed, EquipmentWrittenServed DEF EquipmentRead, EquipmentWritten
<1> QED  BY <1>1, NumbersFit DEF TwoWindingsTransformerValues

LEMMA ThreeWindingsTransformerLinksFit == \A r \in ThreeWindingsTransformerLinks : Fits(r)
<1>1. Served("ThreeWindingsTransformer", "invoke", {"ACT_APPLY_SOLVED_VALUES",
       "ACT_SET_RATIO_TAP_POSITION_TO_SOLVED_TAP_POSITION",
       "ACT_SET_PHASE_TAP_POSITION_TO_SOLVED_TAP_POSITION"})
  BY ActionAskedServed DEF ActionAsked
<1>2. Serves("ThreeWindingsTransformer", [invoke |-> {"ACT_APPLY_SOLVED_VALUES",
       "ACT_SET_RATIO_TAP_POSITION_TO_SOLVED_TAP_POSITION",
       "ACT_SET_PHASE_TAP_POSITION_TO_SOLVED_TAP_POSITION"}])
  BY <1>1 DEF Serves
<1>3. /\ Gives("ThreeWindingsTransformer", "getRelated", "maybe", {<<"REL_SUBSTATION",
           "Substation">>})
      /\ Gives("Leg", "getRelated", "one", OfType({"ThreeWindingsTransformer"}) \cup
           {<<"REL_TERMINAL", "Terminal">>})
      /\ Gives("ThreeWindingsTransformer", "getChildren", "many", OfType({"Leg"}))
      /\ Gives("ThreeWindingsTransformer", "getRelatedByIndex", "one", OfType({"Leg"}) \cup
           {<<"REL_TERMINAL", "Terminal">>})
      /\ Gives("ThreeWindingsTransformer", "getRelatedByString", "one", {<<"REL_TERMINAL",
           "Terminal">>})
  BY ChildrenAskedLinked, IndexedAskedLinked, NamedAskedLinked, RelatedAskedLinked DEF
       ChildrenAsked, Gives, IndexedAsked, NamedAsked, OfType, RelatedAsked, TypeCode
<1> QED  BY <1>2, <1>3, GivesFit, ServesFit DEF ThreeWindingsTransformerLinks, TransformerActions

LEMMA ThreeWindingsTransformerOverloadsFit == \A r \in ThreeWindingsTransformerOverloads : Fits(r)
<1>1. Served("ThreeWindingsTransformer", "evaluate1", {"OVERLOADED"})
  BY Evaluate1AskedServed DEF Evaluate1Asked
<1>2. Serves("ThreeWindingsTransformer", [evaluate1 |-> {"OVERLOADED"}])
  BY <1>1 DEF Serves
<1>3. \A r \in OverloadChecks("ThreeWindingsTransformer") : Fits(r)
  BY OverloadChecksFit
<1> QED  BY <1>2, <1>3, ServesFit DEF ThreeWindingsTransformerOverloads

LEMMA ThreeWindingsTransformerValuesFit == \A r \in ThreeWindingsTransformerValues : Fits(r)
<1>1. /\ Served("Leg", "getDouble", {"LEG_R", "LEG_X", "LEG_G", "LEG_B", "LEG_RATED_U",
           "LEG_RATED_S"})
      /\ Served("Leg", "setDouble", {"LEG_R", "LEG_X", "LEG_G", "LEG_B", "LEG_RATED_U",
           "LEG_RATED_S"})
      /\ Served("Leg", "getInt", {"LEG_SIDE"})
      /\ Served("ThreeWindingsTransformer", "getDouble", {"THREE_WT_RATED_U0"})
      /\ Served("ThreeWindingsTransformer", "setDouble", {"THREE_WT_RATED_U0"})
      /\ Served("ThreeWindingsTransformer", "getBool", {"OVERLOADED"})
      /\ Served("ThreeWindingsTransformer", "getInt", {"OVERLOAD_DURATION"})
  BY EquipmentReadServed, EquipmentWrittenServed, GetBoolAskedServed, GetIntAskedServed,
       LimitsReadServed, LimitsWrittenServed, OrdinalsReadServed DEF EquipmentRead,
       EquipmentWritten, GetBoolAsked, GetIntAsked, LimitsRead, LimitsWritten, OrdinalsRead
<1>2. /\ ServesNumbers("Leg", {"LEG_R", "LEG_X", "LEG_G", "LEG_B", "LEG_RATED_U", "LEG_RATED_S"})
      /\ Serves("Leg", [getInt |-> {"LEG_SIDE"}])
      /\ ServesNumbers("ThreeWindingsTransformer", {"THREE_WT_RATED_U0"})
      /\ Serves("ThreeWindingsTransformer", [getBool |-> {"OVERLOADED"}, getInt |->
           {"OVERLOAD_DURATION"}])
  BY <1>1 DEF Serves, ServesNumbers
<1> QED  BY <1>2, ServesFit, ServesNumbersFit DEF ThreeWindingsTransformerValues

----------------------------------------------------------------------------
\* What equipment is made of

LEMMA VoltageRegulationHolderAccessorsFit == \A r \in VoltageRegulationHolderAccessors : Fits(r)
<1>1. /\ Served("VoltageRegulationHolderMethods", "getDouble", {"LOCAL_TARGET_V", "LOCAL_TARGET_Q"})
      /\ Served("VoltageRegulationHolderMethods", "setDouble", {"LOCAL_TARGET_V", "LOCAL_TARGET_Q"})
      /\ Served("VoltageRegulationHolderMethods", "getDouble", {"REGULATING_TARGET_V",
           "REGULATING_TARGET_Q"})
      /\ Served("VoltageRegulationHolderMethods", "clear", {"VOLTAGE_REGULATION"})
      /\ Served("VoltageRegulationHolderMethods", "getBool", {"REGULATING"})
      /\ Served("VoltageRegulationHolderMethods", "getBool", {"HAS_REGULATING_TERMINAL"})
      /\ Served("VoltageRegulationHolderMethods", "getIntList", {"REGULATING_MODES", "WITH_MODES"})
      /\ Served("VoltageRegulationHolderMethods", "invoke", {"ACT_SET_TARGET_Q_TO_Q",
           "ACT_SET_TARGET_V_TO_V"})
  BY ActionAskedServed, BoolsReadServed, ClearAskedServed, EquipmentReadServed,
       EquipmentWrittenServed, GetBoolAskedServed, IntListAskedServed DEF ActionAsked, BoolsRead,
       ClearAsked, EquipmentRead, EquipmentWritten, GetBoolAsked, IntListAsked
<1>2. Served("VoltageRegulationHolderMethods", "getBool", {"REGULATING", "HAS_REGULATING_TERMINAL"})
  BY <1>1 DEF Served
<1>3. /\ ServesNumbers("VoltageRegulationHolderMethods", {"LOCAL_TARGET_V", "LOCAL_TARGET_Q"})
      /\ Serves("VoltageRegulationHolderMethods", [getDouble |-> {"REGULATING_TARGET_V",
           "REGULATING_TARGET_Q"}, clear |-> {"VOLTAGE_REGULATION"}, getBool |-> {"REGULATING",
           "HAS_REGULATING_TERMINAL"}, getIntList |-> {"REGULATING_MODES", "WITH_MODES"}, invoke |->
           {"ACT_SET_TARGET_Q_TO_Q", "ACT_SET_TARGET_V_TO_V"}])
  BY <1>1, <1>2, SMTT(30) DEF Serves, ServesNumbers
<1>4. /\ Gives("VoltageRegulationHolderMethods", "getRelated", "maybe", {<<"VOLTAGE_REGULATION",
           "VoltageRegulation">>})
      /\ Gives("VoltageRegulationHolderMethods", "getRelated", "one", {<<"REL_REGULATING_TERMINAL",
           "Terminal">>})
      /\ Starts("VoltageRegulationHolderMethods", {<<"VOLTAGE_REGULATION",
           "VoltageRegulationBuilder">>})
  BY PartsStartedLinked, RelatedAskedLinked DEF Gives, PartsStarted, RelatedAsked, Starts
<1> QED  BY <1>3, <1>4, GivesFit, ServesFit, ServesNumbersFit, StartsFit DEF
     VoltageRegulationHolderAccessors

LEMMA VoltageRegulationLinksFit == \A r \in VoltageRegulationLinks : Fits(r)
<1>1. Served("VoltageRegulation", "getInt", {"VR_MODE"})
  BY GetIntAskedServed DEF GetIntAsked
<1>2. Serves("VoltageRegulation", [getInt |-> {"VR_MODE"}])
  BY <1>1 DEF Serves
<1>3. Gives("VoltageRegulation", "getRelated", "maybe", {<<"REL_TERMINAL", "Terminal">>})
  BY RelatedAskedLinked DEF Gives, RelatedAsked
<1>4. Call("REL_TERMINAL", {"VoltageRegulation"}, {"REL_TERMINAL", "VR_TARGET_VALUE"}, {None}) \in
       CallsInSteps
  BY DEF CallsInSteps
<1>5. KindsUnder("VoltageRegulation") \subseteq {"VoltageRegulation"}
  BY KindsOfOthers
<1>6. \A r \in Does("VoltageRegulation", "REL_TERMINAL", {"REL_TERMINAL", "VR_TARGET_VALUE"}) :
       Fits(r)
  BY <1>4, <1>5, CallDone
<1> QED  BY <1>2, <1>3, <1>6, GivesFit, ServesFit DEF VoltageRegulationLinks

LEMMA VoltageRegulationValuesFit == \A r \in VoltageRegulationValues : Fits(r)
<1>1. /\ Served("VoltageRegulation", "getDouble", {"VR_TARGET_VALUE", "VR_TARGET_DEADBAND",
           "VR_SLOPE"})
      /\ Served("VoltageRegulation", "setDouble", {"VR_TARGET_VALUE", "VR_TARGET_DEADBAND",
           "VR_SLOPE"})
      /\ Served("VoltageRegulation", "setInt", {"VR_MODE"})
      /\ Served("VoltageRegulation", "getBool", {"VR_REGULATING", "VR_WITH_TERMINAL"})
      /\ Served("VoltageRegulation", "setBool", {"VR_REGULATING"})
  BY BoolsReadServed, BoolsWrittenServed, EquipmentReadServed, EquipmentWrittenServed,
       SetIntAskedServed DEF BoolsRead, BoolsWritten, EquipmentRead, EquipmentWritten, SetIntAsked
<1> QED  BY <1>1, NumbersFit, ValuesFit DEF VoltageRegulationValues

LEMMA ReactiveLimitsHolderAccessorsFit == \A r \in ReactiveLimitsHolderAccessors : Fits(r)
<1>1. /\ Gives("ReactiveLimitsHolderMethods", "getRelated", "one", OfType({"ReactiveLimits"}))
      /\ Starts("ReactiveLimitsHolderMethods", {<<"MIN_MAX_REACTIVE_LIMITS",
           "MinMaxReactiveLimitsAdder">>, <<"REACTIVE_CAPABILITY_CURVE",
           "ReactiveCapabilityCurveAdder">>, <<"REACTIVE_CAPABILITY_SHAPE",
           "ReactiveCapabilityShapeAdder">>})
      /\ Restarts("ReactiveLimitsHolderMethods", {<<"REACTIVE_CAPABILITY_CURVE",
           "ReactiveCapabilityCurveAdder">>})
  BY CopiesStart, PartsStartedLinked, ReactiveLimitsLinked DEF Gives, OfType, PartsStarted,
       Restarts, Starts, TypeCode
<1> QED  BY <1>1, GivesFit, RestartsFit, StartsFit DEF ReactiveLimitsHolderAccessors

LEMMA ReactiveLimitsAccessorsFit == \A r \in ReactiveLimitsAccessors : Fits(r)
<1>1. /\ Served("ReactiveLimits", "evaluate1", {"RL_MIN_Q", "RL_MAX_Q"})
      /\ Served("ReactiveCapabilityCurve", "evaluate2", {"RL_MIN_Q", "RL_MAX_Q"})
      /\ Served("ReactiveCapabilityShape", "evaluate2", {"RL_MIN_Q", "RL_MAX_Q"})
      /\ Served("ReactiveCapabilityShape", "evaluate3", {"SHAPE_IS_INSIDE"})
  BY Evaluate1AskedServed, Evaluate2AskedServed, Evaluate3AskedServed DEF Evaluate1Asked,
       Evaluate2Asked, Evaluate3Asked
<1>2. /\ Serves("ReactiveLimits", [evaluate1 |-> {"RL_MIN_Q", "RL_MAX_Q"}])
      /\ Serves("ReactiveCapabilityCurve", [evaluate2 |-> {"RL_MIN_Q", "RL_MAX_Q"}])
      /\ Serves("ReactiveCapabilityShape", [evaluate2 |-> {"RL_MIN_Q", "RL_MAX_Q"}, evaluate3 |->
           {"SHAPE_IS_INSIDE"}])
  BY <1>1 DEF Serves
<1>3. /\ Gives("ReactiveCapabilityCurve", "getChildren", "many", OfType({"Point"}))
      /\ Gives("ReactiveCapabilityShape", "getChildren", "many", OfType({"Plane"}))
  BY ChildrenAskedLinked DEF ChildrenAsked, Gives, OfType, TypeCode
<1> QED  BY <1>2, <1>3, GivesFit, ServesFit DEF ReactiveLimitsAccessors

LEMMA ReactiveLimitsKindFit == \A r \in ReactiveLimitsKind : Fits(r)
<1>1. Served("ReactiveLimits", "getInt", {"RL_KIND"})
  BY OrdinalsReadServed DEF OrdinalsRead
<1> QED  BY <1>1, ValuesFit DEF ReactiveLimitsKind

LEMMA MinMaxReactiveLimitsValuesFit == \A r \in MinMaxReactiveLimitsValues : Fits(r)
<1>1. Served("MinMaxReactiveLimits", "getDouble", {"RL_MIN_Q", "RL_MAX_Q"})
  BY LimitsReadServed DEF LimitsRead
<1> QED  BY <1>1, ValuesFit DEF MinMaxReactiveLimitsValues

LEMMA ReactiveCapabilityCurveValuesFit == \A r \in ReactiveCapabilityCurveValues : Fits(r)
<1>1. /\ Served("Point", "getDouble", {"POINT_P", "POINT_MIN_Q", "POINT_MAX_Q"})
      /\ Served("ReactiveCapabilityCurve", "getInt", {"CURVE_POINT_COUNT"})
      /\ Served("ReactiveCapabilityCurve", "getDouble", {"CURVE_MIN_P", "CURVE_MAX_P"})
  BY IntsReadServed, LimitsReadServed DEF IntsRead, LimitsRead
<1>2. /\ Serves("Point", [getDouble |-> {"POINT_P", "POINT_MIN_Q", "POINT_MAX_Q"}])
      /\ Serves("ReactiveCapabilityCurve", [getInt |-> {"CURVE_POINT_COUNT"}, getDouble |->
           {"CURVE_MIN_P", "CURVE_MAX_P"}])
  BY <1>1, SMTT(30) DEF Serves
<1> QED  BY <1>2, ServesFit DEF ReactiveCapabilityCurveValues

LEMMA PlaneValuesFit == \A r \in PlaneValues : Fits(r)
<1>1. /\ Served("Plane", "getDouble", {"PLANE_ALPHA", "PLANE_BETA", "PLANE_GAMMA", "PLANE_DELTA"})
      /\ Served("Plane", "getBool", {"PLANE_LESS_OR_EQUAL", "PLANE_GREATER_OR_EQUAL"})
      /\ Served("Plane", "setDouble", {"PLANE_LESS_OR_EQUAL", "PLANE_GREATER_OR_EQUAL"})
  BY BoolsReadServed, LimitsReadServed, LimitsWrittenServed DEF BoolsRead, LimitsRead, LimitsWritten
<1> QED  BY <1>1, ValuesFit DEF PlaneValues

LEMMA TapChangerHolderAccessorsFit == \A r \in TapChangerHolderAccessors : Fits(r)
<1>1. /\ Gives("TapChangerHolderMethods", "getRelated", "maybe", OfType({"RatioTapChanger",
           "PhaseTapChanger"}))
      /\ Starts("TapChangerHolderMethods", {<<"RATIO_TAP_CHANGER", "RatioTapChangerAdder">>,
           <<"PHASE_TAP_CHANGER", "PhaseTapChangerAdder">>})
      /\ Restarts("TapChangerHolderMethods", {<<"RATIO_TAP_CHANGER", "RatioTapChangerAdder">>,
           <<"PHASE_TAP_CHANGER", "PhaseTapChangerAdder">>})
  BY CopiesStart, PartsStartedLinked, RelatedAskedLinked DEF Gives, OfType, PartsStarted,
       RelatedAsked, Restarts, Starts, TypeCode
<1> QED  BY <1>1, GivesFit, RestartsFit, StartsFit DEF TapChangerHolderAccessors

LEMMA RatioTapChangerAccessorsFit == \A r \in TapChangerAccessors("RatioTapChanger",
  "RatioTapChangerStep", "RatioTapChangerStepsReplacer") : Fits(r)
<1>1. /\ Served("RatioTapChanger", "getInt", {"TC_LOW_TAP_POSITION", "TC_HIGH_TAP_POSITION",
           "TC_STEP_COUNT", "TC_TAP_POSITION"})
      /\ Served("RatioTapChanger", "setInt", {"TC_LOW_TAP_POSITION", "TC_TAP_POSITION",
           "TC_SOLVED_TAP_POSITION"})
      /\ Served("RatioTapChanger", "getOptInt", {"TC_TAP_POSITION", "TC_SOLVED_TAP_POSITION",
           "TC_NEUTRAL_POSITION"})
      /\ Served("RatioTapChanger", "invoke", {"ACT_UNSET_TAP_POSITION",
           "ACT_UNSET_SOLVED_TAP_POSITION", "ACT_APPLY_SOLVED_VALUES",
           "ACT_SET_TAP_POSITION_TO_SOLVED_TAP_POSITION"})
      /\ Served("RatioTapChanger", "invoke", {"ACT_REMOVE"})
      /\ Served("RatioTapChanger", "getBool", {"REGULATING"})
      /\ Served("RatioTapChanger", "getBool", {"TC_LOAD_TAP_CHANGING_CAPABILITIES"})
      /\ Served("RatioTapChanger", "setBool", {"TC_LOAD_TAP_CHANGING_CAPABILITIES"})
  BY ActionAskedServed, BoolsReadServed, BoolsWrittenServed, GetBoolAskedServed, IntsReadServed,
       IntsWrittenServed, OptIntAskedServed, RemoveAskedServed DEF ActionAsked, BoolsRead,
       BoolsWritten, GetBoolAsked, IntsRead, IntsWritten, OptIntAsked, RemoveAsked
<1>2. /\ Served("RatioTapChanger", "invoke", {"ACT_UNSET_TAP_POSITION",
           "ACT_UNSET_SOLVED_TAP_POSITION", "ACT_APPLY_SOLVED_VALUES",
           "ACT_SET_TAP_POSITION_TO_SOLVED_TAP_POSITION", "ACT_REMOVE"})
      /\ Served("RatioTapChanger", "getBool", {"REGULATING", "TC_LOAD_TAP_CHANGING_CAPABILITIES"})
  BY <1>1 DEF Served
<1>3. Serves("RatioTapChanger", [getInt |-> {"TC_LOW_TAP_POSITION", "TC_HIGH_TAP_POSITION",
       "TC_STEP_COUNT", "TC_TAP_POSITION"}, setInt |-> {"TC_LOW_TAP_POSITION", "TC_TAP_POSITION",
       "TC_SOLVED_TAP_POSITION"}, getOptInt |-> {"TC_TAP_POSITION", "TC_SOLVED_TAP_POSITION",
       "TC_NEUTRAL_POSITION"}, invoke |-> {"ACT_UNSET_TAP_POSITION",
       "ACT_UNSET_SOLVED_TAP_POSITION", "ACT_APPLY_SOLVED_VALUES",
       "ACT_SET_TAP_POSITION_TO_SOLVED_TAP_POSITION", "ACT_REMOVE"}, getBool |-> {"REGULATING",
       "TC_LOAD_TAP_CHANGING_CAPABILITIES"}, setBool |-> {"TC_LOAD_TAP_CHANGING_CAPABILITIES"}])
  BY <1>1, <1>2, SMTT(30) DEF Serves
<1>4. /\ Gives("RatioTapChanger", "getRelatedByIndex", "one", OfType({"RatioTapChangerStep"}))
      /\ Gives("RatioTapChanger", "getChildren", "many", OfType({"RatioTapChangerStep"}))
      /\ Gives("RatioTapChanger", "getRelated", "maybe", {<<"REL_CURRENT_STEP",
           "RatioTapChangerStep">>, <<"REL_SOLVED_CURRENT_STEP", "RatioTapChangerStep">>,
           <<"REL_NEUTRAL_STEP", "RatioTapChangerStep">>})
      /\ Starts("RatioTapChanger", {<<"TC_STEPS_REPLACER", "RatioTapChangerStepsReplacer">>})
  BY ChildrenAskedLinked, IndexedAskedLinked, PartsStartedLinked, RelatedAskedLinked DEF
       ChildrenAsked, Gives, IndexedAsked, OfType, PartsStarted, RelatedAsked, Starts, TypeCode
<1> QED  BY <1>3, <1>4, GivesFit, ServesFit, StartsFit DEF TapChangerAccessors

LEMMA PhaseTapChangerAccessorsFit == \A r \in TapChangerAccessors("PhaseTapChanger",
  "PhaseTapChangerStep", "PhaseTapChangerStepsReplacer") : Fits(r)
<1>1. /\ Served("PhaseTapChanger", "getInt", {"TC_LOW_TAP_POSITION", "TC_HIGH_TAP_POSITION",
           "TC_STEP_COUNT", "TC_TAP_POSITION"})
      /\ Served("PhaseTapChanger", "setInt", {"TC_LOW_TAP_POSITION", "TC_TAP_POSITION",
           "TC_SOLVED_TAP_POSITION"})
      /\ Served("PhaseTapChanger", "getOptInt", {"TC_TAP_POSITION", "TC_SOLVED_TAP_POSITION",
           "TC_NEUTRAL_POSITION"})
      /\ Served("PhaseTapChanger", "invoke", {"ACT_UNSET_TAP_POSITION",
           "ACT_UNSET_SOLVED_TAP_POSITION", "ACT_APPLY_SOLVED_VALUES",
           "ACT_SET_TAP_POSITION_TO_SOLVED_TAP_POSITION"})
      /\ Served("PhaseTapChanger", "invoke", {"ACT_REMOVE"})
      /\ Served("PhaseTapChanger", "getBool", {"REGULATING"})
      /\ Served("PhaseTapChanger", "getBool", {"TC_LOAD_TAP_CHANGING_CAPABILITIES"})
      /\ Served("PhaseTapChanger", "setBool", {"TC_LOAD_TAP_CHANGING_CAPABILITIES"})
  BY ActionAskedServed, BoolsReadServed, BoolsWrittenServed, GetBoolAskedServed, IntsReadServed,
       IntsWrittenServed, OptIntAskedServed, RemoveAskedServed DEF ActionAsked, BoolsRead,
       BoolsWritten, GetBoolAsked, IntsRead, IntsWritten, OptIntAsked, RemoveAsked
<1>2. /\ Served("PhaseTapChanger", "invoke", {"ACT_UNSET_TAP_POSITION",
           "ACT_UNSET_SOLVED_TAP_POSITION", "ACT_APPLY_SOLVED_VALUES",
           "ACT_SET_TAP_POSITION_TO_SOLVED_TAP_POSITION", "ACT_REMOVE"})
      /\ Served("PhaseTapChanger", "getBool", {"REGULATING", "TC_LOAD_TAP_CHANGING_CAPABILITIES"})
  BY <1>1 DEF Served
<1>3. Serves("PhaseTapChanger", [getInt |-> {"TC_LOW_TAP_POSITION", "TC_HIGH_TAP_POSITION",
       "TC_STEP_COUNT", "TC_TAP_POSITION"}, setInt |-> {"TC_LOW_TAP_POSITION", "TC_TAP_POSITION",
       "TC_SOLVED_TAP_POSITION"}, getOptInt |-> {"TC_TAP_POSITION", "TC_SOLVED_TAP_POSITION",
       "TC_NEUTRAL_POSITION"}, invoke |-> {"ACT_UNSET_TAP_POSITION",
       "ACT_UNSET_SOLVED_TAP_POSITION", "ACT_APPLY_SOLVED_VALUES",
       "ACT_SET_TAP_POSITION_TO_SOLVED_TAP_POSITION", "ACT_REMOVE"}, getBool |-> {"REGULATING",
       "TC_LOAD_TAP_CHANGING_CAPABILITIES"}, setBool |-> {"TC_LOAD_TAP_CHANGING_CAPABILITIES"}])
  BY <1>1, <1>2, SMTT(30) DEF Serves
<1>4. /\ Gives("PhaseTapChanger", "getRelatedByIndex", "one", OfType({"PhaseTapChangerStep"}))
      /\ Gives("PhaseTapChanger", "getChildren", "many", OfType({"PhaseTapChangerStep"}))
      /\ Gives("PhaseTapChanger", "getRelated", "maybe", {<<"REL_CURRENT_STEP",
           "PhaseTapChangerStep">>, <<"REL_SOLVED_CURRENT_STEP", "PhaseTapChangerStep">>,
           <<"REL_NEUTRAL_STEP", "PhaseTapChangerStep">>})
      /\ Starts("PhaseTapChanger", {<<"TC_STEPS_REPLACER", "PhaseTapChangerStepsReplacer">>})
  BY ChildrenAskedLinked, IndexedAskedLinked, PartsStartedLinked, RelatedAskedLinked DEF
       ChildrenAsked, Gives, IndexedAsked, OfType, PartsStarted, RelatedAsked, Starts, TypeCode
<1> QED  BY <1>3, <1>4, GivesFit, ServesFit, StartsFit DEF TapChangerAccessors

LEMMA PhaseTapChangerLinksFit == \A r \in PhaseTapChangerLinks : Fits(r)
<1>1. Served("PhaseTapChanger", "setRelated", {"REL_REGULATION_TERMINAL"})
  BY SetRelatedAskedServed DEF SetRelatedAsked
<1>2. Serves("PhaseTapChanger", [setRelated |-> {"REL_REGULATION_TERMINAL"}])
  BY <1>1 DEF Serves
<1>3. Gives("PhaseTapChanger", "getRelated", "maybe", {<<"REL_REGULATION_TERMINAL", "Terminal">>})
  BY RelatedAskedLinked DEF Gives, RelatedAsked
<1> QED  BY <1>2, <1>3, GivesFit, ServesFit DEF PhaseTapChangerLinks

LEMMA PhaseTapChangerValuesFit == \A r \in PhaseTapChangerValues : Fits(r)
<1>1. /\ Served("PhaseTapChanger", "getDouble", {"PTC_REGULATION_VALUE", "PTC_TARGET_DEADBAND"})
      /\ Served("PhaseTapChanger", "setDouble", {"PTC_REGULATION_VALUE", "PTC_TARGET_DEADBAND"})
      /\ Served("PhaseTapChanger", "setBool", {"REGULATING"})
      /\ Served("PhaseTapChanger", "getInt", {"PTC_REGULATION_MODE"})
      /\ Served("PhaseTapChanger", "setInt", {"PTC_REGULATION_MODE"})
  BY BoolsWrittenServed, EquipmentReadServed, EquipmentWrittenServed, OrdinalsReadServed,
       SetIntAskedServed DEF BoolsWritten, EquipmentRead, EquipmentWritten, OrdinalsRead,
       SetIntAsked
<1> QED  BY <1>1, NumbersFit, ValuesFit DEF PhaseTapChangerValues

LEMMA RatioTapChangerStepNumbersFit == \A r \in StepValues("RatioTapChangerStep") : Fits(r)
<1>1. /\ Served("RatioTapChangerStep", "getDouble", {"STEP_RHO", "STEP_R", "STEP_X", "STEP_G",
           "STEP_B"})
      /\ Served("RatioTapChangerStep", "setDouble", {"STEP_RHO", "STEP_R", "STEP_X", "STEP_G",
           "STEP_B"})
  BY EquipmentReadServed, EquipmentWrittenServed DEF EquipmentRead, EquipmentWritten
<1> QED  BY <1>1, NumbersFit DEF StepValues

LEMMA PhaseTapChangerStepNumbersFit == \A r \in StepValues("PhaseTapChangerStep") : Fits(r)
<1>1. /\ Served("PhaseTapChangerStep", "getDouble", {"STEP_RHO", "STEP_R", "STEP_X", "STEP_G",
           "STEP_B"})
      /\ Served("PhaseTapChangerStep", "setDouble", {"STEP_RHO", "STEP_R", "STEP_X", "STEP_G",
           "STEP_B"})
  BY EquipmentReadServed, EquipmentWrittenServed DEF EquipmentRead, EquipmentWritten
<1> QED  BY <1>1, NumbersFit DEF StepValues

LEMMA PhaseTapChangerStepValuesFit == \A r \in PhaseTapChangerStepValues : Fits(r)
<1>1. /\ Served("PhaseTapChangerStep", "getDouble", {"PTC_STEP_ALPHA"})
      /\ Served("PhaseTapChangerStep", "setDouble", {"PTC_STEP_ALPHA"})
  BY EquipmentReadServed, EquipmentWrittenServed DEF EquipmentRead, EquipmentWritten
<1> QED  BY <1>1, NumbersFit DEF PhaseTapChangerStepValues

LEMMA LimitsHolderAccessorsFit == \A r \in LimitsHolderAccessors : Fits(r)
<1>1. /\ Served("FlowsLimitsHolderMethods", "setString", {"REMOVE_OLG", "SELECTED_OLG_ID",
           "ADD_SELECTED_OLG", "DESELECT_OLG"})
      /\ Served("FlowsLimitsHolderMethods", "getOptString", {"SELECTED_OLG_ID"})
      /\ Served("FlowsLimitsHolderMethods", "clear", {"REL_SELECTED_OLG"})
      /\ Served("FlowsLimitsHolderMethods", "getStringList", {"ALL_SELECTED_OLG_IDS",
           "ALL_SELECTED_OLG_IDS_ORDERED"})
  BY ClearAskedServed, OptStringAskedServed, SetStringAskedServed, StringListAskedServed DEF
       ClearAsked, OptStringAsked, SetStringAsked, StringListAsked
<1>2. Serves("FlowsLimitsHolderMethods", [setString |-> {"REMOVE_OLG", "SELECTED_OLG_ID",
       "ADD_SELECTED_OLG", "DESELECT_OLG"}, getOptString |-> {"SELECTED_OLG_ID"}, clear |->
       {"REL_SELECTED_OLG"}, getStringList |-> {"ALL_SELECTED_OLG_IDS",
       "ALL_SELECTED_OLG_IDS_ORDERED"}])
  BY <1>1, SMTT(30) DEF Serves
<1>3. /\ Gives("FlowsLimitsHolderMethods", "getChildren", "many", OfType({"OperationalLimitsGroup"}
           \cup LimitTypes) \cup {<<"REL_SELECTED_OLG", "OperationalLimitsGroup">>} \cup {<<code,
           "LoadingLimits">> : code \in TypeCodes(LimitTypes)})
      /\ Gives("FlowsLimitsHolderMethods", "getRelatedByString", "maybe",
           OfType({"OperationalLimitsGroup"} \cup LimitTypes))
      /\ Gives("FlowsLimitsHolderMethods", "getRelated", "maybe", OfType(LimitTypes) \cup
           {<<"REL_SELECTED_OLG", "OperationalLimitsGroup">>})
      /\ Gives("FlowsLimitsHolderMethods", "getRelatedByIndex", "maybe", OfType({"LoadingLimits"}))
  BY ChildrenAskedLinked, IndexedAskedLinked, LimitsListedLinked, NamedAskedLinked,
       RelatedAskedLinked DEF ChildrenAsked, Gives, IndexedAsked, LimitTypes, NamedAsked, OfType,
       RelatedAsked, TypeCode, TypeCodes
<1>4. /\ Call("OPERATIONAL_LIMITS_GROUP", LimitsHolder, {"OLG_ID"}, {"OperationalLimitsGroup"}) \in
           CallsInSteps
      /\ Call("REL_SELECTED_OLG", LimitsHolder, {"OLG_ID"}, {"OperationalLimitsGroup"}) \in
           CallsInSteps
  BY DEF CallsInSteps
<1>5. KindsUnder("FlowsLimitsHolderMethods") \subseteq LimitsHolder
  BY KindsOfBases
<1>6. /\ Taken("one", "OperationalLimitsGroup") = {"OperationalLimitsGroup"}
      /\ "OperationalLimitsGroup" \in MadeClasses
  BY KindsOfClasses, KindsOfOthers, MadeNames DEF Taken
<1>7. TakenInSteps("OPERATIONAL_LIMITS_GROUP", "one", "OperationalLimitsGroup")
  BY <1>6, ConnectCodes DEF TakenInSteps, CallsInSteps, Call
<1>8. TakenInSteps("REL_SELECTED_OLG", "one", "OperationalLimitsGroup")
  BY <1>6, ConnectCodes DEF TakenInSteps, CallsInSteps, Call
<1>9. \A r \in Steps("FlowsLimitsHolderMethods", "OPERATIONAL_LIMITS_GROUP", {"OLG_ID"}, "one",
       "OperationalLimitsGroup") : Fits(r)
  BY <1>4, <1>5, <1>6, <1>7, <1>6, <1>8, CallTaken
<1>10. \A fields \in {{}, {"OLG_ID"}} : \A r \in Steps("FlowsLimitsHolderMethods",
       "REL_SELECTED_OLG", fields, "one", "OperationalLimitsGroup") : Fits(r)
  BY <1>4, <1>5, <1>6, <1>7, <1>6, <1>8, CallTaken
<1>11. \A r \in UNION {Steps("FlowsLimitsHolderMethods", "REL_SELECTED_OLG", fields, "one",
       "OperationalLimitsGroup") : fields \in {{}, {"OLG_ID"}}} : Fits(r)
  BY <1>10
<1>12. \A r \in Links("FlowsLimitsHolderMethods", "getChildren", "many",
       OfType({"OperationalLimitsGroup"} \cup LimitTypes) \cup {<<"REL_SELECTED_OLG",
       "OperationalLimitsGroup">>} \cup {<<code, "LoadingLimits">> : code \in
       TypeCodes(LimitTypes)}) : Fits(r)
  BY <1>3, GivesFit
<1>13. \A r \in Links("FlowsLimitsHolderMethods", "getRelatedByString", "maybe",
       OfType({"OperationalLimitsGroup"} \cup LimitTypes)) : Fits(r)
  BY <1>3, GivesFit
<1>14. \A r \in Links("FlowsLimitsHolderMethods", "getRelated", "maybe", OfType(LimitTypes) \cup
       {<<"REL_SELECTED_OLG", "OperationalLimitsGroup">>}) : Fits(r)
  BY <1>3, GivesFit
<1>15. \A r \in Links("FlowsLimitsHolderMethods", "getRelatedByIndex", "maybe",
       OfType({"LoadingLimits"})) : Fits(r)
  BY <1>3, GivesFit
<1>16. \A r \in Values("FlowsLimitsHolderMethods", [setString |-> {"REMOVE_OLG", "SELECTED_OLG_ID",
       "ADD_SELECTED_OLG", "DESELECT_OLG"}, getOptString |-> {"SELECTED_OLG_ID"}, clear |->
       {"REL_SELECTED_OLG"}, getStringList |-> {"ALL_SELECTED_OLG_IDS",
       "ALL_SELECTED_OLG_IDS_ORDERED"}]) : Fits(r)
  BY <1>2, ServesFit
<1> QED  BY <1>9, <1>11, <1>12, <1>13, <1>14, <1>15, <1>16 DEF LimitsHolderAccessors

LEMMA OperationalLimitsGroupAccessorsFit == \A r \in OperationalLimitsGroupAccessors : Fits(r)
<1>1. Served("OperationalLimitsGroup", "clear", {"CURRENT_LIMITS", "ACTIVE_POWER_LIMITS",
       "APPARENT_POWER_LIMITS"})
  BY ClearAskedServed DEF ClearAsked
<1>2. Serves("OperationalLimitsGroup", [clear |-> TypeCodes(LimitTypes)])
  BY <1>1, SMTT(30) DEF LimitTypes, Serves, TypeCode, TypeCodes
<1>3. /\ Gives("OperationalLimitsGroup", "getRelated", "maybe", OfType(LimitTypes))
      /\ Gives("OperationalLimitsGroup", "getRelatedByIndex", "maybe", OfType({"LoadingLimits"}))
      /\ Starts("OperationalLimitsGroup", LimitsAdders)
      /\ Restarts("OperationalLimitsGroup", LimitsAdders)
  BY CopiesStart, IndexedAskedLinked, PartsStartedLinked, RelatedAskedLinked DEF Gives,
       IndexedAsked, LimitTypes, LimitsAdders, OfType, PartsStarted, RelatedAsked, Restarts, Starts,
       TypeCode
<1> QED  BY <1>2, <1>3, GivesFit, RestartsFit, ServesFit, StartsFit DEF
     OperationalLimitsGroupAccessors

LEMMA OperationalLimitsGroupValuesFit == \A r \in OperationalLimitsGroupValues : Fits(r)
<1>1. /\ Served("OperationalLimitsGroup", "getString", {"OLG_ID"})
      /\ Served("OperationalLimitsGroup", "getBool", {"OLG_EMPTY"})
  BY BoolsReadServed, StringsReadServed DEF BoolsRead, StringsRead
<1> QED  BY <1>1, ValuesFit DEF OperationalLimitsGroupValues

LEMMA LoadingLimitsAccessorsFit == \A r \in LoadingLimitsAccessors : Fits(r)
<1>1. /\ Served("LoadingLimits", "evaluate1", {"LL_TEMPORARY_LIMIT_VALUE"})
      /\ Served("LoadingLimits", "invoke", {"ACT_REMOVE"})
  BY Evaluate1AskedServed, RemoveAskedServed DEF Evaluate1Asked, RemoveAsked
<1>2. Serves("LoadingLimits", [evaluate1 |-> {"LL_TEMPORARY_LIMIT_VALUE"}, invoke |->
       {"ACT_REMOVE"}])
  BY <1>1 DEF Serves
<1>3. /\ Gives("LoadingLimits", "getChildren", "many", OfType({"TemporaryLimit"}))
      /\ Gives("LoadingLimits", "getRelatedByIndex", "maybe", OfType({"TemporaryLimit"}))
  BY ChildrenAskedLinked, IndexedAskedLinked DEF ChildrenAsked, Gives, IndexedAsked, OfType,
       TypeCode
<1>4. Call("LL_TEMPORARY_LIMIT_VALUE", LoadingLimits, {"TL_ACCEPTABLE_DURATION", "TL_VALUE"},
       {None}) \in CallsInSteps
  BY DEF CallsInSteps
<1>5. KindsUnder("LoadingLimits") \subseteq LoadingLimits
  BY KindsOfPartTypes
<1>6. \A r \in Does("LoadingLimits", "LL_TEMPORARY_LIMIT_VALUE", {"TL_ACCEPTABLE_DURATION",
       "TL_VALUE"}) : Fits(r)
  BY <1>4, <1>5, CallDone
<1> QED  BY <1>2, <1>3, <1>6, GivesFit, ServesFit DEF LoadingLimitsAccessors

LEMMA LoadingLimitsValuesFit == \A r \in LoadingLimitsValues : Fits(r)
<1>1. /\ Served("LoadingLimits", "getDouble", {"LL_PERMANENT_LIMIT"})
      /\ Served("LoadingLimits", "setDouble", {"LL_PERMANENT_LIMIT"})
      /\ Served("LoadingLimits", "getInt", {"LL_LIMIT_TYPE"})
      /\ Served("LoadingLimits", "getInt", {"LL_DETECTION_KIND"})
      /\ Served("LoadingLimits", "getString", {"LL_PERMANENT_LIMIT_NAME"})
      /\ Served("LoadingLimits", "setString", {"LL_PERMANENT_LIMIT_NAME"})
  BY EnumsReadServed, LimitsReadServed, LimitsWrittenServed, OrdinalsReadServed, StringsReadServed,
       StringsWrittenServed DEF EnumsRead, LimitsRead, LimitsWritten, OrdinalsRead, StringsRead,
       StringsWritten
<1>2. Served("LoadingLimits", "getInt", {"LL_LIMIT_TYPE", "LL_DETECTION_KIND"})
  BY <1>1 DEF Served
<1>3. ServesNumbers("LoadingLimits", {"LL_PERMANENT_LIMIT"})
  BY <1>1, <1>2 DEF ServesNumbers
<1>4. Serves("LoadingLimits", [getInt |-> {"LL_LIMIT_TYPE", "LL_DETECTION_KIND"}, getString |->
       {"LL_PERMANENT_LIMIT_NAME"}, setString |-> {"LL_PERMANENT_LIMIT_NAME"}])
  BY <1>1, <1>2 DEF Serves
<1>5. \A r \in Numbers("LoadingLimits", {"LL_PERMANENT_LIMIT"}) : Fits(r)
  BY <1>3, ServesNumbersFit
<1>6. \A r \in Values("LoadingLimits", [getInt |-> {"LL_LIMIT_TYPE", "LL_DETECTION_KIND"}, getString
       |-> {"LL_PERMANENT_LIMIT_NAME"}, setString |-> {"LL_PERMANENT_LIMIT_NAME"}]) : Fits(r)
  BY <1>4, ServesFit
<1> QED  BY <1>5, <1>6 DEF LoadingLimitsValues

LEMMA TemporaryLimitValuesFit == \A r \in TemporaryLimitValues : Fits(r)
<1>1. /\ Served("TemporaryLimit", "getString", {"TL_NAME"})
      /\ Served("TemporaryLimit", "getDouble", {"TL_VALUE"})
      /\ Served("TemporaryLimit", "getInt", {"TL_ACCEPTABLE_DURATION"})
      /\ Served("TemporaryLimit", "getBool", {"TL_FICTITIOUS"})
  BY BoolsReadServed, IntsReadServed, LimitsReadServed, StringsReadServed DEF BoolsRead, IntsRead,
       LimitsRead, StringsRead
<1>2. Serves("TemporaryLimit", [getString |-> {"TL_NAME"}, getDouble |-> {"TL_VALUE"}, getInt |->
       {"TL_ACCEPTABLE_DURATION"}, getBool |-> {"TL_FICTITIOUS"}])
  BY <1>1 DEF Serves
<1> QED  BY <1>2, ServesFit DEF TemporaryLimitValues

LEMMA OverloadLinksFit == \A r \in OverloadLinks : Fits(r)
<1>1. Gives("Overload", "getRelated", "one", OfType({"TemporaryLimit"}))
  BY RelatedAskedLinked DEF Gives, OfType, RelatedAsked, TypeCode
<1> QED  BY <1>1, GivesFit DEF OverloadLinks

LEMMA OverloadValuesFit == \A r \in OverloadValues : Fits(r)
<1>1. /\ Served("Overload", "getDouble", {"OVERLOAD_PREVIOUS_LIMIT", "OVERLOAD_LIMIT_SCALING"})
      /\ Served("Overload", "getString", {"OVERLOAD_PREVIOUS_LIMIT_NAME", "OVERLOAD_OLG_ID"})
  BY LimitsReadServed, StringsReadServed DEF LimitsRead, StringsRead
<1> QED  BY <1>1, ValuesFit DEF OverloadValues

LEMMA VoltageAngleLimitLinksFit == \A r \in VoltageAngleLimitLinks : Fits(r)
<1>1. Served("VoltageAngleLimit", "invoke", {"ACT_REMOVE"})
  BY RemoveAskedServed DEF RemoveAsked
<1>2. Serves("VoltageAngleLimit", [invoke |-> {"ACT_REMOVE"}])
  BY <1>1 DEF Serves
<1>3. Gives("VoltageAngleLimit", "getRelated", "one", {<<"REL_TERMINAL_FROM", "Terminal">>,
       <<"REL_TERMINAL_TO", "Terminal">>})
  BY RelatedAskedLinked DEF Gives, RelatedAsked
<1> QED  BY <1>2, <1>3, GivesFit, ServesFit DEF VoltageAngleLimitLinks

LEMMA VoltageAngleLimitValuesFit == \A r \in VoltageAngleLimitValues : Fits(r)
<1>1. /\ Served("VoltageAngleLimit", "getString", {"VAL_ID"})
      /\ Served("VoltageAngleLimit", "getInt", {"LL_LIMIT_TYPE"})
      /\ Served("VoltageAngleLimit", "getDouble", {"VAL_LOW_LIMIT", "VAL_HIGH_LIMIT"})
  BY LimitsReadServed, OrdinalsReadServed, StringsReadServed DEF LimitsRead, OrdinalsRead,
       StringsRead
<1>2. Serves("VoltageAngleLimit", [getString |-> {"VAL_ID"}, getInt |-> {"LL_LIMIT_TYPE"}, getDouble
       |-> {"VAL_LOW_LIMIT", "VAL_HIGH_LIMIT"}])
  BY <1>1, SMTT(30) DEF Serves
<1> QED  BY <1>2, ServesFit DEF VoltageAngleLimitValues

LEMMA AreaAccessorsFit == \A r \in AreaAccessors : Fits(r)
<1>1. /\ Served("Area", "setRelated", {"ADD_VOLTAGE_LEVEL", "REMOVE_VOLTAGE_LEVEL",
           "REMOVE_AREA_BOUNDARY"})
      /\ Served("Area", "invoke", {"ACT_REMOVE"})
  BY RemoveAskedServed, SetRelatedAskedServed DEF RemoveAsked, SetRelatedAsked
<1>2. Serves("Area", [setRelated |-> {"ADD_VOLTAGE_LEVEL", "REMOVE_VOLTAGE_LEVEL",
       "REMOVE_AREA_BOUNDARY"}, invoke |-> {"ACT_REMOVE"}])
  BY <1>1 DEF Serves
<1>3. /\ Gives("AreaBoundary", "getRelated", "one", OfType({"Area"}))
      /\ Gives("AreaBoundary", "getRelated", "maybe", OfType({"Boundary"}) \cup {<<"REL_TERMINAL",
           "Terminal">>})
      /\ Gives("Area", "getChildren", "many", OfType({"VoltageLevel", "AreaBoundary"}))
      /\ Starts("Area", {<<"AREA_BOUNDARY", "AreaBoundaryAdder">>})
  BY ChildrenAskedLinked, EquipmentStartedLinked, RelatedAskedLinked DEF ChildrenAsked,
       EquipmentStarted, Gives, OfType, RelatedAsked, Starts, TypeCode
<1> QED  BY <1>2, <1>3, GivesFit, ServesFit, StartsFit DEF AreaAccessors

LEMMA AreaValuesFit == \A r \in AreaValues : Fits(r)
<1>1. /\ Served("Area", "getDouble", {"AREA_INTERCHANGE_TARGET"})
      /\ Served("Area", "setDouble", {"AREA_INTERCHANGE_TARGET"})
      /\ Served("Area", "getString", {"AREA_TYPE"})
      /\ Served("Area", "getDouble", {"AREA_AC_INTERCHANGE", "AREA_DC_INTERCHANGE",
           "AREA_INTERCHANGE"})
      /\ Served("AreaBoundary", "getBool", {"AREA_BOUNDARY_AC"})
      /\ Served("AreaBoundary", "getDouble", {"AREA_BOUNDARY_P", "AREA_BOUNDARY_Q"})
  BY BoolsReadServed, LimitsReadServed, LimitsWrittenServed, StringsReadServed DEF BoolsRead,
       LimitsRead, LimitsWritten, StringsRead
<1>2. /\ ServesNumbers("Area", {"AREA_INTERCHANGE_TARGET"})
      /\ Serves("Area", [getString |-> {"AREA_TYPE"}, getDouble |-> {"AREA_AC_INTERCHANGE",
           "AREA_DC_INTERCHANGE", "AREA_INTERCHANGE"}])
      /\ Serves("AreaBoundary", [getBool |-> {"AREA_BOUNDARY_AC"}, getDouble |-> {"AREA_BOUNDARY_P",
           "AREA_BOUNDARY_Q"}])
  BY <1>1 DEF Serves, ServesNumbers
<1> QED  BY <1>2, ServesFit, ServesNumbersFit DEF AreaValues

LEMMA AutomationSystemLinksFit == \A r \in AutomationSystemLinks : Fits(r)
<1>1. /\ Served("OverloadManagementSystem", "setRelated", {"ADD_TRIPPING"})
      /\ Served("OverloadManagementSystem", "invoke", {"ACT_REMOVE"})
      /\ Served("ThreeWindingsTransformerTripping", "setString", {"TRIPPING_ELEMENT_ID"})
      /\ Served("ThreeWindingsTransformerTripping", "setInt", {"TRIPPING_SIDE"})
  BY RemoveAskedServed, SetIntAskedServed, SetRelatedAskedServed, SetStringAskedServed DEF
       RemoveAsked, SetIntAsked, SetRelatedAsked, SetStringAsked
<1>2. /\ Serves("OverloadManagementSystem", [setRelated |-> {"ADD_TRIPPING"}, invoke |->
           {"ACT_REMOVE"}])
      /\ Serves("ThreeWindingsTransformerTripping", [setString |-> {"TRIPPING_ELEMENT_ID"}, setInt
           |-> {"TRIPPING_SIDE"}])
  BY <1>1, SMTT(30) DEF Serves
<1>3. /\ Gives("OverloadManagementSystem", "getRelated", "one", {<<"REL_SUBSTATION",
           "Substation">>})
      /\ Gives("OverloadManagementSystem", "getChildren", "many", OfType({"Tripping"}))
  BY ChildrenAskedLinked, RelatedAskedLinked DEF ChildrenAsked, Gives, OfType, RelatedAsked,
       TypeCode
<1> QED  BY <1>2, <1>3, GivesFit, ServesFit DEF AutomationSystemLinks

LEMMA AutomationSystemValuesFit == \A r \in AutomationSystemValues : Fits(r)
<1>1. /\ Served("Tripping", "getDouble", {"TRIPPING_CURRENT_LIMIT"})
      /\ Served("Tripping", "setDouble", {"TRIPPING_CURRENT_LIMIT"})
      /\ Served("Tripping", "getInt", {"TRIPPING_TYPE"})
      /\ Served("Tripping", "getString", {"TRIPPING_KEY", "TRIPPING_NAME"})
      /\ Served("Tripping", "setString", {"TRIPPING_NAME"})
      /\ Served("Tripping", "getBool", {"TRIPPING_OPEN_ACTION"})
      /\ Served("Tripping", "setBool", {"TRIPPING_OPEN_ACTION"})
      /\ Served("SwitchTripping", "getString", {"TRIPPING_ELEMENT_ID"})
      /\ Served("SwitchTripping", "setString", {"TRIPPING_ELEMENT_ID"})
      /\ Served("BranchTripping", "getString", {"TRIPPING_ELEMENT_ID"})
      /\ Served("BranchTripping", "setString", {"TRIPPING_ELEMENT_ID"})
      /\ Served("BranchTripping", "getInt", {"TRIPPING_SIDE"})
      /\ Served("BranchTripping", "setInt", {"TRIPPING_SIDE"})
      /\ Served("ThreeWindingsTransformerTripping", "getString", {"TRIPPING_ELEMENT_ID"})
      /\ Served("ThreeWindingsTransformerTripping", "getInt", {"TRIPPING_SIDE"})
      /\ Served("OverloadManagementSystem", "getBool", {"AUTOMATION_SYSTEM_ENABLED"})
      /\ Served("OverloadManagementSystem", "setBool", {"AUTOMATION_SYSTEM_ENABLED"})
      /\ Served("OverloadManagementSystem", "getString", {"OMS_MONITORED_ELEMENT_ID"})
      /\ Served("OverloadManagementSystem", "getInt", {"OMS_MONITORED_SIDE"})
  BY BoolsReadServed, BoolsWrittenServed, EnumsReadServed, GetIntAskedServed, GetStringAskedServed,
       LimitsReadServed, LimitsWrittenServed, OrdinalsReadServed, SetIntAskedServed,
       SetStringAskedServed, StringsReadServed, StringsWrittenServed DEF BoolsRead, BoolsWritten,
       EnumsRead, GetIntAsked, GetStringAsked, LimitsRead, LimitsWritten, OrdinalsRead, SetIntAsked,
       SetStringAsked, StringsRead, StringsWritten
<1>2. ServesNumbers("Tripping", {"TRIPPING_CURRENT_LIMIT"})
  BY <1>1, SMTT(30) DEF ServesNumbers
<1>3. Serves("Tripping", [getInt |-> {"TRIPPING_TYPE"}, getString |-> {"TRIPPING_KEY",
       "TRIPPING_NAME"}, setString |-> {"TRIPPING_NAME"}, getBool |-> {"TRIPPING_OPEN_ACTION"},
       setBool |-> {"TRIPPING_OPEN_ACTION"}])
  BY <1>1, SMTT(30) DEF Serves
<1>4. Serves("SwitchTripping", [getString |-> {"TRIPPING_ELEMENT_ID"}, setString |->
       {"TRIPPING_ELEMENT_ID"}])
  BY <1>1, SMTT(30) DEF Serves
<1>5. Serves("BranchTripping", [getString |-> {"TRIPPING_ELEMENT_ID"}, setString |->
       {"TRIPPING_ELEMENT_ID"}, getInt |-> {"TRIPPING_SIDE"}, setInt |-> {"TRIPPING_SIDE"}])
  BY <1>1, SMTT(30) DEF Serves
<1>6. Serves("ThreeWindingsTransformerTripping", [getString |-> {"TRIPPING_ELEMENT_ID"}, getInt |->
       {"TRIPPING_SIDE"}])
  BY <1>1, SMTT(30) DEF Serves
<1>7. Serves("OverloadManagementSystem", [getBool |-> {"AUTOMATION_SYSTEM_ENABLED"}, setBool |->
       {"AUTOMATION_SYSTEM_ENABLED"}, getString |-> {"OMS_MONITORED_ELEMENT_ID"}, getInt |->
       {"OMS_MONITORED_SIDE"}])
  BY <1>1, SMTT(30) DEF Serves
<1> QED  BY <1>2, <1>3, <1>4, <1>5, <1>6, <1>7, ServesFit, ServesNumbersFit DEF
     AutomationSystemValues

LEMMA VariantAccessorsFit == \A r \in VariantAccessors : Fits(r)
<1>1. /\ Served("VariantManager", "getStringList", {"VARIANT_IDS"})
      /\ Served("VariantManager", "setString", {"REMOVE_VARIANT"})
  BY StringListAskedServed, StringsWrittenServed DEF StringListAsked, StringsWritten
<1>2. Serves("VariantManager", [getStringList |-> {"VARIANT_IDS"}, setString |->
       {"REMOVE_VARIANT"}])
  BY <1>1 DEF Serves
<1>3. Call("VARIANT_CLONE", {"VariantManager"}, {"VARIANT_SOURCE_ID", "VARIANT_TARGET_ID",
       "VARIANT_MAY_OVERWRITE"}, {None}) \in CallsInSteps
  BY DEF CallsInSteps
<1>4. KindsUnder("VariantManager") \subseteq {"VariantManager"}
  BY KindsOfClasses
<1>5. \A r \in Does("VariantManager", "VARIANT_CLONE", {"VARIANT_SOURCE_ID", "VARIANT_TARGET_ID",
       "VARIANT_MAY_OVERWRITE"}) : Fits(r)
  BY <1>3, <1>4, CallDone
<1> QED  BY <1>2, <1>5, ServesFit DEF VariantAccessors

LEMMA VariantValuesFit == \A r \in VariantValues : Fits(r)
<1>1. /\ Served("VariantManager", "getString", {"WORKING_VARIANT_ID"})
      /\ Served("VariantManager", "setString", {"WORKING_VARIANT_ID"})
      /\ Served("VariantManager", "getBool", {"VARIANT_MULTI_THREAD_ACCESS"})
      /\ Served("VariantManager", "setBool", {"VARIANT_MULTI_THREAD_ACCESS"})
  BY BoolsReadServed, BoolsWrittenServed, StringsReadServed, StringsWrittenServed DEF BoolsRead,
       BoolsWritten, StringsRead, StringsWritten
<1> QED  BY <1>1, ValuesFit DEF VariantValues

LEMMA InternalConnectionValuesFit == \A r \in InternalConnectionValues : Fits(r)
<1>1. Served("InternalConnection", "getInt", {"IC_NODE1", "IC_NODE2"})
  BY IntsReadServed DEF IntsRead
<1> QED  BY <1>1, ValuesFit DEF InternalConnectionValues

LEMMA ListElementsFit == \A r \in ListElements : Fits(r)
<1>1. Served("NodeList", "getIntList", {"ELEMENTS"})
  BY IntListAskedServed DEF IntListAsked
<1>2. Serves("NodeList", [getIntList |-> {"ELEMENTS"}])
  BY <1>1 DEF Serves
<1>3. /\ Gives("BusList", "getChildren", "many", {<<"ELEMENTS", "Bus">>})
      /\ Gives("SwitchList", "getChildren", "many", {<<"ELEMENTS", "Switch">>})
      /\ Gives("OverloadList", "getChildren", "many", {<<"ELEMENTS", "Overload">>})
  BY ChildrenAskedLinked DEF ChildrenAsked, Gives
<1> QED  BY <1>2, <1>3, GivesFit, ServesFit DEF ListElements

----------------------------------------------------------------------------
\* Adders

LEMMA AdderBasesFit == \A r \in AdderBases : Fits(r)
<1>1. /\ Served("IdentifiableAdder", "setString", {"ID", "NAME"})
      /\ Served("IdentifiableAdder", "setBool", {"ENSURE_ID_UNICITY"})
      /\ Served("IdentifiableAdder", "setBool", {"FICTITIOUS"})
      /\ Served("ConnectableAdder", "setBool", {"EQUIVALENT"})
      /\ Served("InjectionAdder", "setString", {"TERMINAL_BUS_BREAKER_BUS_ID",
           "TERMINAL_BUS_BREAKER_CONNECTABLE_BUS_ID"})
      /\ Served("InjectionAdder", "setInt", {"TERMINAL_NODE"})
      /\ Served("BranchAdder", "setString", {"BRANCH_VOLTAGE_LEVEL1", "BRANCH_VOLTAGE_LEVEL2",
           "BRANCH_BUS1", "BRANCH_BUS2", "BRANCH_CONNECTABLE_BUS1", "BRANCH_CONNECTABLE_BUS2"})
      /\ Served("BranchAdder", "setInt", {"BRANCH_NODE1", "BRANCH_NODE2"})
  BY BoolsGivenServed, IntsGivenServed, SetBoolFieldsAskedServed, SetIntFieldsAskedServed,
       SetStringFieldsAskedServed, StringsGivenServed DEF BoolsGiven, IntsGiven, SetBoolFieldsAsked,
       SetIntFieldsAsked, SetStringFieldsAsked, StringsGiven
<1>2. Served("IdentifiableAdder", "setBool", {"ENSURE_ID_UNICITY", "FICTITIOUS"})
  BY <1>1 DEF Served
<1>3. /\ Serves("IdentifiableAdder", [setString |-> {"ID", "NAME"}, setBool |->
           {"ENSURE_ID_UNICITY", "FICTITIOUS"}])
      /\ Serves("ConnectableAdder", [setBool |-> {"EQUIVALENT"}])
      /\ Serves("InjectionAdder", [setString |-> {"TERMINAL_BUS_BREAKER_BUS_ID",
           "TERMINAL_BUS_BREAKER_CONNECTABLE_BUS_ID"}, setInt |-> {"TERMINAL_NODE"}])
      /\ Serves("BranchAdder", [setString |-> {"BRANCH_VOLTAGE_LEVEL1", "BRANCH_VOLTAGE_LEVEL2",
           "BRANCH_BUS1", "BRANCH_BUS2", "BRANCH_CONNECTABLE_BUS1", "BRANCH_CONNECTABLE_BUS2"},
           setInt |-> {"BRANCH_NODE1", "BRANCH_NODE2"}])
  BY <1>1, <1>2, SMTT(30) DEF Serves
<1> QED  BY <1>3, ServesFit DEF AdderBases

LEMMA VoltageRegulationAddersFit == \A r \in VoltageRegulationAdders : Fits(r)
<1>1. /\ Served("VoltageRegulationAdder", "setDouble", {"VR_TARGET_VALUE", "VR_TARGET_DEADBAND",
           "VR_SLOPE"})
      /\ Served("VoltageRegulationAdder", "setRelated", {"REL_TERMINAL"})
      /\ Served("VoltageRegulationAdder", "setInt", {"VR_MODE"})
      /\ Served("VoltageRegulationAdder", "setBool", {"VR_REGULATING"})
      /\ Served("VoltageRegulationBuilder", "setDouble", {"VR_TARGET_VALUE", "VR_TARGET_DEADBAND",
           "VR_SLOPE"})
      /\ Served("VoltageRegulationBuilder", "setRelated", {"REL_TERMINAL"})
      /\ Served("VoltageRegulationBuilder", "setInt", {"VR_MODE"})
      /\ Served("VoltageRegulationBuilder", "setBool", {"VR_REGULATING"})
  BY BoolsGivenServed, EquipmentGivenServed, SetIntFieldsAskedServed, SetRelatedFieldsAskedServed
       DEF BoolsGiven, EquipmentGiven, SetIntFieldsAsked, SetRelatedFieldsAsked
<1>2. /\ Serves("VoltageRegulationAdder", [setDouble |-> {"VR_TARGET_VALUE", "VR_TARGET_DEADBAND",
           "VR_SLOPE"}, setRelated |-> {"REL_TERMINAL"}, setInt |-> {"VR_MODE"}, setBool |->
           {"VR_REGULATING"}])
      /\ Serves("VoltageRegulationBuilder", [setDouble |-> {"VR_TARGET_VALUE", "VR_TARGET_DEADBAND",
           "VR_SLOPE"}, setRelated |-> {"REL_TERMINAL"}, setInt |-> {"VR_MODE"}, setBool |->
           {"VR_REGULATING"}])
  BY <1>1 DEF Serves
<1>3. /\ \A r \in Returns("VoltageRegulationAdder") : Fits(r)
      /\ \A r \in Makes("VoltageRegulationBuilder", "VoltageRegulation") : Fits(r)
  BY AddersReturn, AddersMake DEF Added, AddersInside
<1> QED  BY <1>2, <1>3, ServesFit DEF VoltageRegulationAdders, VoltageRegulationFields

LEMMA SubstationAdderFieldsFit == \A r \in SubstationAdderFields : Fits(r)
<1>1. /\ Served("SubstationAdder", "setString", {"COUNTRY"})
      /\ Served("SubstationAdder", "setString", {"SUBSTATION_TSO"})
  BY SetStringFieldsAskedServed, StringsGivenServed DEF SetStringFieldsAsked, StringsGiven
<1>2. Served("SubstationAdder", "setString", {"COUNTRY", "SUBSTATION_TSO"})
  BY <1>1 DEF Served
<1>3. Serves("SubstationAdder", [setString |-> {"COUNTRY", "SUBSTATION_TSO"}])
  BY <1>1, <1>2 DEF Serves
<1>4. \A r \in Makes("SubstationAdder", "Substation") : Fits(r)
  BY AddersMake DEF Added
<1> QED  BY <1>3, <1>4, ServesFit DEF SubstationAdderFields

LEMMA VoltageLevelAdderFieldsFit == \A r \in VoltageLevelAdderFields : Fits(r)
<1>1. /\ Served("VoltageLevelAdder", "setDouble", {"VL_NOMINAL_V", "VL_LOW_VOLTAGE_LIMIT",
           "VL_HIGH_VOLTAGE_LIMIT"})
      /\ Served("VoltageLevelAdder", "setInt", {"VL_TOPOLOGY_KIND"})
  BY EnumsGivenServed, EquipmentGivenServed DEF EnumsGiven, EquipmentGiven
<1>2. Serves("VoltageLevelAdder", [setDouble |-> {"VL_NOMINAL_V", "VL_LOW_VOLTAGE_LIMIT",
       "VL_HIGH_VOLTAGE_LIMIT"}, setInt |-> {"VL_TOPOLOGY_KIND"}])
  BY <1>1 DEF Serves
<1>3. \A r \in Makes("VoltageLevelAdder", "VoltageLevel") : Fits(r)
  BY AddersMake DEF Added
<1> QED  BY <1>2, <1>3, ServesFit DEF VoltageLevelAdderFields

LEMMA BusAdderFieldsFit == \A r \in BusAdderFields : Fits(r)
BY AddersMake DEF Added, BusAdderFields

LEMMA BusbarSectionAdderFieldsFit == \A r \in BusbarSectionAdderFields : Fits(r)
<1>1. Served("BusbarSectionAdder", "setInt", {"TERMINAL_NODE"})
  BY SetIntFieldsAskedServed DEF SetIntFieldsAsked
<1>2. Serves("BusbarSectionAdder", [setInt |-> {"TERMINAL_NODE"}])
  BY <1>1 DEF Serves
<1>3. \A r \in Makes("BusbarSectionAdder", "BusbarSection") : Fits(r)
  BY AddersMake DEF Added
<1> QED  BY <1>2, <1>3, ServesFit DEF BusbarSectionAdderFields

LEMMA SwitchAddersFit == \A r \in SwitchAdders : Fits(r)
<1>1. /\ Served("NodeBreakerSwitchAdder", "setInt", {"SW_NODE1", "SW_NODE2"})
      /\ Served("NodeBreakerSwitchAdder", "setInt", {"SW_KIND"})
      /\ Served("NodeBreakerSwitchAdder", "setBool", {"SW_OPEN"})
      /\ Served("NodeBreakerSwitchAdder", "setBool", {"SW_RETAINED"})
      /\ Served("BusBreakerSwitchAdder", "setString", {"SW_BUS1", "SW_BUS2"})
      /\ Served("BusBreakerSwitchAdder", "setBool", {"SW_OPEN"})
      /\ Served("InternalConnectionAdder", "setInt", {"IC_NODE1", "IC_NODE2"})
  BY BoolsGivenServed, EnumsGivenServed, IntsGivenServed, SetBoolFieldsAskedServed,
       StringsGivenServed DEF BoolsGiven, EnumsGiven, IntsGiven, SetBoolFieldsAsked, StringsGiven
<1>2. /\ Served("NodeBreakerSwitchAdder", "setInt", {"SW_NODE1", "SW_NODE2", "SW_KIND"})
      /\ Served("NodeBreakerSwitchAdder", "setBool", {"SW_OPEN", "SW_RETAINED"})
  BY <1>1 DEF Served
<1>3. /\ Serves("NodeBreakerSwitchAdder", [setInt |-> {"SW_NODE1", "SW_NODE2", "SW_KIND"}, setBool
           |-> {"SW_OPEN", "SW_RETAINED"}])
      /\ Serves("BusBreakerSwitchAdder", [setString |-> {"SW_BUS1", "SW_BUS2"}, setBool |->
           {"SW_OPEN"}])
      /\ Serves("InternalConnectionAdder", [setInt |-> {"IC_NODE1", "IC_NODE2"}])
  BY <1>1, <1>2, SMTT(30) DEF Serves
<1>4. /\ \A r \in Makes("NodeBreakerSwitchAdder", "Switch") : Fits(r)
      /\ \A r \in Makes("BusBreakerSwitchAdder", "Switch") : Fits(r)
      /\ \A r \in Returns("InternalConnectionAdder") : Fits(r)
  BY AddersMake, AddersReturn DEF Added, AddersInside
<1> QED  BY <1>3, <1>4, ServesFit DEF SwitchAdders

LEMMA AreaAddersFit == \A r \in AreaAdders : Fits(r)
<1>1. /\ Served("AreaAdder", "setString", {"AREA_TYPE"})
      /\ Served("AreaAdder", "setDouble", {"AREA_INTERCHANGE_TARGET"})
      /\ Served("AreaAdder", "setRelated", {"ADD_VOLTAGE_LEVEL"})
  BY LimitsGivenServed, SetRelatedFieldsAskedServed, StringsGivenServed DEF LimitsGiven,
       SetRelatedFieldsAsked, StringsGiven
<1>2. Serves("AreaAdder", [setString |-> {"AREA_TYPE"}, setDouble |-> {"AREA_INTERCHANGE_TARGET"},
       setRelated |-> {"ADD_VOLTAGE_LEVEL"}])
  BY <1>1 DEF Serves
<1>3. \A r \in Makes("AreaAdder", "Area") : Fits(r)
  BY AddersMake DEF Added
<1> QED  BY <1>2, <1>3, ServesFit DEF AreaAdders

LEMMA AreaBoundariesInsideFit == \A r \in AreaBoundariesInside : Fits(r)
<1>1. Call("AREA_BOUNDARY", {"AreaAdder"}, {"REL_TERMINAL", "BOUNDARY", "AREA_BOUNDARY_AC"}, {None})
       \in CallsInSteps
  BY DEF CallsInSteps
<1>2. KindsUnder("AreaAdder") \subseteq {"AreaAdder"}
  BY KindsOfEachAdder
<1>3. \A r \in Does("AreaAdder", "AREA_BOUNDARY", {"REL_TERMINAL", "AREA_BOUNDARY_AC"}) : Fits(r)
  BY <1>1, <1>2, CallDone
<1>4. \A r \in Does("AreaAdder", "AREA_BOUNDARY", {"BOUNDARY", "AREA_BOUNDARY_AC"}) : Fits(r)
  BY <1>1, <1>2, CallDone
<1> QED  BY <1>3, <1>4 DEF AreaBoundariesInside

LEMMA AreaBoundaryAdderFieldsFit == \A r \in AreaBoundaryAdderFields : Fits(r)
<1>1. /\ Served("AreaBoundaryAdder", "setRelated", {"REL_TERMINAL", "BOUNDARY"})
      /\ Served("AreaBoundaryAdder", "setBool", {"AREA_BOUNDARY_AC"})
  BY BoolsGivenServed, SetRelatedFieldsAskedServed DEF BoolsGiven, SetRelatedFieldsAsked
<1>2. Serves("AreaBoundaryAdder", [setRelated |-> {"REL_TERMINAL", "BOUNDARY"}, setBool |->
       {"AREA_BOUNDARY_AC"}])
  BY <1>1 DEF Serves
<1>3. \A r \in Makes("AreaBoundaryAdder", "Area") : Fits(r)
  BY AddersMake DEF Added
<1> QED  BY <1>2, <1>3, ServesFit DEF AreaBoundaryAdderFields

LEMMA GeneratorAdderFieldsFit == \A r \in GeneratorAdderFields : Fits(r)
<1>1. /\ Served("GeneratorAdder", "setInt", {"GEN_ENERGY_SOURCE"})
      /\ Served("GeneratorAdder", "setBool", {"GEN_CONDENSER"})
      /\ Served("GeneratorAdder", "setDouble", {"GEN_MIN_P", "GEN_MAX_P", "GEN_TARGET_P",
           "GEN_RATED_S"})
      /\ Served("GeneratorAdder", "setDouble", {"LOCAL_TARGET_V", "LOCAL_TARGET_Q"})
  BY BoolsGivenServed, EnumsGivenServed, EquipmentGivenServed DEF BoolsGiven, EnumsGiven,
       EquipmentGiven
<1>2. /\ Serves("GeneratorAdder", [setInt |-> {"GEN_ENERGY_SOURCE"}, setBool |-> {"GEN_CONDENSER"},
           setDouble |-> {"GEN_MIN_P", "GEN_MAX_P", "GEN_TARGET_P", "GEN_RATED_S"}])
      /\ Serves("GeneratorAdder", [setDouble |-> {"LOCAL_TARGET_V", "LOCAL_TARGET_Q"}])
  BY <1>1 DEF Serves
<1>3. Starts("GeneratorAdder", {<<"VOLTAGE_REGULATION", "VoltageRegulationAdder">>})
  BY PartsStartedLinked DEF Gives, PartsStarted, Starts
<1>4. \A r \in Makes("GeneratorAdder", "Generator") : Fits(r)
  BY AddersMake DEF Added
<1> QED  BY <1>2, <1>3, <1>4, ServesFit, StartsFit DEF GeneratorAdderFields, RegulationInside

LEMMA BatteryAdderFieldsFit == \A r \in BatteryAdderFields : Fits(r)
<1>1. /\ Served("BatteryAdder", "setDouble", {"BAT_TARGET_P", "BAT_MIN_P", "BAT_MAX_P"})
      /\ Served("BatteryAdder", "setDouble", {"LOCAL_TARGET_V", "LOCAL_TARGET_Q"})
  BY EquipmentGivenServed, LimitsGivenServed DEF EquipmentGiven, LimitsGiven
<1>2. /\ Serves("BatteryAdder", [setDouble |-> {"BAT_TARGET_P", "BAT_MIN_P", "BAT_MAX_P"}])
      /\ Serves("BatteryAdder", [setDouble |-> {"LOCAL_TARGET_V", "LOCAL_TARGET_Q"}])
  BY <1>1 DEF Serves
<1>3. Starts("BatteryAdder", {<<"VOLTAGE_REGULATION", "VoltageRegulationAdder">>})
  BY PartsStartedLinked DEF Gives, PartsStarted, Starts
<1>4. \A r \in Makes("BatteryAdder", "Battery") : Fits(r)
  BY AddersMake DEF Added
<1> QED  BY <1>2, <1>3, <1>4, ServesFit, StartsFit DEF BatteryAdderFields, RegulationInside

LEMMA GroundAdderFieldsFit == \A r \in GroundAdderFields : Fits(r)
BY AddersMake DEF Added, GroundAdderFields

LEMMA LoadAddersFit == \A r \in LoadAdders : Fits(r)
<1>1. /\ Served("LoadAdder", "setInt", {"LOAD_TYPE"})
      /\ Served("LoadAdder", "setDouble", {"LOAD_P0", "LOAD_Q0"})
      /\ Served("ZipLoadModelAdder", "setDouble", {"ZIP_C0P", "ZIP_C1P", "ZIP_C2P", "ZIP_C0Q",
           "ZIP_C1Q", "ZIP_C2Q"})
      /\ Served("ExponentialLoadModelAdder", "setDouble", {"EXP_NP", "EXP_NQ"})
  BY EnumsGivenServed, EquipmentGivenServed DEF EnumsGiven, EquipmentGiven
<1>2. /\ Serves("LoadAdder", [setInt |-> {"LOAD_TYPE"}, setDouble |-> {"LOAD_P0", "LOAD_Q0"}])
      /\ Serves("ZipLoadModelAdder", [setDouble |-> {"ZIP_C0P", "ZIP_C1P", "ZIP_C2P", "ZIP_C0Q",
           "ZIP_C1Q", "ZIP_C2Q"}])
      /\ Serves("ExponentialLoadModelAdder", [setDouble |-> {"EXP_NP", "EXP_NQ"}])
  BY <1>1, SMTT(30) DEF Serves
<1>3. Starts("LoadAdder", {<<"ZIP_LOAD_MODEL", "ZipLoadModelAdder">>, <<"EXPONENTIAL_LOAD_MODEL",
       "ExponentialLoadModelAdder">>})
  BY PartsStartedLinked DEF Gives, PartsStarted, Starts
<1>4. /\ \A r \in Makes("LoadAdder", "Load") : Fits(r)
      /\ \A r \in SetsProperties({"ZipLoadModelAdder", "ExponentialLoadModelAdder"}) : Fits(r)
      /\ \A r \in Returns("ZipLoadModelAdder") : Fits(r)
      /\ \A r \in Returns("ExponentialLoadModelAdder") : Fits(r)
  BY AddersMake, PropertiesSet, AddersReturn DEF Added, AddersInside, AddersWithProperties
<1> QED  BY <1>2, <1>3, <1>4, ServesFit, StartsFit DEF LoadAdders

LEMMA ShuntCompensatorAddersFit == \A r \in ShuntCompensatorAdders : Fits(r)
<1>1. /\ Served("ShuntCompensatorAdder", "setInt", {"SHUNT_SECTION_COUNT",
           "SHUNT_SOLVED_SECTION_COUNT"})
      /\ Served("ShuntCompensatorAdder", "setDouble", {"LOCAL_TARGET_V", "LOCAL_TARGET_Q"})
      /\ Served("ShuntCompensatorLinearModelAdder", "setDouble", {"SHUNT_B_PER_SECTION",
           "SHUNT_G_PER_SECTION"})
      /\ Served("ShuntCompensatorLinearModelAdder", "setInt", {"SHUNT_MAX_SECTION_COUNT"})
      /\ Served("SectionAdder", "setDouble", {"SHUNT_SECTION_B", "SHUNT_SECTION_G"})
  BY EquipmentGivenServed, IntsGivenServed DEF EquipmentGiven, IntsGiven
<1>2. /\ Serves("ShuntCompensatorAdder", [setInt |-> {"SHUNT_SECTION_COUNT",
           "SHUNT_SOLVED_SECTION_COUNT"}])
      /\ Serves("ShuntCompensatorAdder", [setDouble |-> {"LOCAL_TARGET_V", "LOCAL_TARGET_Q"}])
      /\ Serves("ShuntCompensatorLinearModelAdder", [setDouble |-> {"SHUNT_B_PER_SECTION",
           "SHUNT_G_PER_SECTION"}, setInt |-> {"SHUNT_MAX_SECTION_COUNT"}])
      /\ Serves("SectionAdder", [setDouble |-> {"SHUNT_SECTION_B", "SHUNT_SECTION_G"}])
  BY <1>1, SMTT(30) DEF Serves
<1>3. /\ Starts("ShuntCompensatorAdder", {<<"VOLTAGE_REGULATION", "VoltageRegulationAdder">>})
      /\ Starts("ShuntCompensatorAdder", {<<"SHUNT_COMPENSATOR_LINEAR_MODEL",
           "ShuntCompensatorLinearModelAdder">>, <<"SHUNT_COMPENSATOR_NON_LINEAR_MODEL",
           "ShuntCompensatorNonLinearModelAdder">>})
      /\ Starts("ShuntCompensatorNonLinearModelAdder", {<<"SHUNT_SECTION", "SectionAdder">>})
  BY EquipmentStartedLinked, PartsStartedLinked DEF EquipmentStarted, Gives, PartsStarted, Starts
<1>4. /\ \A r \in Makes("ShuntCompensatorAdder", "ShuntCompensator") : Fits(r)
      /\ \A r \in Returns("ShuntCompensatorLinearModelAdder") : Fits(r)
      /\ \A r \in Returns("ShuntCompensatorNonLinearModelAdder") : Fits(r)
      /\ \A r \in Returns("SectionAdder") : Fits(r)
  BY AddersMake, AddersReturn DEF Added, AddersInside
<1> QED  BY <1>2, <1>3, <1>4, ServesFit, StartsFit DEF RegulationInside, ShuntCompensatorAdders

LEMMA StaticVarCompensatorAdderFieldsFit == \A r \in StaticVarCompensatorAdderFields : Fits(r)
<1>1. /\ Served("StaticVarCompensatorAdder", "setDouble", {"SVC_B_MIN", "SVC_B_MAX"})
      /\ Served("StaticVarCompensatorAdder", "setDouble", {"LOCAL_TARGET_V", "LOCAL_TARGET_Q"})
  BY EquipmentGivenServed DEF EquipmentGiven
<1>2. /\ Serves("StaticVarCompensatorAdder", [setDouble |-> {"SVC_B_MIN", "SVC_B_MAX"}])
      /\ Serves("StaticVarCompensatorAdder", [setDouble |-> {"LOCAL_TARGET_V", "LOCAL_TARGET_Q"}])
  BY <1>1 DEF Serves
<1>3. Starts("StaticVarCompensatorAdder", {<<"VOLTAGE_REGULATION", "VoltageRegulationAdder">>})
  BY PartsStartedLinked DEF Gives, PartsStarted, Starts
<1>4. \A r \in Makes("StaticVarCompensatorAdder", "StaticVarCompensator") : Fits(r)
  BY AddersMake DEF Added
<1> QED  BY <1>2, <1>3, <1>4, ServesFit, StartsFit DEF RegulationInside,
     StaticVarCompensatorAdderFields

LEMMA BoundaryLineAddersFit == \A r \in BoundaryLineAdders : Fits(r)
<1>1. /\ Served("BoundaryLineAdder", "setDouble", {"BL_P0", "BL_Q0", "BL_R", "BL_X", "BL_G",
           "BL_B"})
      /\ Served("BoundaryLineAdder", "setString", {"BL_PAIRING_KEY"})
      /\ Served("GenerationAdder", "setDouble", {"GENERATION_TARGET_P", "GENERATION_MIN_P",
           "GENERATION_MAX_P", "GENERATION_TARGET_Q", "GENERATION_TARGET_V"})
      /\ Served("GenerationAdder", "setBool", {"GENERATION_VOLTAGE_REGULATION_ON"})
  BY BoolsGivenServed, EquipmentGivenServed, StringsGivenServed DEF BoolsGiven, EquipmentGiven,
       StringsGiven
<1>2. /\ Serves("BoundaryLineAdder", [setDouble |-> {"BL_P0", "BL_Q0", "BL_R", "BL_X", "BL_G",
           "BL_B"}, setString |-> {"BL_PAIRING_KEY"}])
      /\ Serves("GenerationAdder", [setDouble |-> {"GENERATION_TARGET_P", "GENERATION_MIN_P",
           "GENERATION_MAX_P", "GENERATION_TARGET_Q", "GENERATION_TARGET_V"}, setBool |->
           {"GENERATION_VOLTAGE_REGULATION_ON"}])
  BY <1>1 DEF Serves
<1>3. Starts("BoundaryLineAdder", {<<"BOUNDARY_LINE_GENERATION", "GenerationAdder">>})
  BY EquipmentStartedLinked DEF EquipmentStarted, Gives, Starts
<1>4. /\ \A r \in Makes("BoundaryLineAdder", "BoundaryLine") : Fits(r)
      /\ \A r \in Returns("GenerationAdder") : Fits(r)
  BY AddersMake, AddersReturn DEF Added, AddersInside
<1> QED  BY <1>2, <1>3, <1>4, ServesFit, StartsFit DEF BoundaryLineAdders

LEMMA VscConverterStationAdderFieldsFit == \A r \in VscConverterStationAdderFields : Fits(r)
<1>1. /\ Served("VscConverterStationAdder", "setDouble", {"CONVERTER_STATION_LOSS_FACTOR"})
      /\ Served("VscConverterStationAdder", "setDouble", {"LOCAL_TARGET_V", "LOCAL_TARGET_Q"})
  BY EquipmentGivenServed DEF EquipmentGiven
<1>2. /\ Serves("VscConverterStationAdder", [setDouble |-> {"CONVERTER_STATION_LOSS_FACTOR"}])
      /\ Serves("VscConverterStationAdder", [setDouble |-> {"LOCAL_TARGET_V", "LOCAL_TARGET_Q"}])
  BY <1>1 DEF Serves
<1>3. Starts("VscConverterStationAdder", {<<"VOLTAGE_REGULATION", "VoltageRegulationAdder">>})
  BY PartsStartedLinked DEF Gives, PartsStarted, Starts
<1>4. \A r \in Makes("VscConverterStationAdder", "VscConverterStation") : Fits(r)
  BY AddersMake DEF Added
<1> QED  BY <1>2, <1>3, <1>4, ServesFit, StartsFit DEF RegulationInside,
     VscConverterStationAdderFields

LEMMA LccConverterStationAdderFieldsFit == \A r \in LccConverterStationAdderFields : Fits(r)
<1>1. Served("LccConverterStationAdder", "setDouble", {"CONVERTER_STATION_LOSS_FACTOR",
       "LCC_POWER_FACTOR"})
  BY EquipmentGivenServed DEF EquipmentGiven
<1>2. Serves("LccConverterStationAdder", [setDouble |-> {"CONVERTER_STATION_LOSS_FACTOR",
       "LCC_POWER_FACTOR"}])
  BY <1>1 DEF Serves
<1>3. \A r \in Makes("LccConverterStationAdder", "LccConverterStation") : Fits(r)
  BY AddersMake DEF Added
<1> QED  BY <1>2, <1>3, ServesFit DEF LccConverterStationAdderFields

LEMMA HvdcLineAdderFieldsFit == \A r \in HvdcLineAdderFields : Fits(r)
<1>1. /\ Served("HvdcLineAdder", "setDouble", {"HVDC_R", "HVDC_NOMINAL_V",
           "HVDC_ACTIVE_POWER_SETPOINT", "HVDC_MAX_P"})
      /\ Served("HvdcLineAdder", "setInt", {"HVDC_CONVERTERS_MODE"})
      /\ Served("HvdcLineAdder", "setString", {"HVDC_CONVERTER_STATION_ID1",
           "HVDC_CONVERTER_STATION_ID2"})
  BY EnumsGivenServed, EquipmentGivenServed, StringsGivenServed DEF EnumsGiven, EquipmentGiven,
       StringsGiven
<1>2. Serves("HvdcLineAdder", [setDouble |-> {"HVDC_R", "HVDC_NOMINAL_V",
       "HVDC_ACTIVE_POWER_SETPOINT", "HVDC_MAX_P"}, setInt |-> {"HVDC_CONVERTERS_MODE"}, setString
       |-> {"HVDC_CONVERTER_STATION_ID1", "HVDC_CONVERTER_STATION_ID2"}])
  BY <1>1 DEF Serves
<1>3. \A r \in Makes("HvdcLineAdder", "HvdcLine") : Fits(r)
  BY AddersMake DEF Added
<1> QED  BY <1>2, <1>3, ServesFit DEF HvdcLineAdderFields

LEMMA LineAdderFieldsFit == \A r \in LineAdderFields : Fits(r)
<1>1. /\ Served("LineAdder", "setDouble", {"LINE_R", "LINE_X", "LINE_G1", "LINE_B1", "LINE_G2",
           "LINE_B2"})
      /\ Served("LineAdder", "setRelated", {"FILL_FROM"})
  BY EquipmentGivenServed, SetRelatedFieldsAskedServed DEF EquipmentGiven, SetRelatedFieldsAsked
<1>2. Serves("LineAdder", [setDouble |-> {"LINE_R", "LINE_X", "LINE_G1", "LINE_B1", "LINE_G2",
       "LINE_B2"}, setRelated |-> {"FILL_FROM"}])
  BY <1>1 DEF Serves
<1>3. \A r \in Makes("LineAdder", "Line") : Fits(r)
  BY AddersMake DEF Added
<1> QED  BY <1>2, <1>3, ServesFit DEF LineAdderFields

LEMMA TieLineAdderFieldsFit == \A r \in TieLineAdderFields : Fits(r)
<1>1. Served("TieLineAdder", "setString", {"BOUNDARY_LINE1_ID", "BOUNDARY_LINE2_ID"})
  BY StringsGivenServed DEF StringsGiven
<1>2. Serves("TieLineAdder", [setString |-> {"BOUNDARY_LINE1_ID", "BOUNDARY_LINE2_ID"}])
  BY <1>1 DEF Serves
<1>3. \A r \in Makes("TieLineAdder", "TieLine") : Fits(r)
  BY AddersMake DEF Added
<1> QED  BY <1>2, <1>3, ServesFit DEF TieLineAdderFields

LEMMA TwoWindingsTransformerAdderFieldsFit == \A r \in TwoWindingsTransformerAdderFields : Fits(r)
<1>1. /\ Served("TwoWindingsTransformerAdder", "setDouble", {"TWO_WT_R", "TWO_WT_X", "TWO_WT_G",
           "TWO_WT_B", "TWO_WT_RATED_U1", "TWO_WT_RATED_U2", "TWO_WT_RATED_S"})
      /\ Served("TwoWindingsTransformerAdder", "setRelated", {"FILL_FROM"})
  BY EquipmentGivenServed, SetRelatedFieldsAskedServed DEF EquipmentGiven, SetRelatedFieldsAsked
<1>2. Serves("TwoWindingsTransformerAdder", [setDouble |-> {"TWO_WT_R", "TWO_WT_X", "TWO_WT_G",
       "TWO_WT_B", "TWO_WT_RATED_U1", "TWO_WT_RATED_U2", "TWO_WT_RATED_S"}, setRelated |->
       {"FILL_FROM"}])
  BY <1>1 DEF Serves
<1>3. \A r \in Makes("TwoWindingsTransformerAdder", "TwoWindingsTransformer") : Fits(r)
  BY AddersMake DEF Added
<1> QED  BY <1>2, <1>3, ServesFit DEF TwoWindingsTransformerAdderFields

LEMMA ThreeWindingsTransformerAddersFit == \A r \in ThreeWindingsTransformerAdders : Fits(r)
<1>1. /\ Served("ThreeWindingsTransformerAdder", "setDouble", {"THREE_WT_RATED_U0"})
      /\ Served("LegAdder", "setDouble", {"LEG_R", "LEG_X", "LEG_G", "LEG_B", "LEG_RATED_U",
           "LEG_RATED_S"})
      /\ Served("LegAdder", "setString", {"TERMINAL_VOLTAGE_LEVEL_ID",
           "TERMINAL_BUS_BREAKER_BUS_ID", "TERMINAL_BUS_BREAKER_CONNECTABLE_BUS_ID"})
      /\ Served("LegAdder", "setInt", {"TERMINAL_NODE", "LEG_SIDE"})
  BY LimitsGivenServed, SetDoubleFieldsAskedServed, SetIntFieldsAskedServed,
       SetStringFieldsAskedServed DEF LimitsGiven, SetDoubleFieldsAsked, SetIntFieldsAsked,
       SetStringFieldsAsked
<1>2. /\ Serves("ThreeWindingsTransformerAdder", [setDouble |-> {"THREE_WT_RATED_U0"}])
      /\ Serves("LegAdder", [setDouble |-> {"LEG_R", "LEG_X", "LEG_G", "LEG_B", "LEG_RATED_U",
           "LEG_RATED_S"}, setString |-> {"TERMINAL_VOLTAGE_LEVEL_ID",
           "TERMINAL_BUS_BREAKER_BUS_ID", "TERMINAL_BUS_BREAKER_CONNECTABLE_BUS_ID"}, setInt |->
           {"TERMINAL_NODE", "LEG_SIDE"}])
  BY <1>1 DEF Serves
<1>3. Starts("ThreeWindingsTransformerAdder", {<<"THREE_WINDINGS_TRANSFORMER_LEG", "LegAdder">>})
  BY EquipmentStartedLinked DEF EquipmentStarted, Gives, Starts
<1>4. /\ \A r \in Makes("ThreeWindingsTransformerAdder", "ThreeWindingsTransformer") : Fits(r)
      /\ \A r \in Returns("LegAdder") : Fits(r)
  BY AddersMake, AddersReturn DEF Added, AddersInside
<1> QED  BY <1>2, <1>3, <1>4, ServesFit, StartsFit DEF ThreeWindingsTransformerAdders

LEMMA RatioTapChangerAdderFieldsFit == \A r \in RatioTapChangerAdderFields : Fits(r)
<1>1. Served("RatioTapChangerAdder", "setInt", {"TC_LOW_TAP_POSITION", "TC_TAP_POSITION",
       "TC_SOLVED_TAP_POSITION"})
  BY IntsGivenServed DEF IntsGiven
<1>2. Serves("RatioTapChangerAdder", [setInt |-> {"TC_LOW_TAP_POSITION", "TC_TAP_POSITION",
       "TC_SOLVED_TAP_POSITION"}])
  BY <1>1 DEF Serves
<1>3. /\ Starts("RatioTapChangerAdder", {<<"RATIO_TAP_CHANGER_STEP", "RatioTapChangerStepAdder">>})
      /\ Starts("RatioTapChangerAdder", {<<"VOLTAGE_REGULATION", "VoltageRegulationAdder">>})
  BY PartsStartedLinked DEF Gives, PartsStarted, Starts
<1>4. /\ \A r \in SetsProperties({"RatioTapChangerAdder"}) : Fits(r)
      /\ \A r \in Makes("RatioTapChangerAdder", "RatioTapChanger") : Fits(r)
  BY PropertiesSet, AddersMake DEF Added, AddersWithProperties
<1> QED  BY <1>2, <1>3, <1>4, ServesFit, StartsFit DEF RatioTapChangerAdderFields, TapChangerFields

LEMMA PhaseTapChangerAdderFieldsFit == \A r \in PhaseTapChangerAdderFields : Fits(r)
<1>1. /\ Served("PhaseTapChangerAdder", "setInt", {"TC_LOW_TAP_POSITION", "TC_TAP_POSITION",
           "TC_SOLVED_TAP_POSITION"})
      /\ Served("PhaseTapChangerAdder", "setInt", {"PTC_REGULATION_MODE"})
      /\ Served("PhaseTapChangerAdder", "setBool", {"REGULATING",
           "TC_LOAD_TAP_CHANGING_CAPABILITIES"})
      /\ Served("PhaseTapChangerAdder", "setDouble", {"PTC_REGULATION_VALUE",
           "PTC_TARGET_DEADBAND"})
      /\ Served("PhaseTapChangerAdder", "setRelated", {"REL_REGULATION_TERMINAL"})
  BY BoolsGivenServed, EquipmentGivenServed, IntsGivenServed, SetIntFieldsAskedServed,
       SetRelatedFieldsAskedServed DEF BoolsGiven, EquipmentGiven, IntsGiven, SetIntFieldsAsked,
       SetRelatedFieldsAsked
<1>2. Serves("PhaseTapChangerAdder", [setInt |-> {"TC_LOW_TAP_POSITION", "TC_TAP_POSITION",
       "TC_SOLVED_TAP_POSITION"}])
  BY <1>1 DEF Serves
<1>3. Serves("PhaseTapChangerAdder", [setInt |-> {"PTC_REGULATION_MODE"}, setBool |-> {"REGULATING",
       "TC_LOAD_TAP_CHANGING_CAPABILITIES"}, setDouble |-> {"PTC_REGULATION_VALUE",
       "PTC_TARGET_DEADBAND"}, setRelated |-> {"REL_REGULATION_TERMINAL"}])
  BY <1>1 DEF Serves
<1>4. Starts("PhaseTapChangerAdder", {<<"PHASE_TAP_CHANGER_STEP", "PhaseTapChangerStepAdder">>})
  BY PartsStartedLinked DEF Gives, PartsStarted, Starts
<1>5. /\ \A r \in SetsProperties({"PhaseTapChangerAdder"}) : Fits(r)
      /\ \A r \in Makes("PhaseTapChangerAdder", "PhaseTapChanger") : Fits(r)
  BY PropertiesSet, AddersMake DEF Added, AddersWithProperties
<1> QED  BY <1>2, <1>3, <1>4, <1>5, ServesFit, StartsFit DEF PhaseTapChangerAdderFields,
     TapChangerFields

LEMMA StepsReplacersFit == \A r \in StepsReplacers : Fits(r)
<1>1. /\ Served("RatioTapChangerStepAdder", "setDouble", {"STEP_RHO", "STEP_R", "STEP_X", "STEP_G",
           "STEP_B"})
      /\ Served("PhaseTapChangerStepAdder", "setDouble", {"STEP_RHO", "STEP_R", "STEP_X", "STEP_G",
           "STEP_B"})
      /\ Served("PhaseTapChangerStepAdder", "setDouble", {"PTC_STEP_ALPHA"})
  BY EquipmentGivenServed DEF EquipmentGiven
<1>2. /\ Serves("RatioTapChangerStepAdder", [setDouble |-> {"STEP_RHO", "STEP_R", "STEP_X",
           "STEP_G", "STEP_B"}])
      /\ Serves("PhaseTapChangerStepAdder", [setDouble |-> {"STEP_RHO", "STEP_R", "STEP_X",
           "STEP_G", "STEP_B"}])
      /\ Serves("PhaseTapChangerStepAdder", [setDouble |-> {"PTC_STEP_ALPHA"}])
  BY <1>1 DEF Serves
<1>3. /\ Starts("RatioTapChangerStepsReplacer", {<<"RATIO_TAP_CHANGER_STEP",
           "RatioTapChangerStepAdder">>})
      /\ Starts("PhaseTapChangerStepsReplacer", {<<"PHASE_TAP_CHANGER_STEP",
           "PhaseTapChangerStepAdder">>})
  BY PartsStartedLinked DEF Gives, PartsStarted, Starts
<1>4. /\ \A r \in SetsProperties({"RatioTapChangerStepAdder"}) : Fits(r)
      /\ \A r \in Returns("RatioTapChangerStepAdder") : Fits(r)
      /\ \A r \in SetsProperties({"PhaseTapChangerStepAdder"}) : Fits(r)
      /\ \A r \in Returns("PhaseTapChangerStepAdder") : Fits(r)
      /\ \A r \in Returns("RatioTapChangerStepsReplacer") : Fits(r)
      /\ \A r \in Returns("PhaseTapChangerStepsReplacer") : Fits(r)
  BY PropertiesSet, AddersReturn DEF AddersInside, AddersWithProperties
<1> QED  BY <1>2, <1>3, <1>4, ServesFit, StartsFit DEF StepAdder, StepsReplacers

LEMMA CurrentLimitsAdderFieldsFit == \A r \in LoadingLimitsAdderFields("CurrentLimitsAdder",
  "CurrentLimits") : Fits(r)
<1>1. /\ Served("CurrentLimitsAdder", "setDouble", {"LL_PERMANENT_LIMIT"})
      /\ Served("CurrentLimitsAdder", "setString", {"LL_PERMANENT_LIMIT_NAME"})
      /\ Served("CurrentLimitsAdder", "setInt", {"LL_DETECTION_KIND"})
  BY EnumsGivenServed, LimitsGivenServed, StringsGivenServed DEF EnumsGiven, LimitsGiven,
       StringsGiven
<1>2. Serves("CurrentLimitsAdder", [setDouble |-> {"LL_PERMANENT_LIMIT"}, setString |->
       {"LL_PERMANENT_LIMIT_NAME"}, setInt |-> {"LL_DETECTION_KIND"}])
  BY <1>1 DEF Serves
<1>3. Starts("CurrentLimitsAdder", {<<"TEMPORARY_LIMIT", "TemporaryLimitAdder">>})
  BY PartsStartedLinked DEF Gives, PartsStarted, Starts
<1>4. /\ \A r \in SetsProperties({"CurrentLimitsAdder"}) : Fits(r)
      /\ \A r \in Makes("CurrentLimitsAdder", "CurrentLimits") : Fits(r)
  BY PropertiesSet, AddersMake DEF Added, AddersWithProperties
<1> QED  BY <1>2, <1>3, <1>4, ServesFit, StartsFit DEF LoadingLimitsAdderFields

LEMMA ActivePowerLimitsAdderFieldsFit == \A r \in LoadingLimitsAdderFields("ActivePowerLimitsAdder",
  "ActivePowerLimits") : Fits(r)
<1>1. /\ Served("ActivePowerLimitsAdder", "setDouble", {"LL_PERMANENT_LIMIT"})
      /\ Served("ActivePowerLimitsAdder", "setString", {"LL_PERMANENT_LIMIT_NAME"})
      /\ Served("ActivePowerLimitsAdder", "setInt", {"LL_DETECTION_KIND"})
  BY EnumsGivenServed, LimitsGivenServed, StringsGivenServed DEF EnumsGiven, LimitsGiven,
       StringsGiven
<1>2. Serves("ActivePowerLimitsAdder", [setDouble |-> {"LL_PERMANENT_LIMIT"}, setString |->
       {"LL_PERMANENT_LIMIT_NAME"}, setInt |-> {"LL_DETECTION_KIND"}])
  BY <1>1 DEF Serves
<1>3. Starts("ActivePowerLimitsAdder", {<<"TEMPORARY_LIMIT", "TemporaryLimitAdder">>})
  BY PartsStartedLinked DEF Gives, PartsStarted, Starts
<1>4. /\ \A r \in SetsProperties({"ActivePowerLimitsAdder"}) : Fits(r)
      /\ \A r \in Makes("ActivePowerLimitsAdder", "ActivePowerLimits") : Fits(r)
  BY PropertiesSet, AddersMake DEF Added, AddersWithProperties
<1> QED  BY <1>2, <1>3, <1>4, ServesFit, StartsFit DEF LoadingLimitsAdderFields

LEMMA ApparentPowerLimitsAdderFieldsFit == \A r \in
  LoadingLimitsAdderFields("ApparentPowerLimitsAdder", "ApparentPowerLimits") : Fits(r)
<1>1. /\ Served("ApparentPowerLimitsAdder", "setDouble", {"LL_PERMANENT_LIMIT"})
      /\ Served("ApparentPowerLimitsAdder", "setString", {"LL_PERMANENT_LIMIT_NAME"})
      /\ Served("ApparentPowerLimitsAdder", "setInt", {"LL_DETECTION_KIND"})
  BY EnumsGivenServed, LimitsGivenServed, StringsGivenServed DEF EnumsGiven, LimitsGiven,
       StringsGiven
<1>2. Serves("ApparentPowerLimitsAdder", [setDouble |-> {"LL_PERMANENT_LIMIT"}, setString |->
       {"LL_PERMANENT_LIMIT_NAME"}, setInt |-> {"LL_DETECTION_KIND"}])
  BY <1>1 DEF Serves
<1>3. Starts("ApparentPowerLimitsAdder", {<<"TEMPORARY_LIMIT", "TemporaryLimitAdder">>})
  BY PartsStartedLinked DEF Gives, PartsStarted, Starts
<1>4. /\ \A r \in SetsProperties({"ApparentPowerLimitsAdder"}) : Fits(r)
      /\ \A r \in Makes("ApparentPowerLimitsAdder", "ApparentPowerLimits") : Fits(r)
  BY PropertiesSet, AddersMake DEF Added, AddersWithProperties
<1> QED  BY <1>2, <1>3, <1>4, ServesFit, StartsFit DEF LoadingLimitsAdderFields

LEMMA TemporaryLimitAdderFieldsFit == \A r \in TemporaryLimitAdderFields : Fits(r)
<1>1. /\ Served("TemporaryLimitAdder", "setString", {"TL_NAME"})
      /\ Served("TemporaryLimitAdder", "setDouble", {"TL_VALUE"})
      /\ Served("TemporaryLimitAdder", "setInt", {"TL_ACCEPTABLE_DURATION"})
      /\ Served("TemporaryLimitAdder", "setBool", {"TL_FICTITIOUS"})
      /\ Served("TemporaryLimitAdder", "setBool", {"ENSURE_ID_UNICITY"})
  BY BoolsGivenServed, IntsGivenServed, LimitsGivenServed, SetBoolFieldsAskedServed,
       StringsGivenServed DEF BoolsGiven, IntsGiven, LimitsGiven, SetBoolFieldsAsked, StringsGiven
<1>2. Served("TemporaryLimitAdder", "setBool", {"TL_FICTITIOUS", "ENSURE_ID_UNICITY"})
  BY <1>1 DEF Served
<1>3. Serves("TemporaryLimitAdder", [setString |-> {"TL_NAME"}, setDouble |-> {"TL_VALUE"}, setInt
       |-> {"TL_ACCEPTABLE_DURATION"}, setBool |-> {"TL_FICTITIOUS", "ENSURE_ID_UNICITY"}])
  BY <1>1, <1>2 DEF Serves
<1>4. /\ \A r \in SetsProperties({"TemporaryLimitAdder"}) : Fits(r)
      /\ \A r \in Returns("TemporaryLimitAdder") : Fits(r)
  BY PropertiesSet, AddersReturn DEF AddersInside, AddersWithProperties
<1> QED  BY <1>3, <1>4, ServesFit DEF TemporaryLimitAdderFields

LEMMA VoltageAngleLimitAdderFieldsFit == \A r \in VoltageAngleLimitAdderFields : Fits(r)
<1>1. /\ Served("VoltageAngleLimitAdder", "setString", {"VAL_ID"})
      /\ Served("VoltageAngleLimitAdder", "setRelated", {"REL_TERMINAL_FROM", "REL_TERMINAL_TO"})
      /\ Served("VoltageAngleLimitAdder", "setDouble", {"VAL_LOW_LIMIT", "VAL_HIGH_LIMIT"})
  BY LimitsGivenServed, SetRelatedFieldsAskedServed, StringsGivenServed DEF LimitsGiven,
       SetRelatedFieldsAsked, StringsGiven
<1>2. Serves("VoltageAngleLimitAdder", [setString |-> {"VAL_ID"}, setRelated |->
       {"REL_TERMINAL_FROM", "REL_TERMINAL_TO"}, setDouble |-> {"VAL_LOW_LIMIT", "VAL_HIGH_LIMIT"}])
  BY <1>1 DEF Serves
<1>3. /\ \A r \in SetsProperties({"VoltageAngleLimitAdder"}) : Fits(r)
      /\ \A r \in Makes("VoltageAngleLimitAdder", "VoltageAngleLimit") : Fits(r)
  BY PropertiesSet, AddersMake DEF Added, AddersWithProperties
<1> QED  BY <1>2, <1>3, ServesFit DEF VoltageAngleLimitAdderFields

LEMMA MinMaxReactiveLimitsAdderFieldsFit == \A r \in MinMaxReactiveLimitsAdderFields : Fits(r)
<1>1. Served("MinMaxReactiveLimitsAdder", "setDouble", {"RL_MIN_Q", "RL_MAX_Q"})
  BY LimitsGivenServed DEF LimitsGiven
<1>2. Serves("MinMaxReactiveLimitsAdder", [setDouble |-> {"RL_MIN_Q", "RL_MAX_Q"}])
  BY <1>1 DEF Serves
<1>3. \A r \in Makes("MinMaxReactiveLimitsAdder", "MinMaxReactiveLimits") : Fits(r)
  BY AddersMake DEF Added
<1> QED  BY <1>2, <1>3, ServesFit DEF MinMaxReactiveLimitsAdderFields

LEMMA ReactiveCapabilityCurveAddersFit == \A r \in ReactiveCapabilityCurveAdders : Fits(r)
<1>1. Served("PointAdder", "setDouble", {"POINT_P", "POINT_MIN_Q", "POINT_MAX_Q"})
  BY LimitsGivenServed DEF LimitsGiven
<1>2. Serves("PointAdder", [setDouble |-> {"POINT_P", "POINT_MIN_Q", "POINT_MAX_Q"}])
  BY <1>1 DEF Serves
<1>3. Starts("ReactiveCapabilityCurveAdder", {<<"REACTIVE_CURVE_POINT", "PointAdder">>})
  BY PartsStartedLinked DEF Gives, PartsStarted, Starts
<1>4. /\ \A r \in SetsProperties({"ReactiveCapabilityCurveAdder", "PointAdder"}) : Fits(r)
      /\ \A r \in Makes("ReactiveCapabilityCurveAdder", "ReactiveCapabilityCurve") : Fits(r)
      /\ \A r \in Returns("PointAdder") : Fits(r)
  BY PropertiesSet, AddersMake, AddersReturn DEF Added, AddersInside, AddersWithProperties
<1> QED  BY <1>2, <1>3, <1>4, ServesFit, StartsFit DEF ReactiveCapabilityCurveAdders

LEMMA ReactiveCapabilityShapeAdderFieldsFit == \A r \in ReactiveCapabilityShapeAdderFields : Fits(r)
<1>1. Call("REACTIVE_CAPABILITY_SHAPE_PLANE", {"ReactiveCapabilityShapeAdder"}, {"PLANE_ALPHA",
       "PLANE_BETA", "PLANE_DELTA", "PLANE_GREATER_OR_EQUAL", "PLANE_GAMMA"}, {None}) \in
       CallsInSteps
  BY DEF CallsInSteps
<1>2. KindsUnder("ReactiveCapabilityShapeAdder") \subseteq {"ReactiveCapabilityShapeAdder"}
  BY KindsOfEachAdder
<1>3. \A r \in Does("ReactiveCapabilityShapeAdder", "REACTIVE_CAPABILITY_SHAPE_PLANE",
       {"PLANE_ALPHA", "PLANE_BETA", "PLANE_DELTA", "PLANE_GREATER_OR_EQUAL", "PLANE_GAMMA"}) :
       Fits(r)
  BY <1>1, <1>2, CallDone
<1>4. /\ \A r \in SetsProperties({"ReactiveCapabilityShapeAdder"}) : Fits(r)
      /\ \A r \in Makes("ReactiveCapabilityShapeAdder", "ReactiveCapabilityShape") : Fits(r)
  BY PropertiesSet, AddersMake DEF Added, AddersWithProperties
<1> QED  BY <1>3, <1>4 DEF ReactiveCapabilityShapeAdderFields

LEMMA OverloadManagementSystemAddersFit == \A r \in OverloadManagementSystemAdders : Fits(r)
<1>1. /\ Served("OverloadManagementSystemAdder", "setBool", {"AUTOMATION_SYSTEM_ENABLED"})
      /\ Served("OverloadManagementSystemAdder", "setString", {"OMS_MONITORED_ELEMENT_ID"})
      /\ Served("OverloadManagementSystemAdder", "setInt", {"OMS_MONITORED_SIDE"})
      /\ Served("SwitchTrippingAdder", "setString", {"TRIPPING_KEY", "TRIPPING_NAME"})
      /\ Served("SwitchTrippingAdder", "setString", {"TRIPPING_ELEMENT_ID"})
      /\ Served("SwitchTrippingAdder", "setDouble", {"TRIPPING_CURRENT_LIMIT"})
      /\ Served("SwitchTrippingAdder", "setBool", {"TRIPPING_OPEN_ACTION"})
      /\ Served("BranchTrippingAdder", "setString", {"TRIPPING_KEY", "TRIPPING_NAME"})
      /\ Served("BranchTrippingAdder", "setString", {"TRIPPING_ELEMENT_ID"})
      /\ Served("BranchTrippingAdder", "setDouble", {"TRIPPING_CURRENT_LIMIT"})
      /\ Served("BranchTrippingAdder", "setBool", {"TRIPPING_OPEN_ACTION"})
      /\ Served("ThreeWindingsTransformerTrippingAdder", "setString", {"TRIPPING_KEY",
           "TRIPPING_NAME"})
      /\ Served("ThreeWindingsTransformerTrippingAdder", "setString", {"TRIPPING_ELEMENT_ID"})
      /\ Served("ThreeWindingsTransformerTrippingAdder", "setDouble", {"TRIPPING_CURRENT_LIMIT"})
      /\ Served("ThreeWindingsTransformerTrippingAdder", "setBool", {"TRIPPING_OPEN_ACTION"})
      /\ Served("BranchTrippingAdder", "setInt", {"TRIPPING_SIDE"})
      /\ Served("ThreeWindingsTransformerTrippingAdder", "setInt", {"TRIPPING_SIDE"})
  BY BoolsGivenServed, EnumsGivenServed, LimitsGivenServed, SetIntFieldsAskedServed,
       SetStringFieldsAskedServed, StringsGivenServed DEF BoolsGiven, EnumsGiven, LimitsGiven,
       SetIntFieldsAsked, SetStringFieldsAsked, StringsGiven
<1>2. /\ Served("SwitchTrippingAdder", "setString", {"TRIPPING_KEY", "TRIPPING_NAME",
           "TRIPPING_ELEMENT_ID"})
      /\ Served("BranchTrippingAdder", "setString", {"TRIPPING_KEY", "TRIPPING_NAME",
           "TRIPPING_ELEMENT_ID"})
      /\ Served("ThreeWindingsTransformerTrippingAdder", "setString", {"TRIPPING_KEY",
           "TRIPPING_NAME", "TRIPPING_ELEMENT_ID"})
  BY <1>1 DEF Served
<1>3. Serves("OverloadManagementSystemAdder", [setBool |-> {"AUTOMATION_SYSTEM_ENABLED"}, setString
       |-> {"OMS_MONITORED_ELEMENT_ID"}, setInt |-> {"OMS_MONITORED_SIDE"}])
  BY <1>1, <1>2, SMTT(30) DEF Serves
<1>4. Serves("SwitchTrippingAdder", [setString |-> {"TRIPPING_KEY", "TRIPPING_NAME",
       "TRIPPING_ELEMENT_ID"}, setDouble |-> {"TRIPPING_CURRENT_LIMIT"}, setBool |->
       {"TRIPPING_OPEN_ACTION"}])
  BY <1>1, <1>2, SMTT(30) DEF Serves
<1>5. Serves("BranchTrippingAdder", [setString |-> {"TRIPPING_KEY", "TRIPPING_NAME",
       "TRIPPING_ELEMENT_ID"}, setDouble |-> {"TRIPPING_CURRENT_LIMIT"}, setBool |->
       {"TRIPPING_OPEN_ACTION"}])
  BY <1>1, <1>2, SMTT(30) DEF Serves
<1>6. Serves("ThreeWindingsTransformerTrippingAdder", [setString |-> {"TRIPPING_KEY",
       "TRIPPING_NAME", "TRIPPING_ELEMENT_ID"}, setDouble |-> {"TRIPPING_CURRENT_LIMIT"}, setBool
       |-> {"TRIPPING_OPEN_ACTION"}])
  BY <1>1, <1>2, SMTT(30) DEF Serves
<1>7. Serves("BranchTrippingAdder", [setInt |-> {"TRIPPING_SIDE"}])
  BY <1>1, <1>2, SMTT(30) DEF Serves
<1>8. Serves("ThreeWindingsTransformerTrippingAdder", [setInt |-> {"TRIPPING_SIDE"}])
  BY <1>1, <1>2, SMTT(30) DEF Serves
<1>9. Starts("OverloadManagementSystemAdder", {<<"SWITCH_TRIPPING", "SwitchTrippingAdder">>,
       <<"BRANCH_TRIPPING", "BranchTrippingAdder">>, <<"THREE_WINDINGS_TRANSFORMER_TRIPPING",
       "ThreeWindingsTransformerTrippingAdder">>})
  BY PartsStartedLinked DEF Gives, PartsStarted, Starts
<1>10. /\ \A r \in Makes("OverloadManagementSystemAdder", "OverloadManagementSystem") : Fits(r)
       /\ \A r \in SetsProperties({"SwitchTrippingAdder"}) : Fits(r)
       /\ \A r \in Returns("SwitchTrippingAdder") : Fits(r)
       /\ \A r \in SetsProperties({"BranchTrippingAdder"}) : Fits(r)
       /\ \A r \in Returns("BranchTrippingAdder") : Fits(r)
       /\ \A r \in SetsProperties({"ThreeWindingsTransformerTrippingAdder"}) : Fits(r)
       /\ \A r \in Returns("ThreeWindingsTransformerTrippingAdder") : Fits(r)
  BY AddersMake, PropertiesSet, AddersReturn DEF Added, AddersInside, AddersWithProperties
<1> QED  BY <1>3, <1>4, <1>5, <1>6, <1>7, <1>8, <1>9, <1>10, ServesFit, StartsFit DEF
     OverloadManagementSystemAdders, TrippingAdderFields

----------------------------------------------------------------------------
\* Every table agrees with the dispatch.

LEMMA ContainersAllFit == \A r \in ContainerAccessors : Fits(r)
BY NetworkAddersFit, SubnetworksFit, NetworkListsFit, NetworkLookupsFit, NetworkViewsFit,
     NetworkCountsFit, NetworkBusViewsFit, NetworkValuesFit, NodeBreakerViewFit, BusBreakerViewFit,
     BusViewFit, VoltageLevelElementsFit, VoltageLevelCountsFit, VoltageLevelAreasFit,
     VoltageLevelAddersFit, VoltageLevelValuesFit, SubstationElementsFit, SubstationValuesFit,
     ContainerValuesFit DEF ContainerAccessors

LEMMA EquipmentAllFit == \A r \in EquipmentAccessors : Fits(r)
BY IdentifiableValuesFit, IdentifiableLinksFit, PropertiesHolderValuesFit, ConnectableAccessorsFit,
     InjectionLinksFit, TerminalAccessorsFit, TerminalValuesFit, BusLinksFit, BusValuesFit,
     SwitchLinksFit, SwitchValuesFit, ComponentAccessorsFit, GeneratorValuesFit,
     GeneratorTargetsFit, BatteryValuesFit, BatteryTargetsFit, LoadLinksFit, LoadValuesFit,
     LoadModelValuesFit, BusbarSectionValuesFit, ShuntCompensatorLinksFit,
     ShuntCompensatorValuesFit, LinearModelValuesFit, NonLinearModelAccessorsFit,
     StaticVarCompensatorValuesFit, HvdcConverterStationLinksFit, HvdcConverterStationValuesFit,
     LccConverterStationValuesFit, HvdcLineLinksFit, HvdcLineValuesFit, BranchLinksFit,
     BranchOverloadsFit, LineValuesFit, TieLineLinksFit, TieLineValuesFit, BoundaryLineLinksFit,
     BoundaryLineValuesFit, TwoWindingsTransformerActionsFit, TwoWindingsTransformerValuesFit,
     ThreeWindingsTransformerLinksFit, ThreeWindingsTransformerOverloadsFit,
     ThreeWindingsTransformerValuesFit DEF EquipmentAccessors

LEMMA PartsAllFit == \A r \in PartAccessors : Fits(r)
BY VoltageRegulationHolderAccessorsFit, VoltageRegulationLinksFit, VoltageRegulationValuesFit,
     ReactiveLimitsHolderAccessorsFit, ReactiveLimitsAccessorsFit, ReactiveLimitsKindFit,
     MinMaxReactiveLimitsValuesFit, ReactiveCapabilityCurveValuesFit, PlaneValuesFit,
     TapChangerHolderAccessorsFit, RatioTapChangerAccessorsFit, PhaseTapChangerAccessorsFit,
     PhaseTapChangerLinksFit, PhaseTapChangerValuesFit, RatioTapChangerStepNumbersFit,
     PhaseTapChangerStepNumbersFit, PhaseTapChangerStepValuesFit, LimitsHolderAccessorsFit,
     OperationalLimitsGroupAccessorsFit, OperationalLimitsGroupValuesFit, LoadingLimitsAccessorsFit,
     LoadingLimitsValuesFit, TemporaryLimitValuesFit, OverloadLinksFit, OverloadValuesFit,
     VoltageAngleLimitLinksFit, VoltageAngleLimitValuesFit, AreaAccessorsFit, AreaValuesFit,
     AutomationSystemLinksFit, AutomationSystemValuesFit, VariantAccessorsFit, VariantValuesFit,
     InternalConnectionValuesFit, ListElementsFit DEF PartAccessors

LEMMA AddersAllFit == \A r \in AdderAccessors : Fits(r)
BY AdderBasesFit, VoltageRegulationAddersFit, SubstationAdderFieldsFit, VoltageLevelAdderFieldsFit,
     BusAdderFieldsFit, BusbarSectionAdderFieldsFit, SwitchAddersFit, AreaAddersFit,
     AreaBoundariesInsideFit, AreaBoundaryAdderFieldsFit, GeneratorAdderFieldsFit,
     BatteryAdderFieldsFit, GroundAdderFieldsFit, LoadAddersFit, ShuntCompensatorAddersFit,
     StaticVarCompensatorAdderFieldsFit, BoundaryLineAddersFit, VscConverterStationAdderFieldsFit,
     LccConverterStationAdderFieldsFit, HvdcLineAdderFieldsFit, LineAdderFieldsFit,
     TieLineAdderFieldsFit, TwoWindingsTransformerAdderFieldsFit, ThreeWindingsTransformerAddersFit,
     RatioTapChangerAdderFieldsFit, PhaseTapChangerAdderFieldsFit, StepsReplacersFit,
     CurrentLimitsAdderFieldsFit, ActivePowerLimitsAdderFieldsFit,
     ApparentPowerLimitsAdderFieldsFit, TemporaryLimitAdderFieldsFit,
     VoltageAngleLimitAdderFieldsFit, MinMaxReactiveLimitsAdderFieldsFit,
     ReactiveCapabilityCurveAddersFit, ReactiveCapabilityShapeAdderFieldsFit,
     OverloadManagementSystemAddersFit DEF AdderAccessors

\* Each accessor of each wrapper sends a code that the dispatch answers for every kind of object
\* that the wrapper can be of, with nothing that the class of the answer's wrapper is not for.
THEOREM TablesAgree == \A r \in Accessors : Fits(r)
BY ContainersAllFit, EquipmentAllFit, PartsAllFit, AddersAllFit DEF Accessors

LEMMA NetworkIsAClass == "Network" \in Classes
<1>1. Accessor("Network", "invoke", "LINE", "one", "LineAdder") \in NetworkAdders
  BY DEF NetworkAdders, Adds, Links
<1>2. Accessor("Network", "invoke", "LINE", "one", "LineAdder") \in Accessors
  BY <1>1 DEF Accessors, ContainerAccessors
<1> QED  BY <1>2 DEF Classes, Accessor

LEMMA CodedClasses ==
  /\ \A class \in DOMAIN TypeCode : TypeCode[class] \in DOMAIN InstanceOf
  /\ \A class \in DOMAIN TypeCode : class \notin DOMAIN MethodBases
BY DEF TypeCode, InstanceOf, MethodBases

LEMMA CodedKinds ==
  ASSUME NEW class \in DOMAIN TypeCode
  PROVE  KindsUnder(class) = InstanceOf[TypeCode[class]]
             /\ KindsFor(class) = InstanceOf[TypeCode[class]]
BY CodedClasses DEF KindsUnder, KindsFor

\* No wrapper of an object is of a base of methods.
LEMMA BasesHoldNothing ==
  ASSUME NEW class \in DOMAIN MethodBases
  PROVE  KindsFor(class) \cap Objects = {}
<1>1. class \notin DOMAIN TypeCode
  BY CodedClasses
<1>2. {k \in DOMAIN ViewsOf : class \in ViewsOf[k]} = {}
  BY DEF MethodBases, ViewsOf
<1>3. class \notin Kinds
  BY DEF MethodBases, Kinds, Identifiable, Connectable, Injection, Branch, Container,
       AutomationSystem, PropertiesHolder, Leg, TapChanger, TapChangerStep, LoadModel,
       OperationalLimits, LoadingLimits, ReactiveLimits, ShuntCompensatorModel, Tripping, List
<1>4. class \notin Adders
  BY DEF MethodBases, Adders, IdentifiableAdder, InjectionAdder, BranchAdder, SwitchAdder,
       TapChangerAdder, TapChangerStepsReplacer, TapChangerStepAdder, LoadingLimitsAdder,
       ReactiveLimitsAdder, ShuntModelAdder, LoadModelAdder, TrippingAdder,
       VoltageRegulationAdderOrBuilder
<1> QED  BY <1>1, <1>2, <1>3, <1>4 DEF KindsFor, Objects

LEMMA OwnKinds ==
  ASSUME NEW class, NEW kind \in KindsFor(class), kind \in Objects
  PROVE  kind \in KindsUnder(class)
BY BasesHoldNothing DEF KindsUnder

\* What is for no adder holds none.
LEMMA NoAdderInside ==
  ASSUME NEW class, class \notin Adders, NEW kind \in KindsFor(class), kind \in Objects
  PROVE  kind \in Kinds
<1>1. CASE class \in DOMAIN TypeCode
  BY <1>1, CodedKinds, CodedClasses, InstancesAreKinds
<1>2. DOMAIN ViewsOf \subseteq Kinds
  BY KindNames DEF ViewsOf
<1>3. CASE class \notin DOMAIN TypeCode
  BY <1>2, <1>3 DEF KindsFor, Objects
<1> QED  BY <1>1, <1>3

----------------------------------------------------------------------------
\* A base is for the objects of the classes that derive from it.
LEMMA EquipmentBases ==
  ASSUME NEW base \in DOMAIN DerivedEquipment, NEW class \in DerivedEquipment[base]
  PROVE  KindsUnder(class) \subseteq KindsUnder(base)
<1> USE KindsOfBases, KindsOfTypes, KindsOfClasses, KindsOfOthers DEF DerivedEquipment
<1>1. CASE base = "Identifiable"
  BY <1>1 DEF Identifiable, Connectable, Branch, Container, AutomationSystem
<1>2. CASE base = "Connectable"
  BY <1>2 DEF Connectable
<1>3. CASE base = "Injection"
  BY <1>3 DEF Injection, HvdcConverterStation
<1>4. CASE base = "HvdcConverterStation"
  BY <1>4 DEF HvdcConverterStation
<1>5. CASE base = "ContainerMethods"
  BY <1>5 DEF Container
<1>6. CASE base = "BranchMethods"
  BY <1>6 DEF Branch
<1> QED  BY <1>1, <1>2, <1>3, <1>4, <1>5, <1>6

LEMMA PartBases ==
  ASSUME NEW base \in DOMAIN DerivedParts, NEW class \in DerivedParts[base]
  PROVE  KindsUnder(class) \subseteq KindsUnder(base)
<1> USE KindsOfBases, KindsOfTypes, KindsOfPartTypes, KindsOfClasses DEF DerivedParts
<1>1. CASE base = "LoadModel"
  BY <1>1 DEF LoadModel
<1>2. CASE base = "ReactiveLimits"
  BY <1>2 DEF ReactiveLimits
<1>3. CASE base = "ShuntCompensatorModel"
  BY <1>3 DEF ShuntCompensatorModel
<1>4. CASE base = "LoadingLimits"
  BY <1>4 DEF LoadingLimits, LimitTypes
<1>5. CASE base = "Tripping"
  BY <1>5 DEF Tripping
<1>6. CASE base = "VoltageRegulationHolderMethods"
  BY <1>6 DEF VoltageRegulationHolder
<1>7. CASE base = "ReactiveLimitsHolderMethods"
  BY <1>7 DEF ReactiveLimitsHolder
<1>8. CASE base = "TapChangerHolderMethods"
  BY <1>8 DEF TapChangerHolder, Leg
<1>9. CASE base = "FlowsLimitsHolderMethods"
  BY <1>9 DEF LimitsHolder, FlowsLimitsHolder, Leg
<1>10. CASE base = "PropertiesHolder"
  BY <1>10 DEF PropertiesHolder, OperationalLimits, TapChanger, TapChangerStep
<1> QED  BY <1>1, <1>2, <1>3, <1>4, <1>5, <1>6, <1>7, <1>8, <1>9, <1>10

LEMMA AdderBasesKinds ==
  ASSUME NEW base \in DOMAIN DerivedAdders, NEW class \in DerivedAdders[base]
  PROVE  KindsUnder(class) \subseteq KindsUnder(base)
<1> USE KindsOfBases, KindsOfEachAdder DEF DerivedAdders
<1>1. CASE base = "IdentifiableAdder"
  BY <1>1 DEF IdentifiableAdder, ConnectableAdder, SwitchAdder
<1>2. CASE base = "ConnectableAdder"
  BY <1>2 DEF ConnectableAdder
<1>3. CASE base = "InjectionAdder"
  BY <1>3 DEF InjectionAdder
<1>4. CASE base = "BranchAdder"
  BY <1>4 DEF BranchAdder
<1>5. base \in {"IdentifiableAdder", "ConnectableAdder", "InjectionAdder", "BranchAdder"}
  OBVIOUS
<1> QED  BY <1>1, <1>2, <1>3, <1>4, <1>5

LEMMA BaseKinds ==
  ASSUME NEW class, NEW base \in BasesOf(class)
  PROVE  KindsUnder(class) \subseteq KindsUnder(base)
<1>1. PICK derived \in Bases : base \in DOMAIN derived /\ class \in derived[base]
  BY DEF BasesOf
<1> QED  BY <1>1, EquipmentBases, PartBases, AdderBasesKinds DEF Bases

LEMMA UpKinds ==
  ASSUME NEW classes, NEW kind, \A class \in classes : kind \in KindsUnder(class)
  PROVE  \A class \in Up(classes) : kind \in KindsUnder(class)
BY BaseKinds DEF Up

LEMMA LineageKinds ==
  ASSUME NEW class \in Classes, NEW kind \in KindsUnder(class), NEW base \in Lineage[class]
  PROVE  kind \in KindsUnder(base)
<1> DEFINE From(classes) == \A c \in classes : kind \in KindsUnder(c)
<1>1. From({class})
  OBVIOUS
<1>2. \A classes : From(classes) => From(Up(classes))
  BY UpKinds
<1>3. From(Up(Up(Up(Up(Up({class}))))))
  <2> HIDE DEF From
  <2> QED  BY <1>1, <1>2
<1> QED  BY <1>3 DEF Lineage

LEMMA OwnLineage == \A class \in Classes : class \in Lineage[class]
BY DEF Lineage, Up

LEMMA Derives ==
  /\ \A base \in DOMAIN DerivedEquipment : \A class \in DerivedEquipment[base] :
       base \in BasesOf(class)
  /\ \A base \in DOMAIN DerivedParts : \A class \in DerivedParts[base] : base \in BasesOf(class)
<1>1. DerivedEquipment \in Bases /\ DerivedParts \in Bases
  BY DEF Bases
<1> QED  BY <1>1 DEF BasesOf

LEMMA BaseChain ==
  ASSUME NEW class \in Classes, NEW b \in BasesOf(class) \cup {class},
           NEW c \in BasesOf(b) \cup {b},
         NEW d \in BasesOf(c) \cup {c}, NEW e \in BasesOf(d) \cup {d}
  PROVE  e \in Lineage[class]
<1>1. \A classes : \A c1 \in classes : \A c2 \in BasesOf(c1) \cup {c1} : c2 \in Up(classes)
  BY DEF Up
<1> QED  BY <1>1 DEF Lineage

----------------------------------------------------------------------------
\* The invariant

IInv == TypeOK /\ WrapperFits /\ ObjectBehindWrapper /\ NeverRefused

LEMMA HeldObject ==
  ASSUME IInv
  PROVE  /\ held.as \in Classes /\ held.is \in Objects /\ held.is \in KindsFor(held.as)
         /\ held.is \in KindsUnder(held.as)
BY OwnKinds DEF IInv, TypeOK, WrapperFits, ObjectBehindWrapper, Maybe, Objects

\* An accessor of the wrapper fits its object, as its class or a base of it.
LEMMA HeldFits ==
  ASSUME IInv, NEW r \in AccessorsOf[held.as]
  PROVE  Fits(r) /\ held.is \in KindsUnder(r.class) /\ r \in Accessors
<1>1. r \in Accessors /\ r.class \in Lineage[held.as]
  BY HeldObject DEF AccessorsOf
<1> QED  BY <1>1, HeldObject, LineageKinds, TablesAgree

\* A wrapper of a class of the tables, of an object that the class is for, keeps the invariant.
LEMMA MadeFits ==
  ASSUME NEW class \in Classes, NEW kind \in KindsFor(class), kind \in Objects,
         held' = Wrapper(class, kind), answer' = "wrapper"
  PROVE  IInv'
<1>1. kind # None
  BY KindsDisjoint
<1>2. held'.as = class /\ held'.is = kind
  BY DEF Wrapper
<1>3. TypeOK'
  BY DEF TypeOK, Wrapper, Maybe, Objects, Endings
<1> QED  BY <1>1, <1>2, <1>3 DEF IInv, WrapperFits, ObjectBehindWrapper, NeverRefused

LEMMA KeptFits ==
  ASSUME IInv, UNCHANGED held, answer' \in Endings \ {"refused"}
  PROVE  IInv'
BY DEF IInv, TypeOK, WrapperFits, ObjectBehindWrapper, NeverRefused

LEMMA GivesClass == ASSUME NEW r \in Accessors PROVE r.gives \in Classes
BY DEF Classes

LEMMA ReadStep ==
  ASSUME IInv, NEW r \in AccessorsOf[held.as], ReadOrWrite(r)
  PROVE  IInv'
<1>1. AnswersTo(r, held.is) # {}
  <2>1. Fits(r) /\ held.is \in KindsUnder(r.class) /\ r.how = "value"
    BY HeldFits DEF ReadOrWrite
  <2> QED  BY <2>1 DEF Fits
<1> QED  BY <1>1, KeptFits DEF ReadOrWrite, Endings

LEMMA FollowStep ==
  ASSUME IInv, NEW r \in AccessorsOf[held.as], Follow(r)
  PROVE  IInv'
<1>1. /\ Fits(r) /\ held.is \in KindsUnder(r.class) /\ r.how \in {"one", "maybe", "many"}
      /\ r.op # "copy" /\ r \in Accessors
  BY HeldFits DEF Follow
<1>2. /\ AnswersTo(r, held.is) # {} /\ AnswersTo(r, held.is) \subseteq Taken(r.how, r.gives)
      /\ KindsFor(r.gives) \subseteq Objects
  BY <1>1 DEF Fits
<1>3. PICK a \in AnswersTo(r, held.is) :
        IF a = None /\ r.how = "maybe"
        THEN answer' = "nothing" /\ UNCHANGED held
        ELSE held' = Wrapper(r.gives, a) /\ answer' = "wrapper"
  BY <1>2 DEF Follow
<1>4. CASE a = None /\ r.how = "maybe"
  BY <1>3, <1>4, KeptFits DEF Endings
<1>5. CASE ~ (a = None /\ r.how = "maybe")
  <2>1. a \in KindsFor(r.gives) /\ a \in Objects
    BY <1>2, <1>5 DEF Taken, Maybe
  <2> QED  BY <1>1, <1>3, <1>5, <2>1, GivesClass, MadeFits
<1> QED  BY <1>4, <1>5

LEMMA CopyStep ==
  ASSUME IInv, NEW r \in AccessorsOf[held.as], StartCopy(r)
  PROVE  IInv'
<1>1. Fits(r) /\ held.is \in KindsUnder(r.class) /\ r.op = "copy" /\ r \in Accessors
  BY HeldFits DEF StartCopy
<1>2. r.how \in {"one", "maybe", "many"}
  BY <1>1 DEF Fits
<1>3. /\ Restarted(r, held.is) # {} /\ Restarted(r, held.is) \subseteq KindsFor(r.gives)
      /\ KindsFor(r.gives) \subseteq Objects
  BY <1>1, <1>2 DEF Fits
<1>4. PICK a \in Restarted(r, held.is) : held' = Wrapper(r.gives, a) /\ answer' = "wrapper"
  BY <1>1, <1>3 DEF StartCopy
<1> QED  BY <1>1, <1>3, <1>4, GivesClass, MadeFits

LEMMA ViewStep ==
  ASSUME IInv, NEW r \in AccessorsOf[held.as], LookThrough(r)
  PROVE  IInv'
<1>1. Fits(r) /\ held.is \in KindsUnder(r.class) /\ r.how = "view" /\ r \in Accessors
  BY HeldFits DEF LookThrough
<1>2. held.is \in KindsFor(r.gives) /\ held.is \in Objects
  BY <1>1, HeldObject DEF Fits
<1> QED  BY <1>1, <1>2, GivesClass, MadeFits DEF LookThrough

LEMMA WidenStep ==
  ASSUME IInv, NEW class \in DOMAIN TypeCode, Widen(class)
  PROVE  IInv'
<1>1. held.is \in KindsUnder(class)
  BY HeldObject, LineageKinds DEF Widen
<1>2. held.is \in KindsFor(class) /\ class \in Classes
  BY <1>1, CodedKinds DEF Classes
<1> QED  BY <1>2, HeldObject, MadeFits DEF Widen

LEMMA NarrowStep ==
  ASSUME IInv, NEW class \in DOMAIN TypeCode, Narrow(class)
  PROVE  IInv'
<1>1. Answers("getBool", TypeCode[class], held.is) # {}
  BY HeldObject, NoAdderInside, TypesAnswered DEF Narrow
<1>2. CASE held.is \in InstanceOf[TypeCode[class]]
  BY <1>1, <1>2, HeldObject, CodedKinds, MadeFits DEF Narrow, Classes
<1>3. CASE held.is \notin InstanceOf[TypeCode[class]]
  BY <1>1, <1>3, KeptFits DEF Narrow, Endings
<1> QED  BY <1>2, <1>3

\* The first wrapper, of the network, is right; and no step of the client's goes wrong.
THEOREM Inductive == Spec => []IInv
<1>1. Init => IInv
  <2> SUFFICES ASSUME Init PROVE IInv
    OBVIOUS
  <2>1. "Network" \in KindsFor("Network") /\ "Network" \in Kinds /\ "Network" # None
    <3>1. KindsFor("Network") = {"Network"}
      BY DEF KindsFor, TypeCode, ViewsOf
    <3> QED  BY <3>1, KindNames, KindsDisjoint DEF Objects
  <2>2. "Network" \in Classes
    BY NetworkIsAClass
  <2> QED  BY <2>1, <2>2 DEF Init, IInv, TypeOK, WrapperFits, ObjectBehindWrapper, NeverRefused,
                Wrapper, Maybe, Endings
<1>2. IInv /\ [Next]_vars => IInv'
  <2> SUFFICES ASSUME IInv, [Next]_vars PROVE IInv'
    OBVIOUS
  <2>1. CASE \E r \in AccessorsOf[held.as] :
               ReadOrWrite(r) \/ Follow(r) \/ StartCopy(r) \/ LookThrough(r)
    BY <2>1, ReadStep, FollowStep, CopyStep, ViewStep
  <2>2. CASE \E class \in DOMAIN TypeCode : Widen(class) \/ Narrow(class)
    BY <2>2, WidenStep, NarrowStep
  <2>3. CASE UNCHANGED vars
    BY <2>3 DEF vars, IInv, TypeOK, WrapperFits, ObjectBehindWrapper, NeverRefused
  <2> QED  BY <2>1, <2>2, <2>3 DEF Next
<1> QED  BY <1>1, <1>2, PTL DEF Spec

----------------------------------------------------------------------------
\* What the invariant says

\* Every class of objects of a base can be narrowed to.
LEMMA FinalBelow ==
  ASSUME NEW class \in DOMAIN TypeCode, NEW kind \in InstanceOf[TypeCode[class]], kind # "Network"
  PROVE  \E c \in Final : class \in Lineage[c] /\ kind \in InstanceOf[TypeCode[c]]
<1>1. CASE class \in Final
  <2>1. class \in Classes
    BY DEF Classes
  <2> QED  BY <1>1, <2>1, OwnLineage
<1>2. CASE class \notin Final
  <2>1. class \in {"Identifiable", "Connectable", "Injection", "HvdcConverterStation",
                   "LoadModel", "ReactiveLimits", "ShuntCompensatorModel", "LoadingLimits",
                   "Tripping"}
    BY <1>2 DEF Final, Bases, DerivedEquipment, DerivedParts, DerivedAdders, TypeCode
  <2>2. kind \in DOMAIN TypeCode /\ kind \in InstanceOf[TypeCode[kind]] /\ kind \in Final
    <3>1. kind \in Identifiable \cup LoadModel \cup ReactiveLimits \cup ShuntCompensatorModel
                     \cup LoadingLimits \cup Tripping
      BY <2>1 DEF TypeCode, InstanceOf, Identifiable, Connectable, Branch, HvdcConverterStation,
           Injection
    <3>2. kind \in DOMAIN TypeCode /\ kind \in InstanceOf[TypeCode[kind]]
      BY <3>1 DEF TypeCode, InstanceOf, Identifiable, Connectable, Branch, Injection, Container,
           AutomationSystem, LoadModel, ReactiveLimits, ShuntCompensatorModel, LoadingLimits,
                 Tripping
    <3>3. kind \notin DOMAIN DerivedEquipment /\ kind \notin DOMAIN DerivedParts
            /\ kind \notin DOMAIN DerivedAdders
      BY <3>1 DEF DerivedEquipment, DerivedParts, DerivedAdders, Identifiable, Connectable, Branch,
           Injection, Container, AutomationSystem, LoadModel, ReactiveLimits, ShuntCompensatorModel,
           LoadingLimits, Tripping
    <3> QED  BY <3>2, <3>3 DEF Final, Bases
  <2>3. kind \in Classes
    BY <2>2 DEF Classes
  <2>4. /\ \A k \in DerivedEquipment["HvdcConverterStation"] : "HvdcConverterStation" \in BasesOf(k)
        /\ \A k \in DerivedEquipment["Injection"] : "Injection" \in BasesOf(k)
        /\ \A k \in DerivedEquipment["Connectable"] : "Connectable" \in BasesOf(k)
        /\ \A k \in DerivedEquipment["Identifiable"] : "Identifiable" \in BasesOf(k)
        /\ "Injection" \in BasesOf("HvdcConverterStation") /\ "Connectable" \in BasesOf("Injection")
        /\ "Identifiable" \in BasesOf("Connectable")
    BY Derives DEF DerivedEquipment
  <2>5. ASSUME class = "Injection" PROVE class \in Lineage[kind]
    <3>1. kind \in DerivedEquipment["Injection"] \/ kind \in
            DerivedEquipment["HvdcConverterStation"]
      BY <2>5 DEF TypeCode, InstanceOf, Injection, DerivedEquipment
    <3> QED  BY <2>3, <2>4, <2>5, <3>1, BaseChain
  <2>6. ASSUME class = "Connectable" PROVE class \in Lineage[kind]
    <3>1. \/ kind \in DerivedEquipment["Connectable"] \/ kind \in DerivedEquipment["Injection"]
          \/ kind \in DerivedEquipment["HvdcConverterStation"]
      BY <2>6 DEF TypeCode, InstanceOf, Connectable, Injection, DerivedEquipment
    <3> QED  BY <2>3, <2>4, <2>6, <3>1, BaseChain
  <2>7. ASSUME class = "Identifiable" PROVE class \in Lineage[kind]
    <3>1. \/ kind \in DerivedEquipment["Identifiable"] \/ kind \in DerivedEquipment["Connectable"]
          \/ kind \in DerivedEquipment["Injection"] \/ kind \in
               DerivedEquipment["HvdcConverterStation"]
      BY <2>7 DEF TypeCode, InstanceOf, Identifiable, Connectable, Injection, Branch, Container,
             AutomationSystem, DerivedEquipment
    <3>2. CASE kind \in DerivedEquipment["HvdcConverterStation"]
      BY <2>3, <2>4, <2>7, <3>2, BaseChain
    <3>3. CASE kind \in DerivedEquipment["Injection"]
      BY <2>3, <2>4, <2>7, <3>3, BaseChain
    <3>4. CASE kind \in DerivedEquipment["Connectable"] \cup DerivedEquipment["Identifiable"]
      BY <2>3, <2>4, <2>7, <3>4, BaseChain
    <3> QED  BY <3>1, <3>2, <3>3, <3>4
  <2>8. ASSUME class = "HvdcConverterStation" PROVE class \in Lineage[kind]
    <3>1. class \in DOMAIN DerivedEquipment /\ kind \in DerivedEquipment[class]
      BY <2>8 DEF TypeCode, InstanceOf, HvdcConverterStation, DerivedEquipment
    <3>2. class \in BasesOf(kind)
      BY <3>1, Derives
    <3> QED  BY <2>3, <3>2, BaseChain
  <2>9. ASSUME class \in {"LoadModel", "ReactiveLimits", "ShuntCompensatorModel", "LoadingLimits",
                          "Tripping"}
        PROVE  class \in Lineage[kind]
    <3>1. class \in DOMAIN DerivedParts /\ kind \in DerivedParts[class]
      BY <2>9 DEF TypeCode, InstanceOf, LoadModel, ReactiveLimits, ShuntCompensatorModel,
             LoadingLimits, LimitTypes, Tripping, DerivedParts
    <3>2. class \in BasesOf(kind)
      BY <3>1, Derives
    <3> QED  BY <2>3, <3>2, BaseChain
  <2> QED  BY <2>1, <2>2, <2>5, <2>6, <2>7, <2>8, <2>9
<1> QED  BY <1>1, <1>2

\* Whatever accessors, conversions and answers follow each other, a wrapper's class is one of the
\* tables' and its object, if any, one of powsybl's kinds or an adder.
THEOREM TypeCorrect == Spec => []TypeOK
BY Inductive, PTL DEF IInv

\* Between any two calls, the wrapper in hand is of a class that is for the kind of its object.
THEOREM WrappersFit == Spec => []WrapperFits
BY Inductive, PTL DEF IInv

\* No call makes a wrapper of INVALID_HANDLE.
THEOREM AlwaysAnObject == Spec => []ObjectBehindWrapper
BY Inductive, PTL DEF IInv

\* No accessor of any wrapper that the client can come to hold is refused by the dispatch.
THEOREM Answered == Spec => []NeverRefused
BY Inductive, PTL DEF IInv

\* What is held as a base, as<T>() narrows to a class that has none below it.
THEOREM AlwaysNarrowable == Spec => []Narrowable
<1>1. IInv => Narrowable
  BY FinalBelow, HeldObject, CodedKinds DEF Narrowable
<1> QED  BY <1>1, Inductive, PTL

============================================================================
