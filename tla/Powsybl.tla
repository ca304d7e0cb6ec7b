------------------------------ MODULE Powsybl ------------------------------
(***************************************************************************)
(* The types of powsybl's object model, as the Java half of the bridge     *)
(* tells them apart with casts and instanceof.  powsybl is a library that  *)
(* this repository uses: an object is known here by its kind, the most     *)
(* specific interface that the bridge names, and a Java type is the set of *)
(* the kinds of objects that it admits.                                    *)
(***************************************************************************)

\* No object: what a Java method answers by null or by an empty Optional, and
\* what crosses to C++ as INVALID_HANDLE.
None == "none"

Maybe(type) == type \cup {None}

----------------------------------------------------------------------------
\* Network elements

Injection == {"Generator", "Load", "Battery", "ShuntCompensator", "StaticVarCompensator",
              "BoundaryLine", "Ground", "BusbarSection", "LccConverterStation",
              "VscConverterStation"}

Connectable == Injection \cup {"Line", "TwoWindingsTransformer", "ThreeWindingsTransformer"}

Branch == {"Line", "TwoWindingsTransformer", "TieLine"}

HvdcConverterStation == {"LccConverterStation", "VscConverterStation"}

Container == {"Network", "Substation", "VoltageLevel"}

AutomationSystem == {"OverloadManagementSystem"}

Identifiable == Connectable \cup Branch \cup Container \cup AutomationSystem
                  \cup {"HvdcLine", "Bus", "Switch", "Area"}

\* What carries line impedances: a line, and the two halves of a tie line together.
LineCharacteristics == {"Line", "TieLine"}

----------------------------------------------------------------------------
\* Parts of elements

Leg == {"Leg"}

TapChanger == {"RatioTapChanger", "PhaseTapChanger"}

TapChangerStep == {"RatioTapChangerStep", "PhaseTapChangerStep"}

TapChangerHolder == Leg \cup {"TwoWindingsTransformer"}

VoltageRegulationHolder == {"Generator", "Battery", "StaticVarCompensator", "ShuntCompensator",
                            "VscConverterStation", "RatioTapChanger"}

ReactiveLimits == {"MinMaxReactiveLimits", "ReactiveCapabilityCurve", "ReactiveCapabilityShape"}

ReactiveLimitsHolder == {"Generator", "Battery", "VscConverterStation", "Generation"}

ShuntCompensatorModel == {"ShuntCompensatorLinearModel", "ShuntCompensatorNonLinearModel"}

LoadModel == {"ZipLoadModel", "ExponentialLoadModel"}

Tripping == {"SwitchTripping", "BranchTripping", "ThreeWindingsTransformerTripping"}

LoadingLimits == {"CurrentLimits", "ActivePowerLimits", "ApparentPowerLimits"}

OperationalLimits == LoadingLimits \cup {"VoltageAngleLimit"}

FlowsLimitsHolder == Leg \cup {"BoundaryLine"}

\* What the bridge asks about groups of limits: powsybl's holders, and a side of a branch,
\* which is the bridge's own.
LimitsHolder == FlowsLimitsHolder \cup {"BranchSide"}

\* What keeps properties, which the bridge reads and writes by name.
PropertiesHolder ==
    Identifiable \cup TapChanger \cup TapChangerStep \cup LoadModel \cup OperationalLimits
      \cup ReactiveLimits \cup ShuntCompensatorModel \cup Tripping
      \cup {"AreaBoundary", "CurvePoint", "OperationalLimitsGroup", "Section", "TemporaryLimit"}

\* The lists that some methods answer instead of one object.
List == {"BusList", "SwitchList", "NodeList", "OverloadList"}

\* Every kind of object that the wrappers of this model can hold.
Kinds ==
    Identifiable \cup PropertiesHolder \cup Leg \cup TapChangerStep \cup ReactiveLimits
      \cup ShuntCompensatorModel \cup List
      \cup {"BranchSide", "Boundary", "Component", "CurvePoint", "Generation",
            "InternalConnection", "OperationalLimitsGroup", "Overload", "Section", "ShapePlane",
            "TemporaryLimit", "Terminal", "VariantManager", "VoltageAngleLimit",
            "VoltageRegulation"}

----------------------------------------------------------------------------
\* Adders: powsybl's, and the bridge's own for a leg

InjectionAdder ==
    {"GeneratorAdder", "LoadAdder", "BatteryAdder", "ShuntCompensatorAdder",
     "StaticVarCompensatorAdder", "BoundaryLineAdder", "GroundAdder",
     "LccConverterStationAdder", "VscConverterStationAdder"}

BranchAdder == {"LineAdder", "TwoWindingsTransformerAdder"}

SwitchAdder == {"NodeBreakerSwitchAdder", "BusBreakerSwitchAdder"}

\* A busbar section has no bus to be connected to: its adder is no InjectionAdder.
IdentifiableAdder ==
    InjectionAdder \cup BranchAdder \cup SwitchAdder
      \cup {"BusbarSectionAdder", "ThreeWindingsTransformerAdder", "SubstationAdder",
            "VoltageLevelAdder", "BusAdder", "AreaAdder", "HvdcLineAdder", "TieLineAdder",
            "OverloadManagementSystemAdder"}

ConnectableAdder ==
    InjectionAdder \cup BranchAdder \cup {"BusbarSectionAdder", "ThreeWindingsTransformerAdder"}

HvdcConverterStationAdder == {"LccConverterStationAdder", "VscConverterStationAdder"}

TapChangerAdder == {"RatioTapChangerAdder", "PhaseTapChangerAdder"}

TapChangerStepsReplacer == {"RatioTapChangerStepsReplacer", "PhaseTapChangerStepsReplacer"}

TapChangerStepAdder == {"RatioTapChangerStepAdder", "PhaseTapChangerStepAdder"}

LoadingLimitsAdder == {"CurrentLimitsAdder", "ActivePowerLimitsAdder", "ApparentPowerLimitsAdder"}

ReactiveLimitsAdder ==
    {"MinMaxReactiveLimitsAdder", "ReactiveCapabilityCurveAdder", "ReactiveCapabilityShapeAdder"}

ShuntModelAdder == {"ShuntCompensatorLinearModelAdder", "ShuntCompensatorNonLinearModelAdder"}

LoadModelAdder == {"ZipLoadModelAdder", "ExponentialLoadModelAdder"}

TrippingAdder ==
    {"SwitchTrippingAdder", "BranchTrippingAdder", "ThreeWindingsTransformerTrippingAdder"}

\* The adders of what keeps properties, those of identifiables excepted.
PropertiesHolderAdder ==
    TapChangerAdder \cup TapChangerStepAdder \cup LoadModelAdder \cup LoadingLimitsAdder
      \cup TrippingAdder \cup ReactiveLimitsAdder
      \cup {"PointAdder", "TemporaryLimitAdder", "VoltageAngleLimitAdder"}

VoltageRegulationHolderAdder ==
    {"GeneratorAdder", "BatteryAdder", "StaticVarCompensatorAdder", "ShuntCompensatorAdder",
     "VscConverterStationAdder", "RatioTapChangerAdder"}

VoltageRegulationAdderOrBuilder == {"VoltageRegulationAdder", "VoltageRegulationBuilder"}

Adders ==
    IdentifiableAdder \cup TapChangerAdder \cup TapChangerStepsReplacer
      \cup TapChangerStepAdder \cup LoadingLimitsAdder \cup ReactiveLimitsAdder
      \cup ShuntModelAdder \cup LoadModelAdder \cup TrippingAdder
      \cup VoltageRegulationAdderOrBuilder
      \cup {"AreaBoundaryAdder", "GenerationAdder", "InternalConnectionAdder", "LegAdder",
            "PointAdder", "SectionAdder", "TemporaryLimitAdder", "VoltageAngleLimitAdder"}
============================================================================
