--------------------------- MODULE AdderDispatch ---------------------------
(***************************************************************************)
(* Creation.java as a dispatch: which adder each code starts on which      *)
(* object, which fields each adder takes, what its add() answers, and the  *)
(* calls that take several values, made in steps.  What the steps do one   *)
(* after the other is in Creation.                                         *)
(***************************************************************************)
EXTENDS PropertyDispatcher

----------------------------------------------------------------------------
\* What a code starts.

EquipmentAdderCases ==
    {Case({"SUBSTATION"}, {"Network"}, {"SubstationAdder"}),
     Case({"VOLTAGE_LEVEL"}, {"Substation", "Network"}, {"VoltageLevelAdder"}),
     Case({"BUS"}, {"VoltageLevel"}, {"BusAdder"}),
     Case({"REL_BBV_SWITCH"}, {"VoltageLevel"}, {"BusBreakerSwitchAdder"}),
     Case({"REL_NBV_SWITCH"}, {"VoltageLevel"}, {"NodeBreakerSwitchAdder"}),
     Case({"BUSBAR_SECTION"}, {"VoltageLevel"}, {"BusbarSectionAdder"}),
     Case({"INTERNAL_CONNECTION"}, {"VoltageLevel"}, {"InternalConnectionAdder"}),
     Case({"GENERATOR"}, {"VoltageLevel"}, {"GeneratorAdder"}),
     Case({"LOAD"}, {"VoltageLevel"}, {"LoadAdder"}),
     Case({"GROUND"}, {"VoltageLevel"}, {"GroundAdder"}),
     Case({"BATTERY"}, {"VoltageLevel"}, {"BatteryAdder"}),
     Case({"SHUNT_COMPENSATOR"}, {"VoltageLevel"}, {"ShuntCompensatorAdder"}),
     Case({"SHUNT_COMPENSATOR_LINEAR_MODEL"}, {"ShuntCompensatorAdder"},
          {"ShuntCompensatorLinearModelAdder"}),
     Case({"SHUNT_COMPENSATOR_NON_LINEAR_MODEL"}, {"ShuntCompensatorAdder"},
          {"ShuntCompensatorNonLinearModelAdder"}),
     Case({"SHUNT_SECTION"}, {"ShuntCompensatorNonLinearModelAdder"}, {"SectionAdder"}),
     Case({"STATIC_VAR_COMPENSATOR"}, {"VoltageLevel"}, {"StaticVarCompensatorAdder"}),
     Case({"VSC_CONVERTER_STATION"}, {"VoltageLevel"}, {"VscConverterStationAdder"}),
     Case({"LCC_CONVERTER_STATION"}, {"VoltageLevel"}, {"LccConverterStationAdder"}),
     Case({"BOUNDARY_LINE"}, {"VoltageLevel"}, {"BoundaryLineAdder"}),
     Case({"BOUNDARY_LINE_GENERATION"}, {"BoundaryLineAdder"}, {"GenerationAdder"}),
     Case({"TIE_LINE"}, {"Network"}, {"TieLineAdder"}),
     Case({"LINE"}, {"Network"}, {"LineAdder"}),
     Case({"HVDC_LINE"}, {"Network"}, {"HvdcLineAdder"}),
     Case({"TWO_WINDINGS_TRANSFORMER"}, {"Substation"}, {"TwoWindingsTransformerAdder"}),
     Case({"THREE_WINDINGS_TRANSFORMER"}, {"Substation"}, {"ThreeWindingsTransformerAdder"}),
     Case({"THREE_WINDINGS_TRANSFORMER_LEG"}, {"ThreeWindingsTransformerAdder"}, {"LegAdder"}),
     Case({"AREA"}, {"Network"}, {"AreaAdder"}),
     Case({"AREA_BOUNDARY"}, {"Area"}, {"AreaBoundaryAdder"}),
     Case({"VOLTAGE_ANGLE_LIMIT"}, {"Network"}, {"VoltageAngleLimitAdder"}),
     Case({"OVERLOAD_MANAGEMENT_SYSTEM"}, {"Substation"}, {"OverloadManagementSystemAdder"})}

PartAdderCases ==
    {Case({"SWITCH_TRIPPING"}, {"OverloadManagementSystemAdder"}, {"SwitchTrippingAdder"}),
     Case({"BRANCH_TRIPPING"}, {"OverloadManagementSystemAdder"}, {"BranchTrippingAdder"}),
     Case({"THREE_WINDINGS_TRANSFORMER_TRIPPING"}, {"OverloadManagementSystemAdder"},
          {"ThreeWindingsTransformerTrippingAdder"}),
     Case({"VOLTAGE_REGULATION"}, VoltageRegulationHolderAdder, {"VoltageRegulationAdder"}),
     Case({"VOLTAGE_REGULATION"}, VoltageRegulationHolder, {"VoltageRegulationBuilder"}),
     Case({"CURRENT_LIMITS"}, {"OperationalLimitsGroup"}, {"CurrentLimitsAdder"}),
     Case({"ACTIVE_POWER_LIMITS"}, {"OperationalLimitsGroup"}, {"ActivePowerLimitsAdder"}),
     Case({"APPARENT_POWER_LIMITS"}, {"OperationalLimitsGroup"}, {"ApparentPowerLimitsAdder"}),
     Case({"TEMPORARY_LIMIT"}, LoadingLimitsAdder, {"TemporaryLimitAdder"}),
     Case({"TC_STEPS_REPLACER"}, {"RatioTapChanger"}, {"RatioTapChangerStepsReplacer"}),
     Case({"TC_STEPS_REPLACER"}, {"PhaseTapChanger"}, {"PhaseTapChangerStepsReplacer"}),
     Case({"RATIO_TAP_CHANGER"}, TapChangerHolder, {"RatioTapChangerAdder"}),
     Case({"PHASE_TAP_CHANGER"}, TapChangerHolder, {"PhaseTapChangerAdder"}),
     Case({"RATIO_TAP_CHANGER_STEP"}, {"RatioTapChangerAdder", "RatioTapChangerStepsReplacer"},
          {"RatioTapChangerStepAdder"}),
     Case({"PHASE_TAP_CHANGER_STEP"}, {"PhaseTapChangerAdder", "PhaseTapChangerStepsReplacer"},
          {"PhaseTapChangerStepAdder"}),
     Case({"MIN_MAX_REACTIVE_LIMITS"}, ReactiveLimitsHolder, {"MinMaxReactiveLimitsAdder"}),
     Case({"REACTIVE_CAPABILITY_CURVE"}, ReactiveLimitsHolder, {"ReactiveCapabilityCurveAdder"}),
     Case({"REACTIVE_CURVE_POINT"}, {"ReactiveCapabilityCurveAdder"}, {"PointAdder"}),
     Case({"REACTIVE_CAPABILITY_SHAPE"}, ReactiveLimitsHolder, {"ReactiveCapabilityShapeAdder"}),
     Case({"ZIP_LOAD_MODEL"}, {"LoadAdder"}, {"ZipLoadModelAdder"}),
     Case({"EXPONENTIAL_LOAD_MODEL"}, {"LoadAdder"}, {"ExponentialLoadModelAdder"})}

\* A call in steps: the code that starts it, on what, the codes of its fields, and what making
\* it answers.
Call(code, on, fields, gives) == [code |-> code, on |-> on, fields |-> fields, gives |-> gives]

OverloadCheckFields == {"TERMINAL_SIDE", "LIMIT_REDUCTION", "LL_LIMIT_TYPE"}

\* What connects answers with itself when it did.
CallsToConnect(code) ==
    {Call(code, {k}, {"SWITCH_PREDICATE", "TERMINAL_SIDE"}, Maybe({k})) : k \in Connectables}

CallsInSteps ==
    {Call("AREA_BOUNDARY", {"AreaAdder"}, {"REL_TERMINAL", "BOUNDARY", "AREA_BOUNDARY_AC"},
          {None}),
     Call("VARIANT_CLONE", {"VariantManager"},
          {"VARIANT_SOURCE_ID", "VARIANT_TARGET_ID", "VARIANT_MAY_OVERWRITE"}, {None}),
     Call("NETWORK", {"Network"}, {"ID", "NAME", "NETWORK_SOURCE_FORMAT"}, {"Network"}),
     Call("BOUNDARY_ELEMENT", {"Network"}, {"IDENTIFIABLE"}, Maybe(Identifiable)),
     Call("REL_TERMINAL", {"VoltageRegulation"}, {"REL_TERMINAL", "VR_TARGET_VALUE"}, {None}),
     Call("OPERATIONAL_LIMITS_GROUP", LimitsHolder, {"OLG_ID"}, {"OperationalLimitsGroup"}),
     Call("REL_SELECTED_OLG", LimitsHolder, {"OLG_ID"}, {"OperationalLimitsGroup"}),
     Call("LL_TEMPORARY_LIMIT_VALUE", LoadingLimits, {"TL_ACCEPTABLE_DURATION", "TL_VALUE"},
          {None}),
     Call("REACTIVE_CAPABILITY_SHAPE_PLANE", {"ReactiveCapabilityShapeAdder"},
          {"PLANE_ALPHA", "PLANE_BETA", "PLANE_DELTA", "PLANE_GREATER_OR_EQUAL", "PLANE_GAMMA"},
          {None}),
     Call("MOVE_CONNECTABLE", {"Terminal"},
          {"TERMINAL_BUS_BREAKER_CONNECTABLE_BUS_ID", "TERMINAL_CONNECTED", "TERMINAL_NODE",
           "TERMINAL_VOLTAGE_LEVEL_ID"}, {None}),
     Call("FICTITIOUS_P0", {"VoltageLevel"}, {"TERMINAL_NODE", "FICTITIOUS_P0"}, {None}),
     Call("FICTITIOUS_Q0", {"VoltageLevel"}, {"TERMINAL_NODE", "FICTITIOUS_Q0"}, {None}),
     Call("VL_NBV_REMOVE_INTERNAL_CONNECTIONS", {"VoltageLevel"}, {"IC_NODE1", "IC_NODE2"},
          {None}),
     Call("CHECK_TEMPORARY_LIMITS", OverloadChecked, OverloadCheckFields, Maybe({"Overload"})),
     Call("CHECK_ALL_TEMPORARY_LIMITS", OverloadChecked, OverloadCheckFields, {"OverloadList"})}
    \cup CallsToConnect("CONNECT") \cup CallsToConnect("DISCONNECT")

----------------------------------------------------------------------------
\* add(): the new object; none for a nested adder, whose parent goes on, nor for a replacer.

\* The object that the add() of an adder with an object of its own answers.  A boundary's answers
\* its area.
Added ==
    [SubstationAdder |-> "Substation", VoltageLevelAdder |-> "VoltageLevel", BusAdder |-> "Bus",
     BusBreakerSwitchAdder |-> "Switch", NodeBreakerSwitchAdder |-> "Switch",
     BusbarSectionAdder |-> "BusbarSection", GeneratorAdder |-> "Generator",
     LoadAdder |-> "Load", GroundAdder |-> "Ground", BatteryAdder |-> "Battery",
     ShuntCompensatorAdder |-> "ShuntCompensator",
     StaticVarCompensatorAdder |-> "StaticVarCompensator",
     VscConverterStationAdder |-> "VscConverterStation",
     LccConverterStationAdder |-> "LccConverterStation", BoundaryLineAdder |-> "BoundaryLine",
     TieLineAdder |-> "TieLine", LineAdder |-> "Line", HvdcLineAdder |-> "HvdcLine",
     TwoWindingsTransformerAdder |-> "TwoWindingsTransformer",
     ThreeWindingsTransformerAdder |-> "ThreeWindingsTransformer", AreaAdder |-> "Area",
     OverloadManagementSystemAdder |-> "OverloadManagementSystem",
     VoltageAngleLimitAdder |-> "VoltageAngleLimit",
     VoltageRegulationBuilder |-> "VoltageRegulation", CurrentLimitsAdder |-> "CurrentLimits",
     ActivePowerLimitsAdder |-> "ActivePowerLimits",
     ApparentPowerLimitsAdder |-> "ApparentPowerLimits", AreaBoundaryAdder |-> "Area",
     RatioTapChangerAdder |-> "RatioTapChanger", PhaseTapChangerAdder |-> "PhaseTapChanger",
     MinMaxReactiveLimitsAdder |-> "MinMaxReactiveLimits",
     ReactiveCapabilityCurveAdder |-> "ReactiveCapabilityCurve",
     ReactiveCapabilityShapeAdder |-> "ReactiveCapabilityShape"]

AddCases ==
    {Case({"ACT_ADD"}, {a}, {Added[a]}) : a \in DOMAIN Added}
      \cup {Writes({"ACT_ADD"}, Adders \ DOMAIN Added)}

----------------------------------------------------------------------------
\* The fields of adders that are not in the table of properties.

SetDoubleFields == {Writes({"LEG_R", "LEG_X", "LEG_G", "LEG_B", "LEG_RATED_U", "LEG_RATED_S"},
                           {"LegAdder"})}

SetIntFields ==
    {Writes({"TERMINAL_NODE"}, {"LegAdder", "BusbarSectionAdder"} \cup InjectionAdder),
     Writes({"TRIPPING_SIDE"}, {"BranchTrippingAdder", "ThreeWindingsTransformerTrippingAdder"}),
     Writes({"PTC_REGULATION_MODE"}, {"PhaseTapChangerAdder"}),
     Writes({"LEG_SIDE"}, {"LegAdder"}),
     Writes({"VR_MODE"}, VoltageRegulationAdderOrBuilder)}

SetBoolFields ==
    {Writes({"ENSURE_ID_UNICITY"}, {"TemporaryLimitAdder"} \cup IdentifiableAdder),
     Writes({"SW_OPEN"}, SwitchAdder)}

SetStringFields ==
    {Writes({"COUNTRY"}, {"SubstationAdder"}),
     Writes({"TERMINAL_BUS_BREAKER_BUS_ID", "TERMINAL_BUS_BREAKER_CONNECTABLE_BUS_ID"},
            {"LegAdder"} \cup InjectionAdder),
     Writes({"TERMINAL_VOLTAGE_LEVEL_ID"}, {"LegAdder"}),
     Writes({"TRIPPING_ELEMENT_ID"}, TrippingAdder)}

SetKeyedStringFields == {Writes({"PROPERTY"}, PropertiesHolderAdder)}

SetRelatedFields ==
    {Writes({"REL_TERMINAL"}, {"AreaBoundaryAdder"} \cup VoltageRegulationAdderOrBuilder),
     Writes({"BOUNDARY"}, {"AreaBoundaryAdder"}),
     Writes({"REL_TERMINAL_FROM", "REL_TERMINAL_TO"}, {"VoltageAngleLimitAdder"}),
     Writes({"REL_REGULATION_TERMINAL"}, {"PhaseTapChangerAdder"}),
     Writes({"ADD_VOLTAGE_LEVEL"}, {"AreaAdder"}),
     Writes({"FILL_FROM"}, BranchAdder)}

\* A copy restarts its adder from powsybl's: on the owner, by the kind of the copied object.
\* Any other object, or one whose powsybl adder is of another class than the adder, is refused.
CopyCases ==
    [Line |-> {"Network"}, TwoWindingsTransformer |-> {"Substation"},
     RatioTapChanger |-> TapChangerHolder, PhaseTapChanger |-> TapChangerHolder,
     ReactiveCapabilityCurve |-> ReactiveLimitsHolder,
     CurrentLimits |-> {"OperationalLimitsGroup"},
     ActivePowerLimits |-> {"OperationalLimitsGroup"},
     ApparentPowerLimits |-> {"OperationalLimitsGroup"}]

----------------------------------------------------------------------------
\* All of it: what a call of each function, with a code, answers on an object of a kind

OnObject ==
    [getDouble |-> <<Getters(Doubles), {}>>,
     setDouble |-> <<Setters(Doubles), {}>>,
     getInt |-> <<Getters(IntsAndOrdinals), GetIntCases>>,
     setInt |-> <<Setters(IntsAndOrdinals), SetIntCases>>,
     getBool |-> <<Getters(Bools), GetBoolCases>>,
     setBool |-> <<Setters(Bools), {}>>,
     getString |-> <<Getters(Strings), GetStringCases>>,
     setString |-> <<Setters(Strings), SetStringCases>>,
     getOptInt |-> <<OptIntCases, Getters(IntsAndOrdinals) \cup GetIntCases>>,
     getOptString |-> <<OptStringCases, Getters(Strings) \cup GetStringCases>>,
     getStringList |-> <<{}, StringListCases>>,
     getIntList |-> <<{}, IntListCases>>,
     getKeyedString |-> <<{}, GetKeyedStringCases>>,
     setKeyedString |-> <<{}, SetKeyedStringCases>>,
     evaluate1 |-> <<{}, EvaluateCases.evaluate1>>,
     evaluate2 |-> <<{}, EvaluateCases.evaluate2>>,
     evaluate3 |-> <<{}, EvaluateCases.evaluate3>>,
     countChildren |-> <<{}, ChildCases>>,
     getChildren |-> <<{}, ChildCases>>,
     getRelated |-> <<{}, RelatedCases>>,
     getRelatedByString |-> <<{}, RelatedByStringCases \cup FindByIdCases>>,
     getRelatedByIndex |-> <<{}, RelatedByIndexCases>>,
     setRelated |-> <<{}, SetRelatedCases>>,
     clear |-> <<{}, ClearCases>>,
     invoke |-> <<ConnectCases \cup ActionCases \cup RemoveCases,
                  EquipmentAdderCases \cup PartAdderCases>>]

OnAdder ==
    [setDouble |-> <<AdderSetters(Doubles), SetDoubleFields>>,
     setInt |-> <<AdderSetters(IntsAndOrdinals), SetIntFields>>,
     setBool |-> <<AdderSetters(Bools), SetBoolFields>>,
     setString |-> <<AdderSetters(Strings), SetStringFields>>,
     setKeyedString |-> <<{}, SetKeyedStringFields>>,
     setRelated |-> <<{}, SetRelatedFields>>,
     invoke |-> <<AddCases, EquipmentAdderCases \cup PartAdderCases>>]

\* The second set of cases is asked when the first has no case of the code, whatever the object.
With(code, cases) == {c \in cases : code \in c.codes}

FirstKnown(code, sets) ==
    IF With(code, sets[1]) # {} THEN With(code, sets[1]) ELSE With(code, sets[2])

\* The answers: none at all when the call throws, the code being unknown to the function or the
\* object of another type than its cast.
Answers(op, code, kind) ==
    LET dispatch == IF kind \in Adders THEN OnAdder ELSE OnObject
        cases == IF op \in DOMAIN dispatch THEN FirstKnown(code, dispatch[op]) ELSE {}
    IN UNION {c.gives : c \in {c \in cases : kind \in c.on}}

\* The answers of a call in steps, none when it is not known or a field is not one of its own.
AnswersInSteps(code, kind, fields) ==
    UNION {c.gives : c \in {c \in CallsInSteps :
                              c.code = code /\ kind \in c.on /\ fields \subseteq c.fields}}
============================================================================
