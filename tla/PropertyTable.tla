--------------------------- MODULE PropertyTable ---------------------------
(***************************************************************************)
(* PropertyTable.java: the properties that are one call on a powsybl       *)
(* object, by code.  A row has the codes of the same columns: the type     *)
(* that the getter casts its object to, the setter's, and the type of      *)
(* adder that the adder's setter does, each empty when the table has none. *)
(* An object of another type is a ClassCastException.  The properties of   *)
(* extensions are left out.                                                *)
(***************************************************************************)
EXTENDS Powsybl

\* A case of the dispatch: these codes, asked of an object of these kinds, answer a value or
\* an object of one of the kinds in "gives".
Case(codes, on, gives) == [codes |-> codes, on |-> on, gives |-> gives]

\* A value, as opposed to an object.
AValue == {"a value"}

Row(codes, get, set, add) == [codes |-> codes, get |-> get, set |-> set, add |-> add]

----------------------------------------------------------------------------
\* The numbers of the equipment.
EquipmentDoubles ==
    {Row({"GEN_TARGET_P", "GEN_MIN_P", "GEN_MAX_P", "GEN_RATED_S"}, {"Generator"},
         {"Generator"}, {"GeneratorAdder"}),
     Row({"LOCAL_TARGET_V", "LOCAL_TARGET_Q"}, VoltageRegulationHolder,
         VoltageRegulationHolder, VoltageRegulationHolderAdder),
     Row({"REGULATING_TARGET_V", "REGULATING_TARGET_Q"}, VoltageRegulationHolder, {}, {}),
     Row({"VR_TARGET_VALUE", "VR_TARGET_DEADBAND", "VR_SLOPE"}, {"VoltageRegulation"},
         {"VoltageRegulation"}, VoltageRegulationAdderOrBuilder),
     Row({"LOAD_P0", "LOAD_Q0"}, {"Load"}, {"Load"}, {"LoadAdder"}),
     Row({"ZIP_C0P", "ZIP_C1P", "ZIP_C2P", "ZIP_C0Q", "ZIP_C1Q", "ZIP_C2Q"},
         {"ZipLoadModel"}, {"ZipLoadModel"}, {"ZipLoadModelAdder"}),
     Row({"EXP_NP", "EXP_NQ"}, {"ExponentialLoadModel"}, {"ExponentialLoadModel"},
         {"ExponentialLoadModelAdder"}),
     Row({"TERMINAL_P", "TERMINAL_Q"}, {"Terminal"}, {"Terminal"}, {}),
     Row({"TERMINAL_I"}, {"Terminal"}, {}, {}),
     Row({"BUS_V", "BUS_ANGLE", "FICTITIOUS_P0", "FICTITIOUS_Q0"}, {"Bus"}, {"Bus"}, {}),
     Row({"BUS_P", "BUS_Q"}, {"Bus"}, {}, {}),
     Row({"VL_NOMINAL_V", "VL_LOW_VOLTAGE_LIMIT", "VL_HIGH_VOLTAGE_LIMIT"},
         {"VoltageLevel"}, {"VoltageLevel"}, {"VoltageLevelAdder"}),
     Row({"LINE_R", "LINE_X", "LINE_G1", "LINE_B1", "LINE_G2", "LINE_B2"},
         LineCharacteristics, {"Line"}, {"LineAdder"}),
     Row({"TWO_WT_R", "TWO_WT_X", "TWO_WT_G", "TWO_WT_B", "TWO_WT_RATED_U1",
         "TWO_WT_RATED_U2", "TWO_WT_RATED_S"}, {"TwoWindingsTransformer"},
         {"TwoWindingsTransformer"}, {"TwoWindingsTransformerAdder"}),
     Row({"LEG_R", "LEG_X", "LEG_G", "LEG_B", "LEG_RATED_U", "LEG_RATED_S"}, Leg, Leg, {}),
     Row({"PTC_REGULATION_VALUE", "PTC_TARGET_DEADBAND"}, {"PhaseTapChanger"},
         {"PhaseTapChanger"}, {"PhaseTapChangerAdder"}),
     Row({"STEP_RHO", "STEP_R", "STEP_X", "STEP_G", "STEP_B"}, TapChangerStep,
         TapChangerStep, TapChangerStepAdder),
     Row({"PTC_STEP_ALPHA"}, {"PhaseTapChangerStep"}, {"PhaseTapChangerStep"},
         {"PhaseTapChangerStepAdder"}),
     Row({"HVDC_R", "HVDC_NOMINAL_V", "HVDC_ACTIVE_POWER_SETPOINT", "HVDC_MAX_P"},
         {"HvdcLine"}, {"HvdcLine"}, {"HvdcLineAdder"}),
     Row({"BL_P0", "BL_Q0", "BL_R", "BL_X", "BL_G", "BL_B"}, {"BoundaryLine"},
         {"BoundaryLine"}, {"BoundaryLineAdder"}),
     Row({"GENERATION_TARGET_P", "GENERATION_MIN_P", "GENERATION_MAX_P",
         "GENERATION_TARGET_Q", "GENERATION_TARGET_V"}, {"Generation"}, {"Generation"},
         {"GenerationAdder"}),
     Row({"BOUNDARY_V", "BOUNDARY_ANGLE", "BOUNDARY_P", "BOUNDARY_Q", "BOUNDARY_I"},
         {"Boundary"}, {}, {}),
     Row({"SHUNT_B", "SHUNT_G"}, {"ShuntCompensator"}, {}, {}),
     Row({"SHUNT_B_PER_SECTION", "SHUNT_G_PER_SECTION"}, {"ShuntCompensatorLinearModel"},
         {"ShuntCompensatorLinearModel"}, {"ShuntCompensatorLinearModelAdder"}),
     Row({"SHUNT_SECTION_B", "SHUNT_SECTION_G"}, {"Section"}, {"Section"}, {"SectionAdder"}),
     Row({"SVC_B_MIN", "SVC_B_MAX"}, {"StaticVarCompensator"}, {"StaticVarCompensator"},
         {"StaticVarCompensatorAdder"}),
     Row({"CONVERTER_STATION_LOSS_FACTOR"}, HvdcConverterStation, HvdcConverterStation,
         HvdcConverterStationAdder),
     Row({"LCC_POWER_FACTOR"}, {"LccConverterStation"}, {"LccConverterStation"},
         {"LccConverterStationAdder"})}

\* The numbers of limits, areas, batteries and overloads.  A plane is read whole, with setters
\* that take the bound as a number.
LimitDoubles ==
    {Row({"BBS_V", "BBS_ANGLE"}, {"BusbarSection"}, {}, {}),
     Row({"BAT_TARGET_P", "BAT_MIN_P", "BAT_MAX_P"}, {"Battery"}, {"Battery"},
         {"BatteryAdder"}),
     Row({"RL_MIN_Q", "RL_MAX_Q"}, {"MinMaxReactiveLimits"}, {},
         {"MinMaxReactiveLimitsAdder"}),
     Row({"CURVE_MIN_P", "CURVE_MAX_P"}, {"ReactiveCapabilityCurve"}, {}, {}),
     Row({"PLANE_ALPHA", "PLANE_BETA", "PLANE_GAMMA", "PLANE_DELTA"}, {"ShapePlane"}, {},
         {}),
     Row({"POINT_P", "POINT_MIN_Q", "POINT_MAX_Q"}, {"CurvePoint"}, {}, {"PointAdder"}),
     Row({"LL_PERMANENT_LIMIT"}, LoadingLimits, LoadingLimits, LoadingLimitsAdder),
     Row({"TL_VALUE"}, {"TemporaryLimit"}, {}, {"TemporaryLimitAdder"}),
     Row({"AREA_INTERCHANGE_TARGET"}, {"Area"}, {"Area"}, {"AreaAdder"}),
     Row({"AREA_AC_INTERCHANGE", "AREA_DC_INTERCHANGE", "AREA_INTERCHANGE"}, {"Area"}, {},
         {}),
     Row({"AREA_BOUNDARY_P", "AREA_BOUNDARY_Q"}, {"AreaBoundary"}, {}, {}),
     Row({"VAL_LOW_LIMIT", "VAL_HIGH_LIMIT"}, {"VoltageAngleLimit"}, {},
         {"VoltageAngleLimitAdder"}),
     Row({"TRIPPING_CURRENT_LIMIT"}, Tripping, Tripping, TrippingAdder),
     Row({"OVERLOAD_PREVIOUS_LIMIT", "OVERLOAD_LIMIT_SCALING"}, {"Overload"}, {}, {}),
     Row({"THREE_WT_RATED_U0"}, {"ThreeWindingsTransformer"}, {"ThreeWindingsTransformer"},
         {"ThreeWindingsTransformerAdder"}),
     Row({"PLANE_LESS_OR_EQUAL", "PLANE_GREATER_OR_EQUAL"}, {}, {"ShapePlane"}, {})}

\* Counts, positions and nodes.
Ints ==
    {Row({"NETWORK_FORECAST_DISTANCE"}, {"Network"}, {"Network"}, {}),
     Row({"SHUNT_SECTION_COUNT"}, {"ShuntCompensator"}, {"ShuntCompensator"},
         {"ShuntCompensatorAdder"}),
     Row({"SHUNT_MAX_SECTION_COUNT"}, {"ShuntCompensator"}, {"ShuntCompensatorLinearModel"},
         {"ShuntCompensatorLinearModelAdder"}),
     Row({"IC_NODE1", "IC_NODE2"}, {"InternalConnection"}, {}, {"InternalConnectionAdder"}),
     Row({"TL_ACCEPTABLE_DURATION"}, {"TemporaryLimit"}, {}, {"TemporaryLimitAdder"}),
     Row({"COMPONENT_NUM", "COMPONENT_SIZE"}, {"Component"}, {}, {}),
     Row({"TC_LOW_TAP_POSITION", "TC_TAP_POSITION"}, TapChanger, TapChanger,
         TapChangerAdder),
     Row({"TC_HIGH_TAP_POSITION", "TC_STEP_COUNT"}, TapChanger, {}, {}),
     Row({"CURVE_POINT_COUNT"}, {"ReactiveCapabilityCurve"}, {}, {}),
     Row({"SHUNT_SOLVED_SECTION_COUNT"}, {}, {"ShuntCompensator"},
         {"ShuntCompensatorAdder"}),
     Row({"TC_SOLVED_TAP_POSITION"}, {}, TapChanger, TapChangerAdder),
     Row({"SW_NODE1", "SW_NODE2"}, {}, {}, {"NodeBreakerSwitchAdder"}),
     Row({"BRANCH_NODE1", "BRANCH_NODE2"}, {}, {}, BranchAdder)}

\* Constants of enumerations, which cross as their ordinals.
Enums ==
    {Row({"GEN_ENERGY_SOURCE"}, {"Generator"}, {"Generator"}, {"GeneratorAdder"}),
     Row({"LOAD_TYPE"}, {"Load"}, {"Load"}, {"LoadAdder"}),
     Row({"VL_TOPOLOGY_KIND"}, {"VoltageLevel"}, {"VoltageLevel"}, {"VoltageLevelAdder"}),
     Row({"HVDC_CONVERTERS_MODE"}, {"HvdcLine"}, {}, {"HvdcLineAdder"}),
     Row({"SW_KIND"}, {"Switch"}, {}, {"NodeBreakerSwitchAdder"}),
     Row({"OMS_MONITORED_SIDE"}, {"OverloadManagementSystem"}, {},
         {"OverloadManagementSystemAdder"}),
     Row({"LL_DETECTION_KIND"}, LoadingLimits, {}, LoadingLimitsAdder)}

\* Constants that are only read.
Ordinals ==
    {Row({"IDENTIFIABLE_TYPE"}, Identifiable, {}, {}),
     Row({"CONTAINER_TYPE"}, Container, {}, {}),
     Row({"NETWORK_VALIDATION_LEVEL"}, {"Network"}, {}, {}),
     Row({"CONVERTER_STATION_HVDC_TYPE"}, HvdcConverterStation, {}, {}),
     Row({"LOAD_MODEL_TYPE"}, LoadModel, {}, {}),
     Row({"SHUNT_MODEL_TYPE"}, {"ShuntCompensator"}, {}, {}),
     Row({"TRIPPING_TYPE"}, Tripping, {}, {}),
     Row({"LL_LIMIT_TYPE"}, OperationalLimits, {}, {}),
     Row({"PTC_REGULATION_MODE"}, {"PhaseTapChanger"}, {}, {}),
     Row({"LEG_SIDE"}, Leg, {}, {}),
     Row({"RL_KIND"}, ReactiveLimits, {}, {})}

\* Flags.
Bools ==
    {Row({"AREA_BOUNDARY_AC"}, {"AreaBoundary"}, {}, {"AreaBoundaryAdder"}),
     Row({"VARIANT_MULTI_THREAD_ACCESS"}, {"VariantManager"}, {"VariantManager"}, {}),
     Row({"NETWORK_DETACHABLE"}, {"Network"}, {}, {}),
     Row({"AUTOMATION_SYSTEM_ENABLED"}, AutomationSystem, AutomationSystem,
         {"OverloadManagementSystemAdder"}),
     Row({"TRIPPING_OPEN_ACTION"}, Tripping, Tripping, TrippingAdder),
     Row({"BL_PAIRED"}, {"BoundaryLine"}, {}, {}),
     Row({"GENERATION_VOLTAGE_REGULATION_ON"}, {"Generation"}, {"Generation"},
         {"GenerationAdder"}),
     Row({"PLANE_LESS_OR_EQUAL", "PLANE_GREATER_OR_EQUAL"}, {"ShapePlane"}, {}, {}),
     Row({"FICTITIOUS"}, Identifiable, Identifiable, IdentifiableAdder),
     Row({"EQUIVALENT"}, Connectable, Connectable, ConnectableAdder),
     Row({"GEN_CONDENSER"}, {"Generator"}, {}, {"GeneratorAdder"}),
     Row({"TC_LOAD_TAP_CHANGING_CAPABILITIES"}, TapChanger, TapChanger, TapChangerAdder),
     Row({"HAS_REGULATING_TERMINAL"}, VoltageRegulationHolder, {}, {}),
     Row({"VR_REGULATING"}, {"VoltageRegulation"}, {"VoltageRegulation"},
         VoltageRegulationAdderOrBuilder),
     Row({"VR_WITH_TERMINAL"}, {"VoltageRegulation"}, {}, {}),
     Row({"TERMINAL_CONNECTED"}, {"Terminal"}, {}, {}),
     Row({"BUS_IN_MAIN_CONNECTED_COMPONENT", "BUS_IN_MAIN_SYNCHRONOUS_COMPONENT"}, {"Bus"},
         {}, {}),
     Row({"TL_FICTITIOUS"}, {"TemporaryLimit"}, {}, {"TemporaryLimitAdder"}),
     Row({"SW_OPEN"}, {"Switch"}, {"Switch"}, {}),
     Row({"SW_RETAINED"}, {"Switch"}, {"Switch"}, {"NodeBreakerSwitchAdder"}),
     Row({"OLG_EMPTY"}, {"OperationalLimitsGroup"}, {}, {}),
     Row({"REGULATING"}, {}, {"PhaseTapChanger"}, {"PhaseTapChangerAdder"})}

\* Names and ids, and actions that take one.
Strings ==
    {Row({"ID", "NAME"}, Identifiable, Identifiable, IdentifiableAdder),
     Row({"TL_NAME"}, {"TemporaryLimit"}, {}, {"TemporaryLimitAdder"}),
     Row({"NETWORK_SOURCE_FORMAT"}, {"Network"}, {}, {}),
     Row({"OLG_ID"}, {"OperationalLimitsGroup"}, {}, {}),
     Row({"OVERLOAD_PREVIOUS_LIMIT_NAME", "OVERLOAD_OLG_ID"}, {"Overload"}, {}, {}),
     Row({"AREA_TYPE"}, {"Area"}, {}, {"AreaAdder"}),
     Row({"VAL_ID"}, {"VoltageAngleLimit"}, {}, {"VoltageAngleLimitAdder"}),
     Row({"OMS_MONITORED_ELEMENT_ID"}, {"OverloadManagementSystem"}, {},
         {"OverloadManagementSystemAdder"}),
     Row({"WORKING_VARIANT_ID"}, {"VariantManager"}, {"VariantManager"}, {}),
     Row({"TRIPPING_KEY"}, Tripping, {}, TrippingAdder),
     Row({"TRIPPING_NAME"}, Tripping, Tripping, TrippingAdder),
     Row({"LL_PERMANENT_LIMIT_NAME"}, LoadingLimits, LoadingLimits, LoadingLimitsAdder),
     Row({"ADD_GEOGRAPHICAL_TAG"}, {}, {"Substation"}, {}),
     Row({"REMOVE_VARIANT"}, {}, {"VariantManager"}, {}),
     Row({"BL_PAIRING_KEY"}, {}, {"BoundaryLine"}, {"BoundaryLineAdder"}),
     Row({"SUBSTATION_TSO"}, {}, {"Substation"}, {"SubstationAdder"}),
     Row({"BRANCH_VOLTAGE_LEVEL1", "BRANCH_VOLTAGE_LEVEL2", "BRANCH_BUS1", "BRANCH_BUS2",
         "BRANCH_CONNECTABLE_BUS1", "BRANCH_CONNECTABLE_BUS2"}, {}, {}, BranchAdder),
     Row({"HVDC_CONVERTER_STATION_ID1", "HVDC_CONVERTER_STATION_ID2"}, {}, {},
         {"HvdcLineAdder"}),
     Row({"BOUNDARY_LINE1_ID", "BOUNDARY_LINE2_ID"}, {}, {}, {"TieLineAdder"}),
     Row({"SW_BUS1", "SW_BUS2"}, {}, {}, {"BusBreakerSwitchAdder"})}

----------------------------------------------------------------------------
\* The codes a table has a getter, a setter or an adder's setter for, as cases.  With a null in
\* its column a code is not in the table, and the caller's switch is asked.
Getters(rows) == {Case(r.codes, r.get, AValue) : r \in {r \in rows : r.get # {}}}

Setters(rows) == {Case(r.codes, r.set, {None}) : r \in {r \in rows : r.set # {}}}

AdderSetters(rows) == {Case(r.codes, r.add, {None}) : r \in {r \in rows : r.add # {}}}

Doubles == EquipmentDoubles \cup LimitDoubles

IntsAndOrdinals == Ints \cup Enums \cup Ordinals
============================================================================
