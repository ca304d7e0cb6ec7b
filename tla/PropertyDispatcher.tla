------------------------- MODULE PropertyDispatcher -------------------------
(***************************************************************************)
(* PropertyDispatcher.java, and LimitsDispatch.java behind it: which codes *)
(* each of its functions knows, which kinds of objects each code can be    *)
(* asked of, and what it answers.  A definition has the cases of one       *)
(* switch.  What powsybl computes and the properties of extensions are     *)
(* left out.                                                               *)
(***************************************************************************)
EXTENDS PropertyTable

Reads(codes, on) == Case(codes, on, AValue)

Writes(codes, on) == Case(codes, on, {None})

Finds(codes, on, type) == Case(codes, on, Maybe(type))

\* The case of each code of a record from codes to types, asked of the same kinds.
EachOf(codes, on, typeOf) == {Case({c}, on, typeOf[c]) : c \in codes}

----------------------------------------------------------------------------
\* Values

\* instanceof, by type code.
InstanceOf ==
    [IDENTIFIABLE |-> Identifiable, NETWORK |-> {"Network"}, CONNECTABLE |-> Connectable,
     INJECTION |-> Injection, BRANCH |-> Branch, HVDC_CONVERTER_STATION |-> HvdcConverterStation,
     SUBSTATION |-> {"Substation"}, VOLTAGE_LEVEL |-> {"VoltageLevel"},
     GENERATOR |-> {"Generator"}, LOAD |-> {"Load"}, LOAD_MODEL |-> LoadModel,
     ZIP_LOAD_MODEL |-> {"ZipLoadModel"}, EXPONENTIAL_LOAD_MODEL |-> {"ExponentialLoadModel"},
     LINE |-> {"Line"}, TWO_WINDINGS_TRANSFORMER |-> {"TwoWindingsTransformer"},
     THREE_WINDINGS_TRANSFORMER |-> {"ThreeWindingsTransformer"}, HVDC_LINE |-> {"HvdcLine"},
     BOUNDARY_LINE |-> {"BoundaryLine"}, BOUNDARY_LINE_GENERATION |-> {"Generation"},
     BOUNDARY |-> {"Boundary"}, TIE_LINE |-> {"TieLine"}, AREA |-> {"Area"},
     AREA_BOUNDARY |-> {"AreaBoundary"}, VOLTAGE_ANGLE_LIMIT |-> {"VoltageAngleLimit"},
     OVERLOAD_MANAGEMENT_SYSTEM |-> {"OverloadManagementSystem"}, COMPONENT |-> {"Component"},
     VARIANT_MANAGER |-> {"VariantManager"}, TRIPPING |-> Tripping,
     SWITCH_TRIPPING |-> {"SwitchTripping"}, BRANCH_TRIPPING |-> {"BranchTripping"},
     THREE_WINDINGS_TRANSFORMER_TRIPPING |-> {"ThreeWindingsTransformerTripping"},
     GROUND |-> {"Ground"}, SHUNT_COMPENSATOR |-> {"ShuntCompensator"},
     SHUNT_COMPENSATOR_MODEL |-> ShuntCompensatorModel,
     SHUNT_COMPENSATOR_LINEAR_MODEL |-> {"ShuntCompensatorLinearModel"},
     SHUNT_COMPENSATOR_NON_LINEAR_MODEL |-> {"ShuntCompensatorNonLinearModel"},
     SHUNT_SECTION |-> {"Section"}, STATIC_VAR_COMPENSATOR |-> {"StaticVarCompensator"},
     VSC_CONVERTER_STATION |-> {"VscConverterStation"},
     LCC_CONVERTER_STATION |-> {"LccConverterStation"}, BUS |-> {"Bus"}, SWITCH |-> {"Switch"},
     BUSBAR_SECTION |-> {"BusbarSection"}, BATTERY |-> {"Battery"},
     THREE_WINDINGS_TRANSFORMER_LEG |-> Leg, RATIO_TAP_CHANGER |-> {"RatioTapChanger"},
     PHASE_TAP_CHANGER |-> {"PhaseTapChanger"}, RATIO_TAP_CHANGER_STEP |-> {"RatioTapChangerStep"},
     PHASE_TAP_CHANGER_STEP |-> {"PhaseTapChangerStep"}, REACTIVE_LIMITS |-> ReactiveLimits,
     MIN_MAX_REACTIVE_LIMITS |-> {"MinMaxReactiveLimits"},
     REACTIVE_CAPABILITY_CURVE |-> {"ReactiveCapabilityCurve"},
     REACTIVE_CAPABILITY_SHAPE |-> {"ReactiveCapabilityShape"},
     REACTIVE_CURVE_POINT |-> {"CurvePoint"}, REACTIVE_CAPABILITY_SHAPE_PLANE |-> {"ShapePlane"},
     LOADING_LIMITS |-> LoadingLimits, CURRENT_LIMITS |-> {"CurrentLimits"},
     ACTIVE_POWER_LIMITS |-> {"ActivePowerLimits"},
     APPARENT_POWER_LIMITS |-> {"ApparentPowerLimits"}, TEMPORARY_LIMIT |-> {"TemporaryLimit"},
     OPERATIONAL_LIMITS_GROUP |-> {"OperationalLimitsGroup"}, OVERLOAD |-> {"Overload"},
     FLOWS_LIMITS_HOLDER |-> LimitsHolder]

\* What the overload checks apply to: the switches cast to a branch what is no transformer.
OverloadChecked == Branch \cup {"ThreeWindingsTransformer"}

\* A side is asked of the trippings that have one: the last cast refuses a switch's.
SidedTripping == {"BranchTripping", "ThreeWindingsTransformerTripping"}

GetIntCases ==
    {Reads({"TERMINAL_SIDE", "TERMINAL_NODE"}, {"Terminal"}),
     Reads({"VR_MODE"}, {"VoltageRegulation"}),
     Reads({"VL_NBV_MAXIMUM_NODE_INDEX"}, {"VoltageLevel"}),
     Reads({"SW_NODE1", "SW_NODE2"}, {"Switch"}),
     Reads({"TRIPPING_SIDE"}, SidedTripping),
     Reads({"OVERLOAD_DURATION"}, OverloadChecked)}

SetIntCases ==
    {Writes({"NETWORK_MIN_VALIDATION_LEVEL"}, {"Network"}),
     Writes({"VR_MODE"}, {"VoltageRegulation"}),
     Writes({"HVDC_CONVERTERS_MODE"}, {"HvdcLine"}),
     Writes({"PTC_REGULATION_MODE"}, {"PhaseTapChanger"}),
     Writes({"TRIPPING_SIDE"}, SidedTripping)}

\* A type code is answered for any object.
GetBoolCases ==
    {Reads(DOMAIN InstanceOf, Kinds),
     Reads({"OVERLOADED"}, OverloadChecked),
     Reads({"REGULATING"}, TapChanger \cup VoltageRegulationHolder)}

\* The cast forgets that a tie line has a pairing key too.
PairingKeyOfHalves == {"BoundaryLine"}

PairingKeyHolder == {"TieLine", "BoundaryLine"}

GetStringCases ==
    {Reads({"TERMINAL_BUS_BREAKER_BUS_ID", "TERMINAL_BUS_BREAKER_CONNECTABLE_BUS_ID"},
           {"Terminal"}),
     Reads({"SUBSTATION_TSO", "COUNTRY"}, {"Substation"}),
     Reads({"NETWORK_CASE_DATE"}, {"Network"}),
     Reads({"VL_TOPOLOGY_TEXT"}, {"VoltageLevel"}),
     Reads({"TRIPPING_ELEMENT_ID"}, Tripping),
     Reads({"BL_PAIRING_KEY"}, PairingKeyHolder),
     Reads({"SELECTED_OLG_ID"}, LimitsHolder)}

SetStringCases ==
    {Writes({"TRIPPING_ELEMENT_ID"}, Tripping),
     Writes({"TERMINAL_BUS_BREAKER_CONNECTABLE_BUS_ID"}, {"Terminal"}),
     Writes({"VL_NBV_REMOVE_SWITCH", "VL_BBV_REMOVE_SWITCH"}, {"VoltageLevel"}),
     Writes({"COUNTRY"}, {"Substation"}),
     Writes({"NETWORK_CASE_DATE"}, {"Network"}),
     Writes({"SELECTED_OLG_ID", "ADD_SELECTED_OLG", "DESELECT_OLG", "REMOVE_OLG"}, LimitsHolder)}

\* The codes read as values that may be none; any other is read by getInt or getString.
OptIntCases ==
    {Reads({"SHUNT_SECTION_COUNT", "SHUNT_SOLVED_SECTION_COUNT"}, {"ShuntCompensator"}),
     Reads({"TC_TAP_POSITION", "TC_SOLVED_TAP_POSITION", "TC_NEUTRAL_POSITION"}, TapChanger)}

OptStringCases ==
    {Reads({"NAME"}, Identifiable),
     Reads({"SUBSTATION_TSO", "COUNTRY"}, {"Substation"}),
     Reads({"SELECTED_OLG_ID"}, LimitsHolder),
     Reads({"BL_PAIRING_KEY"}, PairingKeyHolder)}

StringListCases ==
    {Reads({"ALL_SELECTED_OLG_IDS", "ALL_SELECTED_OLG_IDS_ORDERED"}, LimitsHolder),
     Reads({"PROPERTY_NAMES"}, PropertiesHolder),
     Reads({"ALIASES"}, Identifiable),
     Reads({"NETWORK_COUNTRIES", "AREA_TYPE"}, {"Network"}),
     Reads({"VARIANT_IDS"}, {"VariantManager"}),
     Reads({"SUBSTATION_GEOGRAPHICAL_TAGS"}, {"Substation"})}

GetKeyedStringCases ==
    {Reads({"PROPERTY"}, PropertiesHolder),
     Reads({"ALIAS_TYPE", "ALIAS_FROM_TYPE"}, Identifiable)}

SetKeyedStringCases ==
    {Writes({"PROPERTY"}, PropertiesHolder),
     Writes({"ALIAS_TYPE", "UNIQUE_ALIAS_TYPE"}, Identifiable)}

IntListCases ==
    {Reads({"VL_NBV_NODES"}, {"VoltageLevel"}),
     Reads({"ELEMENTS"}, {"NodeList"}),
     Reads({"REGULATING_MODES", "WITH_MODES"}, VoltageRegulationHolder)}

\* Methods that take numbers, by how many: a code given another number of them is refused.
EvaluateCases ==
    [evaluate1 |-> {Reads({"RL_MIN_Q", "RL_MAX_Q"}, ReactiveLimits),
                    Reads({"LL_TEMPORARY_LIMIT_VALUE"}, LoadingLimits),
                    Reads({"SHUNT_B", "SHUNT_G"}, {"ShuntCompensator"}),
                    Reads({"FICTITIOUS_P0", "FICTITIOUS_Q0", "VL_NBV_ATTACHED_EQUIPMENT"},
                          {"VoltageLevel"}),
                    Reads({"NETWORK_VALIDATION_LEVEL"}, {"Network"}),
                    Reads({"OVERLOADED"}, OverloadChecked)},
     evaluate2 |-> {Reads({"RL_MIN_Q", "RL_MAX_Q"},
                          {"ReactiveCapabilityCurve", "ReactiveCapabilityShape"}),
                    Reads({"CHECK_PERMANENT_LIMIT"}, OverloadChecked)},
     evaluate3 |-> {Reads({"CHECK_PERMANENT_LIMIT"}, OverloadChecked),
                    Reads({"SHAPE_IS_INSIDE"}, {"ReactiveCapabilityShape"})}]

----------------------------------------------------------------------------
\* Objects

\* The objects that belong to another, of the type of a type code.
ChildrenOfType ==
    EachOf({"GENERATOR", "LOAD", "BATTERY", "SHUNT_COMPENSATOR", "STATIC_VAR_COMPENSATOR",
            "BOUNDARY_LINE", "LCC_CONVERTER_STATION", "VSC_CONVERTER_STATION", "LINE"},
           {"VoltageLevel", "Bus", "Network"}, InstanceOf)
    \cup EachOf({"TWO_WINDINGS_TRANSFORMER", "THREE_WINDINGS_TRANSFORMER"},
                {"Substation", "VoltageLevel", "Bus", "Network"}, InstanceOf)
    \cup EachOf({"CONNECTABLE", "AREA", "GROUND", "SWITCH", "BUSBAR_SECTION"},
                {"VoltageLevel", "Network"}, InstanceOf)
    \cup EachOf({"IDENTIFIABLE", "BRANCH", "HVDC_CONVERTER_STATION", "SUBSTATION",
                 "VOLTAGE_ANGLE_LIMIT", "HVDC_LINE", "TIE_LINE", "NETWORK"},
                {"Network"}, InstanceOf)
    \cup EachOf({"CURRENT_LIMITS", "ACTIVE_POWER_LIMITS", "APPARENT_POWER_LIMITS"},
                LimitsHolder, InstanceOf)

\* The other objects that belong to another.
OtherChildren ==
    {Case({"BOUNDARY_ELEMENT"}, {"Network"}, Identifiable),
     Case({"REL_CONNECTED_COMPONENT", "REL_SYNCHRONOUS_COMPONENT"}, {"Network"},
          {"Component"}),
     Case({"REL_BBV_SWITCH"}, {"VoltageLevel", "Network"}, {"Switch"}),
     Case({"REL_NBV_SWITCH"}, {"VoltageLevel"}, {"Switch"}),
     Case({"INTERNAL_CONNECTION"}, {"VoltageLevel"}, {"InternalConnection"}),
     Case({"BUS"}, {"Network", "Component", "VoltageLevel"}, {"Bus"}),
     Case({"REL_BV_BUS"}, {"VoltageLevel", "Network"}, {"Bus"}),
     Case({"TERMINAL"}, {"Bus"} \cup Connectable, {"Terminal"}),
     Case({"VOLTAGE_LEVEL"}, {"Substation", "Area", "Network"}, {"VoltageLevel"}),
     Case({"AREA_BOUNDARY"}, {"Area"}, {"AreaBoundary"}),
     Case({"OVERLOAD_MANAGEMENT_SYSTEM"}, {"Substation", "Network"}, AutomationSystem),
     Case({"TRIPPING"}, AutomationSystem, Tripping),
     Case({"REACTIVE_CURVE_POINT"}, {"ReactiveCapabilityCurve"}, {"CurvePoint"}),
     Case({"REACTIVE_CAPABILITY_SHAPE_PLANE"}, {"ReactiveCapabilityShape"}, {"ShapePlane"}),
     Case({"THREE_WINDINGS_TRANSFORMER_LEG"}, {"ThreeWindingsTransformer"}, Leg),
     Case({"RATIO_TAP_CHANGER_STEP"}, {"RatioTapChanger"}, {"RatioTapChangerStep"}),
     Case({"PHASE_TAP_CHANGER_STEP"}, {"PhaseTapChanger"}, {"PhaseTapChangerStep"}),
     Case({"SHUNT_SECTION"}, {"ShuntCompensatorNonLinearModel"}, {"Section"}),
     Case({"TEMPORARY_LIMIT"}, LoadingLimits, {"TemporaryLimit"}),
     Case({"OPERATIONAL_LIMITS_GROUP", "REL_SELECTED_OLG"}, LimitsHolder,
          {"OperationalLimitsGroup"}),
     Case({"ELEMENTS"}, {"BusList"}, {"Bus"}),
     Case({"ELEMENTS"}, {"SwitchList"}, {"Switch"}),
     Case({"ELEMENTS"}, {"OverloadList"}, {"Overload"})}

ChildCases == ChildrenOfType \cup OtherChildren

\* Those that have limits of a type: a group, or the selected group of a holder.
LimitsOwner == LimitsHolder \cup {"OperationalLimitsGroup"}

\* The reactive limits of another, of a type: powsybl throws when they are of another one.
ReactiveLimitsOfType ==
    EachOf({"REACTIVE_LIMITS", "MIN_MAX_REACTIVE_LIMITS", "REACTIVE_CAPABILITY_CURVE",
            "REACTIVE_CAPABILITY_SHAPE"}, ReactiveLimitsHolder, InstanceOf)

\* The object that another has, none for those in Finds.  Asked for the model of a type, powsybl
\* throws for a shunt compensator that has the other one.
OtherRelated ==
    {Case({"REL_TERMINAL"}, Injection \cup Leg, {"Terminal"}),
     Finds({"REL_TERMINAL"}, {"VoltageRegulation", "AreaBoundary"}, {"Terminal"}),
     Case({"REL_TERMINAL1", "REL_TERMINAL2"}, Branch, {"Terminal"}),
     Finds({"REL_BUS", "REL_CONNECTABLE_BUS", "REL_BV_BUS", "REL_BV_CONNECTABLE_BUS"},
           {"Terminal"}, {"Bus"}),
     Case({"REL_VOLTAGE_LEVEL"}, {"Bus", "Switch", "Boundary", "Terminal"},
          {"VoltageLevel"}),
     Finds({"BOUNDARY_LINE_GENERATION"}, {"BoundaryLine"}, {"Generation"}),
     Finds({"LOAD_MODEL"}, {"Load"}, LoadModel),
     Finds({"BOUNDARY"}, {"AreaBoundary"}, {"Boundary"}),
     Case({"BOUNDARY"}, {"BoundaryLine"}, {"Boundary"}),
     Case({"AREA"}, {"AreaBoundary"}, {"Area"}),
     Case({"REL_TERMINAL_FROM", "REL_TERMINAL_TO"}, {"VoltageAngleLimit"}, {"Terminal"}),
     Case({"BOUNDARY_LINE"}, {"Boundary"}, {"BoundaryLine"}),
     Finds({"TIE_LINE"}, {"BoundaryLine"}, {"TieLine"}),
     Finds({"REL_HVDC_LINE"}, HvdcConverterStation, {"HvdcLine"}),
     Case({"NETWORK", "REL_PARENT_NETWORK"}, Identifiable, {"Network"}),
     Case({"VARIANT_MANAGER"}, {"Network"}, {"VariantManager"}),
     Finds({"REL_CONNECTED_COMPONENT", "REL_SYNCHRONOUS_COMPONENT"}, {"Bus"},
           {"Component"}),
     Case({"REL_CONVERTER_STATION1", "REL_CONVERTER_STATION2"}, {"HvdcLine"},
          HvdcConverterStation),
     Finds({"REL_OTHER_CONVERTER_STATION"}, HvdcConverterStation, HvdcConverterStation),
     Finds({"RATIO_TAP_CHANGER"}, TapChangerHolder, {"RatioTapChanger"}),
     Finds({"PHASE_TAP_CHANGER"}, TapChangerHolder, {"PhaseTapChanger"}),
     Case({"THREE_WINDINGS_TRANSFORMER"}, Leg, {"ThreeWindingsTransformer"}),
     Finds({"REL_CURRENT_STEP", "REL_SOLVED_CURRENT_STEP", "REL_NEUTRAL_STEP"},
           {"RatioTapChanger"}, {"RatioTapChangerStep"}),
     Finds({"REL_CURRENT_STEP", "REL_SOLVED_CURRENT_STEP", "REL_NEUTRAL_STEP"},
           {"PhaseTapChanger"}, {"PhaseTapChangerStep"}),
     Finds({"REL_REGULATION_TERMINAL"}, {"PhaseTapChanger"}, {"Terminal"}),
     Case({"REL_SUBSTATION"}, AutomationSystem, {"Substation"}),
     Finds({"REL_SUBSTATION"},
           {"TwoWindingsTransformer", "ThreeWindingsTransformer", "VoltageLevel"},
           {"Substation"}),
     Case({"REL_REGULATING_TERMINAL"}, VoltageRegulationHolder, {"Terminal"}),
     Finds({"REL_SELECTED_OLG"}, LimitsHolder, {"OperationalLimitsGroup"}),
     Finds({"CURRENT_LIMITS"}, LimitsOwner, {"CurrentLimits"}),
     Finds({"ACTIVE_POWER_LIMITS"}, LimitsOwner, {"ActivePowerLimits"}),
     Finds({"APPARENT_POWER_LIMITS"}, LimitsOwner, {"ApparentPowerLimits"}),
     Case({"REL_CONNECTABLE"}, {"Terminal"}, Connectable),
     Case({"TEMPORARY_LIMIT"}, {"Overload"}, {"TemporaryLimit"}),
     Finds({"VOLTAGE_REGULATION"}, VoltageRegulationHolder, {"VoltageRegulation"}),
     Case({"SHUNT_COMPENSATOR_MODEL"}, {"ShuntCompensator"}, ShuntCompensatorModel),
     Case({"SHUNT_COMPENSATOR_LINEAR_MODEL"}, {"ShuntCompensator"},
          {"ShuntCompensatorLinearModel"}),
     Case({"SHUNT_COMPENSATOR_NON_LINEAR_MODEL"}, {"ShuntCompensator"},
          {"ShuntCompensatorNonLinearModel"})}

RelatedCases == ReactiveLimitsOfType \cup OtherRelated

\* The object that another has under a name; a network looks names up by type, save buses.
RelatedByStringCases ==
    {Finds({"REL_BBV_BUS", "REL_BV_BUS"}, {"Network", "VoltageLevel"}, {"Bus"}),
     Case({"REL_TERMINAL"}, Branch \cup {"ThreeWindingsTransformer"}, {"Terminal"}),
     Finds({"REL_MERGED_BUS"}, {"VoltageLevel"}, {"Bus"}),
     Case({"REL_BBV_BUSES_OF_BV_BUS"}, {"VoltageLevel"}, {"BusList"}),
     Finds({"BUSBAR_SECTION"}, {"VoltageLevel"}, {"BusbarSection"}),
     Finds({"BOUNDARY_LINE"}, {"TieLine"}, {"BoundaryLine"}),
     Finds({"AREA"}, {"VoltageLevel"}, {"Area"}),
     Finds({"REL_BBV_SWITCH", "REL_NBV_SWITCH"}, {"VoltageLevel"}, {"Switch"}),
     Finds({"CONNECTABLE"}, {"VoltageLevel"}, Connectable),
     Case({"REL_VL_BBV_BUS1", "REL_VL_BBV_BUS2"}, {"VoltageLevel"}, {"Bus"}),
     Finds({"OPERATIONAL_LIMITS_GROUP"}, LimitsHolder, {"OperationalLimitsGroup"}),
     Finds({"CURRENT_LIMITS"}, LimitsHolder, {"CurrentLimits"}),
     Finds({"ACTIVE_POWER_LIMITS"}, LimitsHolder, {"ActivePowerLimits"}),
     Finds({"APPARENT_POWER_LIMITS"}, LimitsHolder, {"ApparentPowerLimits"})}

\* The object that another has at a node, on a side, at a position or of a type of limits.  A
\* side of a branch is made for the call.
RelatedByIndexCases ==
    {Finds({"REL_NBV_TERMINAL_AT_NODE"}, {"VoltageLevel"}, {"Terminal"}),
     Case({"REL_NBV_SWITCH"}, {"VoltageLevel"}, {"SwitchList"}),
     Case({"BOUNDARY_LINE"}, {"TieLine"}, {"BoundaryLine"}),
     Case({"INTERNAL_CONNECTION"}, {"VoltageLevel"}, {"NodeList"}),
     Case({"REL_TERMINAL"}, {"ThreeWindingsTransformer"}, {"Terminal"}),
     Case({"THREE_WINDINGS_TRANSFORMER_LEG"}, {"ThreeWindingsTransformer"}, Leg),
     Case({"RATIO_TAP_CHANGER_STEP"}, {"RatioTapChanger"}, {"RatioTapChangerStep"}),
     Case({"PHASE_TAP_CHANGER_STEP"}, {"PhaseTapChanger"}, {"PhaseTapChangerStep"}),
     Case({"FLOWS_LIMITS_HOLDER"}, Branch, {"BranchSide"}),
     Finds({"LOADING_LIMITS"}, LimitsOwner, LoadingLimits),
     Finds({"TEMPORARY_LIMIT"}, LoadingLimits, {"TemporaryLimit"}),
     Case({"HVDC_CONVERTER_STATION"}, {"HvdcLine"}, HvdcConverterStation)}

\* powsybl has no getter of injections: one that is none is not found.
FindByIdCases ==
    {Finds({c}, {"Network"}, InstanceOf[c]) :
        c \in {"GENERATOR", "LOAD", "LINE", "TWO_WINDINGS_TRANSFORMER",
               "THREE_WINDINGS_TRANSFORMER", "HVDC_LINE", "TIE_LINE", "AREA",
               "VOLTAGE_ANGLE_LIMIT", "OVERLOAD_MANAGEMENT_SYSTEM", "GROUND", "BOUNDARY_LINE",
               "SHUNT_COMPENSATOR", "STATIC_VAR_COMPENSATOR", "VSC_CONVERTER_STATION",
               "LCC_CONVERTER_STATION", "SWITCH", "BUSBAR_SECTION", "BATTERY", "VOLTAGE_LEVEL",
               "SUBSTATION", "IDENTIFIABLE", "CONNECTABLE", "INJECTION", "BRANCH",
               "HVDC_CONVERTER_STATION", "NETWORK"}}

----------------------------------------------------------------------------
\* Changes

\* The code of the relation alone: what the new object must be is the overload of the C++
\* setter, and an adder's relations are in AdderDispatch.
SetRelatedCases ==
    {Writes({"REL_REGULATION_TERMINAL"}, {"PhaseTapChanger"}),
     Writes({"ADD_VOLTAGE_LEVEL", "REMOVE_VOLTAGE_LEVEL", "REMOVE_AREA_BOUNDARY"}, {"Area"}),
     Writes({"ADD_AREA", "REMOVE_AREA"}, {"VoltageLevel"}),
     Writes({"ADD_TRIPPING"}, AutomationSystem)}

\* Cleared with no object; one that is given is refused.
ClearCases ==
    {Writes({"VOLTAGE_REGULATION"}, VoltageRegulationHolder),
     Writes({"REL_SELECTED_OLG"}, LimitsHolder),
     Writes({"CURRENT_LIMITS", "ACTIVE_POWER_LIMITS", "APPARENT_POWER_LIMITS"},
            {"OperationalLimitsGroup"})}

\* What can be connected: by itself, or its stations, or its halves.
Connectables == {"Terminal", "HvdcLine", "TieLine"} \cup Connectable

TwoOrThreeWindingsTransformer == {"TwoWindingsTransformer", "ThreeWindingsTransformer"}

\* The object itself when connecting changed it.  Its kind is the caller's: each answers Maybe of
\* its own.
ConnectCases == {Finds({"ACT_CONNECT", "ACT_DISCONNECT"}, {k}, {k}) : k \in Connectables}

ActionCases ==
    {Writes({"ACT_SET_TARGET_P_TO_P"}, {"Generator", "Battery", "Load", "BoundaryLine"}),
     Writes({"ACT_SET_TARGET_Q_TO_Q"}, {"BoundaryLine", "Load"} \cup VoltageRegulationHolder),
     Writes({"ACT_SET_TARGET_V_TO_V"}, {"BoundaryLine"} \cup VoltageRegulationHolder),
     Writes({"ACT_UNSET_TAP_POSITION", "ACT_UNSET_SOLVED_TAP_POSITION",
             "ACT_SET_TAP_POSITION_TO_SOLVED_TAP_POSITION"}, TapChanger),
     Writes({"ACT_APPLY_SOLVED_VALUES"},
            TapChanger \cup TwoOrThreeWindingsTransformer
              \cup {"Generator", "Battery", "Load", "ShuntCompensator", "BoundaryLine"}),
     Writes({"ACT_UNSET_SOLVED_VALUES"}, Connectable \cup {"Terminal", "Bus"}),
     Writes({"ACT_UNSET_SECTION_COUNT", "ACT_UNSET_SOLVED_SECTION_COUNT",
             "ACT_SET_SECTION_COUNT_TO_SOLVED_SECTION_COUNT"}, {"ShuntCompensator"}),
     Writes({"ACT_REMOVE_ALL_BUSES", "ACT_REMOVE_ALL_SWITCHES"}, {"VoltageLevel"}),
     Writes({"ACT_REMOVE_UPDATING_BOUNDARY_LINES"}, {"TieLine"}),
     Case({"ACT_DETACH"}, {"Network"}, {"Network"}),
     Writes({"ACT_FLATTEN"}, {"Network"}),
     Writes({"ACT_SET_RATIO_TAP_POSITION_TO_SOLVED_TAP_POSITION",
             "ACT_SET_PHASE_TAP_POSITION_TO_SOLVED_TAP_POSITION"},
            TwoOrThreeWindingsTransformer)}

RemoveCases ==
    {Writes({"ACT_REMOVE"},
            Connectable \cup TapChanger \cup OperationalLimits \cup AutomationSystem
              \cup {"VoltageLevel", "Substation", "HvdcLine", "Bus", "TieLine", "Area"})}
============================================================================
