------------------------- MODULE EquipmentWrappers -------------------------
(***************************************************************************)
(* The accessors of the C++ wrappers of equipment: what connects it to the *)
(* network, injections, branches and transformers, with their regulation.  *)
(* A definition has the accessors of one file.                             *)
(***************************************************************************)
EXTENDS Accessors

----------------------------------------------------------------------------
\* What all equipment has

IdentifiableValues ==
    Values("Identifiable",
           [getString |-> {"ID", "NAME"}, setString |-> {"ID", "NAME"}, getOptString |-> {"NAME"},
            getBool |-> {"FICTITIOUS"}, setBool |-> {"FICTITIOUS"},
            getInt |-> {"IDENTIFIABLE_TYPE"}])

IdentifiableLinks ==
    Links("Identifiable", "getRelated", "one",
          {<<"NETWORK", "Network">>, <<"REL_PARENT_NETWORK", "Network">>})
    \cup Values("Identifiable",
                [getStringList |-> {"ALIASES"},
                 getKeyedString |-> {"ALIAS_TYPE", "ALIAS_FROM_TYPE"},
                 setKeyedString |-> {"ALIAS_TYPE", "UNIQUE_ALIAS_TYPE"}])

PropertiesHolderValues ==
    Values("PropertiesHolder", [getKeyedString |-> {"PROPERTY"}, setKeyedString |-> {"PROPERTY"},
                                getStringList |-> {"PROPERTY_NAMES"}])

\* connectThrough(): with a side or without.
ConnectsThrough(class, fields) ==
    Does(class, "CONNECT", fields) \cup Does(class, "DISCONNECT", fields)

Connects(class, sides) ==
    ConnectsThrough(class, {"SWITCH_PREDICATE"})
    \cup ConnectsThrough(class, {"SWITCH_PREDICATE"} \cup sides)
    \cup Values(class, [invoke |-> {"ACT_CONNECT", "ACT_DISCONNECT"}])

ConnectableAccessors ==
    Links("Connectable", "getChildren", "many", {<<"TERMINAL", "Terminal">>})
    \cup Connects("Connectable", {"TERMINAL_SIDE"})
    \cup Values("Connectable", [invoke |-> {"ACT_UNSET_SOLVED_VALUES", "ACT_REMOVE"},
                                getBool |-> {"EQUIVALENT"}, setBool |-> {"EQUIVALENT"}])

\* The terminal's handle given to its bus.
InjectionLinksToBus == Links("Injection", "getRelated", "one", {<<"REL_TERMINAL", "Bus">>})

InjectionLinks == Links("Injection", "getRelated", "one", {<<"REL_TERMINAL", "Terminal">>})

TerminalAccessors ==
    Links("Terminal.BusBreakerView", "getRelated", "maybe",
          {<<"REL_BUS", "Bus">>, <<"REL_CONNECTABLE_BUS", "Bus">>})
    \cup Does("Terminal.BusBreakerView", "MOVE_CONNECTABLE",
              {"TERMINAL_BUS_BREAKER_CONNECTABLE_BUS_ID", "TERMINAL_CONNECTED"})
    \cup Links("Terminal.BusView", "getRelated", "maybe",
               {<<"REL_BV_BUS", "Bus">>, <<"REL_BV_CONNECTABLE_BUS", "Bus">>})
    \cup Does("Terminal.NodeBreakerView", "MOVE_CONNECTABLE",
              {"TERMINAL_NODE", "TERMINAL_VOLTAGE_LEVEL_ID"})
    \cup Connects("Terminal", {})
    \cup Values("Terminal", [invoke |-> {"ACT_UNSET_SOLVED_VALUES"}, getInt |-> {"TERMINAL_SIDE"}])
    \cup Links("Terminal", "getRelated", "one",
               {<<"REL_CONNECTABLE", "Connectable">>, <<"REL_VOLTAGE_LEVEL", "VoltageLevel">>})
    \cup Views("Terminal", {"Terminal.BusBreakerView", "Terminal.BusView",
                            "Terminal.NodeBreakerView"})

TerminalValues ==
    Numbers("Terminal", {"TERMINAL_P", "TERMINAL_Q"})
    \cup Values("Terminal", [getDouble |-> {"TERMINAL_I"}, getBool |-> {"TERMINAL_CONNECTED"}])
    \cup Values("Terminal.BusBreakerView",
                [setString |-> {"TERMINAL_BUS_BREAKER_CONNECTABLE_BUS_ID"}])
    \cup Values("Terminal.NodeBreakerView", [getInt |-> {"TERMINAL_NODE"}])

BusLinks ==
    Values("Bus", [invoke |-> {"ACT_UNSET_SOLVED_VALUES"}])
    \cup Links("Bus", "getRelated", "maybe",
               {<<"REL_CONNECTED_COMPONENT", "Component">>,
                <<"REL_SYNCHRONOUS_COMPONENT", "Component">>})
    \cup Links("Bus", "getRelated", "one", {<<"REL_VOLTAGE_LEVEL", "VoltageLevel">>})
    \cup Links("Bus", "getChildren", "many",
               {<<"TERMINAL", "Terminal">>}
                 \cup OfType({"Line", "TwoWindingsTransformer", "ThreeWindingsTransformer",
                              "Generator", "Battery", "Load", "ShuntCompensator", "BoundaryLine",
                              "StaticVarCompensator", "LccConverterStation",
                              "VscConverterStation"}))
    \cup Counts("Bus", {"TERMINAL"})

BusValues ==
    Numbers("Bus", {"BUS_V", "BUS_ANGLE", "FICTITIOUS_P0", "FICTITIOUS_Q0"})
    \cup Values("Bus", [getDouble |-> {"BUS_P", "BUS_Q"},
                        getBool |-> {"BUS_IN_MAIN_CONNECTED_COMPONENT",
                                     "BUS_IN_MAIN_SYNCHRONOUS_COMPONENT"}])

\* A number of the switch taken for a handle.
SwitchLinksByNumber == Links("Switch", "getInt", "one", {<<"SW_NODE1", "VoltageLevel">>})

SwitchLinks == Links("Switch", "getRelated", "one", {<<"REL_VOLTAGE_LEVEL", "VoltageLevel">>})

SwitchValues ==
    Values("Switch", [getBool |-> {"SW_OPEN", "SW_RETAINED"}, setBool |-> {"SW_OPEN", "SW_RETAINED"},
                      getInt |-> {"SW_KIND", "SW_NODE1", "SW_NODE2"}])

ComponentAccessors ==
    Links("Component", "getChildren", "many", OfType({"Bus"}))
    \cup Values("Component", [getInt |-> {"COMPONENT_NUM", "COMPONENT_SIZE"}])

----------------------------------------------------------------------------
\* Injections

GeneratorValues ==
    Numbers("Generator", {"GEN_TARGET_P", "GEN_MIN_P", "GEN_MAX_P", "GEN_RATED_S"})
    \cup Values("Generator", [getBool |-> {"GEN_CONDENSER"}, getInt |-> {"GEN_ENERGY_SOURCE"},
                              setInt |-> {"GEN_ENERGY_SOURCE"}])

\* Generator.cpp and Battery.cpp.
TargetsFromSolved(class) ==
    Values(class, [invoke |-> {"ACT_APPLY_SOLVED_VALUES", "ACT_SET_TARGET_P_TO_P"}])

BatteryValues == Numbers("Battery", {"BAT_TARGET_P", "BAT_MIN_P", "BAT_MAX_P"})

LoadLinks ==
    Links("Load", "getRelated", "maybe", OfType({"LoadModel"}))
    \cup Values("Load", [invoke |-> {"ACT_APPLY_SOLVED_VALUES", "ACT_SET_TARGET_P_TO_P",
                                     "ACT_SET_TARGET_Q_TO_Q"}])

LoadValues ==
    Numbers("Load", {"LOAD_P0", "LOAD_Q0"})
    \cup Values("Load", [getInt |-> {"LOAD_TYPE"}, setInt |-> {"LOAD_TYPE"}])

LoadModelValues ==
    Values("LoadModel", [getInt |-> {"LOAD_MODEL_TYPE"}])
    \cup Numbers("ZipLoadModel",
                 {"ZIP_C0P", "ZIP_C1P", "ZIP_C2P", "ZIP_C0Q", "ZIP_C1Q", "ZIP_C2Q"})
    \cup Numbers("ExponentialLoadModel", {"EXP_NP", "EXP_NQ"})

BusbarSectionValues == Values("BusbarSection", [getDouble |-> {"BBS_V", "BBS_ANGLE"}])

ShuntCompensatorLinks ==
    Values("ShuntCompensator",
           [evaluate1 |-> {"SHUNT_B", "SHUNT_G"},
            invoke |-> {"ACT_UNSET_SECTION_COUNT", "ACT_UNSET_SOLVED_SECTION_COUNT",
                        "ACT_APPLY_SOLVED_VALUES",
                        "ACT_SET_SECTION_COUNT_TO_SOLVED_SECTION_COUNT"}])
    \cup Links("ShuntCompensator", "getRelated", "one", OfType({"ShuntCompensatorModel"}))

ShuntCompensatorValues ==
    Values("ShuntCompensator",
           [getInt |-> {"SHUNT_SECTION_COUNT", "SHUNT_MAX_SECTION_COUNT", "SHUNT_MODEL_TYPE"},
            getOptInt |-> {"SHUNT_SECTION_COUNT", "SHUNT_SOLVED_SECTION_COUNT"},
            setInt |-> {"SHUNT_SECTION_COUNT", "SHUNT_SOLVED_SECTION_COUNT"},
            getDouble |-> {"SHUNT_B", "SHUNT_G"}])

LinearModelValues ==
    Numbers("ShuntCompensatorLinearModel", {"SHUNT_B_PER_SECTION", "SHUNT_G_PER_SECTION"})
    \cup Values("ShuntCompensatorLinearModel", [setInt |-> {"SHUNT_MAX_SECTION_COUNT"}])

NonLinearModelAccessors ==
    Links("ShuntCompensatorNonLinearModel", "getChildren", "many", OfType({"Section"}))
    \cup Numbers("Section", {"SHUNT_SECTION_B", "SHUNT_SECTION_G"})

StaticVarCompensatorValues == Numbers("StaticVarCompensator", {"SVC_B_MIN", "SVC_B_MAX"})

\* HVDC

\* The line of a station that has none, expected.
HvdcConverterStationLinksExpected ==
    Links("HvdcConverterStation", "getRelated", "one", {<<"REL_HVDC_LINE", "HvdcLine">>})

HvdcConverterStationLinks ==
    Links("HvdcConverterStation", "getRelated", "maybe",
          {<<"REL_HVDC_LINE", "HvdcLine">>,
           <<"REL_OTHER_CONVERTER_STATION", "HvdcConverterStation">>})

HvdcConverterStationValues ==
    Numbers("HvdcConverterStation", {"CONVERTER_STATION_LOSS_FACTOR"})
    \cup Values("HvdcConverterStation", [getInt |-> {"CONVERTER_STATION_HVDC_TYPE"}])

LccConverterStationValues == Numbers("LccConverterStation", {"LCC_POWER_FACTOR"})

HvdcLineLinks ==
    Links("HvdcLine", "getRelated", "one",
          {<<"REL_CONVERTER_STATION1", "HvdcConverterStation">>,
           <<"REL_CONVERTER_STATION2", "HvdcConverterStation">>})
    \cup Links("HvdcLine", "getRelatedByIndex", "one", OfType({"HvdcConverterStation"}))
    \cup Connects("HvdcLine", {"TERMINAL_SIDE"})
    \cup Values("HvdcLine", [invoke |-> {"ACT_REMOVE"}])

HvdcLineValues ==
    Numbers("HvdcLine", {"HVDC_R", "HVDC_NOMINAL_V", "HVDC_ACTIVE_POWER_SETPOINT", "HVDC_MAX_P"})
    \cup Values("HvdcLine", [getInt |-> {"HVDC_CONVERTERS_MODE"},
                             setInt |-> {"HVDC_CONVERTERS_MODE"}])

----------------------------------------------------------------------------
\* Branches

\* OverloadChecks.h: with a limit reduction or without.
OverloadChecks(class) ==
    Values(class, [evaluate2 |-> {"CHECK_PERMANENT_LIMIT"},
                   evaluate3 |-> {"CHECK_PERMANENT_LIMIT"}])
    \cup UNION {Steps(class, "CHECK_TEMPORARY_LIMITS", fields, "maybe", "Overload")
                  \cup Steps(class, "CHECK_ALL_TEMPORARY_LIMITS", fields, "one", "OverloadList") :
                  fields \in {{"TERMINAL_SIDE", "LL_LIMIT_TYPE"},
                             {"TERMINAL_SIDE", "LIMIT_REDUCTION", "LL_LIMIT_TYPE"}}}

\* Everything about the limits of a side is asked of sideLimits().
BranchLinks ==
    Links("BranchMethods", "getRelated", "one",
          {<<"REL_TERMINAL1", "Terminal">>, <<"REL_TERMINAL2", "Terminal">>})
    \cup Links("BranchMethods", "getRelatedByString", "one", {<<"REL_TERMINAL", "Terminal">>})
    \cup Links("BranchMethods", "getRelatedByIndex", "one", OfType({"BranchSideLimits"}))

BranchOverloads ==
    Values("BranchMethods", [getBool |-> {"OVERLOADED"}, getInt |-> {"OVERLOAD_DURATION"},
                             evaluate1 |-> {"OVERLOADED"}])
    \cup OverloadChecks("BranchMethods")

LineValues == Numbers("Line", {"LINE_R", "LINE_X", "LINE_G1", "LINE_B1", "LINE_G2", "LINE_B2"})

TieLineLinks ==
    Links("TieLine", "getRelatedByIndex", "one", OfType({"BoundaryLine"}))
    \cup Links("TieLine", "getRelatedByString", "maybe", OfType({"BoundaryLine"}))
    \cup Connects("TieLine", {"TERMINAL_SIDE"})
    \cup Values("TieLine", [invoke |-> {"ACT_REMOVE", "ACT_REMOVE_UPDATING_BOUNDARY_LINES"}])

TieLineValues ==
    Values("TieLine",
           [getDouble |-> {"LINE_R", "LINE_X", "LINE_G1", "LINE_B1", "LINE_G2", "LINE_B2"},
            getOptString |-> {"BL_PAIRING_KEY"}])

BoundaryLineLinks ==
    Links("BoundaryLine", "getRelated", "maybe", OfType({"TieLine", "Generation"}))
    \cup Links("BoundaryLine", "getRelated", "one", OfType({"Boundary"}))
    \cup Values("BoundaryLine", [invoke |-> {"ACT_APPLY_SOLVED_VALUES", "ACT_SET_TARGET_P_TO_P",
                                             "ACT_SET_TARGET_Q_TO_Q", "ACT_SET_TARGET_V_TO_V"}])
    \cup Links("Boundary", "getRelated", "one",
               OfType({"BoundaryLine"}) \cup {<<"REL_VOLTAGE_LEVEL", "VoltageLevel">>})

BoundaryLineValues ==
    Numbers("BoundaryLine", {"BL_P0", "BL_Q0", "BL_R", "BL_X", "BL_G", "BL_B"})
    \cup Values("BoundaryLine", [getBool |-> {"BL_PAIRED"}, getOptString |-> {"BL_PAIRING_KEY"},
                                 setString |-> {"BL_PAIRING_KEY"}])
    \cup Numbers("Generation", {"GENERATION_TARGET_P", "GENERATION_MIN_P", "GENERATION_MAX_P",
                                "GENERATION_TARGET_Q", "GENERATION_TARGET_V"})
    \cup Values("Generation", [getBool |-> {"GENERATION_VOLTAGE_REGULATION_ON"},
                               setBool |-> {"GENERATION_VOLTAGE_REGULATION_ON"}])
    \cup Values("Boundary", [getDouble |-> {"BOUNDARY_V", "BOUNDARY_ANGLE", "BOUNDARY_P",
                                            "BOUNDARY_Q", "BOUNDARY_I"}])

----------------------------------------------------------------------------
\* Transformers

\* TwoWindingsTransformer.cpp and the same of ThreeWindingsTransformer.cpp.
TransformerActions(class) ==
    Links(class, "getRelated", "maybe", {<<"REL_SUBSTATION", "Substation">>})
    \cup Values(class, [invoke |-> {"ACT_APPLY_SOLVED_VALUES",
                                    "ACT_SET_RATIO_TAP_POSITION_TO_SOLVED_TAP_POSITION",
                                    "ACT_SET_PHASE_TAP_POSITION_TO_SOLVED_TAP_POSITION"}])

TwoWindingsTransformerValues ==
    Numbers("TwoWindingsTransformer",
            {"TWO_WT_R", "TWO_WT_X", "TWO_WT_G", "TWO_WT_B", "TWO_WT_RATED_U1",
             "TWO_WT_RATED_U2", "TWO_WT_RATED_S"})

ThreeWindingsTransformerLinks ==
    TransformerActions("ThreeWindingsTransformer")
    \cup Links("Leg", "getRelated", "one",
               OfType({"ThreeWindingsTransformer"}) \cup {<<"REL_TERMINAL", "Terminal">>})
    \cup Links("ThreeWindingsTransformer", "getChildren", "many", OfType({"Leg"}))
    \cup Links("ThreeWindingsTransformer", "getRelatedByIndex", "one",
               OfType({"Leg"}) \cup {<<"REL_TERMINAL", "Terminal">>})
    \cup Links("ThreeWindingsTransformer", "getRelatedByString", "one",
               {<<"REL_TERMINAL", "Terminal">>})

ThreeWindingsTransformerOverloads ==
    Values("ThreeWindingsTransformer", [evaluate1 |-> {"OVERLOADED"}])
    \cup OverloadChecks("ThreeWindingsTransformer")

ThreeWindingsTransformerValues ==
    Numbers("Leg", {"LEG_R", "LEG_X", "LEG_G", "LEG_B", "LEG_RATED_U", "LEG_RATED_S"})
    \cup Values("Leg", [getInt |-> {"LEG_SIDE"}])
    \cup Numbers("ThreeWindingsTransformer", {"THREE_WT_RATED_U0"})
    \cup Values("ThreeWindingsTransformer", [getBool |-> {"OVERLOADED"},
                                             getInt |-> {"OVERLOAD_DURATION"}])

----------------------------------------------------------------------------
EquipmentAccessors ==
    IdentifiableValues \cup IdentifiableLinks \cup PropertiesHolderValues
      \cup ConnectableAccessors \cup InjectionLinks \cup TerminalAccessors
      \cup TerminalValues \cup BusLinks \cup BusValues \cup SwitchLinks \cup SwitchValues
      \cup ComponentAccessors \cup GeneratorValues \cup TargetsFromSolved("Generator")
      \cup BatteryValues \cup TargetsFromSolved("Battery") \cup LoadLinks \cup LoadValues
      \cup LoadModelValues \cup BusbarSectionValues \cup ShuntCompensatorLinks
      \cup ShuntCompensatorValues \cup LinearModelValues \cup NonLinearModelAccessors
      \cup StaticVarCompensatorValues \cup HvdcConverterStationLinks
      \cup HvdcConverterStationValues \cup LccConverterStationValues \cup HvdcLineLinks
      \cup HvdcLineValues \cup BranchLinks \cup BranchOverloads \cup LineValues
      \cup TieLineLinks \cup TieLineValues \cup BoundaryLineLinks \cup BoundaryLineValues
      \cup TransformerActions("TwoWindingsTransformer") \cup TwoWindingsTransformerValues
      \cup ThreeWindingsTransformerLinks \cup ThreeWindingsTransformerOverloads
      \cup ThreeWindingsTransformerValues
============================================================================
