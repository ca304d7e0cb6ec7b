--------------------------- MODULE AdderWrappers ---------------------------
(***************************************************************************)
(* The C++ adders: the fields that each of them sends, the adders that it  *)
(* starts inside its own, and what its add() makes.  A definition has the  *)
(* adders of one header.  The class of an adder is named as its Java type. *)
(***************************************************************************)
EXTENDS Accessors

\* add() makes an object, or goes back to the adder that this one was started in.
Makes(adder, class) == Links(adder, "invoke", "one", {<<"ACT_ADD", class>>})

Returns(adder) == Values(adder, [invoke |-> {"ACT_ADD"}])

\* setProperty() of the adders that have one.
SetsProperties(adders) ==
    UNION {Values(a, [setKeyedString |-> {"PROPERTY"}]) : a \in adders}

----------------------------------------------------------------------------
\* What the adders of equipment share

AdderBases ==
    Values("IdentifiableAdder", [setString |-> {"ID", "NAME"},
                                 setBool |-> {"ENSURE_ID_UNICITY", "FICTITIOUS"}])
    \cup Values("ConnectableAdder", [setBool |-> {"EQUIVALENT"}])
    \cup Values("InjectionAdder",
                [setString |-> {"TERMINAL_BUS_BREAKER_BUS_ID",
                                "TERMINAL_BUS_BREAKER_CONNECTABLE_BUS_ID"},
                 setInt |-> {"TERMINAL_NODE"}])
    \cup Values("BranchAdder",
                [setString |-> {"BRANCH_VOLTAGE_LEVEL1", "BRANCH_VOLTAGE_LEVEL2", "BRANCH_BUS1",
                                "BRANCH_BUS2", "BRANCH_CONNECTABLE_BUS1",
                                "BRANCH_CONNECTABLE_BUS2"},
                 setInt |-> {"BRANCH_NODE1", "BRANCH_NODE2"}])

\* newVoltageRegulation() of the adders of what regulates voltage, with its two local targets.
RegulationInside(adder) ==
    Values(adder, [setDouble |-> {"LOCAL_TARGET_V", "LOCAL_TARGET_Q"}])
    \cup Adds(adder, {<<"VOLTAGE_REGULATION", "VoltageRegulationAdder">>})

VoltageRegulationFields(adder) ==
    Values(adder, [setDouble |-> {"VR_TARGET_VALUE", "VR_TARGET_DEADBAND", "VR_SLOPE"},
                   setRelated |-> {"REL_TERMINAL"}, setInt |-> {"VR_MODE"},
                   setBool |-> {"VR_REGULATING"}])

VoltageRegulationAdders ==
    VoltageRegulationFields("VoltageRegulationAdder") \cup Returns("VoltageRegulationAdder")
      \cup VoltageRegulationFields("VoltageRegulationBuilder")
      \cup Makes("VoltageRegulationBuilder", "VoltageRegulation")

----------------------------------------------------------------------------
\* Containers and topology

SubstationAdderFields ==
    Values("SubstationAdder", [setString |-> {"COUNTRY", "SUBSTATION_TSO"}])
    \cup Makes("SubstationAdder", "Substation")

VoltageLevelAdderFields ==
    Values("VoltageLevelAdder",
           [setDouble |-> {"VL_NOMINAL_V", "VL_LOW_VOLTAGE_LIMIT", "VL_HIGH_VOLTAGE_LIMIT"},
            setInt |-> {"VL_TOPOLOGY_KIND"}])
    \cup Makes("VoltageLevelAdder", "VoltageLevel")

BusAdderFields == Makes("BusAdder", "Bus")

BusbarSectionAdderFields ==
    Values("BusbarSectionAdder", [setInt |-> {"TERMINAL_NODE"}])
    \cup Makes("BusbarSectionAdder", "BusbarSection")

SwitchAdders ==
    Values("NodeBreakerSwitchAdder", [setInt |-> {"SW_NODE1", "SW_NODE2", "SW_KIND"},
                                      setBool |-> {"SW_OPEN", "SW_RETAINED"}])
    \cup Makes("NodeBreakerSwitchAdder", "Switch")
    \cup Values("BusBreakerSwitchAdder", [setString |-> {"SW_BUS1", "SW_BUS2"},
                                          setBool |-> {"SW_OPEN"}])
    \cup Makes("BusBreakerSwitchAdder", "Switch")
    \cup Values("InternalConnectionAdder", [setInt |-> {"IC_NODE1", "IC_NODE2"}])
    \cup Returns("InternalConnectionAdder")

\* The terminal, or the boundary, of a boundary of the new area is a field of a call in steps.
AreaAdders ==
    Values("AreaAdder", [setString |-> {"AREA_TYPE"}, setDouble |-> {"AREA_INTERCHANGE_TARGET"},
                         setRelated |-> {"ADD_VOLTAGE_LEVEL"}])
    \cup Makes("AreaAdder", "Area")

AreaBoundariesInside ==
    Does("AreaAdder", "AREA_BOUNDARY", {"REL_TERMINAL", "AREA_BOUNDARY_AC"})
    \cup Does("AreaAdder", "AREA_BOUNDARY", {"BOUNDARY", "AREA_BOUNDARY_AC"})

AreaBoundaryAdderFields ==
    Values("AreaBoundaryAdder", [setRelated |-> {"REL_TERMINAL", "BOUNDARY"},
                                 setBool |-> {"AREA_BOUNDARY_AC"}])
    \cup Makes("AreaBoundaryAdder", "Area")

----------------------------------------------------------------------------
\* Injections

GeneratorAdderFields ==
    Values("GeneratorAdder",
           [setInt |-> {"GEN_ENERGY_SOURCE"}, setBool |-> {"GEN_CONDENSER"},
            setDouble |-> {"GEN_MIN_P", "GEN_MAX_P", "GEN_TARGET_P", "GEN_RATED_S"}])
    \cup RegulationInside("GeneratorAdder") \cup Makes("GeneratorAdder", "Generator")

BatteryAdderFields ==
    Values("BatteryAdder", [setDouble |-> {"BAT_TARGET_P", "BAT_MIN_P", "BAT_MAX_P"}])
    \cup RegulationInside("BatteryAdder") \cup Makes("BatteryAdder", "Battery")

GroundAdderFields == Makes("GroundAdder", "Ground")

LoadAdders ==
    Values("LoadAdder", [setInt |-> {"LOAD_TYPE"}, setDouble |-> {"LOAD_P0", "LOAD_Q0"}])
    \cup Adds("LoadAdder", {<<"ZIP_LOAD_MODEL", "ZipLoadModelAdder">>,
                            <<"EXPONENTIAL_LOAD_MODEL", "ExponentialLoadModelAdder">>})
    \cup Makes("LoadAdder", "Load")
    \cup Values("ZipLoadModelAdder",
                [setDouble |-> {"ZIP_C0P", "ZIP_C1P", "ZIP_C2P", "ZIP_C0Q", "ZIP_C1Q", "ZIP_C2Q"}])
    \cup Values("ExponentialLoadModelAdder", [setDouble |-> {"EXP_NP", "EXP_NQ"}])
    \cup SetsProperties({"ZipLoadModelAdder", "ExponentialLoadModelAdder"})
    \cup Returns("ZipLoadModelAdder") \cup Returns("ExponentialLoadModelAdder")

ShuntCompensatorAdders ==
    Values("ShuntCompensatorAdder",
           [setInt |-> {"SHUNT_SECTION_COUNT", "SHUNT_SOLVED_SECTION_COUNT"}])
    \cup RegulationInside("ShuntCompensatorAdder")
    \cup Adds("ShuntCompensatorAdder",
              {<<"SHUNT_COMPENSATOR_LINEAR_MODEL", "ShuntCompensatorLinearModelAdder">>,
               <<"SHUNT_COMPENSATOR_NON_LINEAR_MODEL", "ShuntCompensatorNonLinearModelAdder">>})
    \cup Makes("ShuntCompensatorAdder", "ShuntCompensator")
    \cup Values("ShuntCompensatorLinearModelAdder",
                [setDouble |-> {"SHUNT_B_PER_SECTION", "SHUNT_G_PER_SECTION"},
                 setInt |-> {"SHUNT_MAX_SECTION_COUNT"}])
    \cup Returns("ShuntCompensatorLinearModelAdder")
    \cup Adds("ShuntCompensatorNonLinearModelAdder", {<<"SHUNT_SECTION", "SectionAdder">>})
    \cup Returns("ShuntCompensatorNonLinearModelAdder")
    \cup Values("SectionAdder", [setDouble |-> {"SHUNT_SECTION_B", "SHUNT_SECTION_G"}])
    \cup Returns("SectionAdder")

StaticVarCompensatorAdderFields ==
    Values("StaticVarCompensatorAdder", [setDouble |-> {"SVC_B_MIN", "SVC_B_MAX"}])
    \cup RegulationInside("StaticVarCompensatorAdder")
    \cup Makes("StaticVarCompensatorAdder", "StaticVarCompensator")

BoundaryLineAdders ==
    Values("BoundaryLineAdder",
           [setDouble |-> {"BL_P0", "BL_Q0", "BL_R", "BL_X", "BL_G", "BL_B"},
            setString |-> {"BL_PAIRING_KEY"}])
    \cup Adds("BoundaryLineAdder", {<<"BOUNDARY_LINE_GENERATION", "GenerationAdder">>})
    \cup Makes("BoundaryLineAdder", "BoundaryLine")
    \cup Values("GenerationAdder",
                [setDouble |-> {"GENERATION_TARGET_P", "GENERATION_MIN_P", "GENERATION_MAX_P",
                                "GENERATION_TARGET_Q", "GENERATION_TARGET_V"},
                 setBool |-> {"GENERATION_VOLTAGE_REGULATION_ON"}])
    \cup Returns("GenerationAdder")

----------------------------------------------------------------------------
\* HVDC, branches and transformers

VscConverterStationAdderFields ==
    Values("VscConverterStationAdder", [setDouble |-> {"CONVERTER_STATION_LOSS_FACTOR"}])
    \cup RegulationInside("VscConverterStationAdder")
    \cup Makes("VscConverterStationAdder", "VscConverterStation")

LccConverterStationAdderFields ==
    Values("LccConverterStationAdder",
           [setDouble |-> {"CONVERTER_STATION_LOSS_FACTOR", "LCC_POWER_FACTOR"}])
    \cup Makes("LccConverterStationAdder", "LccConverterStation")

HvdcLineAdderFields ==
    Values("HvdcLineAdder",
           [setDouble |-> {"HVDC_R", "HVDC_NOMINAL_V", "HVDC_ACTIVE_POWER_SETPOINT", "HVDC_MAX_P"},
            setInt |-> {"HVDC_CONVERTERS_MODE"},
            setString |-> {"HVDC_CONVERTER_STATION_ID1", "HVDC_CONVERTER_STATION_ID2"}])
    \cup Makes("HvdcLineAdder", "HvdcLine")

LineAdderFields ==
    Values("LineAdder",
           [setDouble |-> {"LINE_R", "LINE_X", "LINE_G1", "LINE_B1", "LINE_G2", "LINE_B2"},
            setRelated |-> {"FILL_FROM"}])
    \cup Makes("LineAdder", "Line")

TieLineAdderFields ==
    Values("TieLineAdder", [setString |-> {"BOUNDARY_LINE1_ID", "BOUNDARY_LINE2_ID"}])
    \cup Makes("TieLineAdder", "TieLine")

TwoWindingsTransformerAdderFields ==
    Values("TwoWindingsTransformerAdder",
           [setDouble |-> {"TWO_WT_R", "TWO_WT_X", "TWO_WT_G", "TWO_WT_B", "TWO_WT_RATED_U1",
                           "TWO_WT_RATED_U2", "TWO_WT_RATED_S"},
            setRelated |-> {"FILL_FROM"}])
    \cup Makes("TwoWindingsTransformerAdder", "TwoWindingsTransformer")

ThreeWindingsTransformerAdders ==
    Values("ThreeWindingsTransformerAdder", [setDouble |-> {"THREE_WT_RATED_U0"}])
    \cup Adds("ThreeWindingsTransformerAdder", {<<"THREE_WINDINGS_TRANSFORMER_LEG", "LegAdder">>})
    \cup Makes("ThreeWindingsTransformerAdder", "ThreeWindingsTransformer")
    \cup Values("LegAdder",
                [setDouble |-> {"LEG_R", "LEG_X", "LEG_G", "LEG_B", "LEG_RATED_U", "LEG_RATED_S"},
                 setString |-> {"TERMINAL_VOLTAGE_LEVEL_ID", "TERMINAL_BUS_BREAKER_BUS_ID",
                                "TERMINAL_BUS_BREAKER_CONNECTABLE_BUS_ID"},
                 setInt |-> {"TERMINAL_NODE", "LEG_SIDE"}])
    \cup Returns("LegAdder")

\* What the adders of both tap changers set.
TapChangerFields(adder, stepCode, stepAdder) ==
    Values(adder, [setInt |-> {"TC_LOW_TAP_POSITION", "TC_TAP_POSITION", "TC_SOLVED_TAP_POSITION"}])
    \cup SetsProperties({adder}) \cup Adds(adder, {<<stepCode, stepAdder>>})

RatioTapChangerAdderFields ==
    TapChangerFields("RatioTapChangerAdder", "RATIO_TAP_CHANGER_STEP", "RatioTapChangerStepAdder")
    \cup Adds("RatioTapChangerAdder", {<<"VOLTAGE_REGULATION", "VoltageRegulationAdder">>})
    \cup Makes("RatioTapChangerAdder", "RatioTapChanger")

PhaseTapChangerAdderFields ==
    TapChangerFields("PhaseTapChangerAdder", "PHASE_TAP_CHANGER_STEP", "PhaseTapChangerStepAdder")
    \cup Values("PhaseTapChangerAdder",
                [setInt |-> {"PTC_REGULATION_MODE"},
                 setBool |-> {"REGULATING", "TC_LOAD_TAP_CHANGING_CAPABILITIES"},
                 setDouble |-> {"PTC_REGULATION_VALUE", "PTC_TARGET_DEADBAND"},
                 setRelated |-> {"REL_REGULATION_TERMINAL"}])
    \cup Makes("PhaseTapChangerAdder", "PhaseTapChanger")

StepAdder(adder) ==
    Values(adder, [setDouble |-> {"STEP_RHO", "STEP_R", "STEP_X", "STEP_G", "STEP_B"}])
    \cup SetsProperties({adder}) \cup Returns(adder)

StepsReplacers ==
    StepAdder("RatioTapChangerStepAdder") \cup StepAdder("PhaseTapChangerStepAdder")
    \cup Values("PhaseTapChangerStepAdder", [setDouble |-> {"PTC_STEP_ALPHA"}])
    \cup Adds("RatioTapChangerStepsReplacer",
              {<<"RATIO_TAP_CHANGER_STEP", "RatioTapChangerStepAdder">>})
    \cup Adds("PhaseTapChangerStepsReplacer",
              {<<"PHASE_TAP_CHANGER_STEP", "PhaseTapChangerStepAdder">>})
    \cup Returns("RatioTapChangerStepsReplacer") \cup Returns("PhaseTapChangerStepsReplacer")

----------------------------------------------------------------------------
\* Limits and automation systems

LoadingLimitsAdderFields(adder, class) ==
    Values(adder, [setDouble |-> {"LL_PERMANENT_LIMIT"}, setString |-> {"LL_PERMANENT_LIMIT_NAME"},
                   setInt |-> {"LL_DETECTION_KIND"}])
    \cup SetsProperties({adder}) \cup Adds(adder, {<<"TEMPORARY_LIMIT", "TemporaryLimitAdder">>})
    \cup Makes(adder, class)

TemporaryLimitAdderFields ==
    Values("TemporaryLimitAdder",
           [setString |-> {"TL_NAME"}, setDouble |-> {"TL_VALUE"},
            setInt |-> {"TL_ACCEPTABLE_DURATION"},
            setBool |-> {"TL_FICTITIOUS", "ENSURE_ID_UNICITY"}])
    \cup SetsProperties({"TemporaryLimitAdder"}) \cup Returns("TemporaryLimitAdder")

VoltageAngleLimitAdderFields ==
    Values("VoltageAngleLimitAdder",
           [setString |-> {"VAL_ID"}, setRelated |-> {"REL_TERMINAL_FROM", "REL_TERMINAL_TO"},
            setDouble |-> {"VAL_LOW_LIMIT", "VAL_HIGH_LIMIT"}])
    \cup SetsProperties({"VoltageAngleLimitAdder"})
    \cup Makes("VoltageAngleLimitAdder", "VoltageAngleLimit")

MinMaxReactiveLimitsAdderFields ==
    Values("MinMaxReactiveLimitsAdder", [setDouble |-> {"RL_MIN_Q", "RL_MAX_Q"}])
    \cup Makes("MinMaxReactiveLimitsAdder", "MinMaxReactiveLimits")

ReactiveCapabilityCurveAdders ==
    SetsProperties({"ReactiveCapabilityCurveAdder", "PointAdder"})
    \cup Adds("ReactiveCapabilityCurveAdder", {<<"REACTIVE_CURVE_POINT", "PointAdder">>})
    \cup Makes("ReactiveCapabilityCurveAdder", "ReactiveCapabilityCurve")
    \cup Values("PointAdder", [setDouble |-> {"POINT_P", "POINT_MIN_Q", "POINT_MAX_Q"}])
    \cup Returns("PointAdder")

ReactiveCapabilityShapeAdderFields ==
    Does("ReactiveCapabilityShapeAdder", "REACTIVE_CAPABILITY_SHAPE_PLANE",
         {"PLANE_ALPHA", "PLANE_BETA", "PLANE_DELTA", "PLANE_GREATER_OR_EQUAL", "PLANE_GAMMA"})
    \cup SetsProperties({"ReactiveCapabilityShapeAdder"})
    \cup Makes("ReactiveCapabilityShapeAdder", "ReactiveCapabilityShape")

TrippingAdderFields(adder) ==
    Values(adder, [setString |-> {"TRIPPING_KEY", "TRIPPING_NAME", "TRIPPING_ELEMENT_ID"},
                   setDouble |-> {"TRIPPING_CURRENT_LIMIT"}, setBool |-> {"TRIPPING_OPEN_ACTION"}])
    \cup SetsProperties({adder}) \cup Returns(adder)

OverloadManagementSystemAdders ==
    Values("OverloadManagementSystemAdder",
           [setBool |-> {"AUTOMATION_SYSTEM_ENABLED"}, setString |-> {"OMS_MONITORED_ELEMENT_ID"},
            setInt |-> {"OMS_MONITORED_SIDE"}])
    \cup Adds("OverloadManagementSystemAdder",
              {<<"SWITCH_TRIPPING", "SwitchTrippingAdder">>,
               <<"BRANCH_TRIPPING", "BranchTrippingAdder">>,
               <<"THREE_WINDINGS_TRANSFORMER_TRIPPING", "ThreeWindingsTransformerTrippingAdder">>})
    \cup Makes("OverloadManagementSystemAdder", "OverloadManagementSystem")
    \cup TrippingAdderFields("SwitchTrippingAdder") \cup TrippingAdderFields("BranchTrippingAdder")
    \cup TrippingAdderFields("ThreeWindingsTransformerTrippingAdder")
    \cup Values("BranchTrippingAdder", [setInt |-> {"TRIPPING_SIDE"}])
    \cup Values("ThreeWindingsTransformerTrippingAdder", [setInt |-> {"TRIPPING_SIDE"}])

AdderAccessors ==
    AdderBases \cup VoltageRegulationAdders \cup SubstationAdderFields
      \cup VoltageLevelAdderFields \cup BusAdderFields \cup BusbarSectionAdderFields
      \cup SwitchAdders \cup AreaAdders \cup AreaBoundariesInside \cup AreaBoundaryAdderFields
      \cup GeneratorAdderFields \cup BatteryAdderFields \cup GroundAdderFields \cup LoadAdders
      \cup ShuntCompensatorAdders \cup StaticVarCompensatorAdderFields \cup BoundaryLineAdders
      \cup VscConverterStationAdderFields \cup LccConverterStationAdderFields
      \cup HvdcLineAdderFields \cup LineAdderFields \cup TieLineAdderFields
      \cup TwoWindingsTransformerAdderFields \cup ThreeWindingsTransformerAdders
      \cup RatioTapChangerAdderFields \cup PhaseTapChangerAdderFields \cup StepsReplacers
      \cup LoadingLimitsAdderFields("CurrentLimitsAdder", "CurrentLimits")
      \cup LoadingLimitsAdderFields("ActivePowerLimitsAdder", "ActivePowerLimits")
      \cup LoadingLimitsAdderFields("ApparentPowerLimitsAdder", "ApparentPowerLimits")
      \cup TemporaryLimitAdderFields \cup VoltageAngleLimitAdderFields
      \cup MinMaxReactiveLimitsAdderFields \cup ReactiveCapabilityCurveAdders
      \cup ReactiveCapabilityShapeAdderFields \cup OverloadManagementSystemAdders
============================================================================
