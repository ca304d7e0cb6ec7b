---------------------------- MODULE PartWrappers ----------------------------
(***************************************************************************)
(* The accessors of the C++ wrappers of what equipment is made of:         *)
(* regulations, reactive limits, tap changers and groups of limits, and of *)
(* areas, automation systems and variants.                                 *)
(***************************************************************************)
EXTENDS Accessors

----------------------------------------------------------------------------
\* Regulation and reactive limits

VoltageRegulationHolderAccessors ==
    Numbers("VoltageRegulationHolderMethods", {"LOCAL_TARGET_V", "LOCAL_TARGET_Q"})
    \cup Values("VoltageRegulationHolderMethods",
                [getDouble |-> {"REGULATING_TARGET_V", "REGULATING_TARGET_Q"},
                 clear |-> {"VOLTAGE_REGULATION"},
                 getBool |-> {"REGULATING", "HAS_REGULATING_TERMINAL"},
                 getIntList |-> {"REGULATING_MODES", "WITH_MODES"},
                 invoke |-> {"ACT_SET_TARGET_Q_TO_Q", "ACT_SET_TARGET_V_TO_V"}])
    \cup Links("VoltageRegulationHolderMethods", "getRelated", "maybe",
               {<<"VOLTAGE_REGULATION", "VoltageRegulation">>})
    \cup Links("VoltageRegulationHolderMethods", "getRelated", "one",
               {<<"REL_REGULATING_TERMINAL", "Terminal">>})
    \cup Adds("VoltageRegulationHolderMethods",
              {<<"VOLTAGE_REGULATION", "VoltageRegulationBuilder">>})

VoltageRegulationLinks ==
    Values("VoltageRegulation", [getInt |-> {"VR_MODE"}])
    \cup Links("VoltageRegulation", "getRelated", "maybe", {<<"REL_TERMINAL", "Terminal">>})
    \cup Does("VoltageRegulation", "REL_TERMINAL", {"REL_TERMINAL", "VR_TARGET_VALUE"})

VoltageRegulationValues ==
    Numbers("VoltageRegulation", {"VR_TARGET_VALUE", "VR_TARGET_DEADBAND", "VR_SLOPE"})
    \cup Values("VoltageRegulation",
                [setInt |-> {"VR_MODE"}, getBool |-> {"VR_REGULATING", "VR_WITH_TERMINAL"},
                 setBool |-> {"VR_REGULATING"}])

ReactiveLimitsHolderAccessors ==
    Links("ReactiveLimitsHolderMethods", "getRelated", "one", OfType({"ReactiveLimits"}))
    \cup Adds("ReactiveLimitsHolderMethods",
              {<<"MIN_MAX_REACTIVE_LIMITS", "MinMaxReactiveLimitsAdder">>,
               <<"REACTIVE_CAPABILITY_CURVE", "ReactiveCapabilityCurveAdder">>,
               <<"REACTIVE_CAPABILITY_SHAPE", "ReactiveCapabilityShapeAdder">>})
    \cup Copies("ReactiveLimitsHolderMethods",
                {<<"REACTIVE_CAPABILITY_CURVE", "ReactiveCapabilityCurveAdder">>})

ReactiveLimitsAccessors ==
    Values("ReactiveLimits", [evaluate1 |-> {"RL_MIN_Q", "RL_MAX_Q"}])
    \cup Links("ReactiveCapabilityCurve", "getChildren", "many", OfType({"Point"}))
    \cup Values("ReactiveCapabilityCurve", [evaluate2 |-> {"RL_MIN_Q", "RL_MAX_Q"}])
    \cup Values("ReactiveCapabilityShape", [evaluate2 |-> {"RL_MIN_Q", "RL_MAX_Q"},
                                            evaluate3 |-> {"SHAPE_IS_INSIDE"}])
    \cup Links("ReactiveCapabilityShape", "getChildren", "many", OfType({"Plane"}))

ReactiveLimitsKind == Values("ReactiveLimits", [getInt |-> {"RL_KIND"}])

MinMaxReactiveLimitsValues ==
    Values("MinMaxReactiveLimits", [getDouble |-> {"RL_MIN_Q", "RL_MAX_Q"}])

ReactiveCapabilityCurveValues ==
    Values("Point", [getDouble |-> {"POINT_P", "POINT_MIN_Q", "POINT_MAX_Q"}])
    \cup Values("ReactiveCapabilityCurve", [getInt |-> {"CURVE_POINT_COUNT"},
                                            getDouble |-> {"CURVE_MIN_P", "CURVE_MAX_P"}])

\* A bound is set as a number, and asked as a flag.
PlaneValues ==
    Values("Plane", [getDouble |-> {"PLANE_ALPHA", "PLANE_BETA", "PLANE_GAMMA", "PLANE_DELTA"},
                     getBool |-> {"PLANE_LESS_OR_EQUAL", "PLANE_GREATER_OR_EQUAL"},
                     setDouble |-> {"PLANE_LESS_OR_EQUAL", "PLANE_GREATER_OR_EQUAL"}])

----------------------------------------------------------------------------
\* Tap changers

TapChangerHolderAccessors ==
    Links("TapChangerHolderMethods", "getRelated", "maybe",
          OfType({"RatioTapChanger", "PhaseTapChanger"}))
    \cup Adds("TapChangerHolderMethods", {<<"RATIO_TAP_CHANGER", "RatioTapChangerAdder">>,
                                          <<"PHASE_TAP_CHANGER", "PhaseTapChangerAdder">>})
    \cup Copies("TapChangerHolderMethods", {<<"RATIO_TAP_CHANGER", "RatioTapChangerAdder">>,
                                            <<"PHASE_TAP_CHANGER", "PhaseTapChangerAdder">>})

\* TapChangerMethods<Self, Step, Replacer>: both tap changers instantiate it.
TapChangerAccessors(class, step, replacer) ==
    Values(class,
           [getInt |-> {"TC_LOW_TAP_POSITION", "TC_HIGH_TAP_POSITION", "TC_STEP_COUNT",
                        "TC_TAP_POSITION"},
            setInt |-> {"TC_LOW_TAP_POSITION", "TC_TAP_POSITION", "TC_SOLVED_TAP_POSITION"},
            getOptInt |-> {"TC_TAP_POSITION", "TC_SOLVED_TAP_POSITION", "TC_NEUTRAL_POSITION"},
            invoke |-> {"ACT_UNSET_TAP_POSITION", "ACT_UNSET_SOLVED_TAP_POSITION",
                        "ACT_APPLY_SOLVED_VALUES", "ACT_SET_TAP_POSITION_TO_SOLVED_TAP_POSITION",
                        "ACT_REMOVE"},
            getBool |-> {"REGULATING", "TC_LOAD_TAP_CHANGING_CAPABILITIES"},
            setBool |-> {"TC_LOAD_TAP_CHANGING_CAPABILITIES"}])
    \cup Links(class, "getRelatedByIndex", "one", OfType({step}))
    \cup Links(class, "getChildren", "many", OfType({step}))
    \cup Links(class, "getRelated", "maybe",
               {<<"REL_CURRENT_STEP", step>>, <<"REL_SOLVED_CURRENT_STEP", step>>,
                <<"REL_NEUTRAL_STEP", step>>})
    \cup Adds(class, {<<"TC_STEPS_REPLACER", replacer>>})

PhaseTapChangerLinks ==
    Links("PhaseTapChanger", "getRelated", "maybe", {<<"REL_REGULATION_TERMINAL", "Terminal">>})
    \cup Values("PhaseTapChanger", [setRelated |-> {"REL_REGULATION_TERMINAL"}])

PhaseTapChangerValues ==
    Numbers("PhaseTapChanger", {"PTC_REGULATION_VALUE", "PTC_TARGET_DEADBAND"})
    \cup Values("PhaseTapChanger", [setBool |-> {"REGULATING"}, getInt |-> {"PTC_REGULATION_MODE"},
                                    setInt |-> {"PTC_REGULATION_MODE"}])

StepValues(class) == Numbers(class, {"STEP_RHO", "STEP_R", "STEP_X", "STEP_G", "STEP_B"})

PhaseTapChangerStepValues == Numbers("PhaseTapChangerStep", {"PTC_STEP_ALPHA"})

----------------------------------------------------------------------------
\* Limits

\* One class of limits without its base.
LimitTypesWithoutBase == {"CurrentLimits", "ActivePowerLimits"}

\* The classes of LoadingLimits.
LimitTypes == {"CurrentLimits", "ActivePowerLimits", "ApparentPowerLimits"}

LimitsAdders == {<<"CURRENT_LIMITS", "CurrentLimitsAdder">>,
                 <<"ACTIVE_POWER_LIMITS", "ActivePowerLimitsAdder">>,
                 <<"APPARENT_POWER_LIMITS", "ApparentPowerLimitsAdder">>}

\* Limits by a type of the caller's are held as LoadingLimits.
LimitsHolderAccessors ==
    Links("FlowsLimitsHolderMethods", "getChildren", "many",
          OfType({"OperationalLimitsGroup"} \cup LimitTypes)
            \cup {<<"REL_SELECTED_OLG", "OperationalLimitsGroup">>}
            \cup {<<code, "LoadingLimits">> : code \in TypeCodes(LimitTypes)})
    \cup Links("FlowsLimitsHolderMethods", "getRelatedByString", "maybe",
               OfType({"OperationalLimitsGroup"} \cup LimitTypes))
    \cup Links("FlowsLimitsHolderMethods", "getRelated", "maybe",
               OfType(LimitTypes) \cup {<<"REL_SELECTED_OLG", "OperationalLimitsGroup">>})
    \cup Links("FlowsLimitsHolderMethods", "getRelatedByIndex", "maybe", OfType({"LoadingLimits"}))
    \cup Steps("FlowsLimitsHolderMethods", "OPERATIONAL_LIMITS_GROUP", {"OLG_ID"}, "one",
               "OperationalLimitsGroup")
    \cup (UNION {Steps("FlowsLimitsHolderMethods", "REL_SELECTED_OLG", fields, "one",
                       "OperationalLimitsGroup") : fields \in {{}, {"OLG_ID"}}})
    \cup Values("FlowsLimitsHolderMethods",
                [setString |-> {"REMOVE_OLG", "SELECTED_OLG_ID", "ADD_SELECTED_OLG",
                                "DESELECT_OLG"},
                 getOptString |-> {"SELECTED_OLG_ID"}, clear |-> {"REL_SELECTED_OLG"},
                 getStringList |-> {"ALL_SELECTED_OLG_IDS", "ALL_SELECTED_OLG_IDS_ORDERED"}])

OperationalLimitsGroupAccessors ==
    Links("OperationalLimitsGroup", "getRelated", "maybe", OfType(LimitTypes))
    \cup Links("OperationalLimitsGroup", "getRelatedByIndex", "maybe", OfType({"LoadingLimits"}))
    \cup Adds("OperationalLimitsGroup", LimitsAdders)
    \cup Copies("OperationalLimitsGroup", LimitsAdders)
    \cup Values("OperationalLimitsGroup", [clear |-> TypeCodes(LimitTypes)])

OperationalLimitsGroupValues ==
    Values("OperationalLimitsGroup", [getString |-> {"OLG_ID"}, getBool |-> {"OLG_EMPTY"}])

LoadingLimitsAccessors ==
    Links("LoadingLimits", "getChildren", "many", OfType({"TemporaryLimit"}))
    \cup Links("LoadingLimits", "getRelatedByIndex", "maybe", OfType({"TemporaryLimit"}))
    \cup Values("LoadingLimits", [evaluate1 |-> {"LL_TEMPORARY_LIMIT_VALUE"},
                                  invoke |-> {"ACT_REMOVE"}])
    \cup Does("LoadingLimits", "LL_TEMPORARY_LIMIT_VALUE", {"TL_ACCEPTABLE_DURATION", "TL_VALUE"})

LoadingLimitsValues ==
    Numbers("LoadingLimits", {"LL_PERMANENT_LIMIT"})
    \cup Values("LoadingLimits", [getInt |-> {"LL_LIMIT_TYPE", "LL_DETECTION_KIND"},
                                  getString |-> {"LL_PERMANENT_LIMIT_NAME"},
                                  setString |-> {"LL_PERMANENT_LIMIT_NAME"}])

TemporaryLimitValues ==
    Values("TemporaryLimit",
           [getString |-> {"TL_NAME"}, getDouble |-> {"TL_VALUE"},
            getInt |-> {"TL_ACCEPTABLE_DURATION"}, getBool |-> {"TL_FICTITIOUS"}])

OverloadLinks == Links("Overload", "getRelated", "one", OfType({"TemporaryLimit"}))

OverloadValues ==
    Values("Overload", [getDouble |-> {"OVERLOAD_PREVIOUS_LIMIT", "OVERLOAD_LIMIT_SCALING"},
                        getString |-> {"OVERLOAD_PREVIOUS_LIMIT_NAME", "OVERLOAD_OLG_ID"}])

VoltageAngleLimitLinks ==
    Links("VoltageAngleLimit", "getRelated", "one",
          {<<"REL_TERMINAL_FROM", "Terminal">>, <<"REL_TERMINAL_TO", "Terminal">>})
    \cup Values("VoltageAngleLimit", [invoke |-> {"ACT_REMOVE"}])

VoltageAngleLimitValues ==
    Values("VoltageAngleLimit", [getString |-> {"VAL_ID"}, getInt |-> {"LL_LIMIT_TYPE"},
                                 getDouble |-> {"VAL_LOW_LIMIT", "VAL_HIGH_LIMIT"}])

----------------------------------------------------------------------------
\* Areas, automation systems, variants

AreaAccessors ==
    Links("AreaBoundary", "getRelated", "one", OfType({"Area"}))
    \cup Links("AreaBoundary", "getRelated", "maybe",
               OfType({"Boundary"}) \cup {<<"REL_TERMINAL", "Terminal">>})
    \cup Links("Area", "getChildren", "many", OfType({"VoltageLevel", "AreaBoundary"}))
    \cup Adds("Area", {<<"AREA_BOUNDARY", "AreaBoundaryAdder">>})
    \cup Values("Area", [setRelated |-> {"ADD_VOLTAGE_LEVEL", "REMOVE_VOLTAGE_LEVEL",
                                         "REMOVE_AREA_BOUNDARY"},
                         invoke |-> {"ACT_REMOVE"}])

AreaValues ==
    Numbers("Area", {"AREA_INTERCHANGE_TARGET"})
    \cup Values("Area", [getString |-> {"AREA_TYPE"},
                         getDouble |-> {"AREA_AC_INTERCHANGE", "AREA_DC_INTERCHANGE",
                                        "AREA_INTERCHANGE"}])
    \cup Values("AreaBoundary", [getBool |-> {"AREA_BOUNDARY_AC"},
                                 getDouble |-> {"AREA_BOUNDARY_P", "AREA_BOUNDARY_Q"}])

AutomationSystemLinks ==
    Links("OverloadManagementSystem", "getRelated", "one", {<<"REL_SUBSTATION", "Substation">>})
    \cup Links("OverloadManagementSystem", "getChildren", "many", OfType({"Tripping"}))
    \cup Values("OverloadManagementSystem", [setRelated |-> {"ADD_TRIPPING"},
                                             invoke |-> {"ACT_REMOVE"}])
    \cup Values("ThreeWindingsTransformerTripping",
                [setString |-> {"TRIPPING_ELEMENT_ID"}, setInt |-> {"TRIPPING_SIDE"}])

AutomationSystemValues ==
    Numbers("Tripping", {"TRIPPING_CURRENT_LIMIT"})
    \cup Values("Tripping",
                [getInt |-> {"TRIPPING_TYPE"}, getString |-> {"TRIPPING_KEY", "TRIPPING_NAME"},
                 setString |-> {"TRIPPING_NAME"}, getBool |-> {"TRIPPING_OPEN_ACTION"},
                 setBool |-> {"TRIPPING_OPEN_ACTION"}])
    \cup Values("SwitchTripping", [getString |-> {"TRIPPING_ELEMENT_ID"},
                                   setString |-> {"TRIPPING_ELEMENT_ID"}])
    \cup Values("BranchTripping",
                [getString |-> {"TRIPPING_ELEMENT_ID"}, setString |-> {"TRIPPING_ELEMENT_ID"},
                 getInt |-> {"TRIPPING_SIDE"}, setInt |-> {"TRIPPING_SIDE"}])
    \cup Values("ThreeWindingsTransformerTripping",
                [getString |-> {"TRIPPING_ELEMENT_ID"}, getInt |-> {"TRIPPING_SIDE"}])
    \cup Values("OverloadManagementSystem",
                [getBool |-> {"AUTOMATION_SYSTEM_ENABLED"},
                 setBool |-> {"AUTOMATION_SYSTEM_ENABLED"},
                 getString |-> {"OMS_MONITORED_ELEMENT_ID"}, getInt |-> {"OMS_MONITORED_SIDE"}])

\* A variant is cloned to one name after the other in one call, whose field is set again.
VariantAccessors ==
    Values("VariantManager", [getStringList |-> {"VARIANT_IDS"}, setString |-> {"REMOVE_VARIANT"}])
    \cup Does("VariantManager", "VARIANT_CLONE",
              {"VARIANT_SOURCE_ID", "VARIANT_TARGET_ID", "VARIANT_MAY_OVERWRITE"})

VariantValues ==
    Values("VariantManager", [getString |-> {"WORKING_VARIANT_ID"},
                              setString |-> {"WORKING_VARIANT_ID"},
                              getBool |-> {"VARIANT_MULTI_THREAD_ACCESS"},
                              setBool |-> {"VARIANT_MULTI_THREAD_ACCESS"}])

InternalConnectionValues == Values("InternalConnection", [getInt |-> {"IC_NODE1", "IC_NODE2"}])

\* elementsOf(): what a list holds, its handle dropped.
ListElements ==
    Links("BusList", "getChildren", "many", {<<"ELEMENTS", "Bus">>})
    \cup Links("SwitchList", "getChildren", "many", {<<"ELEMENTS", "Switch">>})
    \cup Links("OverloadList", "getChildren", "many", {<<"ELEMENTS", "Overload">>})
    \cup Values("NodeList", [getIntList |-> {"ELEMENTS"}])

PartAccessors ==
    VoltageRegulationHolderAccessors \cup VoltageRegulationLinks \cup VoltageRegulationValues
      \cup ReactiveLimitsHolderAccessors \cup ReactiveLimitsAccessors \cup ReactiveLimitsKind
      \cup MinMaxReactiveLimitsValues \cup ReactiveCapabilityCurveValues \cup PlaneValues
      \cup TapChangerHolderAccessors
      \cup TapChangerAccessors("RatioTapChanger", "RatioTapChangerStep",
                               "RatioTapChangerStepsReplacer")
      \cup TapChangerAccessors("PhaseTapChanger", "PhaseTapChangerStep",
                               "PhaseTapChangerStepsReplacer")
      \cup PhaseTapChangerLinks \cup PhaseTapChangerValues \cup StepValues("RatioTapChangerStep")
      \cup StepValues("PhaseTapChangerStep") \cup PhaseTapChangerStepValues
      \cup LimitsHolderAccessors \cup OperationalLimitsGroupAccessors
      \cup OperationalLimitsGroupValues \cup LoadingLimitsAccessors \cup LoadingLimitsValues
      \cup TemporaryLimitValues \cup OverloadLinks \cup OverloadValues
      \cup VoltageAngleLimitLinks \cup VoltageAngleLimitValues \cup AreaAccessors \cup AreaValues
      \cup AutomationSystemLinks \cup AutomationSystemValues \cup VariantAccessors
      \cup VariantValues \cup InternalConnectionValues \cup ListElements
============================================================================
