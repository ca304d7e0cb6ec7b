-------------------------- MODULE NetworkWrappers --------------------------
(***************************************************************************)
(* The accessors of the C++ wrappers of containers: Network.cpp,           *)
(* VoltageLevel.cpp and Substation.cpp with their headers.                 *)
(***************************************************************************)
EXTENDS Accessors

\* The classes of the elements of a network that a network counts.
Counted ==
    {"Connectable", "Branch", "HvdcConverterStation", "Substation", "VoltageLevel", "Battery",
     "Generator", "Load", "Line", "TwoWindingsTransformer", "ThreeWindingsTransformer",
     "HvdcLine", "ShuntCompensator", "StaticVarCompensator", "BoundaryLine", "TieLine",
     "Ground", "Area", "OverloadManagementSystem", "VscConverterStation",
     "LccConverterStation", "Switch", "BusbarSection"}

\* The equipment of a voltage level, a bus or a network.
FeederEquipment ==
    {"Generator", "Load", "Battery", "ShuntCompensator", "StaticVarCompensator",
     "BoundaryLine", "LccConverterStation", "VscConverterStation", "Line",
     "TwoWindingsTransformer", "ThreeWindingsTransformer"}

----------------------------------------------------------------------------
\* Network

NetworkAdders ==
    Adds("Network", {<<"SUBSTATION", "SubstationAdder">>, <<"VOLTAGE_LEVEL", "VoltageLevelAdder">>,
                     <<"LINE", "LineAdder">>, <<"HVDC_LINE", "HvdcLineAdder">>,
                     <<"TIE_LINE", "TieLineAdder">>, <<"AREA", "AreaAdder">>,
                     <<"VOLTAGE_ANGLE_LIMIT", "VoltageAngleLimitAdder">>})
    \cup Copies("Network", {<<"LINE", "LineAdder">>})

Subnetworks ==
    Links("Network", "getChildren", "many",
          {<<"NETWORK", "Network">>, <<"BOUNDARY_ELEMENT", "Identifiable">>})
    \cup Links("Network", "getRelatedByString", "maybe", {<<"NETWORK", "Network">>})
    \cup Links("Network", "invoke", "one", {<<"ACT_DETACH", "Network">>})
    \cup Values("Network", [invoke |-> {"ACT_FLATTEN"}])
    \cup Steps("Network", "NETWORK", {"ID", "NAME", "NETWORK_SOURCE_FORMAT"}, "one", "Network")
    \cup Does("Network", "BOUNDARY_ELEMENT", {"IDENTIFIABLE"})

\* all<T>()
NetworkLists ==
    Links("Network", "getChildren", "many",
          OfType(Counted \cup {"Identifiable", "VoltageAngleLimit"}))
    \cup Values("Network", [getStringList |-> {"AREA_TYPE"}])

\* find<T>()
NetworkLookups ==
    Links("Network", "getRelatedByString", "maybe",
          OfType(Counted \cup {"Identifiable", "VoltageAngleLimit"}))

NetworkViews ==
    Views("Network", {"Network.BusBreakerView", "Network.BusView"})
    \cup Links("Network", "getRelated", "one", {<<"VARIANT_MANAGER", "VariantManager">>})
    \cup Values("Network", [evaluate1 |-> {"NETWORK_VALIDATION_LEVEL"},
                            getStringList |-> {"NETWORK_COUNTRIES"}])

NetworkCounts == Counts("Network", TypeCodes(Counted))

NetworkBusViews ==
    Links("Network.BusBreakerView", "getChildren", "many",
          {<<"BUS", "Bus">>, <<"REL_BBV_SWITCH", "Switch">>})
    \cup Counts("Network.BusBreakerView", {"BUS", "REL_BBV_SWITCH"})
    \cup Links("Network.BusBreakerView", "getRelatedByString", "maybe",
               {<<"REL_BBV_BUS", "Bus">>})
    \cup Links("Network.BusView", "getChildren", "many",
               {<<"REL_BV_BUS", "Bus">>, <<"REL_CONNECTED_COMPONENT", "Component">>,
                <<"REL_SYNCHRONOUS_COMPONENT", "Component">>})
    \cup Links("Network.BusView", "getRelatedByString", "maybe", {<<"REL_BV_BUS", "Bus">>})

NetworkValues ==
    Values("Network",
           [getString |-> {"NETWORK_CASE_DATE", "NETWORK_SOURCE_FORMAT"},
            setString |-> {"NETWORK_CASE_DATE"},
            getInt |-> {"NETWORK_FORECAST_DISTANCE", "NETWORK_VALIDATION_LEVEL"},
            setInt |-> {"NETWORK_FORECAST_DISTANCE", "NETWORK_MIN_VALIDATION_LEVEL"},
            getBool |-> {"NETWORK_DETACHABLE"}])

----------------------------------------------------------------------------
\* VoltageLevel

NodeBreakerView ==
    Values("VoltageLevel.NodeBreakerView",
           [getIntList |-> {"VL_NBV_NODES"}, getInt |-> {"VL_NBV_MAXIMUM_NODE_INDEX"},
            evaluate1 |-> {"VL_NBV_ATTACHED_EQUIPMENT", "FICTITIOUS_P0", "FICTITIOUS_Q0"},
            setString |-> {"VL_NBV_REMOVE_SWITCH"}])
    \cup Links("VoltageLevel.NodeBreakerView", "getRelatedByIndex", "maybe",
               {<<"REL_NBV_TERMINAL_AT_NODE", "Terminal">>})
    \cup Links("VoltageLevel.NodeBreakerView", "getRelatedByIndex", "one",
               {<<"REL_NBV_SWITCH", "SwitchList">>, <<"INTERNAL_CONNECTION", "NodeList">>})
    \cup Does("VoltageLevel.NodeBreakerView", "FICTITIOUS_P0", {"TERMINAL_NODE", "FICTITIOUS_P0"})
    \cup Does("VoltageLevel.NodeBreakerView", "FICTITIOUS_Q0", {"TERMINAL_NODE", "FICTITIOUS_Q0"})
    \cup Does("VoltageLevel.NodeBreakerView", "VL_NBV_REMOVE_INTERNAL_CONNECTIONS",
              {"IC_NODE1", "IC_NODE2"})
    \cup Links("VoltageLevel.NodeBreakerView", "getChildren", "many",
               {<<"REL_NBV_SWITCH", "Switch">>, <<"BUSBAR_SECTION", "BusbarSection">>,
                <<"INTERNAL_CONNECTION", "InternalConnection">>})
    \cup Counts("VoltageLevel.NodeBreakerView",
                {"REL_NBV_SWITCH", "BUSBAR_SECTION", "INTERNAL_CONNECTION"})
    \cup Links("VoltageLevel.NodeBreakerView", "getRelatedByString", "maybe",
               {<<"REL_NBV_SWITCH", "Switch">>, <<"BUSBAR_SECTION", "BusbarSection">>})
    \cup Adds("VoltageLevel.NodeBreakerView",
              {<<"BUSBAR_SECTION", "BusbarSectionAdder">>,
               <<"REL_NBV_SWITCH", "NodeBreakerSwitchAdder">>,
               <<"INTERNAL_CONNECTION", "InternalConnectionAdder">>})

\* removeBus() removes the bus that getBus() finds.
BusBreakerView ==
    Links("VoltageLevel.BusBreakerView", "getChildren", "many",
          {<<"BUS", "Bus">>, <<"REL_BBV_SWITCH", "Switch">>})
    \cup Counts("VoltageLevel.BusBreakerView", {"BUS", "REL_BBV_SWITCH"})
    \cup Links("VoltageLevel.BusBreakerView", "getRelatedByString", "maybe",
               {<<"REL_BBV_BUS", "Bus">>, <<"REL_BBV_SWITCH", "Switch">>})
    \cup Links("VoltageLevel.BusBreakerView", "getRelatedByString", "one",
               {<<"REL_BBV_BUSES_OF_BV_BUS", "BusList">>, <<"REL_VL_BBV_BUS1", "Bus">>,
                <<"REL_VL_BBV_BUS2", "Bus">>})
    \cup Adds("VoltageLevel.BusBreakerView",
              {<<"REL_BBV_SWITCH", "BusBreakerSwitchAdder">>, <<"BUS", "BusAdder">>})
    \cup Values("VoltageLevel.BusBreakerView",
                [invoke |-> {"ACT_REMOVE_ALL_BUSES", "ACT_REMOVE_ALL_SWITCHES"},
                 setString |-> {"VL_BBV_REMOVE_SWITCH"}])

BusView ==
    Links("VoltageLevel.BusView", "getChildren", "many", {<<"REL_BV_BUS", "Bus">>})
    \cup Links("VoltageLevel.BusView", "getRelatedByString", "maybe",
               {<<"REL_BV_BUS", "Bus">>, <<"REL_MERGED_BUS", "Bus">>})

VoltageLevelElements ==
    Links("VoltageLevel", "getRelated", "maybe", {<<"REL_SUBSTATION", "Substation">>})
    \cup Values("VoltageLevel", [setInt |-> {"VL_TOPOLOGY_KIND"},
                                 getString |-> {"VL_TOPOLOGY_TEXT"}])
    \cup Links("VoltageLevel", "getChildren", "many",
               OfType(FeederEquipment \cup {"Connectable", "Ground", "Switch", "BusbarSection"}))
    \cup Links("VoltageLevel", "getRelatedByString", "maybe", OfType({"Connectable"}))

VoltageLevelCounts ==
    Counts("VoltageLevel", TypeCodes(FeederEquipment \cup {"Connectable", "Ground", "Switch"}))

VoltageLevelAreas ==
    Views("VoltageLevel", {"VoltageLevel.NodeBreakerView", "VoltageLevel.BusBreakerView",
                           "VoltageLevel.BusView"})
    \cup Links("VoltageLevel", "getChildren", "many", OfType({"Area"}))
    \cup Links("VoltageLevel", "getRelatedByString", "maybe", OfType({"Area"}))
    \cup Values("VoltageLevel", [setRelated |-> {"ADD_AREA", "REMOVE_AREA"}])

VoltageLevelAdders ==
    Adds("VoltageLevel",
         {<<"GENERATOR", "GeneratorAdder">>, <<"LOAD", "LoadAdder">>, <<"GROUND", "GroundAdder">>,
          <<"BATTERY", "BatteryAdder">>, <<"SHUNT_COMPENSATOR", "ShuntCompensatorAdder">>,
          <<"STATIC_VAR_COMPENSATOR", "StaticVarCompensatorAdder">>,
          <<"VSC_CONVERTER_STATION", "VscConverterStationAdder">>,
          <<"LCC_CONVERTER_STATION", "LccConverterStationAdder">>,
          <<"BOUNDARY_LINE", "BoundaryLineAdder">>})
    \cup Values("VoltageLevel", [invoke |-> {"ACT_REMOVE"}])

VoltageLevelValues ==
    Values("VoltageLevel",
           [getDouble |-> {"VL_NOMINAL_V", "VL_LOW_VOLTAGE_LIMIT", "VL_HIGH_VOLTAGE_LIMIT"},
            setDouble |-> {"VL_NOMINAL_V", "VL_LOW_VOLTAGE_LIMIT", "VL_HIGH_VOLTAGE_LIMIT"},
            getInt |-> {"VL_TOPOLOGY_KIND"}])

----------------------------------------------------------------------------
\* Substation

SubstationElements ==
    Values("Substation", [getOptString |-> {"COUNTRY"}, setString |-> {"COUNTRY"},
                          getStringList |-> {"SUBSTATION_GEOGRAPHICAL_TAGS"},
                          invoke |-> {"ACT_REMOVE"}])
    \cup Links("Substation", "getChildren", "many",
               OfType({"VoltageLevel", "TwoWindingsTransformer", "ThreeWindingsTransformer",
                       "OverloadManagementSystem"}))
    \cup Counts("Substation",
                TypeCodes({"TwoWindingsTransformer", "ThreeWindingsTransformer",
                           "OverloadManagementSystem"}))
    \cup Adds("Substation",
              {<<"VOLTAGE_LEVEL", "VoltageLevelAdder">>,
               <<"TWO_WINDINGS_TRANSFORMER", "TwoWindingsTransformerAdder">>,
               <<"THREE_WINDINGS_TRANSFORMER", "ThreeWindingsTransformerAdder">>,
               <<"OVERLOAD_MANAGEMENT_SYSTEM", "OverloadManagementSystemAdder">>})
    \cup Copies("Substation", {<<"TWO_WINDINGS_TRANSFORMER", "TwoWindingsTransformerAdder">>})

SubstationValues ==
    Values("Substation", [getOptString |-> {"SUBSTATION_TSO"},
                          setString |-> {"SUBSTATION_TSO", "ADD_GEOGRAPHICAL_TAG"}])

ContainerValues == Values("ContainerMethods", [getInt |-> {"CONTAINER_TYPE"}])

ContainerAccessors ==
    NetworkAdders \cup Subnetworks \cup NetworkLists \cup NetworkLookups \cup NetworkViews
      \cup NetworkCounts \cup NetworkBusViews \cup NetworkValues \cup NodeBreakerView
      \cup BusBreakerView \cup BusView \cup VoltageLevelElements \cup VoltageLevelCounts
      \cup VoltageLevelAreas \cup VoltageLevelAdders \cup VoltageLevelValues
      \cup SubstationElements \cup SubstationValues \cup ContainerValues
============================================================================
