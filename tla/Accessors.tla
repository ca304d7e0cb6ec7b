----------------------------- MODULE Accessors -----------------------------
(***************************************************************************)
(* The forms of the accessors of the C++ wrappers.  An accessor is one call *)
(* on the handle of its wrapper, by property code, and a way to take its   *)
(* answer.  The classes are named as in C++, views by their host.          *)
(***************************************************************************)

\* How an answer is taken.
\*   "value": it is a value, or there is none.
\*   "one":   a wrapper of class "gives" is made of the handle, whatever it is.
\*   "maybe": INVALID_HANDLE is no wrapper (wrapOptional), any other handle is one.
\*   "many":  a wrapper of each handle of a list (wrapAll).
\*   "view":  no call: another class is given the same handle.
Accessor(class, op, code, how, gives) ==
    [class |-> class, op |-> op, code |-> code, how |-> how, gives |-> gives, fields |-> {}]

\* The accessors of values of a class: a record from the functions of the backend that they
\* call to the codes they pass.
Values(class, calls) ==
    UNION {{Accessor(class, op, code, "value", "nothing") : code \in calls[op]} :
             op \in DOMAIN calls}

\* Numbers that are read and written.  One that is NaN is read as none by getOptDouble().
Numbers(class, codes) == Values(class, [getDouble |-> codes, setDouble |-> codes])

\* The accessors that make wrappers: pairs of a code and the class that its answer is given to.
Links(class, op, how, links) ==
    {Accessor(class, op, link[1], how, link[2]) : link \in links}

\* countOf().
Counts(class, codes) == Values(class, [countChildren |-> codes])

\* What starts adders: the class of the adder of each code.
Adds(class, adders) == Links(class, "invoke", "one", adders)

\* copyAdder(): an adder as by Adds, which is then given the copied object.
Copies(class, adders) == Links(class, "copy", "one", adders)

Views(class, classes) == {Accessor(class, "view", "", "view", c) : c \in classes}

\* A call in steps: it is started by a code, given its fields, then made.
Steps(class, code, fields, how, gives) ==
    {[Accessor(class, "steps", code, how, gives) EXCEPT !.fields = fields]}

\* Nothing is made of the answer of these steps.
Does(class, code, fields) == Steps(class, code, fields, "value", "nothing")

----------------------------------------------------------------------------
\* T::TYPE, the type code of a class: ObjectRef::is() and as() ask instanceof by it.
TypeCode ==
    [Identifiable |-> "IDENTIFIABLE", Connectable |-> "CONNECTABLE", Injection |-> "INJECTION",
     Branch |-> "BRANCH", HvdcConverterStation |-> "HVDC_CONVERTER_STATION",
     Substation |-> "SUBSTATION", VoltageLevel |-> "VOLTAGE_LEVEL", Generator |-> "GENERATOR",
     Load |-> "LOAD", LoadModel |-> "LOAD_MODEL", ZipLoadModel |-> "ZIP_LOAD_MODEL",
     ExponentialLoadModel |-> "EXPONENTIAL_LOAD_MODEL", Line |-> "LINE",
     TwoWindingsTransformer |-> "TWO_WINDINGS_TRANSFORMER",
     ThreeWindingsTransformer |-> "THREE_WINDINGS_TRANSFORMER", HvdcLine |-> "HVDC_LINE",
     BoundaryLine |-> "BOUNDARY_LINE", Generation |-> "BOUNDARY_LINE_GENERATION",
     Boundary |-> "BOUNDARY", TieLine |-> "TIE_LINE", Area |-> "AREA",
     AreaBoundary |-> "AREA_BOUNDARY", VoltageAngleLimit |-> "VOLTAGE_ANGLE_LIMIT",
     OverloadManagementSystem |-> "OVERLOAD_MANAGEMENT_SYSTEM", Component |-> "COMPONENT",
     VariantManager |-> "VARIANT_MANAGER", Tripping |-> "TRIPPING",
     SwitchTripping |-> "SWITCH_TRIPPING", BranchTripping |-> "BRANCH_TRIPPING",
     ThreeWindingsTransformerTripping |-> "THREE_WINDINGS_TRANSFORMER_TRIPPING",
     Ground |-> "GROUND", ShuntCompensator |-> "SHUNT_COMPENSATOR",
     ShuntCompensatorModel |-> "SHUNT_COMPENSATOR_MODEL",
     ShuntCompensatorLinearModel |-> "SHUNT_COMPENSATOR_LINEAR_MODEL",
     ShuntCompensatorNonLinearModel |-> "SHUNT_COMPENSATOR_NON_LINEAR_MODEL",
     Section |-> "SHUNT_SECTION", StaticVarCompensator |-> "STATIC_VAR_COMPENSATOR",
     VscConverterStation |-> "VSC_CONVERTER_STATION",
     LccConverterStation |-> "LCC_CONVERTER_STATION", Bus |-> "BUS", Switch |-> "SWITCH",
     BusbarSection |-> "BUSBAR_SECTION", Battery |-> "BATTERY",
     Leg |-> "THREE_WINDINGS_TRANSFORMER_LEG", RatioTapChanger |-> "RATIO_TAP_CHANGER",
     PhaseTapChanger |-> "PHASE_TAP_CHANGER", RatioTapChangerStep |-> "RATIO_TAP_CHANGER_STEP",
     PhaseTapChangerStep |-> "PHASE_TAP_CHANGER_STEP", ReactiveLimits |-> "REACTIVE_LIMITS",
     MinMaxReactiveLimits |-> "MIN_MAX_REACTIVE_LIMITS",
     ReactiveCapabilityCurve |-> "REACTIVE_CAPABILITY_CURVE",
     ReactiveCapabilityShape |-> "REACTIVE_CAPABILITY_SHAPE", Point |-> "REACTIVE_CURVE_POINT",
     Plane |-> "REACTIVE_CAPABILITY_SHAPE_PLANE", LoadingLimits |-> "LOADING_LIMITS",
     CurrentLimits |-> "CURRENT_LIMITS", ActivePowerLimits |-> "ACTIVE_POWER_LIMITS",
     ApparentPowerLimits |-> "APPARENT_POWER_LIMITS", TemporaryLimit |-> "TEMPORARY_LIMIT",
     OperationalLimitsGroup |-> "OPERATIONAL_LIMITS_GROUP", Overload |-> "OVERLOAD",
     BranchSideLimits |-> "FLOWS_LIMITS_HOLDER"]

\* The links of classes to themselves, by their type codes.
OfType(classes) == {<<TypeCode[c], c>> : c \in classes}

TypeCodes(classes) == {TypeCode[c] : c \in classes}
============================================================================
