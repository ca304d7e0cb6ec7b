----------------------------- MODULE TypedCalls -----------------------------
(***************************************************************************)
(* A client that goes from wrapper to wrapper.  A wrapper is a C++ class   *)
(* around the handle of a Java object, and nothing ties the class to the   *)
(* object but the property codes: each accessor sends a code that the Java *)
(* dispatch must know, must ask of an object of the type it casts to, and  *)
(* must answer with what the class of the answer's wrapper is for.  The    *)
(* two sides are written by hand, one table each: the tables of the        *)
(* wrappers here, the cases of the dispatch there.                         *)
(***************************************************************************)
EXTENDS AdderDispatch, NetworkWrappers, EquipmentWrappers, PartWrappers, AdderWrappers

VARIABLES held,    \* the wrapper in the client's hand: its class, and the kind of its object
          answer   \* how the last call ended

vars == <<held, answer>>

Accessors == ContainerAccessors \cup EquipmentAccessors \cup PartAccessors \cup AdderAccessors

----------------------------------------------------------------------------
\* The classes that derive from each base: classes, and the bases of methods that classes share.
DerivedEquipment ==
    [Identifiable |-> {"Network", "Substation", "VoltageLevel", "Connectable", "Branch", "TieLine",
                       "HvdcLine", "Bus", "Switch", "Area", "OverloadManagementSystem"},
     Connectable |-> {"Injection", "Line", "TwoWindingsTransformer", "ThreeWindingsTransformer"},
     Injection |-> {"Generator", "Battery", "Load", "ShuntCompensator", "StaticVarCompensator",
                    "BoundaryLine", "Ground", "BusbarSection", "HvdcConverterStation"},
     HvdcConverterStation |-> {"LccConverterStation", "VscConverterStation"},
     ContainerMethods |-> {"Network", "Substation", "VoltageLevel"},
     BranchMethods |-> {"Branch", "Line", "TwoWindingsTransformer", "TieLine"}]

DerivedParts ==
    [LoadModel |-> {"ZipLoadModel", "ExponentialLoadModel"},
     ReactiveLimits |-> {"MinMaxReactiveLimits", "ReactiveCapabilityCurve",
                         "ReactiveCapabilityShape"},
     ShuntCompensatorModel |-> {"ShuntCompensatorLinearModel", "ShuntCompensatorNonLinearModel"},
     LoadingLimits |-> LimitTypes,
     Tripping |-> {"SwitchTripping", "BranchTripping", "ThreeWindingsTransformerTripping"},
     VoltageRegulationHolderMethods |-> {"Generator", "Battery", "ShuntCompensator",
                                         "StaticVarCompensator", "VscConverterStation",
                                         "RatioTapChanger"},
     ReactiveLimitsHolderMethods |-> {"Generator", "Battery", "VscConverterStation", "Generation"},
     TapChangerHolderMethods |-> {"TwoWindingsTransformer", "Leg"},
     FlowsLimitsHolderMethods |-> {"BoundaryLine", "Leg", "BranchSideLimits"},
     PropertiesHolder |-> {"Identifiable", "AreaBoundary", "LoadModel", "LoadingLimits",
                           "OperationalLimitsGroup", "Tripping", "RatioTapChanger",
                           "PhaseTapChanger", "RatioTapChangerStep", "PhaseTapChangerStep",
                           "Point", "ReactiveLimits", "ShuntCompensatorModel", "Section",
                           "TemporaryLimit", "VoltageAngleLimit"}]

DerivedAdders ==
    [IdentifiableAdder |-> {"ConnectableAdder", "SubstationAdder", "VoltageLevelAdder", "BusAdder",
                            "NodeBreakerSwitchAdder", "BusBreakerSwitchAdder", "HvdcLineAdder",
                            "TieLineAdder", "AreaAdder", "OverloadManagementSystemAdder"},
     ConnectableAdder |-> {"InjectionAdder", "BranchAdder", "BusbarSectionAdder",
                           "ThreeWindingsTransformerAdder"},
     InjectionAdder |-> {"GeneratorAdder", "BatteryAdder", "LoadAdder", "ShuntCompensatorAdder",
                         "StaticVarCompensatorAdder", "BoundaryLineAdder", "GroundAdder",
                         "LccConverterStationAdder", "VscConverterStationAdder"},
     BranchAdder |-> {"LineAdder", "TwoWindingsTransformerAdder"}]

Bases == {DerivedEquipment, DerivedParts, DerivedAdders}

BasesOf(class) == UNION {{b \in DOMAIN derived : class \in derived[b]} : derived \in Bases}

Classes == {r.class : r \in Accessors} \cup {r.gives : r \in Accessors} \cup DOMAIN TypeCode

\* Some classes with their direct bases.
Up(classes) == classes \cup UNION {BasesOf(c) : c \in classes}

\* A class and all that it derives from: no class is more than five below another.
Lineage == [class \in Classes |-> Up(Up(Up(Up(Up({class})))))]

AccessorsOf == [class \in Classes |-> {r \in Accessors : r.class \in Lineage[class]}]

----------------------------------------------------------------------------
\* The kinds of objects that a class is for.  Some classes have no type code: a view is for its
\* host, an adder and any other for the kind of its own name.
ViewsOf ==
    [Network |-> {"Network.BusBreakerView", "Network.BusView"},
     VoltageLevel |-> {"VoltageLevel.NodeBreakerView", "VoltageLevel.BusBreakerView",
                       "VoltageLevel.BusView"},
     Terminal |-> {"Terminal.BusBreakerView", "Terminal.BusView", "Terminal.NodeBreakerView"}]

KindsFor(class) ==
    IF class \in DOMAIN TypeCode THEN InstanceOf[TypeCode[class]]
    ELSE LET hosts == {k \in DOMAIN ViewsOf : class \in ViewsOf[k]}
         IN IF hosts # {} THEN hosts ELSE {class}

Wrapper(class, kind) == [as |-> class, is |-> kind]

Endings == {"no call yet", "value", "wrapper", "nothing", "not of the type", "refused"}

\* The network of a factory.
Init ==
    /\ held = Wrapper("Network", "Network")
    /\ answer = "no call yet"

----------------------------------------------------------------------------
\* What the Java half answers to an accessor of an object: no answer at all when it throws.
AnswersTo(r, kind) ==
    IF r.op = "steps" THEN AnswersInSteps(r.code, kind, r.fields)
    ELSE Answers(r.op, r.code, kind)

\* What it answers to copyAdder(): the adders that the copied object can restart.
Restarted(r, kind) == {a \in Answers("invoke", r.code, kind) : kind \in CopyCases[Added[a]]}

Refused ==
    /\ answer' = "refused"
    /\ UNCHANGED held

ReadOrWrite(r) ==
    /\ r.how = "value"
    /\ IF AnswersTo(r, held.is) = {} THEN Refused
       ELSE /\ answer' = "value"
            /\ UNCHANGED held

\* wrapOptional() makes no wrapper of INVALID_HANDLE, and a list has no such handle; an accessor
\* that answers a wrapper makes one of whatever comes.
Follow(r) ==
    /\ r.how \in {"one", "maybe", "many"}
    /\ r.op # "copy"
    /\ IF AnswersTo(r, held.is) = {} THEN Refused
       ELSE \E a \in AnswersTo(r, held.is) :
              IF a = None /\ r.how = "maybe"
              THEN /\ answer' = "nothing"
                   /\ UNCHANGED held
              ELSE /\ held' = Wrapper(r.gives, a)
                   /\ answer' = "wrapper"

\* copyAdder(): an adder, restarted from the copied object, of the class that the adder makes.
StartCopy(r) ==
    /\ r.op = "copy"
    /\ IF Restarted(r, held.is) = {} THEN Refused
       ELSE \E a \in Restarted(r, held.is) :
              /\ held' = Wrapper(r.gives, a)
              /\ answer' = "wrapper"

LookThrough(r) ==
    /\ r.how = "view"
    /\ held' = Wrapper(r.gives, held.is)
    /\ answer' = "wrapper"

\* The conversion to a base class.  An adder is not handed on as its base.
Widen(class) ==
    /\ class \in Lineage[held.as] \cap DOMAIN TypeCode
    /\ class # held.as
    /\ held' = Wrapper(class, held.is)
    /\ answer' = "wrapper"

\* as<T>(): getBool by the type code of T.
Narrow(class) ==
    /\ held.as \notin Adders
    /\ IF Answers("getBool", TypeCode[class], held.is) = {} THEN Refused
       ELSE IF held.is \in InstanceOf[TypeCode[class]]
       THEN /\ held' = Wrapper(class, held.is)
            /\ answer' = "wrapper"
       ELSE /\ answer' = "not of the type"
            /\ UNCHANGED held

Next ==
    \/ \E r \in AccessorsOf[held.as] :
         ReadOrWrite(r) \/ Follow(r) \/ StartCopy(r) \/ LookThrough(r)
    \/ \E class \in DOMAIN TypeCode : Widen(class) \/ Narrow(class)

Spec == Init /\ [][Next]_vars

----------------------------------------------------------------------------
TypeOK ==
    /\ held \in [as : Classes, is : Maybe(Kinds \cup Adders)]
    /\ answer \in Endings

\* No wrapper is made for an object that its class is not for: following accessors, going to a
\* base and narrowing, in any order.
WrapperFits == held.is # None => held.is \in KindsFor(held.as)

\* An accessor that answers a wrapper, not an optional one, finds an object: its wrapper is
\* never the wrapper of INVALID_HANDLE, which every later call would throw at.
ObjectBehindWrapper == held.is # None

\* No accessor of any wrapper is refused by the dispatch: the code is known to the function it
\* is sent to, and the object is of the type that the case casts it to.
NeverRefused == answer # "refused"

\* What is held as a base can be held as what it is: some class that derives from the base, and
\* has no other below it, is for the object.  Networks are the exception, whose class has no type
\* code.
Final == {c \in DOMAIN TypeCode : \A derived \in Bases : c \notin DOMAIN derived}

Narrowable ==
    held.as \in DOMAIN TypeCode /\ held.is # "Network" =>
        \E c \in Final : held.as \in Lineage[c] /\ held.is \in InstanceOf[TypeCode[c]]
============================================================================
