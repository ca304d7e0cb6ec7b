--------------------------- MODULE CreatedObjects ---------------------------
(***************************************************************************)
(* The objects that adders create, and what powsybl (the library that      *)
(* src/ calls) accepts: a line, a three windings transformer with its      *)
(* legs, and the extensions of an object that is already in the network.   *)
(* Pure data, shared by the promise of the adders (CreationPromise) and by *)
(* the code that keeps it (Creation).                                      *)
(***************************************************************************)
EXTENDS Integers, Sequences

CONSTANTS
  Ids,           \* ids that objects may get
  Site,          \* the id of a substation that is there from the start
  Values,        \* values of a required electrical field
  Coordinates,   \* geographical positions
  Sides,         \* sides of a three windings transformer
  None           \* a field that was not set, an object that is not there

ASSUME CreatedConstants ==
  /\ Site \notin Ids
  /\ None \notin Ids \cup Values \cup Coordinates \cup Sides \cup {Site}

Places == Ids \cup {Site}

MainKinds == {"LINE", "TRANSFORMER"}
ExtensionKinds == {"LINE_POSITION", "SUBSTATION_POSITION", "FORTESCUE"}
Kinds == MainKinds \cup ExtensionKinds \cup {"LEG"}

NoLegs == [s \in Sides |-> None]
Legs == [Sides -> Values \cup {None}]

Objects ==
  [kind : MainKinds \cup {"SUBSTATION"}, birth : Nat, value : Values \cup {None}, legs : Legs,
   position : {None} \cup Seq(Coordinates), fortescue : {None} \cup Legs]

ASSUME NoneIsNoObject == None \notin Objects

Object(kind, birth, value, legs) ==
  [kind |-> kind, birth |-> birth, value |-> value, legs |-> legs,
   position |-> None, fortescue |-> None]

Substation == Object("SUBSTATION", 0, None, NoLegs)
StartNetwork == [i \in Places |-> IF i = Site THEN Substation ELSE None]

\* What an adder describes. `host` is the adder that a leg goes to, or the
\* birth of the object that an extension is for.
Blank(kind, host) ==
  [kind |-> kind, host |-> host, side |-> None, id |-> None, value |-> None,
   legs |-> NoLegs, coordinates |-> <<>>]

\* powsybl's newLine(copied): the fields of the copied line, not its id.
CopyOf(object) == [Blank("LINE", None) EXCEPT !.value = object.value]

\* powsybl's validation: a free id, no required field missing.
Free(net, id) == id \in Ids /\ net[id] = None
Acceptable(net, d) ==
  \/ d.kind = "LINE" /\ Free(net, d.id) /\ d.value # None
  \/ d.kind = "TRANSFORMER" /\ Free(net, d.id) /\ \A s \in Sides : d.legs[s] # None
  \/ d.kind = "LEG" /\ d.value # None
  \/ d.kind = "SUBSTATION_POSITION" /\ d.coordinates # <<>>
  \/ d.kind \in {"LINE_POSITION", "FORTESCUE"}

\* Where the object born so is, if it still is in the network.
Host(net, birth) == {i \in Places : net[i] # None /\ net[i].birth = birth}
Extendable(net, i, kind) ==
  /\ net[i] # None
  /\ net[i].kind = CASE kind = "LINE_POSITION" -> "LINE"
                     [] kind = "SUBSTATION_POSITION" -> "SUBSTATION"
                     [] OTHER -> "TRANSFORMER"

\* The network once the object is added, or the extension of its host.
WithObject(net, d, birth) ==
  [net EXCEPT ![d.id] = Object(d.kind, birth, d.value, d.legs)]
WithPosition(net, birth, coordinates) ==
  [i \in Places |-> IF i \in Host(net, birth)
                 THEN [net[i] EXCEPT !.position = coordinates] ELSE net[i]]
WithFortescue(net, birth, legs) ==
  [i \in Places |-> IF i \in Host(net, birth)
                 THEN [net[i] EXCEPT !.fortescue = legs] ELSE net[i]]
=============================================================================
