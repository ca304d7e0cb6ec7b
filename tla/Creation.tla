------------------------------ MODULE Creation ------------------------------
(***************************************************************************)
(* Adders: the C++ objects (include/iidm/Adder.h and the adders' headers), *)
(* the PendingAdds and PendingCalls of Creation.java that their handles    *)
(* name, and the network that ACT_ADD changes.                             *)
(*                                                                         *)
(* Each step is one C++ call with all the backend calls it makes.  A       *)
(* handle names one PendingAdd; it may come back for another one when the  *)
(* first is neither registered nor used by a leg's adder.  The registry    *)
(* gives a reference up with its C++ adder: when its tracker does so is in *)
(* HandleTracker.                                                          *)
(***************************************************************************)
EXTENDS CreatedObjects, FiniteSets

CONSTANTS
  Slots,            \* variables of the program that hold an adder
  Handles, NoHandle,
  Gone,             \* a slot whose adder does not exist, or was destroyed
  MaxAdders,        \* bound: Java adders registered at a time
  MaxObjects,       \* bound: objects created
  MaxCoordinates    \* bound: coordinates given to one adder

ASSUME CreationConstants ==
  /\ NoHandle \notin Handles /\ Gone \notin Handles /\ NoHandle # Gone
  /\ MaxAdders \in Nat /\ MaxObjects \in Nat /\ MaxCoordinates \in Nat
  /\ None \notin Handles

\* What a PendingAdd has been told.
Described ==
  [kind : Kinds, host : Handles \cup Nat \cup {None}, side : Sides \cup {None},
   id : Ids \cup {None}, value : Values \cup {None}, legs : Legs,
   coordinates : Seq(Coordinates)]

ASSUME NoneIsNoDescription == None \notin Described

VARIABLES
  adder,        \* adder_ of each C++ adder: NoHandle in a moved-from one
  pending,      \* the Java adder a handle names, or None
  registered,   \* the handles whose reference the registry keeps
  network,
  born,
  answer

java == <<network, born>>
vars == <<adder, pending, registered, network, born, answer>>

Init ==
  /\ adder = [s \in Slots |-> Gone]
  /\ pending = [h \in Handles |-> None]
  /\ registered = {}
  /\ network = StartNetwork
  /\ born = 0
  /\ answer = "ok"

\* A NewLeg keeps the adder of its transformer, whatever becomes of the handle.
Parents(ps, live) == {ps[h].host : h \in {g \in live : ps[g] # None /\ ps[g].kind = "LEG"}}
Reachable(ps, live) == live \cup Parents(ps, live)
Collected(ps, live) == [h \in Handles |-> IF h \in Reachable(ps, live) THEN ps[h] ELSE None]
Fresh(h) == /\ h \in Handles \ Reachable(pending, registered)
            /\ Cardinality(registered) < MaxAdders

Holds(s, kinds) == adder[s] \in Handles /\ pending[adder[s]].kind \in kinds
Of(s) == pending[adder[s]]

----------------------------------------------------------------------------
\* invoke(parent, TYPE): newAdder's PendingAdd is registered for a new C++
\* adder.  One made of a call in steps starts with no value set.
NewAdder(s, h, described) ==
  /\ adder[s] = Gone /\ Fresh(h)
  /\ adder' = [adder EXCEPT ![s] = h]
  /\ pending' = [pending EXCEPT ![h] = described]
  /\ registered' = registered \cup {h}
  /\ answer' = "ok"
  /\ UNCHANGED java

New(s, h) == \E k \in MainKinds : NewAdder(s, h, Blank(k, None))

\* Extensions.newAdder: only for a host that the extension is made for.
NewExtension(s, h) == \E k \in ExtensionKinds, i \in Places :
  /\ Extendable(network, i, k)
  /\ NewAdder(s, h, Blank(k, network[i].birth))

\* copyAdder: a new adder, then COPY_OF puts powsybl's adder of the copy in
\* the place of the blank one.
NewCopy(s, h) == \E i \in Ids :
  /\ network[i] # None /\ network[i].kind = "LINE"
  /\ NewAdder(s, h, CopyOf(network[i]))

\* Defect: the handle is kept as a plain number until COPY_OF has worked.
CopyRefusedKept(s, h) ==
  /\ adder[s] = Gone /\ Fresh(h)
  /\ \E i \in Ids : network[i] # None /\ network[i].kind = "LINE"
  /\ answer' = "NoCopy"
  /\ registered' = registered \cup {h}
  /\ pending' = [pending EXCEPT ![h] = Blank("LINE", None)]
  /\ UNCHANGED <<adder, java>>

\* powsybl may refuse the copy: copyAdder already has the C++ adder, whose end
\* gives up the handle of the blank one.
CopyRefused(s, h) ==
  /\ adder[s] = Gone /\ Fresh(h)
  /\ \E i \in Ids : network[i] # None /\ network[i].kind = "LINE"
  /\ answer' = "NoCopy"
  /\ UNCHANGED <<adder, pending, registered, java>>

\* Defect: the adder of a leg whose side is not chosen.
NewLegUnselected(p, s, h) ==
  /\ Holds(p, {"TRANSFORMER"})
  /\ NewAdder(s, h, Blank("LEG", adder[p]))

\* newLeg(side): a NewLeg on the transformer's adder, then LEG_SIDE selects.
NewLeg(p, s, h) == \E side \in Sides :
  /\ Holds(p, {"TRANSFORMER"})
  /\ NewAdder(s, h, [Blank("LEG", adder[p]) EXCEPT !.side = side])

----------------------------------------------------------------------------
\* A setter of the adder in s: the Java adder takes the field at once.
SetField(s, described) ==
  /\ pending' = [pending EXCEPT ![adder[s]] = described]
  /\ answer' = "ok"
  /\ UNCHANGED <<adder, registered, java>>

Refused(reason) == answer' = reason /\ UNCHANGED <<adder, pending, registered, java>>

SetId(s) == /\ Holds(s, MainKinds)
            /\ \E i \in Ids : SetField(s, [Of(s) EXCEPT !.id = i])

SetValue(s) == /\ Holds(s, {"LINE", "LEG"})
               /\ \E v \in Values : SetField(s, [Of(s) EXCEPT !.value = v])

\* FortescueLegs.select: the leg that the fields go to from now on.
SelectLeg(s) == /\ Holds(s, {"FORTESCUE"})
                /\ \E side \in Sides : SetField(s, [Of(s) EXCEPT !.side = side])

SetLegField(s) ==
  /\ Holds(s, {"FORTESCUE"})
  /\ IF Of(s).side = None THEN Refused("Validation")
     ELSE \E v \in Values : SetField(s, [Of(s) EXCEPT !.legs[Of(s).side] = v])

\* addCoordinate: a PendingCall nested in the position's, made before the
\* C++ call returns; it appends to the values of the field COORDINATE.
AddCoordinate(s) ==
  /\ Holds(s, {"LINE_POSITION", "SUBSTATION_POSITION"})
  /\ Len(Of(s).coordinates) < MaxCoordinates
  /\ \E c \in Coordinates :
       SetField(s, [Of(s) EXCEPT !.coordinates = Append(@, c)])

----------------------------------------------------------------------------
\* Defect: the id is taken before the other fields are checked.
AddMainEarly(s) ==
  /\ Holds(s, MainKinds) /\ born < MaxObjects
  /\ IF Free(network, Of(s).id)
     THEN /\ network' = WithObject(network, Of(s), born + 1)
          /\ born' = born + 1
          /\ answer' = IF Acceptable(network, Of(s)) THEN "ok" ELSE "Validation"
          /\ UNCHANGED <<adder, pending, registered>>
     ELSE Refused("Validation")

\* ACT_ADD of an IdentifiableAdder. The adder goes on: another id, another object.
AddMain(s) ==
  /\ Holds(s, MainKinds) /\ born < MaxObjects
  /\ IF Acceptable(network, Of(s))
     THEN /\ network' = WithObject(network, Of(s), born + 1)
          /\ born' = born + 1
          /\ answer' = "ok"
          /\ UNCHANGED <<adder, pending, registered>>
     ELSE Refused("Validation")

\* ACT_ADD of a leg: null, and the transformer's adder has its fields.  (It has
\* powsybl's adder itself: that a setter called on the leg after its add() goes
\* to the transformer too is left out.)
AddLeg(s) ==
  /\ Holds(s, {"LEG"})
  /\ IF Acceptable(network, Of(s))
     THEN /\ pending' = [pending EXCEPT ![Of(s).host].legs[Of(s).side] = Of(s).value]
          /\ answer' = "ok"
          /\ UNCHANGED <<adder, registered, java>>
     ELSE Refused("Validation")

\* addPosition: every coordinate of a line, the last one of a substation.
AddPosition(s) ==
  /\ Holds(s, {"LINE_POSITION", "SUBSTATION_POSITION"})
  /\ LET set == Of(s).coordinates
         line == Of(s).kind = "LINE_POSITION"
     IN IF ~line /\ set = <<>> THEN Refused("Validation")
        ELSE /\ network' = WithPosition(network, Of(s).host,
                                        IF line THEN set ELSE <<set[Len(set)]>>)
             /\ answer' = "ok"
             /\ UNCHANGED <<adder, pending, registered, born>>

AddFortescue(s) ==
  /\ Holds(s, {"FORTESCUE"})
  /\ network' = WithFortescue(network, Of(s).host, Of(s).legs)
  /\ answer' = "ok"
  /\ UNCHANGED <<adder, pending, registered, born>>

\* remove() of an object's wrapper; its adders for extensions keep it.
Remove(i) ==
  /\ network[i] # None
  /\ network' = [network EXCEPT ![i] = None]
  /\ answer' = "ok"
  /\ UNCHANGED <<adder, pending, registered, born>>

----------------------------------------------------------------------------
GiveUp(live) == /\ registered' = live
                /\ pending' = Collected(pending, live)

\* An adder's end.
Drop(s) ==
  /\ adder[s] # Gone
  /\ adder' = [adder EXCEPT ![s] = Gone]
  /\ GiveUp(registered \ {adder[s]})
  /\ answer' = "ok"
  /\ UNCHANGED java

\* Move construction: `return adder`, `auto other = std::move(adder)`.
Move(s, d) ==
  /\ adder[s] # Gone /\ adder[d] = Gone
  /\ adder' = [adder EXCEPT ![s] = NoHandle, ![d] = adder[s]]
  /\ answer' = "ok"
  /\ UNCHANGED <<pending, registered, java>>

\* Move assignment, between adders of one class; legs have none.  Either may
\* have been moved from: its class is not kept, any is taken for it.
MoveAssign(s, d) ==
  /\ s # d /\ adder[s] # Gone /\ adder[d] # Gone
  /\ \A x \in {s, d} : adder[x] \in Handles => Of(x).kind # "LEG"
  /\ adder[s] \in Handles /\ adder[d] \in Handles => Of(s).kind = Of(d).kind
  /\ adder' = [adder EXCEPT ![s] = NoHandle, ![d] = adder[s]]
  /\ GiveUp(registered \ {adder[d]})
  /\ answer' = "ok"
  /\ UNCHANGED java

\* Any call on a moved-from adder: it keeps its backend, which refuses the
\* invalid handle.
UseMovedFrom(s) == adder[s] = NoHandle /\ Refused("InvalidHandle")

OnAdder(s) ==
  SetId(s) \/ SetValue(s) \/ SelectLeg(s) \/ SetLegField(s) \/ AddCoordinate(s)
  \/ AddMain(s) \/ AddLeg(s) \/ AddPosition(s) \/ AddFortescue(s)
  \/ UseMovedFrom(s) \/ Drop(s)

Next ==
  \/ \E s \in Slots, h \in Handles :
       New(s, h) \/ NewExtension(s, h) \/ NewCopy(s, h) \/ CopyRefused(s, h)
       \/ \E p \in Slots : NewLeg(p, s, h)
  \/ \E s \in Slots : OnAdder(s)
  \/ \E s, d \in Slots : Move(s, d) \/ MoveAssign(s, d)
  \/ \E i \in Ids : Remove(i)

Spec == Init /\ [][Next]_vars

----------------------------------------------------------------------------
\* The variables' types: a leg's adder has its side and the transformer's adder.
TypeOK ==
  /\ adder \in [Slots -> Handles \cup {NoHandle, Gone}]
  /\ pending \in [Handles -> Described \cup {None}]
  /\ registered \subseteq Handles
  /\ network \in [Places -> Objects \cup {None}]
  /\ born \in Nat
  /\ \A h \in Handles : pending[h] # None /\ pending[h].kind = "LEG" =>
       pending[h].side \in Sides /\ pending[h].host \in Handles

\* "Two adders must not drive one Java adder" (Adder.h), and no Java adder is
\* kept for a C++ adder that is gone: after any moves, copies that powsybl
\* refuses and adders dropped before or after their add(), the registry keeps
\* exactly one Java adder for each C++ adder that has one, with the
\* transformer's adder under each leg's.
OneAdderEach ==
  /\ \A s, t \in Slots : adder[s] \in Handles /\ adder[s] = adder[t] => s = t
  /\ registered = {h \in Handles : \E s \in Slots : adder[s] = h}
  /\ \A h \in registered : pending[h] # None
  /\ \A h \in registered : pending[h].kind = "LEG" =>
       pending[pending[h].host] # None /\ pending[pending[h].host].kind = "TRANSFORMER"

\* What a Java adder describes, the values of a call in steps read as they
\* will be when it is made.
Draft(h) ==
  IF h \notin registered THEN None
  ELSE LET set == pending[h].coordinates
       IN IF pending[h].kind = "SUBSTATION_POSITION" /\ set # <<>>
          THEN [pending[h] EXCEPT !.coordinates = <<set[Len(set)]>>]
          ELSE pending[h]

Promise == INSTANCE CreationPromise
  WITH Drafts <- Handles, drafts <- [h \in Handles |-> Draft(h)]

\* Whatever the order of setters, nested adders, moves and drops, the network
\* gets what the adder describes when its add() is accepted, in that step and
\* in full, and nothing otherwise.
Implements == Promise!Spec
=============================================================================
