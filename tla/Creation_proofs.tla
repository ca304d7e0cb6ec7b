-------------------------- MODULE Creation_proofs --------------------------
(***************************************************************************)
(* Proofs about Creation, for any ids, values, sides, slots and handles.   *)
(***************************************************************************)
EXTENDS Creation, TLAPS

(***************************************************************************)
(* The inductive invariant: the types, and one adder for each Java adder.  *)
(***************************************************************************)
IInv == TypeOK /\ OneAdderEach

USE CreatedConstants, CreationConstants, NoneIsNoObject, NoneIsNoDescription

----------------------------------------------------------------------------
\* What is described stays a description, field by field.
LEMMA BlankDescribed ==
  ASSUME NEW k \in Kinds, NEW host \in Handles \cup Nat \cup {None}
  PROVE  /\ Blank(k, host) \in Described
         /\ Blank(k, host).kind = k /\ Blank(k, host).host = host
<1>1. NoLegs \in Legs
  BY DEF NoLegs, Legs
<1>2. <<>> \in Seq(Coordinates)
  OBVIOUS
<1> QED  BY <1>1, <1>2 DEF Blank, Described

LEMMA FieldsDescribed ==
  ASSUME NEW d \in Described
  PROVE  /\ \A i \in Ids : [d EXCEPT !.id = i] \in Described
         /\ \A v \in Values : [d EXCEPT !.value = v] \in Described
         /\ \A x \in Sides : [d EXCEPT !.side = x] \in Described
         /\ \A x \in Sides, v \in Values : [d EXCEPT !.legs[x] = v] \in Described
         /\ \A c \in Coordinates : [d EXCEPT !.coordinates = Append(@, c)] \in Described
<1>1. \A x \in Sides, v \in Values : [d.legs EXCEPT ![x] = v] \in Legs
  BY DEF Described, Legs
<1>2. \A c \in Coordinates : Append(d.coordinates, c) \in Seq(Coordinates)
  BY DEF Described
<1> QED  BY <1>1, <1>2 DEF Described

\* The handle in a slot names a Java adder, and a leg's has its transformer's.
LEMMA AdderIsThere ==
  ASSUME IInv, NEW s \in Slots, adder[s] \in Handles
  PROVE  /\ adder[s] \in registered
         /\ Of(s) = pending[adder[s]] /\ Of(s) \in Described /\ Of(s) # None
<1>1. adder[s] \in registered
  BY DEF IInv, OneAdderEach
<1>2. pending[adder[s]] # None
  BY <1>1 DEF IInv, OneAdderEach
<1> QED  BY <1>1, <1>2 DEF IInv, TypeOK, Of

LEMMA LegIsThere ==
  ASSUME IInv, NEW h \in registered, pending[h].kind = "LEG"
  PROVE  /\ h \in Handles /\ pending[h] # None
         /\ pending[h].side \in Sides /\ pending[h].host \in Handles
         /\ pending[pending[h].host] # None /\ pending[pending[h].host].kind = "TRANSFORMER"
         /\ pending[h].host \in Reachable(pending, registered)
<1>1. h \in Handles
  BY DEF IInv, TypeOK
<1>2. pending[h] # None
  BY DEF IInv, OneAdderEach
<1>3. pending[h].side \in Sides /\ pending[h].host \in Handles
  BY <1>1, <1>2 DEF IInv, TypeOK
<1>4. pending[pending[h].host] # None /\ pending[pending[h].host].kind = "TRANSFORMER"
  BY DEF IInv, OneAdderEach
<1>5. pending[h].host \in Reachable(pending, registered)
  BY <1>2 DEF Reachable, Parents
<1> QED  BY <1>1, <1>2, <1>3, <1>4, <1>5

----------------------------------------------------------------------------
LEMMA IInvInit == Init => IInv
<1> SUFFICES ASSUME Init PROVE IInv
  OBVIOUS
<1>1. NoLegs \in Legs
  BY DEF NoLegs, Legs
<1>2. StartNetwork \in [Places -> Objects \cup {None}]
  BY <1>1 DEF StartNetwork, Substation, Object, Objects
<1>3. TypeOK
  BY <1>2 DEF Init, TypeOK
<1>4. OneAdderEach
  BY DEF Init, OneAdderEach
<1> QED  BY <1>3, <1>4 DEF IInv

\* What a setter tells a Java adder leaves every adder where it is.
LEMMA IInvTold ==
  ASSUME IInv, NEW h \in Handles, pending[h] # None, NEW told \in Described,
         told.kind = pending[h].kind, told.host = pending[h].host,
         told.kind = "LEG" => told.side = pending[h].side,
         pending' = [pending EXCEPT ![h] = told], UNCHANGED <<adder, registered, java>>
  PROVE  IInv'
<1>1. told # None
  OBVIOUS
<1>2. pending'[h] = told /\ \A g \in Handles \ {h} : pending'[g] = pending[g]
  BY <1>1 DEF IInv, TypeOK
<1>3. \A g \in Handles : /\ pending'[g] = None <=> pending[g] = None
                         /\ pending'[g].kind = pending[g].kind
                         /\ pending'[g].host = pending[g].host
  BY <1>1, <1>2
<1>4. TypeOK'
  <2>1. pending' \in [Handles -> Described \cup {None}]
    BY <1>1 DEF IInv, TypeOK
  <2>2. ASSUME NEW g \in Handles, pending'[g] # None, pending'[g].kind = "LEG"
        PROVE  pending'[g].side \in Sides /\ pending'[g].host \in Handles
    <3>1. pending[g] # None /\ pending[g].kind = "LEG"
      BY <1>3, <2>2
    <3>2. pending[g].side \in Sides /\ pending[g].host \in Handles
      BY <3>1 DEF IInv, TypeOK
    <3> QED  BY <3>1, <3>2, <1>1, <1>2, <1>3
  <2> QED  BY <2>1, <2>2 DEF IInv, TypeOK, java
<1>5. OneAdderEach'
  <2>1. ASSUME NEW g \in registered, pending'[g].kind = "LEG"
        PROVE  pending'[pending'[g].host] # None
               /\ pending'[pending'[g].host].kind = "TRANSFORMER"
    <3>1. g \in Handles /\ pending[g].kind = "LEG"
      BY <1>3, <2>1 DEF IInv, TypeOK
    <3> QED  BY <3>1, <1>3, LegIsThere
  <2>2. \A g \in registered : pending'[g] # None
    BY <1>3 DEF IInv, TypeOK, OneAdderEach
  <2> QED  BY <2>1, <2>2 DEF IInv, OneAdderEach
<1> QED  BY <1>4, <1>5 DEF IInv

\* A new Java adder takes a handle that no other one uses.
LEMMA IInvNewAdder ==
  ASSUME IInv, NEW s \in Slots, NEW h \in Handles, NEW described \in Described,
         NewAdder(s, h, described),
         described.kind = "LEG" =>
           /\ described.side \in Sides /\ described.host \in registered
           /\ pending[described.host].kind = "TRANSFORMER"
  PROVE  IInv'
<1>1. /\ adder[s] = Gone /\ h \notin Reachable(pending, registered) /\ h \notin registered
      /\ adder' = [adder EXCEPT ![s] = h] /\ pending' = [pending EXCEPT ![h] = described]
      /\ registered' = registered \cup {h} /\ UNCHANGED java
  BY DEF NewAdder, Fresh, Reachable
<1>2. /\ pending'[h] = described /\ \A g \in Handles \ {h} : pending'[g] = pending[g]
      /\ adder'[s] = h /\ \A t \in Slots \ {s} : adder'[t] = adder[t]
      /\ registered \subseteq Handles /\ described # None
  BY <1>1 DEF IInv, TypeOK
<1>3. TypeOK'
  <2>1. /\ pending' \in [Handles -> Described \cup {None}]
        /\ adder' \in [Slots -> Handles \cup {NoHandle, Gone}]
        /\ registered' \subseteq Handles
    BY <1>1 DEF IInv, TypeOK
  <2>2. ASSUME NEW g \in Handles, pending'[g] # None, pending'[g].kind = "LEG"
        PROVE  pending'[g].side \in Sides /\ pending'[g].host \in Handles
    <3>1. CASE g = h
      BY <3>1, <1>2, <2>2
    <3>2. CASE g # h
      BY <3>2, <1>2, <2>2 DEF IInv, TypeOK
    <3> QED  BY <3>1, <3>2
  <2> QED  BY <1>1, <2>1, <2>2 DEF IInv, TypeOK, java
<1>4. ASSUME NEW g \in registered', pending'[g].kind = "LEG"
      PROVE  pending'[pending'[g].host] # None /\ pending'[pending'[g].host].kind = "TRANSFORMER"
  <2>1. CASE g = h
    <3>1. described.kind = "LEG" /\ described.host \in registered /\ described.host # h
      BY <2>1, <1>1, <1>2, <1>4
    <3>2. pending[described.host] # None
      BY <3>1 DEF IInv, OneAdderEach
    <3> QED  BY <3>1, <3>2, <2>1, <1>2
  <2>2. CASE g # h
    <3>1. g \in registered /\ pending[g].kind = "LEG" /\ pending'[g] = pending[g]
      BY <2>2, <1>1, <1>2, <1>4
    <3>2. /\ pending[g].host \in Handles \ {h} /\ pending[pending[g].host] # None
          /\ pending[pending[g].host].kind = "TRANSFORMER"
      BY <3>1, <1>1, LegIsThere
    <3> QED  BY <3>1, <3>2, <1>2
  <2> QED  BY <2>1, <2>2
<1>5. OneAdderEach'
  <2>1. \A x, y \in Slots : adder'[x] \in Handles /\ adder'[x] = adder'[y] => x = y
    BY <1>1, <1>2 DEF IInv, OneAdderEach
  <2>2. registered' = {g \in Handles : \E x \in Slots : adder'[x] = g}
    <3>1. ASSUME NEW g \in registered' PROVE \E x \in Slots : adder'[x] = g
      BY <1>1, <1>2 DEF IInv, OneAdderEach
    <3>2. ASSUME NEW g \in Handles, NEW x \in Slots, adder'[x] = g PROVE g \in registered'
      BY <3>2, <1>1, <1>2 DEF IInv, OneAdderEach
    <3> QED  BY <3>1, <3>2, <1>1, <1>2
  <2>3. \A g \in registered' : pending'[g] # None
    BY <1>1, <1>2 DEF IInv, OneAdderEach
  <2> QED  BY <2>1, <2>2, <2>3, <1>4 DEF OneAdderEach
<1> QED  BY <1>3, <1>5 DEF IInv

\* What is given up takes no Java adder from another C++ adder, nor from a leg.
LEMMA IInvGiveUp ==
  ASSUME IInv, NEW live \in SUBSET registered, GiveUp(live), UNCHANGED java,
         adder' \in [Slots -> Handles \cup {NoHandle, Gone}],
         \A x, y \in Slots : adder'[x] \in Handles /\ adder'[x] = adder'[y] => x = y,
         live = {g \in Handles : \E x \in Slots : adder'[x] = g}
  PROVE  IInv' /\ \A g \in live : pending'[g] = pending[g]
<1>1. registered' = live /\ pending' = Collected(pending, live) /\ live \subseteq Handles
  BY DEF GiveUp, IInv, TypeOK
<1>2. \A g \in Handles : pending'[g] = IF g \in Reachable(pending, live) THEN pending[g] ELSE None
  BY <1>1 DEF Collected
<1>3. \A g \in live : pending'[g] = pending[g]
  BY <1>1, <1>2 DEF Reachable
<1>4. TypeOK'
  <2>1. pending' \in [Handles -> Described \cup {None}]
    BY <1>1 DEF IInv, TypeOK, Collected
  <2>2. ASSUME NEW g \in Handles, pending'[g] # None, pending'[g].kind = "LEG"
        PROVE  pending'[g].side \in Sides /\ pending'[g].host \in Handles
    BY <2>2, <1>2 DEF IInv, TypeOK
  <2> QED  BY <1>1, <2>1, <2>2 DEF IInv, TypeOK, java
<1>5. ASSUME NEW g \in live, pending'[g].kind = "LEG"
      PROVE  pending'[pending'[g].host] # None /\ pending'[pending'[g].host].kind = "TRANSFORMER"
  <2>1. pending'[g] = pending[g] /\ g \in registered
    BY <1>3
  <2>2. /\ pending[g] # None /\ pending[g].host \in Handles /\ pending[pending[g].host] # None
        /\ pending[pending[g].host].kind = "TRANSFORMER"
    BY <2>1, <1>5, LegIsThere
  <2>3. pending[g].host \in Reachable(pending, live)
    BY <2>1, <2>2, <1>5 DEF Reachable, Parents
  <2> QED  BY <2>1, <2>2, <2>3, <1>2
<1>6. \A g \in live : pending'[g] # None
  BY <1>3 DEF IInv, OneAdderEach
<1>7. OneAdderEach'
  BY <1>1, <1>5, <1>6 DEF OneAdderEach
<1> QED  BY <1>3, <1>4, <1>7 DEF IInv

----------------------------------------------------------------------------
\* One lemma per operation, or per group of operations of one form.
LEMMA IInvBegin ==
  ASSUME IInv, NEW s \in Slots, NEW h \in Handles,
         New(s, h) \/ NewExtension(s, h) \/ NewCopy(s, h) \/ \E p \in Slots : NewLeg(p, s, h)
  PROVE  IInv'
<1>1. ASSUME New(s, h) PROVE IInv'
  <2>1. PICK k \in MainKinds : NewAdder(s, h, Blank(k, None))
    BY <1>1 DEF New
  <2>2. k \in Kinds /\ k # "LEG"
    BY DEF MainKinds, Kinds
  <2> QED  BY <2>1, <2>2, BlankDescribed, IInvNewAdder
<1>2. ASSUME NewExtension(s, h) PROVE IInv'
  <2>1. PICK k \in ExtensionKinds, i \in Places :
          Extendable(network, i, k) /\ NewAdder(s, h, Blank(k, network[i].birth))
    BY <1>2 DEF NewExtension
  <2>2. k \in Kinds /\ k # "LEG"
    BY DEF ExtensionKinds, Kinds
  <2>3. network[i].birth \in Nat
    BY <2>1 DEF Extendable, IInv, TypeOK, Objects
  <2> QED  BY <2>1, <2>2, <2>3, BlankDescribed, IInvNewAdder
<1>3. ASSUME NewCopy(s, h) PROVE IInv'
  <2>1. PICK i \in Ids : network[i] # None /\ NewAdder(s, h, CopyOf(network[i]))
    BY <1>3 DEF NewCopy
  <2>2. network[i].value \in Values \cup {None}
    BY <2>1 DEF IInv, TypeOK, Objects, Places
  <2>3. "LINE" \in Kinds
    BY DEF MainKinds, Kinds
  <2>4. CopyOf(network[i]) \in Described /\ CopyOf(network[i]).kind = "LINE"
    BY <2>2, <2>3, BlankDescribed DEF CopyOf, Described
  <2> QED  BY <2>1, <2>4, IInvNewAdder
<1>4. ASSUME NEW p \in Slots, NewLeg(p, s, h) PROVE IInv'
  <2>1. PICK side \in Sides :
          /\ Holds(p, {"TRANSFORMER"})
          /\ NewAdder(s, h, [Blank("LEG", adder[p]) EXCEPT !.side = side])
    BY <1>4 DEF NewLeg
  <2>2. adder[p] \in registered /\ adder[p] \in Handles /\ pending[adder[p]].kind = "TRANSFORMER"
    BY <2>1, AdderIsThere DEF Holds
  <2>3. "LEG" \in Kinds
    BY DEF Kinds
  <2> DEFINE leg == [Blank("LEG", adder[p]) EXCEPT !.side = side]
  <2>4. leg \in Described /\ leg.kind = "LEG" /\ leg.host = adder[p] /\ leg.side = side
    BY <2>2, <2>3, BlankDescribed, FieldsDescribed DEF Described
  <2> HIDE DEF leg
  <2>5. NewAdder(s, h, leg)
    BY <2>1 DEF leg
  <2> QED  BY <2>2, <2>4, <2>5, IInvNewAdder
<1> QED  BY <1>1, <1>2, <1>3, <1>4

\* A setter, by what it tells to which Java adder.
Told(h, told) ==
  /\ pending' = [pending EXCEPT ![h] = told]
  /\ answer' = "ok"
  /\ UNCHANGED <<adder, registered, java>>

\* The fields that a setter may change, and of which adders.
OneField(d, told) ==
  \/ d.kind \in MainKinds /\ \E i \in Ids : told = [d EXCEPT !.id = i]
  \/ d.kind \in {"LINE", "LEG"} /\ \E v \in Values : told = [d EXCEPT !.value = v]
  \/ d.kind = "FORTESCUE" /\ \E x \in Sides : told = [d EXCEPT !.side = x]
  \/ /\ d.kind = "FORTESCUE" /\ d.side # None
     /\ \E v \in Values : told = [d EXCEPT !.legs[d.side] = v]
  \/ /\ d.kind \in {"LINE_POSITION", "SUBSTATION_POSITION"}
     /\ \E c \in Coordinates : told = [d EXCEPT !.coordinates = Append(@, c)]

Setter(s) == SetId(s) \/ SetValue(s) \/ SelectLeg(s) \/ SetLegField(s) \/ AddCoordinate(s)

LEMMA IInvSet ==
  ASSUME IInv, NEW s \in Slots, Setter(s), answer' = "ok"
  PROVE  /\ IInv' /\ adder[s] \in registered
         /\ \E told \in Described : Told(adder[s], told) /\ told.kind = Of(s).kind
                                    /\ OneField(Of(s), told)
<1>1. adder[s] \in Handles
  BY DEF Setter, SetId, SetValue, SelectLeg, SetLegField, AddCoordinate, Holds
<1>2. /\ adder[s] \in registered /\ Of(s) = pending[adder[s]] /\ Of(s) \in Described
      /\ Of(s) # None
  BY <1>1, AdderIsThere
<1>3. ASSUME NEW told \in Described, told.kind = Of(s).kind, told.host = Of(s).host,
             told.side = Of(s).side \/ told.kind = "FORTESCUE", Told(adder[s], told)
      PROVE  IInv'
  BY <1>1, <1>2, <1>3, IInvTold DEF Told
<1> DEFINE Goal == /\ IInv' /\ adder[s] \in registered
                   /\ \E told \in Described : Told(adder[s], told) /\ told.kind = Of(s).kind
                                              /\ OneField(Of(s), told)
<1>4. ASSUME SetId(s) PROVE Goal
  <2>1. PICK i \in Ids : Told(adder[s], [Of(s) EXCEPT !.id = i]) /\ Of(s).kind \in MainKinds
    BY <1>4 DEF SetId, SetField, Told, Holds, Of
  <2> DEFINE told == [Of(s) EXCEPT !.id = i]
  <2>2. /\ told \in Described /\ told.kind = Of(s).kind /\ told.host = Of(s).host
        /\ told.side = Of(s).side
    BY <1>2, FieldsDescribed DEF Described
  <2>3. IInv'
    BY <1>3, <2>1, <2>2
  <2> QED  BY <1>2, <2>1, <2>2, <2>3 DEF OneField
<1>5. ASSUME SetValue(s) PROVE Goal
  <2>1. PICK v \in Values : /\ Told(adder[s], [Of(s) EXCEPT !.value = v])
                            /\ Of(s).kind \in {"LINE", "LEG"}
    BY <1>5 DEF SetValue, SetField, Told, Holds, Of
  <2> DEFINE told == [Of(s) EXCEPT !.value = v]
  <2>2. /\ told \in Described /\ told.kind = Of(s).kind /\ told.host = Of(s).host
        /\ told.side = Of(s).side
    BY <1>2, FieldsDescribed DEF Described
  <2>3. IInv'
    BY <1>3, <2>1, <2>2
  <2> QED  BY <1>2, <2>1, <2>2, <2>3 DEF OneField
<1>6. ASSUME SelectLeg(s) PROVE Goal
  <2>1. PICK x \in Sides : /\ Told(adder[s], [Of(s) EXCEPT !.side = x])
                           /\ Of(s).kind = "FORTESCUE"
    BY <1>6 DEF SelectLeg, SetField, Told, Holds, Of
  <2> DEFINE told == [Of(s) EXCEPT !.side = x]
  <2>2. told \in Described /\ told.kind = Of(s).kind /\ told.host = Of(s).host
    BY <1>2, FieldsDescribed DEF Described
  <2>3. IInv'
    BY <1>3, <2>1, <2>2
  <2> QED  BY <1>2, <2>1, <2>2, <2>3 DEF OneField
<1>7. ASSUME SetLegField(s) PROVE Goal
  <2>1. Of(s).kind = "FORTESCUE" /\ Of(s).side # None
    BY <1>7 DEF SetLegField, Holds, Of, Refused
  <2>2. PICK v \in Values : Told(adder[s], [Of(s) EXCEPT !.legs[Of(s).side] = v])
    BY <1>7, <2>1 DEF SetLegField, SetField, Told
  <2> DEFINE told == [Of(s) EXCEPT !.legs[Of(s).side] = v]
  <2>3. Of(s).side \in Sides
    BY <1>2, <2>1 DEF Described
  <2>4. /\ told \in Described /\ told.kind = Of(s).kind /\ told.host = Of(s).host
        /\ told.side = Of(s).side
    BY <1>2, <2>3, FieldsDescribed DEF Described
  <2>5. IInv'
    BY <1>3, <2>2, <2>4
  <2> QED  BY <1>2, <2>1, <2>2, <2>4, <2>5 DEF OneField
<1>8. ASSUME AddCoordinate(s) PROVE Goal
  <2>1. PICK c \in Coordinates : /\ Told(adder[s], [Of(s) EXCEPT !.coordinates = Append(@, c)])
                                 /\ Of(s).kind \in {"LINE_POSITION", "SUBSTATION_POSITION"}
    BY <1>8 DEF AddCoordinate, SetField, Told, Holds, Of
  <2> DEFINE told == [Of(s) EXCEPT !.coordinates = Append(@, c)]
  <2>2. /\ told \in Described /\ told.kind = Of(s).kind /\ told.host = Of(s).host
        /\ told.side = Of(s).side
    BY <1>2, FieldsDescribed DEF Described
  <2>3. IInv'
    BY <1>3, <2>1, <2>2
  <2> QED  BY <1>2, <2>1, <2>2, <2>3 DEF OneField
<1>9. Goal
  BY <1>4, <1>5, <1>6, <1>7, <1>8 DEF Setter
<1> QED  BY <1>9

\* A refusal, and a call on no adder, change nothing.
LEMMA IInvRefused ==
  ASSUME IInv, UNCHANGED <<adder, pending, registered, java>>
  PROVE  IInv'
BY DEF IInv, TypeOK, OneAdderEach, java

\* An accepted add() changes the network, or the legs of a transformer's adder.
LEMMA IInvAdd ==
  ASSUME IInv, NEW s \in Slots,
         AddMain(s) \/ AddLeg(s) \/ AddPosition(s) \/ AddFortescue(s)
  PROVE  IInv'
<1>1. adder[s] \in Handles
  BY DEF AddMain, AddLeg, AddPosition, AddFortescue, Holds
<1>2. Of(s) \in Described /\ Of(s) = pending[adder[s]] /\ adder[s] \in registered
  BY <1>1, AdderIsThere
<1>3. ASSUME network' \in [Places -> Objects \cup {None}], born' \in Nat,
             UNCHANGED <<adder, pending, registered>>
      PROVE  IInv'
  BY <1>3 DEF IInv, TypeOK, OneAdderEach
<1>4. CASE UNCHANGED <<adder, pending, registered, java>>
  BY <1>4, IInvRefused
<1>5. ASSUME AddMain(s), Acceptable(network, Of(s)) PROVE IInv'
  <2>1. Of(s).kind \in MainKinds /\ Of(s).id \in Ids
    BY <1>5 DEF AddMain, Holds, Of, Acceptable, Free, MainKinds
  <2>2. Object(Of(s).kind, born + 1, Of(s).value, Of(s).legs) \in Objects
    BY <1>2, <2>1 DEF Object, Objects, IInv, TypeOK, Described
  <2>3. WithObject(network, Of(s), born + 1) \in [Places -> Objects \cup {None}]
    BY <2>1, <2>2 DEF WithObject, IInv, TypeOK, Places
  <2>4. born + 1 \in Nat
    BY DEF IInv, TypeOK
  <2> QED  BY <1>3, <1>5, <2>3, <2>4 DEF AddMain
<1>6. ASSUME AddLeg(s), Acceptable(network, Of(s)) PROVE IInv'
  <2>1. Of(s).kind = "LEG" /\ Of(s).value \in Values
    BY <1>2, <1>6 DEF AddLeg, Holds, Of, Acceptable, Described
  <2>2. Of(s).side \in Sides /\ Of(s).host \in Handles /\ pending[Of(s).host] # None
        /\ pending[Of(s).host].kind = "TRANSFORMER"
    BY <1>2, <2>1, LegIsThere
  <2> DEFINE h == Of(s).host
             d == pending[h]
             told == [d EXCEPT !.legs[Of(s).side] = Of(s).value]
  <2>3. d \in Described
    BY <2>2 DEF IInv, TypeOK
  <2>4. told \in Described /\ told.kind = d.kind /\ told.host = d.host /\ told.side = d.side
    BY <2>1, <2>2, <2>3, FieldsDescribed DEF Described
  <2>5. pending' = [pending EXCEPT ![h] = told] /\ UNCHANGED <<adder, registered, java>>
    BY <1>6, <2>2 DEF AddLeg, IInv, TypeOK
  <2> HIDE DEF told
  <2> QED  BY <2>2, <2>4, <2>5, IInvTold
<1>7. ASSUME AddPosition(s), UNCHANGED <<adder, pending, registered, born>> PROVE IInv'
  <2>1. PICK c \in Seq(Coordinates) : \/ network' = WithPosition(network, Of(s).host, c)
                                       \/ network' = network
    <3>1. Of(s).coordinates \in Seq(Coordinates)
      BY <1>2 DEF Described
    <3>2. ASSUME Of(s).coordinates # <<>>
          PROVE  <<Of(s).coordinates[Len(Of(s).coordinates)]>> \in Seq(Coordinates)
      BY <3>1, <3>2
    <3> QED  BY <1>7, <3>1, <3>2 DEF AddPosition, Refused, java
  <2>2. WithPosition(network, Of(s).host, c) \in [Places -> Objects \cup {None}]
    <3>1. ASSUME NEW i \in Places, network[i] # None
          PROVE  [network[i] EXCEPT !.position = c] \in Objects
      BY <3>1 DEF IInv, TypeOK, Objects
    <3> QED  BY <3>1 DEF WithPosition, Host, IInv, TypeOK
  <2>3. network' \in [Places -> Objects \cup {None}] /\ born' \in Nat
    BY <1>7, <2>1, <2>2 DEF IInv, TypeOK
  <2> QED  BY <1>3, <1>7, <2>3
<1>8. ASSUME AddFortescue(s) PROVE IInv'
  <2>1. Of(s).legs \in Legs
    BY <1>2 DEF Described
  <2>2. WithFortescue(network, Of(s).host, Of(s).legs) \in [Places -> Objects \cup {None}]
    <3>1. ASSUME NEW i \in Places, network[i] # None
          PROVE  [network[i] EXCEPT !.fortescue = Of(s).legs] \in Objects
      BY <2>1, <3>1 DEF IInv, TypeOK, Objects
    <3> QED  BY <3>1 DEF WithFortescue, Host, IInv, TypeOK
  <2>3. network' \in [Places -> Objects \cup {None}] /\ born' \in Nat
    BY <1>8, <2>2 DEF AddFortescue, IInv, TypeOK
  <2> QED  BY <1>3, <1>8, <2>3 DEF AddFortescue
<1> QED  BY <1>4, <1>5, <1>6, <1>7, <1>8 DEF AddMain, AddLeg, AddPosition, Refused

LEMMA IInvRemove ==
  ASSUME IInv, NEW i \in Ids, Remove(i)
  PROVE  IInv'
BY DEF Remove, IInv, TypeOK, OneAdderEach, Places

\* What becomes of the Java adders when C++ adders end or move.
LEMMA IInvDrop ==
  ASSUME IInv, NEW s \in Slots, Drop(s)
  PROVE  IInv' /\ \A g \in registered' : pending'[g] = pending[g]
<1> DEFINE live == registered \ {adder[s]}
<1>1. /\ adder' = [adder EXCEPT ![s] = Gone] /\ GiveUp(live) /\ UNCHANGED java
      /\ registered' = live
  BY DEF Drop, GiveUp
<1>2. adder'[s] = Gone /\ \A t \in Slots \ {s} : adder'[t] = adder[t]
  BY <1>1 DEF IInv, TypeOK
<1>3. adder' \in [Slots -> Handles \cup {NoHandle, Gone}]
  BY <1>1 DEF IInv, TypeOK
<1>4. \A x, y \in Slots : adder'[x] \in Handles /\ adder'[x] = adder'[y] => x = y
  BY <1>2 DEF IInv, OneAdderEach
<1>5. live = {g \in Handles : \E x \in Slots : adder'[x] = g}
  <2>1. ASSUME NEW g \in live PROVE g \in Handles /\ \E x \in Slots : adder'[x] = g
    BY <1>2 DEF IInv, OneAdderEach
  <2>2. ASSUME NEW g \in Handles, NEW x \in Slots, adder'[x] = g PROVE g \in live
    <3>1. x # s /\ adder[x] = g
      BY <1>2, <2>2
    <3>2. g \in registered /\ g # adder[s]
      BY <3>1 DEF IInv, OneAdderEach
    <3> QED  BY <3>2
  <2> QED  BY <2>1, <2>2
<1> HIDE DEF live
<1>6. live \in SUBSET registered
  BY DEF live
<1> QED  BY <1>1, <1>3, <1>4, <1>5, <1>6, IInvGiveUp

LEMMA IInvMove ==
  ASSUME IInv, NEW s \in Slots, NEW d \in Slots, Move(s, d)
  PROVE  IInv'
<1>1. /\ adder' = [adder EXCEPT ![s] = NoHandle, ![d] = adder[s]] /\ s # d
      /\ adder[s] \in Handles \cup {NoHandle} /\ UNCHANGED <<pending, registered, java>>
  BY CreationConstants DEF Move, IInv, TypeOK
<1>2. /\ adder'[s] = NoHandle /\ adder'[d] = adder[s]
      /\ \A t \in Slots \ {s, d} : adder'[t] = adder[t]
      /\ adder[d] = Gone
  BY <1>1 DEF IInv, TypeOK, Move
<1>3. TypeOK'
  BY <1>1 DEF IInv, TypeOK, java
<1>4. \A x, y \in Slots : adder'[x] \in Handles /\ adder'[x] = adder'[y] => x = y
  BY <1>1, <1>2, CreationConstants DEF IInv, OneAdderEach
<1>5. \A g \in Handles : (\E x \in Slots : adder'[x] = g) <=> (\E x \in Slots : adder[x] = g)
  BY <1>1, <1>2, CreationConstants
<1> QED  BY <1>1, <1>3, <1>4, <1>5 DEF IInv, OneAdderEach

LEMMA IInvMoveAssign ==
  ASSUME IInv, NEW s \in Slots, NEW d \in Slots, MoveAssign(s, d)
  PROVE  IInv' /\ \A g \in registered' : pending'[g] = pending[g]
<1> DEFINE live == registered \ {adder[d]}
<1>1. /\ adder' = [adder EXCEPT ![s] = NoHandle, ![d] = adder[s]] /\ s # d
      /\ adder[s] \in Handles \cup {NoHandle} /\ adder[d] \in Handles \cup {NoHandle}
      /\ GiveUp(live) /\ UNCHANGED java /\ registered' = live /\ NoHandle \notin Handles
  BY CreationConstants DEF MoveAssign, GiveUp, IInv, TypeOK
<1>2. /\ adder'[s] = NoHandle /\ adder'[d] = adder[s]
      /\ \A t \in Slots \ {s, d} : adder'[t] = adder[t]
  BY <1>1 DEF IInv, TypeOK
<1>3. adder' \in [Slots -> Handles \cup {NoHandle, Gone}]
  BY <1>1 DEF IInv, TypeOK
<1>4. \A x, y \in Slots : adder'[x] \in Handles /\ adder'[x] = adder'[y] => x = y
  BY <1>1, <1>2 DEF IInv, OneAdderEach
<1>5. live = {g \in Handles : \E x \in Slots : adder'[x] = g}
  <2>1. ASSUME NEW g \in live PROVE g \in Handles /\ \E x \in Slots : adder'[x] = g
    BY <1>1, <1>2 DEF IInv, OneAdderEach
  <2>2. ASSUME NEW g \in Handles, NEW x \in Slots, adder'[x] = g PROVE g \in live
    <3>1. CASE x = d
      <4>1. g = adder[s] /\ g # adder[d]
        BY <1>1, <1>2, <2>2, <3>1 DEF IInv, OneAdderEach
      <4> QED  BY <4>1 DEF IInv, OneAdderEach
    <3>2. CASE x # d
      <4>1. adder[x] = g
        BY <1>2, <2>2, <3>2
      <4>2. g \in registered /\ g # adder[d]
        BY <3>2, <4>1 DEF IInv, OneAdderEach
      <4> QED  BY <4>2
    <3> QED  BY <3>1, <3>2
  <2> QED  BY <2>1, <2>2
<1> HIDE DEF live
<1>6. live \in SUBSET registered
  BY DEF live
<1> QED  BY <1>1, <1>3, <1>4, <1>5, <1>6, IInvGiveUp

LEMMA IInvStep == IInv /\ [Next]_vars => IInv'
<1> SUFFICES ASSUME IInv, [Next]_vars PROVE IInv'
  OBVIOUS
<1>1. CASE UNCHANGED vars
  BY <1>1, IInvRefused DEF vars, java
<1>2. ASSUME NEW s \in Slots, NEW h \in Handles,
             New(s, h) \/ NewExtension(s, h) \/ NewCopy(s, h) \/ CopyRefused(s, h)
             \/ \E p \in Slots : NewLeg(p, s, h)
      PROVE  IInv'
  BY <1>2, IInvBegin, IInvRefused DEF CopyRefused
<1>3. ASSUME NEW s \in Slots, OnAdder(s) PROVE IInv'
  <2>1. CASE Setter(s)
    <3>1. CASE answer' = "ok"
      BY <2>1, <3>1, IInvSet
    <3>2. CASE answer' # "ok"
      <4>1. UNCHANGED <<adder, pending, registered, java>>
        BY <2>1, <3>2
        DEF Setter, SetId, SetValue, SelectLeg, SetLegField, AddCoordinate, SetField, Refused
      <4> QED  BY <4>1, IInvRefused
    <3> QED  BY <3>1, <3>2
  <2>2. CASE AddMain(s) \/ AddLeg(s) \/ AddPosition(s) \/ AddFortescue(s)
    BY <2>2, IInvAdd
  <2>3. CASE UseMovedFrom(s)
    BY <2>3, IInvRefused DEF UseMovedFrom, Refused
  <2>4. CASE Drop(s)
    BY <2>4, IInvDrop
  <2> QED  BY <1>3, <2>1, <2>2, <2>3, <2>4 DEF OnAdder, Setter
<1>4. ASSUME NEW s \in Slots, NEW d \in Slots, Move(s, d) \/ MoveAssign(s, d) PROVE IInv'
  BY <1>4, IInvMove, IInvMoveAssign
<1>5. ASSUME NEW i \in Ids, Remove(i) PROVE IInv'
  BY <1>5, IInvRemove
<1> QED  BY <1>1, <1>2, <1>3, <1>4, <1>5 DEF Next

(***************************************************************************)
(* What holds of every state, whatever adders are made, moved, copied,     *)
(* refused and dropped, in any order.                                      *)
(***************************************************************************)
THEOREM Inductive == Spec => []IInv
BY IInvInit, IInvStep, PTL DEF Spec

\* The adders, what they describe and the network keep their types.
THEOREM TypeCorrect == Spec => []TypeOK
<1>1. IInv => TypeOK
  BY DEF IInv
<1> QED  BY <1>1, Inductive, PTL

\* One C++ adder drives each Java adder, which exists, and a leg's transformer's adder with it.
THEOREM OneAdder == Spec => []OneAdderEach
<1>1. IInv => OneAdderEach
  BY DEF IInv
<1> QED  BY <1>1, Inductive, PTL

(***************************************************************************)
(* The refinement: the drafts of the promise are what the Java adders of   *)
(* the registry describe.                                                  *)
(***************************************************************************)
Drafted == [h \in Handles |-> Draft(h)]

\* The promise and the code speak of the same data.
LEMMA SameData ==
  /\ Promise!StartNetwork = StartNetwork /\ Promise!MainKinds = MainKinds
  /\ Promise!ExtensionKinds = ExtensionKinds /\ Promise!Places = Places
  /\ \A net, d : Promise!Acceptable(net, d) = Acceptable(net, d)
  /\ \A net, i, k : Promise!Extendable(net, i, k) = Extendable(net, i, k)
  /\ \A k, host : Promise!Blank(k, host) = Blank(k, host)
  /\ \A object : Promise!CopyOf(object) = CopyOf(object)
  /\ \A net, d, birth : Promise!WithObject(net, d, birth) = WithObject(net, d, birth)
  /\ \A net, birth, c : Promise!WithPosition(net, birth, c) = WithPosition(net, birth, c)
  /\ \A net, birth, l : Promise!WithFortescue(net, birth, l) = WithFortescue(net, birth, l)
BY DEF Promise!StartNetwork, StartNetwork, Promise!MainKinds, MainKinds, Promise!ExtensionKinds,
   ExtensionKinds, Promise!Places, Places, Promise!Acceptable, Acceptable, Promise!Free, Free,
   Promise!Extendable, Extendable, Promise!Blank, Blank, Promise!CopyOf, CopyOf,
   Promise!WithObject, WithObject, Promise!WithPosition, WithPosition, Promise!WithFortescue,
   WithFortescue, Promise!Host, Host, Promise!Object, Object, Promise!Substation, Substation,
   Promise!NoLegs, NoLegs

\* What a registered handle describes, and how the promise sees it.
LEMMA DraftIs ==
  ASSUME IInv, NEW h \in Handles
  PROVE  /\ Drafted[h] = Draft(h)
         /\ h \notin registered => Draft(h) = None
         /\ h \in registered =>
              /\ pending[h] \in Described /\ Draft(h) # None
              /\ Draft(h).kind = pending[h].kind /\ Draft(h).host = pending[h].host
              /\ Draft(h).side = pending[h].side /\ Draft(h).legs = pending[h].legs
              /\ pending[h].kind # "SUBSTATION_POSITION" => Draft(h) = pending[h]
<1>1. Drafted[h] = Draft(h) /\ (h \notin registered => Draft(h) = None)
  BY DEF Drafted, Draft
<1>2. ASSUME h \in registered
      PROVE  /\ pending[h] \in Described /\ Draft(h) # None
             /\ Draft(h).kind = pending[h].kind /\ Draft(h).host = pending[h].host
             /\ Draft(h).side = pending[h].side /\ Draft(h).legs = pending[h].legs
             /\ pending[h].kind # "SUBSTATION_POSITION" => Draft(h) = pending[h]
  <2>1. pending[h] \in Described /\ pending[h] # None
    BY <1>2 DEF IInv, TypeOK, OneAdderEach
  <2> DEFINE set == pending[h].coordinates
             last == [pending[h] EXCEPT !.coordinates = <<set[Len(set)]>>]
  <2>2. ASSUME set # <<>> PROVE last \in Described
    <3>1. set \in Seq(Coordinates)
      BY <2>1 DEF Described
    <3>2. <<set[Len(set)]>> \in Seq(Coordinates)
      BY <2>2, <3>1
    <3> QED  BY <2>1, <3>2 DEF Described
  <2>3. /\ last.kind = pending[h].kind /\ last.host = pending[h].host
        /\ last.side = pending[h].side /\ last.legs = pending[h].legs
    BY <2>1 DEF Described
  <2>4. Draft(h) = IF pending[h].kind = "SUBSTATION_POSITION" /\ set # <<>>
                   THEN last ELSE pending[h]
    BY <1>2 DEF Draft
  <2> HIDE DEF last, set
  <2> QED  BY <2>1, <2>2, <2>3, <2>4
<1> QED  BY <1>1, <1>2

LEMMA DraftsKept ==
  ASSUME UNCHANGED <<pending, registered>>
  PROVE  Drafted' = Drafted
BY DEF Drafted, Draft

LEMMA DraftsGivenUp ==
  ASSUME IInv, NEW h \in Handles, registered' = registered \ {h},
         \A g \in registered' : pending'[g] = pending[g]
  PROVE  Drafted' = [Drafted EXCEPT ![h] = None]
<1>1. \A g \in Handles : Draft(g)' = IF g = h THEN None ELSE Draft(g)
  BY DEF Draft
<1> QED  BY <1>1 DEF Drafted

LEMMA DraftsSet ==
  ASSUME IInv, NEW h \in Handles, NEW told \in Described,
         pending' = [pending EXCEPT ![h] = told], registered' = registered \cup {h}
  PROVE  /\ Drafted' = [Drafted EXCEPT ![h] = Draft(h)']
         /\ Draft(h)' = IF told.kind = "SUBSTATION_POSITION" /\ told.coordinates # <<>>
                        THEN [told EXCEPT !.coordinates =
                                <<told.coordinates[Len(told.coordinates)]>>]
                        ELSE told
<1>1. pending'[h] = told /\ \A g \in Handles \ {h} : pending'[g] = pending[g]
  BY DEF IInv, TypeOK
<1>2. \A g \in Handles \ {h} : Draft(g)' = Draft(g)
  BY <1>1 DEF Draft
<1>3. Drafted' = [Drafted EXCEPT ![h] = Draft(h)']
  BY <1>2 DEF Drafted
<1>4. Draft(h)' = IF told.kind = "SUBSTATION_POSITION" /\ told.coordinates # <<>>
                  THEN [told EXCEPT !.coordinates =
                          <<told.coordinates[Len(told.coordinates)]>>]
                  ELSE told
  BY <1>1 DEF Draft
<1> QED  BY <1>3, <1>4

----------------------------------------------------------------------------
\* The steps, each as a step of the promise.
LEMMA InitRefines == Init => Promise!Init
<1> SUFFICES ASSUME Init PROVE Promise!Init
  OBVIOUS
<1>1. \A h \in Handles : Draft(h) = None
  BY DEF Init, Draft
<1> QED  BY <1>1, SameData DEF Init, Promise!Init

\* Nothing that the promise speaks of.
LEMMA RefinesNothing ==
  ASSUME UNCHANGED <<pending, registered, java>>, answer' \in {"ok", "InvalidHandle", "NoCopy"}
  PROVE  Promise!Next
<1>1. Drafted' = Drafted
  BY DraftsKept
<1> QED  BY <1>1 DEF Promise!Next, Promise!Nothing, Drafted, java

\* A new adder is a draft begun: its handle is that of no adder a leg goes to.
LEMMA RefinesBegin ==
  ASSUME IInv, NEW s \in Slots, NEW h \in Handles, NEW described \in Described,
         described.coordinates = <<>>, NewAdder(s, h, described)
  PROVE  Drafted[h] = None /\ Promise!Begin(h, described)
<1>1. /\ h \notin registered /\ h \notin Parents(pending, registered)
      /\ pending' = [pending EXCEPT ![h] = described] /\ registered' = registered \cup {h}
      /\ answer' = "ok" /\ UNCHANGED java
  BY DEF NewAdder, Fresh, Reachable
<1>2. Drafted[h] = None
  BY <1>1, DraftIs
<1>3. Drafted' = [Drafted EXCEPT ![h] = described]
  BY <1>1, DraftsSet
<1>4. h \notin {Drafted[d].host : d \in {e \in Handles : Drafted[e] # None
                                                      /\ Drafted[e].kind = "LEG"}}
  <2> SUFFICES ASSUME NEW d \in Handles, Drafted[d] # None, Drafted[d].kind = "LEG",
                      Drafted[d].host = h
               PROVE  FALSE
    OBVIOUS
  <2>1. d \in registered /\ pending[d].kind = "LEG" /\ pending[d].host = h
    BY DraftIs
  <2>2. pending[d] # None
    BY <2>1 DEF IInv, OneAdderEach
  <2> QED  BY <1>1, <2>1, <2>2 DEF Parents
<1> QED  BY <1>1, <1>2, <1>3, <1>4 DEF Promise!Begin, Promise!Parents, Drafted, java

LEMMA RefinesNew ==
  ASSUME IInv, NEW s \in Slots, NEW h \in Handles,
         New(s, h) \/ NewExtension(s, h) \/ NewCopy(s, h) \/ \E p \in Slots : NewLeg(p, s, h)
  PROVE  Promise!Next
<1>1. ASSUME Drafted[h] = None, Promise!BeginOf(h) PROVE Promise!Next
  BY <1>1 DEF Promise!Next, Drafted
<1>2. ASSUME New(s, h) PROVE Promise!Next
  <2>1. PICK k \in MainKinds : NewAdder(s, h, Blank(k, None))
    BY <1>2 DEF New
  <2>2. k \in Kinds
    BY DEF Kinds
  <2>3. Blank(k, None) \in Described /\ Blank(k, None).coordinates = <<>>
    BY <2>2, BlankDescribed DEF Blank
  <2>4. Drafted[h] = None /\ Promise!Begin(h, Blank(k, None))
    BY <2>1, <2>3, RefinesBegin
  <2>5. Promise!BeginMain(h)
    BY <2>4, SameData DEF Promise!BeginMain
  <2> QED  BY <1>1, <2>4, <2>5 DEF Promise!BeginOf
<1>3. ASSUME NewExtension(s, h) PROVE Promise!Next
  <2>1. PICK k \in ExtensionKinds, i \in Places :
          Extendable(network, i, k) /\ NewAdder(s, h, Blank(k, network[i].birth))
    BY <1>3 DEF NewExtension
  <2>2. k \in Kinds /\ network[i].birth \in Nat
    BY <2>1 DEF Kinds, Extendable, IInv, TypeOK, Objects
  <2>3. Blank(k, network[i].birth) \in Described /\ Blank(k, network[i].birth).coordinates = <<>>
    BY <2>2, BlankDescribed DEF Blank
  <2>4. Drafted[h] = None /\ Promise!Begin(h, Blank(k, network[i].birth))
    BY <2>1, <2>3, RefinesBegin
  <2>5. Promise!BeginExtension(h)
    BY <2>1, <2>4, SameData DEF Promise!BeginExtension
  <2> QED  BY <1>1, <2>4, <2>5 DEF Promise!BeginOf
<1>4. ASSUME NewCopy(s, h) PROVE Promise!Next
  <2>1. PICK i \in Ids : /\ network[i] # None /\ network[i].kind = "LINE"
                         /\ NewAdder(s, h, CopyOf(network[i]))
    BY <1>4 DEF NewCopy
  <2>2. "LINE" \in Kinds /\ network[i].value \in Values \cup {None}
    BY <2>1 DEF MainKinds, Kinds, IInv, TypeOK, Objects, Places
  <2>3. CopyOf(network[i]) \in Described /\ CopyOf(network[i]).coordinates = <<>>
    BY <2>2, BlankDescribed DEF CopyOf, Described, Blank
  <2>4. Drafted[h] = None /\ Promise!Begin(h, CopyOf(network[i]))
    BY <2>1, <2>3, RefinesBegin
  <2>5. Promise!BeginCopy(h)
    BY <2>1, <2>4, SameData DEF Promise!BeginCopy
  <2> QED  BY <1>1, <2>4, <2>5 DEF Promise!BeginOf
<1>5. ASSUME NEW p \in Slots, NewLeg(p, s, h) PROVE Promise!Next
  <2>1. PICK side \in Sides :
          /\ Holds(p, {"TRANSFORMER"})
          /\ NewAdder(s, h, [Blank("LEG", adder[p]) EXCEPT !.side = side])
    BY <1>5 DEF NewLeg
  <2>2. adder[p] \in registered /\ adder[p] \in Handles /\ pending[adder[p]].kind = "TRANSFORMER"
    BY <2>1, AdderIsThere DEF Holds
  <2>3. Drafted[adder[p]] # None /\ Drafted[adder[p]].kind = "TRANSFORMER"
    BY <2>2, DraftIs
  <2> DEFINE leg == [Blank("LEG", adder[p]) EXCEPT !.side = side]
  <2>4. leg \in Described /\ leg.coordinates = <<>>
    <3>1. "LEG" \in Kinds
      BY DEF Kinds
    <3> QED  BY <2>2, <3>1, BlankDescribed, FieldsDescribed DEF Blank
  <2> HIDE DEF leg
  <2>5. Drafted[h] = None /\ Promise!Begin(h, leg)
    BY <2>1, <2>4, RefinesBegin DEF leg
  <2>6. Promise!BeginLeg(h)
    BY <2>2, <2>3, <2>5, SameData DEF Promise!BeginLeg, Drafted, leg
  <2> QED  BY <1>1, <2>5, <2>6 DEF Promise!BeginOf
<1> QED  BY <1>2, <1>3, <1>4, <1>5

\* What is done with the adder of a slot is done to its draft.
LEMMA OnItsDraft ==
  ASSUME IInv, NEW s \in Slots, adder[s] \in registered, Promise!OnDraft(adder[s])
  PROVE  Promise!Next
<1>1. adder[s] \in Handles
  BY DEF IInv, TypeOK
<1>2. Drafted[adder[s]] # None
  BY <1>1, DraftIs
<1> QED  BY <1>1, <1>2 DEF Promise!Next, Drafted

LEMMA RefinesSet ==
  ASSUME IInv, NEW s \in Slots, Setter(s), answer' = "ok"
  PROVE  Promise!Next
<1> DEFINE h == adder[s]
<1>1. h \in registered
  BY IInvSet
<1>2. PICK told \in Described : Told(h, told) /\ told.kind = Of(s).kind /\ OneField(Of(s), told)
  BY IInvSet
<1>3. h \in Handles /\ Of(s) = pending[h] /\ Of(s) \in Described
  BY <1>1, AdderIsThere DEF IInv, TypeOK
<1>4. /\ Drafted' = [Drafted EXCEPT ![h] = Draft(h)'] /\ answer' = "ok" /\ UNCHANGED <<network, born>>
      /\ Draft(h)' = IF told.kind = "SUBSTATION_POSITION" /\ told.coordinates # <<>>
                     THEN [told EXCEPT !.coordinates =
                             <<told.coordinates[Len(told.coordinates)]>>]
                     ELSE told
  <2>1. registered' = registered \cup {h}
    BY <1>1, <1>2 DEF Told
  <2> QED  BY <1>2, <1>3, <2>1, DraftsSet DEF Told, java
<1>5. \A new : Drafted' = [Drafted EXCEPT ![h] = new] => Promise!Say(h, new)
  BY <1>4 DEF Promise!Say, Drafted
<1>6. /\ Drafted[h].kind = Of(s).kind /\ Drafted[h].side = Of(s).side
      /\ Of(s).kind # "SUBSTATION_POSITION" => Drafted[h] = Of(s)
  BY <1>1, <1>3, DraftIs
<1> HIDE DEF h
<1>7. ASSUME Of(s).kind # "SUBSTATION_POSITION" PROVE Drafted[h] = Of(s) /\ Promise!Say(h, told)
  BY <1>2, <1>4, <1>5, <1>6, <1>7
<1>8. CASE Of(s).kind \in MainKinds /\ \E i \in Ids : told = [Of(s) EXCEPT !.id = i]
  <2>1. Of(s).kind # "SUBSTATION_POSITION"
    BY <1>8 DEF MainKinds
  <2>2. PICK i \in Ids : told = [Of(s) EXCEPT !.id = i]
    BY <1>8
  <2>3. Promise!Say(h, [Drafted[h] EXCEPT !.id = i]) /\ Drafted[h].kind \in Promise!MainKinds
    BY <1>7, <1>8, <2>1, <2>2 DEF Promise!MainKinds, MainKinds
  <2>4. Promise!SayId(h)
    BY <2>3 DEF Promise!SayId, Drafted
  <2> QED  BY <1>1, <2>4, OnItsDraft DEF Promise!OnDraft, h
<1>9. CASE Of(s).kind \in {"LINE", "LEG"} /\ \E v \in Values : told = [Of(s) EXCEPT !.value = v]
  <2>1. Promise!SayValue(h)
    BY <1>7, <1>9 DEF Promise!SayValue, Drafted
  <2> QED  BY <1>1, <2>1, OnItsDraft DEF Promise!OnDraft, h
<1>10. CASE Of(s).kind = "FORTESCUE" /\ \E x \in Sides : told = [Of(s) EXCEPT !.side = x]
  <2>1. Promise!SayWhichLeg(h)
    BY <1>7, <1>10 DEF Promise!SayWhichLeg, Drafted
  <2> QED  BY <1>1, <2>1, OnItsDraft DEF Promise!OnDraft, h
<1>11. CASE /\ Of(s).kind = "FORTESCUE" /\ Of(s).side # None
            /\ \E v \in Values : told = [Of(s) EXCEPT !.legs[Of(s).side] = v]
  <2>1. Promise!SayLeg(h)
    BY <1>7, <1>11 DEF Promise!SayLeg, Drafted
  <2> QED  BY <1>1, <2>1, OnItsDraft DEF Promise!OnDraft, h
<1>12. CASE /\ Of(s).kind \in {"LINE_POSITION", "SUBSTATION_POSITION"}
            /\ \E c \in Coordinates : told = [Of(s) EXCEPT !.coordinates = Append(@, c)]
  <2>1. PICK c \in Coordinates : told = [Of(s) EXCEPT !.coordinates = Append(@, c)]
    BY <1>12
  <2>2. ASSUME Of(s).kind = "LINE_POSITION" PROVE Promise!SayCoordinate(h)
    <3>1. /\ Promise!Say(h, [Drafted[h] EXCEPT !.coordinates = Append(@, c)])
          /\ Drafted[h].kind = "LINE_POSITION"
      BY <1>7, <2>1, <2>2
    <3> QED  BY <3>1 DEF Promise!SayCoordinate, Drafted
  <2>3. ASSUME Of(s).kind = "SUBSTATION_POSITION" PROVE Promise!SayCoordinate(h)
    <3> DEFINE set == Of(s).coordinates
    <3>1. set \in Seq(Coordinates) /\ told.coordinates = Append(set, c)
      BY <1>3, <2>1 DEF Described
    <3>2. Append(set, c) # <<>> /\ Append(set, c)[Len(Append(set, c))] = c
      <4> HIDE DEF set
      <4>1. Len(Append(set, c)) = Len(set) + 1 /\ Append(set, c)[Len(set) + 1] = c
        BY <3>1
      <4>2. Len(set) \in Nat /\ Append(set, c) \in Seq(Coordinates)
        BY <3>1
      <4> QED  BY <4>1, <4>2
    <3>3. Draft(h)' = [told EXCEPT !.coordinates = <<c>>]
      BY <1>2, <1>4, <2>3, <3>1, <3>2
    <3>4. [told EXCEPT !.coordinates = <<c>>] = [Of(s) EXCEPT !.coordinates = <<c>>]
      BY <1>3, <2>1 DEF Described
    <3>5. [Drafted[h] EXCEPT !.coordinates = <<c>>] = [Of(s) EXCEPT !.coordinates = <<c>>]
      <4>1. Drafted[h] = Draft(h) /\ h \in registered /\ h \in Handles /\ Of(s) = pending[h]
        BY <1>1, <1>3, DraftIs DEF h
      <4> QED  BY <1>3, <4>1 DEF Draft, Described
    <3>6. Promise!Say(h, [Drafted[h] EXCEPT !.coordinates = <<c>>])
      BY <1>4, <1>5, <3>3, <3>4, <3>5
    <3>7. Drafted[h].kind = "SUBSTATION_POSITION"
      BY <1>6, <2>3
    <3> QED  BY <3>6, <3>7 DEF Promise!SayCoordinate, Drafted
  <2>4. Promise!OnDraft(h)
    BY <1>12, <2>2, <2>3 DEF Promise!OnDraft
  <2> QED  BY <1>1, <2>4, OnItsDraft DEF h
<1> QED  BY <1>2, <1>8, <1>9, <1>10, <1>11, <1>12 DEF OneField

\* A refused add() or field.
LEMMA RefinesRefused ==
  ASSUME IInv, NEW s \in Slots, adder[s] \in Handles, Refused("Validation"),
         \/ ~Acceptable(network, Drafted[adder[s]])
         \/ Drafted[adder[s]].kind = "FORTESCUE" /\ Drafted[adder[s]].side = None
  PROVE  Promise!Next
<1>1. adder[s] \in registered
  BY AdderIsThere
<1>2. Drafted' = Drafted /\ answer' = "Validation" /\ UNCHANGED <<network, born>>
  BY DraftsKept DEF Refused, java
<1>3. \A net, d : Promise!Acceptable(net, d) = Acceptable(net, d)
  BY SameData
<1>4. Promise!Refuse(adder[s])
  BY <1>2, <1>3 DEF Promise!Refuse, Drafted
<1> QED  BY <1>1, <1>4, OnItsDraft DEF Promise!OnDraft

\* A completed draft changes the network by what its adder describes.
LEMMA RefinesAdd ==
  ASSUME IInv, NEW s \in Slots,
         AddMain(s) \/ AddPosition(s) \/ AddFortescue(s)
  PROVE  Promise!Next
<1> DEFINE h == adder[s]
<1>1. h \in Handles
  BY DEF AddMain, AddPosition, AddFortescue, Holds
<1>2. h \in registered /\ Of(s) = pending[h] /\ Of(s) \in Described
  BY <1>1, AdderIsThere
<1>3. /\ Drafted[h] = Draft(h) /\ Drafted[h].kind = Of(s).kind
      /\ Drafted[h].host = Of(s).host /\ Drafted[h].legs = Of(s).legs
      /\ Of(s).kind # "SUBSTATION_POSITION" => Drafted[h] = Of(s)
  BY <1>1, <1>2, DraftIs
<1>4. ASSUME Promise!Complete(h) PROVE Promise!Next
  BY <1>2, <1>4, OnItsDraft DEF Promise!OnDraft
<1>5. UNCHANGED <<pending, registered>> => Drafted' = Drafted
  BY DraftsKept
<1>6. /\ \A net, d : Promise!Acceptable(net, d) = Acceptable(net, d)
      /\ \A net, d, birth : Promise!WithObject(net, d, birth) = WithObject(net, d, birth)
      /\ \A net, birth, c : Promise!WithPosition(net, birth, c) = WithPosition(net, birth, c)
      /\ \A net, birth, l : Promise!WithFortescue(net, birth, l) = WithFortescue(net, birth, l)
      /\ Promise!MainKinds = MainKinds
  BY SameData
<1>7. ASSUME AddMain(s) PROVE Promise!Next
  <2>1. Of(s).kind \in MainKinds /\ Drafted[h] = Of(s)
    BY <1>3, <1>7 DEF AddMain, Holds, Of, MainKinds
  <2>2. CASE Acceptable(network, Of(s))
    <3>1. /\ Drafted' = Drafted /\ born < MaxObjects /\ born' = born + 1 /\ answer' = "ok"
          /\ network' = WithObject(network, Drafted[h], born + 1)
      BY <1>5, <1>7, <2>1, <2>2 DEF AddMain
    <3>2. Acceptable(network, Drafted[h]) /\ Drafted[h].kind \in MainKinds
      BY <2>1, <2>2
    <3>3. Promise!Complete(h)
      BY <1>6, <3>1, <3>2 DEF Promise!Complete, Drafted
    <3> QED  BY <1>4, <3>3
  <2>3. CASE ~Acceptable(network, Of(s))
    BY <1>1, <1>7, <2>1, <2>3, RefinesRefused DEF AddMain
  <2> QED  BY <2>2, <2>3
<1>8. ASSUME AddPosition(s) PROVE Promise!Next
  <2> DEFINE set == Of(s).coordinates
             last == [Of(s) EXCEPT !.coordinates = <<set[Len(set)]>>]
  <2>1. Of(s).kind \in {"LINE_POSITION", "SUBSTATION_POSITION"}
    BY <1>8 DEF AddPosition, Holds, Of
  <2>2. Draft(h) = IF Of(s).kind = "SUBSTATION_POSITION" /\ set # <<>> THEN last ELSE Of(s)
    BY <1>2 DEF Draft
  <2>3. last.coordinates = <<set[Len(set)]>> /\ last.kind = Of(s).kind /\ <<set[Len(set)]>> # <<>>
    BY <1>2 DEF Described
  <2>4. CASE Of(s).kind = "SUBSTATION_POSITION" /\ set = <<>>
    <3>1. Refused("Validation")
      BY <1>8, <2>4 DEF AddPosition
    <3>2. Drafted[h] = Of(s) /\ ~Acceptable(network, Of(s))
      BY <1>3, <2>2, <2>4 DEF Acceptable
    <3> QED  BY <1>1, <3>1, <3>2, RefinesRefused
  <2>5. CASE ~(Of(s).kind = "SUBSTATION_POSITION" /\ set = <<>>)
    <3>1. /\ UNCHANGED <<adder, pending, registered, born>> /\ answer' = "ok"
          /\ network' = WithPosition(network, Of(s).host,
                                     IF Of(s).kind = "LINE_POSITION" THEN set
                                     ELSE <<set[Len(set)]>>)
      BY <1>8, <2>1, <2>5 DEF AddPosition
    <3>2. Drafted[h].coordinates = IF Of(s).kind = "LINE_POSITION" THEN set
                                   ELSE <<set[Len(set)]>>
      <4> HIDE DEF last, set
      <4>1. CASE Of(s).kind = "LINE_POSITION"
        BY <1>3, <4>1 DEF set
      <4>2. CASE Of(s).kind = "SUBSTATION_POSITION"
        BY <1>3, <2>2, <2>3, <2>5, <4>2
      <4> QED  BY <2>1, <4>1, <4>2
    <3>3. Acceptable(network, Drafted[h])
      <4>1. CASE Of(s).kind = "LINE_POSITION"
        BY <1>3, <4>1 DEF Acceptable
      <4>2. CASE Of(s).kind = "SUBSTATION_POSITION"
        <5>1. Drafted[h].coordinates # <<>>
          BY <3>2, <2>3, <4>2
        <5> QED  BY <1>3, <4>2, <5>1 DEF Acceptable
      <4> QED  BY <2>1, <4>1, <4>2
    <3>4. Drafted[h].kind \in {"LINE_POSITION", "SUBSTATION_POSITION"}
      BY <1>3, <2>1
    <3>5. network' = WithPosition(network, Drafted[h].host, Drafted[h].coordinates)
      BY <1>3, <3>1, <3>2
    <3>6. Promise!Complete(h)
      BY <1>5, <1>6, <3>1, <3>3, <3>4, <3>5 DEF Promise!Complete, Drafted
    <3> QED  BY <1>4, <3>6
  <2> QED  BY <2>4, <2>5
<1>9. ASSUME AddFortescue(s) PROVE Promise!Next
  <2>1. Of(s).kind = "FORTESCUE" /\ Drafted[h] = Of(s)
    BY <1>3, <1>9 DEF AddFortescue, Holds, Of
  <2>2. /\ Drafted' = Drafted /\ UNCHANGED born /\ answer' = "ok"
        /\ network' = WithFortescue(network, Drafted[h].host, Drafted[h].legs)
    BY <1>5, <1>9, <2>1 DEF AddFortescue
  <2>3. Acceptable(network, Drafted[h]) /\ Drafted[h].kind = "FORTESCUE"
    BY <2>1 DEF Acceptable
  <2>4. Promise!Complete(h)
    BY <1>6, <2>2, <2>3 DEF Promise!Complete, Drafted
  <2> QED  BY <1>4, <2>4
<1> QED  BY <1>7, <1>8, <1>9

\* A leg completed is a leg of its transformer's draft, if that one is still there.
LEMMA RefinesAddLeg ==
  ASSUME IInv, NEW s \in Slots, AddLeg(s)
  PROVE  Promise!Next
<1> DEFINE h == adder[s]
           p == Of(s).host
           told == [pending[p] EXCEPT !.legs[Of(s).side] = Of(s).value]
<1>1. h \in Handles /\ Of(s).kind = "LEG"
  BY DEF AddLeg, Holds, Of
<1>2. h \in registered /\ Of(s) = pending[h] /\ Of(s) \in Described
  BY <1>1, AdderIsThere
<1>3. Drafted[h] = Of(s)
  BY <1>1, <1>2, DraftIs
<1>4. /\ Of(s).side \in Sides /\ p \in Handles /\ pending[p] # None
      /\ pending[p].kind = "TRANSFORMER"
  BY <1>1, <1>2, LegIsThere
<1>5. CASE ~Acceptable(network, Of(s))
  BY <1>1, <1>3, <1>5, RefinesRefused DEF AddLeg
<1>6. CASE Acceptable(network, Of(s))
  <2>1. /\ pending' = [pending EXCEPT ![p].legs[Of(s).side] = Of(s).value]
        /\ answer' = "ok" /\ UNCHANGED <<adder, registered, java>>
    BY <1>6 DEF AddLeg
  <2>2. Of(s).value \in Values
    BY <1>1, <1>2, <1>6 DEF Acceptable, Described
  <2>3. pending[p] \in Described
    BY <1>4 DEF IInv, TypeOK
  <2>4. told \in Described /\ told.kind = "TRANSFORMER"
    BY <1>4, <2>2, <2>3, FieldsDescribed DEF Described
  <2>5. pending' = [pending EXCEPT ![p] = told]
    BY <1>4, <2>1 DEF IInv, TypeOK
  <2>6. Drafted' = IF Drafted[p] = None THEN Drafted
                   ELSE [Drafted EXCEPT ![p].legs[Drafted[h].side] = Drafted[h].value]
    <3>1. CASE p \in registered
      <4>1. Drafted[p] # None /\ Drafted[p] = pending[p]
        BY <1>4, <3>1, DraftIs
      <4>2. registered' = registered \cup {p}
        BY <2>1, <3>1
      <4> HIDE DEF told
      <4>3. Drafted' = [Drafted EXCEPT ![p] = told]
        BY <1>4, <2>4, <2>5, <4>2, DraftsSet
      <4>4. told = [Drafted[p] EXCEPT !.legs[Drafted[h].side] = Drafted[h].value]
        BY <1>3, <4>1 DEF told
      <4> QED  BY <4>1, <4>3, <4>4
    <3>2. CASE p \notin registered
      <4>1. Drafted[p] = None
        BY <1>4, <3>2, DraftIs
      <4> HIDE DEF told
      <4>2. \A g \in Handles \ {p} : pending'[g] = pending[g]
        BY <2>5 DEF IInv, TypeOK
      <4>3. \A g \in Handles : Draft(g)' = Draft(g)
        BY <2>1, <3>2, <4>2 DEF Draft
      <4>4. Drafted' = Drafted
        BY <4>3 DEF Drafted
      <4> QED  BY <4>1, <4>4
    <3> QED  BY <3>1, <3>2
  <2> HIDE DEF told
  <2>7. Acceptable(network, Drafted[h]) /\ Drafted[h].kind = "LEG" /\ Drafted[h].host = p
    BY <1>1, <1>3, <1>6
  <2>8. UNCHANGED <<network, born>> /\ answer' = "ok"
    BY <2>1 DEF java
  <2>9. \A net, d : Promise!Acceptable(net, d) = Acceptable(net, d)
    BY SameData
  <2> HIDE DEF h, p
  <2>10. Promise!Complete(h)
    BY <2>6, <2>7, <2>8, <2>9 DEF Promise!Complete, Drafted
  <2> QED  BY <1>2, <2>10, OnItsDraft DEF Promise!OnDraft, h
<1> QED  BY <1>5, <1>6

\* An adder's end, or another one moved into its place, abandons its draft.
LEMMA RefinesAbandon ==
  ASSUME IInv, NEW h \in registered, registered' = registered \ {h},
         \A g \in registered' : pending'[g] = pending[g], answer' = "ok", UNCHANGED java
  PROVE  Promise!Next
<1>1. h \in Handles
  BY DEF IInv, TypeOK
<1>2. Drafted' = [Drafted EXCEPT ![h] = None] /\ Drafted[h] # None
  BY <1>1, DraftsGivenUp, DraftIs
<1>3. Promise!Abandon(h)
  BY <1>2 DEF Promise!Abandon, Drafted, java
<1> QED  BY <1>1, <1>2, <1>3 DEF Promise!Next, Promise!OnDraft, Drafted

\* What a moved-from adder gives up is no draft.
LEMMA RefinesGivingNothingUp ==
  ASSUME NEW h, h \notin registered, registered' = registered \ {h}, answer' = "ok",
         \A g \in registered' : pending'[g] = pending[g], UNCHANGED java
  PROVE  Promise!Next
<1>1. registered' = registered
  OBVIOUS
<1>2. \A g \in Handles : Draft(g)' = Draft(g)
  BY <1>1 DEF Draft
<1>3. Drafted' = Drafted
  BY <1>2 DEF Drafted
<1> QED  BY <1>3 DEF Promise!Next, Promise!Nothing, Drafted, java

LEMMA RefinesDrop ==
  ASSUME IInv, NEW s \in Slots, Drop(s)
  PROVE  Promise!Next
<1>1. /\ registered' = registered \ {adder[s]} /\ answer' = "ok" /\ UNCHANGED java
      /\ \A g \in registered' : pending'[g] = pending[g]
  BY IInvDrop DEF Drop, GiveUp
<1>2. CASE adder[s] \in registered
  BY <1>1, <1>2, RefinesAbandon
<1>3. CASE adder[s] \notin registered
  BY <1>1, <1>3, RefinesGivingNothingUp
<1> QED  BY <1>2, <1>3

LEMMA RefinesMoveAssign ==
  ASSUME IInv, NEW s \in Slots, NEW d \in Slots, MoveAssign(s, d)
  PROVE  Promise!Next
<1>1. /\ registered' = registered \ {adder[d]} /\ answer' = "ok" /\ UNCHANGED java
      /\ \A g \in registered' : pending'[g] = pending[g]
  BY IInvMoveAssign DEF MoveAssign, GiveUp
<1>2. CASE adder[d] \in registered
  BY <1>1, <1>2, RefinesAbandon
<1>3. CASE adder[d] \notin registered
  BY <1>1, <1>3, RefinesGivingNothingUp
<1> QED  BY <1>2, <1>3

LEMMA RefinesRemove ==
  ASSUME IInv, NEW i \in Ids, Remove(i)
  PROVE  Promise!Next
<1>1. Drafted' = Drafted
  BY DraftsKept DEF Remove
<1>2. Promise!Remove(i)
  BY <1>1 DEF Remove, Promise!Remove, Drafted
<1> QED  BY <1>2 DEF Promise!Next

(***************************************************************************)
(* Creation keeps its promise: the network is changed by whole accepted    *)
(* additions only, whatever the adders go through.                         *)
(***************************************************************************)
THEOREM Refines == Spec => Implements
<1>1. IInv /\ [Next]_vars => [Promise!Next]_(Promise!vars)
  <2> SUFFICES ASSUME IInv, [Next]_vars PROVE [Promise!Next]_(Promise!vars)
    OBVIOUS
  <2>1. CASE UNCHANGED vars
    <3>1. Drafted' = Drafted
      BY <2>1, DraftsKept DEF vars
    <3> QED  BY <2>1, <3>1 DEF vars, java, Promise!vars, Drafted
  <2>2. ASSUME NEW s \in Slots, NEW h \in Handles,
               New(s, h) \/ NewExtension(s, h) \/ NewCopy(s, h) \/ CopyRefused(s, h)
               \/ \E p \in Slots : NewLeg(p, s, h)
        PROVE  Promise!Next
    BY <2>2, RefinesNew, RefinesNothing DEF CopyRefused
  <2>3. ASSUME NEW s \in Slots, OnAdder(s) PROVE Promise!Next
    <3>1. CASE Setter(s)
      <4>1. CASE answer' = "ok"
        BY <3>1, <4>1, RefinesSet
      <4>2. CASE answer' # "ok"
        <5>1. adder[s] \in Handles /\ Of(s).kind = "FORTESCUE" /\ Of(s).side = None
              /\ Refused("Validation")
          BY <3>1, <4>2
          DEF Setter, SetId, SetValue, SelectLeg, SetLegField, AddCoordinate, SetField, Holds, Of
        <5>2. Drafted[adder[s]] = Of(s)
          BY <5>1, AdderIsThere, DraftIs
        <5> QED  BY <5>1, <5>2, RefinesRefused
      <4> QED  BY <4>1, <4>2
    <3>2. CASE AddMain(s) \/ AddPosition(s) \/ AddFortescue(s)
      BY <3>2, RefinesAdd
    <3>3. CASE AddLeg(s)
      BY <3>3, RefinesAddLeg
    <3>4. CASE UseMovedFrom(s)
      BY <3>4, RefinesNothing DEF UseMovedFrom, Refused
    <3>5. CASE Drop(s)
      BY <3>5, RefinesDrop
    <3> QED  BY <2>3, <3>1, <3>2, <3>3, <3>4, <3>5 DEF OnAdder, Setter
  <2>4. ASSUME NEW s \in Slots, NEW d \in Slots, Move(s, d) \/ MoveAssign(s, d)
        PROVE  Promise!Next
    BY <2>4, RefinesNothing, RefinesMoveAssign DEF Move
  <2>5. ASSUME NEW i \in Ids, Remove(i) PROVE Promise!Next
    BY <2>5, RefinesRemove
  <2> QED  BY <2>1, <2>2, <2>3, <2>4, <2>5 DEF Next
<1> QED  BY <1>1, InitRefines, Inductive, PTL DEF Spec, Implements, Promise!Spec

(***************************************************************************)
(* What the promise means for the network.  An extension's adder keeps its *)
(* host by the host's birth: the object may be removed, and another one    *)
(* take its id, before the add().                                          *)
(***************************************************************************)

\* Nothing is missing in an object, and it has the extensions that are made for its kind.
Whole(object) ==
  /\ object.kind = "LINE" => object.value # None
  /\ object.kind = "TRANSFORMER" => \A side \in Sides : object.legs[side] # None
  /\ object.position # None => object.kind \in {"LINE", "SUBSTATION"}
  /\ object.fortescue # None => object.kind = "TRANSFORMER"

NetworkWhole == \A i \in Places : network[i] # None => Whole(network[i])

\* An object is told from those that had its id before it, or will have it after.
BirthsApart ==
  /\ \A i \in Places : network[i] # None => network[i].birth <= born
  /\ \A i, j \in Places :
       network[i] # None /\ network[j] # None /\ network[i].birth = network[j].birth => i = j

\* The host of an extension's adder, if it still is in the network, is of the right kind.
HostsFit ==
  \A h \in Handles : pending[h] # None /\ pending[h].kind \in ExtensionKinds =>
    /\ pending[h].host \in 0..born
    /\ \A i \in Host(network, pending[h].host) : Extendable(network, i, pending[h].kind)

Sound == NetworkWhole /\ BirthsApart /\ HostsFit

\* What an object was created with is never changed, and an addition, an extension or a removal
\* is of one object.
Steadfast(net, next) ==
  /\ \A i \in Places : net[i] # None /\ next[i] # None =>
       /\ next[i].kind = net[i].kind /\ next[i].birth = net[i].birth
       /\ next[i].value = net[i].value /\ next[i].legs = net[i].legs
  /\ \A i, j \in Places : next[i] # net[i] /\ next[j] # net[j] => i = j

OneObjectAtATime == [][Steadfast(network, network')]_vars

----------------------------------------------------------------------------
\* Most steps leave the network, and the kind and the host of every Java adder, as they are.
LEMMA SoundSame ==
  ASSUME Sound, UNCHANGED java,
         \A h \in Handles : \/ pending'[h] = None
                            \/ /\ pending[h] # None /\ pending'[h].kind = pending[h].kind
                               /\ pending'[h].host = pending[h].host
  PROVE  Sound' /\ Steadfast(network, network')
<1>1. network' = network /\ born' = born
  BY DEF java
<1>2. NetworkWhole' /\ BirthsApart' /\ Steadfast(network, network')
  BY <1>1 DEF Sound, NetworkWhole, BirthsApart, Steadfast
<1>3. HostsFit'
  BY <1>1 DEF Sound, HostsFit, Host, Extendable
<1> QED  BY <1>2, <1>3 DEF Sound

LEMMA SoundInit == Init => Sound
<1> SUFFICES ASSUME Init PROVE Sound
  OBVIOUS
<1>1. \A i \in Places : network[i] # None =>
        i = Site /\ network[i] = Substation /\ network[i].birth = 0
  BY DEF Init, StartNetwork, Substation, Object
<1>2. NetworkWhole /\ BirthsApart
  BY <1>1 DEF Init, NetworkWhole, BirthsApart, Whole, Substation, Object
<1>3. HostsFit
  BY DEF Init, HostsFit
<1> QED  BY <1>2, <1>3 DEF Sound

\* An adder that is begun for no object, or for one that can have its extension.
LEMMA SoundNewAdder ==
  ASSUME IInv, Sound, NEW s \in Slots, NEW h \in Handles, NEW described \in Described,
         NewAdder(s, h, described),
         described.kind \in ExtensionKinds =>
           \E i \in Places : Extendable(network, i, described.kind)
                             /\ described.host = network[i].birth
  PROVE  Sound' /\ Steadfast(network, network')
<1>1. UNCHANGED java /\ pending' = [pending EXCEPT ![h] = described]
  BY DEF NewAdder
<1>2. network' = network /\ born' = born
  BY <1>1 DEF java
<1>3. pending'[h] = described /\ \A g \in Handles \ {h} : pending'[g] = pending[g]
  BY <1>1 DEF IInv, TypeOK
<1>4. NetworkWhole' /\ BirthsApart' /\ Steadfast(network, network')
  BY <1>2 DEF Sound, NetworkWhole, BirthsApart, Steadfast
<1>5. ASSUME described.kind \in ExtensionKinds
      PROVE  /\ described.host \in 0..born
             /\ \A i \in Host(network, described.host) : Extendable(network, i, described.kind)
  <2>1. PICK i \in Places : /\ Extendable(network, i, described.kind)
                            /\ described.host = network[i].birth
    BY <1>5
  <2>2. network[i] # None /\ network[i].birth \in Nat /\ network[i].birth <= born /\ born \in Nat
    BY <2>1 DEF Extendable, IInv, TypeOK, Objects, Sound, BirthsApart
  <2>3. Host(network, described.host) = {i}
    BY <2>1, <2>2 DEF Host, Sound, BirthsApart
  <2> QED  BY <2>1, <2>2, <2>3
<1>6. HostsFit'
  <2> SUFFICES ASSUME NEW g \in Handles, pending'[g] # None, pending'[g].kind \in ExtensionKinds
               PROVE  /\ pending'[g].host \in 0..born
                      /\ \A i \in Host(network, pending'[g].host) :
                           Extendable(network, i, pending'[g].kind)
    BY <1>2 DEF HostsFit, Host, Extendable
  <2>1. CASE g = h
    BY <1>3, <1>5, <2>1
  <2>2. CASE g # h
    BY <1>3, <2>2 DEF Sound, HostsFit
  <2> QED  BY <2>1, <2>2
<1> QED  BY <1>4, <1>6 DEF Sound

LEMMA SoundBegin ==
  ASSUME IInv, Sound, NEW s \in Slots, NEW h \in Handles,
         New(s, h) \/ NewExtension(s, h) \/ NewCopy(s, h) \/ \E p \in Slots : NewLeg(p, s, h)
  PROVE  Sound' /\ Steadfast(network, network')
<1>1. CASE New(s, h)
  <2>1. PICK k \in MainKinds : NewAdder(s, h, Blank(k, None))
    BY <1>1 DEF New
  <2>2. k \in Kinds /\ k \notin ExtensionKinds
    BY DEF MainKinds, ExtensionKinds, Kinds
  <2>3. Blank(k, None) \in Described /\ Blank(k, None).kind = k
    BY <2>2, BlankDescribed
  <2> QED  BY <2>1, <2>2, <2>3, SoundNewAdder
<1>2. CASE NewExtension(s, h)
  <2>1. PICK k \in ExtensionKinds, i \in Places :
          Extendable(network, i, k) /\ NewAdder(s, h, Blank(k, network[i].birth))
    BY <1>2 DEF NewExtension
  <2>2. k \in Kinds /\ network[i].birth \in Nat
    BY <2>1 DEF Kinds, Extendable, IInv, TypeOK, Objects
  <2>3. /\ Blank(k, network[i].birth) \in Described /\ Blank(k, network[i].birth).kind = k
        /\ Blank(k, network[i].birth).host = network[i].birth
    BY <2>2, BlankDescribed
  <2> QED  BY <2>1, <2>3, SoundNewAdder
<1>3. CASE NewCopy(s, h)
  <2>1. PICK i \in Ids : /\ network[i] # None /\ network[i].kind = "LINE"
                         /\ NewAdder(s, h, CopyOf(network[i]))
    BY <1>3 DEF NewCopy
  <2>2. "LINE" \in Kinds /\ network[i].value \in Values \cup {None}
    BY <2>1 DEF MainKinds, Kinds, IInv, TypeOK, Objects, Places
  <2>3. CopyOf(network[i]) \in Described /\ CopyOf(network[i]).kind = "LINE"
    BY <2>2, BlankDescribed DEF CopyOf, Described, Blank
  <2>4. "LINE" \notin ExtensionKinds
    BY DEF ExtensionKinds
  <2> QED  BY <2>1, <2>3, <2>4, SoundNewAdder
<1>4. ASSUME NEW p \in Slots, NewLeg(p, s, h) PROVE Sound' /\ Steadfast(network, network')
  <2>1. PICK side \in Sides :
          /\ Holds(p, {"TRANSFORMER"})
          /\ NewAdder(s, h, [Blank("LEG", adder[p]) EXCEPT !.side = side])
    BY <1>4 DEF NewLeg
  <2> DEFINE leg == [Blank("LEG", adder[p]) EXCEPT !.side = side]
  <2>2. "LEG" \in Kinds /\ "LEG" \notin ExtensionKinds /\ adder[p] \in Handles
    BY <2>1 DEF Kinds, ExtensionKinds, Holds
  <2>3. leg \in Described /\ leg.kind = "LEG"
    BY <2>2, BlankDescribed, FieldsDescribed DEF Blank
  <2> HIDE DEF leg
  <2>4. NewAdder(s, h, leg)
    BY <2>1 DEF leg
  <2> QED  BY <2>2, <2>3, <2>4, SoundNewAdder
<1> QED  BY <1>1, <1>2, <1>3, <1>4

LEMMA SoundSet ==
  ASSUME IInv, Sound, NEW s \in Slots, Setter(s), answer' = "ok"
  PROVE  Sound' /\ Steadfast(network, network')
<1>1. PICK told \in Described : Told(adder[s], told) /\ told.kind = Of(s).kind
                                /\ OneField(Of(s), told)
  BY IInvSet
<1>2. adder[s] \in registered
  BY IInvSet
<1>3. /\ adder[s] \in Handles /\ Of(s) = pending[adder[s]] /\ Of(s) # None
      /\ Of(s) \in Described
  BY <1>2, AdderIsThere DEF IInv, TypeOK
<1>4. told.host = Of(s).host
  BY <1>1, <1>3 DEF OneField, Described
<1>5. UNCHANGED java /\ pending' = [pending EXCEPT ![adder[s]] = told]
  BY <1>1 DEF Told
<1>6. \A h \in Handles : pending'[h] = IF h = adder[s] THEN told ELSE pending[h]
  BY <1>3, <1>5 DEF IInv, TypeOK
<1>7. \A h \in Handles : \/ pending'[h] = None
                         \/ /\ pending[h] # None /\ pending'[h].kind = pending[h].kind
                            /\ pending'[h].host = pending[h].host
  BY <1>1, <1>3, <1>4, <1>6
<1> QED  BY <1>5, <1>7, SoundSame

\* The add() of an adder without a host: the new object is born last, and it is whole.
LEMMA SoundAddMain ==
  ASSUME IInv, Sound, NEW s \in Slots, AddMain(s), Acceptable(network, Of(s))
  PROVE  Sound' /\ Steadfast(network, network')
<1> DEFINE i == Of(s).id
           object == Object(Of(s).kind, born + 1, Of(s).value, Of(s).legs)
<1>1. /\ network' = WithObject(network, Of(s), born + 1) /\ born' = born + 1
      /\ UNCHANGED <<adder, pending, registered>> /\ Of(s).kind \in MainKinds
  BY DEF AddMain, Holds, Of
<1>2. /\ i \in Places /\ network[i] = None
      /\ Of(s).kind = "LINE" => Of(s).value # None
      /\ Of(s).kind = "TRANSFORMER" => \A side \in Sides : Of(s).legs[side] # None
  BY <1>1 DEF Acceptable, Free, Places, MainKinds
<1>3. /\ object # None /\ object.kind = Of(s).kind /\ object.birth = born + 1
      /\ object.value = Of(s).value /\ object.legs = Of(s).legs
      /\ object.position = None /\ object.fortescue = None
  <2>1. adder[s] \in Handles
    BY DEF AddMain, Holds
  <2>2. Of(s) \in Described /\ born + 1 \in Nat
    BY <2>1, AdderIsThere DEF IInv, TypeOK
  <2>3. object \in Objects
    BY <1>1, <2>2 DEF Object, Objects, Described
  <2> QED  BY <2>3 DEF Object
<1>4. network'[i] = object /\ \A j \in Places \ {i} : network'[j] = network[j]
  BY <1>1, <1>2 DEF WithObject, IInv, TypeOK
<1>5. born \in Nat /\ \A j \in Places : network[j] # None => network[j].birth \in Nat
  BY DEF IInv, TypeOK, Objects
<1> HIDE DEF i, object
<1>6. NetworkWhole'
  BY <1>1, <1>2, <1>3, <1>4 DEF Sound, NetworkWhole, Whole, MainKinds
<1>7. BirthsApart'
  BY <1>1, <1>3, <1>4, <1>5 DEF Sound, BirthsApart
<1>8. HostsFit'
  <2> SUFFICES ASSUME NEW h \in Handles, pending[h] # None, pending[h].kind \in ExtensionKinds
               PROVE  /\ pending[h].host \in 0..(born + 1)
                      /\ \A j \in Host(network', pending[h].host) :
                           Extendable(network', j, pending[h].kind)
    BY <1>1 DEF HostsFit, Host, Extendable
  <2>1. /\ pending[h].host \in 0..born
        /\ \A j \in Host(network, pending[h].host) : Extendable(network, j, pending[h].kind)
    BY DEF Sound, HostsFit
  <2>2. \A j \in Host(network', pending[h].host) : j # i /\ j \in Host(network, pending[h].host)
    BY <1>3, <1>4, <1>5, <2>1 DEF Host
  <2>3. \A j \in Host(network', pending[h].host) : Extendable(network', j, pending[h].kind)
    BY <1>4, <2>1, <2>2 DEF Extendable, Host
  <2> QED  BY <1>5, <2>1, <2>3
<1>9. Steadfast(network, network')
  BY <1>2, <1>4 DEF Steadfast
<1> QED  BY <1>6, <1>7, <1>8, <1>9 DEF Sound

\* The add() of an extension's adder: its host, if it is there, is the one it was begun for.
LEMMA SoundExtended ==
  ASSUME IInv, Sound, NEW h \in Handles, pending[h] # None, pending[h].kind \in ExtensionKinds,
         NEW c \in Seq(Coordinates), NEW legs \in Legs,
         \/ /\ pending[h].kind \in {"LINE_POSITION", "SUBSTATION_POSITION"}
            /\ network' = WithPosition(network, pending[h].host, c)
         \/ /\ pending[h].kind = "FORTESCUE"
            /\ network' = WithFortescue(network, pending[h].host, legs),
         UNCHANGED <<pending, born>>
  PROVE  Sound' /\ Steadfast(network, network')
<1> DEFINE hosts == Host(network, pending[h].host)
<1>1. \A i \in Places \ hosts : network'[i] = network[i]
  BY DEF WithPosition, WithFortescue
<1>2. ASSUME NEW i \in hosts
      PROVE  /\ i \in Places /\ network[i] # None /\ network'[i] # None
             /\ network'[i].kind = network[i].kind /\ network'[i].birth = network[i].birth
             /\ network'[i].value = network[i].value /\ network'[i].legs = network[i].legs
             /\ Whole(network'[i])
  <2>1. i \in Places /\ network[i] # None /\ network[i] \in Objects
    BY DEF Host, IInv, TypeOK
  <2>2. network[i].kind = CASE pending[h].kind = "LINE_POSITION" -> "LINE"
                            [] pending[h].kind = "SUBSTATION_POSITION" -> "SUBSTATION"
                            [] OTHER -> "TRANSFORMER"
    BY DEF Sound, HostsFit, Extendable
  <2>3. Whole(network[i])
    BY <2>1 DEF Sound, NetworkWhole
  <2>4. CASE /\ pending[h].kind \in {"LINE_POSITION", "SUBSTATION_POSITION"}
             /\ network' = WithPosition(network, pending[h].host, c)
    <3>1. network'[i] = [network[i] EXCEPT !.position = c] /\ network'[i] \in Objects
      BY <2>1, <2>4 DEF WithPosition, Objects
    <3>2. network[i].kind \in {"LINE", "SUBSTATION"}
      BY <2>2, <2>4
    <3> QED  BY <2>1, <2>3, <3>1, <3>2 DEF Whole, Objects
  <2>5. CASE /\ pending[h].kind = "FORTESCUE"
             /\ network' = WithFortescue(network, pending[h].host, legs)
    <3>1. network'[i] = [network[i] EXCEPT !.fortescue = legs] /\ network'[i] \in Objects
      BY <2>1, <2>5 DEF WithFortescue, Objects
    <3>2. network[i].kind = "TRANSFORMER"
      BY <2>2, <2>5
    <3> QED  BY <2>1, <2>3, <3>1, <3>2 DEF Whole, Objects
  <2> QED  BY <2>4, <2>5
<1>3. \A i, j \in hosts : i = j
  BY DEF Host, Sound, BirthsApart
<1> HIDE DEF hosts
<1>4. \A i \in Places : /\ network'[i] = None <=> network[i] = None
                        /\ network[i] # None => /\ network'[i].kind = network[i].kind
                                                /\ network'[i].birth = network[i].birth
  BY <1>1, <1>2
<1>5. NetworkWhole'
  BY <1>1, <1>2 DEF Sound, NetworkWhole
<1>6. BirthsApart'
  BY <1>4 DEF Sound, BirthsApart
<1>7. HostsFit'
  <2>1. \A birth : Host(network', birth) = Host(network, birth)
    BY <1>4 DEF Host
  <2>2. \A kind : \A i \in Places : Extendable(network', i, kind) <=> Extendable(network, i, kind)
    BY <1>4 DEF Extendable
  <2>3. \A birth : Host(network, birth) \subseteq Places
    BY DEF Host
  <2> QED  BY <2>1, <2>2, <2>3 DEF Sound, HostsFit
<1>8. Steadfast(network, network')
  BY <1>1, <1>2, <1>3 DEF Steadfast
<1> QED  BY <1>5, <1>6, <1>7, <1>8 DEF Sound

LEMMA SoundRemove ==
  ASSUME IInv, Sound, NEW i \in Ids, Remove(i)
  PROVE  Sound' /\ Steadfast(network, network')
<1>1. /\ network'[i] = None /\ \A j \in Places \ {i} : network'[j] = network[j]
      /\ UNCHANGED <<pending, born>>
  BY DEF Remove, IInv, TypeOK, Places
<1>2. NetworkWhole' /\ BirthsApart' /\ Steadfast(network, network')
  BY <1>1 DEF Sound, NetworkWhole, BirthsApart, Steadfast
<1>3. HostsFit'
  <2>1. \A birth : Host(network', birth) \subseteq Host(network, birth) \ {i}
    BY <1>1 DEF Host
  <2>2. \A birth : \A j \in Host(network', birth) : network'[j] = network[j]
    BY <1>1, <2>1 DEF Host
  <2> QED  BY <1>1, <2>1, <2>2 DEF Sound, HostsFit, Extendable
<1> QED  BY <1>2, <1>3 DEF Sound

LEMMA SoundAdd ==
  ASSUME IInv, Sound, NEW s \in Slots,
         AddMain(s) \/ AddLeg(s) \/ AddPosition(s) \/ AddFortescue(s)
  PROVE  Sound' /\ Steadfast(network, network')
<1>1. adder[s] \in Handles
  BY DEF AddMain, AddLeg, AddPosition, AddFortescue, Holds
<1>2. Of(s) \in Described /\ Of(s) = pending[adder[s]] /\ Of(s) # None
      /\ adder[s] \in registered
  BY <1>1, AdderIsThere
<1>3. CASE UNCHANGED <<adder, pending, registered, java>>
  BY <1>3, SoundSame
<1>4. CASE AddMain(s) /\ Acceptable(network, Of(s))
  BY <1>4, SoundAddMain
<1>5. CASE AddLeg(s) /\ Acceptable(network, Of(s))
  <2>1. Of(s).kind = "LEG"
    BY <1>5 DEF AddLeg, Holds, Of
  <2>2. Of(s).host \in Handles /\ pending[Of(s).host] # None
        /\ pending[Of(s).host].kind = "TRANSFORMER"
    BY <1>2, <2>1, LegIsThere
  <2>3. /\ UNCHANGED java
        /\ pending' = [pending EXCEPT ![Of(s).host].legs[Of(s).side] = Of(s).value]
    BY <1>5 DEF AddLeg
  <2> DEFINE told == [pending[Of(s).host] EXCEPT !.legs[Of(s).side] = Of(s).value]
  <2>4. told.kind = pending[Of(s).host].kind /\ told.host = pending[Of(s).host].host
    BY <2>2 DEF IInv, TypeOK, Described
  <2>5. \A h \in Handles : pending'[h] = IF h = Of(s).host THEN told ELSE pending[h]
    BY <2>2, <2>3 DEF IInv, TypeOK
  <2> HIDE DEF told
  <2>6. \A h \in Handles : \/ pending'[h] = None
                           \/ /\ pending[h] # None /\ pending'[h].kind = pending[h].kind
                              /\ pending'[h].host = pending[h].host
    BY <2>2, <2>4, <2>5
  <2> QED  BY <2>3, <2>6, SoundSame
<1>6. CASE AddPosition(s) /\ ~UNCHANGED <<adder, pending, registered, java>>
  <2>1. /\ Of(s).kind \in {"LINE_POSITION", "SUBSTATION_POSITION"}
        /\ Of(s).kind = "LINE_POSITION" \/ Of(s).coordinates # <<>>
        /\ UNCHANGED <<pending, born>>
        /\ network' = WithPosition(network, Of(s).host,
                                   IF Of(s).kind = "LINE_POSITION" THEN Of(s).coordinates
                                   ELSE <<Of(s).coordinates[Len(Of(s).coordinates)]>>)
    BY <1>6 DEF AddPosition, Refused, Holds, Of
  <2>2. Of(s).coordinates \in Seq(Coordinates)
    BY <1>2 DEF Described
  <2>3. ASSUME Of(s).coordinates # <<>>
        PROVE  <<Of(s).coordinates[Len(Of(s).coordinates)]>> \in Seq(Coordinates)
    BY <2>2, <2>3
  <2>4. PICK c \in Seq(Coordinates) : network' = WithPosition(network, Of(s).host, c)
    BY <2>1, <2>2, <2>3
  <2>5. Of(s).kind \in ExtensionKinds /\ NoLegs \in Legs
    BY <2>1 DEF ExtensionKinds, NoLegs, Legs
  <2> QED  BY <1>1, <1>2, <2>1, <2>4, <2>5, SoundExtended
<1>7. CASE AddFortescue(s)
  <2>1. /\ Of(s).kind = "FORTESCUE" /\ UNCHANGED <<pending, born>>
        /\ network' = WithFortescue(network, Of(s).host, Of(s).legs)
    BY <1>7 DEF AddFortescue, Holds, Of
  <2>2. Of(s).legs \in Legs /\ Of(s).kind \in ExtensionKinds
    BY <1>2, <2>1 DEF Described, ExtensionKinds
  <2>3. <<>> \in Seq(Coordinates)
    OBVIOUS
  <2> QED  BY <1>1, <1>2, <2>1, <2>2, <2>3, SoundExtended
<1> QED  BY <1>3, <1>4, <1>5, <1>6, <1>7 DEF AddMain, AddLeg, Refused

LEMMA SoundStep ==
  ASSUME IInv, Sound, [Next]_vars
  PROVE  Sound' /\ Steadfast(network, network')
<1> DEFINE Goal == Sound' /\ Steadfast(network, network')
<1>1. ASSUME UNCHANGED <<pending, java>> PROVE Goal
  BY <1>1, SoundSame
<1>2. ASSUME \A g \in registered' : pending'[g] = pending[g], UNCHANGED java,
             \E live \in SUBSET registered : GiveUp(live)
      PROVE  Goal
  <2>1. \A h \in Handles : pending'[h] \in {pending[h], None}
    BY <1>2 DEF GiveUp, Collected
  <2> QED  BY <1>2, <2>1, SoundSame
<1>3. ASSUME NEW s \in Slots, NEW h \in Handles,
             New(s, h) \/ NewExtension(s, h) \/ NewCopy(s, h) \/ CopyRefused(s, h)
             \/ \E p \in Slots : NewLeg(p, s, h)
      PROVE  Goal
  BY <1>1, <1>3, SoundBegin DEF CopyRefused
<1>4. ASSUME NEW s \in Slots, OnAdder(s) PROVE Goal
  <2>1. CASE Setter(s)
    <3>1. CASE answer' = "ok"
      BY <2>1, <3>1, SoundSet
    <3>2. CASE answer' # "ok"
      <4>1. UNCHANGED <<pending, java>>
        BY <2>1, <3>2
        DEF Setter, SetId, SetValue, SelectLeg, SetLegField, AddCoordinate, SetField, Refused
      <4> QED  BY <1>1, <4>1
    <3> QED  BY <3>1, <3>2
  <2>2. CASE AddMain(s) \/ AddLeg(s) \/ AddPosition(s) \/ AddFortescue(s)
    BY <2>2, SoundAdd
  <2>3. CASE UseMovedFrom(s)
    BY <1>1, <2>3 DEF UseMovedFrom, Refused
  <2>4. CASE Drop(s)
    <3>1. /\ UNCHANGED java /\ GiveUp(registered \ {adder[s]})
          /\ registered \ {adder[s]} \in SUBSET registered
      BY <2>4 DEF Drop
    <3> QED  BY <1>2, <2>4, <3>1, IInvDrop
  <2> QED  BY <1>4, <2>1, <2>2, <2>3, <2>4 DEF OnAdder, Setter
<1>5. ASSUME NEW s \in Slots, NEW d \in Slots, Move(s, d) \/ MoveAssign(s, d) PROVE Goal
  <2>1. CASE Move(s, d)
    BY <1>1, <2>1 DEF Move
  <2>2. CASE MoveAssign(s, d)
    <3>1. /\ UNCHANGED java /\ GiveUp(registered \ {adder[d]})
          /\ registered \ {adder[d]} \in SUBSET registered
      BY <2>2 DEF MoveAssign
    <3> QED  BY <1>2, <2>2, <3>1, IInvMoveAssign
  <2> QED  BY <1>5, <2>1, <2>2
<1>6. ASSUME NEW i \in Ids, Remove(i) PROVE Goal
  BY <1>6, SoundRemove
<1>7. CASE UNCHANGED vars
  BY <1>1, <1>7 DEF vars, java
<1> QED  BY <1>3, <1>4, <1>5, <1>6, <1>7 DEF Next

\* Every object in the network is whole and has only extensions made for it, and an extension's
\* adder never reaches another object than its own, whatever was removed and added since.
THEOREM NetworkSound == Spec => []Sound
BY SoundInit, SoundStep, Inductive, PTL DEF Spec

\* A call adds, extends or removes one object, and changes nothing that one was created with.
THEOREM OneObject == Spec => OneObjectAtATime
<1>1. IInv /\ Sound /\ [Next]_vars => [Steadfast(network, network')]_vars
  BY SoundStep
<1> QED  BY <1>1, Inductive, NetworkSound, PTL DEF Spec, OneObjectAtATime
=============================================================================
