-------------------------- MODULE CreationPromise --------------------------
(***************************************************************************)
(* What the adders promise (include/iidm/Adder.h: "Nothing changes in the  *)
(* network before that", "a missing or invalid field throws                *)
(* ValidationException from add()"; Creation.java: the three steps).       *)
(* A draft is said field by field, and only its completion changes the     *)
(* network, by all of it or nothing.  There are no adders that move, no    *)
(* handles and no calls made in steps here.                                *)
(***************************************************************************)
EXTENDS CreatedObjects

CONSTANTS Drafts, MaxObjects

VARIABLES
  drafts,    \* what each draft describes so far, or None
  network,   \* the object of each id, or None
  born,      \* the objects created so far
  answer     \* what the last call came to

vars == <<drafts, network, born, answer>>

Init ==
  /\ drafts = [d \in Drafts |-> None]
  /\ network = StartNetwork
  /\ born = 0
  /\ answer = "ok"

\* The drafts a leg goes to: they may have been given up.
Parents(ds) == {ds[d].host : d \in {e \in Drafts : ds[e] # None /\ ds[e].kind = "LEG"}}

Begin(d, draft) ==
  /\ d \notin Parents(drafts)
  /\ answer' = "ok"
  /\ UNCHANGED <<network, born>>
  /\ drafts' = [drafts EXCEPT ![d] = draft]

BeginMain(d) == \E k \in MainKinds : Begin(d, Blank(k, None))
BeginCopy(d) == \E i \in Ids : /\ network[i] # None /\ network[i].kind = "LINE"
                               /\ Begin(d, CopyOf(network[i]))
BeginLeg(d) == \E p \in Drafts, s \in Sides :
  /\ drafts[p] # None /\ drafts[p].kind = "TRANSFORMER"
  /\ Begin(d, [Blank("LEG", p) EXCEPT !.side = s])
BeginExtension(d) == \E k \in ExtensionKinds, i \in Places :
  /\ Extendable(network, i, k)
  /\ Begin(d, Blank(k, network[i].birth))

Say(d, draft) ==
  /\ answer' = "ok"
  /\ UNCHANGED <<network, born>>
  /\ drafts' = [drafts EXCEPT ![d] = draft]

SayId(d) == /\ drafts[d].kind \in MainKinds
            /\ \E i \in Ids : Say(d, [drafts[d] EXCEPT !.id = i])
SayValue(d) == /\ drafts[d].kind \in {"LINE", "LEG"}
               /\ \E v \in Values : Say(d, [drafts[d] EXCEPT !.value = v])
\* The legs of a Fortescue extension: one is chosen, then its fields are said.
SayWhichLeg(d) == /\ drafts[d].kind = "FORTESCUE"
                  /\ \E s \in Sides : Say(d, [drafts[d] EXCEPT !.side = s])
SayLeg(d) ==
  /\ drafts[d].kind = "FORTESCUE" /\ drafts[d].side # None
  /\ \E v \in Values : Say(d, [drafts[d] EXCEPT !.legs[drafts[d].side] = v])
\* A line has a list of coordinates, a substation the last one said.
SayCoordinate(d) == \E c \in Coordinates :
  \/ /\ drafts[d].kind = "LINE_POSITION"
     /\ Say(d, [drafts[d] EXCEPT !.coordinates = Append(@, c)])
  \/ /\ drafts[d].kind = "SUBSTATION_POSITION"
     /\ Say(d, [drafts[d] EXCEPT !.coordinates = <<c>>])

Complete(d) ==
  /\ Acceptable(network, drafts[d])
  /\ \/ /\ drafts[d].kind \in MainKinds /\ born < MaxObjects
        /\ born' = born + 1
        /\ network' = WithObject(network, drafts[d], born + 1)
        /\ UNCHANGED drafts
     \/ /\ drafts[d].kind \in {"LINE_POSITION", "SUBSTATION_POSITION"}
        /\ network' = WithPosition(network, drafts[d].host, drafts[d].coordinates)
        /\ UNCHANGED <<drafts, born>>
     \/ /\ drafts[d].kind = "FORTESCUE"
        /\ network' = WithFortescue(network, drafts[d].host, drafts[d].legs)
        /\ UNCHANGED <<drafts, born>>
     \/ /\ drafts[d].kind = "LEG"
        /\ drafts' = LET p == drafts[d].host
                     IN IF drafts[p] = None THEN drafts
                        ELSE [drafts EXCEPT ![p].legs[drafts[d].side] = drafts[d].value]
        /\ UNCHANGED <<network, born>>
  /\ answer' = "ok"

\* powsybl refuses the draft, or the field of a leg when none was chosen.
Refuse(d) ==
  /\ \/ ~Acceptable(network, drafts[d])
     \/ drafts[d].kind = "FORTESCUE" /\ drafts[d].side = None
  /\ answer' = "Validation"
  /\ UNCHANGED <<drafts, network, born>>

Abandon(d) == /\ drafts' = [drafts EXCEPT ![d] = None]
              /\ answer' = "ok"
              /\ UNCHANGED <<network, born>>

Remove(i) ==
  /\ network[i] # None
  /\ network' = [network EXCEPT ![i] = None]
  /\ answer' = "ok"
  /\ UNCHANGED <<drafts, born>>

\* A call on no adder, a copy that powsybl does not make, or nothing at all.
Nothing == /\ answer' \in {"ok", "InvalidHandle", "NoCopy"}
           /\ UNCHANGED <<drafts, network, born>>

BeginOf(d) == BeginMain(d) \/ BeginCopy(d) \/ BeginLeg(d) \/ BeginExtension(d)
OnDraft(d) == SayId(d) \/ SayValue(d) \/ SayWhichLeg(d) \/ SayLeg(d) \/ SayCoordinate(d)
              \/ Complete(d) \/ Refuse(d) \/ Abandon(d)

Next ==
  \/ Nothing
  \/ \E i \in Ids : Remove(i)
  \/ \E d \in Drafts : IF drafts[d] = None THEN BeginOf(d) ELSE OnDraft(d)

Spec == Init /\ [][Next]_vars
=============================================================================
