----------------------- MODULE NetworkLifetime_proofs -----------------------
(***************************************************************************)
(* Proofs about NetworkLifetime, for any Networks, wrappers and backends.  *)
(***************************************************************************)
EXTENDS NetworkLifetime, FiniteSetTheorems, TLAPS

(***************************************************************************)
(* The inductive invariant.                                                *)
(***************************************************************************)

\* A HandleRef holds the tracker of the backend its wrapper points to, which is then open or closed.
HeldIsThere ==
  \A o \in Objects : tracker[o] # NoBackend =>
    tracker[o] = ptr[o] /\ backend[tracker[o]] \in {"open", "closed"}

\* No object points to a backend that does not exist yet.
PointedExists == \A o \in Objects : ptr[o] # NullBackend => backend[ptr[o]] # "none"

\* A Network points to what it owns, which is open and which it owns alone.
OwnedIsOpen ==
  \A n \in Nets : owned[n] # NoBackend =>
    /\ owned[n] = ptr[n] /\ backend[owned[n]] = "open"
    /\ \A m \in Nets : owned[m] = owned[n] => m = n

OpenIsOwned == \A b \in Backends : backend[b] = "open" => \E n \in Nets : owned[n] = b

\* keep() moves tracker_: an open backend holds its tracker, a closed one is kept by it,
\* and none does both.
EitherOwns ==
  \A b \in Backends :
    /\ b \in strong <=> backend[b] = "open"
    /\ backend[b] = "closed" => b \in kept
    /\ b \in kept => backend[b] \in {"closed", "freed"}

ClosedIsHeld == \A b \in Backends : backend[b] = "closed" => \E o \in Objects : tracker[o] = b

IInv ==
  /\ TypeOK
  /\ HeldIsThere
  /\ PointedExists
  /\ OwnedIsOpen
  /\ OpenIsOwned
  /\ EitherOwns
  /\ ClosedIsHeld

----------------------------------------------------------------------------
\* What settling does to each of the backends `bk`, of which those with their own tracker_ are
\* open and the closed ones kept.
LEMMA Settled ==
  ASSUME NEW bk \in [Backends -> {"none", "open", "closed", "freed"}],
         \A b \in Backends :
           /\ b \in strong' <=> bk[b] = "open"
           /\ bk[b] = "closed" => b \in kept'
           /\ b \in kept' => bk[b] \in {"closed", "freed"}
  PROVE  /\ Settle(bk) \in [Backends -> {"none", "open", "closed", "freed"}]
         /\ \A c \in Backends : bk[c] # "closed" => Settle(bk)[c] = bk[c]
         /\ \A c \in Backends : bk[c] = "closed" => Settle(bk)[c] \in {"closed", "freed"}
         /\ \A c \in Backends : Settle(bk)[c] = "closed" =>
              bk[c] = "closed" /\ \E o \in Objects : tracker'[o] = c
         /\ \A c \in Backends, o \in Objects : bk[c] = "closed" /\ tracker'[o] = c =>
              Settle(bk)[c] = "closed"
BY DEF Settle, Held

\* What the handle of o goes to p does to what each object holds.
LEMMA HandleMoved ==
  ASSUME TypeOK, NEW o \in Objects, NEW p \in Objects, o # p, MoveHandle(o, p)
  PROVE  /\ tracker' \in [Objects -> Backends \cup {NoBackend}]
         /\ valid' \subseteq Objects
         /\ tracker'[o] = NoBackend /\ tracker'[p] = tracker[o]
         /\ \A q \in Objects \ {o, p} : tracker'[q] = tracker[q]
         /\ \A q \in Objects \ {o, p} : q \in valid => q \in valid'
BY DEF MoveHandle, TypeOK

----------------------------------------------------------------------------
LEMMA IInvOpen ==
  ASSUME IInv, NEW b \in Backends, NEW n \in Nets, Open(n, b) PROVE IInv'
<1> USE DEF IInv, Objects
<1>1. /\ backend' = [backend EXCEPT ![b] = "open"] /\ owned' = [owned EXCEPT ![n] = b]
      /\ ptr' = [ptr EXCEPT ![n] = b] /\ tracker' = [tracker EXCEPT ![n] = b]
      /\ backend[b] = "none" /\ ptr[n] = NullBackend /\ valid' = valid \cup {n}
      /\ strong' = strong \cup {b} /\ kept' = kept
  BY DEF Open, Unbound
<1>2. TypeOK'
  BY <1>1 DEF TypeOK
<1>3. b # NoBackend /\ \A c \in Backends : c # NullBackend /\ c # NoBackend
  BY LifetimeConstants
<1>4. HeldIsThere'
  BY <1>1, <1>2, <1>3 DEF HeldIsThere, TypeOK
<1>5. PointedExists'
  BY <1>1, <1>2, <1>3 DEF PointedExists, TypeOK
<1>6. OwnedIsOpen'
  BY <1>1, <1>2, <1>3 DEF OwnedIsOpen, TypeOK
<1>7. OpenIsOwned'
  BY <1>1, <1>2, <1>3 DEF OpenIsOwned, OwnedIsOpen, TypeOK
<1>8. EitherOwns'
  BY <1>1, <1>2, <1>3 DEF EitherOwns, TypeOK
<1>9. ClosedIsHeld'
  BY <1>1, <1>2, <1>3 DEF ClosedIsHeld, HeldIsThere, TypeOK
<1> QED  BY <1>2, <1>4, <1>5, <1>6, <1>7, <1>8, <1>9

LEMMA IInvOpenFails ==
  ASSUME IInv, NEW b \in Backends, OpenFails(b) PROVE IInv'
<1> USE LifetimeConstants DEF IInv, OpenFails, TypeOK
<1>1. TypeOK'
  OBVIOUS
<1>2. HeldIsThere'
  BY <1>1 DEF HeldIsThere
<1>3. PointedExists'
  BY <1>1 DEF PointedExists
<1>4. OwnedIsOpen'
  BY <1>1 DEF OwnedIsOpen
<1>5. OpenIsOwned' /\ EitherOwns' /\ ClosedIsHeld'
  BY <1>1 DEF OpenIsOwned, EitherOwns, ClosedIsHeld
<1> QED  BY <1>1, <1>2, <1>3, <1>4, <1>5

\* A wrapper built on an open or closed backend.
LEMMA IInvBind ==
  ASSUME IInv, NEW o \in Objects, NEW p \in Objects, NEW isValid \in BOOLEAN,
         Bind(p, o, isValid), ptr[o] # NullBackend, backend[ptr[o]] \in {"open", "closed"}
  PROVE  IInv'
<1> USE DEF IInv
<1>1. ptr[o] \in Backends
  BY DEF TypeOK
<1>2. TrackerOf(ptr[o]) = ptr[o]
  BY <1>1 DEF TrackerOf, EitherOwns
<1>3. /\ ptr' = [ptr EXCEPT ![p] = ptr[o]] /\ tracker' = [tracker EXCEPT ![p] = ptr[o]]
      /\ UNCHANGED <<backend, strong, kept, owned>> /\ ptr[p] = NullBackend
      /\ valid' \subseteq valid \cup {p}
  BY <1>2 DEF Bind, Unbound
<1>4. TypeOK'
  BY <1>3, <1>1 DEF TypeOK
<1>5. \A c \in Backends : c # NullBackend /\ c # NoBackend
  BY LifetimeConstants
<1>6. HeldIsThere'
  BY <1>3, <1>1, <1>4, <1>5 DEF HeldIsThere, TypeOK
<1>7. PointedExists'
  BY <1>3, <1>1, <1>4, <1>5 DEF PointedExists, TypeOK
<1>8. OwnedIsOpen'
  BY <1>3, <1>1, <1>4, <1>5 DEF OwnedIsOpen, TypeOK, Objects
<1>9. OpenIsOwned'
  BY <1>3 DEF OpenIsOwned
<1>10. EitherOwns' /\ ClosedIsHeld'
  BY <1>3, <1>1, <1>4, <1>5 DEF EitherOwns, ClosedIsHeld, HeldIsThere, TypeOK
<1> QED  BY <1>4, <1>6, <1>7, <1>8, <1>9, <1>10

LEMMA IInvGet ==
  ASSUME IInv, NEW o \in Objects, NEW p \in Objects, Get(o, p) PROVE IInv'
<1>1. ptr[o] # NullBackend /\ backend[ptr[o]] \in {"open", "closed"}
  BY DEF Get, Reach, Unbound
<1> QED  BY <1>1, IInvBind DEF Get

LEMMA IInvDerive ==
  ASSUME IInv, NEW o \in Objects, NEW p \in Objects, Derive(o, p) PROVE IInv'
<1>1. ptr[o] # NullBackend /\ backend[ptr[o]] # "freed"
  BY DEF Derive, Reach, Unbound
<1>2. ptr[o] \in Backends /\ backend[ptr[o]] # "none"
  BY <1>1 DEF IInv, TypeOK, PointedExists
<1>3. backend[ptr[o]] \in {"open", "closed"}
  BY <1>1, <1>2 DEF IInv, TypeOK
<1>4. (o \in valid) \in BOOLEAN /\ Bind(p, o, o \in valid)
  BY DEF Derive
<1> QED  BY <1>1, <1>3, <1>4, IInvBind

----------------------------------------------------------------------------
(***************************************************************************)
(* The operations that end HandleRefs: the backends `bk` that they leave   *)
(* are settled by the HandleRefs that they leave.                          *)
(***************************************************************************)

LEMMA IInvSettled ==
  ASSUME TypeOK, NEW bk \in [Backends -> {"none", "open", "closed", "freed"}],
         backend' = Settle(bk), strong' \subseteq Backends, kept' \subseteq Backends,
         \A b \in Backends :
           /\ b \in strong' <=> bk[b] = "open"
           /\ bk[b] = "closed" => b \in kept'
           /\ b \in kept' => bk[b] \in {"closed", "freed"},
         owned' \in [Nets -> Backends \cup {NoBackend}],
         ptr' \in [Objects -> Backends \cup {NullBackend}],
         tracker' \in [Objects -> Backends \cup {NoBackend}], valid' \subseteq Objects,
         \A o \in Objects : tracker'[o] # NoBackend =>
           tracker'[o] = ptr'[o] /\ bk[tracker'[o]] \in {"open", "closed"},
         \A o \in Objects : ptr'[o] # NullBackend => bk[ptr'[o]] # "none",
         \A n \in Nets : owned'[n] # NoBackend =>
           /\ owned'[n] = ptr'[n] /\ bk[owned'[n]] = "open"
           /\ \A m \in Nets : owned'[m] = owned'[n] => m = n,
         \A b \in Backends : bk[b] = "open" => \E n \in Nets : owned'[n] = b
  PROVE  IInv'
<1>1. /\ backend' \in [Backends -> {"none", "open", "closed", "freed"}]
      /\ \A c \in Backends : bk[c] # "closed" => backend'[c] = bk[c]
      /\ \A c \in Backends : bk[c] = "closed" => backend'[c] \in {"closed", "freed"}
      /\ \A c \in Backends : backend'[c] = "closed" =>
           bk[c] = "closed" /\ \E o \in Objects : tracker'[o] = c
      /\ \A c \in Backends, o \in Objects : bk[c] = "closed" /\ tracker'[o] = c =>
           backend'[c] = "closed"
  BY Settled
<1>2. TypeOK'
  BY <1>1 DEF TypeOK
<1>3. HeldIsThere'
  <2> SUFFICES ASSUME NEW o \in Objects, tracker'[o] # NoBackend
               PROVE  tracker'[o] = ptr'[o] /\ backend'[tracker'[o]] \in {"open", "closed"}
    BY DEF HeldIsThere
  <2>1. tracker'[o] \in Backends /\ bk[tracker'[o]] \in {"open", "closed"}
    OBVIOUS
  <2> QED  BY <1>1, <2>1
<1>4. PointedExists'
  <2> SUFFICES ASSUME NEW o \in Objects, ptr'[o] # NullBackend
               PROVE  backend'[ptr'[o]] # "none"
    BY DEF PointedExists
  <2>1. ptr'[o] \in Backends /\ bk[ptr'[o]] # "none"
    OBVIOUS
  <2> QED  BY <1>1, <2>1
<1>5. OwnedIsOpen'
  <2> SUFFICES ASSUME NEW n \in Nets, owned'[n] # NoBackend
               PROVE  /\ owned'[n] = ptr'[n] /\ backend'[owned'[n]] = "open"
                      /\ \A m \in Nets : owned'[m] = owned'[n] => m = n
    BY DEF OwnedIsOpen
  <2>1. owned'[n] \in Backends /\ bk[owned'[n]] = "open"
    OBVIOUS
  <2> QED  BY <1>1, <2>1
<1>6. OpenIsOwned'
  BY <1>1 DEF OpenIsOwned
<1>7. EitherOwns'
  BY <1>1 DEF EitherOwns
<1>8. ClosedIsHeld'
  BY <1>1 DEF ClosedIsHeld
<1> QED  BY <1>2, <1>3, <1>4, <1>5, <1>6, <1>7, <1>8 DEF IInv

LEMMA IInvCopy ==
  ASSUME IInv, NEW o \in Objects, NEW p \in Objects, Copy(o, p) PROVE IInv'
<1> USE DEF IInv
<1>1. /\ ptr' = [ptr EXCEPT ![p] = ptr[o]] /\ tracker' = [tracker EXCEPT ![p] = tracker[o]]
      /\ owned' = owned /\ strong' = strong /\ kept' = kept /\ backend' = Settle(backend)
      /\ p \notin Nets
      /\ valid' \subseteq valid \cup {p}
  BY LifetimeConstants DEF Copy, RetireNone
<1>2. /\ ptr' \in [Objects -> Backends \cup {NullBackend}] /\ valid' \subseteq Objects
      /\ tracker' \in [Objects -> Backends \cup {NoBackend}]
  BY <1>1 DEF TypeOK
<1>3. \A q \in Objects : tracker'[q] # NoBackend =>
        tracker'[q] = ptr'[q] /\ backend[tracker'[q]] \in {"open", "closed"}
  BY <1>1, <1>2 DEF HeldIsThere, TypeOK
<1>4. \A q \in Objects : ptr'[q] # NullBackend => backend[ptr'[q]] # "none"
  BY <1>1, <1>2 DEF PointedExists, TypeOK
<1>5. \A n \in Nets : ptr'[n] = ptr[n]
  BY <1>1 DEF TypeOK, Objects
<1>6. /\ backend \in [Backends -> {"none", "open", "closed", "freed"}]
      /\ owned' \in [Nets -> Backends \cup {NoBackend}]
  BY <1>1 DEF TypeOK
<1>7. /\ \A n \in Nets : owned'[n] # NoBackend =>
           /\ owned'[n] = ptr'[n] /\ backend[owned'[n]] = "open"
           /\ \A m \in Nets : owned'[m] = owned'[n] => m = n
      /\ \A b \in Backends : backend[b] = "open" => \E n \in Nets : owned'[n] = b
  BY <1>1, <1>5 DEF OwnedIsOpen, OpenIsOwned
<1>8. /\ strong' \subseteq Backends /\ kept' \subseteq Backends
      /\ \A b \in Backends :
           /\ b \in strong' <=> backend[b] = "open"
           /\ backend[b] = "closed" => b \in kept'
           /\ b \in kept' => backend[b] \in {"closed", "freed"}
  BY <1>1 DEF TypeOK, EitherOwns
<1> HIDE DEF IInv
<1> QED
  BY <1>1, <1>8, <1>2, <1>3, <1>4, <1>6, <1>7, IInvSettled DEF IInv

LEMMA IInvMove ==
  ASSUME IInv, NEW o \in Objects, NEW p \in Objects, Move(o, p) PROVE IInv'
<1> USE DEF IInv
<1>1. /\ o # p /\ p \notin Nets /\ MoveHandle(o, p)
      /\ ptr' = [ptr EXCEPT ![p] = ptr[o]]
      /\ owned' = owned /\ strong' = strong /\ kept' = kept /\ backend' = Settle(backend)
  BY LifetimeConstants DEF Move, RetireNone
<1>2. ptr' \in [Objects -> Backends \cup {NullBackend}]
  BY <1>1 DEF TypeOK
<1>3. /\ valid' \subseteq Objects /\ tracker' \in [Objects -> Backends \cup {NoBackend}]
      /\ tracker'[o] = NoBackend /\ tracker'[p] = tracker[o]
      /\ \A q \in Objects \ {o, p} : tracker'[q] = tracker[q]
  BY <1>1, HandleMoved
<1>4. \A q \in Objects : tracker'[q] # NoBackend =>
        tracker'[q] = ptr'[q] /\ backend[tracker'[q]] \in {"open", "closed"}
  BY <1>1, <1>2, <1>3 DEF HeldIsThere, TypeOK
<1>5. \A q \in Objects : ptr'[q] # NullBackend => backend[ptr'[q]] # "none"
  BY <1>1, <1>2 DEF PointedExists, TypeOK
<1>6. \A n \in Nets : ptr'[n] = ptr[n]
  BY <1>1 DEF TypeOK, Objects
<1>7. /\ backend \in [Backends -> {"none", "open", "closed", "freed"}]
      /\ owned' \in [Nets -> Backends \cup {NoBackend}]
  BY <1>1 DEF TypeOK
<1>8. /\ \A n \in Nets : owned'[n] # NoBackend =>
           /\ owned'[n] = ptr'[n] /\ backend[owned'[n]] = "open"
           /\ \A m \in Nets : owned'[m] = owned'[n] => m = n
      /\ \A b \in Backends : backend[b] = "open" => \E n \in Nets : owned'[n] = b
  BY <1>1, <1>6 DEF OwnedIsOpen, OpenIsOwned
<1>9. /\ strong' \subseteq Backends /\ kept' \subseteq Backends
      /\ \A b \in Backends :
           /\ b \in strong' <=> backend[b] = "open"
           /\ backend[b] = "closed" => b \in kept'
           /\ b \in kept' => backend[b] \in {"closed", "freed"}
  BY <1>1 DEF TypeOK, EitherOwns
<1> HIDE DEF IInv
<1> QED
  BY <1>1, <1>9, <1>2, <1>3, <1>4, <1>5, <1>7, <1>8, IInvSettled DEF IInv

LEMMA IInvDestroyWrapper ==
  ASSUME IInv, NEW w \in Wrappers, DestroyWrapper(w) PROVE IInv'
<1> USE DEF IInv
<1>1. /\ ptr' = [ptr EXCEPT ![w] = NullBackend] /\ tracker' = [tracker EXCEPT ![w] = NoBackend]
      /\ valid' = valid \ {w} /\ owned' = owned /\ strong' = strong /\ kept' = kept
      /\ backend' = Settle(backend) /\ w \notin Nets /\ w \in Objects
  BY LifetimeConstants DEF DestroyWrapper, RetireNone, Release, Objects
<1>2. /\ ptr' \in [Objects -> Backends \cup {NullBackend}] /\ valid' \subseteq Objects
      /\ tracker' \in [Objects -> Backends \cup {NoBackend}]
  BY <1>1 DEF TypeOK
<1>3. \A q \in Objects : tracker'[q] # NoBackend =>
        tracker'[q] = ptr'[q] /\ backend[tracker'[q]] \in {"open", "closed"}
  BY <1>1, <1>2 DEF HeldIsThere, TypeOK
<1>4. \A q \in Objects : ptr'[q] # NullBackend => backend[ptr'[q]] # "none"
  BY <1>1, <1>2 DEF PointedExists, TypeOK
<1>5. \A n \in Nets : ptr'[n] = ptr[n]
  BY <1>1 DEF TypeOK, Objects
<1>6. /\ backend \in [Backends -> {"none", "open", "closed", "freed"}]
      /\ owned' \in [Nets -> Backends \cup {NoBackend}]
  BY <1>1 DEF TypeOK
<1>7. /\ \A n \in Nets : owned'[n] # NoBackend =>
           /\ owned'[n] = ptr'[n] /\ backend[owned'[n]] = "open"
           /\ \A m \in Nets : owned'[m] = owned'[n] => m = n
      /\ \A b \in Backends : backend[b] = "open" => \E n \in Nets : owned'[n] = b
  BY <1>1, <1>5 DEF OwnedIsOpen, OpenIsOwned
<1>8. /\ strong' \subseteq Backends /\ kept' \subseteq Backends
      /\ \A b \in Backends :
           /\ b \in strong' <=> backend[b] = "open"
           /\ backend[b] = "closed" => b \in kept'
           /\ b \in kept' => backend[b] \in {"closed", "freed"}
  BY <1>1 DEF TypeOK, EitherOwns
<1> HIDE DEF IInv
<1> QED
  BY <1>1, <1>8, <1>2, <1>3, <1>4, <1>6, <1>7, IInvSettled DEF IInv

\* The backends after the retiring of b, before those that nothing holds are freed.
Retired(b) == [c \in Backends |-> IF c = b THEN "closed" ELSE backend[c]]

\* Retiring a backend leaves the others as they are, and moves its tracker out of it.
LEMMA Retiring ==
  ASSUME IInv, NEW m \in Nets, Retire(owned[m])
  PROVE  /\ Retired(owned[m]) \in [Backends -> {"none", "open", "closed", "freed"}]
         /\ \A c \in Backends : c # owned[m] => Retired(owned[m])[c] = backend[c]
         /\ owned[m] \in Backends => Retired(owned[m])[owned[m]] = "closed"
         /\ backend' = Settle(Retired(owned[m]))
         /\ strong' \subseteq Backends /\ kept' \subseteq Backends
         /\ \A c \in Backends :
              /\ c \in strong' <=> Retired(owned[m])[c] = "open"
              /\ Retired(owned[m])[c] = "closed" => c \in kept'
              /\ c \in kept' => Retired(owned[m])[c] \in {"closed", "freed"}
<1>1. /\ backend \in [Backends -> {"none", "open", "closed", "freed"}]
      /\ owned[m] \in Backends \cup {NoBackend} /\ strong \subseteq Backends /\ kept \subseteq Backends
  BY DEF IInv, TypeOK
<1>2. /\ strong' = strong \ {owned[m]} /\ kept' = kept \cup ({owned[m]} \cap Backends)
      /\ backend' = Settle(Retired(owned[m]))
  BY DEF Retire, Keep, Retired
<1> QED  BY <1>1, <1>2 DEF IInv, EitherOwns, Retired

LEMMA IInvMoveNetwork ==
  ASSUME IInv, NEW n \in Nets, NEW m \in Nets, MoveNetwork(n, m) PROVE IInv'
<1> DEFINE bk == Retired(owned[m])
<1> USE DEF IInv
<1>1. /\ n # m /\ n \in Objects /\ m \in Objects /\ MoveHandle(n, m)
      /\ ptr' = [ptr EXCEPT ![m] = ptr[n], ![n] = NullBackend]
      /\ owned' = [owned EXCEPT ![m] = owned[n], ![n] = NoBackend]
      /\ Retire(owned[m])
  BY DEF MoveNetwork, Objects
<1>2. /\ ptr' \in [Objects -> Backends \cup {NullBackend}]
      /\ ptr'[m] = ptr[n] /\ ptr'[n] = NullBackend
      /\ \A q \in Objects \ {n, m} : ptr'[q] = ptr[q]
  BY <1>1 DEF TypeOK
<1>3. /\ owned' \in [Nets -> Backends \cup {NoBackend}]
      /\ owned'[m] = owned[n] /\ owned'[n] = NoBackend
      /\ \A k \in Nets \ {n, m} : owned'[k] = owned[k]
  BY <1>1 DEF TypeOK
<1>4. /\ valid' \subseteq Objects /\ tracker' \in [Objects -> Backends \cup {NoBackend}]
      /\ tracker'[n] = NoBackend /\ tracker'[m] = tracker[n]
      /\ \A q \in Objects \ {n, m} : tracker'[q] = tracker[q]
  BY <1>1, HandleMoved
<1>5. /\ bk \in [Backends -> {"none", "open", "closed", "freed"}]
      /\ \A c \in Backends : c # owned[m] => bk[c] = backend[c]
      /\ owned[m] \in Backends => bk[owned[m]] = "closed"
      /\ backend' = Settle(bk) /\ strong' \subseteq Backends /\ kept' \subseteq Backends
      /\ \A c \in Backends :
           /\ c \in strong' <=> bk[c] = "open"
           /\ bk[c] = "closed" => c \in kept'
           /\ c \in kept' => bk[c] \in {"closed", "freed"}
  BY <1>1, Retiring
<1> HIDE DEF bk
<1>6. \A q \in Objects : tracker'[q] # NoBackend =>
        tracker'[q] = ptr'[q] /\ bk[tracker'[q]] \in {"open", "closed"}
  <2>1. \A q \in Objects : tracker[q] # NoBackend =>
          tracker[q] \in Backends /\ tracker[q] = ptr[q] /\ bk[tracker[q]] \in {"open", "closed"}
    BY <1>5 DEF HeldIsThere, TypeOK
  <2> QED  BY <1>1, <1>2, <1>4, <2>1
<1>7. \A q \in Objects : ptr'[q] # NullBackend => bk[ptr'[q]] # "none"
  <2>1. \A q \in Objects : ptr[q] # NullBackend => ptr[q] \in Backends /\ bk[ptr[q]] # "none"
    BY <1>5 DEF PointedExists, TypeOK
  <2> QED  BY <1>1, <1>2, <2>1
<1>8. \A k \in Nets : owned'[k] # NoBackend =>
        /\ owned'[k] = ptr'[k] /\ bk[owned'[k]] = "open"
        /\ \A j \in Nets : owned'[j] = owned'[k] => j = k
  <2>1. \A k \in Nets \ {m} : owned[k] # NoBackend =>
          /\ owned[k] = ptr[k] /\ bk[owned[k]] = "open"
          /\ \A j \in Nets : owned[j] = owned[k] => j = k
    BY <1>5 DEF OwnedIsOpen, TypeOK
  <2>2. \A k \in Nets : k \in Objects
    BY DEF Objects
  <2> QED  BY <1>1, <1>2, <1>3, <2>1, <2>2
<1>9. \A b \in Backends : bk[b] = "open" => \E k \in Nets : owned'[k] = b
  <2> SUFFICES ASSUME NEW b \in Backends, bk[b] = "open" PROVE \E k \in Nets : owned'[k] = b
    OBVIOUS
  <2>1. b # owned[m] /\ backend[b] = "open"
    BY <1>5
  <2>2. PICK k \in Nets : owned[k] = b
    BY <2>1 DEF OpenIsOwned
  <2> QED  BY <1>3, <2>1, <2>2
<1> QED  BY <1>1, <1>2, <1>3, <1>4, <1>5, <1>6, <1>7, <1>8, <1>9, IInvSettled

LEMMA IInvDestroyNetwork ==
  ASSUME IInv, NEW n \in Nets, DestroyNetwork(n) PROVE IInv'
<1> DEFINE bk == Retired(owned[n])
<1> USE DEF IInv
<1>1. /\ n \in Objects
      /\ ptr' = [ptr EXCEPT ![n] = NullBackend] /\ tracker' = [tracker EXCEPT ![n] = NoBackend]
      /\ valid' = valid \ {n} /\ owned' = [owned EXCEPT ![n] = NoBackend]
      /\ Retire(owned[n])
  BY DEF DestroyNetwork, Release, Objects
<1>2. /\ ptr' \in [Objects -> Backends \cup {NullBackend}] /\ valid' \subseteq Objects
      /\ tracker' \in [Objects -> Backends \cup {NoBackend}]
      /\ owned' \in [Nets -> Backends \cup {NoBackend}]
  BY <1>1 DEF TypeOK
<1>3. /\ bk \in [Backends -> {"none", "open", "closed", "freed"}]
      /\ \A c \in Backends : c # owned[n] => bk[c] = backend[c]
      /\ owned[n] \in Backends => bk[owned[n]] = "closed"
      /\ backend' = Settle(bk) /\ strong' \subseteq Backends /\ kept' \subseteq Backends
      /\ \A c \in Backends :
           /\ c \in strong' <=> bk[c] = "open"
           /\ bk[c] = "closed" => c \in kept'
           /\ c \in kept' => bk[c] \in {"closed", "freed"}
  BY <1>1, Retiring
<1> HIDE DEF bk
<1>4. \A q \in Objects : tracker'[q] # NoBackend =>
        tracker'[q] = ptr'[q] /\ bk[tracker'[q]] \in {"open", "closed"}
  <2>1. \A q \in Objects : tracker[q] # NoBackend =>
          tracker[q] \in Backends /\ tracker[q] = ptr[q] /\ bk[tracker[q]] \in {"open", "closed"}
    BY <1>3 DEF HeldIsThere, TypeOK
  <2> QED  BY <1>1, <1>2, <2>1 DEF TypeOK
<1>5. \A q \in Objects : ptr'[q] # NullBackend => bk[ptr'[q]] # "none"
  <2>1. \A q \in Objects : ptr[q] # NullBackend => ptr[q] \in Backends /\ bk[ptr[q]] # "none"
    BY <1>3 DEF PointedExists, TypeOK
  <2> QED  BY <1>1, <1>2, <2>1 DEF TypeOK
<1>6. \A k \in Nets : owned'[k] # NoBackend =>
        /\ owned'[k] = ptr'[k] /\ bk[owned'[k]] = "open"
        /\ \A j \in Nets : owned'[j] = owned'[k] => j = k
  <2>1. \A k \in Nets \ {n} : owned[k] # NoBackend =>
          /\ owned[k] = ptr[k] /\ bk[owned[k]] = "open"
          /\ \A j \in Nets : owned[j] = owned[k] => j = k
    BY <1>3 DEF OwnedIsOpen, TypeOK
  <2> QED  BY <1>1, <1>2, <2>1 DEF TypeOK, Objects
<1>7. \A b \in Backends : bk[b] = "open" => \E k \in Nets : owned'[k] = b
  <2> SUFFICES ASSUME NEW b \in Backends, bk[b] = "open" PROVE \E k \in Nets : owned'[k] = b
    OBVIOUS
  <2>1. b # owned[n] /\ backend[b] = "open"
    BY <1>3
  <2>2. PICK k \in Nets : owned[k] = b
    BY <2>1 DEF OpenIsOwned
  <2> QED  BY <1>1, <1>2, <2>1, <2>2 DEF TypeOK
<1> QED  BY <1>1, <1>2, <1>3, <1>4, <1>5, <1>6, <1>7, IInvSettled

----------------------------------------------------------------------------
LEMMA IInvInit == Init => IInv
BY LifetimeConstants
   DEF Init, IInv, TypeOK, HeldIsThere, PointedExists, OwnedIsOpen, OpenIsOwned,
       EitherOwns, ClosedIsHeld

LEMMA IInvStep == IInv /\ [Next]_vars => IInv'
<1> SUFFICES ASSUME IInv, [Next]_vars PROVE IInv'
  OBVIOUS
<1>1. CASE UNCHANGED vars
  BY <1>1 DEF vars, IInv, TypeOK, HeldIsThere, PointedExists, OwnedIsOpen, OpenIsOwned,
              EitherOwns, ClosedIsHeld
<1>2. CASE Next
  BY <1>2, IInvOpen, IInvOpenFails, IInvGet, IInvDerive, IInvCopy, IInvMove, IInvMoveNetwork,
     IInvDestroyWrapper, IInvDestroyNetwork DEF Next
<1> QED  BY <1>1, <1>2

(***************************************************************************)
(* What holds of every state, for any number of sessions, Networks and     *)
(* wrappers, moved and destroyed in any order.                             *)
(***************************************************************************)
THEOREM Inductive == Spec => []IInv
BY IInvInit, IInvStep, PTL DEF Spec

\* The backends, and what Networks and wrappers say of them, keep their types.
THEOREM TypeCorrect == Spec => []TypeOK
BY Inductive, PTL DEF IInv

\* A wrapper whose HandleRef was not moved out of it never calls into a freed backend.
THEOREM NoDangling == Spec => []NoDanglingWrapper
<1>1. IInv => NoDanglingWrapper
  BY LifetimeConstants DEF IInv, HeldIsThere, NoDanglingWrapper, Reach, Unbound, TypeOK
<1> QED  BY <1>1, Inductive, PTL

\* Every backend that exists is reached from a Network or a wrapper: keep() leaves none to a
\* tracker that the backend itself holds.
THEOREM NothingKept == Spec => []NothingKeptForNobody
<1>1. IInv => NothingKeptForNobody
  BY DEF IInv, OpenIsOwned, EitherOwns, ClosedIsHeld, NothingKeptForNobody
<1> QED  BY <1>1, Inductive, PTL

\* An open session has one Network, any other session none: none is leaked, none closed twice.
THEOREM OwnedOnce == Spec => []OneOwner
<1>1. ASSUME IInv, NEW b \in Backends
      PROVE  Cardinality({n \in Nets : owned[n] = b}) = IF backend[b] = "open" THEN 1 ELSE 0
  <2>1. CASE backend[b] = "open"
    <3>1. PICK n \in Nets : owned[n] = b
      BY <1>1, <2>1 DEF IInv, OpenIsOwned
    <3>2. {m \in Nets : owned[m] = b} = {n}
      BY <1>1, <3>1, LifetimeConstants DEF IInv, OwnedIsOpen
    <3> QED  BY <2>1, <3>2, FS_Singleton
  <2>2. CASE backend[b] # "open"
    <3>1. {m \in Nets : owned[m] = b} = {}
      BY <1>1, <2>2, LifetimeConstants DEF IInv, OwnedIsOpen
    <3> QED  BY <2>2, <3>1, FS_EmptySet
  <2> QED  BY <2>1, <2>2
<1>2. IInv => OneOwner
  BY <1>1 DEF OneOwner
<1> QED  BY <1>2, Inductive, PTL

\* Moving a Network takes no object away from the sessions it does not end.
THEOREM MovesSafe == Spec => MovingKeepsObjects
<1> DEFINE Kept == \A n, m \in Nets : MoveNetwork(n, m) =>
             \A w \in Wrappers : Reach(w) = "ok" /\ ptr[w] # owned[m] => Reach(w)' = "ok"
<1>1. IInv => Kept
  <2> SUFFICES ASSUME IInv, NEW n \in Nets, NEW m \in Nets, MoveNetwork(n, m),
                      NEW w \in Wrappers, Reach(w) = "ok", ptr[w] # owned[m]
               PROVE  Reach(w)' = "ok"
    OBVIOUS
  <2>1. /\ w \in Objects \ {n, m} /\ n \in Objects /\ m \in Objects /\ n # m
        /\ MoveHandle(n, m)
        /\ ptr' = [ptr EXCEPT ![m] = ptr[n], ![n] = NullBackend]
        /\ Retire(owned[m])
    BY LifetimeConstants DEF MoveNetwork, Objects
  <2>2. ptr[w] \in Backends /\ backend[ptr[w]] = "open" /\ w \in valid
    BY <2>1 DEF Reach, Unbound, IInv, TypeOK
  <2>3. w \in valid' /\ ptr'[w] = ptr[w]
    BY <2>1, <2>2, HandleMoved DEF IInv, TypeOK
  <2>4. Retired(owned[m])[ptr[w]] = "open"
    BY <2>1, <2>2, Retiring
  <2>5. backend'[ptr[w]] = "open"
    BY <2>1, <2>2, <2>4, Retiring, Settled
  <2> QED  BY <2>2, <2>3, <2>5 DEF Reach, Unbound
<1> QED  BY <1>1, Inductive, PTL DEF MovingKeepsObjects
=============================================================================
