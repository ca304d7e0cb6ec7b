# Verification of iidm-bridge

iidm-bridge gives C++ programs the IIDM network model of powsybl (Java), through one of two
backends: a GraalVM native image loaded with `dlopen`, or the JVM the process already runs (JNI).
The C++ objects are light wrappers: a handle of a Java object, and the backend to ask.

Almost everything that can go badly wrong is in who releases what and when: handles are counted
by wrappers on any threads, a network may be destroyed while its wrappers and threads are still
there, threads end while isolates are closed elsewhere, and the same addresses come back. That is
what most of these specifications are about. The accessors themselves only forward to powsybl, by property
code; what can be wrong there is that the C++ table of codes and the Java one, both written by hand, disagree.

## 1. The system

| Component | State | Operations | Interacts with | Hard behaviours | What makes it correct |
|---|---|---|---|---|---|
| Handle bookkeeping: `src/HandleRef.cpp`, `src/HandleTracker.h`, `src/BackendProvider.cpp` | `counts_`, `owner_`, `kept_` under a mutex; `handle_` and `tracker_` of each HandleRef | retain, release, releaseAll, detach, keep; construction, copy, move, assignment, destruction | calls the backend's `releaseHandle` after unlocking | releases racing with each other, with new holds and with the close; addresses that come back | counts equal holds; a held reference exists; each other one is released once; the closed backend goes last |
| Lifetime: `src/Network.cpp`, `include/iidm/ObjectRef.h`, `src/NullBackend.cpp` | `owned_` of each Network, `backend_` of each wrapper | open, move, assign, destroy, views, conversions | HandleTracker keeps the closed backend | moved-from and outliving objects, assignment over an open network | one owner per session; no wrapper reaches a freed backend |
| GraalVM isolates: `src/graalvm/GraalVMBackend.cpp` | `openIsolates()`, `threadIsolates` of each thread, `isolate_`, `isolateId_`, `libHandle_` | init, thread, calls, releaseHandle, close, end of a thread | GraalVM's C API, `dlopen` | threads ending during a tear-down, reused addresses, failed attachments | a thread detaches from its own open isolates; calls enter running ones |
| GraalVM entry points: `IidmEntryPoints.java`, `NetworkRegistry.java`, `BridgeErrors.java`, `check()` | handle registry, last error of each thread, buffers | one entry point per operation | called by GraalVMBackend | a call that fails midway, a message taken in a second call | each failure raises its own exception, no buffer or handle is lost |
| JNI sessions: `src/jni/JNIBackend.cpp`, `src/jni/JavaVMs.cpp` | `jvm_`, `networkId_`, `networkRef_`, `jvmAttachment` of each thread | constructor, load, create, rebind, calls, close, end of a thread | the JVM, the registry below | the JVM destroyed first, host threads, loads on several threads | one global reference per session; only own threads detached; the loaded network is the bound one |
| Java registry: `IidmBridgeRegistry.java` | the networks by id | register, unregister, clear, get, loadFromBytes, createNetwork | shared by all JNI backends and the Java program | changed between two calls of a load | as above |
| Selection: `src/BackendSelector.cpp`, `src/NetworkFactory.cpp` | none | load, create, wrap | the backends | environment variable against the mode asked for | a decision table; `wrap` only ever gets the JVM's networks |
| Property codes: `PropertyCodes.def`, `src/PropertyCodesCheck.cpp` | none | hash and compare | both constructors | a library and a jar of different versions | different codes are refused |
| Strings: `src/jni/JNIStrings.h` | none | UTF-8 to and from UTF-16 | JNI backend | surrogates, malformed input | the same strings on both backends |
| Creation: `Creation.java`, `include/iidm/Adder.h`, `*Adder.h` | the Java adder of each C++ adder; the fields of a pending addition or call | invoke, set, add, remove, move, drop | powsybl's adders, the handles | an adder reused, moved or refused; fields missing; a nested adder; a part selected by an earlier field | one Java adder each; the network gets exactly what each accepted `add()` describes |
| Dispatch: `PropertyDispatcher.java`, `PropertyTable.java`, `LimitsDispatch.java`, `Extensions.java` | tables of codes | get, set, related, children, invoke | powsybl, the wrappers | a code sent to the wrong function or object, found only when that accessor is called | no wrapper's accessor is refused |
| Wrappers: the other `src/*.cpp`, `include/iidm/*.h` | the class and the handle of a wrapper | accessors, conversions between classes | the backend, the dispatch | a wrapper of the wrong class, or of no object | a wrapper's class fits its object, which exists |

## 2. The modules

| Module | Models | Checked by |
|---|---|---|
| `HandleTracker` | the tracker, the HandleRefs and the close of a backend, on any threads | `MCHandleTracker` (safety, refinement, liveness), `MCHandleTrackerAssign` |
| `HandleOwnership` | what the bookkeeping promises, without counters, locks or threads | implemented by `HandleTracker` |
| `HandleTracker_proofs` | the theorems about `HandleTracker` | TLAPS |
| `NetworkLifetime` | Networks, views and wrappers, the backend each points to and the tracker each holds | `MCNetworkLifetime`, `MCNetworkLifetimeMoved` |
| `NetworkLifetime_proofs` | the theorems about `NetworkLifetime` | TLAPS |
| `GraalIsolates` | isolates, the threads attached to them, opening and closing | `MCGraalIsolates`, `MCGraalIsolatesUnloaded`, `MCGraalIsolatesRelease` |
| `GraalIsolates_proofs` | the theorems about `GraalIsolates` | TLAPS |
| `EntryPoints` | calls through the native image's entry points: handle registry, errors, buffers | `MCEntryPoints` (safety, refinement) |
| `BackendCalls` | what a call promises to the thread that makes it | implemented by `EntryPoints` |
| `BridgeErrors` | which C++ exception is raised for a Java one | `MCEntryPoints` |
| `EntryPoints_proofs` | the theorems about `EntryPoints` | TLAPS |
| `CreatedObjects` | an object and its extensions, as an adder describes it: what powsybl keeps | `MCCreation` |
| `CreationPromise` | what creation promises: a network changed by whole accepted additions | implemented by `Creation` |
| `Creation` | C++ adders and the Java ones they drive, pending additions and calls in steps | `MCCreation` (safety, refinement) |
| `Creation_proofs` | the theorems about `Creation` | TLAPS |
| `Powsybl` | powsybl's types, as sets of kinds of objects (external) | `MCTypedCalls` |
| `PropertyTable`, `PropertyDispatcher`, `AdderDispatch` | the Java half: the codes of each function, the kinds of objects each is for, what it answers | `MCTypedCalls` |
| `Accessors`, `NetworkWrappers`, `EquipmentWrappers`, `PartWrappers`, `AdderWrappers` | the C++ half: the call of each accessor, how its answer is taken, the class it is given to | `MCTypedCalls` |
| `TypedCalls` | a client that goes from wrapper to wrapper over both halves | `MCTypedCalls` |
| `TypedCalls_proofs` | the theorems about `TypedCalls` and the tables of both halves | TLAPS |
| `JniSessions` | sessions over the JVM, the Java registry, threads attached to the JVM | `MCJniSessions`, `MCJniSessionsMixed` |
| `JniSessions_proofs` | the theorems about `JniSessions` | TLAPS |

**HandleTracker.** The mutex makes each locked section one step. What the code does after
unlocking is a step of its own, with what was read under the lock: `TrackerRelease` then `Free`
(the call of `releaseHandle`) then `Reset` (the shared pointer, and what an assignment moves in). A Network ends
its session in one of two ways, `net`: `~Network` closes with its own HandleRef still set (`DestroyNetwork` ... `LeaveNetwork`),
`Network::operator=` releases and replaces that HandleRef first (`AssignNetwork`, the steps of a release, `RetireAssigned`), so that the
last copy of the network's handle may then be dropped on another thread. The close is a step for each thing that other threads
read: `ReleaseAll` (the owner), one `ReleaseNext` per handle, `DropNetwork` (the reference and `networkRef_`), `FinishClose`
(`jvm_`), `MoveTracker` (`tracker_`) and `Keep` (`keptBy_`). `ReleaseHandle` is the backend's: its two unsynchronized tests
may answer with what the close has reset or not, and then it deletes the address, whoever has it by then, or fails. A release that fails is
swallowed (`LeakReference`), in a destructor, in the loop of `releaseAll` and in the close itself.
A handle returned by a call (`Obtain`) is in transit until its HandleRef is
built (`Wrap`). `pc`, `reg`, `obj` and `src` are where a thread is, and its local variables. `late`
and `leaked` are history variables, read by `LeaksAccounted` only. Handles are JNI references, addresses that come back
once deleted and that other backends may get (`ForeignReference`); GraalVM's handles never come back,
and the tear-down of an isolate releases more than `DropNetwork` does, so they are a special case.
A HandleRef is not synchronized in the code: two threads read one at the same time, but never
change it (`Busy`, `Written`).

**NetworkLifetime.** One C++ operation is one step, several sessions share the wrappers. `ptr` is
`backend_`, `tracker` the tracker behind `handle_`, and `Reach` what a call through an object meets.
Ownership is followed pointer by pointer: `owned` is the `unique_ptr` of a Network, `strong` says whether a backend's `tracker_`
holds its tracker, `kept` whether the tracker owns the backend (`kept_`, and `keptBy_` which is weak). A tracker goes when nothing holds it,
and takes what it keeps along (`Settle`): were `tracker_` copied by `keep` and not moved, backend and tracker
would hold each other for good, which is what `NothingKeptForNobody` excludes.
The implicit move of wrappers (`Move`) leaves the pointer, Network's own (`MoveNetwork`) does not.

**GraalIsolates.** `running` and `attached` are the image's own state: the isolate at each address and
the threads it knows. `openIsolates()` is `lastId` and `detachThread`; each of its locked sections is
one step, and close() is five (`Close`, `CloseThread`, `Erase`, `TearDown`, `Unload`). Calls of a
backend and its close do not overlap, as a Network is not synchronized, but a release may overlap
the close: wrappers on other threads are destroyed when they are. `ThreadExit` runs once per thread;
static objects may still use networks on the thread afterwards, as the code's comments say.

**EntryPoints.** A call of a thread goes from `Call` to `Return` or `Raise`, over the steps inside the entry point
that another thread can come between: the lookup of the handle and the dispatch, one `Register` per object,
the allocation of the buffer, then the return to C++, and for a failure `TakeLastError` as a second call. What the
dispatch does is left to powsybl: a call is one of five `Operations`, told apart by what comes back, and it
may throw any of `Failures`, between two objects of a `getChildren` too, whose stream is lazy (`HandOverFails`). Every `catch` is `Fail`. `cause` and `abandoned` are history variables: the
failure really met, and the handles that a failed call had registered. HandleTracker's counting is the set `held`
here. Those `abandoned` handles exist in the code: a `getChildren` that fails between two objects, or whose array of
handles cannot be allocated, leaves those it registered until the isolate is torn down; no document promises otherwise, and `RegistryAccounted` says
that nothing else is left behind. A C++ allocation that fails while a result is copied is not modelled.

**JniSessions.** A call into Java is one step, so a load is two (`Load`, `Rebind`) and another thread
or the Java program may run in between. The Java program registers and unregisters under `JavaIds`,
attaches and detaches threads, those that the bridge attached included, and destroys the JVM. `loaded`, `lost` and `taken` are history
variables; `taken` are the threads attached by the bridge and detached by the host (see section 6).

**Creation.** One adder of each form stands for all: a line (an identifiable's adder, with a copy and a position
extension), a three-windings transformer and its legs (nested adders), its Fortescue extension (a builder whose leg is
selected by a field), coordinates (a call in steps, whose field keeps a list). A C++ adder is a slot with the handle of
its Java adder; a handle comes back only once nothing refers to its Java adder, so it is also the identity of that one. `AddMain`, `AddLeg`,
`AddPosition`, `AddFortescue` are the cases of `Creation.add`, `CopyRefused` is the copy that powsybl refuses once the C++
adder is built. The release of a dropped adder is immediate here: its timing is `HandleTracker`'s. Moves and assignments go from and onto
moved-from adders too, whose backend answers `INVALID_HANDLE` with a refusal (`UseMovedFrom`). In
`CreationPromise` there are no adders, handles or slots: only descriptions, and a network that grows by those accepted.

**The typed calls.** An accessor is a record: its class, the function of the backend that it calls, the code, how it takes
the answer ("one" makes a wrapper of whatever comes, "maybe" is `wrapOptional`, "many" `wrapAll`) and the class of the
wrapper made. A case of the dispatch is a set of codes, the kinds of objects that its cast admits, and the kinds it
answers, `None` among them where Java answers null or an empty `Optional`. Values are one value. `TypedCalls` holds one
wrapper at a time, its class and the kind of its object, and takes every accessor of its class and bases (`Follow`,
`ReadOrWrite`, `StartCopy`, `LookThrough`), every conversion to a base (`Widen`) and every `as<T>()` (`Narrow`).
Every case and every accessor is translated on its own side, from its own language, the conditions of a case (`instanceof`,
casts) included; nothing is shared between the two halves but the names of codes. Of powsybl's types, which ones keep
properties is read off the C++ hierarchy, as the Java half casts to one interface: there the two halves are not checked
against each other. The class of an object given to `setRelated` is that of the C++ overload, and not modelled.
Extensions are left out on both sides.

## 3. The runs

| Run | Bounds | What it shows |
|---|---|---|
| `handles` | 2 threads, 3 HandleRefs (the Network's and 2), 3 handles (the network's and 2); one foreign reference and one failed release at a time | `CountsMatchHolders`, `HeldHandlesLive`, `ReleasedOnce`, `LeaksAccounted`, `BackendLifetime`, `OthersUntouched`, that the bookkeeping implements `HandleOwnership`, and `CloseEnds` under weak fairness |
| `handles_assign` | 2 threads, 3 HandleRefs, 2 handles | finding: a late release of the handle of a Network assigned over deletes another backend's reference |
| `lifetime` | 3 Networks or views, 2 wrappers, 2 sessions | `NoDanglingWrapper`, `OneOwner`, `NothingKeptForNobody`, `MovingKeepsObjects` |
| `lifetime_moved_from` | 1 Network, 2 wrappers, 1 session | finding: a moved-from wrapper reaches a freed backend |
| `isolates` | 3 threads, 2 backends, 2 addresses | `ExitDetachesOwn`, `CallsEnterRunning`, `RememberedUntilDetached` |
| `isolates_unloaded` | 2 threads, 1 backend | finding: a thread that ends calls into an unloaded library |
| `isolates_release` | 2 threads, 1 backend | finding: a release enters an isolate that is closed |
| `entry_points` | 2 threads, 3 handles, 2 objects a call, 3 failures and out of memory | `RegistryAccounted`, `BuffersAccounted`, `LastErrorIsMine`, and that the entry points implement `BackendCalls` |
| `creation` | 1 id beside the substation's, 2 coordinates, 2 sides, 3 slots, 3 handles, 2 Java adders at a time, 2 objects | `OneAdderEach`, and that creation implements `CreationPromise` |
| `wrappers` | none: every class, accessor and case | `WrapperFits`, `ObjectBehindWrapper`, `NeverRefused`, `Narrowable` |
| `sessions` | 2 threads, 2 backends, 2 ids, 3 networks | `OneReferenceEach`, `OwnIdOwnNetwork`, `HostThreadsStay`, `EndedThreadsDetached` |
| `sessions_mixed` | 2 threads, 2 backends, 1 id | finding: two loads under one id, and a Network of the other load |

*Why the bounds are enough.* Every race of the tracker is between two threads on one handle, beside a
handle that must not be disturbed: two threads, the Network's HandleRef and two wrappers, of the network's handle or of others.
Larger instances are left to the proofs. Three networks let an assignment go over an open one beside an unrelated one.
Two backends at two addresses let an isolate come back at the address of a closed one, or run beside it,
and a third thread ends, or releases, while the two others open and close. (An isolate that comes back while a third one
stays is covered by the proofs of `GraalIsolates` only.)
Two loads, and one network of the Java program, need three networks. Three handles are the network's, and one for a call of each thread, or two for
one call and none left for the other. `MaxHandles` bounds the registrations of `EntryPoints`, whose handles never
come back; the other counters are the counts (bounded by the HandleRefs) and `lastId` (by the backends, each opened once).
One run's state space is cut: in `handles` the constraints `FewForeign` and `FewLeaked` explore no further than states with two addresses
of other backends, or two failed releases. Neither kind of step helps another operation on, so the close that `CloseEnds` is about
ends within the states explored; the safety properties are proved for any number of both. In `creation`, a leg's adder and its transformer's
are two Java adders, and a third handle and slot let one be dropped, moved or assigned while the other is used, or a leg's outlive its
transformer's. Two objects under one id are one removed and created again, beside the adders that still have the first
as their host; two coordinates tell the last one from the list. Slots, handles and coordinates are only compared, never
ordered, hence its symmetry. `wrappers` has no bound to choose: a
client is at a class and a kind, and all of them are reached.

*Fairness.* `FairSpec` asks that a thread in the middle of an operation goes on (`WF_vars(Continue(t))`).
The code waits for nothing there but the mutex, held for a few map operations that call nothing that
blocks. Within the close itself a release may call into Java, which may fail but returns. No fairness is asked of starting an operation, or of other backends. The other runs state safety
only. The threads may run out of work (every backend is opened once, a destroyed network has no more
calls), hence `CHECK_DEADLOCK FALSE`; the `lifetime` runs, `entry_points`, `creation` and `wrappers` keep the deadlock check.

## 4. What is proved

`HandleTracker_proofs` and `HandleOwnership`, for any sets of threads and handles and any finite set of
HandleRefs (`FiniteRefs`, `NetworkConstants` and `NoHandleIsNone` are the only assumptions):

- `TypeCorrect`: `Spec => []TypeOK`.
- `Inductive`: `Spec => []IInv`, and from it `CountsCorrect`, `HeldLive`, `ReleasesOnce` and
  `BackendKept`, the invariants of the run `handles` (`LeaksAccounted` is below), and `ForeignSafe`, its action
  property `OthersUntouched`.
- `Refines`: `Spec => Implements`, the refinement of `HandleOwnership`; `UsedStayLive` is what
  `HandleOwnership` guarantees and `UsedLive` carries it over to the implementation.

*The inductive invariant.* That counts equal holds says nothing of the threads between two steps, so `IInv`
adds what the operations under way rely on: two of them never share a HandleRef that one changes
(`Exclusive`), which HandleRefs are set at each step and in which state the backend is then
(`InOperation`), that an unset HandleRef holds no handle (`UntrackedIsEmpty`), that the Network holds its
own handle until it is destroyed or assigned over (`NetworkHeld`), and that references in transit (returned and not yet held,
or taken from the map and not yet released) are distinct, exist and are held by nobody
(`InTransit`). The heart of the proof is `SoleHolder` and `InTransit`: a count of one is a set
of holders of one element, so after the locked section nobody holds the handle, and nobody can, as
copies need a holder and the address is not free. `InTransit` does not mention the owner for the existence
of the reference, which is what carries over the close: that is the part `ForeignSafe` needs. Its one exception, here and in
`ReleasedOnce` and `OthersUntouched`, is the network's own handle once its Network is assigned over: the release decided before the
close may find the reference deleted by it. The theorems say that nothing else goes wrong; finding 5 is that exception.
The lemmas `CountsAdd`, `CountsDrop`, `CountsKept` and `Swap` say what each operation does to the
number of holders; `IInvObtain` to `IInvStutter` are one per action.

`NothingLeaks` is `Spec => []LeaksAccounted`. To `IInv` it adds, for every reference on the Java side whose release did not fail, who
will give it up: a count, a thread on its way to or from one, or a Network being assigned over, while the backend is open (`Accounted`), then
the close, or nobody if it was in transit when the close began (`OnlyLate`); that the closing thread is still there while
something is due, and the assigning one until it closes (`Closer`); and that nothing finds a reference again whose release failed (`Forgotten`).

`EntryPoints_proofs`, for any threads, any bounds and any `Failures` among the Java exceptions
(`EntryPointConstants`):

- `TypeCorrect`, `RegistryKnown`, `BuffersFreed` and `ErrorsOwn` are the invariants of the run `entry_points`.
- `Refines`: `Spec => Implements`, the refinement of `BackendCalls`; `KindDocumented` is the fact about the two
  classifications that it rests on.

*Its inductive invariant* adds to these invariants that handles are numbered in order (`Numbered`), that each has one place
(`Apart`: C++, one call, or abandoned), that the one load comes before the network's handle is set (`OneLoad`), and what
is known of a call at each step (`Staged`: a status other than OK is that of the failure it caught). `Apart` is what
makes an answer's handles new in the refinement (`GotFresh`, `NextFresh`); `Staged` and `LastErrorIsMine` are what make
the exception and its message those of the same failure.

`NetworkLifetime_proofs`, for any sets of sessions, Networks and wrappers (`LifetimeConstants`):
`TypeCorrect`, `NoDangling`, `NothingKept`, `OwnedOnce` are the invariants of the run `lifetime`, `MovesSafe` its action property. *Its
inductive invariant* ties the pointers together: an object that holds a tracker points to the same backend, which
is open or closed and not freed (`HeldIsThere`), a backend holds its tracker or is owned by it, never both
(`EitherOwns`), a closed one is owned by a tracker that some HandleRef holds (`ClosedIsHeld`), a Network points to the session it owns, which is open and which it owns alone (`OwnedIsOpen`),
every open session has such a Network (`OpenIsOwned`), and nothing points to a session not opened yet (`PointedExists`). `OneOwner`, a
cardinality, and `NothingKeptForNobody` follow; the latter is what `EitherOwns` is for.

`GraalIsolates_proofs`, for any threads, backends and addresses (`IsolateConstants`: an address is not null, and there is a
backend): `TypeCorrect`, `OwnDetached`, `CallsInside` are the invariants of the run `isolates`, `NeverForgotten` its action property. *Its inductive
invariant* is about ids, as addresses come back: they are given in order and each backend has its own (`IdsGiven`,
`IdsApart`), what a thread remembers under the id of a backend is at that backend's address (`EntriesAgree`), and
an id not erased is that of the isolate running there (`OpenIsRunning`). `Phases` and `Alone` say how far a close has gone, and
that only one thread does it. `CallsInside` covers releases too, as long as nobody closes the backend: a release
that finds it closing or closed is finding 3.

`JniSessions_proofs`, for any threads, backends, ids and networks (`SessionConstants`): `TypeCorrect`, `ReferencesCounted` and
`LoadsApart` are the invariants of the run `sessions`, `HostsStay` and `EndedDetached` its action properties. *Its inductive
invariant* adds that the threads to detach are those the bridge attached, but for those the host took over (`OursRecorded`), that a session is bound
from its opening to its close (`Bound`), that one thread loads into it (`Loading`), and that between `Load` and `Rebind` a
network under an id nobody else uses is still registered (`OwnRegistered`): the step `LoadedNetworkBound` fails without.

`Creation_proofs`, for any ids, values, coordinates, sides, slots and handles, and any bounds (`CreatedConstants`,
`CreationConstants`, and `NoneIsNoObject` and `NoneIsNoDescription`, which say that an absent object or adder is told from one that
is there): `TypeCorrect`, `OneAdder`, `Refines`, the refinement of `CreationPromise`, `NetworkSound` and `OneObject`. *Its inductive invariant* is no
more than `TypeOK` and `OneAdderEach`: that a leg's transformer adder is still there, which the latter says, is what `AddLeg` needs. The
refinement maps each registered handle to what its Java adder describes, a call in steps read as it will be when made
(`Draft`); `DraftsSet`, `DraftsKept` and `DraftsGivenUp` say what each operation does to that. A handle that comes back starts a draft that no
leg refers to (`RefinesBegin`), as a leg's adder keeps its transformer's out of the free handles.
`NetworkSound` is about what all the additions leave behind, `Spec => []Sound`: every object of the network has what one of its
kind must have, and no extension that its kind cannot (`NetworkWhole`); a new object is told from those that had its id before
(`BirthsApart`); and the host of an extension's adder is of the right kind or gone, never another object under the
same id (`HostsFit`). `OneObject` is the action property `OneObjectAtATime`: a call creates, extends or removes one object, and
changes nothing that an object was created with. These are stated in `Creation_proofs` only, as they follow from no one
guard: `Sound` is inductive only beside `IInv`, and TLC agreed with both on the instance of `MCCreation` before the proof.

`TypedCalls_proofs`, which needs no assumption, as `TypedCalls` has no constant. `TablesAgree` is about the two halves alone,
`\A r \in Accessors : Fits(r)`: whatever kind of object a wrapper's class is for, each of its accessors is answered, and by
nothing but what the class given to the answer is for. That is more than the run says, which asks it of the pairs of a
class and a kind that its client comes to. The argument follows the code: `Decides` says what a function of the dispatch
asks first, and which case or table then answers (the `...Decide` lemmas, one per function); the `...Asked`, `...Read` and `...Written` sets
are the codes the wrappers send to it, all of which it serves (the `...Served` lemmas) or answers with the right
kinds (`...Linked`); one `...Fit` lemma per group of accessors puts the group's codes in those sets. The client's invariants
`TypeCorrect`, `WrappersFit`, `AlwaysAnObject`, `Answered` and `AlwaysNarrowable` are those of the run `wrappers`. *The inductive
invariant* is the first four together: a held wrapper that fits is asked nothing that `TablesAgree` does not cover, so it
is answered, with an object, of a kind its class is for, and `LineageKinds` (a class' objects are objects of all its bases) and
`KeptFits` keep that through the conversions between classes. `AlwaysNarrowable` is not inductive but follows: by `FinalBelow`, whatever kind
a base is for is also for a class below it that has none below.

*Only model-checked*: `CloseEnds`, the one liveness property: that a thread in the middle of an operation can go on
(`ENABLED`) and that fairness then makes it end is out of the prover's reach.

## 5. Findings

1. **Moved-from wrappers** (`lifetime_moved_from`): README.md:200-202 promises `InvalidHandleException` from
   objects used after their network is destroyed. A moved-from wrapper keeps `backend_` without the tracker
   and reaches freed memory.
2. **A close that cannot attach its thread** (`isolates_unloaded`) leaves the isolate among the open ones but
   unloads the library; the threads that used it call `graal_detach_thread` in it when they end.
3. **A release decided before a close** (`isolates_release`) enters the isolate while it is torn down, although
   the comments say that nothing is released later on. With a third thread the address may be that of another isolate by
   then: the releasing thread is attached to it under the id of the closed one, so it does not detach when it ends.
4. **Two loads under one id** (`sessions_mixed`): a load gets its network back from the registry by id, in
   a second call, and may get another one's.

5. **A late release of the handle of a Network assigned over** (`handles_assign`): `Network::operator=` releases the target's
   handle before it closes its session (Network.cpp:41-42). When another thread then drops the last copy of that handle, its
   `releaseHandle`, done after unlocking, may come once close() has deleted the reference and reset `networkRef_`
   (JNIBackend.cpp:251-255) and before, in its eyes, `jvm_` is reset: the test of line 262 lets it through, and it deletes an
   address that another backend may have got. `~Network`, which closes first, has no such race, and neither has the
   GraalVM backend, which keeps `networkHandle_`.

## 6. What is not modelled, and why

- *Extensions* (`Extensions.java`, `include/iidm/extensions`): 37 types of one pattern, an object found or made by its type
  code on a host; each has its own table of fields, checked by nothing here. The position and Fortescue extensions are in
  `Creation`.
- *The contents of networks*: what powsybl computes, keeps and validates. `Acceptable` and the outcomes of a dispatch are
  its choice.
- *Strings* (`JNIStrings.h`), *the hash of the property codes* and *the selection of the backend* (`BackendSelector.cpp`):
  functions of their arguments or of the environment, without state and without anything that comes between.
- *The errors of the JNI backend*: an exception is cleared and rethrown in the call that met it, so nothing happens between
  the two steps that `EntryPoints` is about.
- *A host that takes over a thread of the bridge*: one that detaches a thread the bridge attached, and attaches it again, finds it
  detached when the thread ends, as `jvmAttachment` is still set (JNIBackend.cpp:29, 65). The comment of lines 22-23 speaks of
  threads attached by others; `JniSessions` has these steps, and `HostThreadsStay` leaves such threads out (`taken`).
- *Torn reads*: `keep` moves `tracker_` and sets `keptBy_` without a lock (HandleRef.cpp:70-72), beside a call whose wrapper reads them.
  `HandleTracker` has the wrapper that gets no tracker in between; a `shared_ptr` read while it is written has no defined
  outcome. The repository's README (lines 209-211) leaves the locking of a network's changes to the caller.
- *What a close waits for in the image*: `graal_tear_down_isolate` waits for the threads attached to the isolate. `CloseEnds` is about the
  bookkeeping of a close, which waits for nothing.
- *An adder of powsybl that goes on describing what it added*: powsybl keeps the leg's adder itself, so a field set after its `add()`
  changes the transformer; `AddLeg` takes the fields when it is added. The class of a moved-from C++ adder is not kept: it may be assigned one of any form.
- *The growth of `threadIsolates`*: entries are forgotten when the thread next enters a new isolate; `RememberedUntilDetached` says none is too early.
- *The launcher, the build, the release and the examples*.
- *Undefined use*: a leg's C++ adder keeps a reference to its transformer's, and using it after that one is moved or destroyed
  is the caller's error, as with any C++ reference.
