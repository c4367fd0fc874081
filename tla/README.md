# OpenGLDemo: specifications

The repository holds the sources of the Objective-C runtime (`objc4-787.1`), of
dyld (`000-dyld-750.6分析工程`) and a dozen small OpenGL, Metal and AVFoundation
demos that run on them. The concurrent code is in the runtime, and so is most of
this project; of the demos one has an algorithm worth a model.

## The system

| part | state | operations | what is hard |
|---|---|---|---|
| reference counting (`objc-object.h`, `NSObject.mm`) | the isa word of each object; `SideTable.refcnts` and its spinlock | retain, release, tryRetain, changeIsa, setWeaklyReferenced, rootDealloc, clearDeallocating | lock-free updates of the isa word beside a locked table; a count split between the two; freed memory used again |
| weak references (`NSObject.mm`, `objc-weak.mm`) | weak table, the weak variables | storeWeak, loadWeakRetained, init, move, copy, destroy, clear | two table locks, retry when the variable changes, `+initialize` under a lock |
| autorelease pools (`NSObject.mm`) | per thread: pages, hot page, placeholder, return-value flag | push, pop, autorelease, releaseUntil, kill | `-dealloc` autoreleases during a pop; pages kept or killed |
| associated objects (`objc-references.mm`) | two-level map under one lock | set, get, remove | retain and release outside the lock |
| `@synchronized` (`objc-sync.mm`) | SyncList and its spinlock; per thread a fast cache and a cache | enter, try enter, exit, thread exit | SyncData reused for other objects, threadCount changed without the spinlock |
| `+initialize` (`objc-initialize.mm`) | state of each class, waiting threads, pending subclasses | initializeNonMetaClass, finish, wait | superclass order, recursion in one thread, deadlock between two |
| `+load` (`objc-loadmethod.mm`) | lists of loadable classes and categories | add, remove, call_load_methods | images loaded by a `+load` while the list is walked |
| method cache (`objc-cache.mm`) | buckets and mask of each class, garbage list | insert, lookup, flush, collect | readers take no lock |
| dyld | images, dependencies, reference counts | load, bind, initialize, unload | recursion over cyclic graphs, locks held in callbacks |
| CombinateVideo | tracks, time ranges, instructions | combinateVideo, videoCompo, build instructions, play, save | two computations of the same times, on two queues |
| MetalCamera | one texture property | captureOutput, drawInMTKView | capture queue and main thread share it |
| GLSL view and other demos | names of GL objects | layout, draw | deletion and creation on each layout |

How they interact: a weak load takes the lock of the side table and then retains
through the isa word; `rootDealloc` clears the weak table and the side table
through the bits that retain, release and storeWeak left in the isa word;
`storeWeak` runs `+initialize`; pools and associations release what they hold,
which may deallocate and come back; `+initialize` takes a monitor that
`@synchronized` in the method body nests with; dyld calls the runtime's
map, load and unmap callbacks under its own lock. The demos call the runtime
through `strong` properties, which are retain and release.

PROJECT.json lists every part with its status, and every hazard at its line with
the properties that cover it.

## Modules

```
StrongRef         what reference counting promises            (abstract)
RefCount          the isa word and the side table             implements StrongRef
 RefCountInv      its inductive invariant
  MCRefCount      for TLC
  RefCountProofs  theorems
 MCRefCountLive   fairness and a bounded program
ZeroingWeak       what __weak promises                        (abstract)
Weak              weak variables, side tables, deallocation   implements ZeroingWeak
 WeakInv          its inductive invariant
  WeakProofs      theorems
 MCWeak           for TLC
ObjcSync          @synchronized
 ObjcSyncInv      its inductive invariant
  ObjcSyncProofs  theorems
 MCObjcSync       for TLC
  MCObjcSyncLive  fairness and a bounded program
PoolStack         what an autorelease pool promises           (abstract)
AutoreleasePool   the pages of one thread                     implements PoolStack
 AutoreleasePoolInv     its inductive invariant
  AutoreleasePoolProofs theorems
Initialize        +initialize                                 MCInitialize for TLC
 InitializeInv    its inductive invariant
  InitializeProofs      theorems
LoadMethods       +load                                       MCLoadMethods for TLC
 LoadMethodsInv   its inductive invariant
  LoadMethodsProofs     theorems
MethodCache       method caches and objc_msgSend's lookup     MCMethodCache for TLC
 MethodCacheInv   its inductive invariant
  MethodCacheProofs     theorems
VideoTimeline     CombinateVideo
 VideoTimelineInv its inductive invariant
  VideoTimelineProofs   theorems
```

### RefCount

One heap block, allocated as an object again and again at one address, and one
weak variable. State and code:

| variable | code |
|---|---|
| `isa` | the isa word: `nonpointer`, `deallocating`, `weakly_referenced`, `has_sidetable_rc` and `extra_rc`; no bits is a raw isa |
| `side`, `sidelock` | the entry of the object in `SideTable.refcnts`; `SideTable.slock` |
| `location` | the weak variable and its entry in the weak table |
| `memory`, `disposer` | whether the block is an object; the thread in `-dealloc` |
| `owner` | which thread each strong reference of the program belongs to (the program's, not the runtime's) |
| `pc`, `old`, `arg`, `mode` | the locals: the next step, `oldisa`, the reference concerned, `tryRetain` and `handleOverflow`/`handleUnderflow` |

`LoadExclusive`, `StoreExclusive`, and each access of the side table are actions of
their own (`RetainLoad`, `RetainStore`, `RetainMove`, ...), in the order of
`rootRetain` and `rootRelease`; a StoreExclusive fails when the word has changed
(x86_64) and may fail when it has not (arm64). A function that runs entirely
under the lock it takes (`sidetable_retain`, `sidetable_release`, `sidetable_clearDeallocating`)
is one action that needs the lock free. Recursion through `rootRetain_overflow`
and `rootRelease_underflow` is the flag `"slow"`.

Assumed of the program: a thread uses the object only while it owns a reference
or runs its `-dealloc`; a reference made during `-dealloc` is given up before
`rootDealloc`; it releases only what it owns. `objc_storeStrong` is a retain and a release.

Left out: metaclasses, tagged pointers, classes with their own retain and release,
`has_assoc` and `has_cxx_dtor` (with them `rootDealloc` takes the slow path, which
is also correct), a changeIsa between two raw or two packed isas (it leaves every
field of the model alone), and counts that reach `SIDE_TABLE_RC_PINNED`.

`StrongRef` has no counter: its state is the strong references themselves, the phase of
the object, who disposes of it, and the weak variable. Every operation is one step:
the release of the last reference starts deallocation, a weak load gets a live
object or nothing, the block is freed when nothing points to it. `Implements` maps `memory`
and `disposer` to the phase, and everything else to itself.

### Weak

RefCount has the isa word in detail and one weak variable; Weak has the weak tables in
detail and takes from RefCount that a reference is counted once, that `rootTryRetain` and the last
release exclude each other, and that a deallocation runs once (`tryRetain`, `Released`).

| variable | code |
|---|---|
| `location`, `weakVars` | what each variable's storage holds; which storage is a `__weak` variable now |
| `referrers` | per object its `weak_entry_t`, the set of its referrers; an empty one is no entry |
| `lock` | `SideTable.slock` of each table |
| `object`, `strong`, `weakly_referenced` | the life of each object, the references each thread owns, the bit of the isa word |
| `class` | whether the object's class is initialized, or who runs its `+initialize` |
| `stack` | the calls under way, innermost last: function, place, variable, object, `oldObj`, the locks it has and wants |
| `errors` | calls of `objc_weak_error` |

The five forms of `storeWeak<HaveOld, HaveNew, ...>` are one set of actions, as they are one template:
`Read` (the unlocked read of `*location`), `Lock` (one table at a time, in the order of
`lockTwo`), then `StoreRetry`, `StoreInitializes` or `Store`. What happens under the locks is one action, as
every other access of the tables needs them; the unlocked accesses of `*location` are in
`Read`, `LoadRead` and the plain stores of objc_initWeak(nil) and objc_moveWeak. A `-dealloc` that
stores a weak reference to self and a `+initialize` that stores one to an instance of its
class are frames of their own on top of the call that ran them, and so are the parts of
objc_copyWeak and objc_moveWeak. The addresses of objects are used again (`Alloc`).

Assumed of the program, from the comments of the functions: who stores an object owns a
reference to it; initializing, destroying, copying to and moving a variable exclude other calls on it.
Of the constants: nil is no thread, object or variable, nor is `"raw"`, the mark ZeroingWeak has on storage
that is no weak variable, an object (`NilAssumption`, `RawAssumption`).
Left out: tagged pointers, hash table layout and growth, inline referrers, classes that override
`allowsWeakReference` or `retainWeakReference` with something of their own.

`ZeroingWeak` has variables, owners and freed memory, and no table: storing, loading and
the last release are one step each, and the last release makes every variable nil. `Implements` maps a variable
that still holds an object that is deallocating to nil: nobody can tell the two apart, as a load returns nil.

### ObjcSync

The objects are those whose locks share one `SyncList`; distinct lists share nothing
but the caches of a thread. `list` holds the SyncData in the order of allocation
(the code links them the other way round, and walks from the newest), each with
its `object`, `threadCount` and mutex. What a call does to the caches of its own
thread is invisible to others, so the lookup in the caches (`LookupFast`,
`LookupCache`) is part of the action that begins a call, with the
`OSAtomicDecrement32Barrier` of an exit; the walk of the list (`TakeSpinlock`,
`Walk`, `Found`, `NotFound`) is one SyncData at a time, because threads decrement
threadCount while it runs; the mutex (`MutexLock`, `MutexTryLock`, `MutexTryUnlock`)
is a step of its own, after the SyncData has been chosen. `inside` counts the
enters the program has not left. `LockOrder` says in which orders a program nests,
`Misuse` whether it calls objc_sync_try_enter and objc_sync_exit without being inside,
both of which `test/synchronized.m` does.

Left out: nil (it does nothing), DebugNilSync, `CHECK`, which no caller uses, and the wrap of
the 32-bit threadCount.

### AutoreleasePool

The pages belong to one thread, so what interleaves is the thread with itself: a pop releases objects
whose `-dealloc` pushes, pops and autoreleases on the pages the pop is working on. `frames` is the
program and the `-dealloc` methods under way, each with the tokens it has not popped and the token of the
pop it is in; `releaseUntil` is one turn of the code's loop, which may run a `-dealloc`.
`pages` are the pages from the cold one to its last child, `hot` the index of the hot page and
`placeholder` the value EMPTY_POOL_PLACEHOLDER of the TLS slot. A `-dealloc` may return with pools
pushed (`return`), as one in `test/rr-autorelease2.m` does. `autoreleaseFast` stands for
`autoreleaseNewPage` too, which push calls under DebugPoolAllocation. `tls_deallocPop` and `tls_dealloc` are
the end of the thread, and what follows is the next thread.

`PoolStack` is the comment above AutoreleasePoolPage: one sequence of boundaries and objects. `Implements` lays the
pages end to end, takes the placeholder for one boundary, and a token for its offset.

Left out: `objc_autoreleaseReturnValue` and its partner, hiwat printing, `mprotect`, and tokens that the program
pops twice or makes up (`badPop`). `EntryAssumption`: POOL_BOUNDARY is nil, so no object is equal to it.

### Initialize

A frame is a call of `initializeNonMetaClass`: the superclass first (`SuperFirst`), the test and set of
CLS_INITIALIZING under `classInitLock` (`Mark`), and for those who come late the two reads outside
it (`CheckInitializing`, `CheckInitialized`) and the monitor (`Wait`). `Send` puts a frame on top of a
`+initialize` that messages another class; `Finish` and `SetInitialized` are `lockAndFinishInitializing` with the
recursion over pending subclasses. `Fork` leaves one thread, the states of the classes as they are, and `MultithreadedForkChild`.
`halted` tells a refusal after fork, which is documented, from the runtime's own consistency checks.

Assumed: where the program forks, a `+initialize` of a root class messages nothing (`RootAssumption`: "Any root
class +initialize implemetation is assumed to be trivial"; without it the child would halt on its own
consistency check); classes of different branches whose `+initialize` methods message each other are not in the
instance, as two threads do deadlock on them. Left out: the callbacks for will-initialize, which are copied and called once.

### LoadMethods

`loadMethodLock` is recursive and held by whoever is inside, so the only one who gets in is the `+load` method being called:
`dlopen`, `load_images` and `unmap_image` are possible when the program runs, in a `+load` or outside. `detached`
is the local list of `call_class_loads` or `call_category_loads`, `phase` the place in the loop of the outermost
`call_load_methods`. dyld is external: it tells of images in an order (`Before`) that puts an image after those it needs,
but for cycles; `ImageAssumption` says that a category's class is told of no later than the category, and `Group` is what dyld keeps mapped as long as the image is.
`ClassAssumption` makes `Superclasses[c]` the line of c from its root, and every class one of some image.
`LoadOrder` promises that a category comes after its class only when the class has a `+load` of its own, as
`call_category_loads` looks at nothing else: a class without one may be of an image in a
cycle that is told of later.
`isLoadable` is always true in this runtime, so no category is kept back. Left out: Swift classes, classes missing
because of weak linking, and the re-attachment of categories.

### MethodCache

The caches of x86_64. A writer holds `runtimeLock`; its private work is one action (`lookUpImpOrForward`,
`replaceMethod`, `flush_caches`) that leaves a list of what others can see, `todo`: the stores of
`_buckets` and `_mask`, of `_imp` and `_sel`, putting a block in the garbage, the look at other threads, the
free. Each is a step (`WriteStore`, `CollectFree`, `CollectingInCritical`, `Dispose`) in the order of the code; x86_64 keeps
stores in order and loads in order. A change or a flush has the set of the classes it has still to
erase, and `EraseNext` goes on to any of them: the order of the realized classes is that of the program. A reader is `CacheLookup` of `objc-msg-x86_64.s`: mask, buckets, then one load
of a bucket at a time, with the wrap at the end marker, and the jump to the method. `CollectingInCritical`
looks at one thread at a time when `shouldUseRestartableRanges` is off, and moves every reader to
the miss when it is on.

`methods` and `newest` are the program's view: the version of each method, and the newest one that any
send or change that has returned is known to have got. Of the constants, a superclass is a root class (`ClassAssumption`:
the search is `cache_getImp` and the method list of one superclass), and the smallest cache has four buckets, as the comment the last property quotes
says (`SizeAssumption`; INIT_CACHE_SIZE is 4 on x86_64). Left out: forwarding and method resolution, `cache_delete`, the
packed mask of arm64 and the encoding of IMPs. The instance does not grow a cache past MAX_CACHE_SIZE; the proofs cover that too.

### VideoTimeline

`Insert` is the loop of `combinateVideo`, `Ranges` that of `videoCompo:` and `Instruct` that of
`buildVideoCompositionAndInstructions`; the track of an AVMutableCompositionTrack
is the sequence of what it has at each tick, with `insertTimeRange:` modelled
from its use: it fails for a time before the start, and the code passes `error: nil`. A ramp inside an
instruction is not modelled, nor the audio mix, the player and the export.

Nothing is assumed of the durations: the code does not look whether a video lasts as long as the transitions it takes
part in. If one does not (`TooShort`), its range is negative, and the next video comes too early, into media that is
on its track or before the start. `InstructionsTile` holds all the same, and says which ranges are
negative; `LayersHaveMedia` and `EverythingShown` hold as long as none is (`RangesValid`): the check that
`videoCompo:` does not make would be enough, and without that premise `LayersHaveMedia` fails.

## Runs

| run | instance | shows |
|---|---|---|
| `refcount` | 3 threads, 4 references, `RC_HALF` 1 | `TypeOK`, `Conservation`, `NoUseAfterFree`, `SideTableClean`, `AssertsHold`, `MarkedWhileDeallocating`, `BorrowIsNotLast`, `NoOverrelease`, `HasSidetableRcSticks`, `LastReleaseDeallocates`, `Implements` (StrongRef) |
| `refcount_live` | 2 threads, 3 references, 6 calls | `EveryCallReturns`, `DeallocCompletes` |
| `weak` | 2 threads, 2 objects, 2 tables, 2 variables, 3 calls | `EntriesExact`, `EveryCallReturns`, `Implements` (ZeroingWeak) |
| `sync_misuse` | 3 threads, 2 objects, both misuses, any order | `LockKept`, `NotBuggy`, `WaitsForItsObject`, `MutualExclusion` |
| `sync_proper` | 2 threads, 3 objects in one order, 5 enters | `TypeOK`, `CountsExact`, `ExitReportsOwnership`, `EveryCallReturns` |
| `pool` | pages of 2 entries, 8 entries, `-dealloc` two deep, three sets of debug options | `TokensValid`, `PagesKept`, `WhileCanBeIf`, `Implements` (PoolStack) |
| `pool_exit` | the same under DebugPoolAllocation alone | `ChildrenEmpty` is violated |
| `initialize` | 2 threads, 5 classes, fork | `OneInitializer`, `Contiguous`, `UsableOnReturn`, `EveryMessageReturns` |
| `load` | 5 images, 6 classes, 3 categories, lists of up to 6 | `NoneForgotten`, `LoadOrder` |
| `load_unmapped` | the same, with images closed while they wait for `+load` | `LoadsWhatIsMapped` is violated |
| `cache` | 2 threads, class and subclass, 3 selectors that collide, 3 sends, 1 change | `NoStrayRead`, `RightMethod`, `GuaranteedEmptySlot` |
| `video_timeline` | 4 videos of 1, 2, 3, 4 or 7 ticks, transitions of 2 | `InstructionsTile`, `LayersHaveMedia`, `EverythingShown` |

Bounds. With `RC_HALF` 1 the third reference overflows `extra_rc` and the release after it
borrows; four references overflow twice, and three threads are one that deallocates or borrows and two that race with it.
In ObjcSync two objects are enough for a SyncData to be reused, and a third for
two items in the cache beside the fast one, with `InitialSlots` 1 (4 in the code) to make it grow;
`MaxCount` bounds recursion and the wrong exits: 2 in `sync_proper` for an enter inside an enter.
In Weak two tables are what two threads can lock in opposite orders, with nil in the table of
one of the objects; three calls of the program are a copy or a move that races a store and a release, each of
which may run a `-dealloc` or a `+initialize` with a store of its own. `MCInit` starts after the first
references were made: each thread owns an object, a variable holds one of them.
Pages of two entries make every push or two a new page, as 505 would only later, and
eight entries are four pages, so that hysteresis keeps one child and kills one. In Initialize
the classes are those of the comment on deadlock in `objc-initialize.mm`, with one whose `+initialize` messages a subclass, as
there. The images of LoadMethods have a cycle, a bundle that subclasses and extends classes of another, and an image
with only a category. In MethodCache the cache of the class has two methods, so that a third makes it grow to
eight buckets, the selectors 3, 7 and 10 collide in four, and `garbage_threshold` is met by the second
block of four; the blocks never run out, so `Block` bounds nothing else.
`MaxEntries`, `MaxDepth`, `MaxList`, `MaxCalls`, `MaxSends`, `MaxChanges` and `MaxCount` are the bounds of counters and lists.
Symmetry in the threads (in `sync_misuse` also in the objects, where every order is allowed) and the views of the MC
modules, which leave out locals no thread will read again, are used for safety only.

Deadlock is checked in `refcount`, `pool`, `load` and the two violation runs: their programs never stop. It is not
in `sync_misuse`, where the program nests in opposite orders and may really
deadlock, nor where the number of calls is bounded and the program ends; there `EveryCallReturns` and `EveryMessageReturns`
say that what has begun ends.

Fairness. A thread inside a call keeps running (weak fairness of its steps: `Run`, `Step`): the system schedules
threads. A StoreExclusive that is tried again on an unchanged word succeeds in
the end (strong fairness of `Store` in RefCount): the reservation is lost to another access
only now and then. Nothing in the code stops other threads from changing the isa
word before each store, and os_unfair_lock is not fair, so liveness is checked for programs
of a bounded number of calls (`MaxCalls`), in which a thread of `sync_proper` also leaves
the objects it entered (weak fairness of `Exit`). That `+initialize` and `-dealloc` return is part of the same
assumption. Whether the program calls at all is never assumed.

## What the runs found

`load_unmapped`: `remove_class_from_loadable_list` makes a class "no longer loadable (because its image
is being unmapped)" (`objc-loadmethod.mm:128-129`), but looks in `loadable_classes` only. While `+load` methods
run, their list is a local one. In the run the `+load` of Two closes the image of Three, a class that waits behind Two: Three is
not found, and its `+load` is called after its image was unmapped. (`remove_category_from_loadable_list`
looks in `loadable_categories` only, in the same way; the property is about classes.) `load` shows that the rest holds when no `+load` method closes such an image (`ClosesWaiting`).

`pool_exit`: when its loop ends `releaseUntil` expects "any children to be completely empty"
(`NSObject.mm:787`). Under DebugPoolAllocation, at the end of a thread that autoreleased with no pool in place, the
cold page has no boundary; a pool that the last `-dealloc` pushes goes on a new page, and the loop, which
watches the cold page, ends with something on it. The `while` that the comment at `NSObject.mm:768`
thinks "can be `if`" can, except under the same option (`WhileCanBeIf`, proved for every size of page and any options).

Two comments on the counters of `objc-sync.mm` are loose as well: `lockCount` is "number of times THIS
THREAD locked this block" (line 42), but an objc_sync_try_enter that fails has
counted and does not undo it; `threadCount` is "number of
THREADS using this block" (line 36), but an objc_sync_exit by a thread that
is not inside increments it and never decrements it. `CountsExact` therefore belongs to `sync_proper`, whose program
does neither (and is proved for every such program, `Misuse = {}`); a model checker gives the counterexample when `sync_misuse` is asked for it. The SyncData may then never
be reused; no property of locking is lost (`sync_misuse`).

Noted, with no run: two classes of different branches whose `+initialize` methods message each other deadlock in two
threads, which no order of superclasses avoids.

## Proofs

`RefCountProofs` proves, for any set of threads, any finite set of references and any
`RC_HALF` of at least one, that `IInv` (`RefCountInv`) is inductive, and from it the
safety properties of the runs: `SpecTypeOK`, `SpecConservation`,
`SpecNoUseAfterFree`, `SpecSideTableClean`, `SpecAssertsHold`, `SpecNoOverrelease`,
`SpecBorrowIsNotLast`, `SpecMarkedWhileDeallocating`, `SpecLastReleaseDeallocates`,
`SpecHasSidetableRcSticks`, and that every step of RefCount is a step or a stutter of
StrongRef (`SpecImplements`). The assumptions are `NobodyAssumption`, `RefAssumption` and
`RC_HALF_Assumption`.

`Conservation` alone is not inductive. That the borrow of `rootRelease` cannot go wrong rests
on what the thread has read and may rely on while it has the lock, which is `OldInv`; on
the side table holding a multiple of `RC_HALF` while the isa is packed (`WordInv`);
on who may hold the lock at each step (`LockInv`); on why a thread inside a call may use the object
(`RefInv`, `TryInv`, `LifeInv`); and on where the deallocating and weak bits are
(`MarkInv`, `WeakInv`). `IInv` is their conjunction. The proof that it is preserved has a lemma per conjunct and
a step per action; the count is by lemmas on the cardinality of the owned references.

`ObjcSyncProofs` proves the same way, for any finite set of threads, any set of objects, any `LockOrder`, both misuses and any
bound `MaxCount`, the safety properties of `sync_misuse`: `SpecTypeOK`, `SpecNotBuggy`,
`SpecWaitsForItsObject`, `SpecLockKept`, `SpecMutualExclusion` and `SpecExitReportsOwnership`; and `SpecCountsExact`
for programs without misuse (`Misuse = {}`), as it is false with either. It assumes
`NobodyNotThread`, `ThreadAssumption` (a process has finitely many threads) and `SlotsAssumption`; the counters
are unbounded, so that what the proof says of `threadCount` is of an int32_t that has not wrapped.
The argument of `IInv` (`ObjcSyncInv`):

- a SyncData is used by at most `threadCount` threads (`CountInv`), so one that is reused has no user; the inequality
  is all that survives an exit by a thread that is not inside;
- the walk holds the spinlock, no SyncData it has passed is of its object, and the unused one it
  remembers stays unused, because only a walk makes a SyncData used again (`WalkInv`); hence one SyncData for an object;
- a thread that has found or made its item uses that SyncData until its call is over (`CallInv`), so the mutex it
  waits for is that of its object;
- the owner of a mutex has an item that counts its enters, except between the decrement of `threadCount` and the unlock of
  its last exit. There the SyncData may already be another object's, and the mutex
  is still held for the old one: `Claim` says for which, and `OwnerInv` and `InsideInv` relate owners and enters through it.

The lemmas named after an action say what it does to the items of its thread, and the rest of the proof does not look into the
caches; then a lemma per conjunct shows that every action preserves it.

`SpecCountsExact` adds to these that without misuse a thread that is in no call uses exactly the items it counts: then the
count of `CountInv` is an equality.

`InitializeProofs`, for any set of threads and any tree of classes, with and without fork (`InvariantHolds`):
`OneInitializerHolds`, `ContiguousHolds` and `UsableOnReturnHolds`. The difficulty is the consistency checks of
the runtime, which end the program (`halted = "fatal"`): that a class a thread finishes has a superclass that is done,
and that a pending subclass is still being initialized. `FinishingInv` needs that each pending class is in the list of the
thread that will finish it, or waits for one that nobody ever will: the classes a fork left behind in other
threads. `PendingInv` says there is a set `D` of these, each below another or one that no thread that is alive will finish.

`WeakProofs`, for any sets of threads, objects, variables and tables: `IInv` (`WeakInv`) is inductive
(`InvariantHolds`), `EntriesExactHolds`, and Weak implements ZeroingWeak (`ImplementsHolds`). Exact entries rest on
what a call may rely on while it holds no lock: its variable is, or is not yet, a weak variable, since whoever
initializes, copies to, moves or destroys it has it to itself (`FramesInv`, `ExclusiveInv`); a deallocation has its object to itself
(`OneDeallocInv`) and frees it when no entry is left; an object lives exactly as long as somebody owns it (`OwnedInv`). In the refinement the
last release makes every variable nil in ZeroingWeak, and what `clear` does later is a stutter, because a
variable that holds a deallocating object counts as nil already. `IInv` says nothing of the locks: what the code does
under them is one action, and a store that waited too long sees that the variable has changed and tries again.

`VideoTimelineProofs`, for any number of videos, any transition and any durations, videos shorter than their transitions included:
`InvariantHolds`, `InstructionsTileHolds`, `LayersHaveMediaHolds` and `EverythingShownHolds`. The program computes the time at which a
video starts twice and stores it nowhere, so `IInv` says that there are start times, before the start of the composition perhaps,
which time ranges and instructions agree with as far as each loop has come. The tracks agree with them too if
no video is too short (`Laid`), which is what the two loops come to when no range is negative (`ValidIsLong`).

`AutoreleasePoolProofs`, for any size of page from two, any bounds and any debug options: `InvariantHolds`,
`TokensValidHolds`, `PagesKeptHolds`, `WhileCanBeIfHolds`. A position is a page and a slot, and `IInv` (`AutoreleasePoolInv`) keeps positions in
the order in which the pool was filled: the tokens of a frame ascend and lie below the end of its pop (`TokensInv`), and all an inner frame
has lies above where the outer pops end (`NestingInv`), so that an inner pop never takes away what an outer one needs. Each
of them is the place of a boundary, except the end of the pop that starts from the first entry of a thread without a pool (`Loose`).
`ChildrenEmptyHolds` proves the assertion that `pool_exit` violates, when no thread may run with
DebugPoolAllocation and without DebugMissingPools, and `ImplementsHolds` the refinement of PoolStack under the same
condition: without it the last pop of a thread may leave entries, and it is no pop of PoolStack. The refinement shows that what lies
on the pages laid end to end is one sequence (`Laid...`: what appending to a page, a new page, and killing a page do to it), and
that the offsets of tokens do not change. `StackInv` adds that the placeholder stands for a pool the
program pushed, and that the last pop leaves nothing.

`LoadMethodsProofs`, for any images, classes and categories: `InvariantHolds`, `NoneForgottenHolds`,
and `LoadOrderHolds` when no `+load` closes an image whose own still wait (`ClosesWaiting = FALSE`: with it
a class may be called again). The core is that a class that is RW_LOADED has been called or waits behind its superclasses (`OrderInv`), in one place
only (`ExactInv`), through the recursion of `schedule_class_load` over superclasses and the walk of
`load_images` over an image's classes: what one turn keeps is `Kept`, `Good` and `Exact`. An image that can be unmapped
has no superclass of a class loaded elsewhere, so `remove_class_from_loadable_list` leaves no hole before a class that waits.

`MethodCacheProofs`, for any threads, selectors, sizes and blocks, and any classes of that shape: `InvariantHolds`,
`NoStrayReadHolds`, `RightMethodHolds` and `GuaranteedEmptySlotHolds`. A reader holds a mask, then a block, then an index of it, each older than the
next, and none of them protected. `IInv` (`MethodCacheInv`) says what makes them fit all the same:

- what the holder of the lock has still to store, and in which order (`OrderInv`); what each store will find when it is made
  (`BucketsInv`, `StoredMaskInv`, `FreeInv`, `SlotInv`). The invariant holds between any two of them, as the readers go on all the time;
- the mask of a class only grows, and never beyond its buckets, so a mask that was read early fits the buckets
  read later (`MaskInv`, `ReaderOK`);
- the blocks of the caches, the garbage, and the new block are apart (`HeapInv`); no reader that the check has passed
  is in the garbage (`CheckInv`), as one that comes later finds the buckets of a cache;
- `occupied` is the number of selectors in the buckets, those about to be stored included, and leaves a quarter of them free
  (`CountInv`), from which `GuaranteedEmptySlot` follows and is kept;
- what a cache has for a selector is one version, between the newest known and the one in effect, and it is the one in effect unless a
  change has still to erase this cache (`ShowsInv`). `RightMethod` alone is not inductive: that a reader in old buckets is not
  too late is a fact about the cache those buckets were in.

There is a lemma per action; the stores have one for each kind of store, and the fill of a cache one for buckets that have room
and one for new ones.

Some arguments are by induction over data, and the provers cannot instantiate the library's induction theorems, which take an
operator: the greatest of a set of positions, the pages laid end to end, the two recursions of LoadMethods. They are by a least
counterexample instead, which exists because the naturals are well ordered (`Least`).

Only model-checked:

- liveness and fairness (`EveryCallReturns`, `DeallocCompletes`, `EveryMessageReturns`): out of the prover's reach;
- what the two violation runs refute, `ChildrenEmpty` without its condition and `LoadsWhatIsMapped`.

## Not modelled

The map covers the parts of the runtime named above and one demo, a small part of the lines of this repository. Most of the rest has no
behaviour a specification could say more about than its source does:

- The OpenGL, GLKit and Metal demos are fixed sequences of drawing calls over floating-point data,
  with copies of the GLEW and GLTools headers in each of them; MetalCamera shares a texture property between
  two threads, with no word on what should hold of it.
- dyld3, the shared cache builder and the tools work on byte layouts: Mach-O, closures, cache files. dyld's
  loading is recursion over graphs of images inside one lock; what the runtime sees of it is in LoadMethods.
- Of the runtime, realization of classes, method lists and protocols are data structures under `runtimeLock`;
  associated objects are maps under one lock; the 32-bit runtime (`*-old.mm`) is not built.

## Plan

Done: RefCount with StrongRef, Weak with ZeroingWeak, AutoreleasePool with PoolStack, ObjcSync, Initialize, LoadMethods, VideoTimeline
and MethodCache, each with the proofs of its safety properties and, where it has an abstract specification, of its refinement. Left, most important first:

1. Method resolution and forwarding in MethodCache, and the packed mask of arm64.
2. The return-value handshake of autorelease pools; associated objects against RefCount's promise.
3. dyld's unloading by reference count.
