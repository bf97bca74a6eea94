# TLA+ models of mesa-vmwgfx-cv

This directory holds TLA+ specifications of the parts of the repository that
have state and concurrency worth model checking, the TLC configurations that
check them, and `PROJECT.json`, which maps every modelled definition to the
source lines it translates and lists the runs, mutants, findings and hazards.

## 1. Inventory of the system

| Component | Source | State | Operations |
|---|---|---|---|
| Lock class | `src/core/ww_mutex.h` `struct ww_class`, `DEFINE_WW_CLASS` | `seqno` ticket counter (atomic64), class spinlock | ticket draw in `ww_acquire_init` |
| Acquire context | `ww_mutex.h` `struct ww_acquire_ctx` | `ticket`, `contending_lock` (debug: `deadlock_injection`, `count`) | `ww_acquire_init`, `ww_acquire_done`, `ww_acquire_fini` |
| Wound/wait mutex | `src/core/ww_mutex.c`, `ww_mutex.h` `struct ww_mutex` | `held`, `holder`, wait queue | `__wwl_mutex_lock` (decision), `ww_mutex_trylock`, `ww_mutex_lock`(`_slow`), `ww_mutex_lock_interruptible`(`_slow`), `ww_mutex_unlock`, `ww_mutex_is_locked` |
| DRM map list | `src/drm_bufs.c` | `dev->maplist`, `dev->map_hash`, `master->lock.hw_lock`, `dev->struct_mutex` | `drm_addmap_core`/`drm_addmap`/`drm_addmap_ioctl`, `drm_rmmap_locked`/`drm_rmmap`/`drm_rmmap_ioctl`, `drm_find_matching_map`, `drm_map_handle` |
| DRM DMA buffers | `src/drm_bufs.c` | `dev->buf_alloc`, `dev->buf_use`, `dma->bufs[order]` water marks | `drm_infobufs`, `drm_markbufs`, `drm_order`; `drm_addbufs`/`drm_freebufs` are stubs |
| PRIME | `src/drm_prime.c`, `src/vmwgfx_prime.c` | none of their own | flag checks, dispatch to TTM; dma-buf ops are `-ENOSYS`/`NULL` stubs |
| Compatibility glue | `src/*_compat.h` | none | version macros; helpers with content: `kref_get_unless_zero`, `kref_sub`, `vmwgfx_lcp`, the `idr_alloc` loop macros, `ida_simple_get`, `__vmw_timespec_sub`, `__ttm_compat_shrink` |
| SVGA3D video | `src/device_include/svga3d_video.h` | none | device structure layouts only |

**How they interact.** The wound/wait mutex is a self-contained primitive:
callers (TTM buffer reservation, not in this repository) create one acquire
context per transaction and lock several mutexes with it. The mutex reads the
context (its ticket, its `contending_lock`) and writes `contending_lock`; the
class spinlock serialises every decision; `ww_mutex_unlock` wakes all
sleepers through the mutex's wait queue, and each sleeper re-runs the
decision. The DRM map code is used by ioctls and drivers and serialises list
updates with `dev->struct_mutex`. Nothing else in the repository calls the
mutex.

**What is hard.**
- Interleavings of transactions that lock the same mutexes in different
  orders: deadlock avoidance rests on the ticket comparison, on the
  `contending_lock` exemption, and on callers releasing everything on
  `-EDEADLK` (`ww_mutex.c:51-57`).
- The wake-up protocol: `wake_up_all` followed by a full re-decision. A woken
  waiter can find the mutex taken again, or back off with `-EDEADLK`
  (`ww_mutex.c:87`, `:109`, `:129`).
- Context-free `trylock` holders leave `holder == NULL`, so "free" and "held
  without context" differ only in `held` (`ww_mutex.c:35-37`).
- Signals cancel `ww_mutex_lock_interruptible` while it sleeps.
- `ww_mutex_unlock` checks nothing about its caller (`ww_mutex.c:123-131`).
- In `drm_bufs.c`, `drm_addmap_core` searches `maplist` without
  `struct_mutex` and inserts under it, so two concurrent adds can both miss
  the match. Removal clears the master's lock pointer.

**What makes each component correct.**
- Mutex:
  - at most one owner, and `held`/`holder` agree with the owners;
  - no cycle of sleepers;
  - an older context never backs off because of a younger one;
  - every transaction completes;
  - a free mutex is not left with sleepers.
- Map list:
  - one entry per token;
  - the hash keys are the tokens of the list entries;
  - at most one SHM map that holds the lock.
- `drm_order`: the least `k` with `2^k >= size`.

## 2. Modules

### `WWMutex.tla`: the wound/wait mutex with its callers

**Constants.**
- `Threads`: threads, each owning one `ww_acquire_ctx`.
- `Anon`: context-free lockers.
- `Mutexes`.
- `NoCtx` and `NoLock`: the NULL pointers.
- `MaxTicket`: bounds `seqno`, and so the number of transactions.
- `DebugBuilds`: the builds checked, `TRUE` for a kernel with
  `CONFIG_DEBUG_WW_MUTEX_SLOWPATH`; `Init` picks `debug` from it.

**Variables and where they come from.**
- `held`, `holder` and `queue` are the fields of `struct ww_mutex`.
  `queue[m]` holds the sleepers that have not been woken yet.
- `seqno` is `ww_class.seqno`.
- `ticket` and `contending` are the fields of each thread's context, and
  `dbgInject` and `dbgCount` its debug-only `deadlock_injection` and `count`
  (1 and 0 from `ww_acquire_init`, never touched in a release build).
- `warned` is the kernel's `TAINT_WARN`: set once the `WARN_ON` at the top
  of `__wwl_mutex_lock` (`ww_mutex.c:20-21`, `MisorderWarn`) has fired for a
  context whose `contending_lock` is another mutex.
- `pc`, `want`, `mine`, `waitOn` and `intr` record where each thread's
  transaction is.
- `apc` and `aLock` record where each context-free locker is.

**Actions.**
- `Decide(c, m)` is the if / else-if chain of `__wwl_mutex_lock` in the
  code's order: grant, `-EALREADY`, `-EDEADLK` (only when the holder is a
  context with a smaller ticket and this mutex is not the caller's
  `contending_lock`), otherwise sleep.
- `Attempt` is one evaluation of `__wwl_mutex_lock`. It first evaluates
  the `WARN_ON`. In a debug build it then runs the injection prologue (`ww_mutex.c:23-33`, `InjectDue`): when
  `count` has reached `deadlock_injection`, the injection doubles, `count`
  restarts at 0, and unless the mutex is already the contended one the call
  returns `-EDEADLK` (`BackOff`) whatever the mutex's state, even to the
  oldest context and even for a mutex the context holds. Otherwise it runs
  `Evaluate`, the decision under the class spinlock together with what
  `ww_mutex_lock`/`_interruptible` do with the result; a grant counts one
  more acquisition in a debug build (`:39-42`). The prologue touches only
  the caller's own context, so it joins the step. A failed evaluation
  changes nothing (in a debug build it may reset the count once), so the
  extra checks `wait_event` makes before sleeping collapse into the one step
  that queues the caller.
- `Begin` is `ww_acquire_init`, `Lock` is a first lock call, `Relock` is a
  lock of a mutex the context already holds, and `Retry` is a woken
  sleeper's re-evaluation.
- `Interrupt` is a signal ending `wait_event_interruptible`: the caller leaves
  the queue and gets `-EINTR`.
- `Unlock`/`Release` is `ww_mutex_unlock`, which clears `held` and `holder`
  and wakes everyone. `Fini` is `ww_acquire_fini`.
- `TryLock`, `AnonLock`, `AnonRetry` and `AnonUnlock` are the context-free
  calls. A failed trylock changes nothing and is a stutter.
- `StrayUnlock` is a misuse: `ww_mutex_unlock` on a mutex the caller does not
  hold. Only `MisuseSpec` includes it.

**Caller protocol.** In `Spec` the callers follow the slow-path contract
for `-EDEADLK` (`SlowPathFirst`):
1. Unlock everything held.
2. Lock the contended mutex first (`ww_mutex_lock_slow`).
3. Continue.

When every wanted mutex is held, or on `-EINTR`, the caller unlocks
everything and calls `ww_acquire_fini`. `AnyOrderSpec` adds callers that,
after unlocking, retry the transaction's mutexes in any order, as the spec's
"retry the whole transaction from the start" allows: `Lock` of another mutex
before the contended one. The code lets such a call through and only
WARNs.

### `MCWWMutex.tla`

Model values for threads, lockers and mutexes, the sets the cfgs choose from
(including `MCRelease = {FALSE}` and `MCDebug = {TRUE}` for `DebugBuilds`),
and the symmetry set.

### `DrmMaps.tla`: the DRM map list (`drm_bufs.c`)

**Constants.** `Procs` (callers), `Ids` (addresses a `kzalloc` can return),
`Res` and `KeyOf` (the register or framebuffer resources and the hash key
their offset gives), `HashKeys` (the keys `drm_map_handle` may hand out),
`Reqs` (the requests callers make: type, resource, flags), `Master` and the
NULL values, `MaxMaps` (bound on the list length).

**Variables.** `maplist` is `dev->maplist` as a sequence of entry addresses
(`list_add` puts new entries at the head), `alloc` the live allocations,
`mapOf`, `token` and `master` the fields of each `drm_map_list`, `mapHash` the
keys in `dev->map_hash`, `hwLock` the map `master->lock.hw_lock` points to;
`pc`, `req` and `ref` record where each caller is.

**Actions.**
- `AddmapCore` is the part of `drm_addmap_core` before `struct_mutex`:
  `drm_find_matching_map` (`FindMatchingMap`, the first entry of the list
  that `Matches`) and the `-EBUSY` lock check. `Addmap` and `AddmapIoctl`
  are its two callers, the latter with the `CAP_SYS_ADMIN` check.
- `AddmapFound` returns an existing map; `AddmapInsert` is the locked
  `list_add` of the `kzalloc`ed entry (no master yet) plus `drm_map_handle` (`MapHandle`: the offset key if it is
  free, otherwise any free hashed key, otherwise failure); `AddmapPublish`
  sets `list->master` after the unlock.
- `RmmapLocked`, `Rmmap` and `RmmapIoctl` are `drm_rmmap_locked` (unlink,
  hash removal, `hw_lock` cleared for an SHM lock map) and its two callers.
- `FoundEntryLive` says that the entry `AddmapCore` found is still
  allocated when `AddmapFound` reads and writes its size and returns it.

### `DrmBufs.tla`: DMA buffer ioctls (`drm_bufs.c`)

`DrmOrder` is `drm_order`, with `ShiftCount` its shift loop as a RECURSIVE
operator and the power-of-two test done with `Bitwise`. `Markbufs` is
`drm_markbufs` and `Infobufs` is `drm_infobufs` under `count_lock`.
`int` and `unsigned long` are scaled to `IntBits = 6` and `LongBits = 8`
bits, so that a negative `request->size` is sign-extended as on the real
build (`ToULong`). A read of `dma->bufs[order]` past the array is undefined
behaviour and is any value (`BufCountAt`). The `call` variable records the
size and order of the last `drm_markbufs` so that `drm_order` can be
checked against its reference, `CeilLog2`. `MCCompat` instantiates the
module as its "bufs" helper.

### `KRef.tla`: reference counts (`common_compat.h`, `vmwgfx_compat.h`)

One object, created with one reference and published in a lookup table.
`Lookup` finds it, `KrefGetUnlessZero` then takes a reference unless the
count is zero, and `Drop` calls `KrefSub` (`vmwgfx_kref_sub`), whose
release callback takes the object out of the table.

### `ListCut.tla`: `vmwgfx_lcp` (`vmwgfx_compat.h`)

`nx` and `pv` are the `next` and `prev` pointers of every `list_head`.
`Init` builds every circular list of up to four distinct entries and picks
every `entry` on it, or `head` itself. `Lcp` is `vmwgfx_lcp` with its two
early returns and `INIT_LIST_HEAD`; `Cut` is `__vmwgfx_lcp`, a `LET` with one
binding per pointer store in the code's order, so a store that reads a link
an earlier store changed sees the new value.

### `IdAlloc.tla`: id allocation (`drm_compat.h`)

Two allocators, the idr and the ida; `ApiOf` says which one each thread
calls. `used` is the set of ids each allocator handed out and `spare`
whether a preallocated layer is on its free list.
- `Begin`, `IdrPreload`, `IdrAlloc` and `IdrPreloadEnd` are the emulated
  `idr_preload { ... idr_alloc ... } idr_preload_end` loop: `__idr` is NULL
  in the first iteration, so no `idr_pre_get` runs there; `idr_alloc` runs
  under the caller's lock and is one step; an id at or past `end` is removed
  again with `-ENOSPC`; the loop repeats on `-EAGAIN`.
- `IdaPreGet`, `IdaSearch` and `IdaMark` are `ida_simple_get`. It takes no
  lock, and `ida_get_new_above` is not safe against itself, so its search
  for the lowest free id and the marking of that id are separate steps.
- `GetNewAbove` gives the outcomes of `idr/ida_get_new_above`: no room,
  `-EAGAIN` when a layer is needed and none is spare (the allocator's
  choice, nondeterministic), or the lowest free id.

### `CompatCalls.tla`: `__vmw_timespec_sub` and `__ttm_compat_shrink` (`vmwgfx_compat.h`)

- `TimespecSub` is `__vmw_timespec_sub`: seconds subtracted, and a second
  borrowed when `t2`'s nanoseconds are strictly greater. `CallTimespecSub`
  applies it once to two normalised clock readings from `Secs` x `Nsecs`.
  `Nsecs` holds 0, 1 and `NSEC_PER_SEC - 1`, so equal, borrowing and
  non-borrowing cases all occur, in both orders.
- `CompatShrink(nr)` is `__ttm_compat_shrink` (and the
  `ttm_compat_shrink` wrapper that `TTM_STANDALONE_DEFINE_COMPAT_SHRINK`
  defines). When `nr_to_scan != 0` it calls `scan_objects`, which frees up to
  `nr` pages or returns `SHRINK_STOP` (`ScanResults`); `SHRINK_STOP` gives
  -1. Otherwise, and after a scan, it returns `(int) count_objects`
  (`ToInt`, the low `IntBits` bits, signed). `PoolPut` is TTM giving a page
  back to the pool between calls.

### `HlistRcu.tla`: `hlist_add_behind_rcu` (`drm_compat.h`)

One writer, serialised against other writers by its caller's lock,
inserts spare nodes into an hlist. Meanwhile RCU readers walk the list with
no lock, as `hlist_for_each_entry_rcu` does (`ReadBegin`, `ReadNext`,
`ReadEnd`). The readers are the environment of the helper, modelled from
the kernel's RCU list contract.
- `nx` and `pprev` are the `next` and `pprev` fields; `pprev[x] = y` stands
  for `x->pprev == &y->next`.
- A spare node's `next` has never been written. It is NULL or garbage,
  depending on whether its memory came zeroed.
- `Stores` lists the four stores of the function in the code's order.
  `Apply` is one store, reading the pointers the earlier stores left.
- `AddBehind` makes the first store, and `Store` each later one. Each is a
  step of its own, so a reader can run between any two of them.
- Sequential interleaving is what a reader can observe here.
  `rcu_assign_pointer`'s release orders the stores before it, and readers
  never read `pprev`.

### `CompatDiv.tla`: `DIV_ROUND_CLOSEST_ULL` (`drm_compat.h`)

- `DivRoundClosestUll` is the macro: `(x + divisor / 2)` in `unsigned long
  long`, which wraps, then `do_div`. `UllBits` scales the 64-bit width down
  (8 in the run), and divisors come from the 32-bit range `do_div` takes,
  scaled to `UllBits / 2` bits.
- `Call` computes it once on any dividend and divisor.
- `DivRoundClosestNearest` checks against the reference definition of
  nearest rounding, halves rounded up, `(2q - 1) d <= 2x < (2q + 1) d`, for
  every dividend whose sum does not wrap. The wrapping dividends and wider
  divisors are hazards in `PROJECT.json`.
- The guard `#ifndef DIR_ROUND_CLOSEST_ULL` (`drm_compat.h:170`) misspells
  the macro it guards, so the compat definition is always made, even where
  the kernel has one. That is a preprocessor matter with no state.

### `DrmAgpMap.tla`: the AGP case of `drm_addmap_core` (`drm_bufs.c`)

`drm_addmap_ioctl` lets any caller add an AGP map; `CAP_SYS_ADMIN` is not
needed. The module keeps the device (`hasAgp` for `drm_core_has_AGP`,
`memory` for the bound blocks of `dev->agp->memory`) fixed from `Init`, and
`AddmapAgp` checks one request (`off`, `size`). The checks run in the code's
order:
- the page-alignment test every map goes through (`PageAligned`, `-EINVAL`);
- `drm_core_has_AGP` (`-EINVAL`);
- `Rebased`, which adds `dev->agp->base` unless the offset already lies in
  the aperture (`InAperture`);
- `AgpCheck`, the loop over the bound blocks (`Fits`), which returns
  `-EPERM` only when the list is not empty.

`resource_size_t` and `unsigned long` are `AddrBits` wide (8 in the run), and
the `unsigned int` size is `SizeBits` wide (4). `Wrap` reduces every sum, as
the machine does. `AgpMapInBoundBlock` says that an accepted map lies inside
a bound block whenever blocks are listed, as the loop's comment intends.
`MCDrmAgpMap` sets the constants; TLC finds the property violated (see
Findings). The vmwgfx
device has no AGP, so on it only the `-EINVAL` path runs. The rest of the
file is a copy of the DRM core, used by drivers that have AGP.

### `MCCompat.tla`: the compatibility helpers and `DrmBufs` composed

`KRef`, `ListCut`, `CompatCalls`, `IdAlloc`, `HlistRcu`, `CompatDiv` and
`DrmBufs` share no state. `MCCompat` instantiates all seven with their variables renamed apart
(`INSTANCE ... WITH pc <- kpc`, and so on). `Init` picks one helper in
`helper`. The chosen helper starts from any of its initial states, the
others from one fixed initial state, and `Next` steps only the chosen one.
Every behaviour is therefore a behaviour of one helper's own
specification, and one run checks the properties of all seven.

## 3. Runs and what they show

| Run | Cfg | Checks | Bounds | Result |
|---|---|---|---|---|
| `ww_safety` | `MCWWMutex_safety.cfg` | `MutualExclusion`, `NoUnflaggedWaitCycle` under `AnyOrderSpec` | release build, 3 threads, 1 context-free locker, 2 mutexes, 3 tickets, symmetry on threads and mutexes | passes, 154,588 distinct states |
| `ww_liveness` | `MCWWMutex_live.cfg` | `TxnCompletes` under `FairSpec` | release build, 3 threads, no context-free locker, 2 mutexes, 3 tickets | passes, 111,733 distinct states |
| `ww_liveness_debug` | `MCWWMutex_live_debug.cfg` | `TxnCompletes` under `FairSpec` | debug build, 2 threads, no context-free locker, 2 mutexes, 3 tickets | passes, 26,861 distinct states |
| `ww_stray_unlock` | `MCWWMutex_stray.cfg` | `SingleOwner` under `MisuseSpec` | 2 threads, 1 locker, 2 mutexes, 2 tickets | violated: see Findings |
| `maps_safety` | `MCDrmMaps_safety.cfg` | `HashMatchesList` | 2 callers, 3 entries, 1 resource, 3 hashed keys, all five request kinds, symmetry on callers and addresses | passes, 626,953 distinct states |
| `maps_second_lock` | `MCDrmMaps_second_lock.cfg` | `SingleLockMap` | 1 caller, lock map with and without `_DRM_DRIVER` | violated: see Findings |
| `maps_dangling` | `MCDrmMaps_dangling.cfg` | `ListEntriesAllocated` | 1 caller, removable SHM maps, one hashed key | violated: see Findings |
| `maps_dup_race` | `MCDrmMaps_dup_race.cfg` | `UniqueResource` | 2 callers adding the register map | violated: see Findings |
| `maps_stale_found` | `MCDrmMaps_stale_found.cfg` | `FoundEntryLive` | 1 caller adding the register map twice, `drm_rmmap` by the driver | violated: see Findings |
| `compat_helpers` | `MCCompat.cfg` | `NoResurrection`, `NoLeak`, `CutMatchesContract`, `LinksConsistent`, `TimespecSubExact`, `NoLostId`, `ReaderNeverGarbage`, `ReaderSeesAll`, `PprevConsistent`, `DivRoundClosestNearest`, `BufsTypeOK`, `DrmOrderIsCeilLog2` | kref: 3 threads, up to 3 references; lcp: every list of up to 4 entries and every cut point; calls: seconds 0..1, nanoseconds 0, 1, 999999999, a pool of up to 3 pages, `nr_to_scan` 0..2, 16-bit `int`; ids: 2 idr callers, 1 ida caller, ids 1..2, end 2; hlist: a list of 2 nodes, 2 spare nodes, 1 writer, 2 readers; div: every 8-bit dividend, divisors 1..15; bufs: orders 0..4 (min 2), 12 boundary sizes including negatives, marks -1..2 | passes, 71,276 distinct states |
| `agp_wrap` | `MCDrmAgpMap.cfg` | `AgpMapInBoundBlock` | with and without AGP, 0, 1 or 2 bound blocks, every 8-bit offset and 4-bit size | violated: see Findings |
| `ida_race` | `MCIdAlloc_ida_race.cfg` | `DistinctIds` | 2 ida callers | violated: see Findings |

**Why the bounds are enough.**
- Two mutexes are enough for opposite-order locking, the classic wound/wait
  deadlock.
- Three threads give chains: an old sleeper behind a middle-aged holder that
  is itself colliding with a young one, and two sleepers on one mutex, where
  a single wake-up can be lost.
- Three tickets let one thread reuse its context for a second transaction
  while another is still running, so a stale `holder` or `contending_lock`
  would show.
- The context-free locker exercises `holder == NULL`.
- The safety runs use the release build. The debug build only adds
  `-EDEADLK` returns, which lead to back-offs that every build can already
  take. It also multiplies the states by twenty, because each context
  carries its count.
- The debug liveness run has two threads and three tickets. So one context
  runs a second transaction after `ww_acquire_fini`, and
  `ww_acquire_init`'s reset of `deadlock_injection` and `count` matters.
  The first injection comes at the lock call after a context's first grant,
  when `count == deadlock_injection == 1`, and the next two grants later. A
  transaction of two mutexes therefore meets an injection while it holds
  one, even when it is the oldest.

**Mutants.** Each checked property is broken by a plausible slip in the code
(listed in `PROJECT.json`):
- `DecideNullHolderFree` treats `holder == NULL` as free. It breaks
  `MutualExclusion`: a trylock holder is overrun.
- `MisorderWarnHeld` gives the `WARN_ON` only when the mutex is held, as if
  it sat in the contended branch. It breaks `NoUnflaggedWaitCycle`: the
  out-of-order grant of a free mutex goes unflagged, and the caller then
  sleeps in a cycle. (`DecideNoBackoff`, with no `-EDEADLK` branch, breaks it
  too, with callers that keep the contract.)
- `ReleaseWakeOne` wakes one sleeper instead of all of them, as `wake_up`
  would if the waiters slept as exclusive waiters. It
  breaks `TxnCompletes`: two sleepers, the woken one takes the mutex, and a
  later release wakes nobody while a sleeper remains.
- `AttemptNoDouble` drops `deadlock_injection *= 2`. It breaks
  `TxnCompletes` in the debug run: an injection is due after every grant,
  so a two-mutex transaction backs off forever.
- The other mutants (`MapHandleNoProbe`, `MarkbufsOrderOffByOne` (order
  `DRM_MAX_ORDER + 1` accepted), `DrmOrderNoRound`, `KrefGetPlain`, `KrefSubDec`,
  `CutLateRead`, `CutNoBackLink`, `TimespecSubGe` (borrow at equal
  nanoseconds), `IdrAllocNoRemove`, `StoresPublishFirst` (the
  `rcu_assign_pointer` moved before `n->next = prev->next`) and
  `ApplyNoFixup` (no `n->next->pprev` fix-up), `DivRoundClosestTrunc` (the
  half divisor dropped)) are listed with their
  properties in `PROJECT.json`.

**Bounds of the other runs.**
- `maps_safety`: two callers are enough for the unlocked search racing a
  locked insert or removal; three entries and three keys let the list fill
  up to `MaxMaps` and let `drm_map_handle` fall back from the offset key to a
  hashed one. One resource suffices, since two adds of the same resource are
  the interesting collision.
- `agp_wrap`: with 8-bit addresses and an aperture of 128..191, every
  offset and size is tried, so offsets inside the aperture, below it, above
  it, and offsets whose rebase wraps all occur; sizes up to three pages go
  past the two-page block.
- `compat_helpers`, bufs: the sizes are the boundaries of every order (powers of
  two and their neighbours), zero, and negative values whose sign extension
  gives the largest orders; marks straddle 0 and `buf_count`. `MaxOrder = 4`
  with `LongBits = 8` leaves orders past `DRM_MAX_ORDER` reachable.
- `compat_helpers`, per helper:
  - kref: three threads give a lookup racing the last drop while a third
    thread holds or drops references;
  - lcp: four entries put the cut at the first, a middle and the last
    entry, and cover the single-entry early return;
  - calls: the nanosecond values give equal, borrowing and non-borrowing
    subtractions in both orders; a pool of three pages with `nr_to_scan` up
    to two gives partial scans, full scans and `SHRINK_STOP`, with pages
    returned in between;
  - ids: with two ids and `end = 2`, the second concurrent idr caller gets
    the out-of-range id and must give it back; the third thread drives the
    ida path, including `-EAGAIN` and `-ENOMEM`;
  - hlist: with two nodes on the list and two spare ones, an insertion goes
    behind the first node (a next node exists, so the `pprev` fix-up runs)
    or behind the last (it does not). A second insertion can go behind the
    first one's node while a reader is still inside the list. Two readers
    let one start before an insertion and one during it;
  - div: every dividend of the scaled width, so the rounding is checked up
    to the last dividend whose sum does not wrap, with odd and even
    divisors (ties exist only for even ones);
- `maps_stale_found`: one caller adding the register map twice, the second
  add finding the first, is the shortest way to hold a found entry while
  the driver's `drm_rmmap` frees it.

**Deadlock checking** is off for `compat_helpers`: the KRef, ListCut and
CompatCalls behaviours end when their helper is done (every reference
dropped, the one call made). The writer of HlistRcu stops when its spare
nodes are used, while its readers go on. It stays on for the other runs
except `ww_safety` (below).

**Fairness.**
- Each thread's own steps are weakly fair, and so are the context-free
  lockers' retries and unlocks. A woken task is eventually scheduled, and a
  caller inside a transaction keeps calling.
- Starting a transaction, taking a mutex without a context, and signals get
  no fairness: they are the environment.
- The liveness run has no context-free lockers. An unbounded stream of
  trylocks can take a freed mutex before every woken waiter. Strong fairness
  would be needed to exclude that, and the kernel does not give it
  (`ww_mutex.c:6` admits starvation for context-free locking).

**Deadlock checking** is off for `ww_safety`: a caller retrying out of
order really can leave every caller asleep (the trace TLC gives has the
youngest thread holding `m2` asleep on `m1`, exempt as its contended mutex,
while `m1`'s holder sleeps on `m2`). It stays on for the liveness runs,
whose callers keep the contract. The `Terminating` step only stutters, once
every ticket is spent and everyone is idle: the bounded model's end.

## 4. Findings

- `ww_stray_unlock` (`ww_mutex.c:126`): `ww_mutex_unlock` checks neither
  `held` nor `holder`. In TLC's trace a trylock caller holds `m1`, a thread
  that does not hold it calls `ww_mutex_unlock(m1)`, and that thread's next
  `ww_mutex_lock(m1)` is granted while the trylock caller still holds it:
  two owners (`SingleOwner`). The spec (§7) asks for a loud failure or a
  defined error instead.
- `maps_second_lock` (`drm_bufs.c:250`): the `-EBUSY` check meant to stop a
  second lock map tests `master->lock.hw_lock`, which nothing in the file
  assigns, and `drm_find_matching_map` matches an SHM map only when its
  flags are exactly `_DRM_CONTAINS_LOCK`. A lock map added with
  `_DRM_DRIVER` and then again without it ends up on the list twice.
- `maps_dangling` (`drm_bufs.c:325`): when `drm_map_handle` fails,
  `drm_addmap_core` frees the entry it already put on `dev->maplist` without
  unlinking it.
- `maps_dup_race` (`drm_bufs.c:204`): `drm_find_matching_map` runs before
  `struct_mutex` is taken, and `list->master` is set after it is released, so
  two concurrent adds of one register map both insert it, although the
  comment at `:200-202` promises the existing map is returned.
- `maps_stale_found` (`drm_bufs.c:206`): after the unlocked
  `drm_find_matching_map` returns an entry, `drm_addmap_core` reads
  `list->map->size` (`:206`), may write it (`:211`) and hands `list` to the
  caller (`:215`), all without `struct_mutex`. A concurrent `drm_rmmap` can
  unlink and `kfree` the entry in between: a use after free.
- `ww_safety` (`ww_mutex.c:20`), a spec gap: the spec has a backed-off
  transaction retry "from the start", in an order the caller decides. The
  code keeps the `contending_lock` exemption until the contended mutex is
  granted and only WARNs on another mutex first. A retry in the original
  order can then sleep behind the contended mutex's older holder while it
  holds a mutex that holder wants. `NoUnflaggedWaitCycle` shows every such
  cycle comes after the `WARN_ON`; the spec never states the
  contended-first rule.
- `agp_wrap` (`drm_bufs.c:291`): the AGP validity test sums
  `map->offset + map->size` in `unsigned long`. A map that ends past the
  top of the address space wraps to a small end, and the test passes. TLC
  reports this trace: user offset 124, outside the aperture, is rebased to 252; its size
  is 4; it is accepted against the block 144..151. Any caller can make the
  request, since AGP maps need no `CAP_SYS_ADMIN`.
- `ida_race` (`drm_compat.h:235`): the compat `ida_simple_get` calls
  `ida_get_new_above` without a lock. The kernel function it replaces takes
  `simple_ida_lock`. Two concurrent callers can get the same id.

## 5. Plan

Done: `WWMutex` (with the debug deadlock injection and out-of-order
callers); `DrmMaps`; `DrmBufs`; `KRef`; `ListCut`;
`CompatCalls`; `IdAlloc`; `HlistRcu`; `CompatDiv`; `DrmAgpMap`; the
`MCCompat` composition. Left, in order of value:

1. `WWMutex` safety in the debug build, if a cheaper encoding of the
   per-context count is found.
2. `DrmAgpMap` composed with `DrmMaps`, so that an accepted AGP map goes
   on through the locked insert (kept apart for now: the map list run is
   already the largest).

## 6. Not modelled

- **An abstract lock-set specification refined by `WWMutex`.** Mapped to
  the callers that believe they hold each mutex, it would state nothing
  that `MutualExclusion` does not already state.

- **Lockdep annotations.** They are diagnostics with no state the protocol
  reads.
- **`ww_mutex_is_locked`.** A racy read that changes nothing.
- **`ww_mutex_destroy`.** It is empty.
- **PRIME ioctls and `vmwgfx_prime.c`.** They are flag checks and dispatch to
  code outside the repository, plus stub dma-buf ops.
- **`svga3d_video.h`.** Type definitions only.
- **The ticket counter's 64-bit width.** `atomic64_inc_return` cannot wrap in
  any real lifetime, so tickets are naturals bounded by `MaxTicket`.
- **Allocation failures in `drm_addmap_core`** that free only their own
  allocations change no state. `DrmMaps` leaves out the AGP type, which
  `DrmAgpMap` models.
- **The other compat macros**: renames and single-call wrappers with no
  state of their own. `kmalloc_array` (`common_compat.h:115`) is one
  unchecked multiplication; its overflow is a hazard in `PROJECT.json`.
- **Liveness of the id allocation retry loops**: nothing in the code bounds
  the `-EAGAIN` retries (see the hazard in `PROJECT.json`).
