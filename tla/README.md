# TLA+ models of Learn_notes

Learn_notes is a collection of study projects in C, C++, Verilog, Python and shell.  Two of them are programs
with state, control and failure worth verifying: the OpenGL library in `src/learn_gl` with the demos written for it, and the
C++ exercises in `src/learn_cpp` (queues shared by threads, nine socket programs, a signal/slot table, locks, big factorials);
`src/learn_asio` adds an echo server with parallel sessions.  This directory holds TLA+ modules that model them, the TLC configurations that check the models on small instances,
and TLAPS proofs of theorems about most of them.

`PROJECT.json` names, for every definition, the lines it translates, and lists the runs, the mutants that show each
property can fail, the findings, the hazards and the theorems.

## 1. Inventory

| Part | Source | State | Operations | Talks to |
|---|---|---|---|---|
| Resource pool | `learn_gl/include/skl/memory/{memory,handle}.hpp` | `_pool` (generation, object), `_free` | acquire, release, get, get_weak_ptr, active | models hold its handles; `shared_ptr`s it gave out outlive a release |
| Textures and units | `learn_gl/src/graphics/gl/texture.cpp` | `_bind_id`, `_units`, `_activePos`; a name, a unit, `_cfgs` and `_dirty` per texture | create, load, configure, update, bind, acquire a unit, activate, destroy | the GL server's active unit and bindings |
| Models and meshes | `model.cpp`, `mesh.cpp` | `_meshes`, `_loadedTex` | load, Draw, copy, destroy | the pool, the units |
| Circular queues | `learn_cpp/src/unlockthread/queueLK.h` | `m_data`, `m_head`, `m_tail`, a mutex or an atomic flag | emplace, push, pop, destructor | any number of threads |
| Signal/slot table | `learn_cpp/SignalSlot/SignalSlot.h` | `slots`, `slot_count` | connect, disconnect, emit | slot functions call back into it |
| select, poll, epoll servers | `learn_cpp/web/{select,poll,epoll}_server.cpp` | `rdset`/`maxfd`; `fds`/`maxfd`; the epoll set and a batch of events | one loop each: wait, accept, read, answer, close | clients, through the kernel |
| Thread server | `thread_server.cpp` | `infos`, shared with every worker | scan for an entry, accept, start a worker; read, answer, free the entry | workers, clients |
| Process server | `process_server.cpp` | descriptors of parent and children, `SIGCHLD` | accept, fork, close; read, answer, exit | children, clients |
| Packages over TCP | `tcp_package.[ch]`, `tcp_client.cpp`, `tcp_server.cpp` | one `hpack_t` at each end, the stream | hsend, hrecv, swrite, sread | each other |
| UDP exchange | `udp_client.cpp`, `udp_server.cpp` | the client's counter, the server's `cliaddr` | sendto, recvfrom | each other, over a network that loses |
| Cipher and checksum | `tcp_package.c` | none (functions) | crc32, encrypt | the packages |
| Locks and condition variables | `learn_cpp/src/multi-thread/*` | counters, mutexes, condition variables | lock, unlock, wait, notify | threads |
| Language packs | `learn_gl/src/utils/{lang,dl}.cpp`, `fs.cpp`, the two `error_category.cpp`, `demo/lang.cpp` | the loaded pack, the last error of each thread; the handle and table of functions of a `DynLib` | load at first use, find, find_ex, last_error; open, close, move, look up | files, environment, `dlopen` |
| Shaders | `shader.cpp` | one GL program name | build (from text, from files), use, destroy | GL |
| Demo programs | `learn_gl/demo/{start,lighting}` (21 programs) | the library, a window and its context, GL names, shader and texture objects | set up, draw, clean up on every way out | GLFW, GL, shaders, textures |
| Camera, callbacks and frames | `camera.cpp`, the demos' loops and callbacks | position, angles and zoom; the last position of the cursor, the last time | each frame's uniforms and draws; move, look, zoom, resize | GLFW, shaders |
| Factorials | `learn_cpp/src/factorial.cpp` | a buffer of digits, a cache | n!, in C and in C++ | |
| Asio echo | `learn_asio/src/sync{Server,Client}.cpp` | one socket, read and written by four sessions | accept, read_some, write_some | its client |
| TBB, Verilog, XML, sampling, other language exercises | the other directories | little or none | | |

### What is hard here

* **Concurrency**: threads on the two queues; a main thread and workers on one unlocked table; parent and children on
  copies of descriptors; clients that act between any two system calls of a server.
* **Reentrancy**: a slot function that changes the table the emit above it is walking.
* **Identifiers given out again**: generations that wrap, descriptor numbers, table entries, GL names, texture units.
* **Caches of somebody else's state**: `_bind_id` and `_activePos` against GL, `revents` and `rdtmp` against sockets that
  were closed or accepted since, a header that was not read against the one before it.
* **Partial failure**: a load that stops halfway, a thread or a child that cannot be created, a short read or write,
  a peer that leaves in the middle of anything, an exception between lock and unlock, the eighth of ten set-up steps of a
  demo failing, a failure nobody tests.
* **Order of destruction**: a destructor that calls GL, run by a `goto` or a `return`, before or after the context goes.
* **First use**: packs loaded by whichever thread needs them first, inside `noexcept`; the first frame's time and the first
  report of the cursor, which have nothing to be compared with.
* **Width**: factorials that outgrow 32 bits, 64 bits and a buffer; 16 bit words turned as if they had 8.
* **Liveness**: edge-triggered events that come once; a full table watched at one entry; an answer that was lost.

### What makes each part correct

* Pool: a handle leads to the object it was issued for or to nothing; no slot is lost or handed out twice.
* Textures: a unit belongs to exactly one living texture; a draw binds what its samplers read; what a load acquired is
  released by somebody.
* Queues: linearizable bounded FIFO; no element overwritten, read dead or leaked; the lock always comes back.
* Signals: the table stays packed and duplicate-free under its own emits; how much an emit can repeat or skip is bounded.
* Servers: what is watched is what is open; no server waits for one client while others want something, except where
  it is written to; everything sent is read, everybody who leaves is closed; no child or worker is at another's connection.
* Packages: no header is read out of a body; an answer belongs to the last package; either end learns that the other is gone.
* UDP: answers go to whoever asked.
* Demos: no call without a context; what was made is deleted before its context goes, on whichever way out; a frame is
  drawn only with things that exist and with every uniform its shaders read; the view follows the user.
* Configuration: what was asked for is what GL has, once `update()` has run.
* Packs: the first candidate that loads is the one in use; an answer and its reason fit the call; handles are closed once each.
* Locks: a writer is alone; a message arrives once.  Numbers: the digits are those of n!, the checksum that of the polynomial.

## 2. Modules

| Module | Models | Role |
|---|---|---|
| `HandleStore` | what the pool promises | abstract specification |
| `ResourceManager` | the pool | refines `HandleStore` |
| `ResourceManagerProofs` | | theorems |
| `ModelTextures` | textures, units, models, meshes | composes an instance of `ResourceManager` |
| `ModelTexturesProofs` | | theorems |
| `BoundedFifo` | what the queues promise | abstract specification |
| `CircularQueue` | both queues | refines `BoundedFifo` |
| `CircularQueueProofs` | | theorems |
| `SignalSlot`, `SignalSlotProofs` | the signal table | theorems |
| `ConnectionService` | what a server promises its clients | abstract specification |
| `SelectServer`, `PollServer`, `EpollServer` | one loop each | |
| `SocketServers`, `SocketServersProofs` | whichever of the three is started | composes them, refines `ConnectionService`; theorems |
| `ThreadServer`, `ProcessServer` | thread and process per connection | |
| `TcpPackage` | the package protocol, both programs | |
| `PackageCheck` | `crc32()` and `encrypt()`, the tag of `TcpPackage` | |
| `UdpExchange` | both UDP programs | |
| `ReaderWriter` | readers and a writer under the hand-made lock and under the two of `std` | |
| `HandOff` | a message handed over with a condition variable | |
| `BigFactorial` | n! digit by digit, and by cache | |
| `AsioEcho` | the echo server with its sessions, and its client | |
| `Exercises`, `ExercisesProofs` | whichever of these nine programs is started | composes the nine modules above; theorems |
| `TextureConfig` | the parameters of a texture | |
| `GraphicsLibrary` | either side of the texture class | composes `ModelTextures` and `TextureConfig` |
| `DemoPrograms` | the `main()` of each demo, as a sequence of statements, and what those are | |
| `Demos` | running any one of them, with every statement that may fail failing; `Shader`, `Texture2D` as they use it | interprets them |
| `RenderLoops` | what each loop tells GL in a frame, and what each shader reads | |
| `Camera` | moving, turning, zooming | operators |
| `Frames`, `FramesProofs` | time, keys, cursor and window in the loops | extends `Demos`, composes the two above; theorems |
| `DynLib` | libraries opened, closed and moved | |
| `Language`, `LanguageProofs` | the packs, the error categories, the language demo | extends `DynLib`; theorems |
| `MC*` | | instances for TLC |

### How state and actions correspond to the code

**ResourceManager.**  `pool` is `_pool` and `_free`; slot 0, the null handle, is left out.  `Acquire` is `acquire()`,
with the reuse of a free slot and the growth of the vector as its two cases; `ReleaseGranted`/`ReleaseRefused` are the two
ways through `release()`, with the error code each leaves; `Get` is `get()`, and what a client keeps is a `shared_ptr`
(`strong`), which a release does not take away.  `Bump` is `++generation` with the value 0 skipped, at width `GenMod`.
`issued`, `bumps` and `stamp` are history: they let a client present any handle it was ever given.

**ModelTextures.**  One thread owns the GL context, so one call runs at a time; `op` says which and how far.  `StartLoad`
to `FinishLoad` walk a scene, a sequence of meshes that are sequences of texture paths, through
`Model::loadMaterialTextures`; `LoadFails` and `UnitsExhausted` are its error paths and `ReleaseFailed`, `Unwind` what is done
on them; `CopyModel` is the defaulted copy.  `ActivateTexture` is `Texture2D::activate` with `TextureUnit::activate`'s cached position; `DestroyTexture` is
`~Texture2D`.  `names`, `image`, `active` and `bound` are the GL server, which is external.

**CircularQueue.**  `class` says which of the two classes the queue at hand is of.  `Lock` is a mutex acquisition or the
`compare_exchange_strong` that succeeds, in between each access to the ring is a step: `Refuse`/`Enter` (the test),
`Construct`/`Move` (the element), `Advance` (the index), `Unlock`.  `Throw` is an element operation that throws: `lock_guard`
unlocks, the hand-written flag does not.  `Destroy` sweeps the cells from head to tail.

**SignalSlot.**  `emits` is the stack of emits under way; `Running` holds in a slot function or outside any emit, where
`connect`, `disconnect` and `emit` may be called.  `start`, `called`, `drops` and `left` are history.

**SelectServer, PollServer, EpollServer.**  One action per system call or branch of the loop.  `conn`, `peer`, `inbox` and
`sock` are the kernel's side: a read is a chunk of one buffer's size, a client leaves by shutting down or by a reset, an answer
to a client that has left may come back as a reset, and a write after that raises `SIGPIPE`, which ends the program (`up`).
`SelectServer` gives out descriptor numbers, lowest first, because `rdset` is a set of numbers.  `PollServer` has the
uninitialised `revents` as a free choice in `Init`, and the connection that finds no free entry as `"lost"`.  `EpollServer`
has the ready list, the batch handed to the program and the rule that a connection comes back on the list only when something
new arrives, or at registration if something had arrived before.

**ThreadServer.**  `pc`, `i`, `connfd` are main's locals; a worker holds the index of its entry (`info`) and uses whatever
descriptor is in it at that moment.  Nobody closes a descriptor; after `MaxFds` of them `accept()` fails and the server exits.

**ProcessServer.**  `holds[p]` are the connections process `p` has a copy of.  The handler is stored in the wrong member,
so `sa_handler` is whatever was there: default, ignore, or a stray address that kills the parent at its first `SIGCHLD`.

**TcpPackage.**  A package is four units on a stream, two of header and two of body, that may be cut anywhere; `Convert`
is the `htonl` that `hsend()` leaves in the caller's own header and `Checked` the `ntohl` that `hrecv()` applies whether or
not a header was read.  The cipher is a tag over the fields it depends on, and matches by chance as eight bits may.

**UdpExchange.**  Bags of datagrams; `Lose` and `Duplicate` are bounded faults, reordering is the bag.

**PackageCheck.**  `message` and `crc` are the bytes `crc32()` has read and its register, one byte a step; words of 32 bits are
pairs of 16, because TLC's integers stop at 2^31.  `High` and `Low` are the table of the source, entry by entry; `Remainder`
is the reference, the division by the polynomial bit by bit.  `Version` is what `encrypt()` returns of `__Nd2N_encrypt`.

**ReaderWriter.**  `kind` is which of the three programs runs.  Each operation of the lock made by hand is a step: its counters are
read into a register (`reg`) and written back, its wait is entered with no mutex held, which the model takes for the end of
the program.  The `std` locks are external: `MayEnter` is what they promise.

**HandOff.**  `Receive` tests the predicate under the mutex and waits, `Deliver` sets it and notifies, `Spurious` ends a wait.

**BigFactorial.**  A step is one multiplication of the loop: `multiply` goes over the digits with a carry, `Carried` appends what
is left of it, and `over` says whether a digit went behind the buffer's `size`.  The cached versions are `DigitsRight`'s second part.

**AsioEcho.**  `held` are the pieces sessions have read and not written; `workers` how many sessions run at a time.

**Exercises.**  `program` is the one that runs; the variables of the others are `"off"`.  They share `pc`, `fd`, `sent`,
`peer`, `inbox` and `broken` where their modules have a variable of that name.  The properties ask the same of all: is a
thing taken for what it is (`Addressed`), does the answer belong to the request (`InStep`), is who is inside alone (`Excluded`), are
entries and numbers right (`SlotsUsed`, `NumbersRight`), does whoever waits get on (`Answered`), is whoever leaves noticed
(`NoticesEnd`).  What each means for one program is defined in that program's module.

**TextureConfig.**  `cfgs` and `dirty` are `_cfgs` and `_dirty` of the texture "mine", `params` what GL holds for it.  `SetConfig`
and `SetConfigs` are the two `set_config()`, the second with each `UpdateMode`; `Bind` and `Activate` are the two ways to be bound,
one through `_bind_id`, the other past it; `Update` hands over what is marked, to whichever texture is bound.  A list is anything:
`set_config()` looks neither for names that come twice nor at types, and returns at once only if there is nothing in it.  `how`
is history, of which `Configured` speaks: asked for one by one, in a list, handed on astray, or one of several of its name.

**DemoPrograms, Demos.**  A demo is a straight line with one loop and jumps forward, so its text is
data: a sequence of statements, each with the names it makes or uses and with `err`, the place its failure leads to: a
label behind a `goto`, the body of an `ERR` macro (which runs where the failure is, without leaving a block), or `"none"` if
nobody tests.  `Demos` interprets it: `LeaveTo` is C++ leaving blocks, with `~Shader` and `~Texture2D` of what they hold; `Fail` is
the way out; `Obtain`, `BuildFails` and `Skip` are the outcomes of `Shader::build` and `Texture2D::load`, among them the
vertex shader left by the jump over its deletion and the file that is "read" with no error when the path is that of a
directory.

**RenderLoops, Camera, Frames.**  A frame is data too: `LoopOf(prog)` is what is set before the loop and in each frame, as `Use`,
`Set`, `Bind`, `Activate` and `DrawWith`; the last names the mesh, the maps and the uniforms its shader declares, read from the
`.vert` and `.frag` files.  `ctx` is GL's side: the program in use, what is bound, which uniforms of each program were set, and
which in this frame.  `Moving` are the uniforms that change from frame to frame in a program: the view and, where the wheel zooms, the
projection; what follows the camera (`casters_spot`'s light, `multiple_lights`' spot light), the time or the keys.  `PerObject` are those
that change from one draw to the next; `Each` sets them and draws for two objects, which stand for ten cubes or four lamps.  `BeginTurn` is the beginning of the loop's body (time, `processInput`), `Render` the frame, then
`glfwPollEvents()` may call back any number of times: `PressKeys`, `MoveCursor`, `Scroll`, `Resize`, `CloseWindow`.  `glfwGetKey`
reports keys as of the last poll.  `Camera` has the position along the view, the pitch and the zoom, with the callbacks' clamps.

**DynLib, Language.**  `handle` is that of each `DynLib` object, `api` the table of functions, `refs` are the counts of `dlopen`, which
is external.  `loader` is the object behind `global_i18n_loader()`: `StartLoading` makes the list of candidates, outer directory
before inner and language before general, `TryNext` tries one; other threads wait at the function's static.  Whatever closes the
only handle of a library may unload it with its loader (`MayUnload`), opening it again with the same handle included.  `Localise` is
`message()` of either category, `BadArgument` and `FindEx` the ways through `find_ex()`, with `last_error` per thread.  A file is
what it does to the loader (`full`, `part`, `hollow`, `broken`, `denied`, `missing`); `dead` is an exception leaving `noexcept`.

## 3. Runs

| Run | Instance | Shows |
|---|---|---|
| `pool` | 2 slots, generations mod 4, 6 acquisitions, 2 clients | free stack exact, handles safe up to the wrap, refinement of `HandleStore` |
| `models` | 3 models, one of them may be a copy, 2 paths, 4 scenes, 3 units; or one texture, 6 lists, up to 3 parameters | units owned, models intact, draws sound, no orphans; GL has the parameters that were asked for |
| `model_copy` | 2 models, one a copy | *violation*: destroying a copy takes the other's textures |
| `model_reload` | 1 model loaded twice | *violation*: the first load's textures stay for good |
| `queue` | 3 threads, both classes, throwing elements in one | exclusion, live cells, refinement of `BoundedFifo`, calls return |
| `signal` | 4 functions, 3 slots, emits nested twice | table exact, each function called once, skips bounded |
| `loops` | select and epoll with 2 clients, poll with 3 clients on 2 entries | watched = open, never blocked, one late reply, refinement of `ConnectionService`, everybody served |
| `exercises` | the nine programs, see below | nothing taken for something else, answers in step, exclusion, right numbers, whoever waits gets on, whoever leaves is noticed |
| `process_reap` | 2 clients, 2 children | *violation*: zombies stay |
| `demos` | all 21 programs, every statement failing or not; 2 cursor positions, 3 units of time, pitch and zoom of a few steps | calls in context, nothing left behind but what is listed, ready to draw, every uniform set and up to date, the view steered by the user |
| `language` | 2 threads, 2 `DynLib`s, 3 libraries, 14 file systems, 2 settings of the environment | handles balanced; the pack in use, the answer and its reason fit |
| `language_doc` | the same | *violation*: utils messages are never localized |

### Bounds, and why they are enough

* `GenMod = 4` makes the generation wrap after three bumps, an odd number as with 2^32 - 1; six acquisitions on two slots
  go through the wrap.  The proofs cover every width.
* Three texture units for up to five textures alive at a time make units run out in the middle of a load; the scenes have a
  texture used twice, a mesh without textures and two meshes.  The third model may be a copy of another; `copied` is history, and
  `ModelsIntact` speaks of the models it leaves out, for the reason `model_copy` shows.
* Lists of one parameter and of two, of two names, with one name twice, with a type that does not fit and with nothing in it; `MaxCfgs = 3`
  leaves room for a name set alone behind one that came twice.  The proofs cover every list.
* Two objects stand for ten cubes or four lamps: what was set for one may be left over for the next.
* Two cells and the one kept free, with three threads: full, empty and wrap-around all happen, with two threads waiting.
* Four functions on three slots with two disconnects per emit: the table overflows, the entry under the loop index and the one
  behind it are removed, at two depths.
* Three poll clients on a table of two entries: overflow, reuse of an entry below another, stale `revents`.  Two clients are
  enough for select's numbers to be reused in a scan and for a batch of two epoll events.  `Chunks` and `PollChunks` bound what
  is sent in all; two chunks after a reset are what `SIGPIPE` takes.
* Three clients for two entries of the thread server, started with one descriptor taken or none: entries are reused in one
  case, descriptors run out in the other.
* One child at most makes `fork()` fail; two connections make `accept()` fail when two forks have.
* Three packages: one before, one after the exchange whose leftovers matter.  Two clients are what an answer to the wrong one
  takes, three hellos and two faults what it takes to have an old answer and a lost one at once.
* Two readers and a writer of two rounds: two readers are what it takes to lose a count, a second round what it takes to come
  back to a lock that was left wrong.  `Width` lets a count that was lost below 0 wrap round, as an unsigned one does.
* `MaxN = 52` goes past 49!, the last to fit the buffer of 64 digits (63), and 50!, the first that does not (65).  The buffer's growth
  comes too late in every case, so larger numbers show nothing new.
* A request of five pieces for four sessions is cut off when each session gets one piece.
* `MaxBytes = 2`: any byte, then 'a', so that all 256 entries of the table are used and the register's state matters.
* `Subject`: clients are alike, so what is said of one client while all others do anything is said of each.
* The demos have no parameters: the model has all of them and every combination of failures.  Time stops at 3, two ticks after
  the set-up's; the pitch is cut off one step from the middle.
* The file systems have a pack in an inner directory and, before it, none, a broken, an empty or a whole one; or a directory that
  may not be read, none at all, or no `/proc`.  Two `DynLib`s are what a move takes.
* Lists of two parameters, whose types differ in value, type or both, are what `merge`, `update` and `remove` tell apart.

### Fairness

Every fair specification assumes only that each thread, process or loop runs whenever it can (weak fairness of its steps).
No lock is fair to a particular waiter, so `SomeCallReturns` says that some call returns, not that each does.  In `Exercises` the
programs exclude each other, so one condition serves the main threads of all, one the second thread of each.  The latter is strong,
because of one case: a receiver that is woken for nothing takes and gives back the mutex again and again, and the sender must
get it some time.  Readers share the condition, for their rounds are bounded: what one of them does brings the
end of its rounds nearer.  Nothing is assumed of clients, users and the network, with two exceptions that are stated where
they are made: poll's clients and the thread server's clients hang up sooner or later, because `read()` of a silent client
blocks poll's loop and keeps a worker's entry.  The network of `UdpExchange` is not obliged to deliver more than it can help losing:
its losses are bounded, and the property names the case.  `Multiply` and `Checksum` need no fairness: nothing waits for them.

Deadlock checking is off where the system may stop: when every client has left, when a server has been killed, when bounds
on packages, acquisitions or hellos are used up, when a demo or an exercise has exited, when a thread has ended the program.

## 4. Proofs

TLAPS checks the following for every value of the constants that satisfies the named assumptions (those `ASSUME`d where the
constants are declared, which TLC evaluates in the runs), with SMT, Zenon and PTL.  Eight modules hold the proofs, each for one of
the specifications that the runs check.

**Pool** (`ResourceManagerProofs`).  `FreeListExact` and `LiveReachable` are not inductive without knowing where handles come
from.  `IInv` adds: every issued handle names a slot of the pool and a stamp not in the future (`IssuedOK`); a generation is determined
by the number of bumps, so two equal generations of a slot are a multiple of the period apart (`GenerationByAge`); a slot is
occupied when its bump count is odd (`Parity`); objects in the pool are the latest of their slot (`Fresh`); slots beyond `size` are
untouched (`Unused`).  From it follow `TypeCorrect`, `FreeListCorrect`, `LiveReachableCorrect`, and `HandlesSafe`: since the period
`GenMod - 1` is odd and a reuse bumps twice, a handle is safe for `GenMod - 1` reuses rather than half as many.  `ActiveCorrect` is
an invariant of its own over cardinalities.  `Implementation` shows that every step of the pool is a step of `HandleStore` or a
stutter, as long as no handle has reached that age; `LiveIff` is the lemma that matters, that a handle is good exactly while its
object is in its slot.  `StoreOfFew` has no such proviso: where fewer objects are acquired than there are generations, `FewInv`
adds that no slot was bumped often enough to repeat one (`Seldom`), and the pool is a `HandleStore`.

**Models and textures** (`ModelTexturesProofs`).  The four properties rest on one inductive invariant, `TexInv`, for each needs
parts of the others.  It takes the pool at the level of `FewInv`, hence the hypothesis `Few == MaxObj < GenMod`: the
code's generations have 32 bits, so it says that a program loads fewer than 2^32 textures; every run satisfies it.  Above the
pool: what a call that is under way knows (`CallInv`), GL names and units belong to living textures, one each (`NamesInv`, `UnitsInv`), a
texture has the image of its path (`ImagesInv`), a model's meshes lead into its cache (`CacheInv`), two models share textures only if one is a
copy (`SharingInv`), and a model's textures are all there, or all gone, or it shares the ones that the release under
way still has to visit (`WholeInv`).  Last, `DrawInv` is what the mesh being drawn has bound so far, with
`_activePos`, which is right or says that nothing is known.  Theorems: `UnitsOwnedCorrect`, `DrawSoundCorrect`,
`ModelsIntactCorrect`, which adds `ArraysInv`, a model has one array for each of its meshes, at most two, copied or not, and each array is one mesh's
while nothing was copied (`OneEach`); `LibTypeCorrect`, which needs the same; and `NoOrphansCorrect`, which
adds `Found`, a pooled texture is in a living model's cache or in the hands of the load that made it.  The last needs `~Reloads`,
for the reason `model_reload` shows.  They are theorems of `LibSpec`, which is either side of the library; each of its behaviours
is one of `ModelTextures` (`LibraryIsModels`).

**Lists of parameters** (`ModelTexturesProofs`, second half).  `merge`, `append`, `update` and `remove` are folds over lists of any
length.  The library's induction takes an operator as a parameter, which no installed prover can instantiate; its theorem that a
set of numbers that is not empty has a least element takes none, and that is enough: `Induction` says of a *set* with 0 and every
successor that it is `Nat`, and from it follow what a fold over the first k entries is, and that the recursive function in its
definition exists.  `Sound` is what every list keeps to: what is marked came in a list (`Entry`); what came in a list is marked or GL has
it; and before an entry that came in a list there are only entries that came with it in a list that replaced all (`Pair`: they are
`"twice"`), none of them marked after it.  Each mode keeps it, entry by entry, for `find_cfg_by_pname` finds the first of a name; `update()`
hands over what is marked in order, so that what is handed over last for a name is right.  `ConfInv` adds that the texture is dirty if an entry
is marked.  Nothing is assumed of the lists but that they are lists of parameters: any names, any number of them, the same one more than
once, any type.  Theorem: `ConfiguredCorrect`; the other half of `LibTypeCorrect` is the same invariant.

**Queues** (`CircularQueueProofs`).  `IInv` is `TypeOK`, `Exclusion`, `LiveCells` and `Calls`: a thread past the test is at a queue
that is neither full nor empty for it.  `WindowMoves` is the arithmetic of the ring: advancing tail adds exactly the cell at tail
to the window, advancing head removes exactly the one at head.  Theorems: `TypeCorrect`, `ExclusionCorrect`, `LiveCellsCorrect`.
For the refinement, `Implementation`, the abstract queue is the stretch of cells from head to tail, less the element a pop has
moved out already, or with the one a push has constructed already (`Shown`); `Constructed` says that what lies there is what was
pushed.  Each step of a thread then appends, takes the first, refuses, or changes nothing abstract.

**Signals** (`SignalSlotProofs`).  `IInv` is `TypeOK`, `TableExact` and `CallsInside`: an emit that is calling has its index inside
the table, and so may add one to it when the function returns, however the table shrank.  Theorems: `TypeCorrect`, `TableCorrect`.
`CalledOnceCorrect` and `SkipsCorrect` need to know where an emit stands: what it called and is still connected lies
before its index, and what lies before it without having been called is no more than what was removed (`LoopSound`).
Removing an entry shifts the others down by one past the index, which costs one function at most.

**Socket servers** (`SocketServersProofs`).  One invariant for each loop.  `SelectInv`: a number that is still to be scanned in
`rdtmp` belongs to an open, readable connection (`ReportsLive`): the one `accept()` gives out before the scan was closed when
`rdtmp` was made, and what the scan closes it has passed.  `PollInv`: the same of `revents` (`EntriesLive`), but for the entry
that was filled in this round, which keeps the flag of its predecessor.  `EpollInv`: no descriptor is twice in the ready list or in
the batch, a connection in the hand of the loop is not in the rest of the batch (`ListsSound`, `InHand`), and a reply that came too late is
followed by the end of the stream (`RepliesSound`); `EpollSets` is the same in terms of sets, in which edges can be reasoned about.
Theorems: `TypeCorrect`, `WatchedCorrect`, `NeverBlocksCorrect`, `OneLateReplyCorrect` and `Implementation`, that each of the three refines
`ConnectionService`.

**Exercises** (`ExercisesProofs`).  One program runs, so the invariant is one of nine.  Those with an argument in them:
`ThreadInv`, an entry that is taken is a worker's or the one main holds, so no two workers use one; `ProcessInv`, who but a child holds
its connection; `UdpInv`, as long as nothing of a client was duplicated, at most one of its hello, its answer and the request
being served is on its way (`OneOnItsWay`); `TcpInv`, what is on its way to an end is what that end waits for, part by part, and only one end
has anything on its way (`Arriving`, `Alternating`); `LocksInv`, as long as no two readers met at the counter made by hand, it
counts who is inside; `EchoInv`, pieces held and pieces written are apart.  Theorems: `TypeCorrect`,
`AddressedCorrect`, `InStepCorrect`, `SlotsUsedCorrect`, `ExcludedCorrect`.  `TypeCorrect` includes that a register of `crc32()` keeps its 32 bits.

`DigitsCorrect` is about what the big factorial computes, for every n.  `Follows` and `FollowsExists` say that a function on numbers defined by
recursion exists, wherever the recursion goes down (k - 1 for a product, k \div 10 for the digits of a carry); `IsWorth(w, v)` says that
the digits w are worth v in tens.  `WorthTimes` is the schoolbook multiplication: if in every place
`d[j] * k + c[j - 1] = 10 * c[j] + w[j]`, then w with the digits of the last carry is worth k times as much; `MultipliedIs` and
`MoreIs` say that the loop and what follows it do that, and `MultiplyIs` that no zero comes in front.  The invariant
(`DigitsInv`) is that the digits are worth x!.  `ResidueIs` and `FactorialIs` turn this into the form in which the run checks it,
for every modulus and not two.

**Language packs** (`LanguageProofs`).  `DynInv` counts: a library is open as many times as there are objects that hold it, and the
table's two functions come from one library.  `LangInv` adds what the search has tried (`Sought`), that every thread's
answer fits its own last error (`AllToldRight`), and what alone can end the program (`Died`).  Theorems: `HandlesCorrect`, `AnswersCorrect`.

**Frames** (`FramesProofs`).  `SteeredInv` is independent of what the programs draw: the camera has gone no further than `lastFrame` allows
(`Walked`; in the first turn, whose `deltaTime` is the whole time since the start, no key can be down), and the angle and the
cursor differ by what the clamp cut off, which lies between two places where the cursor has been (`Turned`).  Theorem: `SteeredCorrect`.

The rest of the module is about the programs.  TLC runs each of the 21; the proof says *why* they do what they promise, for any text.
`Fits(p)` states eight conditions on a text that can be read off it without running it, relative to a plan (where GL is used,
where the loop is, where the program returns): the text has one way down (`Shaped`); GL is used only between loading and the
end of its context (`InContext`); a failure leads forward, past the loop, never into a block the program is not in, and into the body of a macro
only before anything is owned (`Caught`, `Ahead`, `Unwound`); objects are obtained in their blocks, and the blocks left before the context goes
(`InBlock`); every other name is deleted once (`Deletes`); what is drawn was made (`Prepares`); and what a return may
follow (`Returns`).  `ProgramInv` is the invariant of any program that fits: its blocks are those of the text at the place where it is (`InBlocks`), a name
that is gone was an object's or has been deleted (`Loaded`), and one that lives is an object's, or known to stay, or still to be
deleted (`Surviving`).  There is one lemma for each way a part is kept (`...Next` by coming to the next statement, `...Jump` by a
failure), one for each action, and one for each text, `AllFit` being the sum of those; `Levels` counts blocks by induction over a set, as `Induction` above.
A demo that is changed needs its own `...Fits` again and nothing else.  The exceptions (`Strays`, `Remains`, `Unnoticed`) are
parameters of the conditions.  Theorems: `CallsInContextCorrect`, `NothingLeftCorrect`, `ReadyToDrawCorrect` and, with the ranges of time and keys
(`Kept`), `FramesTypeCorrect`.

Proving changed the models in a few places.  In `SelectServer` and `PollServer` the guards of `Serve` overlapped, so that one
step was several `CASE` arms at once; the prover could not choose, and now they exclude each other as the `if`s of the code do.  `PackageCheck`
computes its xor by halves, because the bit operators of the library are recursive.  `TextureConfig` removes names with a fold over
the list, as the loop of `remove_cfgs` does.  Assumptions on constants that the models
had been using silently (finite sets of models, paths and objects, scenes of at most two meshes) are named.

Only model-checked, and why:

* Liveness (`SomeCallReturns`, `Served`, `Answered`, `NoticesEnd`) is out of the prover's reach, as is `ENABLED`.
* What is left of `NumbersRight` is no theorem about all constants: that 50! is the first to be written behind the buffer is a
  fact about 64 digits, that the caches are wrong from 13! and 21! on is seen in what they leave modulo 9973, which could be right by
  chance for some larger n, and the table of `crc32()` is right entry by entry, which only computing it tells.
* `DrawsComplete`: what GL has been told is a fold over a frame's text with an operator (`FoldLeft(Tell, ...)`), and the provers
  cannot instantiate that.  The texts are one instance, which TLC explores completely.
* `ReleasesExclusive`, and `NoOrphans` where models are loaded again, are false; runs show it.

`LiveReachable`, `ActiveExact`, `StoreOfFew` and the type invariant of `SignalSlot` are proved and left out of the runs.

## 5. Findings

* `model_copy`: `releaseOwnedTextures` takes a texture for exclusive by the use count of a `weak_ptr`, but models hold handles;
  the pool is the only owner always, so destroying one of two copies of a model releases what the other draws with.
* `model_reload`: `Model::load` forgets the handles of an earlier load without releasing them.
* `process_reap`: `callback()` is stored in `sa_restorer`; children are never waited for.

* `language_doc`: `message()` of the utils category tests `i18n_ec` the wrong way round (`utils/error_category.cpp:23`); the
  graphics category has it right, and `demo/lang.cpp:139` says what should be.

Other properties hold with exceptions that they name, because no line of the repository promises otherwise:

* `CallsInContext`, `Stays`, `Keeps`, `ReadyToDraw` name the demos that fall short.  The three programs with a label `end` return
  `is_first` in one way or another, a flag of the cursor's.  Only `basic_lighting` and `materials` keep `gFbWidth` and `gFbHeight`.
* `ModelsIntact` leaves out models that were copied: besides their textures, `Mesh2D` copies share arrays that each destructor deletes.
* `Configured` leaves out parameters set one by one (`texture.cpp:203` marks nothing, so `update()` passes them over: the filters
  `model.cpp:132` asks for never reach GL), those handed to another texture because `bind()` believed `_bind_id`, and those of a type
  that does not fit the name, which `apply()` reads from the union as another.  Of a name that comes twice in a list that replaces
  all, GL gets the last; when the name is asked for again, the first entry is changed (`texture.cpp:7`), and whether GL gets the new
  value or the old one depends on whether there was an `update()` between.  Nothing is promised for such a name from then on.
* `DrawsComplete` is about when a uniform is set, not about what to: in `basic_lighting` and `materials` the lamp moves after the cube is
  drawn, so the cube is lit from where the lamp was a frame ago.
* `AnswersFit` says "the first that loads", which is not "the user's language": directories come before languages, a pack without
  messages hides all behind it.  The answer -3 of `find_ex()` cannot come; a later change of `SKL_LANG` is not noticed.
* `Excluded` is about the two `std` locks and, of the one made by hand, about what is left of it: readers lose counts.
* `InStep` says nothing of the echo's order when sessions run at a time: what they write may change places.  After four
  sessions the connection is closed, whatever of the message is still to come.
* `NumbersRight`: the buffer of the C factorial is looked at after the digits are written, so 50! and more write
  behind it (and a caller that gives it a size of its own has it write to NULL: `factorial.cpp:209`); the caches are right to 12! in C and to 20! in C++.  Of
  the version `encrypt()` makes, bit 7 is always set, seven bits of the header's fields never matter and five always do:
  `<< 2 | >> 6` turns 8 bits, and `ptlv_t` has 16.
* Camera: `setPitch()` and `setZoom()` overwrite the clamp at one bound with the one at the other; nobody calls them.
* `casters_directional`'s own shaders do not compile, and it uses others.

## 6. Not modelled

* Byte contents: buffers, formats, dates.  What overruns a buffer by one byte (the `buf[len] = 0` of the servers, the
  fifth entry of poll's unrolled loop) is taken to hit unused memory.
* Errors of `socket`, `bind` and `listen`, which end the programs before they serve anyone.
* Errors of `accept()` other than those named.  `tcp_server` and `epoll_server` end (the latter when it registers -1); `select_server.cpp:63-66`
  and `poll_server.cpp:58-66` do not look: the one sets bit -1 of its set, the other leaves -1 in a free entry.  Numbers
  of descriptors beyond `FD_SETSIZE`, which would be written behind `rdset`.
* The two messages dynamic `demo/lang.cpp` asks of a category when it cannot open or load its library (lines 116 and 122), just before it ends.
* Image decoding, assimp's traversal beyond its order, mesh buffers, vertex layouts.  `glGen*` is taken to succeed.
* Moves of textures, explicit unit positions (`acquire()` with one always reports a mismatch: `texture.cpp:336` says `||`) and `setTex()`.
* Shaders built twice or moved, the camera's setters and its yaw, `activate()` failing in a loop: no program does that.
* The set-up of `hpack_t` fields nobody reads; `dencrypt()`, which is not the inverse of `encrypt()` and which nobody calls; `crc32()`
  continued from an earlier one, which does not undo the last xor as zlib's does, and which nobody does.
* A client of epoll that never pauses, which would keep the others waiting: `Chunks` bounds what is sent.
* The JSON parser; the table `demo/lang.cpp` prints.
* Of the asio server: more than one client (it serves one at a time), partial writes, the race on `_ec`, the unterminated
  string it prints.  `ct_socket.cpp`, `buffer.cpp`, `httpclinet.cpp`: straight lines of library calls.
* `semaphore.cpp`, which is a compiled program and not source.
* Vendored code (`glad`, `stb_image`), TBB and XML exercises (calls into a library), sampling exercises (floating point),
  coroutines, `std::any`, `outfile.cpp` and the SIMD exercise (sequential, without state), Verilog.

## 7. Plan

Done: the pool with its abstract store and proofs; models and textures, with their configuration; the queues with their abstract
queue and proofs; the signal table and proofs; all of `web/`; the demos, from set-up through frames and callbacks to the end; the
language packs; locks and condition variables; factorials; the asio echo.  Proofs of every safety invariant and both refinements
but those named under 4.

Next, in this order:

1. A proof that the frames of the demos are complete (`DrawsComplete`), with the fold over a frame's text as a recursive
   function.
2. Moves of textures and shaders, explicit unit positions.
3. The Verilog state machine and flip-flops.
