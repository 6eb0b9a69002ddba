# RinGL verification

TLA+ models of RinGL, an OpenGL ES 2/3-like API in C on top of the RinGPU
command interface, with TLC runs on small instances and TLAPS proofs for all
instances. All definitions are translated from the C sources under `src/src`;
`PROJECT.json` maps each one to its lines. The README is in five parts: what the
system is, which module models what, what the runs check, what is proved, and
what is left.

## 1. The system

A context (`RinGLContext`) belongs to one thread at a time and is reached
through a thread-local pointer. Applications call GL-like functions on it; each
call checks its arguments, changes context state, and may talk to a *device*:
a table of callbacks (`ringpu_ops`) that create, upload and destroy buffers,
images, shader modules, pipelines, bind groups and command lists, and that
submit a command list to a queue and wait for a fence. Any callback may fail.
Contexts share nothing but one counter of CPU bytes behind a spin lock.

| Component | State | Operations | Interacts with |
|---|---|---|---|
| CPU budgets (`context/context.c`) | shared byte counter and its lock; per context two counters and a table of staging blocks | reserve, release, allocate and free staging and temporary memory, trim, create and destroy a context | every component that keeps bytes |
| Object names (`objects/object_table.c`) | slots with state, type and 16-bit generation | allocate, promote, look up, release | all object components |
| Buffers (`objects/buffer.c`) | RinGPU handle, size and CPU shadow per slot; two bindings | gen, delete, bind, data, sub data | budget, vertex arrays, device |
| Vertex arrays and attributes (`objects/vertex_array.c`, `context/vertex_attrib.c`) | table of arrays, array 0, working copy of the current one, current values | gen, delete, bind, enable, point, divisor, detach | buffers, layout |
| Vertex layout and validation (`translate/vertex_layout.c`) | cache of validated ranges, generation | resolve a layout, validate a range, scan indices | attributes, buffers, program |
| Textures (`objects/texture.c`) | CPU shadow per face and level, parameters, image, sampler, units | gen, bind, image, sub image, copy, compressed, mipmaps, parameters, realize, delete | budget, device, framebuffers, draws |
| Framebuffers (`objects/framebuffer.c`, `context/framebuffer.c`) | attachments, draw buffers, renderbuffers, bindings; the surface of the default framebuffer | gen, bind, attach, storage, draw buffers, status, queries, delete, set the surface | textures, draws, readback |
| Draws, clears, present (`translate/draw.c`) | bind group, dirty bits, command list | draw, clear, present | everything |
| Synchronization (`context/sync.c`) | fence, its last value, command list | finish, readback | images |
| Shaders and programs (`shader/*.c`) | objects with delete flags, their modules, link results, uniform values | create, source, compile, attach, link, use, uniform, delete | pipeline cache |
| Pipeline cache (`translate/pipeline_cache.c`) | ring of entries, eviction pointer | get or create, grow, destroy | programs, device |
| Errors, loss, trace (`context/context.c`) | first error, device generation, event ring | record, read with a cursor | every call |
| Fixed state (`context/state.c`) | capabilities, masks, tests, blending, regions, clear values, gates of extensions | set, get | pipeline keys, draws, clears |
| GLSL front end (`shader/glsl_*.c`, ...) | none between calls | translate source to RSH1 | shaders |
| RinGPU backend, software surface | none of the program's own | forward, copy pixels | device |

What makes it hard, and what it must get right:

* **Concurrency**: the shared counter is the only state of several threads. No
  interleaving may lose or double a charge, and freed memory must not be given
  away before its charge is returned.
* **Partial failure**: nearly every call makes several device calls and
  allocations. After a failure at any of them nothing may leak, be charged
  wrongly or be half updated.
* **Stale references**: names and RinGPU handles are reused. Deleted buffers,
  shaders, images and modules are named from many places (inactive vertex
  arrays, link results, cached pipelines, bind groups); whoever deletes must
  find all of them.
* **Belief against fact**: the device does not tell the state of an image, so
  RinGL tracks it; a bind group, a pipeline, a validated range are kept because
  RinGL believes nothing changed. Each of these beliefs can be wrong.
* **Several tables for one fact**: completeness, the target of a draw, the image
  that is made, the write mask and the queries each derive what an attachment
  or a format is from tables of their own.
* **Optional callbacks**: a device may lack any of a dozen; what it cannot do
  must be refused, and what it can must not be.
* **Numeric edges**: generations wrap, rings wrap, 64-bit sizes are added and
  multiplied before they are compared.
* **Liveness**: the spin lock, the retry of a reservation and the fence of
  `glFinish` and `glReadPixels` can wait, the last without a limit.

The hazards are listed one by one, at their lines, in `PROJECT.json`.

## 2. The modules

| Module | Models | Kind |
|---|---|---|
| `Totals` | sums of functions on `1 .. n` | operators |
| `CpuBudget` | budgets of `context.c`, threads interleaved at the lock | specification |
| `Objects` | `object_table.c`, `buffer.c`, `vertex_array.c` | specification |
| `VertexArrays` | what vertex array objects promise | abstract specification |
| `Rendering` | image states, bind groups and submission | specification |
| `Programs` | shaders, programs and their modules | specification |
| `Interfaces` | uniforms, attributes and varyings of a program: linking, locations, setters | specification |
| `PipelineCache` | the ring of `pipeline_cache.c` | specification |
| `FifoCache` | a bounded cache with FIFO eviction | abstract specification |
| `VertexFetch` | layouts, validation and its cache | specification |
| `TraceRing` | the trace runtime of `context.c` and its readers | specification |
| `EventLog` | a numbered log of which a window is kept | abstract specification |
| `Submission` | the fence, the shared command list, errors and loss | specification |
| `FixedState` | `state.c`: setters, clamps, dirty bits | specification, used by `Drawing` |
| `Drawing` | what a draw or a clear records for a state, a target and a device | specification |
| `Texels` | formats and what conversions do to one texel | operators |
| `Textures` | `texture.c`: storage, faces, levels, images, samplers | specification, extends `Texels` |
| `Framebuffers` | `framebuffer.c`: attachments, completeness, targets, reads, queries | specification, extends `Textures` |
| `ObjectsMC`, `RenderingMC`, `ProgramsMC`, `VertexFetchMC`, `TexturesMC` | views, symmetry sets, scenes and inputs for TLC | model checking |
| `DrawingMC` | inputs for `Drawing`, and `PipelineCache` beside it, which shares no state with it | model checking |
| `SubmissionMC` | `Submission`, and `TraceRing` beside it, which shares no state with it | model checking |
| `TotalsTheorems` | theorems about sums, and about functions defined by iteration | proofs |
| `ObjectsProofs`, `VertexFetchProofs`, `FramebuffersProofs` | theorems about the module each is named for | proofs |
| `ProgramsProofs` | theorems about `Programs`, and about `Interfaces`, the uniforms and inputs its programs are linked from | proofs |
| `CpuBudgetProofs` | theorems about `CpuBudget`, and about `Textures`, whose shadows are charged to it | proofs |
| `PipelineCacheProofs` | theorems about `PipelineCache`, and about `Drawing`, which asks it for pipelines | proofs |
| `SubmissionProofs` | theorems about `Submission`, about `Rendering`, whose commands are submitted, and about `TraceRing`, where losses and calls are told | proofs |

An operator whose comment starts with `Fault:` is a wrong version of the
definition after it. No specification uses one; each stands for a bug somebody
could make there and is what a property is known to catch.

### CpuBudget

A context stands for its thread. `phase` is where a thread is inside
`ringl_global_cpu_allocation_reserve` or `_release`, with taking the lock,
reading and writing as separate steps (`GlobalLock`, `GlobalRead`,
`GlobalWrite`, `GlobalExit`). `pc` and `op` are where it is in the allocation
or free around it. Steps between two accesses to shared state are one action:
no other thread can see their middle. `stores` stands for all memory outside
the staging table (shadows of buffers, textures, shaders, temporaries): all of
it follows the same protocol, `reserve - malloc - free - release`, with one
exception. The storage of a cube map is that of its faces, and neither the deletion of
the texture nor the end of its context gives it back (`Strand`, `DeleteCubeMap`: see finding 2). `stranded`
has the bytes that deleted cube maps left behind in a context, which stay
charged to it, `leaked` those of contexts that are gone, which only the shared
counter still has. A context that is destroyed gives back each of its stores (`GiveBack`), or strands it when it is of a
cube map.

### Objects

A name is the pair of slot and generation that the 32-bit name encodes.
`working` is the copy of the current vertex array that lies in the context,
`saved` and `default` what lies in the table and for array 0. `buffers` has
both copies of a buffer's bytes, `device` those of RinGPU. `glBufferData` and
`glBufferSubData` are run step by step: reserve, malloc, create, upload, publish. `update` is
what the call holds meanwhile (the reservation, the new shadow, the new handle), `step` how far it
is. Each step may fail (a creation also with a handle that is not 0, or with the handle the buffer has),
and each failing step has the cleanup of its own exit in `buffer.c`; `UploadFails` destroys the new handle,
frees and releases. That together they restore what was there is a property and not an
assumption. Calls with several names are modelled
as a whole where all-or-nothing matters (gen) and as one name at a time where
they are independent (delete).

`VertexArrays` says what the API promises: each array has a state of its own.
`Objects` implements it with `content` taken from the working copy for the
current array and from the table for the others.

### Rendering

`actual` is the state an image is in on the device, `tracked` what RinGL
believes. A list has transitions for the images whose tracked state differs
(`Moved`); `Accepted` is what the device does with the list, `Published` what
RinGL writes down afterwards. Each call that submits has its failing versions:
`Stopped` (before anything was recorded for good), `DrawUnprepared` and
`DrawRefused` (images and the bind group may have been made by then),
`ReadUnconfirmed` (submitted, and the fence wait failed). `group.intact` says
whether the image a bind group was built from still exists. `dirty` stands for
the PIPELINE and BINDINGS bits, which are the ones that decide about rebuilding.

### Programs

Modules are handles of the device, and `code` says what a handle stands for
now. RinGPU may hand out a handle again as soon as it is free, so a cached
pipeline (`cache`) that outlives its modules can be found by others. Linking has
three outcomes: it fails before it made anything, stops after some
shaders got their modules, or is done. A uniform update makes its new
modules before it gives up the old ones (`SetUniform`); when the second stage fails, the module
of the first one, and one that came with an error, are destroyed again (`SetUniformFails`). Objects live by rules that are spread over
`shader.c` and `program.c`: `InUse`, `Released`, `DestroyedPrograms`.

### Interfaces

The rest of linking and of uniforms: what `Programs` has one uniform for. `uniforms` are the
sixteen tables of `RinGLProgramObject`, an entry for each element of an array, and `Collected`
fills them in the order of the `collect` calls with the refusals of each (`Accepts`: some tables
look for room before they look whether the entry is there): an entry (`Adding`), the elements of a
declaration (`AddingAll`), the declarations of a type (`Collecting`), the types. `Offered` is any set
of pairs of shaders as the parser lets them pass (`WellFormed`: it takes no name twice in a shader,
so attributes, inputs and outputs have names of their own). `LocationOf` is
`ringl_get_uniform_location`, `FirstLocation` what each setter and getter adds up to
find its table, `ActiveUniforms` the reflection that joins elements to arrays again. `Assigned` and
`Placed` give attributes and varyings their places. A setter looks its entry up
(`EntryAt`), checks a run of elements by their names (`RangeValid`), and compiles the
stages that read one (`Readers`); `built` is what their modules have compiled in. A setter writes the values before it compiles; when a stage fails,
all elements that were written get back what they had (`RolledBack`). A link that
fails leaves tables that nothing looks at; the model empties them. The sources a link reads do not change here
(see the remark on uniforms), and the program is current.

### PipelineCache

The ring as in the code: `entries`, `next`, `count`, `capacity`. A lookup that
misses creates a pipeline and then finds room: a free entry (`Store`), a
doubled ring (`StoreGrown`, rotated so that the next victim comes first), or the
place of the victim (`StoreEvicting`). Growth may fail for want of memory, so
evicting is possible below the bound as well. A hit changes nothing.
`FifoCache` is the promise of the documentation; the refinement mapping reads
the ring from `next` on.

### VertexFetch

`Resolves` and `Layout` are `ringl_resolve_vertex_layout`, `Fits` and
`Validates` the checks for one and for all attributes, `Hits` and `Entry` the
cache, with the word widths as constants. A draw is found in the cache
(`DrawCached`), validated (`DrawValidated`) or refused. `issued` is what was
handed to RinGPU. The vertex arrays behave as `VertexArrays` says. `Refused` is all a
draw can be refused for here, layout and range, and `Refusable` says why in terms of the fetches. Which buffer
is bound is a parameter of the calls here: `Objects` has the bindings. A program
whose last link failed stays current (`broken`); there a range may still be
found in the cache, but no pipeline is.

### TraceRing

`next`, `count`, `dropped`, `counts` and `events` are the fields of
`RinGLTraceState`; `Record` is `ringl_trace_runtime_record`, and the disjuncts of
`ReadTrace` are the ways `ringl_trace_runtime_read` returns. A reader passes the
cursor its last read returned; what several readers do to each other's cursors
(nothing) needs no shared state. `last` and `excused` are history: what a reader
was given and whether it knows of a gap since. An event is its type and
number; its status and values are copied with it. Argument errors and an
uninitialised runtime are left out. `EventLog` is the promise: all events ever
recorded, of which a window at the end can be read.

### Submission

One callback of the device per step, for a call that draws, presents, finishes or
reads (`caller`); `pc` is what the call does next. Between two callbacks the
device may finish a list (`Execute`), in the order of its queue, signalling the fence
the list was submitted with. `prepare_empty_command_list` and
`begin_commands` are both `CreateList` or `ResetList`, since they share
`graphics_command_list`; `presents` is the capability it was made with.
`drop` holds what a failed creation returned all the same, until it is
destroyed. `live` is the device's view of the handles. Every callback may return
`ok`, `refused` or `lost`; `BackendCall` are those that go through
`ringl_backend_result` and leave a call record, `SyncCall` those of `sync_ops`.
The commands of a call are one step (`RecordCommands`): `Rendering` has them. What a draw, a clear or a
read replaces on its way (an image, a bind group, a pipeline) is destroyed in steps of its own
(`Replace`), of which there may be any number. A destroy may find the loss, and what it
reports is discarded (`ringpu_backend.c:746-755`): the context is lost, and the call goes on. A read asks when it needs
its list (`GivesUp`, `FindLost`); a draw or a clear does not, and makes callbacks on the lost device until one tells it.
External, and assumed of RinGPU: lists finish in order, a destroyed fence is
not signalled, a handle is not given out while it is live.

### FixedState and Drawing

`FixedState` has one action per setter of `state.c` (`fixed` and `enabled` are
the fields of the context), with its refusals, what it clamps and which bits it
sets (`Marked`). Floats are integers with `One` for 1.0; NaN and infinities are
one value, since every setter treats them alike. `Drawing` has the default
framebuffer, framebuffer objects as records of what draws ask of them
(`UserTargets`; how they come about is in `Framebuffers`), the callbacks of the
device, and for a shader the channels it stores, in order (`stores`).
A draw gathers the key of its pipeline (`Key`), picks one of four descriptors (`Creatable`, `NativeDescriptor`),
rewrites the outputs of a shader for a LUMINANCE target (`Outputs`) and records
raster state if the device can (`RasterState`). `Clear` and `EmbeddingClear` are
the two routines that clear; the second saves, overwrites and restores the
state of the page. The properties are stated over what the device does with
the recorded command: `DeviceDepth`, `DeviceStencil` and `DeviceRaster` say
what an absent part means there.

### Texels and Textures

A level is its size, the texel at its origin and the texel of all other places:
enough to tell an update of a part from one of the whole, and a reduced level from
its base. The source of a copy is a format, a size, a place and a texel: a copy is refused for a place before the
origin or a box that leaves the source. `Texels` says which storage a request selects, its bytes, and what an
upload, a definition without data, a copy, a compressed block or a reduction
leaves of a texel in each format. In `Textures` one action is one entry point,
validation in the order of the code (`SubImageError` and its kin give the first
error). A cube map has six faces with shadows of their own, and each call on a face
swaps the face into a 2D texture and back; the model has two faces, since the
code treats all alike. `RealizedImage` is `texture_realize_image` and its cube
counterpart; `Sample` is what a draw does with a unit, `RenderTo` what drawing
into an attached level does to a texture. The device may fail to make the
image or the sampler.

### Framebuffers

Framebuffer objects with their color slots, depth and stencil attachments,
renderbuffers, bindings and draw buffers, on top of `Textures`.
`Status` is `ringl_check_framebuffer_status`, with the description of an
attachment it uses (`ColorDescription`) and `PlaneSize`; `TargetFormat` and `PlaneFormat` are the
descriptions that draws use, `DeclaredFormat` what the image is made with; that they are three sets of
tables in the code is kept. A draw, a clear or a read resolves its targets (`Resolved`),
realizes their images up to the first that cannot be had (any may fail) and submits, and `command` is
what it hands to the device. `ReadPixels` has the clipped box, the pitch of the
caller's rows, which bytes are written, and which part of the image they are read from (`ReadPlace`: the attached level of the first face,
since the layer of the target is never handed on). `QueriedAttachment`, `AttachedBits`,
`AttachedComponentType`, `ComponentType` and `FormatForRead` are the queries.

## 3. What the runs check

All runs are exhaustive for their instance and check deadlock; where calls are
bounded, calls that change nothing or selecting a texture unit remain possible.

| Run | Question | Instance, and why it is enough |
|---|---|---|
| `cpu_budget` | Do threads that race for the shared counter keep it exact and storage within it, and does every call end? | 2 contexts, 1 block, 1 store, sizes 1 to 3, under `FairSpec`. The shared limit (6) has room for one full context (record 2, storage 3) and not for a second record: allocations and creations are refused in the other one. The bytes of deleted cube maps and of contexts that left some behind
fill the limit for good. The cache (2) is smaller than the largest block (3), so all branches of a free occur, and a cached block of 2 serves a request of 1. The proofs lift the safety part to all instances. |
| `objects` | Do failing updates leak, share, mischarge or half-write storage? Does any reference outlive its buffer, and does the working copy hide a change? | 2 slots beside array 0: two objects of any kind, so an array that is not current can hold the buffer that is deleted. The generation wraps at once and every name comes back. 3 RinGPU buffers: what two objects and one replacement need. Bytes 0 and 1, up to 2 of them, and a shadow limit of 3, so one update of two does not fit. One attribute. An update may fail at every step, by every exit. The view leaves out the last error, which no step reads. |
| `rendering` | Are tracked states and kept bind groups right after all failures? | 2 textures, 1 framebuffer object and the surface: sampling one while rendering to the other, and the same one for both. Textures are symmetric. |
| `rendering_sampled` | A statement of the documentation that the code does not keep (see below). | The same instance. |
| `programs` | Does each module have one owner, does no pipeline outlive its modules, and do deleted objects live exactly as long as something names them? Is the interface of a program what its shaders declare, and do setters reach it as a whole? | Three scenes. `modules`: 1 program over 1 shader per stage, sources with and without the uniform, 4 handles: one for each possible owner, all given out again and again. `shared`: 2 programs that share 1 vertex and 2 fragment shaders, 2 handles, no uniform: a relink from one fragment shader to the other may let a deleted one go. There nothing is drawn, and shaders are lowered together with their module; the first scene has the rest. `interface`: 11 pairs of shaders with uniforms (arrays of one length, of two, a scalar and an array of one name, types that clash, tables that are full, collections where the two orders differ), 5 with varyings, 3 vertex shaders with attributes, linked one after the other; tables of 3 and 2 entries, 2 attribute locations and 3 names to bind, so the bindings run out; setters with no, one and two values at every location. |
| `vertex_fetch` | Does a draw ever fetch outside of a buffer, and is one refused exactly for the reasons there are? | One attribute, 2 arrays, 1 buffer of 0, 4 or 6 bytes, words of 3 and 4 bits so that products exceed them, a stride and an offset at the edges, ranges by vertex and by instance, 2 cache entries, a generation that wraps after 2. |
| `submission` | Do waits cover what was submitted and end, and are handles owned, failures and losses told, whatever fails? Is the trace the numbered log, and does a reader always know when it missed an event? | Two parts that share no state; a behaviour is of one. `calls`: 2 handles, under `FairSpec`: a creation only fails while the list or the fence is missing, so no more are live at once; each is given out again as the other kind. Last value 2, so values are used up, also by calls that fail. A call starts while less than 2 lists are queued (`MaxQueue`), so a wait has a list before it. 2 generations. `trace`: 2 readers, ring of 3, last number 7: the ring wraps twice and then the numbers end. Arrays of 0, 2 and 4: no room, part of what is there, more than the ring. 2 types. |
| `drawing` | Is what a draw or a clear tells the device what the state says, whatever the target and the device? Is the ring of pipelines a FIFO, and is every pipeline in exactly one entry? | A behaviour sets the state of one of four groups (raster; depth; tests; colors) by at most 3 calls (`Calls`), with values at every clamp and branch, then draws or clears. 6 surfaces, 4 kinds of framebuffer object (LUMINANCE, LUMINANCE_ALPHA, ALPHA, write mask off; every combination of planes), 4 devices from no optional callback to all, 2 shaders. Targets of 2 by 2 pixels, boxes beyond each edge. Groups touch different fields; what they share (target, device) is varied in each. A fifth group, `cache`, draws nothing: capacity 1, then 2, then 3, so both branches of the size rule (doubling and the cut at the bound), growth at each position of the victim, 4 keys and handles. |
| `drawing_depth_range` | A statement of the documentation that the code does not keep. | The same instance. |
| `textures` | Do images, samplers, levels, faces, texels and bytes stay what the calls said, and does what is drawn to, read and reported follow from the attachments? | 9 scenes. Textures: `levels` (a 2D chain), `cube` (faces), `convert` (every request, source and compressed format, at its extreme values), `names` (2 names, 2 units). Framebuffers: `slots` (2 color slots, textures, cube faces, renderbuffers), `planes` (depth and stencil), `reads` (boxes over every edge, types, row alignments), `faces` (faces and levels of a cube map, attached and read), `objects` (2 framebuffers, 2 renderbuffers, all bindings). 6 calls (`Calls`), fewer where a scene starts from a filled state; size up to 4, so chains of 3. A budget of 100 bytes is exhausted. The device has all optional callbacks or lacks those for levels and targets. |
| `textures_cube_shadow`, `textures_cube_read` | Statements of the documentation and of a header that the code does not keep. | The same instance. |

The properties:

* `Accounting`: both counters equal what they count, in each
  state between two steps of any threads. What they count includes the faces of deleted cube maps
  (`stranded`, `leaked`): those bytes are never given back, and nothing else is kept. The clamps of the release path would
  hide a drift; there is none to hide. `StorageWithinBudget`: memory is charged
  before it exists and freed before its charge is.
* `StorageConsistent`, `FailedCallsChangeNothing`: a buffer update is all or nothing, for
  handles, contents and charge, whichever of its steps fails. `ReferencesLive`: detaching finds every reference before the
  name is free again. `ArraysKeepTheirState`: the refinement of `VertexArrays`.
* `BeliefsTrue`: belief is fact, but for an image whose readback was submitted
  and not confirmed (`ImagesTracked`), no attached texture keeps an image for sampling only, and a
  bind group that would be used again matches the binding and an existing image (`GroupCurrent`).
  `DrawsInState`: a draw that reaches
  the queue finds its target, and what it prepared, in the right state.
* `ModulesOwned`, `CacheMatchesModules`, `ShadersKept`: no leak, no double
  owner, no stale pipeline under a reused handle, no deleted object too short or too long.
  `InterfaceAsDeclared`: names, locations, setters and active uniforms agree about every uniform,
  attributes are where they were bound, places do not overlap, and a link is refused for a
  reason only. `UpdatesWhole`: a setter writes elements of one uniform, in all stages or
  none, and the next draw is told.
* `PipelinesOwned`, `ImplementsFifo`: no leak at eviction, growth and
  destruction; the refinement of `FifoCache`.
* `CacheFresh`: a range in the cache would be validated again with the same
  layout. `DrawsInside`: all elements of all vertices and instances lie in their
  buffer, computed without overflow, although the code looks only at the last
  one. `RefusesExactly`: a draw that is validated is refused if and only if its program did not link, a
  vertex has no 32-bit number, or an attribute it reads has no source, too few components, an address or a stride the
  device cannot be told, or an element outside of its buffer.
* `NoSilentGap`: a reader that is
  given an event has been given the one before it, or was told. `ImplementsLog`: the
  refinement of `EventLog`: a number leads to its event, although slots are
  remainders.
* `HandlesOwned`: nothing the device gave out is lost, also if
  it came with an error. `WaitCovers`: a wait that ends well was for the last submission, and not
  for a late signal of an earlier one. `CallsReturn`: no wait for a value that was
  never submitted. `FailuresVisible`: an error may only be replaced by the loss.
  `LossFinal`: a call that a callback tells of the loss does nothing but destroy from then on, and no later call reaches the device. A
  draw, a clear or a read that loses the device by destroying something may go on; the property says for how long.
* `DrawsAsStated`, `RegionsExact`, `ClearsAsStated`: what the device does with a
  command is what the state says, per logical channel, plane and pixel. `DrawsAsStated` has the blend constants whenever one
  factor is a constant, and, where the device has a raster callback, depth range, offset, line width and coverage.
  `ClearsAsStated` is about what a clear command has: a plane that is missing from it is not noticed.
  `ReportsTrue`: planes and bits that queries report are the ones commands
  use, and what a query reports the setter takes back without an error and without a change, for every field
  of the state that is reported; restoring the viewport alone pins it. `FullDeviceDraws`: a device
  with every callback refuses only what no pipeline can say. `ChangesMarked`: a call that
  changes the key of the next draw or its raster state says so in the dirty bits.
* `ObjectsCurrent`: rebuilding an image or a sampler now would give the one there is.
  `ShadowsConsistent`: chains are whole, faces agree, generated levels
  are those of the present base, the charge covers the bytes (it may be more: finding 2). `TexelsImplied`: each stored texel has
  the implied components of its format, however it came there. `SamplesWhole`: no
  sample reads a level that was never stored or another one's. It speaks of samplers that meet a
  texture of their kind: a cube sampler that is handed the 2D image of its unit
  (see the remark on textures) reads something else altogether.
* `TargetsMatch`, `AttachmentsSound`: what is handed to the device is what is
  attached, a framebuffer that is called complete can be drawn to, and the queries about one
  attachment tell one story. `ReadExact`: a read
  writes each place of the clipped box where it belongs, and nothing else, and reads the attached level (of the first
  face: finding 4).
  `ChangesMarked` (of `Framebuffers`): a dropped image of a flat texture or a changed attachment is marked. Calls on faces of
  cube maps do not keep it (see the remark on cube maps).

The type invariants (`TypeOK`, `TraceTypeOK`) of `CpuBudget`, `PipelineCache`, `TraceRing`,
`Submission` and `VertexFetch` are proved and not checked by a run; those of `Objects`,
`Rendering` and `Programs` are conjuncts of `StorageConsistent`, `BeliefsTrue` and
`ShadersKept`, which are both.

**Fairness.** Two runs need it. In `cpu_budget`, `WF_vars(Progress(c))` says that a
thread inside a call keeps being scheduled: the code between two accesses to the
lock does not wait for anything. `SF_vars(GlobalLock(c))` says that a thread that spins
gets the lock if it is free again and again: the test-and-set loop gives no order, so
this is an assumption about the machine, and the weakest under which a spinning
thread gets on. In `submission`, `WF_vars(Advance)` says that a call goes on
(callbacks return), and `WF_vars(Execute)` that the device works off its queue: the wait has no limit
of its own, so without it `glFinish` need not return. That a wait fails
(`WaitFails`) is possible and not assumed. Nothing is assumed of the application: it need not call.

**Findings.** Four runs show that the code does not do what its documentation or its headers
say; `PROJECT.json` quotes them.

1. `SampledReadable`: a draw that keeps its bind group neither compares the
   sampled texture with the render target nor records a transition for it. So
   after a change of the framebuffer alone a draw may sample what it renders to, and after a
   clear or a readback of a framebuffer with that texture it samples the texture in the wrong state.
2. `ChargeReturned`: deleting a cube map, or the context, gives back the storage of the
   texture object, which holds nothing; the bytes of the faces stay charged and allocated.
3. `DepthRangePassed`: on a device without a raster callback a draw that tests depth is made with
   the device's depth range and not with the one that was set.
4. `ReadsAttached`: a read (or a copy) from an attached face of a cube map gives the texels of the first face: the layer of the
   target is known and not handed to the device, neither for the transition nor for the readback.

**Remarks.** Other places where the code differs from what one reads or would
expect. The models do what the code does; no run is about them.

* *Uniforms* (`program.c:1840`): which stages a uniform update rebuilds is read from the
  shader objects as they are compiled now. After one of them got another source, the linked
  stage keeps its old value, where `README.md:858` says that changing a uniform replaces it.
* *Names of uniforms*: a name that is a scalar in one stage and an array in the other one, of
  the same or another type, is two uniforms and links, where `README.md:592` has declarations of one name
  agree. A vec2, vec3 or matrix that both stages declare is refused when its table is full,
  since room is looked for before the name. Arrays of one name and two lengths
  may get other entries between their elements, which a setter for all of them then refuses.
* *Command list* (`sync.c:86`): which capabilities the shared command list has depends on the
  call that made it. When that was `glFinish` or `glReadPixels`, `ringl_present`
  later records into a list without PRESENT, against
  `docs/implementation-status-sampler-cube-bounded-v1.md:24-26`.
* *Trace*: a loss found by a callback of the fence extension (`SyncCall`) leaves a loss record but no call
  record, where `docs/ringl-tracing-v1.md` (line 27) says both.
* *Raster state* (`draw.c:552`): as the depth range of finding 3, a
  polygon offset, a line width and a sample coverage are dropped from the draw, while a scissor or a
  viewport refuses it.
* *Loss* (`ringpu_backend.c:746`): a draw or a clear that finds the loss by destroying something goes on calling
  the device. The loss is told all the same.
* *Draws*: a color mask of nothing with the depth test on and no depth plane is
  `INVALID_OPERATION`, and so is culling both faces while a test is on; with tests off it drops points
  and lines too. An RGB565 default framebuffer reports no alpha and keeps alpha in its write mask.
  A surface with only the flag EXPLICIT_ALPHA and a depth target has no depth. The boolean query
  refuses SCISSOR_TEST, which `isEnabled` takes. Blend constants go unclamped to RGBA16F targets,
  where `README.md:1087` names RGBA32F alone.
* *Cube maps*: a call on a face drops the image before it validates, and a call that fails or updates
  nothing does not mark the bindings. A copy from a face to another one of the same cube reads the CPU shadow. A cube map
  cannot be resized face by face; its level 0 is refused for being oblong before its bound is looked at.
  A second face in sRGB S3TC is refused; `docs/gles2-api-status.md:99` calls ETC1 and S3TC 2D only, and
  the code takes them for faces. `CopyTexImage2D` to a level above 0 of a face compares the size of the
  level with that of the base.
* *Textures*: what is rendered is never copied back to the shadow, so a later `TexSubImage` of a level that was
  drawn to shows the old contents elsewhere. A unit with a 2D and a cube texture
  realizes the 2D one for either sampler (`texture.c:1995`). Compressed uploads are subject to UNPACK_ALIGNMENT,
  where `README.md:360` says they are not. An internal format that is packed is accepted with
  UNSIGNED_BYTE.
* *Framebuffers*: a renderbuffer in a color slot keeps the array layer of the face that was there, and the check for
  duplicates misses it. `depth_attachment_has_stencil` outlives the stencil attachment, so a
  plain depth renderbuffer is then called incomplete. A complete framebuffer is refused by draws whose draw buffers
  select an empty slot or COLOR1 alone, or two different faces, or
  a level or a face the device has no callback for. A draw to an incomplete one whose first slot is empty
  and that tests nothing is silent. A renderbuffer without storage has a format and no size
  in one query and is an error in another. A cube map of a depth format may be attached as a plane and is counted
  complete (`framebuffer.c:757`), but draws and clears find no image of it (`texture.c:4709`) and are all refused. RGB16F renderbuffers have a format in the tables of draws and are UNSUPPORTED
  by the status.

## 4. What is proved

TLAPS checks the following for all values of the constants that satisfy the
named assumptions, and TLC evaluates those assumptions on every run.

**`TotalsTheorems`**: what a sum does when one entry changes, that it is a
natural number, that it is monotone. Everything about `Total` that the other
proofs cite, derived from the recursive function without induction over an
operator: what holds up to `n` is a set of numbers (`UpTo`), and the induction is over that set.
In the same way, a function that is defined by a step from each value to the next exists
(`IterationExists`) and is the only one (`IterationUnique`), with each step given as a function
on a set and not as an operator (`StepsOf`).

**`CpuBudgetProofs`** (any number of contexts, blocks and stores, any limits):
`Accounting` (`GlobalAccounting` and `LocalAccounting`), `ContextLimits`, `StorageWithinBudget`,
`RejectsOnlyWhenTrimmed` and the type invariant. The accounts are not inductive
by themselves. The invariant adds mutual exclusion (a thread is between lock and
unlock exactly when it owns the lock, and what it read is still true), where an
operation may be for each place of `pc`, and what the sizes in `op` and `amount` are for each
phase. From these the limits follow. A step changes the sum of
all contexts only at the context that takes it, so each action comes down to one
lemma about that context and one about the sum. The sum of the stores moves to `stranded`, and `stranded` to
`leaked`, without a change of the counter.

The second half is about `Textures` (any number of textures and units, any sizes, levels and
budget): `ObjectsCurrent`, `ShadowsConsistent`, `SamplesWhole` and `TexelsImplied`. The invariant has, for each
texture, that its image and sampler are those that would be built now (`Current`), that every
face is well formed (`FaceGood`: sizes halve from the base, a generated level is what reducing
the present base gives, what is stored was defined), that the faces agree, that a 2D
texture has its levels on the first face only, and that a name that is not live
holds nothing (`EmptyUntilLive`); further that units name live textures of
their kind, and that the charge covers all shadows. There is a lemma for each way a call changes a face,
from a new base to a copied part, and one for each call. The hard parts are a new
base on one face, which must be refused or agree with the other faces while levels of its own
may still be stored, and the charge, a sum over textures, faces and levels of which a step changes one summand.
`TexelsImplied` rests on it, with two facts more about each face: that its format is one a request
can select (`FormatSound`), and that every stored texel fits that format (`TexelsFit`). There
is a lemma for each conversion of `Texels`, and for the generated chain one that every level of
`Reductions` fits when the base does, by the least level that would not.

**`FramebuffersProofs`** (any number of framebuffers, renderbuffers and color
slots, boxes anywhere, any answers of the device): `TargetsMatch`, `ReadExact`, `ChangesMarked` and
`AttachmentsSound`. The invariant is that of `Textures` with `TexelsFit`, and two things more.
`TargetsGood`: what is attached is live (a texture in a color slot is also a
color target), draw buffers were chosen with their extension, and a renderbuffer has the image of its
present storage or none. A call on textures keeps it because live textures stay live and stay color
targets (`LiveKept`), a deletion because it detaches first. `CommandGood`: what was submitted last fits the attachments. For a
draw, `Follows` says what making images one after another leaves of the objects, and `Sound` what a
target that was found is; with completeness, which compares other tables, one size
and one format follow (`CommonDescription`). A step that keeps the storage of what is
attached (`StorageKept`) keeps the status and all descriptions, and each call that does not
marks the framebuffer: this is `ChangesMarked`. The reads come down to arithmetic about one coordinate of a
clipped box and about rows that do not overlap. For `AttachmentsSound`, every target of a
framebuffer that is complete has storage and so an image that can be had, and each
of the callbacks that a pass needs is there; the queries agree by cases over the formats a request can select.

**`PipelineCacheProofs`** (any capacities, keys and handles): the type
invariant, `PipelinesOwned` and the refinement `ImplementsFifo`. The
hard part is arithmetic modulo the capacity: after growth by rotation, position
*i* of the queue is what it was before; after an eviction, position *i* is what
was at *i* + 1, although the pointer wrapped.

The second half is about `Drawing` (any surfaces, devices, shaders, targets, boxes
and sizes): `RegionsExact`, `ClearsAsStated`, `DrawsAsStated`, `FullDeviceDraws`, `ChangesMarked`
and `ReportsHold`. The latter is `ReportsTrue` but for one word: the run's property says that a
setter *can* take back what its query reports, with ENABLED; the theorem says that every step of such a
setter with that value records no error and changes nothing (`ReportedTakenBack`). It needs
`Restorable`: the ranges the setters leave their fields in, which depend on the extensions
that were opened since, and that a value that was clamped is not changed by clamping it. The inductive invariant says that each field of
the state is in the range its setter leaves it in (`Fits`), that the target is one of those given, and that a command was recorded for the present state. The
properties then follow from the state by cases. The assumptions on surfaces, targets and
devices are those the embedding guarantees, and TLC evaluates them on the run's instance. In
proving this, `CASE` expressions whose arms overlapped (with equal values) were found and made disjoint.

**`VertexFetchProofs`** (any words, sizes, strides, attributes and ranges):
`CacheFresh`, `DrawsInside` and `RefusesExactly`. For the first, the invariant says that entries of the present
generation were written since the last change and that no entry is of a later
generation than the present one; a wrap forgets them all. For the second, the
check of the last element without overflow implies the bound for each earlier
one, by multiplication with a common stride. Conversely, when all elements lie inside, so does
the last one, and then no step of the check overflows; with the refusals of the layout, of strides, of pointers and
of indices this makes both directions of `RefusesExactly`.

**`ObjectsProofs`** (any slots, generations, attributes, sizes and limits):
`ReferencesLive`, `StorageConsistent`, `FailedCallsChangeNothing` and the refinement
`ArraysKeepTheirState` of `VertexArrays`. The invariant says that the working copy, array 0
and every saved state name only buffers that may be named (`Live`), that a slot of another
type holds no saved state, that each device handle belongs to one buffer, and that the
charge is the sum over the slots. For the updates it says what the call holds at each step: the
reservation is charged on top of the slots, the new handle belongs to no slot, and the slots are those
the call began with (`update.before`); so each failing exit, which gives back what its step holds,
leads back there. A deletion is the hard case: the name leaves the table only
after it left every state, also those of arrays that are not current. For the refinement, switching arrays
changes no array's content, since saving and loading are inverse to each other.

**`ProgramsProofs`** (any shaders, programs, sources, values and handles):
`ShadersKept`, `ModulesOwned` and `CacheMatchesModules`. No one of them is inductive alone. A
pipeline stays right because its modules exist or it is purged when they go; modules go
when their owner does; owners go when nothing names them. So the invariant has all three, that
an object is named as the stage it is (no shader is both stages of a program), that
free slots name nothing, and that what is compiled has a source. One lemma (`Exchange`) says what
destroying some modules and making others does to handles and cache, and an update that fails leaves
none behind (`SetUniformFailsKeepsInv`), another
(`HandedOver`) what it does to ownership; each action comes down to them.

The second half is about `Interfaces` (any shaders that may be offered, any sizes of the
tables, any bindings and values): `InterfaceAsDeclared` and `UpdatesWhole`. The invariant says that
names of entries are apart within a table and between tables (`NamesApart`), that modules have the
present values (`ValuesReach`), that a linked program has the tables its link collected, up
to values (`LinkedAs`), and places that do not overlap (`Placements`), and what the last link may have
answered (`LinkReported`). Setters keep it because they change values alone (`SameShape`); one that fails has written and rolled back
(`RolledBackAll`). Four
arguments carry the links and the locations:

* *Collecting.* At each of its three levels the collection is an iteration, and what it keeps is
  that every declaration is in its table or has not been looked at (`CollectedKept`). So a collection that
  ends well has every declaration, and an array that no other declaration has part of lies in one
  piece, in order.
* *Compatible links pass* (`CompatibleLinks`). With names that mean one thing, an entry can only be
  refused for want of room, and its table holds names of that type alone, which by assumption are fewer
  than fit. The varyings that a fragment shader takes are some of those that the vertex
  shader gives, so their widths sum to no more (`NarrowerList`, along an injection).
* *Attributes.* The locations that are free, counted in order, are taken by the attributes
  without a binding, counted in order; there are at least as many of them, since each binding takes
  one at most (`AssignedFacts`). So the choice always exists, and no two attributes choose the same.
* *Locations.* A type begins after all entries of the types before it, so types have disjoint runs of
  numbers (`LocationsApart`), hence each location belongs to one entry (`LocationAt`), and the entry a setter
  finds is the one whose location `getUniformLocation` gave (`EntryFound`). That reflection joins exactly the
  elements of an array (`ActiveAt`) is a count over one run of its table.

**`SubmissionProofs`** (any handles, last value, queue bound and generations):
all safety properties of `submission`. The invariant has three parts.
`Owned`: each handle has one place, and which places may be filled at each
`pc`. `Fences`: values in the queue grow, none is above the last one taken, and
where a call is between taking a value and waiting for it, the value is not yet
used, or is the last in the queue, or is signalled with nothing behind it. `Told`: a
context that is lost is idle, ending, or on its way out of a call. A step that makes a
callback either keeps the errors or loses the device (`KeptOrLoses`), which
settles most actions.

The second part is about `Rendering` (any textures and framebuffers): `BeliefsTrue` and `DrawsInState`. What makes `BeliefsTrue` inductive is that
attached textures were made renderable, and that a renderable texture has no image of
another usage (`RenderableImages`): a transition a list states has an image that can take it.
A step that submits moves exactly the images whose tracked state differs (`Moved`), on
the device and in the belief alike.

The third part is about `TraceRing` (any size of the ring, last number, readers and arrays):
the type invariant, `KeptInPlace`, `CountersAgree`, `NoSilentGap` and the
refinement `ImplementsLog`. The lemma everything rests on is about remainders: numbers
less than the size of the ring apart have different slots, so an event that
is recorded overwrites the one that leaves the window and no other. The
invariant adds that no cursor and no `last` is ahead of the writer, and that a reader without
an excuse stands right after what it was given.

These are proved and not repeated by a run: `ContextLimits` and
`RejectsOnlyWhenTrimmed` of `CpuBudget`, `KeptInPlace` and `CountersAgree` of
`TraceRing`, `WaitAnswerable`, `SignalsGrow` and `LossOnce` of `Submission`, `ReportedTakenBack` of
`Drawing`, the type invariants named above, and the inductive invariant of each proof.

**Only model-checked**:

* `CallsReturn` (of `CpuBudget` and of `Submission`): liveness under fairness is beyond this prover.
* That the setters of `ReportedAccepted`, the second half of `ReportsTrue` of `Drawing`, are ENABLED, which it
  does not have either. `ReportsHold` is the rest.

No induction over an operator is used, nor a RECURSIVE one: recursive definitions are functions, and
what is proved of them is proved over sets of numbers as described for `TotalsTheorems`.

## 5. What is not modelled, and the plan

Not modelled on purpose: the GLSL front end and its lowering (a compiler: its
state is a text, and no small instance says anything about it; `Programs` uses
that it succeeds or fails, `Drawing` which channels a shader stores), the backend (forwards calls) and the software
surface (copies pixels). Of modelled components: limits and strings among the queries, the layout of
unpacked rows, the queries of texture parameters, usage hints of buffers.
Assumed away: embeddings whose device has no shader-module callback.

Modelled apart and not composed: `Drawing` takes its targets as given and `Framebuffers`
takes what a draw does besides as given, since together they have more states than TLC can
visit; both map the same lines of `draw.c` where they meet.

Next, in this order:

1. `DrawCalls`: which checks precede which, index streams and their ranges, the
   emulated primitives and what they allocate; `VertexFetch` composed with `Objects`.
2. Copies between buffers; `Interfaces` composed with `Programs`, for sources that change after a link.
