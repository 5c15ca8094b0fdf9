# TLA+ models of the fluent-bit output flush path and msgpack helpers

This directory holds TLA+ specifications of the code in `src/`, the TLC
configurations that check them, and `PROJECT.json`, which records for every
definition the source lines it models, for every run what it checks, and the
hazards of the code with the properties that watch them.

Run a check with `tlc -workers 2 -config <file>.cfg <MC module>`; the pairs
are listed under "Runs" below.

## 1. The system

The source is three files of fluent-bit:

| File | What it holds |
|---|---|
| `src/include/fluent-bit/flb_output.h` | the output plugin and instance structs, and, as inline functions, the whole life of a *flush coroutine*: creation, parameter passing, the return of a flush, its destruction |
| `src/src/flb_mp.c` | msgpack helpers: counting objects, patching a map or array header in place, a header cursor for containers of unknown size, and the accessor that removes keys from a record |
| `src/plugins/out_azure_blob/azure_blob_blockblob.h` | four declarations |

`spec.md` names six components. What each has, and what is hard about it:

| Component | State | Operations | Hard behaviour |
|---|---|---|---|
| C1 record container builder (`flb_mp.c` 33-207) | the bytes of an sbuffer; per cursor an offset and an entry count | `flb_mp_count`, `flb_mp_set_map/array_header_size`, `flb_mp_map/array_header_init/append/end` | nested cursors on one buffer finalised in any order; counts that do not fit the header form that is there |
| C2 accessor (`flb_mp.c` 214-448) | the pattern list and a match table that lives as long as the context; the table holds *pointers* into the record | `flb_mp_accessor_create`, `flb_mp_accessor_keys_remove`, `flb_mp_accessor_destroy` | the table is reused from record to record; matches are found again by pointer equality; several patterns under one key |
| C3 instance registry (`flb_output.h`, declarations) | instance list, mask ids, properties | `flb_output_new`, `flb_output_set_property`, `flb_output_init_all`, ... | bodies not in the source |
| C4 flush coroutine (`flb_output.h` 323-539) | `struct flb_output_coro`, its two list links, `task->users`, the thread-local parameter slot | `flb_output_thread`, `output_params_set`, `output_pre_cb_flush`, `flb_output_coro_get`, `flb_output_coro_destroy_id`, `cb_output_coro_destroy` | one slot for all creations; two ways of ending a coroutine that both count `users` down |
| C5 dispatcher and completion bus (`flb_output.h` 549-617, 657) | the event channel of each instance, the routes and retries of each task | `flb_output_return`, `flb_output_return_do`, `flb_output_task_flush`, the engine's handling of a word | words name coroutines by id; a pipe write can fail; an instance can go away mid-flight; no-multiplex instances |
| C6 metrics (`flb_output.h` 580-599) | ok records, ok bytes, errors per instance | the three `flb_metrics_sum` calls | who updates them, and how often for a retried route |

The components interact in one direction each: C5 creates the coroutines of
C4 and ends them; a returning flush (C4) writes to the channel and to the
metrics (C5, C6); C2 rebuilds records with the cursor of C1.

## 2. Modules

| Module | Models | Kind |
|---|---|---|
| `OutputFlush` | C4, C5, C6 as one state machine | actions |
| `TaskAccounting` | what the flush path promises about a task (`spec.md` sections 3, 4.5 and 8) | abstract specification, implemented by `OutputFlush` |
| `MpHeader` | C1 as operators on byte sequences, with an encoder and a decoder of the msgpack subset used | operators |
| `MpBuilder` | a caller of the cursor: nested containers on one buffer | actions over `MpHeader` |
| `MpPatch` | direct calls of the header patch on headers of every form | actions over `MpHeader` |
| `MpAccessor` | C2, one context used for a series of records | actions over `MpHeader` |
| `MCOutputFlush`, `MCMpBuilder`, `MCMpPatch`, `MCMpAccessor` | values of the constants for TLC | |

### OutputFlush

State and code:

| Variable | Code |
|---|---|
| `th_queue[i]`, `ch_events[i]`, `metrics[i]`, `up[i]` | `flb_output_instance.th_queue`, `.ch_events`, `.metrics`; membership in `config->outputs` |
| `users[t]`, `coros[t]`, `next_id[t]`, `routes[t]`, `retries[t][i]`, `live[t]` | `flb_task.users`, `.coros`, the id counter of `flb_task_add_coro`, the routes still to flush, the scheduler's retry count |
| `coro[h]` | the `flb_output_coro` at address `h` with the place its callee is suspended at (`pc`), the locals `output_pre_cb_flush` copied (`args`), what `cb_flush` was called with (`flush`) and, on a worker between the write of the word and the metrics, the disposition still to be counted (`ret`) |
| `params` | `flb_libco_params`, the thread-local slot of the engine thread; NULL until `output_params_set` allocates it |
| `running` | the process runs; FALSE once the entry function of a coroutine has returned, after which no action is enabled |
| `created`, `routed`, `lost` | history variables used by the bound and by the properties |

Actions and code:

| Action | Code |
|---|---|
| `flb_task_create` | the engine makes a task (from `spec.md`) |
| `flb_output_task_flush` | the dispatcher (from `spec.md`): it calls `flb_output_thread`; when that returns NULL nothing changes and the route is tried again; else `flb_task_add_coro` and, on the engine thread, the resume |
| `flb_coro_resume` | a worker resumes a coroutine of a threaded instance: the second half of `output_pre_cb_flush`, or all of it for a coroutine left at its entry |
| `flb_output_return_do` | `FLB_OUTPUT_RETURN(ret)`, three alternatives: on the engine thread all of `flb_output_return` (word, pipe write that may fail, metrics) and the final yield; on a worker `flb_output_return` up to `flb_pipe_w`; on a worker the rest of `flb_output_return`, the metrics of lines 580 to 599 |
| `flb_coro_yield` | the final yield of a flush that runs on a worker |
| `handle_output_event` | the engine reads a word and calls `flb_output_coro_destroy_id`; on -1 it does no more, else it retries or retires the task (from `spec.md`) |
| `flb_output_instance_destroy` | every coroutine of the instance ends through `cb_output_coro_destroy`; the channel is closed |
| `flb_task_watchdog` | the scheduler retires a task that no coroutine uses and that has nothing left to flush |

Operators that are whole functions of the header:

| Operator | Code |
|---|---|
| `flb_output_thread(t, i, co, mem)` | lines 479 to 539: NULL when `flb_coro_new` returned NULL (`co = NULL`); else the new `flb_output_coro` (id 0, task, instance), `th_queue` with the coroutine appended (line 526) and the slot as `output_params_set` leaves it (line 529) |
| `flb_output_coro_destroy_id(id, t)` | lines 351 to 369: `ret = -1` when `flb_output_coro_get` finds no coroutine of that id; else both lists without the coroutine (lines 361, 362), its address free again (line 365) and `users` one less (line 366) |
| `flb_metrics_sum(m, i, ret)` | lines 580 to 599: nothing for an instance without a metrics handle (line 581, the constant `Metered`), else records and bytes, one error, or nothing |

The completion word is a record of its three fields, each reduced to its
width (2, 15, 15 bits); the widths are those of `spec.md` section 6, the
macro `FLB_TASK_SET` being used but not defined in the source.

Two facts the header relies on and does not hold are assumptions of the
model:

- `FLB_CORO_DATA(coro)` is not NULL. Lines 499 to 503 return NULL for that
  case without freeing the coroutine; the macro is not in the source, and
  the data it yields is part of what `flb_coro_new` allocated.
- `flb_coro_destroy` frees the coroutine and does not run the destroy
  callback it was created with. `flb_output_coro_destroy_id` unlinks and
  counts `users` down itself (lines 361 to 366); if `flb_coro_destroy` ran
  `cb_output_coro_destroy` as well, which `spec.md` section 4.4 suggests of
  teardown, every completion would unlink the same nodes twice and count
  `users` down twice. `UsersCountCoros` and `TaskOutlivesCoros` are what
  fails in that case (the mutant `flb_output_coro_destroy_id_twice`).

A coroutine is at one of six places (`pc`): `entry` (its callee was never
switched to, because `output_params_set` returned early), `created`
(suspended at `co_switch(th->caller)`, its arguments copied), `flushing` (inside
`cb_flush`), `written` (the word is in the channel, the metrics of lines 580
to 599 are still to be credited), `signalled` (the yield of line 612 is
still to come) and `returned`. On the engine thread nothing else runs
between the pipe write and the yield, so `flb_output_return_do` goes from
`flushing` to `returned` in one step. A flush of an instance with workers
runs on another thread than the engine's event loop, and every access of
the worker to what the engine shares with it is a step of its own: the
write of the word (`flushing` to `written`), the update of the metrics,
which reads the task through the coroutine (`written` to `signalled`), and
the yield. The engine may read the word, destroy the coroutine and retire
or re-arm the task after the first of them. A coroutine the engine has
destroyed takes no further step in the model; what its worker then reads
is freed memory, and `DestroyedAfterYield` marks the step that leads there.

The slot is allocated by the first `output_params_set` of a thread. With
`NoMemory` that `flb_malloc` may fail: the function returns without a slot
and without the switch to the callee, and `flb_output_thread`, which cannot
see this (the function returns `void`), returns the coroutine. Resumed, such
a coroutine runs `output_pre_cb_flush` from the top on the resuming thread,
whose slot is NULL (the engine's was left so; a worker's is set by nothing
in the covered code), and returns from its entry function. libco ends the
process there, which the model records in `running`.

### TaskAccounting and the refinement

`TaskAccounting` has no coroutines, lists, channels or words. A task is
`alive` or not, is `owed` a flush for each of its routes, has flushes
`flying`, and counts them in `holders`. `Spawn` starts a flush, `Complete`
takes its completion in and may put the route back (a retry), `Cancel` tears
an instance down and releases what was flying there, `Expire` is the timer;
the completion or the timer that finds the task held by nobody and owed
nothing retires it.

`OutputFlush` implements it under this mapping:

| `TaskAccounting` | `OutputFlush` |
|---|---|
| `alive` | `live` |
| `usable` | the instances with `up[i]` |
| `owed[t]` | the routes of `t` whose instance is up |
| `flying` | the pairs `<<coro[h].task, coro[h].o_ins>>` of the existing coroutines |
| `holders` | `users` |

Dispatch is `Spawn`, `handle_output_event` is `Complete`,
`flb_output_instance_destroy` is `Cancel`, the watchdog is `Expire`, and
resume, return, the metrics step, yield and a refused creation are stuttering steps. The
mapping makes `flying` a set, so a second coroutine of a task at the same
instance, a coroutine that outlives its task's count, or a count that is
changed by any other step is a step `TaskAccounting` does not have.

### MpHeader, MpBuilder, MpPatch

A buffer is a sequence of bytes and an offset is the code's offset.
`mp_set_header_size` is the body shared by `flb_mp_set_map_header_size` and
`flb_mp_set_array_header_size`, including the casts: `(uint8_t) size` or-ed
into the fix tag, `(uint16_t) size` stored big-endian. The msgpack subset is
positive fixint, one-character fixstr and the three header forms of maps and
arrays; `mp_unpack` is the reader that the properties use to say "a decoder
reads ...", and `flb_mp_count` counts with it.

`MpBuilder` has a stack of cursors. `header_init` opens a container where an
object is due, `header_append` registers an entry, `pack` packs a scalar,
`header_end(k)` finalises *any* open cursor whose entries are complete, not
only the innermost.

`MpPatch` starts from a header packed by msgpack-c for some count, followed
by payload bytes, and patches it with both functions and all counts.

### MpAccessor

Records are objects of `MpHeader`. Because the code compares pointers
(`match->start_key == key`, `match->key == key`), the model gives every
object of an unpacked record an address: the zone it was unpacked into and
its place in the record. Two records unpacked into the same zone have their
objects at the same addresses, which is what an unpacker that reuses its
memory produces; with two zones both outcomes of comparing a pointer of an
earlier record are explored. `flb_ra_get_kv_pair` is not in the source and is
modelled from the design: a pattern is a sequence of key names walking nested
maps, and an object that is not a map matches no pattern. `flb_mp_accessor_keys_remove` is one action with its three exits
(empty map, no rule matched, rebuilt); the rebuild is `keys_remove_pack` and
the recursive `accessor_sub_pack`, which use the cursor operators of
`MpHeader` and produce bytes. The function never looks at `map->type`:
`via_map_size` is what `map->via.map.size` reads for an object of any type,
and the records of the runs include an integer and an array.

## 3. Runs

| Run | Module, config | Result | What it shows |
|---|---|---|---|
| `flush_safety` | `MCOutputFlush`, `OutputFlush_safety.cfg` | pass, about 1,014,000 states | the seven invariants of `OutputFlush` below |
| `flush_live` | `MCOutputFlush`, `OutputFlush_live.cfg` | pass, about 56,000 states | a task routed to two instances is always retired, and its steps are steps of `TaskAccounting` |
| `flush_starve` | `MCOutputFlush`, `OutputFlush_starve.cfg` | pass, 406 states | two tasks on one no-multiplex threaded instance are both retired, and together implement `TaskAccounting` |
| `flush_lostword` | `MCOutputFlush`, `OutputFlush_lostword.cfg` | violation | a failed pipe write leaves the task for ever |
| `flush_nomem` | `MCOutputFlush`, `OutputFlush_nomem.cfg` | violation | a coroutine created while `flb_malloc` fails is resumed and ends the process |
| `flush_yield` | `MCOutputFlush`, `OutputFlush_yield.cfg` | violation | the engine destroys a coroutine whose worker has not yielded yet |
| `builder` | `MCMpBuilder`, `MpBuilder.cfg` | pass, about 14,600 states | finished buffers decode; finalising stores four bytes in place |
| `patch` | `MCMpPatch`, `MpPatch.cfg` | pass | the patch stores the count exactly when the header form has room |
| `accessor_safety` | `MCMpAccessor`, `MpAccessor_safety.cfg` | pass, about 1,750 states | return value, well-formed output, conditional removal correctness |
| `accessor_badrecord` | `MCMpAccessor`, `MpAccessor_badrecord.cfg` | violation | a record that is not a map is answered with `FLB_FALSE`, not with an error |
| `accessor_anchor` | `MCMpAccessor`, `MpAccessor_anchor.cfg` | violation | two patterns under one top-level key: one is applied |
| `accessor_stale` | `MCMpAccessor`, `MpAccessor_stale.cfg` | violation | a stale table entry decides what the next record loses |

Properties of `OutputFlush`:

- `UsersCountCoros`: `task->users` equals the number of coroutines of the task.
- `ListsAgree`: `task->coros` and `th_queue` hold exactly the existing coroutines, each once.
- `TaskOutlivesCoros`: no coroutine refers to a destroyed task.
- `WordNamesItsWriter`: every word in a channel resolves, through `flb_output_coro_get`, to the coroutine that wrote it; no two words resolve to the same one; every coroutine that has called `flb_output_return` and whose write succeeded has its word waiting.
- `FlushGetsOwnParams`: `cb_flush` receives the arguments of its own creation although all creations share one slot.
- `RouteCreditedOnce`: a route is credited at most once, as records and bytes or as an error, however often it is retried.
- `TaskEventuallyRetired` (liveness): every task is destroyed in the end.
- `ImplementsTaskAccounting` (refinement): every step of `OutputFlush` is, under the mapping above, a step of `TaskAccounting` or leaves its variables unchanged.
- `EngineSurvives` (violated): the process keeps running, that is, no coroutine is resumed that was left at its entry.
- `DestroyedAfterYield` (action property, violated): the engine's handling of a word destroys only coroutines that have yielded.

Properties of the msgpack modules:

- `ClosedBufferDecodes`: when all cursors are finalised, the buffer is one object to a reader and `flb_mp_count` is 1.
- `HeaderEndInPlace` (action property): no step shrinks the buffer or changes a byte other than the four count bytes of a cursor's header.
- `PatchStoresCountIffItFits` (action property): after a patch a reader finds a header of the function's type with the count passed exactly when the header was of that type and its form has room for the count.
- `ReturnTellsModified`: for a map, `flb_mp_accessor_keys_remove` returns `FLB_TRUE` exactly when the record without the entries the patterns name (`Prune`, a definition that does not use the code's matching) differs from the record, whatever the table holds of earlier records.
- `BadRecordRefused` (violated): a record that is not a map is answered with neither `FLB_FALSE` nor `FLB_TRUE`.
- `OutputWellFormed`: the output is one well-formed map.
- `RemovalCorrectWhenFresh`: if the table holds no entry of an earlier record and no two matching patterns share their top-level key, the output decodes to the record without exactly the named entries.
- `RemovalCorrect` (violated twice): the same without the two conditions, as `spec.md` section 8 states it.

Every property of a passing run has a mutant in `PROJECT.json`: a definition
of the model changed the way a bug would change the code (a kept counter, a
swapped field, a dropped guard), under which TLC finds the property violated.

### Findings

1. **Lost completion word** (`flb_output.h:575`). A failed `flb_pipe_w` is
   only logged. The coroutine stays linked, `users` stays above zero, and
   nothing in the covered code can retire the task; a no-multiplex instance
   takes no further flush.
2. **Coroutine without parameters** (`flb_output.h:420`). When `flb_malloc`
   fails, `output_params_set` returns early and `flb_output_thread` returns
   the coroutine, already linked in `th_queue`, as if it were ready. Its
   resume returns from `output_pre_cb_flush`, the entry function of a
   coroutine, and the process ends; `spec.md` section 7 says runtime
   failures do not crash the engine.
3. **Destroyed before the yield** (`flb_output.h:612`). On a worker the
   word is written at line 575, the metrics are credited at lines 581 to
   587 with `task->records` and `task->size`, and the coroutine yields at
   line 612. The engine can read the word and free the coroutine and its
   stack, and retire the task, right after the write: the worker then
   credits the metrics from freed memory and yields on a freed stack.
   Neither the header nor `spec.md` orders the read after the yield.
4. **One match per top-level key** (`flb_mp.c:273`). Patterns `a.b` and
   `a.c` on `{a:{b:1,c:2}}` give `{a:{c:2}}`.
5. **Stale match table** (`flb_mp.c:367`). The entry of a rule that does not
   match is not cleared. With patterns `a.b` and `f`, after `{a:{b:1,c:2}}`
   the record `{f:4}`, unpacked at the same addresses, comes back "modified"
   with `f` still in it.
6. **No error for a record that is not a map** (`flb_mp.c:356`). The comment
   above `flb_mp_accessor_keys_remove` promises -1 on error and `spec.md`
   section 4.2 a `BadRecord` for input that is not a map at the top. The
   function has no error exit and never reads `map->type`: an integer 0 is
   answered with `FLB_FALSE` at once (its `via.map.size` reads 0), an array
   or a string after every rule has failed to match. The first case rests on
   the source alone; the second on `flb_ra_get_kv_pair` refusing what is no
   map, which is assumed.

One more disagreement was met and has no run of its own.
`flb_output_return` adds to the metrics on the thread that ran the flush
(`flb_output.h:581`), a worker for an instance with workers, while `spec.md`
section 5 reserves metrics updates for the engine thread; what follows from
it is part of finding 3.

What the passing properties do not show. `RouteCreditedOnce` counts the
credits of flushes whose coroutine lived until they were made; a worker
whose coroutine the engine destroyed first (finding 3) goes on to read
freed memory, and what it then adds is not defined and not modelled.
`TaskEventuallyRetired` in `flush_starve` shows that a deferred task is
served under two tasks and one retry each, not under the unbounded stream
of tasks a starvation argument would need. `ReturnTellsModified`,
`OutputWellFormed` and `RemovalCorrectWhenFresh` speak of maps, or of calls
that returned `FLB_TRUE`, and so do not depend on what is assumed of
`flb_ra_get_kv_pair` for other objects. The deferral of a no-multiplex
instance is the guard `multiplexable` of the dispatcher, written from
`spec.md` section 4.5 because the header only defines the flag; no invariant
is stated of it, and what is checked is that deferred tasks are still
served (`flush_starve`).

## 4. Bounds, and why they are enough

| Constant | Value | Reason |
|---|---|---|
| `Tasks` | `{0, 1}` (one id in `flush_live`) | two tasks are needed for the shared slot, for no-multiplex deferral and for id reuse; ids are reused after a task is destroyed |
| `MaxTasks` | 2 | tasks created in a behaviour; with id reuse both ids are created, destroyed and created again |
| `Instances` | `a` (no-multiplex, engine thread), `b` (threaded) | one of each kind; `flush_starve` makes the single instance both |
| `Broken` | `a` in `flush_safety` and `flush_lostword`, none elsewhere | a coroutine whose word was refused stays in the queue of the instance that admits one at a time; a refused word makes no difference to the steps of a worker, and with it on `b` the safety run has 1.7 million states |
| `NoMemory` | TRUE in `flush_safety` and `flush_nomem`, FALSE in the liveness runs | the failure can meet every creation until one succeeded; a task of a process that has ended is not retired |
| `Handles` | 2, symmetric in the safety run | a bound of the model on the coroutines that exist at a time: with fewer addresses than routes an address is reused for a later coroutine; `flb_coro_new` returns NULL when none is free |
| `Metered` | both instances; none in `flush_starve` | the guard of line 581 is taken both ways |
| `RetryLimit` | 1 | one granted retry and one refused |
| `Records`, `Bytes` | 3, 120 | scenario 1 of `spec.md` |
| `MaxDepth`, `MaxEntries` | 2, 2 | a container in a container, with 0, 1 or 2 entries each, finalised in both orders |
| `Scalars` | one string | scalars are copied, their value plays no part |
| `Counts` | 0, 1, 15, 16, 17, 94, 255, 256, 257, 65535, 65536, 65537 | both sides of the limits 16, 2^8 and 2^16; 94 makes the byte `0xde` |
| `Records` (accessor) | six maps, among them the empty map, scenario 4 of `spec.md`, and a map with an array of maps; the integer 0 and an array | every branch of `accessor_sub_pack`; both exits of a record that is no map |
| `PatternLists` | seven lists of up to two patterns, among them the empty list, a pattern that never matches, two patterns under one key, a pattern and its prefix | |
| `Zones`, `MaxCalls` | 2, 2 | the second call meets the table of the first, at the same addresses or at others |

The refinement is checked in `flush_live` and `flush_starve`, which between
them have a task with two routes, two tasks at one instance, retries,
refused creations and the removal of instances; in the state space of
`flush_safety` the check of a temporal property takes several times as long
as the invariants.

Symmetry is used for `Handles` in `flush_safety` only; the liveness runs do
not use it. All runs set `CHECK_DEADLOCK FALSE` except `patch`: the other
systems may stop (no task is left and `MaxTasks` is reached; the buffer is
finished; `MaxCalls` is reached).

## 5. Fairness

`FairSpec` assumes weak fairness of dispatch, resume, return, the metrics
step, yield, event handling and the watchdog: the engine's event loop keeps running and serves
every channel and timer, a worker resumes what it was handed, a plugin's
flush ends with `FLB_OUTPUT_RETURN`, which the plugin interface requires,
and a worker that has written the word goes on to the next statements,
the metrics and the yield. Creation
of tasks and removal of instances are the environment's and are not assumed
to happen. Weak fairness suffices because each of these steps, once enabled,
stays enabled until it is taken or its object is gone.

## 6. Not modelled

- The instance registry (C3): `flb_output_new`, `flb_output_set_property`,
  `flb_output_init_all`, `flb_output_exit` and `flb_output_check` are
  declarations; their bodies are not in the source. A module of them would
  be written from `spec.md` alone and would check the design, not this code.
- `flb_output_config_map_set` and the test formatter hooks: two forwarded
  calls and a struct of callbacks. The Azure block blob helpers: four
  declarations of string builders.
- What the process does after the entry function of a coroutine has
  returned: libco does not define it, and the model stops there.
- `FLB_CORO_DATA` yielding NULL and `flb_coro_destroy` running the destroy
  callback (see the assumptions under "OutputFlush").
- Two workers of one instance adding to its metrics at the same moment:
  `flb_metrics_sum` is not in the source and is one addition in the model;
  the step it is taken in is the worker's own.
- Coroutine ids at the 15-bit limit of the word and `entries` at the limit
  of `int`: both need behaviours of 2^15 and 2^31 steps. The fields of the
  word are modelled with their widths, and the header forms are checked at
  16, 2^8 and 2^16.
- What a worker does on a coroutine the engine has destroyed under it
  (the reads of lines 581 to 587 and the yield): the memory is freed, the
  outcome is not defined, and the coroutine takes no step after the one
  `DestroyedAfterYield` marks.
- Array indices and conditional selectors in patterns; duplicate keys in a
  map.
- `fs_chunks_size` and `total_limit_size` accounting, networking, TLS.

## 7. Plan

Done so far: `OutputFlush` with its six runs, the abstract specification
`TaskAccounting` and the refinement, `MpHeader`, `MpBuilder`, `MpPatch` and
`MpAccessor` with their six runs.

The return of a flush on a worker is three steps (word, metrics, yield),
which is as far as the header divides it: `flb_metrics_sum` and
`flb_coro_yield` are calls into code that is not in the source.

Open, in this order:

1. The refinement on the instance of `flush_safety`, once the safety run is
   split into a run of the engine-thread instance and one of the threaded
   instance.
2. Accessor patterns with array indices.

`TaskAccounting` has no liveness property of its own: it puts no bound on
retries, so "every task is retired" is a property of `OutputFlush`, where
`retry_limit` bounds them.
