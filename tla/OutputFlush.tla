---------------------------- MODULE OutputFlush ----------------------------
(***************************************************************************)
(* The output flush path of include/fluent-bit/flb_output.h: a task is     *)
(* flushed to each output instance it routes to by a coroutine of its own  *)
(* (flb_output_thread), the plugin's flush callback ends with              *)
(* FLB_OUTPUT_RETURN, which writes a completion word to the instance's     *)
(* event channel (flb_output_return), and the engine, when it reads the    *)
(* word, destroys the coroutine and releases the task                      *)
(* (flb_output_coro_destroy_id).  An instance that goes away takes its     *)
(* coroutines with it (cb_output_coro_destroy).                            *)
(*                                                                         *)
(* What the header only declares (the dispatcher, the engine's handling of *)
(* a completion word, the scheduler's retries, flb_coro_destroy) follows   *)
(* spec.md and is marked so in PROJECT.json.                               *)
(***************************************************************************)
EXTENDS Integers, Sequences, FiniteSets, SequencesExt

CONSTANTS
    Tasks,                \* the task ids of the engine's task map (task->id)
    Instances,            \* the output instances of config->outputs
    Handles,              \* the addresses flb_coro_new() can return
    NoMultiplex,          \* instances with FLB_OUTPUT_NO_MULTIPLEX in flags
    Threaded,             \* instances with tp_workers > 0
    RetryLimit,           \* retry_limit, the same for every instance
    MaxTasks,             \* bound: tasks the engine creates in a behaviour
    Records,              \* task->records, the same for every task
    Bytes,                \* task->size, the same for every task
    Metered,              \* instances with a metrics handle (o_ins->metrics)
    Broken,               \* instances whose ch_events[1] can refuse a write
    NoMemory,             \* can flb_malloc() return NULL ?
    NULL

ASSUME /\ Tasks \subseteq 0 .. (2^15 - 1)
       /\ NoMultiplex \subseteq Instances
       /\ Threaded \subseteq Instances
       /\ Broken \subseteq Instances
       /\ Metered \subseteq Instances
       /\ RetryLimit \in Nat /\ MaxTasks \in Nat
       /\ Records \in Nat /\ Bytes \in Nat
       /\ NoMemory \in BOOLEAN

VARIABLES
    up,         \* up[i]: instance i is linked in config->outputs
    th_queue,   \* th_queue[i]: flb_output_instance.th_queue, oldest first
    ch_events,  \* ch_events[i]: words written to ch_events[1], not yet read
    metrics,    \* metrics[i]: the three counters flb_output_return() feeds
    live,       \* live[t]: the task with id t exists
    users,      \* users[t]: task->users
    coros,      \* coros[t]: task->coros, oldest first
    next_id,    \* next_id[t]: the id the task gives its next coroutine
    routes,     \* routes[t]: instances the task has still to be flushed to
    retries,    \* retries[t][i]: retries the scheduler granted so far
    coro,       \* coro[h]: the flb_output_coro at address h, NULL when free
    params,     \* flb_libco_params, the engine thread's parameter slot
    running,    \* the process runs: no coroutine returned from its entry
    created,    \* tasks created so far (counted against MaxTasks)
    routed,     \* history: routed[i] = tasks created with a route to i
    lost        \* history: coroutines whose completion word was not written

vars == <<up, th_queue, ch_events, metrics, live, users, coros, next_id,
          routes, retries, coro, params, running, created, routed, lost>>

instVars == <<up, th_queue, ch_events, metrics>>
taskVars == <<live, users, coros, next_id, routes, retries, created, routed>>
procVars == <<params, running>>

-----------------------------------------------------------------------------
(* Dispositions and the completion word *)

FLB_OK    == 0
FLB_ERROR == 1
FLB_RETRY == 2
Rets      == {FLB_OK, FLB_ERROR, FLB_RETRY}

FLB_ENGINE_TASK == 2

\* The low 32 bits of a completion word: 2 bits of disposition, 15 of task
\* id, 15 of coroutine id.  Each field is kept at its width.
FLB_TASK_SET(ret, task_id, coro_id) ==
    [ret |-> ret % 2^2, task |-> task_id % 2^15, coro |-> coro_id % 2^15]

FLB_BITS_U64_SET(type, set) == [type |-> type, set |-> set]

FLB_TASK_RET(val)  == val.set.ret
FLB_TASK_ID(val)   == val.set.task
FLB_TASK_CORO(val) == val.set.coro

Words == [type : {FLB_ENGINE_TASK},
          set  : [ret : Rets, task : Tasks, coro : 0 .. (2^15 - 1)]]

-----------------------------------------------------------------------------
(* Coroutines *)

\* struct flb_libco_out_params, reduced to what tells two flushes apart: the
\* task whose buffer and tag it carries, the plugin context and the coroutine.
Params == [data : Tasks, out_context : Instances, th : Handles]

\* struct flb_output_coro, with the state of its libco coroutine: pc says
\* where the callee is (at its entry, suspended after its creation, in the
\* plugin's flush, in flb_output_return() after the write of its word,
\* before its yield, suspended for good), args are the locals
\* output_pre_cb_flush() copied from the slot, flush is what cb_flush was
\* called with, ret the disposition flb_output_return() has still to count.
Places     == {"entry", "created", "flushing", "written", "signalled",
               "returned"}
OutputCoro == [id : Nat, task : Tasks, o_ins : Instances, pc : Places,
               args : Params \cup {NULL}, flush : Params \cup {NULL},
               ret : Rets \cup {NULL}]

Alloc == {h \in Handles : coro[h] # NULL}

\* What flb_malloc() can return: memory (TRUE) or NULL.
MallocResults == {TRUE} \cup IF NoMemory THEN {FALSE} ELSE {}

\* What flb_coro_new() can return: a free address, or NULL.
flb_coro_new ==
    LET free == {h \in Handles : coro[h] = NULL}
    IN  free \cup IF NoMemory \/ free = {} THEN {NULL} ELSE {}

\* output_params_set(): the slot after the call.  A thread allocates its
\* slot with the first flush; when flb_malloc() fails the function returns
\* at once, the slot still NULL and the callee not switched to.
output_params_set(t, i, h, mem) ==
    IF params = NULL /\ ~mem THEN NULL
    ELSE [data |-> t, out_context |-> i, th |-> h]

\* flb_output_thread(): NULL when flb_coro_new() gave no coroutine, and
\* nothing is touched; else what the function leaves behind: the coroutine
\* at address co, linked at the end of th_queue of its instance, and the
\* slot.  The callee has run output_pre_cb_flush() up to the switch back to
\* the caller and holds a copy of the slot, unless output_params_set()
\* returned early: then it is still at its entry.  FLB_CORO_DATA(coro) is
\* the memory behind the header of coro and not NULL.
flb_output_thread(t, i, co, mem) ==
    LET slot == output_params_set(t, i, co, mem)
    IN  IF co = NULL THEN NULL
        ELSE [out_coro |-> [id |-> 0, task |-> t, o_ins |-> i,
                            pc |-> IF slot = NULL THEN "entry" ELSE "created",
                            args |-> slot, flush |-> NULL, ret |-> NULL],
              th_queue |-> [th_queue EXCEPT ![i] = Append(@, co)],
              params   |-> slot]

flush_args_late(oc, slot) == slot

\* The arguments output_pre_cb_flush() passes to cb_flush once it is resumed:
\* the locals it copied before it switched back, whatever the slot holds now.
flush_args(oc, slot) == oc.args

\* output_pre_cb_flush() when the coroutine is resumed: the plugin's flush
\* runs.  A callee still at its entry starts from the top, finds no slot on
\* the thread that resumed it (the engine's was left NULL, a worker's is
\* never set) and returns.
output_pre_cb_flush(oc, slot) ==
    IF oc.pc = "entry" THEN oc
    ELSE [oc EXCEPT !.pc = "flushing", !.flush = flush_args(oc, slot)]

\* libco ends the process when the entry function of a coroutine returns.
co_entry_returns(oc) == oc.pc = "entry"

\* flb_task_add_coro(): the task gives the coroutine its id.
flb_task_add_coro(oc, t) == [oc EXCEPT !.id = next_id[t]]

\* flb_output_coro_get(): the first coroutine of the task's list with this
\* id, NULL when there is none.
flb_output_coro_get(id, t) ==
    LET found == SelectSeq(coros[t],
                           LAMBDA h : coro[h] # NULL /\ coro[h].id = id)
    IN  IF found = <<>> THEN NULL ELSE Head(found)

-----------------------------------------------------------------------------
(* The dispatcher *)

\* A no-multiplex instance takes a flush only when it has none in its queue.
multiplexable(i) == ~(i \in NoMultiplex /\ th_queue[i] # <<>>)

\* The engine makes a task of a chunk and the instances its tag routes to,
\* under the lowest id its task map has free.
flb_task_create(t, rs) ==
    /\ running
    /\ ~live[t] /\ \A s \in Tasks : s < t => live[s]
    /\ created < MaxTasks
    /\ rs # {} /\ \A i \in rs : up[i]
    /\ live'    = [live EXCEPT ![t] = TRUE]
    /\ routes'  = [routes EXCEPT ![t] = rs]
    /\ created' = created + 1
    /\ routed'  = [i \in Instances |-> routed[i] + IF i \in rs THEN 1 ELSE 0]
    /\ UNCHANGED <<users, coros, next_id, retries, coro, procVars, lost,
                   instVars>>

\* flb_output_task_flush(): one route of a task gets its coroutine from
\* flb_output_thread().  The task links and counts it, and it runs at once
\* on the engine thread unless the instance has workers, which resume it
\* later.  Without a coroutine the route stays as it is, to be tried again.
flb_output_task_flush(t, i) ==
    /\ running
    /\ live[t] /\ i \in routes[t] /\ up[i]
    /\ multiplexable(i)
    /\ \E co \in flb_coro_new, mem \in MallocResults :
          LET th == flb_output_thread(t, i, co, mem)
              oc == flb_task_add_coro(th.out_coro, t)
          IN  \/ th = NULL /\ UNCHANGED vars
              \/ /\ th # NULL
                 /\ th_queue' = th.th_queue
                 /\ params'   = th.params
                 /\ coro'     = [coro EXCEPT ![co] =
                                    IF i \in Threaded THEN oc
                                    ELSE output_pre_cb_flush(oc, th.params)]
                 /\ running'  = (i \in Threaded \/ ~co_entry_returns(oc))
                 /\ coros'    = [coros EXCEPT ![t] = Append(@, co)]
                 /\ users'    = [users EXCEPT ![t] = @ + 1]
                 /\ next_id'  = [next_id EXCEPT ![t] = @ + 1]
                 /\ routes'   = [routes EXCEPT ![t] = @ \ {i}]
                 /\ UNCHANGED <<up, ch_events, metrics, lost, live, retries,
                                created, routed>>

\* A worker of a threaded instance resumes a coroutine handed to it.
flb_coro_resume(h) ==
    /\ running
    /\ h \in Alloc /\ coro[h].pc \in {"entry", "created"}
    /\ coro'    = [coro EXCEPT ![h] = output_pre_cb_flush(@, params)]
    /\ running' = ~co_entry_returns(coro[h])
    /\ UNCHANGED <<params, lost, instVars, taskVars>>

-----------------------------------------------------------------------------
(* The return of a flush *)

flb_metrics_sum_retry(m, i, ret) ==
    CASE ret = FLB_OK -> [m EXCEPT !.ok_records = @ + Records,
                                   !.ok_bytes   = @ + Bytes]
      [] OTHER        -> [m EXCEPT !.errors = @ + 1]

\* What flb_output_return() adds to the counters of instance i: nothing for
\* an instance without a metrics handle; else the records and bytes of the
\* task on FLB_OK, one error on FLB_ERROR, nothing on FLB_RETRY.
flb_metrics_sum(m, i, ret) ==
    CASE i \notin Metered -> m
      [] ret = FLB_OK     -> [m EXCEPT !.ok_records = @ + Records,
                                       !.ok_bytes   = @ + Bytes]
      [] ret = FLB_ERROR  -> [m EXCEPT !.errors = @ + 1]
      [] OTHER            -> m

completion_word_swapped(ret, oc) ==
    FLB_BITS_U64_SET(FLB_ENGINE_TASK, FLB_TASK_SET(ret, oc.id, oc.task))

\* The word flb_output_return() composes for coroutine oc.
completion_word(ret, oc) ==
    FLB_BITS_U64_SET(FLB_ENGINE_TASK, FLB_TASK_SET(ret, oc.task, oc.id))

\* What flb_pipe_w() can return for a word written to the channel of i.
PipeResults(i) == {8} \cup IF i \in Broken THEN {-1} ELSE {}

\* flb_pipe_w(): the channel after a write that returned n.
flb_pipe_w(ch, val, n) == IF n = -1 THEN ch ELSE Append(ch, val)

\* flb_output_return() up to flb_pipe_w(): the word goes to the instance's
\* channel; a write that fails is logged and no more.
flb_output_return_notify(ret, h, n) ==
    LET oc == coro[h]
    IN  /\ ch_events' = [ch_events EXCEPT
                            ![oc.o_ins] = flb_pipe_w(@, completion_word(ret, oc), n)]
        /\ lost'      = IF n = -1 THEN lost \cup {h} ELSE lost

\* flb_output_return_do(), what FLB_OUTPUT_RETURN(ret) runs: the flush
\* returns and its coroutine yields for good.  On the engine thread nothing
\* runs between the write of the word and the yield; on a worker the engine
\* thread does, from the moment the word is in the channel: the rest of
\* flb_output_return() is a step of its own (the third alternative), and so
\* is the yield.
flb_output_return_do(ret, h) ==
    /\ running
    /\ h \in Alloc
    /\ \/ /\ coro[h].pc = "flushing" /\ coro[h].o_ins \notin Threaded
          /\ \E n \in PipeResults(coro[h].o_ins) :
                flb_output_return_notify(ret, h, n)
          /\ metrics' = [metrics EXCEPT ![coro[h].o_ins] =
                            flb_metrics_sum(@, coro[h].o_ins, ret)]
          /\ coro' = [coro EXCEPT ![h].pc = "returned"]
       \/ /\ coro[h].pc = "flushing" /\ coro[h].o_ins \in Threaded
          /\ \E n \in PipeResults(coro[h].o_ins) :
                flb_output_return_notify(ret, h, n)
          /\ coro' = [coro EXCEPT ![h].pc = "written", ![h].ret = ret]
          /\ UNCHANGED metrics
       \/ /\ coro[h].pc = "written" /\ coro[h].ret = ret
          /\ metrics' = [metrics EXCEPT ![coro[h].o_ins] =
                            flb_metrics_sum(@, coro[h].o_ins, ret)]
          /\ coro' = [coro EXCEPT ![h].pc = "signalled", ![h].ret = NULL]
          /\ UNCHANGED <<ch_events, lost>>
    /\ UNCHANGED <<up, th_queue, procVars, taskVars>>

\* flb_coro_yield() at the end of flb_output_return_do(), on a worker.
flb_coro_yield(h) ==
    /\ running
    /\ h \in Alloc /\ coro[h].pc = "signalled"
    /\ coro' = [coro EXCEPT ![h].pc = "returned"]
    /\ UNCHANGED <<procVars, lost, instVars, taskVars>>

-----------------------------------------------------------------------------
(* The end of a coroutine *)

cb_users_kept(u, oc) == u

cb_users_twice(u, oc) == [u EXCEPT ![oc.task] = @ - 2]

\* cb_output_coro_destroy(), on the task's counter.
cb_users(u, oc) == [u EXCEPT ![oc.task] = @ - 1]

cb_unlink_kept(list, h) == list

\* cb_output_coro_destroy(), on a list the coroutine is linked in.
cb_unlink(list, h) == Remove(list, h)

flb_output_coro_destroy_id_twice(id, t) ==
    LET h == flb_output_coro_get(id, t)
    IN  IF h = NULL THEN [ret |-> -1]
        ELSE [ret      |-> 0,
              th_queue |-> [th_queue EXCEPT ![coro[h].o_ins] = Remove(@, h)],
              coros    |-> [coros EXCEPT ![t] = Remove(@, h)],
              coro     |-> [coro EXCEPT ![h] = NULL],
              users    |-> [users EXCEPT ![t] = @ - 2]]

\* flb_output_coro_destroy_id(): -1 and nothing done when the task has no
\* coroutine of that id; else the coroutine leaves both lists, its memory is
\* freed and the task counts one user less.  flb_coro_destroy() is taken to
\* free and no more: were it to run cb_output_coro_destroy(), every intake
\* would unlink and count down twice.
flb_output_coro_destroy_id(id, t) ==
    LET h == flb_output_coro_get(id, t)
    IN  IF h = NULL THEN [ret |-> -1]
        ELSE [ret      |-> 0,
              th_queue |-> [th_queue EXCEPT ![coro[h].o_ins] = Remove(@, h)],
              coros    |-> [coros EXCEPT ![t] = Remove(@, h)],
              coro     |-> [coro EXCEPT ![h] = NULL],
              users    |-> [users EXCEPT ![t] = @ - 1]]

\* A task is destroyed when no coroutine uses it and no route of it is left
\* to flush or to retry.
task_done(u, rs) == u = 0 /\ {i \in rs : up[i]} = {}

\* flb_task_destroy(): the task map entry is free again.
flb_task_destroy(t) ==
    /\ live'    = [live EXCEPT ![t] = FALSE]
    /\ routes'  = [routes EXCEPT ![t] = {}]
    /\ retries' = [retries EXCEPT ![t] = [i \in Instances |-> 0]]
    /\ next_id' = [next_id EXCEPT ![t] = 0]

\* The scheduler grants a retry while the instance's retry_limit allows.
retry_granted(ret, n) == ret = FLB_RETRY /\ n < RetryLimit

\* The engine reads one word from the channel of instance i, destroys the
\* coroutine it names and, per disposition, retires the task or re-arms it.
handle_output_event(i) ==
    /\ running
    /\ up[i] /\ ch_events[i] # <<>>
    /\ ch_events' = [ch_events EXCEPT ![i] = Tail(@)]
    /\ LET val   == Head(ch_events[i])
           t     == FLB_TASK_ID(val)
           again == retry_granted(FLB_TASK_RET(val), retries[t][i])
           left  == IF again THEN routes[t] \cup {i} ELSE routes[t]
           gone  == flb_output_coro_destroy_id(FLB_TASK_CORO(val), t)
       IN  IF gone.ret = -1
           THEN UNCHANGED <<th_queue, coro, coros, live, users, routes,
                            retries, next_id>>
           ELSE /\ th_queue' = gone.th_queue
                /\ coros'    = gone.coros
                /\ coro'     = gone.coro
                /\ users'    = gone.users
                /\ IF task_done(gone.users[t], left)
                   THEN flb_task_destroy(t)
                   ELSE /\ routes'  = [routes EXCEPT ![t] = left]
                        /\ retries' = [retries EXCEPT ![t][i] =
                                          IF again THEN @ + 1 ELSE @]
                        /\ UNCHANGED <<live, next_id>>
    /\ UNCHANGED <<up, metrics, lost, procVars, created, routed>>

\* flb_output_instance_destroy(): every coroutine of the instance's queue is
\* torn down through cb_output_coro_destroy(), no word is written for it,
\* the channel is closed and the instance leaves config->outputs.
flb_output_instance_destroy(i) ==
    LET queue == th_queue[i]
        drain(list) == FoldSeq(LAMBDA h, l : cb_unlink(l, h), list, queue)
    IN  /\ running /\ up[i]
        /\ up'        = [up EXCEPT ![i] = FALSE]
        /\ users'     = FoldSeq(LAMBDA h, u : cb_users(u, coro[h]), users, queue)
        /\ coros'     = [t \in Tasks |-> drain(coros[t])]
        /\ th_queue'  = [th_queue EXCEPT ![i] = drain(@)]
        /\ coro'      = [h \in Handles |->
                            IF h \in Range(queue) THEN NULL ELSE coro[h]]
        /\ lost'      = lost \ Range(queue)
        /\ ch_events' = [ch_events EXCEPT ![i] = <<>>]
        /\ UNCHANGED <<metrics, live, next_id, routes, retries, procVars,
                       created, routed>>

\* The scheduler's watchdog retires a task that lost its coroutines without
\* a completion word.
flb_task_watchdog(t) ==
    /\ running /\ live[t]
    /\ task_done(users[t], routes[t])
    /\ flb_task_destroy(t)
    /\ UNCHANGED <<users, coros, coro, procVars, created, routed, lost,
                   instVars>>

-----------------------------------------------------------------------------
(* The specification *)

Init ==
    /\ up        = [i \in Instances |-> TRUE]
    /\ th_queue  = [i \in Instances |-> <<>>]
    /\ ch_events = [i \in Instances |-> <<>>]
    /\ metrics   = [i \in Instances |->
                       [ok_records |-> 0, ok_bytes |-> 0, errors |-> 0]]
    /\ routed    = [i \in Instances |-> 0]
    /\ live      = [t \in Tasks |-> FALSE]
    /\ users     = [t \in Tasks |-> 0]
    /\ coros     = [t \in Tasks |-> <<>>]
    /\ next_id   = [t \in Tasks |-> 0]
    /\ routes    = [t \in Tasks |-> {}]
    /\ retries   = [t \in Tasks |-> [i \in Instances |-> 0]]
    /\ coro      = [h \in Handles |-> NULL]
    /\ params    = NULL
    /\ running   = TRUE
    /\ created   = 0
    /\ lost      = {}

Next ==
    \/ \E t \in Tasks, rs \in SUBSET Instances : flb_task_create(t, rs)
    \/ \E t \in Tasks, i \in Instances : flb_output_task_flush(t, i)
    \/ \E h \in Handles : flb_coro_resume(h)
    \/ \E h \in Handles, ret \in Rets : flb_output_return_do(ret, h)
    \/ \E h \in Handles : flb_coro_yield(h)
    \/ \E i \in Instances : handle_output_event(i)
    \/ \E i \in Instances : flb_output_instance_destroy(i)
    \/ \E t \in Tasks : flb_task_watchdog(t)

Spec == Init /\ [][Next]_vars

\* The event loop keeps running: it dispatches what is pending, reads every
\* channel and runs its timers; a worker resumes what it was handed; a
\* plugin's flush ends with FLB_OUTPUT_RETURN.  New tasks and the removal of
\* an instance are the environment's and are not owed.
Fairness ==
    /\ \A t \in Tasks, i \in Instances :
          WF_vars(flb_output_task_flush(t, i))
    /\ \A h \in Handles : WF_vars(flb_coro_resume(h))
    /\ \A h \in Handles : WF_vars(\E ret \in Rets : flb_output_return_do(ret, h))
    /\ \A h \in Handles : WF_vars(flb_coro_yield(h))
    /\ \A i \in Instances : WF_vars(handle_output_event(i))
    /\ \A t \in Tasks : WF_vars(flb_task_watchdog(t))

FairSpec == Spec /\ Fairness

-----------------------------------------------------------------------------
(* Properties *)

TypeOK ==
    /\ up        \in [Instances -> BOOLEAN]
    /\ th_queue  \in [Instances -> Seq(Handles)]
    /\ ch_events \in [Instances -> Seq(Words)]
    /\ metrics   \in [Instances -> [ok_records : Nat, ok_bytes : Nat,
                                    errors : Nat]]
    /\ routed    \in [Instances -> 0 .. MaxTasks]
    /\ live      \in [Tasks -> BOOLEAN]
    /\ users     \in [Tasks -> Nat]
    /\ coros     \in [Tasks -> Seq(Handles)]
    /\ next_id   \in [Tasks -> Nat]
    /\ routes    \in [Tasks -> SUBSET Instances]
    /\ retries   \in [Tasks -> [Instances -> 0 .. RetryLimit]]
    /\ coro      \in [Handles -> OutputCoro \cup {NULL}]
    /\ params    \in Params \cup {NULL}
    /\ running   \in BOOLEAN
    /\ created   \in 0 .. MaxTasks
    /\ lost      \subseteq Handles

CorosOf(t) == {h \in Alloc : coro[h].task = t}
QueueOf(i) == {h \in Alloc : coro[h].o_ins = i}
NoDuplicates(s) == Cardinality(Range(s)) = Len(s)
Signalled  == {h \in Alloc : coro[h].pc \in {"written", "signalled", "returned"}}

\* task->users is the number of coroutines that hold the task's buffer:
\* flb_output_task_flush counts one up, flb_output_coro_destroy_id and
\* cb_output_coro_destroy count one down, each once for a coroutine.
UsersCountCoros ==
    \A t \in Tasks : users[t] = Cardinality(CorosOf(t))

\* The two lists a coroutine is linked in agree with the coroutines that
\* exist: task->coros holds exactly the task's coroutines and th_queue
\* exactly the instance's, each once, whichever of
\* flb_output_coro_destroy_id and cb_output_coro_destroy ended the others.
ListsAgree ==
    /\ \A t \in Tasks :
          Range(coros[t]) = CorosOf(t) /\ NoDuplicates(coros[t])
    /\ \A i \in Instances :
          Range(th_queue[i]) = QueueOf(i) /\ NoDuplicates(th_queue[i])

\* A task is not destroyed under a flush: every coroutine's task is live,
\* so handle_output_event retires a task only after the last of its
\* coroutines is gone.
TaskOutlivesCoros ==
    \A h \in Alloc : live[coro[h].task]

\* Every word in a channel names, through flb_output_coro_get, the coroutine
\* that wrote it: one of this instance whose flush has called
\* flb_output_return, and no other word names it; and every coroutine whose
\* flush has called it has its word waiting, unless flb_pipe_w refused it.
\* So flb_output_coro_destroy_id never ends a flush that has not returned,
\* nor the flush of another instance.
WordNamesItsWriter ==
    \A i \in Instances :
        LET writer(k) == flb_output_coro_get(FLB_TASK_CORO(ch_events[i][k]),
                                             FLB_TASK_ID(ch_events[i][k]))
            sent      == {writer(k) : k \in 1 .. Len(ch_events[i])}
        IN  /\ \A k \in 1 .. Len(ch_events[i]) :
                  writer(k) \in QueueOf(i) \cap Signalled
            /\ Cardinality(sent) = Len(ch_events[i])
            /\ sent = (QueueOf(i) \cap Signalled) \ lost

\* A flush is called with the arguments of its own creation: the buffer of
\* its task, the context of its instance, its own coroutine, although all
\* creations pass them through the one slot flb_libco_params.
FlushGetsOwnParams ==
    \A h \in Alloc :
        coro[h].pc \notin {"entry", "created"} =>
            coro[h].flush = [data        |-> coro[h].task,
                             out_context |-> coro[h].o_ins,
                             th          |-> h]

\* A route of a task is credited to its instance at most once, as records
\* and bytes delivered or as one error, however often it was retried: after
\* flb_output_return counted FLB_OK or FLB_ERROR the route is not flushed
\* again, and a FLB_RETRY leaves no trace in the metrics.  Records and bytes
\* move together (scenario 1 of spec.md: 3 records, 120 bytes).
RouteCreditedOnce ==
    \A i \in Instances :
        /\ metrics[i].ok_records + Records * metrics[i].errors
              <= Records * routed[i]
        /\ metrics[i].ok_bytes * Records = metrics[i].ok_records * Bytes

\* Runtime failures do not crash the engine (spec.md, section 7), and the
\* construction of a flush returns a coroutine whose entry point has read
\* the slot (section 4.4): flb_output_thread hands out no coroutine that
\* output_params_set left at its entry, to be resumed into a return from
\* output_pre_cb_flush.
EngineSurvives == running

\* The engine destroys a coroutine on its completion word only after the
\* coroutine has yielded (spec.md, section 4.4: the core writes the word,
\* updates the metrics and yields the frame, which stays alive until the
\* dispatcher reads the word and destroys it): flb_output_coro_destroy_id
\* never frees the coroutine flb_output_return still reads the task and the
\* metrics through, nor the stack flb_output_return_do is still running on.
DestroyedAfterYield ==
    [][\A h \in Alloc :
          (coro'[h] = NULL /\ up' = up) => coro[h].pc = "returned"]_vars

\* Completion accounting: the flush path implements TaskAccounting.  Every
\* step of flb_output_task_flush, handle_output_event (through
\* flb_output_coro_destroy_id), flb_output_instance_destroy (through
\* cb_output_coro_destroy) and the watchdog is one step of the abstract
\* task, with task->users as its count of holders and the coroutines that
\* exist as its flushes in flight; everything else leaves the task alone.
TA == INSTANCE TaskAccounting WITH
          alive   <- live,
          usable  <- {i \in Instances : up[i]},
          owed    <- [t \in Tasks |-> {i \in routes[t] : up[i]}],
          flying  <- {<<coro[h].task, coro[h].o_ins>> : h \in Alloc},
          holders <- users

ImplementsTaskAccounting == TA!Spec

\* Every task is retired in the end: each of its routes is flushed, retried
\* at most RetryLimit times, or cancelled with its instance, and the last
\* completion or the watchdog destroys the task.
TaskEventuallyRetired ==
    \A t \in Tasks : live[t] ~> ~live[t]

=============================================================================
