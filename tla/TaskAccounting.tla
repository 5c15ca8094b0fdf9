--------------------------- MODULE TaskAccounting ---------------------------
(***************************************************************************)
(* What the flush path promises about a task, without coroutines, lists,   *)
(* channels or completion words (spec.md, sections 3 and 4.5, "Completion  *)
(* accounting" of section 8): a task is owed one flush per route, a flush  *)
(* in flight holds the task, a completion releases it and may ask for the  *)
(* route to be flushed again, the teardown of an instance releases what    *)
(* was in flight there, and the task is retired by the completion or the   *)
(* timer that finds it held by nobody and owed nothing.                    *)
(*                                                                         *)
(* OutputFlush implements this specification under the mapping given at    *)
(* its end.                                                                *)
(***************************************************************************)
EXTENDS Naturals

CONSTANTS
    Tasks,      \* task ids
    Instances   \* output instances

VARIABLES
    alive,    \* alive[t]: the task exists
    usable,   \* the instances that were not torn down
    owed,     \* owed[t]: usable instances the task has still to be flushed to
    flying,   \* the flushes in flight, <<t, i>> for task t at instance i
    holders   \* holders[t]: the count the task keeps of its flushes in flight

vars == <<alive, usable, owed, flying, holders>>

\* The task leaves: nothing is owed, nothing is counted.
Retire(t) ==
    /\ alive'   = [alive EXCEPT ![t] = FALSE]
    /\ owed'    = [owed EXCEPT ![t] = {}]

\* A task is made for a chunk that routes to the instances rs.
Create(t, rs) ==
    /\ ~alive[t]
    /\ rs # {} /\ rs \subseteq usable
    /\ alive' = [alive EXCEPT ![t] = TRUE]
    /\ owed'  = [owed EXCEPT ![t] = rs]
    /\ UNCHANGED <<usable, flying, holders>>

\* One route of the task gets its flush.
Spawn(t, i) ==
    /\ alive[t] /\ i \in owed[t] /\ <<t, i>> \notin flying
    /\ owed'    = [owed EXCEPT ![t] = @ \ {i}]
    /\ flying'  = flying \cup {<<t, i>>}
    /\ holders' = [holders EXCEPT ![t] = @ + 1]
    /\ UNCHANGED <<alive, usable>>

\* The completion of one flush is taken in; "again" is the scheduler's
\* consent to a retry.  The last completion retires the task.
Complete(t, i, again) ==
    LET left == owed[t] \cup IF again THEN {i} ELSE {}
    IN  /\ alive[t] /\ i \in usable /\ <<t, i>> \in flying
        /\ flying'  = flying \ {<<t, i>>}
        /\ holders' = [holders EXCEPT ![t] = @ - 1]
        /\ IF holders[t] = 1 /\ left = {}
           THEN Retire(t)
           ELSE owed' = [owed EXCEPT ![t] = left] /\ UNCHANGED alive
        /\ UNCHANGED usable

\* An instance is torn down: what was in flight there is released without a
\* completion, and no task is owed a flush to it any more.
Cancel(i) ==
    /\ i \in usable
    /\ usable'  = usable \ {i}
    /\ owed'    = [t \in Tasks |-> owed[t] \ {i}]
    /\ holders' = [t \in Tasks |->
                       IF <<t, i>> \in flying THEN holders[t] - 1 ELSE holders[t]]
    /\ flying'  = flying \ (Tasks \X {i})
    /\ UNCHANGED alive

\* The timer finds a task that nobody holds and that is owed nothing.
Expire(t) ==
    /\ alive[t] /\ holders[t] = 0 /\ owed[t] = {}
    /\ Retire(t)
    /\ UNCHANGED <<usable, flying, holders>>

Init ==
    /\ alive   = [t \in Tasks |-> FALSE]
    /\ usable  = Instances
    /\ owed    = [t \in Tasks |-> {}]
    /\ flying  = {}
    /\ holders = [t \in Tasks |-> 0]

Next ==
    \/ \E t \in Tasks, rs \in SUBSET Instances : Create(t, rs)
    \/ \E t \in Tasks, i \in Instances : Spawn(t, i)
    \/ \E t \in Tasks, i \in Instances, again \in BOOLEAN :
          Complete(t, i, again)
    \/ \E i \in Instances : Cancel(i)
    \/ \E t \in Tasks : Expire(t)

Spec == Init /\ [][Next]_vars

=============================================================================
