------------------------------- MODULE MCWorkers -------------------------------
(* Symmetry for the worker manager, and a view that tells apart only states      *)
(* that differ in a value somebody still reads: a handler's locals count while   *)
(* the steps that use them are ahead.                                            *)
EXTENDS Workers, TLC

Symmetry == Permutations(User) \cup Permutations(Task)

LiveJob(t) ==
  <<job[t].pc, job[t].user, job[t].pc \in {"network", "wait"} /\ job[t].running,
    IF job[t].pc \in {"assign", "create"} THEN job[t].port ELSE 0>>

LiveFresh ==
  {x \in fresh : IF x \in User THEN update[x] \in {"apply", "applyStopped"}
                 ELSE job[x].pc \in {"scale", "stop"}}

LiveState ==
  <<port, service, registry, local, cached, [t \in Task |-> LiveJob(t)], cron,
    IF cron \in {"pull", "compare"} THEN old ELSE 0, update, LiveFresh, verify, together,
    faults, crashes>>

\* Bound: while two starts run, and once two of them looked for a port at once, no image is
\* published or looked for, and there is a failure or a restart, not both.
Starting(t) == job[t].pc \notin {"idle", "inspect", "stop"}
StartsApartFromImages ==
  (\A t \in Task : Starting(t)) \/ together # {} =>
    registry = 1 /\ cached = 0 /\ CronIdle /\ faults + crashes <= 1

==============================================================================
