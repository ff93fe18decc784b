------------------------------- MODULE Sched -------------------------------
(***************************************************************************)
(* The wait/wake context (struct sched_ctx) that tcp.c uses through       *)
(* sched_ctx_init, sched_ctx_destroy, sched_sleep, sched_wakeup and        *)
(* sched_interrupt.  Its code is not part of this repository's src/, so    *)
(* these operators follow the contract of spec.md section 5.               *)
(*                                                                         *)
(* A context is identified by the PCB that holds it.  The operators work  *)
(* on a function thr from threads to records that have at least the       *)
(* fields id (the PCB whose context the thread uses) and sleep:           *)
(*   "running"  not inside sched_sleep                                    *)
(*   "asleep"   blocked in sched_sleep, the mutex released                *)
(*   "woken"    a wakeup was posted; waits to reacquire the mutex         *)
(*   "intr"     an interrupt was posted; sched_sleep will return -1       *)
(***************************************************************************)

\* The threads that have entered sched_sleep on the context of p and not
\* yet returned from it: the waiters sched_ctx_destroy reports.
Waiters(thr, p) ==
    {t \in DOMAIN thr : thr[t].id = p /\ thr[t].sleep # "running"}

\* sched_ctx_destroy fails (-1) while a waiter is present.
CtxBusy(thr, p) == Waiters(thr, p) # {}

\* sched_sleep: the caller releases the mutex and blocks.
SleepOn(r) == [r EXCEPT !.sleep = "asleep"]

\* sched_wakeup: a broadcast to every thread blocked on the context of p.
Wakeup(thr, p) ==
    [t \in DOMAIN thr |->
        IF thr[t].id = p /\ thr[t].sleep = "asleep"
        THEN [thr[t] EXCEPT !.sleep = "woken"]
        ELSE thr[t]]

\* sched_interrupt posted to the context of every PCB in ps: every waiter
\* that has not yet returned from sched_sleep returns -1 (EINTR).
Interrupt(thr, ps) ==
    [t \in DOMAIN thr |->
        IF thr[t].id \in ps /\ thr[t].sleep \in {"asleep", "woken"}
        THEN [thr[t] EXCEPT !.sleep = "intr"]
        ELSE thr[t]]
=============================================================================
