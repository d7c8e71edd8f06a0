-------------------------- MODULE MigratorAbstract --------------------------
(***************************************************************************)
(* What the migrator promises (spec 4.2): a single-flight scheduler.       *)
(* TryStart moves Idle to Running and begins a pass; while Running it is a *)
(* no-op.  A pass ends (its loop returns) and the state then goes back to  *)
(* Idle, so that the next TryStart is effective again.  Between a pass's   *)
(* end and the return to Idle no new pass can begin.                        *)
(***************************************************************************)

VARIABLES
    running,  \* the state is Running
    active    \* a pass's loop is executing

vars == <<running, active>>

Init == running = FALSE /\ active = FALSE

\* TryPerformMigrations finding the flag clear: set it, start the pass.
Start == ~running /\ running' = TRUE /\ active' = TRUE

\* performMigrations returns: an empty batch or a fetch error.
EndPass == active /\ active' = FALSE /\ UNCHANGED running

\* The goroutine clears the flag after performMigrations returned.
Reset == running /\ ~active /\ running' = FALSE /\ UNCHANGED active

Next == Start \/ EndPass \/ Reset

\* A pass need not end (the store may keep reporting unhealthy slabs), but
\* a clear flag is seen by the autopilot's next call, and a pass that
\* ended is followed by the reset.
Spec == Init /\ [][Next]_vars /\ WF_vars(Start) /\ WF_vars(Reset)

=============================================================================
