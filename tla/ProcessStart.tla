----------------------------- MODULE ProcessStart -----------------------------
(* Starting one contained llama.cpp process (feasibility/llama_slice.py,      *)
(* _start_llama_process_atomic_windows): bind the run-artifact lease, take a  *)
(* private console, open the handles one after the other, create the process  *)
(* inside its Job, give back what only the launch needed and hand the rest to  *)
(* a LlamaWindowsManagedProcess -- or, from whatever step failed, undo it all. *)
(*                                                                            *)
(* Every system call may fail; MaxFaults bounds how many do in a behaviour.   *)
(* A CloseHandle that fails leaves the handle open or closed, nobody knows     *)
(* which.  A terminated Job, and one whose last handle is closed, is doomed:  *)
(* its processes end, though not at once.                                     *)
EXTENDS LogReaders, Sequences, SequencesExt

CONSTANTS
    Starter,       \* the thread that starts the process
    MaxFaults      \* bound on failing system calls

VARIABLES
    pc,            \* where each thread is
    loc,           \* each thread's locals: see Locals
    native,        \* the handles the system has open
    closes,        \* how often CloseHandle was called on each
    owned,         \* owned_handles, and the two of a half-published creation
    managed,       \* the handles a managed process holds; its non-None fields
    console,       \* the console the process is attached to
    lease,         \* LlamaRunArtifactLease._state
    doomed,        \* the Job was terminated or closed: its processes end
    exit_code,     \* what the root process exited with
    result,        \* what each thread's call returned or raised: a MemoryError of
                   \* a cleanup counts as cleanup_failed
    faults         \* failed system calls so far

startVars == <<pc, loc, native, closes, owned, managed, console, lease, doomed,
               exit_code, result, faults>>

-----------------------------------------------------------------------------
\* "attributes" is the attribute list of the process, deleted like a handle.
Children == <<"stderr_child", "stdout_child", "stdin">>
CloseOrder == <<"attributes", "thread", "process", "stderr_child", "stderr",
                "stdout_child", "stdout", "stdin", "job">>
Handles == ToSet(CloseOrder)
Retained == {"process", "stderr", "stdout", "job"}

(* The locals of a call: failed (cleanup_failed), joined (readers_joined),    *)
(* empty (the Job was seen empty), clean (the close of the handles raised      *)
(* nothing), todo (what a loop has left), code (the first error) and kind      *)
(* (which call this is).                                                      *)
Locals(kind) == [kind |-> kind, failed |-> FALSE, joined |-> TRUE, empty |-> FALSE,
                 clean |-> TRUE, todo |-> <<>>, code |-> "none"]

\* Go on to step p, with the locals l.
Goto(t, p, l) ==
    /\ pc' = [pc EXCEPT ![t] = p]
    /\ loc' = [loc EXCEPT ![t] = l]

Fault ==
    /\ faults < MaxFaults
    /\ faults' = faults + 1

NoFault == UNCHANGED faults

\* CloseHandle: it works, or it fails and the handle may be open still.
CloseNative(h, ok) ==
    /\ closes' = [closes EXCEPT ![h] = @ + 1]
    /\ \/ ok /\ NoFault /\ native' = native \ {h}
       \/ ~ok /\ Fault /\ native' \in {native, native \ {h}}
    /\ doomed' = (doomed \/ (h = "job" /\ h \notin native'))

Returns(t, r) ==
    /\ pc' = [pc EXCEPT ![t] = "done"]
    /\ result' = [result EXCEPT ![t] = r]

\* A step of a thread that is not one of its calls on the readers.
NoReader == UNCHANGED <<readerVars, cancelVars>>

-----------------------------------------------------------------------------
(* The launch.                                                                *)
At(t, p) == pc[t] = p

\* The cleanup of a failed launch: with the process created it begins at the
\* Job, otherwise with the handles.
FailStart(code) ==
    LET l == [loc[Starter] EXCEPT !.code = code, !.empty = "process" \notin owned',
                                  !.todo = CloseOrder]
    IN  Goto(Starter, IF "process" \in owned' THEN "launch_terminate" ELSE "launch_close", l)

\* _claim_llama_run_artifact_lease, from a lease just opened.
ClaimLease ==
    /\ At(Starter, "claim")
    /\ lease = "prepared"
    /\ lease' = "bound"
    /\ Goto(Starter, "console", loc[Starter])
    /\ NoReader
    /\ UNCHANGED <<native, closes, owned, managed, console, doomed, exit_code, result, faults,
                   router, live>>

\* Leave the inherited console, allocate one, and require to be alone on it.
AllocateConsole ==
    /\ At(Starter, "console")
    /\ UNCHANGED owned
    /\ \/ /\ console' = "private" /\ NoFault
          /\ Goto(Starter, "acquire", [loc[Starter] EXCEPT !.todo =
                                          <<"job", "stdin", "stdout", "stderr", "attributes">>])
       \/ /\ console' \in {console, "private"} /\ Fault
          /\ FailStart("console_failed")
    /\ NoReader
    /\ UNCHANGED <<native, closes, managed, lease, doomed, exit_code, result, router, live>>

\* A pipe brings both its ends.
Brings(h) == CASE h = "stdout" -> {h, "stdout_child"}
               [] h = "stderr" -> {h, "stderr_child"}
               [] OTHER -> {h}

\* The Job (whose limit may then fail to be set), the null stdin, the pipes,
\* and the attribute list (which may fail to be filled).
AcquireHandles ==
    LET l == loc[Starter] IN
    /\ At(Starter, "acquire")
    /\ IF l.todo = <<>>
       THEN /\ Goto(Starter, "prelaunch", l)
            /\ NoFault /\ UNCHANGED <<native, owned>>
       ELSE LET h == Head(l.todo) IN
            \/ /\ native' = native \cup Brings(h)
               /\ owned' = owned \cup Brings(h)
               /\ NoFault
               /\ Goto(Starter, "acquire", [l EXCEPT !.todo = Tail(@)])
            \/ /\ Fault
               /\ \/ UNCHANGED <<native, owned>>
                  \/ /\ h \in {"job", "attributes"}
                     /\ native' = native \cup {h} /\ owned' = owned \cup {h}
               /\ FailStart("launch_failed")
    /\ NoReader
    /\ UNCHANGED <<closes, managed, console, lease, doomed, exit_code, result, router, live>>

\* _verify_llama_run_artifact_lease_prelaunch: the state shows the
\* verification while it runs, and its outcome after.
BeginPrelaunch ==
    /\ At(Starter, "prelaunch")
    /\ lease = "bound"
    /\ lease' = "verifying_launch"
    /\ Goto(Starter, "verify_launch", loc[Starter])
    /\ NoReader
    /\ UNCHANGED <<native, closes, owned, managed, console, doomed, exit_code, result, faults,
                   router, live>>

EndPrelaunch ==
    /\ At(Starter, "verify_launch")
    /\ UNCHANGED owned
    /\ \/ /\ lease' = "bound" /\ NoFault
          /\ Goto(Starter, "create", loc[Starter])
       \/ /\ lease' = "failed" /\ Fault
          /\ FailStart("launch_failed")
    /\ NoReader
    /\ UNCHANGED <<native, closes, managed, console, doomed, exit_code, result, router, live>>

\* CreateProcessW.  It may fail, or succeed and then fail to publish its
\* result: the creation's ownership record knows the two handles all the same.
CreateProcess ==
    /\ At(Starter, "create")
    /\ \/ /\ native' = native \cup {"process", "thread"}
          /\ owned' = owned \cup {"process", "thread"}
          /\ live' \in {ps \in SUBSET Processes : "root" \in ps}
          /\ \/ /\ NoFault
                /\ Goto(Starter, "retire",
                        [loc[Starter] EXCEPT !.todo = <<"attributes", "thread">> \o Children])
             \/ Fault /\ FailStart("launch_failed")
       \/ /\ UNCHANGED <<native, owned, live>>
          /\ Fault /\ FailStart("launch_failed")
    /\ NoReader
    /\ UNCHANGED <<closes, managed, console, lease, doomed, exit_code, result, router>>

\* The attribute list is deleted, then the thread handle and the child's ends
\* of the pipes are closed; a failed close gives the handle up as well.
RetireHandles ==
    LET l == loc[Starter] IN
    /\ At(Starter, "retire")
    /\ IF l.todo = <<>>
       THEN /\ Goto(Starter, "inspect", l)
            /\ NoFault /\ UNCHANGED <<native, owned, closes, doomed>>
       ELSE LET h == Head(l.todo) IN
            /\ owned' = owned \ {h}
            /\ \/ /\ CloseNative(h, TRUE)
                  /\ Goto(Starter, "retire", [l EXCEPT !.todo = Tail(@)])
               \/ CloseNative(h, FALSE) /\ FailStart("cleanup_failed")
    /\ NoReader
    /\ UNCHANGED <<managed, console, lease, exit_code, result, router, live>>

\* The process is a member of its Job and has reached the private console:
\* it becomes a managed process, which takes the four handles over.
InspectProcess ==
    /\ At(Starter, "inspect")
    /\ \/ /\ "root" \in live /\ NoFault
          /\ managed' = Retained
          /\ owned' = owned \ Retained
          /\ Goto(Starter, "managed", loc[Starter])
       \/ /\ UNCHANGED <<managed, owned>>
          /\ Fault \/ ("root" \notin live /\ NoFault)
          /\ FailStart("launch_failed")
    /\ NoReader
    /\ UNCHANGED <<native, closes, console, lease, doomed, exit_code, result, router, live>>

-----------------------------------------------------------------------------
(* The cleanup of a failed launch.                                            *)
LaunchTerminate ==
    LET l == loc[Starter] IN
    /\ At(Starter, "launch_terminate")
    /\ \/ /\ doomed' = TRUE /\ NoFault
          /\ Goto(Starter, "launch_wait", l)
       \/ /\ UNCHANGED doomed /\ Fault
          /\ Goto(Starter, "launch_wait", [l EXCEPT !.failed = TRUE])
    /\ NoReader
    /\ UNCHANGED <<native, closes, owned, managed, console, lease, exit_code, result,
                   router, live>>

\* Wait for the process, then poll the Job until it is empty or time is up; the
\* wait may fail or run out of time and the Job be seen empty after it.
LaunchWait ==
    LET l == loc[Starter] IN
    /\ At(Starter, "launch_wait")
    /\ \/ live = {} /\ Goto(Starter, "launch_close", [l EXCEPT !.empty = TRUE])
       \/ \E seen \in BOOLEAN :
            /\ seen => live = {}
            /\ Goto(Starter, "launch_close", [l EXCEPT !.failed = TRUE, !.empty = seen])
    /\ NoFault
    /\ NoReader
    /\ UNCHANGED <<native, closes, owned, managed, console, lease, doomed, exit_code, result,
                   router, live>>

\* Mutant: a close that fails in the cleanup is not counted.
LaunchCloseQuietly ==
    LET l == loc[Starter] IN
    /\ At(Starter, "launch_close")
    /\ IF l.todo = <<>>
       THEN /\ Goto(Starter, "launch_console", l)
            /\ owned' = {}
            /\ NoFault /\ UNCHANGED <<native, closes, doomed>>
       ELSE IF Head(l.todo) \notin owned
       THEN /\ Goto(Starter, "launch_close", [l EXCEPT !.todo = Tail(@)])
            /\ NoFault /\ UNCHANGED <<native, closes, owned, doomed>>
       ELSE \E ok \in BOOLEAN :
            /\ CloseNative(Head(l.todo), ok)
            /\ UNCHANGED owned
            /\ Goto(Starter, "launch_close", [l EXCEPT !.todo = Tail(@)])
    /\ NoReader
    /\ UNCHANGED <<managed, console, lease, exit_code, result, router, live>>

\* What is owned is closed, in the order opposite to its creation.
LaunchClose ==
    LET l == loc[Starter] IN
    /\ At(Starter, "launch_close")
    /\ IF l.todo = <<>>
       THEN /\ Goto(Starter, "launch_console", l)
            /\ owned' = {}
            /\ NoFault /\ UNCHANGED <<native, closes, doomed>>
       ELSE IF Head(l.todo) \notin owned
       THEN /\ Goto(Starter, "launch_close", [l EXCEPT !.todo = Tail(@)])
            /\ NoFault /\ UNCHANGED <<native, closes, owned, doomed>>
       ELSE \E ok \in BOOLEAN :
            /\ CloseNative(Head(l.todo), ok)
            /\ UNCHANGED owned
            /\ Goto(Starter, "launch_close",
                    [l EXCEPT !.todo = Tail(@), !.failed = @ \/ ~ok])
    /\ NoReader
    /\ UNCHANGED <<managed, console, lease, exit_code, result, router, live>>

\* The console goes only with a Job seen empty and nothing gone wrong.
LaunchFreeConsole ==
    LET l == loc[Starter]
        free == l.empty /\ ~l.failed IN
    /\ At(Starter, "launch_console")
    /\ IF console = "private" /\ free
       THEN \/ /\ console' = "freed" /\ NoFault
               /\ Goto(Starter, "launch_release", l)
            \/ /\ UNCHANGED console /\ Fault
               /\ Goto(Starter, "launch_release", [l EXCEPT !.failed = TRUE])
       ELSE /\ UNCHANGED console /\ NoFault
            /\ Goto(Starter, "launch_release",
                    [l EXCEPT !.failed = @ \/ console = "private"])
    /\ NoReader
    /\ UNCHANGED <<native, closes, owned, managed, lease, doomed, exit_code, result, router,
                   live>>

\* _release_llama_run_artifact_lease, from any state but released: the state
\* changes first, so that a failed close of the files is never retried.
ReleaseLease ==
    /\ lease # "released"
    /\ lease' = "released"

\* Release the lease and probe that its files can be opened again; both may
\* fail, and a deadline that has passed on the way is reported as a failure.
LaunchRelease ==
    LET l == loc[Starter] IN
    /\ At(Starter, "launch_release")
    /\ ReleaseLease
    /\ \/ Returns(Starter, IF l.failed \/ l.code = "cleanup_failed"
                           THEN "cleanup_failed" ELSE "error")
       \/ Returns(Starter, "cleanup_failed")
    /\ NoFault
    /\ NoReader
    /\ UNCHANGED <<loc, native, closes, owned, managed, console, doomed, exit_code, router,
                   live>>

StartStep ==
    \/ ClaimLease \/ AllocateConsole \/ AcquireHandles \/ BeginPrelaunch
    \/ EndPrelaunch \/ CreateProcess \/ RetireHandles \/ InspectProcess
    \/ LaunchTerminate \/ LaunchWait \/ LaunchClose \/ LaunchFreeConsole
    \/ LaunchRelease
=============================================================================
