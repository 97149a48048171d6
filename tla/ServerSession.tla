----------------------------- MODULE ServerSession -----------------------------
(* The life of one contained llama.cpp process (feasibility/llama_slice.py):   *)
(* started, drained by two log readers, published as a session, and stopped    *)
(* exactly once -- gracefully, by abort, or by the unwinding of a failed start. *)
(*                                                                             *)
(* mode says which caller the starting thread is:                              *)
(*   session  start_llama_server_windows_session: the process is known to other *)
(*            threads once the session is returned;                            *)
(*   raw      start_llama_server_atomic_windows, then                          *)
(*            start_llama_windows_log_readers: other threads may abort the      *)
(*            process while its readers are being started;                     *)
(*   probe    run_llama_one_shot_windows_probe: nobody else knows the process.  *)
(* A deadline may have passed at each test of the clock.                       *)
EXTENDS ProcessStart

CONSTANTS
    Closers,          \* threads that shut the process down or abort it
    StreamOrder,      \* the order the readers are started, cancelled and joined
    Modes             \* the modes explored

ASSUME ThreadsAssumption == Starter \in Threads /\ Closers \subseteq Threads \ {Starter}
ASSUME StreamsAssumption ==
    /\ Streams \subseteq {"stdout", "stderr"}
    /\ StreamOrder \in Seq(Streams) /\ ToSet(StreamOrder) = Streams

VARIABLES
    mode,
    attached,         \* process._log_readers is set
    adopted,          \* process._startup_session is set: the session is live
    closed,           \* process._closed
    ctrl_c,           \* _ctrl_c_ignore_enabled
    uncertain,        \* _handle_close_uncertain
    signalled         \* the console has been sent a Ctrl-C

sessionVars == <<mode, attached, adopted, closed, ctrl_c, uncertain, signalled>>
vars == <<logVars, startVars, sessionVars>>

Init ==
    /\ ReaderInit
    /\ pc = [t \in Threads |-> IF t = Starter THEN "claim" ELSE "idle"]
    /\ loc = [t \in Threads |-> Locals("none")]
    /\ native = {} /\ owned = {} /\ managed = {}
    /\ closes = [h \in Handles |-> 0]
    /\ console = "inherited" /\ lease = "prepared"
    /\ doomed = FALSE /\ exit_code = "none"
    /\ result = [t \in Threads |-> "none"]
    /\ faults = 0
    /\ mode \in Modes
    /\ attached = FALSE /\ adopted = FALSE /\ closed = FALSE
    /\ ctrl_c = FALSE /\ uncertain = FALSE /\ signalled = FALSE

(* Frames: what most steps leave alone.                                       *)
NoLaunch == UNCHANGED <<owned, exit_code, mode>>
NoHandles == UNCHANGED <<native, closes, managed, console, uncertain>>
NoClaim == UNCHANGED <<attached, adopted, closed>>
NoSignal == UNCHANGED <<ctrl_c, signalled>>
NoReaders == UNCHANGED <<readerVars, cancelVars, router>>

Claimed == closed' = TRUE /\ ~closed /\ UNCHANGED <<attached, adopted>>

-----------------------------------------------------------------------------
(* The environment: processes end, on their own or with their Job; only a     *)
(* console Ctrl-C (or a probe's own end) makes the root end with code 0.       *)
ProcessesEnd ==
    /\ live # {}
    /\ live' \in SUBSET live /\ live' # live
    /\ exit_code' \in IF "root" \in live \ live'
                      THEN {"nonzero"} \cup (IF (signalled \/ mode = "probe") /\ ~doomed
                                             THEN {"zero"} ELSE {})
                      ELSE {exit_code}
    /\ UNCHANGED <<readerVars, cancelVars, router, pc, loc, native, closes, owned,
                   managed, console, lease, doomed, result, faults, sessionVars>>

\* A reader's own step.  Its system calls share the bound on faults.
ReaderRuns(r) ==
    /\ \/ /\ NoFault
          /\ \/ OpenThread(r) \/ PublishThread(r) \/ CheckCancelled(r)
             \/ ObserveCancel(r) \/ IssueRead(r) \/ ReadEof(r) \/ ReadAborted(r)
             \/ WithdrawThread(r) \/ CloseThread(r, TRUE)
             \/ \E news \in {"nothing", "port", "malformed"} : ReadData(r, news)
       \/ /\ Fault
          /\ OpenFails(r) \/ ReadFails(r) \/ CloseThread(r, FALSE)
    /\ UNCHANGED <<pc, loc, native, closes, owned, managed, console, lease, doomed,
                   exit_code, result, sessionVars>>

Step(t, p, q, l) == At(t, p) /\ Goto(t, q, l)

-----------------------------------------------------------------------------
(* start_llama_windows_log_readers.                                           *)

\* A failed start: a raw caller is told, a session or a probe unwinds.
StartFails(l) ==
    LET code == IF l.failed THEN "cleanup_failed" ELSE "error" IN
    IF mode = "raw"
    THEN Returns(Starter, code) /\ UNCHANGED loc
    ELSE Goto(Starter, "unwind", [l EXCEPT !.code = code]) /\ UNCHANGED result

\* Under the process's lock: not closed, no readers attached before.
AttachReaders ==
    LET l == loc[Starter] IN
    /\ At(Starter, "managed")
    /\ IF closed
       THEN StartFails(l) /\ UNCHANGED attached
       ELSE /\ attached' = TRUE
            /\ Goto(Starter, "start_reader", [l EXCEPT !.todo = StreamOrder])
            /\ UNCHANGED result
    /\ NoLaunch /\ NoHandles /\ NoSignal /\ NoReaders /\ NoFault
    /\ UNCHANGED <<adopted, closed, lease, doomed, live>>

\* Thread.start may raise, and the thread run all the same.
StartReaders ==
    LET l == loc[Starter] IN
    /\ At(Starter, "start_reader")
    /\ \/ /\ l.todo = <<>>
          /\ \/ mode = "raw" /\ Returns(Starter, "readers") /\ UNCHANGED loc
             \/ mode = "session" /\ Goto(Starter, "poll", l) /\ UNCHANGED result
             \/ /\ mode = "probe" /\ UNCHANGED result
                /\ Goto(Starter, "wait", [l EXCEPT !.kind = "probe"])
          /\ NoFault /\ NoReaders /\ UNCHANGED live
       \/ /\ l.todo # <<>> /\ NoFault
          /\ StartReader(Head(l.todo))
          /\ Goto(Starter, "start_reader", [l EXCEPT !.todo = Tail(@)])
          /\ UNCHANGED result
       \/ /\ l.todo # <<>> /\ Fault
          /\ StartReader(Head(l.todo)) \/ (NoReaders /\ UNCHANGED live)
          /\ Goto(Starter, "start_failed", l)
          /\ UNCHANGED result
    /\ NoLaunch /\ NoHandles /\ NoClaim /\ NoSignal
    /\ UNCHANGED <<lease, doomed>>

\* Every reader is then cancelled and joined, those not started as well.
FailReaders ==
    /\ FailRouter
    /\ Step(Starter, "start_failed", "start_cancel",
            [loc[Starter] EXCEPT !.todo = StreamOrder])
    /\ UNCHANGED <<result, lease, doomed, faults>>
    /\ NoLaunch /\ NoHandles /\ NoClaim /\ NoSignal

-----------------------------------------------------------------------------
(* Cancelling and joining the readers one after the other, in the cleanup of  *)
(* a failed start of the readers and in the forced cleanup; the graceful       *)
(* shutdown only joins them.                                                   *)
CancelPlaces == {"start_cancel", "forced_cancel"}
JoinPlaces == {"start_join", "forced_join", "join"}

Attached == IF attached THEN StreamOrder ELSE <<>>

\* With no time left in the forced cleanup the cancel is given 0.0 seconds.
BeginCancel(t) ==
    LET l == loc[t] IN
    /\ pc[t] \in CancelPlaces /\ l.todo # <<>>
    /\ \E zero \in IF pc[t] = "forced_cancel" THEN BOOLEAN ELSE {FALSE} :
         /\ EnterCancel(t, Head(l.todo), zero)
         /\ Goto(t, pc[t], [l EXCEPT !.failed = @ \/ zero])
    /\ UNCHANGED <<result, lease, doomed, faults>>
    /\ NoLaunch /\ NoHandles /\ NoClaim /\ NoSignal

ContinueCancel(t) ==
    /\ CancelStep(t)
    /\ UNCHANGED <<pc, loc, result, lease, doomed, faults>>
    /\ NoLaunch /\ NoHandles /\ NoClaim /\ NoSignal

EndCancel(t) ==
    /\ CancelReturn(t)
    /\ Goto(t, pc[t], [loc[t] EXCEPT !.todo = Tail(@),
                                     !.failed = @ \/ cancelling[t].at = "failed"])
    /\ UNCHANGED <<result, lease, doomed, faults>>
    /\ NoLaunch /\ NoHandles /\ NoClaim /\ NoSignal

AllCancelled(t) ==
    LET l == loc[t] IN
    /\ l.todo = <<>>
    /\ \/ Step(t, "start_cancel", "start_join", [l EXCEPT !.todo = StreamOrder])
       \/ Step(t, "forced_cancel", "forced_wait", l)
    /\ UNCHANGED <<result, lease, doomed, live, faults>>
    /\ NoLaunch /\ NoHandles /\ NoClaim /\ NoSignal /\ NoReaders

\* The graceful path stops at its first error; a probe then unwinds, and a
\* shutdown looks at what it has left to clean (ShutdownFailed).
Fails(t, code) ==
    Goto(t, IF loc[t].kind = "probe" THEN "unwind" ELSE "shutdown_failed",
         [loc[t] EXCEPT !.code = code])

\* Mutant: the cleanups join a reader for as long as it takes.
JoinUntilStopped(t) ==
    LET l == loc[t]
        r == Head(l.todo)
        next == [l EXCEPT !.todo = Tail(@)] IN
    /\ l.todo # <<>>
    /\ \/ /\ pc[t] \in JoinPlaces /\ Stopped(r)
          /\ Goto(t, pc[t], [next EXCEPT !.failed = @ \/ JoinRaises(r)])
       \/ pc[t] = "join" /\ Fails(t, "shutdown_timeout")
    /\ UNCHANGED <<result, lease, doomed, live, faults>>
    /\ NoLaunch /\ NoHandles /\ NoClaim /\ NoSignal /\ NoReaders

\* One join: the reader has stopped, with or without an error, or time is up.
\* The forced cleanup counts a reader that stopped with an error as joined.
JoinReader(t) ==
    LET l == loc[t]
        r == Head(l.todo)
        next == [l EXCEPT !.todo = Tail(@)]
        bad == [next EXCEPT !.failed = TRUE] IN
    /\ l.todo # <<>>
    /\ \/ /\ pc[t] \in JoinPlaces /\ Stopped(r) /\ ~JoinRaises(r)
          /\ Goto(t, pc[t], next)
       \/ /\ pc[t] \in {"start_join", "forced_join"} /\ JoinRaises(r)
          /\ Goto(t, pc[t], bad)
       \/ /\ pc[t] \in {"start_join", "forced_join"} /\ ~Stopped(r)
          /\ Goto(t, pc[t], [bad EXCEPT !.joined = FALSE])
       \/ /\ pc[t] = "join"
          /\ Fails(t, IF JoinRaises(r) THEN "reader_failed" ELSE "shutdown_timeout")
    /\ UNCHANGED <<result, lease, doomed, live, faults>>
    /\ NoLaunch /\ NoHandles /\ NoClaim /\ NoSignal /\ NoReaders

\* A probe requires both outcomes to be complete before it goes on.
AllJoined(t) ==
    LET l == loc[t] IN
    /\ l.todo = <<>>
    /\ \/ /\ At(t, "start_join") /\ StartFails(l)
       \/ /\ UNCHANGED result
          /\ \/ Step(t, "forced_join", "forced_job", l)
             \/ /\ At(t, "join")
                /\ IF l.kind = "probe" /\ \E r \in Streams : outcome[r] # "eof"
                   THEN Fails(t, "reader_failed")
                   ELSE Goto(t, "job", l)
    /\ UNCHANGED <<lease, doomed, live, faults>>
    /\ NoLaunch /\ NoHandles /\ NoClaim /\ NoSignal /\ NoReaders

-----------------------------------------------------------------------------
(* _start_llama_server_windows_session_impl, once the readers run.            *)
StartupHealthy ==
    "root" \in live /\ \A r \in Streams : Running(r)

\* Poll until the router has the port; anything else, or the deadline, unwinds.
PollStartup ==
    /\ \/ /\ StartupHealthy /\ router = "port"
          /\ Step(Starter, "poll", "adopt", loc[Starter])
       \/ Step(Starter, "poll", "unwind", [loc[Starter] EXCEPT !.code = "startup_failed"])
    /\ UNCHANGED <<result, lease, doomed, live, faults>>
    /\ NoLaunch /\ NoHandles /\ NoClaim /\ NoSignal /\ NoReaders

\* The session object exists; everything is looked at once more ...
RecheckStartup ==
    /\ \/ /\ StartupHealthy /\ router = "port"
          /\ Step(Starter, "adopt", "bind", loc[Starter])
       \/ Step(Starter, "adopt", "unwind", [loc[Starter] EXCEPT !.code = "startup_failed"])
    /\ UNCHANGED <<result, lease, doomed, live, faults>>
    /\ NoLaunch /\ NoHandles /\ NoClaim /\ NoSignal /\ NoReaders

\* ... and then, under the process's lock, the session is attached.
BindSession ==
    /\ At(Starter, "bind")
    /\ IF closed \/ adopted
       THEN /\ Goto(Starter, "unwind", [loc[Starter] EXCEPT !.code = "invalid_configuration"])
            /\ UNCHANGED <<result, adopted>>
       ELSE /\ adopted' = TRUE
            /\ Returns(Starter, "session") /\ UNCHANGED loc
    /\ UNCHANGED <<attached, closed, lease, doomed, live, faults>>
    /\ NoLaunch /\ NoHandles /\ NoSignal /\ NoReaders

\* The unwinding of a session's start or of a probe: fail the router, claim the
\* process and clean it up by force, unless somebody has claimed it before; what
\* the start itself made of its joins is forgotten.
Unwind ==
    LET l == [loc[Starter] EXCEPT !.kind = "start", !.joined = TRUE] IN
    /\ At(Starter, "unwind")
    /\ router' = "failed"
    /\ IF closed
       THEN Returns(Starter, "invalid") /\ UNCHANGED <<loc, closed, attached, adopted>>
       ELSE Claimed /\ Goto(Starter, "forced_terminate", l) /\ UNCHANGED result
    /\ NoLaunch /\ NoHandles /\ NoSignal
    /\ UNCHANGED <<readerVars, cancelVars, lease, doomed, live, faults>>

-----------------------------------------------------------------------------
(* The callers that stop a process they know; the first to set _closed does.  *)
Known == \/ mode = "session" /\ adopted
         \/ mode = "raw" /\ (managed # {} \/ closed)

Claim(t, kind, place) ==
    /\ IF closed
       THEN Returns(t, "invalid") /\ UNCHANGED <<loc, closed, attached, adopted>>
       ELSE Claimed /\ Goto(t, place, Locals(kind)) /\ UNCHANGED result
    /\ UNCHANGED <<lease, doomed, live, faults>>
    /\ NoLaunch /\ NoHandles /\ NoSignal /\ NoReaders

\* abort_llama_server_atomic_windows
Abort(t) ==
    /\ At(t, "idle") /\ Known
    /\ Claim(t, "abort", "forced_terminate")

\* shutdown_llama_server_windows_session of a live session, or
\* shutdown_llama_server_atomic_windows of a process whose readers were returned
Shutdown(t) ==
    /\ At(t, "idle") /\ Known
    /\ mode = "raw" => result[Starter] = "readers"
    /\ Claim(t, "shutdown", "signal")

-----------------------------------------------------------------------------
(* _run_llama_windows_graceful_shutdown; a probe takes its part from "wait",   *)
(* where its process ends by itself.                                           *)

\* Only the supervisor and the root may be on the console; then Ctrl-C is
\* ignored here, and sent to the console.
SignalRoot(t) ==
    LET l == loc[t] IN
    /\ At(t, "signal")
    /\ \/ /\ "root" \in live /\ NoFault
          /\ ctrl_c' = TRUE /\ signalled' = TRUE
          /\ Goto(t, "wait", l)
       \/ /\ "root" \in live /\ Fault
          /\ ctrl_c' = TRUE /\ UNCHANGED signalled
          /\ Goto(t, "unsignal", l)
       \/ /\ ("root" \notin live /\ NoFault) \/ Fault
          /\ UNCHANGED <<ctrl_c, signalled>>
          /\ Fails(t, "console_failed")
    /\ UNCHANGED <<result, lease, doomed, live>>
    /\ NoLaunch /\ NoHandles /\ NoClaim /\ NoReaders

\* _restore_llama_windows_ctrl_c_ignore, after a signal that was not sent.
UndoSignal(t) ==
    /\ At(t, "unsignal")
    /\ \/ ctrl_c' = FALSE /\ NoFault /\ Fails(t, "signal_failed")
       \/ UNCHANGED ctrl_c /\ Fault /\ Fails(t, "cleanup_failed")
    /\ UNCHANGED <<signalled, result, lease, doomed, live>>
    /\ NoLaunch /\ NoHandles /\ NoClaim /\ NoReaders

WaitRoot(t) ==
    /\ \/ /\ "root" \notin live
          /\ Step(t, "wait", "restore", loc[t])
       \/ At(t, "wait") /\ Fails(t, "shutdown_timeout")
    /\ UNCHANGED <<result, lease, doomed, live, faults>>
    /\ NoLaunch /\ NoHandles /\ NoClaim /\ NoSignal /\ NoReaders

\* Mutant: the exit code is not looked at.
RestoreUnexamined(t) ==
    /\ At(t, "restore")
    /\ \/ /\ ctrl_c' = FALSE /\ NoFault
          /\ Goto(t, "join", [loc[t] EXCEPT !.todo = StreamOrder])
       \/ /\ ctrl_c /\ Fault
          /\ UNCHANGED ctrl_c
          /\ Fails(t, "cleanup_failed")
    /\ UNCHANGED <<signalled, result, lease, doomed, live>>
    /\ NoLaunch /\ NoHandles /\ NoClaim /\ NoReaders

\* The Ctrl-C handling is restored before the exit code is looked at.
RestoreAndExamine(t) ==
    /\ At(t, "restore")
    /\ \/ /\ ctrl_c' = FALSE /\ NoFault
          /\ \/ exit_code = "zero" /\ Goto(t, "join", [loc[t] EXCEPT !.todo = StreamOrder])
             \/ Fails(t, IF exit_code = "zero" THEN "shutdown_timeout" ELSE "nonzero_exit")
       \/ /\ ctrl_c /\ Fault
          /\ UNCHANGED ctrl_c
          /\ Fails(t, "cleanup_failed")
    /\ UNCHANGED <<signalled, result, lease, doomed, live>>
    /\ NoLaunch /\ NoHandles /\ NoClaim /\ NoReaders

AwaitEmptyJob(t) ==
    /\ \/ live = {} /\ Step(t, "job", "verify", loc[t])
       \/ At(t, "job") /\ Fails(t, "job_not_empty")
    /\ UNCHANGED <<result, lease, doomed, live, faults>>
    /\ NoLaunch /\ NoHandles /\ NoClaim /\ NoSignal /\ NoReaders

\* _verify_llama_run_artifact_lease_post_run
BeginVerify(t) ==
    /\ lease = "bound"
    /\ lease' = "verifying"
    /\ Step(t, "verify", "verifying", loc[t])
    /\ UNCHANGED <<result, doomed, live, faults>>
    /\ NoLaunch /\ NoHandles /\ NoClaim /\ NoSignal /\ NoReaders

CloseGracefully(t) ==
    Goto(t, "close", [loc[t] EXCEPT !.clean = ~uncertain /\ ~ctrl_c, !.empty = TRUE,
                                    !.todo = <<"process", "stderr", "stdout", "job">>])

EndVerify(t) ==
    /\ At(t, "verifying")
    /\ \/ /\ lease' = "verified" /\ NoFault
          /\ IF loc[t].kind = "probe" THEN Goto(t, "claim_probe", loc[t])
             ELSE CloseGracefully(t)
       \/ /\ lease' = "failed" /\ Fault
          /\ Fails(t, "postcondition_failed")
    /\ UNCHANGED <<result, doomed, live>>
    /\ NoLaunch /\ NoHandles /\ NoClaim /\ NoSignal /\ NoReaders

\* A probe that has succeeded claims its process only now.
ClaimProbe(t) ==
    /\ At(t, "claim_probe")
    /\ Claimed
    /\ CloseGracefully(t)
    /\ UNCHANGED <<result, lease, doomed, live, faults>>
    /\ NoLaunch /\ NoHandles /\ NoSignal /\ NoReaders

-----------------------------------------------------------------------------
(* _close_llama_windows_managed_resources, and after it the lease: the end of  *)
(* the graceful path and of the forced cleanup.                               *)
Forced(t) == loc[t].kind \in {"start", "abort", "forced"}

\* Mutant: the field is emptied after the close, and not when that fails.
CloseThenEmpty(t) ==
    LET l == loc[t]
        h == Head(l.todo)
        next == [l EXCEPT !.todo = Tail(@)] IN
    /\ At(t, "close") /\ l.todo # <<>>
    /\ IF h \notin managed
       THEN /\ Goto(t, "close", next)
            /\ NoFault /\ UNCHANGED <<managed, native, closes, uncertain, doomed>>
       ELSE \/ /\ managed' = managed \ {h}
               /\ CloseNative(h, TRUE)
               /\ Goto(t, "close", next) /\ UNCHANGED uncertain
            \/ /\ UNCHANGED managed
               /\ CloseNative(h, FALSE)
               /\ uncertain' = TRUE
               /\ Goto(t, "close", [next EXCEPT !.clean = FALSE, !.code = "memory"])
    /\ UNCHANGED <<console, result, lease, live>>
    /\ NoLaunch /\ NoClaim /\ NoSignal /\ NoReaders

\* A field is emptied before its handle is closed, so no close is retried.
\* An ordinary error and a MemoryError differ in what the caller does next.
CloseManaged(t) ==
    LET l == loc[t]
        h == Head(l.todo)
        next == [l EXCEPT !.todo = Tail(@)] IN
    /\ At(t, "close") /\ l.todo # <<>>
    /\ IF h \notin managed
       THEN /\ Goto(t, "close", next)
            /\ NoFault /\ UNCHANGED <<managed, native, closes, uncertain, doomed>>
       ELSE /\ managed' = managed \ {h}
            /\ \/ /\ CloseNative(h, TRUE)
                  /\ Goto(t, "close", next) /\ UNCHANGED uncertain
               \/ /\ CloseNative(h, FALSE)
                  /\ uncertain' = TRUE
                  /\ \E code \in {"cleanup_failed", "memory"} :
                       Goto(t, "close", [next EXCEPT !.clean = FALSE, !.code = code])
    /\ UNCHANGED <<console, result, lease, live>>
    /\ NoLaunch /\ NoClaim /\ NoSignal /\ NoReaders

\* The console is freed last, and only if nothing is left or in doubt.
FreeConsole(t) ==
    LET l == loc[t]
        free == /\ console = "private" /\ l.joined /\ l.empty
                /\ managed = {} /\ ~ctrl_c /\ ~uncertain /\ l.clean IN
    /\ At(t, "close") /\ l.todo = <<>>
    /\ \/ /\ IF free THEN console' = "freed" ELSE UNCHANGED console
          /\ Goto(t, "release", l)
          /\ NoFault /\ UNCHANGED uncertain
       \/ /\ free /\ Fault
          /\ uncertain' = TRUE /\ UNCHANGED console
          /\ \E code \in {"cleanup_failed", "memory"} :
               Goto(t, "release", [l EXCEPT !.clean = FALSE, !.code = code])
    /\ UNCHANGED <<native, closes, managed, result, lease, doomed, live>>
    /\ NoLaunch /\ NoClaim /\ NoSignal /\ NoReaders

\* The lease is released whatever became of the handles.
ReleaseManaged(t) ==
    LET l == loc[t] IN
    /\ At(t, "release")
    /\ IF lease = "released" THEN UNCHANGED lease /\ NoFault
       ELSE ReleaseLease /\ (NoFault \/ Fault)
    /\ Goto(t, "report",
            IF faults' = faults THEN l
            ELSE [l EXCEPT !.failed = TRUE,
                           !.code = IF l.clean THEN "cleanup_failed" ELSE @])
    /\ UNCHANGED <<result, doomed, live>>
    /\ NoLaunch /\ NoHandles /\ NoClaim /\ NoSignal /\ NoReaders

\* What the call returns.  The session's evidence asks for two complete logs
\* and for the port the session was started with, a raw shutdown's does not; the
\* forced cleanup also probes that the artifacts can be opened again, and
\* reports a late end.
Report(t) ==
    LET l == loc[t]
        clean == l.clean /\ ~l.failed
        logged == router # "failed" /\ \A r \in Streams : outcome[r] = "eof" IN
    /\ At(t, "report")
    /\ \/ /\ Forced(t)
          /\ \/ Returns(t, IF ~clean \/ l.code = "cleanup_failed" THEN "cleanup_failed"
                           ELSE IF l.kind = "abort" THEN "ok" ELSE "error")
             \/ Returns(t, "cleanup_failed")
          /\ NoFault /\ UNCHANGED loc
       \/ /\ ~Forced(t) /\ clean /\ NoFault
          /\ Returns(t, IF mode = "raw" \/ logged THEN "evidence" ELSE "error")
          /\ UNCHANGED loc
       \/ /\ ~Forced(t) /\ ~clean /\ NoFault
          /\ IF l.kind = "probe" THEN Returns(t, "cleanup_failed") /\ UNCHANGED loc
             ELSE Goto(t, "shutdown_failed", l) /\ UNCHANGED result
    /\ UNCHANGED <<lease, doomed, live>>
    /\ NoLaunch /\ NoHandles /\ NoClaim /\ NoSignal /\ NoReaders

\* A graceful shutdown that failed cleans up by force, unless closing is what
\* failed and there is nothing left to give back.
ShutdownFailed(t) ==
    LET l == loc[t] IN
    /\ At(t, "shutdown_failed")
    /\ IF l.code = "cleanup_failed" /\ managed = {} /\ lease = "released"
       THEN Returns(t, "cleanup_failed") /\ UNCHANGED loc
       ELSE /\ Goto(t, "forced_terminate", [Locals("forced") EXCEPT !.code = l.code])
            /\ UNCHANGED result
    /\ UNCHANGED <<lease, doomed, live, faults>>
    /\ NoLaunch /\ NoHandles /\ NoClaim /\ NoSignal /\ NoReaders

-----------------------------------------------------------------------------
(* _force_cleanup_llama_windows_process: every step is tried, whatever the     *)
(* ones before it came to.                                                     *)
Tried(t, p, q, ok, l) ==
    Step(t, p, q, IF ok THEN l ELSE [l EXCEPT !.failed = TRUE])

ForcedTerminate(t) ==
    LET l == [loc[t] EXCEPT !.todo = Attached] IN
    /\ \/ /\ "job" \in managed /\ doomed' = TRUE /\ NoFault
          /\ Tried(t, "forced_terminate", "forced_cancel", TRUE, l)
       \/ /\ UNCHANGED doomed
          /\ IF "job" \in managed THEN Fault ELSE NoFault
          /\ Tried(t, "forced_terminate", "forced_cancel", FALSE, l)
    /\ UNCHANGED <<result, lease, live>>
    /\ NoLaunch /\ NoHandles /\ NoClaim /\ NoSignal /\ NoReaders

\* Wait for the root, then restore the Ctrl-C handling if it is still ignored.
ForcedWait(t) ==
    /\ \/ /\ "process" \in managed /\ "root" \notin live /\ NoFault
          /\ Tried(t, "forced_wait", "forced_restore", TRUE, loc[t])
       \/ /\ IF "process" \in managed /\ "root" \notin live THEN Fault ELSE NoFault
          /\ Tried(t, "forced_wait", "forced_restore", FALSE, loc[t])
    /\ UNCHANGED <<result, lease, doomed, live>>
    /\ NoLaunch /\ NoHandles /\ NoClaim /\ NoSignal /\ NoReaders

ForcedRestore(t) ==
    LET l == [loc[t] EXCEPT !.todo = Attached] IN
    /\ \/ /\ ctrl_c' = FALSE /\ NoFault
          /\ Tried(t, "forced_restore", "forced_join", TRUE, l)
       \/ /\ ctrl_c /\ Fault /\ UNCHANGED ctrl_c
          /\ Tried(t, "forced_restore", "forced_join", FALSE, l)
    /\ UNCHANGED <<signalled, result, lease, doomed, live>>
    /\ NoLaunch /\ NoHandles /\ NoClaim /\ NoReaders

\* Mutant: the pipes are closed though a reader may be left.
ForcedJobClosesAll(t) ==
    LET l == loc[t]
        pipes == <<"stderr", "stdout">>
        closing == [l EXCEPT !.todo = <<"process">> \o pipes \o <<"job">>,
                             !.clean = ~uncertain /\ ~ctrl_c /\ l.joined] IN
    /\ \/ /\ "job" \in managed /\ live = {} /\ NoFault
          /\ Tried(t, "forced_job", "close", TRUE, [closing EXCEPT !.empty = TRUE])
       \/ /\ IF "job" \in managed /\ live = {} THEN Fault ELSE NoFault
          /\ Tried(t, "forced_job", "close", FALSE, closing)
    /\ UNCHANGED <<result, lease, doomed, live>>
    /\ NoLaunch /\ NoHandles /\ NoClaim /\ NoSignal /\ NoReaders

\* Mutant: with a reader left the Job is kept as well as the pipes.
ForcedJobKeepsJob(t) ==
    LET l == loc[t]
        rest == IF l.joined THEN <<"stderr", "stdout", "job">> ELSE <<>>
        closing == [l EXCEPT !.todo = <<"process">> \o rest,
                             !.clean = ~uncertain /\ ~ctrl_c /\ l.joined] IN
    /\ \/ /\ "job" \in managed /\ live = {} /\ NoFault
          /\ Tried(t, "forced_job", "close", TRUE, [closing EXCEPT !.empty = TRUE])
       \/ /\ IF "job" \in managed /\ live = {} THEN Fault ELSE NoFault
          /\ Tried(t, "forced_job", "close", FALSE, closing)
    /\ UNCHANGED <<result, lease, doomed, live>>
    /\ NoLaunch /\ NoHandles /\ NoClaim /\ NoSignal /\ NoReaders

\* Poll the Job; then close everything, but a pipe only if no reader is left.
ForcedJob(t) ==
    LET l == loc[t]
        pipes == IF l.joined THEN <<"stderr", "stdout">> ELSE <<>>
        closing == [l EXCEPT !.todo = <<"process">> \o pipes \o <<"job">>,
                             !.clean = ~uncertain /\ ~ctrl_c /\ l.joined] IN
    /\ \/ /\ "job" \in managed /\ live = {} /\ NoFault
          /\ Tried(t, "forced_job", "close", TRUE, [closing EXCEPT !.empty = TRUE])
       \/ /\ IF "job" \in managed /\ live = {} THEN Fault ELSE NoFault
          /\ Tried(t, "forced_job", "close", FALSE, closing)
    /\ UNCHANGED <<result, lease, doomed, live>>
    /\ NoLaunch /\ NoHandles /\ NoClaim /\ NoSignal /\ NoReaders

-----------------------------------------------------------------------------
LaunchStep == StartStep /\ UNCHANGED sessionVars

StarterStep ==
    \/ LaunchStep \/ AttachReaders \/ StartReaders \/ FailReaders \/ PollStartup
    \/ RecheckStartup \/ BindSession \/ Unwind

CleanupStep(t) ==
    \/ BeginCancel(t) \/ ContinueCancel(t) \/ EndCancel(t) \/ AllCancelled(t)
    \/ JoinReader(t) \/ AllJoined(t)
    \/ SignalRoot(t) \/ UndoSignal(t) \/ WaitRoot(t) \/ RestoreAndExamine(t)
    \/ AwaitEmptyJob(t) \/ BeginVerify(t) \/ EndVerify(t) \/ ClaimProbe(t)
    \/ CloseManaged(t) \/ FreeConsole(t) \/ ReleaseManaged(t) \/ Report(t)
    \/ ShutdownFailed(t) \/ ForcedTerminate(t) \/ ForcedWait(t) \/ ForcedRestore(t)
    \/ ForcedJob(t)

ThreadStep(t) == (t = Starter /\ StarterStep) \/ CleanupStep(t)

\* Every call has returned, or was never possible.
AllEnded ==
    /\ \A t \in Threads : pc[t] \in {"idle", "done"}
    /\ \A r \in Streams : Stopped(r)
    /\ live = {}
    /\ UNCHANGED vars

Next ==
    \/ \E t \in Threads : ThreadStep(t)
    \/ \E t \in Closers : Abort(t) \/ Shutdown(t)
    \/ \E r \in Streams : ReaderRuns(r)
    \/ ProcessesEnd
    \/ AllEnded

\* A thread runs on while it can; a reader's read returns when it is cancelled
\* or at the end of the stream, though nobody promises it bytes; and the
\* processes of a terminated or closed Job end.
Fairness ==
    /\ \A t \in Threads : WF_vars(ThreadStep(t))
    /\ \A r \in Streams : WF_vars(ReaderRuns(r) /\ ~(step[r] = "pending" /\ live # {} /\ ~aborted[r]))
    /\ WF_vars(doomed /\ ProcessesEnd)

Spec == Init /\ [][Next]_vars /\ Fairness

-----------------------------------------------------------------------------
Places == {"claim", "console", "acquire", "prelaunch", "verify_launch", "create",
           "retire", "inspect", "launch_terminate", "launch_wait", "launch_close",
           "launch_console", "launch_release", "managed", "start_reader",
           "start_failed", "start_cancel", "start_join", "poll", "adopt", "bind", "unwind",
           "idle", "signal", "unsignal", "wait", "restore", "join", "job", "verify",
           "verifying", "claim_probe", "close", "release", "report",
           "shutdown_failed", "forced_terminate", "forced_cancel", "forced_wait",
           "forced_restore", "forced_join", "forced_job", "done"}

TypeOK ==
    /\ ReaderTypeOK
    /\ pc \in [Threads -> Places]
    /\ native \subseteq Handles /\ owned \subseteq Handles
    /\ managed \subseteq Retained
    /\ closes \in [Handles -> Nat]
    /\ console \in {"inherited", "private", "freed"}
    /\ lease \in {"prepared", "bound", "verifying_launch", "verifying", "verified",
                  "failed", "released"}
    /\ exit_code \in {"none", "zero", "nonzero"}
    /\ result \in [Threads -> {"none", "ok", "error", "cleanup_failed", "invalid",
                               "readers", "session", "evidence"}]
    /\ faults \in 0 .. MaxFaults
    /\ {attached, adopted, closed, ctrl_c, uncertain, signalled, doomed} \subseteq BOOLEAN

(* No ReadFile is issued, or still pending, on a pipe handle that has been     *)
(* closed -- whoever closed it, and whenever the reader's thread got to start: *)
(* an abort that finds a reader not yet started counts it as joined and closes *)
(* its pipe, and the thread may start after that.                             *)
NoReadOnClosedPipe ==
    \A r \in Streams : step[r] \in {"issuing", "pending"} => r \in native

(* CloseHandle is called at most once for every handle, over the launch, its   *)
(* cleanup, a graceful shutdown, and the forced cleanup that may follow it: a  *)
(* second call could close what another part of the process has been given.    *)
ClosedOnce == \A h \in Handles : closes[h] <= 1

\* Everything the process was started with has been given back.
AllGivenBack ==
    /\ live = {} /\ native = {} /\ ~ctrl_c
    /\ lease = "released" /\ console # "private"

(* A call that reports a clean end has left nothing behind: an abort that      *)
(* returns, a shutdown or a start that raises anything but cleanup_failed, and *)
(* a shutdown or a probe that returns its evidence.  And the private console   *)
(* is freed only when no process is left on it and the Job and pipes closed.   *)
CleanEndIsClean ==
    /\ console = "freed" => live = {} /\ Retained \cap native = {}
    /\ \A t \in Closers : result[t] \in {"ok", "error", "evidence"} => AllGivenBack
    /\ result[Starter] = "evidence" => AllGivenBack
    /\ result[Starter] = "error" /\ (mode # "raw" \/ (managed = {} /\ ~closed))
           => AllGivenBack

(* Evidence is about a run that ended by itself with code 0, whose readers     *)
(* have stopped -- for a session or a probe at the end of both logs -- and     *)
(* whose artifacts were verified after the last process had gone.              *)
EvidenceIsSound ==
    /\ \A t \in Threads : result[t] = "evidence" =>
          /\ exit_code = "zero"
          /\ \A r \in Streams : step[r] = "finished" /\ (mode # "raw" => outcome[r] = "eof")
    /\ lease \in {"verifying", "verified"} => live = {}

(* A process that was claimed, or whose launch failed after its creation, ends: *)
(* its Job is terminated or closed even when one system call on the way fails.  *)
ClaimedProcessEnds ==
    (closed \/ pc[Starter] = "launch_terminate") ~> (live = {})

(* Every call returns: no wait for a reader, for another thread's cancel, for   *)
(* the process or for its Job is without end.                                   *)
CallsReturn ==
    \A t \in Threads : pc[t] \notin {"idle", "done"} ~> pc[t] = "done"

(* A reader whose cancel has reported success stops, though its pipe may stay   *)
(* open and silent for ever.                                                    *)
CancelledReaderStops ==
    \A r \in Streams :
        cancel_result[r] = "complete" /\ step[r] # "created" ~> step[r] = "finished"
=============================================================================
