------------------------------ MODULE LogReaders ------------------------------
(* The two threads that drain a server's stdout and stderr pipes             *)
(* (feasibility/llama_slice.py, LlamaWindowsPipeLogReaderTask), and the      *)
(* protocol by which another thread cancels a reader that is blocked in      *)
(* ReadFile.  CancelSynchronousIo reaches a thread only while its read is     *)
(* pending, so a cancel that arrives between the reader's check of the flag   *)
(* and its ReadFile finds nothing to cancel and has to be tried again; the    *)
(* thread handle it needs is opened and closed by the reader itself.          *)
(*                                                                            *)
(* One action is one section under the reader's lock, or one system call.     *)
(* Deadlines are not counted: at each test of the clock the deadline may have *)
(* passed.  The clock itself does not fail (time.monotonic never raises).     *)
EXTENDS Naturals, FiniteSets

CONSTANTS
    Streams,          \* the pipes, one reader each
    Threads,          \* the threads that may call cancel
    Processes,        \* the processes that may hold the pipes' write ends
    MaxCancelPolls    \* MAX_LLAMA_WINDOWS_READER_CANCEL_POLLS

ASSUME PollsAssumption == MaxCancelPolls \in Nat \ {0}

VARIABLES
    step,               \* where each reader's thread is
    thread_handle,      \* _thread_handle is not None
    native_thread,      \* the reader's handle on its own thread is open
    aborted,            \* the system has cancelled the pending read
    outcome,            \* what the drain has come to
    failure,            \* _memory_error or _failure_code is set
    cancel_requested,   \* _cancel_requested
    cancel_in_progress, \* _cancel_in_progress
    cancel_result,      \* the three results of a finished cancel
    cancelling,         \* each thread's call of _cancel_with_timeout
    router,             \* the startup line router the readers feed
    live                \* the processes that hold the write ends

readerVars == <<step, thread_handle, native_thread, aborted, outcome, failure>>
cancelVars == <<cancel_requested, cancel_in_progress, cancel_result, cancelling>>
logVars == <<readerVars, cancelVars, router, live>>

-----------------------------------------------------------------------------
(* The states of a reader's thread.  Draining: inside drain_llama_log_source; *)
(* issuing: past the check of the flag, ReadFile not yet entered.             *)
Draining == {"checking", "issuing", "pending"}
Steps == {"created", "opening", "publishing"} \cup Draining
            \cup {"finalizing", "closing", "finished"}

Idle == [at |-> "idle"]
Call(a, r, n, z) == [at |-> a, stream |-> r, polls |-> n, zero |-> z]
CancelCalls == {Idle}
    \cup [at : {"attempt", "wait", "succeeding", "failing", "complete",
                 "failed"}, stream : Streams,
          polls : 0 .. MaxCancelPolls, zero : BOOLEAN]

ReaderTypeOK ==
    /\ step \in [Streams -> Steps]
    /\ thread_handle \in [Streams -> BOOLEAN]
    /\ native_thread \in [Streams -> BOOLEAN]
    /\ aborted \in [Streams -> BOOLEAN]
    /\ outcome \in [Streams -> {"none", "tainted", "eof", "failed"}]
    /\ failure \in [Streams -> BOOLEAN]
    /\ cancel_requested \in [Streams -> BOOLEAN]
    /\ cancel_in_progress \in [Streams -> BOOLEAN]
    /\ cancel_result \in [Streams -> {"none", "complete", "failed"}]
    /\ cancelling \in [Threads -> CancelCalls]
    /\ router \in {"waiting", "port", "failed"}
    /\ live \in SUBSET Processes

ReaderInit ==
    /\ step = [r \in Streams |-> "created"]
    /\ thread_handle = [r \in Streams |-> FALSE]
    /\ native_thread = [r \in Streams |-> FALSE]
    /\ aborted = [r \in Streams |-> FALSE]
    /\ outcome = [r \in Streams |-> "none"]
    /\ failure = [r \in Streams |-> FALSE]
    /\ cancel_requested = [r \in Streams |-> FALSE]
    /\ cancel_in_progress = [r \in Streams |-> FALSE]
    /\ cancel_result = [r \in Streams |-> "none"]
    /\ cancelling = [t \in Threads |-> Idle]
    /\ router = "waiting"
    /\ live = {}

Move(r, from, to) ==
    /\ step[r] = from
    /\ step' = [step EXCEPT ![r] = to]

-----------------------------------------------------------------------------
(* The reader's thread, from _start to the end of _run.                       *)
StartReader(r) ==
    /\ Move(r, "created", "opening")
    /\ UNCHANGED <<thread_handle, native_thread, aborted, outcome, failure,
                   cancelVars, router, live>>

OpenThread(r) ==
    /\ Move(r, "opening", "publishing")
    /\ native_thread' = [native_thread EXCEPT ![r] = TRUE]
    /\ UNCHANGED <<thread_handle, aborted, outcome, failure, cancelVars, router,
                   live>>

\* OpenThread fails: _run records reader_failed and fails the router.
OpenFails(r) ==
    /\ Move(r, "opening", "finalizing")
    /\ failure' = [failure EXCEPT ![r] = TRUE]
    /\ router' = "failed"
    /\ UNCHANGED <<thread_handle, native_thread, aborted, outcome, cancelVars,
                   live>>

PublishThread(r) ==
    /\ Move(r, "publishing", "checking")
    /\ thread_handle' = [thread_handle EXCEPT ![r] = TRUE]
    /\ UNCHANGED <<native_thread, aborted, outcome, failure, cancelVars, router,
                   live>>

\* A read that raises: the drain records it, fails the router and ends.
DrainFails(r) ==
    /\ outcome' = [outcome EXCEPT ![r] = "failed"]
    /\ router' = "failed"
    /\ UNCHANGED <<thread_handle, native_thread, failure, cancelVars, live>>

\* _read_parent_pipe: the flag is read under the lock, ReadFile called after.
CheckCancelled(r) ==
    /\ ~cancel_requested[r]
    /\ Move(r, "checking", "issuing")
    /\ UNCHANGED <<thread_handle, native_thread, aborted, outcome, failure,
                   cancelVars, router, live>>

ObserveCancel(r) ==
    /\ cancel_requested[r]
    /\ Move(r, "checking", "finalizing")
    /\ DrainFails(r)
    /\ UNCHANGED aborted

IssueRead(r) ==
    /\ Move(r, "issuing", "pending")
    /\ UNCHANGED <<thread_handle, native_thread, aborted, outcome, failure,
                   cancelVars, router, live>>

\* The pending read completes and takes the system's cancel mark with it.
EndRead(r) == aborted' = [aborted EXCEPT ![r] = FALSE]

\* Bytes arrive; even a cancelled read may complete with bytes.  A line may
\* announce the port, or be one the router's parser rejects: the stream's
\* capture is then failed for good, and draining goes on.
ReadData(r, news) ==
    /\ live # {}
    /\ Move(r, "pending", "checking")
    /\ EndRead(r)
    /\ \/ /\ news = "nothing"
          /\ UNCHANGED <<outcome, router>>
       \/ /\ news = "port" /\ router = "waiting" /\ outcome[r] = "none"
          /\ router' = "port"
          /\ UNCHANGED outcome
       \/ /\ news = "malformed" /\ outcome[r] = "none"
          /\ router' = "failed"
          /\ outcome' = [outcome EXCEPT ![r] = "tainted"]
    /\ UNCHANGED <<thread_handle, native_thread, failure, cancelVars, live>>

\* Every write end is closed: ReadFile returns the end of the stream.
ReadEof(r) ==
    /\ live = {} /\ ~aborted[r]
    /\ Move(r, "pending", "finalizing")
    /\ outcome' = [outcome EXCEPT ![r] = IF @ = "none" THEN "eof" ELSE "failed"]
    /\ EndRead(r)
    /\ UNCHANGED <<thread_handle, native_thread, failure, cancelVars, router, live>>

ReadAborted(r) ==
    /\ aborted[r]
    /\ Move(r, "pending", "finalizing")
    /\ DrainFails(r)
    /\ EndRead(r)

\* ReadFile fails, and the drain records it or (MemoryError) raises in turn.
ReadFails(r) ==
    /\ Move(r, "pending", "finalizing")
    /\ EndRead(r)
    /\ \/ DrainFails(r)
       \/ /\ failure' = [failure EXCEPT ![r] = TRUE]
          /\ router' = "failed"
          /\ UNCHANGED <<thread_handle, native_thread, outcome, cancelVars, live>>

\* Mutant: the handle is closed while the canceller still sees it.
WithdrawLate(r) ==
    /\ Move(r, "finalizing", "closing")
    /\ UNCHANGED <<thread_handle, native_thread, aborted, outcome, failure, cancelVars,
                   router, live>>

\* The finally of _run: the handle is withdrawn under the lock, then closed.
WithdrawThread(r) ==
    /\ Move(r, "finalizing", "closing")
    /\ thread_handle' = [thread_handle EXCEPT ![r] = FALSE]
    /\ UNCHANGED <<native_thread, aborted, outcome, failure, cancelVars, router,
                   live>>

CloseThread(r, ok) ==
    /\ ok \/ native_thread[r]
    /\ Move(r, "closing", "finished")
    /\ native_thread' = [native_thread EXCEPT ![r] = FALSE]
    /\ failure' = [failure EXCEPT ![r] = @ \/ ~ok]
    /\ UNCHANGED <<thread_handle, aborted, outcome, cancelVars, router, live>>

\* What join sees.  A reader that was never started has stopped; a stopped
\* reader that recorded a failure makes join raise.
Stopped(r) == step[r] \in {"created", "finished"}
JoinRaises(r) == step[r] = "finished" /\ failure[r]

\* _require_startup_running: started, not finished, no outcome, no failure.
Running(r) == step[r] \in {"opening", "publishing"} \cup Draining /\ ~failure[r]

-----------------------------------------------------------------------------
(* _cancel_with_timeout, called by thread t.  The first caller leads: it sets *)
(* the flag, and tries until the system reports a cancelled read or the       *)
(* reader holds no thread handle.  A caller that finds a cancel in progress   *)
(* waits for its result, and one that finds a result replays it.  zero: the   *)
(* caller's remaining time is 0.0, so that only a first attempt can succeed.  *)
CancelReplay(t, r) ==
    /\ cancelling[t] = Idle
    /\ cancel_result[r] # "none"
    /\ cancelling' = [cancelling EXCEPT ![t] = Call(cancel_result[r], r, 0, FALSE)]
    /\ UNCHANGED <<readerVars, cancel_requested, cancel_in_progress, cancel_result,
                   router, live>>

CancelFollow(t, r) ==
    /\ cancelling[t] = Idle
    /\ cancel_result[r] = "none" /\ cancel_in_progress[r]
    /\ cancelling' = [cancelling EXCEPT ![t] = Call("wait", r, 0, FALSE)]
    /\ UNCHANGED <<readerVars, cancel_requested, cancel_in_progress, cancel_result,
                   router, live>>

\* Mutant: the leader does not set the flag the reader looks at.
CancelLeadUnflagged(t, r, zero) ==
    /\ cancelling[t] = Idle
    /\ cancel_result[r] = "none" /\ ~cancel_in_progress[r]
    /\ cancel_in_progress' = [cancel_in_progress EXCEPT ![r] = TRUE]
    /\ cancelling' = [cancelling EXCEPT ![t] = Call("attempt", r, 0, zero)]
    /\ UNCHANGED <<readerVars, cancel_requested, cancel_result, router, live>>

CancelLead(t, r, zero) ==
    /\ cancelling[t] = Idle
    /\ cancel_result[r] = "none" /\ ~cancel_in_progress[r]
    /\ cancel_requested' = [cancel_requested EXCEPT ![r] = TRUE]
    /\ cancel_in_progress' = [cancel_in_progress EXCEPT ![r] = TRUE]
    /\ cancelling' = [cancelling EXCEPT ![t] = Call("attempt", r, 0, zero)]
    /\ UNCHANGED <<readerVars, cancel_result, router, live>>

EnterCancel(t, r, zero) ==
    CancelReplay(t, r) \/ CancelFollow(t, r) \/ CancelLead(t, r, zero)

Leads(t) == cancelling[t].at = "attempt"

\* The leader has its verdict, and has still to take the lock to publish it.
Decide(t, verdict) ==
    /\ cancelling' = [cancelling EXCEPT ![t] =
                         Call(verdict, cancelling[t].stream, 0, FALSE)]
    /\ UNCHANGED <<cancel_requested, cancel_in_progress, cancel_result>>

\* The reader holds no handle: it has not begun to read, or reads no more.
CancelUnregistered(t) ==
    /\ Leads(t)
    /\ ~thread_handle[cancelling[t].stream]
    /\ Decide(t, "succeeding")
    /\ UNCHANGED <<readerVars, router, live>>

\* CancelSynchronousIo, called with the lock held, finds the pending read.
CancelPending(t) ==
    LET r == cancelling[t].stream IN
    /\ Leads(t)
    /\ thread_handle[r] /\ step[r] = "pending"
    /\ aborted' = [aborted EXCEPT ![r] = TRUE]
    /\ \/ Decide(t, "succeeding")
       \/ ~cancelling[t].zero /\ Decide(t, "failing")
    /\ UNCHANGED <<step, thread_handle, native_thread, outcome, failure, router,
                   live>>

\* Mutant: a thread with no pending read is taken for a cancelled one.
CancelMissedIsDone(t) ==
    /\ Leads(t)
    /\ thread_handle[cancelling[t].stream] /\ step[cancelling[t].stream] # "pending"
    /\ Decide(t, "succeeding")
    /\ UNCHANGED <<readerVars, router, live>>

\* It finds no pending read: the leader sleeps and tries again.
CancelMissed(t) ==
    LET r == cancelling[t].stream
        n == cancelling[t].polls + 1 IN
    /\ Leads(t)
    /\ thread_handle[r] /\ step[r] # "pending"
    /\ ~cancelling[t].zero /\ n < MaxCancelPolls
    /\ cancelling' = [cancelling EXCEPT ![t] = Call("attempt", r, n, FALSE)]
    /\ UNCHANGED <<readerVars, cancel_requested, cancel_in_progress, cancel_result,
                   router, live>>

\* The deadline or the last poll passes, or the system call fails.
CancelGivesUp(t) ==
    /\ Leads(t)
    /\ thread_handle[cancelling[t].stream] \/ cancelling[t].polls > 0
    /\ Decide(t, "failing")
    /\ UNCHANGED <<readerVars, router, live>>

\* The leader's finally publishes the verdict and wakes the followers.
CancelConclude(t) ==
    LET r == cancelling[t].stream
        verdict == IF cancelling[t].at = "succeeding" THEN "complete" ELSE "failed" IN
    /\ cancelling[t].at \in {"succeeding", "failing"}
    /\ cancel_result' = [cancel_result EXCEPT ![r] = verdict]
    /\ cancel_in_progress' = [cancel_in_progress EXCEPT ![r] = FALSE]
    /\ cancelling' = [cancelling EXCEPT ![t] = Call(verdict, r, 0, FALSE)]
    /\ UNCHANGED <<readerVars, cancel_requested, router, live>>

CancelFollowed(t) ==
    LET r == cancelling[t].stream IN
    /\ cancelling[t].at = "wait"
    /\ \/ cancel_result[r] # "none"
          /\ cancelling' = [cancelling EXCEPT ![t] = Call(cancel_result[r], r, 0, FALSE)]
       \/ cancelling' = [cancelling EXCEPT ![t] = Call("failed", r, 0, FALSE)]
    /\ UNCHANGED <<readerVars, cancel_requested, cancel_in_progress, cancel_result,
                   router, live>>

CancelStep(t) ==
    \/ CancelUnregistered(t) \/ CancelPending(t) \/ CancelMissed(t)
    \/ CancelGivesUp(t) \/ CancelConclude(t) \/ CancelFollowed(t)

CancelReturned(t) == cancelling[t].at \in {"complete", "failed"}

CancelReturn(t) ==
    /\ CancelReturned(t)
    /\ cancelling' = [cancelling EXCEPT ![t] = Idle]
    /\ UNCHANGED <<readerVars, cancel_requested, cancel_in_progress, cancel_result,
                   router, live>>

-----------------------------------------------------------------------------
(* The readers among any callers: processes start before the readers do and  *)
(* go away at any time, and another thread may fail the router.               *)
Launch ==
    /\ live = {} /\ \A r \in Streams : step[r] = "created"
    /\ live' \in SUBSET Processes
    /\ UNCHANGED <<readerVars, cancelVars, router>>

Exit ==
    /\ \E left \in SUBSET live : live' = left
    /\ UNCHANGED <<readerVars, cancelVars, router>>

FailRouter ==
    /\ router' = "failed"
    /\ UNCHANGED <<readerVars, cancelVars, live>>

ReaderStep(r) ==
    \/ OpenThread(r) \/ OpenFails(r) \/ PublishThread(r)
    \/ CheckCancelled(r) \/ ObserveCancel(r) \/ IssueRead(r)
    \/ \E news \in {"nothing", "port", "malformed"} : ReadData(r, news)
    \/ ReadEof(r) \/ ReadAborted(r) \/ ReadFails(r)
    \/ WithdrawThread(r) \/ \E ok \in BOOLEAN : CloseThread(r, ok)

ReaderNext ==
    \/ \E r \in Streams : StartReader(r) \/ ReaderStep(r)
    \/ \E t \in Threads :
         \/ \E r \in Streams, zero \in BOOLEAN : EnterCancel(t, r, zero)
         \/ CancelStep(t) \/ CancelReturn(t)
    \/ Launch \/ Exit \/ FailRouter

ReaderSpec == ReaderInit /\ [][ReaderNext]_logVars

-----------------------------------------------------------------------------
(* The handle CancelSynchronousIo is given is open: the canceller calls it    *)
(* with the reader's lock held, and the reader withdraws the handle under the *)
(* same lock before it closes it.  Without that order the call could reach    *)
(* another thread that has been given the recycled handle.                    *)
CancelTargetsOpenThread ==
    \A r \in Streams : thread_handle[r] => native_thread[r]

(* A cancel that has reported success holds: the reader is not on its way     *)
(* into a read nobody will cancel, and a read still pending carries the       *)
(* system's mark.  This is what lets the caller stop retrying.                *)
CancelHolds ==
    \A r \in Streams :
        cancel_result[r] = "complete" =>
            step[r] # "issuing" /\ (step[r] = "pending" => aborted[r])
=============================================================================
