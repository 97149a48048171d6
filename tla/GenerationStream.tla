-------------------------- MODULE GenerationStream --------------------------
(***************************************************************************)
(* One generation request of a local answer and the threads that may end   *)
(* it: generation/llama_cpp.py (_Phase0PromptSession.generate) and the     *)
(* HTTP stream it reads, feasibility/llama_slice.py                        *)
(* (_LlamaHttpResourceOwner, _LlamaHttpDeadlineWatchdog,                   *)
(* LlamaOwnedHttpStream).                                                  *)
(*                                                                         *)
(* The main thread opens the stream, reads it and cleans up; the timer     *)
(* closes the connection at the deadline of the whole operation; the       *)
(* watcher closes the stream when the user cancels.  A step is one section *)
(* under a lock, one blocking call or one close.                           *)
(***************************************************************************)
Threads == {"main", "watcher", "timer"}
Resources == {"client", "context"}

VARIABLES
  pc,        \* the main thread, in generate and in open_chat_completion
  close,     \* per thread, where it is in a close call, or "idle"
  watcher,   \* the cancellation watcher: "off", "waiting", "closing", "over"
  timer,     \* its timer: "off", "armed", "cancelled", "firing", "over"
  resource,  \* client and response context: "absent", "open", "closed", "failed"
  owned,     \* those _LlamaHttpResourceOwner holds
  held,      \* per thread, those it has claimed and not closed yet
  claimed,   \* _close_claimed of the owner
  stream,    \* _closed, _closing and _read_active of the stream
  expired,   \* the watchdog's event
  cancel,    \* the user's cancellation signal
  stop,      \* the watcher's stop event
  trouble,   \* per thread, whether a close or a join of it has failed
  got,       \* what the last read returned
  reply    \* what generate returns or raises, or "none"

generationVars == <<pc, close, watcher, timer, resource, owned, held, claimed, stream,
          expired, cancel, stop, trouble, got, reply>>

streamVars == <<resource, owned, held, claimed, stream>>

(* Mutant of TimerAtStart: the watchdog is made and not started.           *)
TimerNotStarted == "unstarted"

TimerAtStart == "armed"

StreamInit ==
  /\ pc = "start"
  /\ close = [t \in Threads |-> "idle"]
  /\ watcher = "off"
  /\ timer = "off"
  /\ resource = [r \in Resources |-> "absent"]
  /\ owned = {}
  /\ held = [t \in Threads |-> {}]
  /\ claimed = FALSE
  /\ stream = [closed |-> FALSE, closing |-> FALSE, reading |-> FALSE]
  /\ expired = FALSE
  /\ cancel = FALSE
  /\ stop = FALSE
  /\ trouble = [t \in Threads |-> FALSE]
  /\ got = "none"
  /\ reply = "none"

-----------------------------------------------------------------------------
(* open_chat_completion: the main thread builds the stream.                *)

(* A cancellation before the start, or the watchdog is started.            *)
Start ==
  /\ pc = "start"
  /\ IF cancel
     THEN pc' = "over" /\ reply' = "cancelled" /\ UNCHANGED timer
     ELSE pc' = "connect" /\ timer' = TimerAtStart /\ UNCHANGED reply
  /\ UNCHANGED <<close, watcher, streamVars, expired, cancel, stop, trouble, got>>

Closed == {"closed", "failed"}

(* A new resource goes to the owner, or is closed when the owner has       *)
(* closed already.                                                         *)
Adopt(r) ==
  IF claimed
  THEN /\ \E end \in Closed : resource' = [resource EXCEPT ![r] = end]
       /\ UNCHANGED owned
  ELSE /\ resource' = [resource EXCEPT ![r] = "open"]
       /\ owned' = owned \cup {r}

(* adopt_client, or no client: whoever fails unwinds.                      *)
Connect ==
  /\ pc = "connect"
  /\ \/ Adopt("client") /\ pc' = IF claimed THEN "unwind" ELSE "enter"
     \/ pc' = "unwind" /\ UNCHANGED <<resource, owned>>
  /\ UNCHANGED <<close, watcher, timer, held, claimed, stream, expired, cancel,
                 stop, trouble, got, reply>>

(* The server answers, and adopt_entered_context.                          *)
Answer ==
  /\ pc = "enter"
  /\ Adopt("context")
  /\ pc' = IF claimed THEN "unwind" ELSE "check"
  /\ UNCHANGED <<close, watcher, timer, held, claimed, stream, expired, cancel,
                 stop, trouble, got, reply>>

(* It does not: the connection is refused, breaks or times out.            *)
NoAnswer ==
  /\ pc = "enter"
  /\ pc' = "unwind"
  /\ UNCHANGED <<close, watcher, timer, streamVars, expired, cancel, stop,
                 trouble, got, reply>>

(* The response is refused, or too late, or becomes a stream; the watcher  *)
(* is started with it.                                                     *)
CheckResponse ==
  /\ pc = "check"
  /\ \/ pc' = "unwind" /\ UNCHANGED watcher
     \/ expired /\ pc' = "unwound" /\ UNCHANGED watcher
     \/ ~expired /\ pc' = "read" /\ watcher' = "waiting"
  /\ UNCHANGED <<close, timer, streamVars, expired, cancel, stop, trouble, got,
                 reply>>

(* The failed opening closes the owner, then the watchdog, and raises.     *)
Unwind ==
  /\ close["main"] \in {"idle", "done"}
  /\ \/ /\ pc = "unwind" /\ close["main"] = "idle"
        /\ close' = [close EXCEPT !["main"] = "claim"]
        /\ UNCHANGED <<pc, reply>>
     \/ /\ pc = "unwind" /\ close["main"] = "done"
        /\ pc' = "unwound"
        /\ close' = [close EXCEPT !["main"] = "idle"]
        /\ UNCHANGED reply
     \/ /\ pc = "unwound" /\ close["main"] = "idle"
        /\ close' = [close EXCEPT !["main"] = "cancel"]
        /\ UNCHANGED <<pc, reply>>
     \/ /\ pc = "unwound" /\ close["main"] = "done"
        /\ pc' = "over"
        /\ reply' = "error"
        /\ close' = [close EXCEPT !["main"] = "idle"]
  /\ UNCHANGED <<watcher, timer, streamVars, expired, cancel, stop, trouble, got>>

-----------------------------------------------------------------------------
(* LlamaOwnedHttpStream.read.                                              *)

(* First section under the lock: the deadline, the close, or the read.     *)
BeginRead ==
  /\ pc = "read"
  /\ IF expired
     THEN pc' = "caught" /\ got' = "timeout" /\ UNCHANGED stream
     ELSE IF stream.closed \/ stream.closing
     THEN pc' = "caught" /\ got' = "error" /\ UNCHANGED stream
     ELSE /\ pc' = "blocked"
          /\ stream' = [stream EXCEPT !.reading = TRUE]
          /\ UNCHANGED got
  /\ UNCHANGED <<close, watcher, timer, resource, owned, held, claimed, expired,
                 cancel, stop, trouble, reply>>

(* The server sends a chunk, the end, or something the parser rejects, or  *)
(* breaks the connection; what comes after the deadline is not looked at.  *)
Receive(what) ==
  /\ pc = "blocked"
  /\ pc' = "received"
  /\ got' = IF expired THEN "timeout" ELSE what
  /\ UNCHANGED <<close, watcher, timer, streamVars, expired, cancel, stop,
                 trouble, reply>>

ReceiveAny == \E what \in {"chunk", "end", "error"} : Receive(what)

(* A read whose connection is closed returns, at the latest when httpx     *)
(* times it out: not before the deadline, since it waits as long.          *)
ReceiveNothing ==
  (expired \/ resource["client"] \in Closed) /\ Receive("error")

(* Second section under the lock: a stream that is being closed is closed  *)
(* by its reader, and the read raises.                                     *)
EndRead ==
  /\ pc = "received"
  /\ IF stream.closing
     THEN /\ stream' = [closed |-> TRUE, closing |-> FALSE, reading |-> FALSE]
          /\ pc' = "caught"
          /\ got' = "error"
     ELSE /\ stream' = [stream EXCEPT !.reading = FALSE]
          /\ pc' = IF got = "chunk" THEN "read" ELSE "caught"
          /\ UNCHANGED got
  /\ UNCHANGED <<close, watcher, timer, resource, owned, held, claimed, expired,
                 cancel, stop, trouble, reply>>

-----------------------------------------------------------------------------
(* The close calls, for the thread that makes them.                        *)

(* The thread goes on in its close call.                                   *)
GoTo(t, to) == close' = [close EXCEPT ![t] = to]

(* Where a thread goes on when owner and watchdog are closed.              *)
AfterClose(t) ==
  IF t = "watcher" \/ (t = "main" /\ pc = "closing") THEN "finish" ELSE "done"

(* Mutant of Fails: what the timer has recorded is not looked at.          *)
FailsHere(t) == trouble[t]

(* A close fails with a step of its own, or with the failure of the timer  *)
(* that the watchdog has recorded.                                         *)
Fails(t) == trouble[t] \/ trouble["timer"]

TakesIterator == ~stream.reading

(* Mutant of BeginClose: a read that is going on is left to close itself.  *)
BeginCloseDefers(t) ==
  /\ close[t] = "begin"
  /\ IF stream.closed \/ stream.closing
     THEN GoTo(t, "done") /\ UNCHANGED stream
     ELSE /\ stream' = [stream EXCEPT !.closing = TRUE]
          /\ GoTo(t, IF TakesIterator THEN "iterator" ELSE "done")
  /\ UNCHANGED <<pc, watcher, timer, resource, owned, held, claimed, expired,
                 cancel, stop, trouble, got, reply>>

(* LlamaOwnedHttpStream.close: only the first caller closes.               *)
BeginClose(t) ==
  /\ close[t] = "begin"
  /\ IF stream.closed \/ stream.closing
     THEN GoTo(t, "done") /\ UNCHANGED stream
     ELSE /\ stream' = [stream EXCEPT !.closing = TRUE]
          /\ GoTo(t, IF TakesIterator THEN "iterator" ELSE "cancel")
  /\ UNCHANGED <<pc, watcher, timer, resource, owned, held, claimed, expired,
                 cancel, stop, trouble, got, reply>>

(* The body iterator is closed by the thread that has taken it.            *)
CloseIterator(t) ==
  /\ close[t] = "iterator"
  /\ \E bad \in BOOLEAN : trouble' = [trouble EXCEPT ![t] = @ \/ bad]
  /\ GoTo(t, "cancel")
  /\ UNCHANGED <<pc, watcher, timer, streamVars, expired, cancel, stop, got, reply>>

(* _LlamaHttpDeadlineWatchdog.close: the timer is cancelled if it has not  *)
(* fired, joined for a bounded time, and the owner is closed.              *)
CancelTimer(t) ==
  /\ close[t] = "cancel"
  /\ timer' = IF timer = "armed" THEN "cancelled" ELSE timer
  /\ GoTo(t, "join")
  /\ UNCHANGED <<pc, watcher, streamVars, expired, cancel, stop, trouble, got, reply>>

JoinTimer(t) ==
  /\ close[t] = "join"
  /\ trouble' = [trouble EXCEPT ![t] = @ \/ timer # "over"]
  /\ GoTo(t, "claim")
  /\ UNCHANGED <<pc, watcher, timer, streamVars, expired, cancel, stop, got, reply>>

(* Mutant of Unclaimed: what is claimed is not taken from the owner.       *)
UnclaimedAll == owned

(* What stays with the owner when it is closed.                            *)
Unclaimed == {}

(* _LlamaHttpResourceOwner.close: the first caller claims the resources    *)
(* under the lock and closes them after it.                                *)
Claim(t) ==
  /\ close[t] = "claim"
  /\ IF claimed
     THEN GoTo(t, AfterClose(t)) /\ UNCHANGED <<claimed, held, owned>>
     ELSE /\ claimed' = TRUE
          /\ held' = [held EXCEPT ![t] = owned]
          /\ owned' = Unclaimed
          /\ GoTo(t, "close")
  /\ UNCHANGED <<pc, watcher, timer, resource, stream, expired, cancel, stop,
                 trouble, got, reply>>

(* _close_llama_http_resources: the context, then the client; a failure is *)
(* kept for the end.                                                       *)
CloseNext(t) ==
  /\ close[t] = "close"
  /\ IF held[t] = {}
     THEN GoTo(t, AfterClose(t)) /\ UNCHANGED <<resource, held, trouble>>
     ELSE LET r == IF "context" \in held[t] THEN "context" ELSE "client" IN
          /\ held' = [held EXCEPT ![t] = @ \ {r}]
          /\ \E end \in Closed :
               /\ resource' = [resource EXCEPT ![r] = end]
               /\ trouble' = [trouble EXCEPT ![t] = @ \/ end = "failed"]
          /\ UNCHANGED close
  /\ UNCHANGED <<pc, watcher, timer, owned, claimed, stream, expired, cancel,
                 stop, got, reply>>

(* Last sections of both close methods under their locks.                  *)
FinishClose(t) ==
  /\ close[t] = "finish"
  /\ trouble' = [trouble EXCEPT ![t] = Fails(t)]
  /\ stream' = IF stream.reading THEN stream
               ELSE [stream EXCEPT !.closed = TRUE, !.closing = FALSE]
  /\ GoTo(t, "done")
  /\ UNCHANGED <<pc, watcher, timer, resource, owned, held, claimed, expired,
                 cancel, stop, got, reply>>

CloseStep(t) ==
  \/ BeginClose(t) \/ CloseIterator(t) \/ CancelTimer(t) \/ JoinTimer(t)
  \/ Claim(t) \/ CloseNext(t) \/ FinishClose(t)

-----------------------------------------------------------------------------
(* The timer and the watcher.                                              *)

Fire ==
  /\ timer = "armed"
  /\ timer' = "firing"
  /\ expired' = TRUE
  /\ GoTo("timer", "claim")
  /\ UNCHANGED <<pc, watcher, streamVars, cancel, stop, trouble, got, reply>>

EndTimer ==
  /\ timer = "cancelled" \/ close["timer"] = "done"
  /\ timer' = "over"
  /\ GoTo("timer", "idle")
  /\ UNCHANGED <<pc, watcher, streamVars, expired, cancel, stop, trouble, got, reply>>

(* The watcher looks at both events; the stop event may be set between.    *)
Watch ==
  /\ watcher = "waiting"
  /\ \/ cancel /\ watcher' = "closing" /\ GoTo("watcher", "begin")
     \/ stop /\ watcher' = "over" /\ UNCHANGED close
  /\ UNCHANGED <<pc, timer, streamVars, expired, cancel, stop, trouble, got, reply>>

(* Errors of its close are swallowed.                                      *)
EndWatcher ==
  /\ close["watcher"] = "done"
  /\ watcher' = "over"
  /\ GoTo("watcher", "idle")
  /\ UNCHANGED <<pc, timer, streamVars, expired, cancel, stop, trouble, got, reply>>

(* The user cancels.                                                       *)
Cancel ==
  /\ ~cancel /\ pc # "over"
  /\ cancel' = TRUE
  /\ UNCHANGED <<pc, close, watcher, timer, streamVars, expired, stop, trouble,
                 got, reply>>

-----------------------------------------------------------------------------
(* generate: what it makes of the end of the stream.                       *)

(* Mutant of StopsWatcher: the watcher is stopped before the recovery.     *)
StopsWatcherEarly(to) == to \in {"recover", "closing"}

(* The finally clause begins with stop.set().                              *)
StopsWatcher(to) == to = "closing"

Proceed(to) == pc' = to /\ stop' = (stop \/ StopsWatcher(to))

(* The except clauses: after a cancellation or a timeout the server is     *)
(* asked whether it has recovered, before the finally clause.              *)
Catch ==
  /\ pc = "caught"
  /\ IF got = "end"
     THEN Proceed("closing") /\ UNCHANGED reply
     ELSE IF cancel
     THEN Proceed("recover") /\ reply' = "cancelled"
     ELSE IF got = "timeout"
     THEN Proceed("recover") /\ reply' = "timeout"
     ELSE Proceed("closing") /\ reply' = "error"
  /\ UNCHANGED <<close, watcher, timer, streamVars, expired, cancel, trouble, got>>

(* recover_llama_after_disconnect succeeds or fails, in bounded time.      *)
Recover ==
  /\ pc = "recover"
  /\ Proceed("closing")
  /\ reply' \in {reply, "error"}
  /\ UNCHANGED <<close, watcher, timer, streamVars, expired, cancel, trouble, got>>

(* The finally clause closes the stream.                                   *)
Finally ==
  /\ pc = "closing"
  /\ \/ /\ close["main"] = "idle"
        /\ GoTo("main", "begin")
        /\ UNCHANGED <<pc, reply>>
     \/ /\ close["main"] = "done"
        /\ GoTo("main", "idle")
        /\ reply' = IF trouble["main"] THEN "error" ELSE reply
        /\ pc' = "joining"
  /\ UNCHANGED <<watcher, timer, streamVars, expired, cancel, stop, trouble, got>>

(* The watcher is joined for a bounded time; then the checks that follow   *)
(* when nothing has been raised.                                           *)
JoinWatcher ==
  /\ pc = "joining"
  /\ pc' = IF reply = "none" THEN "final" ELSE "over"
  /\ UNCHANGED <<close, watcher, timer, streamVars, expired, cancel, stop,
                 trouble, got, reply>>

Release ==
  /\ pc = "final"
  /\ pc' = "over"
  /\ IF watcher # "over"
     THEN reply' = "invariant"
     ELSE IF cancel
     THEN reply' \in {"cancelled", "error"}
     ELSE reply' = "released"
  /\ UNCHANGED <<close, watcher, timer, streamVars, expired, cancel, stop,
                 trouble, got>>

-----------------------------------------------------------------------------
Main ==
  \/ Start \/ Connect \/ CheckResponse \/ Unwind \/ BeginRead \/ ReceiveNothing
  \/ EndRead \/ Catch \/ Recover \/ Finally \/ JoinWatcher \/ Release
  \/ CloseStep("main")

Server == Answer \/ NoAnswer \/ ReceiveAny

Timer == Fire \/ CloseStep("timer") \/ EndTimer

Watcher == Watch \/ CloseStep("watcher") \/ EndWatcher

-----------------------------------------------------------------------------
(* A result is handed on only when the stream was read to its end and the  *)
(* connection of its own request was closed without a failure, whichever   *)
(* thread closed it (llama_cpp.py 201-216).                                *)
ReleasedWhole ==
  reply = "released" =>
    /\ got = "end"
    /\ \A r \in Resources : resource[r] = "closed"
    /\ watcher = "over" /\ timer = "over"

(* An open resource is owned by exactly one: _LlamaHttpResourceOwner, or   *)
(* the one thread that has claimed it; so nothing is closed twice or never *)
(* ("Linearize response/client ownership across a deadline callback").     *)
(* Nor does anybody close the body iterator while the main thread is in    *)
(* next() of it, which a Python generator answers with an error.           *)
OneOwner ==
  /\ \A r \in Resources :
       LET holders == {t \in Threads : r \in held[t]} IN
       /\ resource[r] = "open" <=> (r \in owned \/ holders # {})
       /\ r \in owned => holders = {}
       /\ \A t, u \in holders : t = u
  /\ pc = "blocked" => \A t \in Threads : close[t] # "iterator"

(* A thread other than the main one is going to claim the connection.      *)
Disconnecting ==
  \/ timer = "firing" /\ close["timer"] = "claim"
  \/ watcher = "waiting" /\ cancel /\ ~stop
  \/ close["watcher"] \in {"begin", "iterator", "cancel", "join", "claim"}

(* recover_llama_after_disconnect asks the server whether its slot is idle *)
(* while this request's stream is still open in generate: the finally      *)
(* clause comes after it.  Someone else must disconnect, or has.           *)
RecoverySeesDisconnect == pc = "recover" => claimed \/ Disconnecting
=============================================================================
