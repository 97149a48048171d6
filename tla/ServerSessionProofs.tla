------------------------- MODULE ServerSessionProofs -------------------------
(* Proofs about the life of a server process (ServerSession): the readers      *)
(* inside it behave as LogReaders says, so that a cancel that has reported     *)
(* success holds in the session as well; no handle is closed twice; no read is *)
(* issued on a closed pipe; evidence is only given for a run that earned it;   *)
(* and a call that reports a clean end has left nothing behind.                *)
EXTENDS ServerSession, SequenceTheorems, TLAPS

-----------------------------------------------------------------------------
(* The log readers by themselves (LogReaders), for any pipes, any number of    *)
(* cancelling threads, any processes and any bound on the polls: a cancel that *)
(* reports success has reached its reader, and the thread handle it uses is    *)
(* open.                                                                       *)

-----------------------------------------------------------------------------
(* A call of cancel past its entry names a reader.                             *)
LEMMA CallNamesReader ==
    ASSUME NEW t \in Threads, cancelling \in [Threads -> CancelCalls],
           cancelling[t].at # "idle"
    PROVE  cancelling[t].stream \in Streams
BY DEF CancelCalls, Idle

(* The values a cancel's call takes.                                           *)
LEMMA CallIsCall ==
    ASSUME NEW a \in {"attempt", "wait", "succeeding", "failing", "complete", "failed"},
           NEW r \in Streams, NEW n \in 0 .. MaxCancelPolls, NEW z \in BOOLEAN
    PROVE  Call(a, r, n, z) \in CancelCalls
BY DEF CancelCalls, Call

LEMMA ZeroIsPoll == 0 \in 0 .. MaxCancelPolls
BY PollsAssumption

-----------------------------------------------------------------------------
(* Types.                                                                      *)
LEMMA TypeInit == ReaderInit => ReaderTypeOK
BY DEF ReaderInit, ReaderTypeOK, Steps, CancelCalls, Idle

(* The reader's own steps keep the types.                                      *)
LEMMA TypeReader ==
    ASSUME ReaderTypeOK, NEW r \in Streams, StartReader(r) \/ ReaderStep(r)
    PROVE  ReaderTypeOK'
<1> USE DEF ReaderTypeOK, Move, Steps, Draining, cancelVars
<1>1. CASE StartReader(r) BY <1>1 DEF StartReader
<1>2. CASE OpenThread(r) BY <1>2 DEF OpenThread
<1>3. CASE OpenFails(r) BY <1>3 DEF OpenFails
<1>4. CASE PublishThread(r) BY <1>4 DEF PublishThread
<1>5. CASE CheckCancelled(r) BY <1>5 DEF CheckCancelled
<1>6. CASE ObserveCancel(r) BY <1>6 DEF ObserveCancel, DrainFails
<1>7. CASE IssueRead(r) BY <1>7 DEF IssueRead
<1>8. ASSUME NEW news \in {"nothing", "port", "malformed"}, ReadData(r, news)
      PROVE  ReaderTypeOK'
  BY <1>8 DEF ReadData, EndRead
<1>9. CASE ReadEof(r) BY <1>9 DEF ReadEof, EndRead
<1>10. CASE ReadAborted(r) BY <1>10 DEF ReadAborted, DrainFails, EndRead
<1>11. CASE ReadFails(r) BY <1>11 DEF ReadFails, DrainFails, EndRead
<1>12. CASE WithdrawThread(r) BY <1>12 DEF WithdrawThread
<1>13. ASSUME NEW ok \in BOOLEAN, CloseThread(r, ok) PROVE ReaderTypeOK'
  BY <1>13 DEF CloseThread
<1> QED
  BY <1>1, <1>2, <1>3, <1>4, <1>5, <1>6, <1>7, <1>8, <1>9, <1>10, <1>11, <1>12, <1>13
     DEF ReaderStep

(* The steps of a cancel keep the types.                                       *)
LEMMA TypeCancel ==
    ASSUME ReaderTypeOK, NEW t \in Threads,
           \/ \E r \in Streams, zero \in BOOLEAN : EnterCancel(t, r, zero)
           \/ CancelStep(t) \/ CancelReturn(t)
    PROVE  ReaderTypeOK'
<1> USE DEF ReaderTypeOK, readerVars
<1>1. ASSUME NEW r \in Streams, CancelReplay(t, r) PROVE ReaderTypeOK'
  <2>1. Call(cancel_result[r], r, 0, FALSE) \in CancelCalls
    BY <1>1, CallIsCall, ZeroIsPoll DEF CancelReplay
  <2> QED BY <1>1, <2>1 DEF CancelReplay
<1>2. ASSUME NEW r \in Streams, CancelFollow(t, r) PROVE ReaderTypeOK'
  <2>1. Call("wait", r, 0, FALSE) \in CancelCalls BY CallIsCall, ZeroIsPoll
  <2> QED BY <1>2, <2>1 DEF CancelFollow
<1>3. ASSUME NEW r \in Streams, NEW zero \in BOOLEAN, CancelLead(t, r, zero)
      PROVE  ReaderTypeOK'
  <2>1. Call("attempt", r, 0, zero) \in CancelCalls BY CallIsCall, ZeroIsPoll
  <2> QED BY <1>3, <2>1 DEF CancelLead
<1>4. ASSUME cancelling[t].at # "idle",
             NEW v \in {"attempt", "wait", "succeeding", "failing", "complete", "failed"}
      PROVE  Call(v, cancelling[t].stream, 0, FALSE) \in CancelCalls
  BY <1>4, CallNamesReader, CallIsCall, ZeroIsPoll
<1>5. CASE CancelUnregistered(t)
  <2>1. Call("succeeding", cancelling[t].stream, 0, FALSE) \in CancelCalls
    BY <1>4, <1>5 DEF CancelUnregistered, Leads
  <2> QED BY <1>5, <2>1 DEF CancelUnregistered, Decide
<1>6. CASE CancelPending(t)
  <2>1. /\ Call("succeeding", cancelling[t].stream, 0, FALSE) \in CancelCalls
        /\ Call("failing", cancelling[t].stream, 0, FALSE) \in CancelCalls
    BY <1>4, <1>6 DEF CancelPending, Leads
  <2> QED BY <1>6, <2>1 DEF CancelPending, Decide
<1>7. CASE CancelMissed(t)
  <2> DEFINE n == cancelling[t].polls + 1
  <2>1. cancelling[t].stream \in Streams
    BY <1>7, CallNamesReader DEF CancelMissed, Leads
  <2>2. cancelling[t].polls \in 0 .. MaxCancelPolls
    BY <1>7 DEF CancelMissed, Leads, CancelCalls, Idle
  <2>3. n \in 0 .. MaxCancelPolls
    BY <1>7, <2>2, PollsAssumption DEF CancelMissed
  <2>4. Call("attempt", cancelling[t].stream, n, FALSE) \in CancelCalls
    BY <2>1, <2>3, CallIsCall
  <2> QED BY <1>7, <2>4 DEF CancelMissed
<1>8. CASE CancelGivesUp(t)
  <2>1. Call("failing", cancelling[t].stream, 0, FALSE) \in CancelCalls
    BY <1>4, <1>8 DEF CancelGivesUp, Leads
  <2> QED BY <1>8, <2>1 DEF CancelGivesUp, Decide
<1>9. CASE CancelConclude(t)
  <2> DEFINE verdict == IF cancelling[t].at = "succeeding" THEN "complete" ELSE "failed"
  <2>1. Call(verdict, cancelling[t].stream, 0, FALSE) \in CancelCalls
    BY <1>4, <1>9 DEF CancelConclude
  <2>2. cancelling[t].stream \in Streams
    BY <1>9, CallNamesReader DEF CancelConclude
  <2> QED BY <1>9, <2>1, <2>2 DEF CancelConclude
<1>10. CASE CancelFollowed(t)
  <2>1. cancelling[t].stream \in Streams
    BY <1>10, CallNamesReader DEF CancelFollowed
  <2>2. Call("failed", cancelling[t].stream, 0, FALSE) \in CancelCalls
    BY <2>1, CallIsCall, ZeroIsPoll
  <2>3. cancel_result[cancelling[t].stream] # "none" =>
          Call(cancel_result[cancelling[t].stream], cancelling[t].stream, 0, FALSE)
              \in CancelCalls
    BY <2>1, CallIsCall, ZeroIsPoll
  <2> QED BY <1>10, <2>2, <2>3 DEF CancelFollowed
<1>11. CASE CancelReturn(t)
  BY <1>11 DEF CancelReturn, CancelCalls
<1> QED
  BY <1>1, <1>2, <1>3, <1>5, <1>6, <1>7, <1>8, <1>9, <1>10, <1>11
     DEF EnterCancel, CancelStep

LEMMA TypeNext == ReaderTypeOK /\ [ReaderNext]_logVars => ReaderTypeOK'
<1> SUFFICES ASSUME ReaderTypeOK, [ReaderNext]_logVars PROVE ReaderTypeOK'
  OBVIOUS
<1>1. CASE \E r \in Streams : StartReader(r) \/ ReaderStep(r)
  BY <1>1, TypeReader
<1>2. CASE \E t \in Threads :
             \/ \E r \in Streams, zero \in BOOLEAN : EnterCancel(t, r, zero)
             \/ CancelStep(t) \/ CancelReturn(t)
  BY <1>2, TypeCancel
<1>3. CASE Launch BY <1>3 DEF Launch, ReaderTypeOK, readerVars, cancelVars
<1>4. CASE Exit BY <1>4 DEF Exit, ReaderTypeOK, readerVars, cancelVars
<1>5. CASE FailRouter BY <1>5 DEF FailRouter, ReaderTypeOK, readerVars, cancelVars
<1>6. CASE UNCHANGED logVars
  BY <1>6 DEF ReaderTypeOK, logVars, readerVars, cancelVars
<1> QED BY <1>1, <1>2, <1>3, <1>4, <1>5, <1>6 DEF ReaderNext

(* Every variable keeps its type.                                              *)
THEOREM TypeCorrect == ReaderSpec => []ReaderTypeOK
<1>1. ReaderInit => ReaderTypeOK BY TypeInit
<1>2. ReaderTypeOK /\ [ReaderNext]_logVars => ReaderTypeOK' BY TypeNext
<1> QED BY <1>1, <1>2, PTL DEF ReaderSpec

-----------------------------------------------------------------------------
(* What holds between the reader and its cancellers.                           *)

\* The thread handle is there exactly while the reader drains and until it is
\* withdrawn, and it is open as long as it is there.
HandleInv ==
    \A r \in Streams :
        /\ step[r] \in Draining => thread_handle[r]
        /\ step[r] = "publishing" => native_thread[r]
        /\ thread_handle[r] => native_thread[r] /\ step[r] \in Draining \cup {"finalizing"}

\* The reader cannot start another read: the flag is set and no check of it is
\* still to be followed by a read, but for one the system has cancelled.
Settled(r) ==
    /\ cancel_requested[r]
    /\ step[r] # "issuing"
    /\ step[r] = "pending" => aborted[r]

\* A leader has set the flag; one whose verdict is success has settled the
\* reader, and a published success stands for a settled reader.
VerdictInv ==
    /\ \A t \in Threads :
        LET c == cancelling[t] IN
        /\ c.at \in {"attempt", "succeeding", "failing"} => cancel_requested[c.stream]
        /\ c.at = "succeeding" => Settled(c.stream)
    /\ \A r \in Streams : cancel_result[r] = "complete" => Settled(r)

IInv == ReaderTypeOK /\ HandleInv /\ VerdictInv

LEMMA InvInit == ReaderInit => IInv
<1> SUFFICES ASSUME ReaderInit PROVE IInv
  OBVIOUS
<1>1. ReaderTypeOK BY TypeInit
<1>2. HandleInv BY DEF ReaderInit, HandleInv, Draining
<1>3. VerdictInv BY DEF ReaderInit, VerdictInv, Idle
<1> QED BY <1>1, <1>2, <1>3 DEF IInv

(* The reader's steps keep HandleInv, and leave a settled reader settled: it   *)
(* passes the check of the flag no more, and only a read that ends takes the   *)
(* system's mark with it.                                                      *)
LEMMA ReaderKeeps ==
    ASSUME IInv, NEW r \in Streams, StartReader(r) \/ ReaderStep(r)
    PROVE  /\ HandleInv'
           /\ \A q \in Streams : Settled(q) => Settled(q)'
           /\ UNCHANGED cancelVars
<1> USE DEF IInv, ReaderTypeOK, HandleInv, Settled, Move, Draining, cancelVars
<1>1. CASE StartReader(r) BY <1>1 DEF StartReader
<1>2. CASE OpenThread(r) BY <1>2 DEF OpenThread
<1>3. CASE OpenFails(r) BY <1>3 DEF OpenFails
<1>4. CASE PublishThread(r) BY <1>4 DEF PublishThread
<1>5. CASE CheckCancelled(r) BY <1>5 DEF CheckCancelled
<1>6. CASE ObserveCancel(r) BY <1>6 DEF ObserveCancel, DrainFails
<1>7. CASE IssueRead(r) BY <1>7 DEF IssueRead
<1>8. ASSUME NEW news \in {"nothing", "port", "malformed"}, ReadData(r, news)
      PROVE  /\ HandleInv'
             /\ \A q \in Streams : Settled(q) => Settled(q)'
             /\ UNCHANGED cancelVars
  BY <1>8 DEF ReadData, EndRead
<1>9. CASE ReadEof(r) BY <1>9 DEF ReadEof, EndRead
<1>10. CASE ReadAborted(r) BY <1>10 DEF ReadAborted, DrainFails, EndRead
<1>11. CASE ReadFails(r) BY <1>11 DEF ReadFails, DrainFails, EndRead
<1>12. CASE WithdrawThread(r) BY <1>12 DEF WithdrawThread
<1>13. ASSUME NEW ok \in BOOLEAN, CloseThread(r, ok)
       PROVE  /\ HandleInv'
              /\ \A q \in Streams : Settled(q) => Settled(q)'
              /\ UNCHANGED cancelVars
  BY <1>13 DEF CloseThread
<1> QED
  BY <1>1, <1>2, <1>3, <1>4, <1>5, <1>6, <1>7, <1>8, <1>9, <1>10, <1>11, <1>12, <1>13
     DEF ReaderStep

(* With the cancels where they were, settled readers are all VerdictInv needs. *)
LEMMA VerdictsStand ==
    ASSUME IInv, \A q \in Streams : Settled(q) => Settled(q)', UNCHANGED cancelVars
    PROVE  VerdictInv'
<1>1. \A t \in Threads : cancelling[t].at # "idle" => cancelling[t].stream \in Streams
  BY CallNamesReader DEF IInv, ReaderTypeOK
<1> QED BY <1>1 DEF IInv, VerdictInv, cancelVars

(* The entry of a cancel: a leader sets the flag and unsettles nobody.         *)
LEMMA EnterKeeps ==
    ASSUME IInv, NEW t \in Threads, NEW r \in Streams, NEW zero \in BOOLEAN,
           EnterCancel(t, r, zero)
    PROVE  HandleInv' /\ VerdictInv'
<1> USE DEF IInv, readerVars
<1>1. HandleInv'
  BY DEF EnterCancel, CancelReplay, CancelFollow, CancelLead, HandleInv
<1>2. \A q \in Streams : Settled(q) => Settled(q)'
  BY DEF EnterCancel, CancelReplay, CancelFollow, CancelLead, Settled, ReaderTypeOK
<1>3. \A u \in Threads : cancelling[u].at # "idle" => cancelling[u].stream \in Streams
  BY CallNamesReader DEF ReaderTypeOK
<1>4. CASE CancelReplay(t, r)
  <2>1. cancelling'[t].at \in {"complete", "failed"}
    BY <1>4 DEF CancelReplay, Call, ReaderTypeOK
  <2> QED BY <1>1, <1>2, <1>3, <1>4, <2>1 DEF CancelReplay, VerdictInv, ReaderTypeOK
<1>5. CASE CancelFollow(t, r)
  <2>1. cancelling'[t].at = "wait"
    BY <1>5 DEF CancelFollow, Call, ReaderTypeOK
  <2> QED BY <1>1, <1>2, <1>3, <1>5, <2>1 DEF CancelFollow, VerdictInv, ReaderTypeOK
<1>6. CASE CancelLead(t, r, zero)
  <2>1. cancelling'[t].at = "attempt" /\ cancelling'[t].stream = r
    BY <1>6 DEF CancelLead, Call, ReaderTypeOK
  <2>2. cancel_requested'[r] /\ \A q \in Streams : cancel_requested[q] => cancel_requested'[q]
    BY <1>6 DEF CancelLead, ReaderTypeOK
  <2> QED
    BY <1>1, <1>2, <1>3, <1>6, <2>1, <2>2 DEF CancelLead, VerdictInv, ReaderTypeOK
<1> QED BY <1>4, <1>5, <1>6 DEF EnterCancel

(* The steps of a leader: it succeeds when the reader holds no handle, and so  *)
(* is not draining, or when the system has cancelled the pending read.         *)
LEMMA CancelKeeps ==
    ASSUME IInv, NEW t \in Threads, CancelStep(t) \/ CancelReturn(t)
    PROVE  HandleInv' /\ VerdictInv'
<1> DEFINE r == cancelling[t].stream
<1> USE DEF IInv, readerVars
<1>1. \A u \in Threads : cancelling[u].at # "idle" => cancelling[u].stream \in Streams
  BY CallNamesReader DEF ReaderTypeOK
<1>2. HandleInv'
  BY <1>1 DEF CancelStep, CancelUnregistered, CancelPending, CancelMissed, CancelGivesUp,
     CancelConclude, CancelFollowed, CancelReturn, HandleInv, ReaderTypeOK
<1>3. \A q \in Streams : Settled(q) => Settled(q)'
  BY DEF CancelStep, CancelUnregistered, CancelPending, CancelMissed, CancelGivesUp,
     CancelConclude, CancelFollowed, CancelReturn, Decide, Settled, ReaderTypeOK
<1>4. CASE CancelUnregistered(t)
  <2>1. r \in Streams /\ cancel_requested[r]
    BY <1>1, <1>4 DEF CancelUnregistered, Leads, VerdictInv
  <2>2. Settled(r)
    BY <1>4, <2>1 DEF CancelUnregistered, Settled, HandleInv, Draining
  <2>3. cancelling'[t].at = "succeeding" /\ cancelling'[t].stream = r
    BY <1>4 DEF CancelUnregistered, Decide, Call, ReaderTypeOK
  <2> QED
    BY <1>1, <1>2, <1>3, <1>4, <2>1, <2>2, <2>3
       DEF CancelUnregistered, Decide, VerdictInv, ReaderTypeOK
<1>5. CASE CancelPending(t)
  <2>1. PICK q \in Streams : q = r /\ cancel_requested[q]
    BY <1>1, <1>5 DEF CancelPending, Leads, VerdictInv
  <2>2. Settled(q)'
    BY <1>5, <2>1 DEF CancelPending, Settled, Decide, ReaderTypeOK
  <2>3. cancelling'[t].at \in {"succeeding", "failing"} /\ cancelling'[t].stream = q
    BY <1>5, <2>1 DEF CancelPending, Decide, Call, ReaderTypeOK
  <2> QED
    BY <1>1, <1>2, <1>3, <1>5, <2>1, <2>2, <2>3
       DEF CancelPending, Decide, VerdictInv, ReaderTypeOK
<1>6. CASE CancelMissed(t)
  <2>1. r \in Streams /\ cancel_requested[r]
    BY <1>1, <1>6 DEF CancelMissed, Leads, VerdictInv
  <2>2. cancelling'[t].at = "attempt" /\ cancelling'[t].stream = r
    BY <1>6 DEF CancelMissed, Call, ReaderTypeOK
  <2> QED
    BY <1>1, <1>2, <1>3, <1>6, <2>1, <2>2 DEF CancelMissed, VerdictInv, ReaderTypeOK
<1>7. CASE CancelGivesUp(t)
  <2>1. r \in Streams /\ cancel_requested[r]
    BY <1>1, <1>7 DEF CancelGivesUp, Leads, VerdictInv
  <2>2. cancelling'[t].at = "failing" /\ cancelling'[t].stream = r
    BY <1>7 DEF CancelGivesUp, Decide, Call, ReaderTypeOK
  <2> QED
    BY <1>1, <1>2, <1>3, <1>7, <2>1, <2>2
       DEF CancelGivesUp, Decide, VerdictInv, ReaderTypeOK
<1>8. CASE CancelConclude(t)
  <2>1. cancelling'[t].at \in {"complete", "failed"}
    BY <1>8 DEF CancelConclude, Call, ReaderTypeOK
  <2>2. PICK q \in Streams : q = r
    BY <1>1, <1>8 DEF CancelConclude
  <2>3. cancelling[t].at = "succeeding" => Settled(q)'
    BY <1>3, <2>2 DEF VerdictInv
  <2>4. cancel_result'[q] = "complete" => cancelling[t].at = "succeeding"
    BY <1>8, <2>2 DEF CancelConclude, ReaderTypeOK
  <2> QED
    BY <1>1, <1>2, <1>3, <1>8, <2>1, <2>2, <2>3, <2>4
       DEF CancelConclude, VerdictInv, ReaderTypeOK
<1>9. CASE CancelFollowed(t)
  <2>1. cancelling'[t].at \in {"complete", "failed"}
    BY <1>1, <1>9 DEF CancelFollowed, Call, ReaderTypeOK
  <2> QED BY <1>1, <1>2, <1>3, <1>9, <2>1 DEF CancelFollowed, VerdictInv, ReaderTypeOK
<1>10. CASE CancelReturn(t)
  <2>1. cancelling'[t].at = "idle"
    BY <1>10 DEF CancelReturn, Idle, ReaderTypeOK
  <2> QED BY <1>1, <1>2, <1>3, <1>10, <2>1 DEF CancelReturn, VerdictInv, ReaderTypeOK
<1> QED BY <1>4, <1>5, <1>6, <1>7, <1>8, <1>9, <1>10 DEF CancelStep

LEMMA InvNext == IInv /\ [ReaderNext]_logVars => IInv'
<1> SUFFICES ASSUME IInv, [ReaderNext]_logVars PROVE IInv'
  OBVIOUS
<1>1. ReaderTypeOK' BY TypeNext DEF IInv
<1>2. CASE \E r \in Streams : StartReader(r) \/ ReaderStep(r)
  <2>1. PICK r \in Streams : StartReader(r) \/ ReaderStep(r) BY <1>2
  <2> QED BY <1>1, <2>1, ReaderKeeps, VerdictsStand DEF IInv
<1>3. ASSUME NEW t \in Threads, NEW r \in Streams, NEW zero \in BOOLEAN,
             EnterCancel(t, r, zero)
      PROVE  IInv'
  BY <1>1, <1>3, EnterKeeps DEF IInv
<1>4. ASSUME NEW t \in Threads, CancelStep(t) \/ CancelReturn(t) PROVE IInv'
  BY <1>1, <1>4, CancelKeeps DEF IInv
<1>5. CASE Launch \/ Exit \/ FailRouter \/ UNCHANGED logVars
  <2>1. UNCHANGED <<readerVars, cancelVars>>
    BY <1>5 DEF Launch, Exit, FailRouter, logVars
  <2>2. HandleInv' BY <2>1 DEF IInv, HandleInv, readerVars
  <2>3. VerdictInv' BY <2>1 DEF IInv, VerdictInv, Settled, readerVars, cancelVars
  <2> QED BY <1>1, <2>2, <2>3 DEF IInv
<1> QED BY <1>2, <1>3, <1>4, <1>5 DEF ReaderNext

(* The thread handle CancelSynchronousIo is given is open.                     *)
THEOREM HandleOpen == ReaderSpec => []CancelTargetsOpenThread
<1>1. ReaderInit => IInv BY InvInit
<1>2. IInv /\ [ReaderNext]_logVars => IInv' BY InvNext
<1>3. IInv => CancelTargetsOpenThread BY DEF IInv, HandleInv, CancelTargetsOpenThread
<1> QED BY <1>1, <1>2, <1>3, PTL DEF ReaderSpec

(* A cancel that has reported success holds, whatever the reader, the other    *)
(* cancellers and the processes did in between.                                *)
THEOREM SuccessHolds == ReaderSpec => []CancelHolds
<1>1. ReaderInit => IInv BY InvInit
<1>2. IInv /\ [ReaderNext]_logVars => IInv' BY InvNext
<1>3. IInv => CancelHolds BY DEF IInv, VerdictInv, Settled, CancelHolds
<1> QED BY <1>1, <1>2, <1>3, PTL DEF ReaderSpec

-----------------------------------------------------------------------------
(* The handles, and the lists of handles the code goes through.                *)
LEMMA HandlesAre ==
    Handles = {"attributes", "thread", "process", "stderr_child", "stderr",
               "stdout_child", "stdout", "stdin", "job"}
<1>1. DOMAIN CloseOrder = 1 .. 9
  BY DEF CloseOrder
<1> QED
  BY <1>1 DEF Handles, ToSet, CloseOrder

LEMMA ListsOfHandles ==
    /\ CloseOrder \in Seq(Handles)
    /\ Children \in Seq(Handles)
    /\ <<"attributes", "thread">> \o Children \in Seq(Handles)
    /\ <<"job", "stdin", "stdout", "stderr", "attributes">> \in Seq(Handles)
    /\ <<"process", "stderr", "stdout", "job">> \in Seq(Handles)
    /\ <<"process">> \o <<"stderr", "stdout">> \o <<"job">> \in Seq(Handles)
    /\ <<"process">> \o <<>> \o <<"job">> \in Seq(Handles)
    /\ <<>> \in Seq(Handles)
    /\ StreamOrder \in Seq(Handles) /\ Attached \in Seq(Handles)
<1>1. CloseOrder \in Seq(Handles) BY HandlesAre DEF CloseOrder
<1>2. Children \in Seq(Handles) BY HandlesAre DEF Children
<1>3. <<"attributes", "thread">> \in Seq(Handles) BY HandlesAre
<1>4. <<"job", "stdin", "stdout", "stderr", "attributes">> \in Seq(Handles) BY HandlesAre
<1>5. <<"process", "stderr", "stdout", "job">> \in Seq(Handles) BY HandlesAre
<1>6. /\ <<"process">> \in Seq(Handles) /\ <<"stderr", "stdout">> \in Seq(Handles)
      /\ <<"job">> \in Seq(Handles) /\ <<>> \in Seq(Handles)
  BY HandlesAre
<1>7. Streams \subseteq Handles BY HandlesAre, StreamsAssumption
<1>8. StreamOrder \in Seq(Handles) BY <1>7, StreamsAssumption, SeqMonotonic
<1> QED
  BY <1>1, <1>2, <1>3, <1>4, <1>5, <1>6, <1>8, ConcatProperties DEF Attached

-----------------------------------------------------------------------------
(* Where the threads are, and their locals.                                    *)
Kinds == {"none", "start", "abort", "shutdown", "forced", "probe"}
Codes == {"none", "console_failed", "launch_failed", "cleanup_failed", "error",
          "startup_failed", "invalid_configuration", "signal_failed",
          "shutdown_timeout", "nonzero_exit", "reader_failed", "job_not_empty",
          "postcondition_failed", "memory"}

LocalsSet == [kind : Kinds, failed : BOOLEAN, joined : BOOLEAN, empty : BOOLEAN,
              clean : BOOLEAN, todo : Seq(Handles), code : Codes]

\* A list of readers is being gone through; only the starting thread is there.
RunsReaders == CancelPlaces \cup {"start_reader"}
StarterPlaces == {"start_reader", "start_failed", "start_cancel", "start_join"}

\* Where each thread is, and that a cancel in progress is the one its loop is at.
ControlInv ==
    /\ pc \in [Threads -> Places]
    /\ loc \in [Threads -> LocalsSet]
    /\ \A t \in Threads :
         /\ pc[t] \in RunsReaders => loc[t].todo \in Seq(Streams)
         /\ pc[t] \in StarterPlaces => t = Starter
         /\ cancelling[t].at # "idle" => pc[t] \in CancelPlaces /\ loc[t].todo # <<>>

(* A thread that goes on with no cancel in progress keeps the invariant, if it *)
(* has readers to go through where it needs them.                              *)
LEMMA Moves ==
    ASSUME ControlInv, NEW t \in Threads, NEW p \in Places, NEW l \in LocalsSet,
           Goto(t, p, l), UNCHANGED cancelling, cancelling[t].at = "idle",
           p \in RunsReaders => l.todo \in Seq(Streams),
           p \in StarterPlaces => t = Starter
    PROVE  ControlInv'
BY DEF ControlInv, Goto

\* The places at which nothing is asked of a thread's list.
Elsewhere == Places \ (RunsReaders \cup StarterPlaces)

LEMMA MovesElsewhere ==
    ASSUME ControlInv, NEW t \in Threads, NEW p \in Elsewhere, NEW l \in LocalsSet,
           Goto(t, p, l), UNCHANGED cancelling, pc[t] \notin CancelPlaces
    PROVE  ControlInv'
<1>1. p \in Places /\ p \notin RunsReaders /\ p \notin StarterPlaces BY DEF Elsewhere
<1>2. cancelling[t].at = "idle" BY DEF ControlInv
<1> QED BY <1>1, <1>2, Moves

LEMMA Ends ==
    ASSUME ControlInv, NEW t \in Threads, NEW r, Returns(t, r), UNCHANGED <<loc, cancelling>>,
           pc[t] \notin CancelPlaces
    PROVE  ControlInv'
BY DEF ControlInv, Returns, Places, RunsReaders, CancelPlaces, StarterPlaces

LEMMA TailType ==
    ASSUME NEW l \in LocalsSet, l.todo # <<>>
    PROVE  Tail(l.todo) \in Seq(Handles)
<1>1. l.todo \in Seq(Handles) BY DEF LocalsSet
<1> QED BY <1>1, HeadTailProperties

(* The launch keeps it.                                                        *)
LEMMA ControlStart == ASSUME ControlInv, StartStep PROVE ControlInv'
<1> DEFINE l == loc[Starter]
<1>0. UNCHANGED cancelling
  BY DEF StartStep, ClaimLease, AllocateConsole, AcquireHandles, BeginPrelaunch, EndPrelaunch,
         CreateProcess, RetireHandles, InspectProcess, LaunchTerminate, LaunchWait,
         LaunchClose, LaunchFreeConsole, LaunchRelease, NoReader, cancelVars
<1>1. pc[Starter] \notin CancelPlaces
  BY DEF StartStep, ClaimLease, AllocateConsole, AcquireHandles, BeginPrelaunch, EndPrelaunch,
         CreateProcess, RetireHandles, InspectProcess, LaunchTerminate, LaunchWait,
         LaunchClose, LaunchFreeConsole, LaunchRelease, At, CancelPlaces
<1>a. \A p \in Elsewhere, m \in LocalsSet : Goto(Starter, p, m) => ControlInv'
  BY <1>0, <1>1, ThreadsAssumption, MovesElsewhere
<1>b. l \in LocalsSet BY ThreadsAssumption DEF ControlInv
<1>c. l.todo # <<>> => Tail(l.todo) \in Seq(Handles) BY <1>b, TailType
<1> USE <1>a, <1>b, <1>c, ListsOfHandles
    DEF Elsewhere, Places, RunsReaders, StarterPlaces, CancelPlaces, FailStart, LocalsSet, Codes
<1>2. CASE ClaimLease BY <1>2 DEF ClaimLease
<1>3. CASE AllocateConsole BY <1>3 DEF AllocateConsole
<1>4. CASE AcquireHandles BY <1>4 DEF AcquireHandles
<1>5. CASE BeginPrelaunch BY <1>5 DEF BeginPrelaunch
<1>6. CASE EndPrelaunch BY <1>6 DEF EndPrelaunch
<1>7. CASE CreateProcess BY <1>7 DEF CreateProcess
<1>8. CASE RetireHandles BY <1>8 DEF RetireHandles
<1>9. CASE InspectProcess BY <1>9 DEF InspectProcess
<1>10. CASE LaunchTerminate BY <1>10 DEF LaunchTerminate
<1>11. CASE LaunchWait BY <1>11 DEF LaunchWait
<1>12. CASE LaunchClose BY <1>12 DEF LaunchClose
<1>13. CASE LaunchFreeConsole BY <1>13 DEF LaunchFreeConsole
<1>14. CASE LaunchRelease BY <1>14, <1>0, <1>1, Ends, ThreadsAssumption DEF LaunchRelease
<1> QED
  BY <1>2, <1>3, <1>4, <1>5, <1>6, <1>7, <1>8, <1>9, <1>10, <1>11, <1>12, <1>13, <1>14 DEF StartStep

(* A start that failed returns, or goes on to unwind.                          *)
LEMMA StartFailsKeeps ==
    ASSUME ControlInv, StartFails(loc[Starter]), UNCHANGED cancelling,
           cancelling[Starter].at = "idle", pc[Starter] \notin CancelPlaces
    PROVE  ControlInv'
<1> DEFINE l == loc[Starter]
           code == IF l.failed THEN "cleanup_failed" ELSE "error"
<1>1. CASE mode = "raw"
  BY <1>1, Ends, ThreadsAssumption DEF StartFails
<1>2. CASE mode # "raw"
  <2>1. l \in LocalsSet /\ code \in Codes BY ThreadsAssumption DEF ControlInv, Codes
  <2>2. [l EXCEPT !.code = code] \in LocalsSet BY <2>1 DEF LocalsSet
  <2>3. "unwind" \in Elsewhere BY DEF Elsewhere, Places, RunsReaders, CancelPlaces, StarterPlaces
  <2>4. Goto(Starter, "unwind", [l EXCEPT !.code = code]) BY <1>2 DEF StartFails
  <2> QED BY <2>2, <2>3, <2>4, MovesElsewhere, ThreadsAssumption
<1> QED BY <1>1, <1>2

(* So does the rest of a start.                                                *)
SessionStart ==
    \/ AttachReaders \/ StartReaders \/ FailReaders \/ PollStartup
    \/ RecheckStartup \/ BindSession \/ Unwind

LEMMA ControlSession == ASSUME ControlInv, SessionStart PROVE ControlInv'
<1> DEFINE l == loc[Starter]
<1>1. UNCHANGED cancelling
  <2>1. CASE StartReaders BY <2>1 DEF StartReaders, NoReaders, StartReader, cancelVars
  <2> QED
    BY <2>1 DEF SessionStart, AttachReaders, FailReaders, FailRouter, PollStartup,
       RecheckStartup, BindSession, Unwind, NoReaders, cancelVars
<1>2. cancelling[Starter].at = "idle" /\ pc[Starter] \notin CancelPlaces
  <2>1. pc[Starter] \notin CancelPlaces
    BY DEF SessionStart, AttachReaders, StartReaders, FailReaders, PollStartup,
       RecheckStartup, BindSession, Unwind, Step, At, CancelPlaces
  <2> QED BY <2>1, ThreadsAssumption DEF ControlInv
<1>3. \A p \in Elsewhere, m \in LocalsSet : Goto(Starter, p, m) => ControlInv'
  BY <1>1, <1>2, ThreadsAssumption, MovesElsewhere
<1>4. \A p \in {"start_reader", "start_failed", "start_cancel"}, m \in LocalsSet :
         Goto(Starter, p, m) /\ (p \in RunsReaders => m.todo \in Seq(Streams)) => ControlInv'
  BY <1>1, <1>2, ThreadsAssumption, Moves DEF Places
<1>5. \A r : Returns(Starter, r) /\ UNCHANGED loc => ControlInv'
  BY <1>1, <1>2, ThreadsAssumption, Ends
<1>6. l \in LocalsSet BY ThreadsAssumption DEF ControlInv
<1>7. /\ [l EXCEPT !.todo = StreamOrder] \in LocalsSet
      /\ [l EXCEPT !.todo = StreamOrder].todo \in Seq(Streams)
      /\ \A c \in Codes : [l EXCEPT !.code = c] \in LocalsSet
      /\ \A k \in Kinds : [l EXCEPT !.kind = k] \in LocalsSet
  BY <1>6, ListsOfHandles, StreamsAssumption DEF LocalsSet
<1> USE DEF Elsewhere, Places, RunsReaders, StarterPlaces, CancelPlaces, Codes, Kinds
<1>10. CASE AttachReaders
  BY <1>10, <1>1, <1>2, <1>4, <1>7, StartFailsKeeps DEF AttachReaders
<1>11. CASE StartReaders
  <2>1. l.todo # <<>> => /\ [l EXCEPT !.todo = Tail(@)] \in LocalsSet
                         /\ [l EXCEPT !.todo = Tail(@)].todo \in Seq(Streams)
    <3>1. l.todo \in Seq(Streams)
      BY <1>11, ThreadsAssumption DEF StartReaders, At, ControlInv
    <3>2. l.todo # <<>> => Tail(l.todo) \in Seq(Streams) BY <3>1, HeadTailProperties
    <3>3. l.todo # <<>> => Tail(l.todo) \in Seq(Handles) BY <1>6, TailType
    <3> QED BY <1>6, <3>2, <3>3 DEF LocalsSet
  <2> QED BY <1>11, <1>3, <1>4, <1>5, <1>6, <1>7, <2>1 DEF StartReaders
<1>12. CASE FailReaders BY <1>12, <1>4, <1>7 DEF FailReaders, Step
<1>13. CASE PollStartup BY <1>13, <1>3, <1>6, <1>7 DEF PollStartup, Step
<1>14. CASE RecheckStartup BY <1>14, <1>3, <1>6, <1>7 DEF RecheckStartup, Step
<1>15. CASE BindSession BY <1>15, <1>3, <1>5, <1>7 DEF BindSession
<1>16. CASE Unwind
  <2>1. [l EXCEPT !.kind = "start", !.joined = TRUE] \in LocalsSet BY <1>6 DEF LocalsSet
  <2> QED BY <1>16, <1>3, <1>5, <2>1 DEF Unwind
<1> QED
  BY <1>10, <1>11, <1>12, <1>13, <1>14, <1>15, <1>16 DEF SessionStart

(* A shutdown or an abort that begins.                                         *)
LEMMA ControlCalls ==
    ASSUME ControlInv, NEW t \in Threads, Abort(t) \/ Shutdown(t)
    PROVE  ControlInv'
<1>1. UNCHANGED cancelling /\ pc[t] \notin CancelPlaces
  BY DEF Abort, Shutdown, Claim, NoReaders, cancelVars, At, CancelPlaces
<1>2. \A k \in Kinds : Locals(k) \in LocalsSet
  BY ListsOfHandles DEF Locals, LocalsSet, Codes
<1>3. PICK k \in Kinds, p \in {"forced_terminate", "signal"} : Claim(t, k, p)
  BY DEF Abort, Shutdown, Kinds
<1>4. p \in Elsewhere BY DEF Elsewhere, Places, RunsReaders, CancelPlaces, StarterPlaces
<1>5. CASE closed BY <1>1, <1>3, <1>5, Ends DEF Claim
<1>6. CASE ~closed BY <1>1, <1>2, <1>3, <1>4, <1>6, MovesElsewhere DEF Claim
<1> QED BY <1>5, <1>6

(* The steps of a loop that cancels the readers.                               *)
LEMMA ControlCancel ==
    ASSUME ControlInv, ReaderTypeOK, NEW t \in Threads,
           BeginCancel(t) \/ ContinueCancel(t) \/ EndCancel(t) \/ AllCancelled(t)
    PROVE  ControlInv'
<1> DEFINE l == loc[t]
<1>1. l \in LocalsSet /\ pc[t] \in Places BY DEF ControlInv
<1>2. /\ \A b \in BOOLEAN : [l EXCEPT !.failed = @ \/ b] \in LocalsSet
      /\ \A b \in BOOLEAN : [l EXCEPT !.failed = @ \/ b].todo = l.todo
  BY <1>1 DEF LocalsSet
<1>3. cancelling \in [Threads -> CancelCalls] BY DEF ReaderTypeOK
<1>4. CASE BeginCancel(t)
  <2>1. PICK zero \in BOOLEAN :
            /\ EnterCancel(t, Head(l.todo), zero)
            /\ Goto(t, pc[t], [l EXCEPT !.failed = @ \/ zero])
    BY <1>4 DEF BeginCancel
  <2>2. pc[t] \in CancelPlaces /\ l.todo # <<>> BY <1>4 DEF BeginCancel
  <2>3. \A u \in Threads : u # t => cancelling'[u] = cancelling[u]
    BY <2>1, <1>3 DEF EnterCancel, CancelReplay, CancelFollow, CancelLead
  <2> QED BY <1>1, <1>2, <2>1, <2>2, <2>3 DEF ControlInv, Goto
<1>5. CASE ContinueCancel(t)
  <2>1. cancelling[t].at # "idle"
    BY <1>5 DEF ContinueCancel, CancelStep, CancelUnregistered, CancelPending, CancelMissed,
       CancelGivesUp, CancelConclude, CancelFollowed, Leads
  <2>2. \A u \in Threads : u # t => cancelling'[u] = cancelling[u]
    BY <1>5, <1>3 DEF ContinueCancel, CancelStep, CancelUnregistered, CancelPending, CancelMissed,
       CancelGivesUp, CancelConclude, CancelFollowed, Decide
  <2>3. UNCHANGED <<pc, loc>> BY <1>5 DEF ContinueCancel
  <2> QED BY <2>1, <2>2, <2>3 DEF ControlInv
<1>6. CASE EndCancel(t)
  <2> DEFINE bad == cancelling[t].at = "failed"
             m == [l EXCEPT !.todo = Tail(@), !.failed = @ \/ bad]
  <2>1. cancelling[t].at # "idle" /\ Goto(t, pc[t], m)
    BY <1>6 DEF EndCancel, CancelReturn, CancelReturned
  <2>2. pc[t] \in CancelPlaces /\ l.todo # <<>> BY <2>1 DEF ControlInv
  <2>3. l.todo \in Seq(Streams) BY <2>2 DEF ControlInv, RunsReaders
  <2>4. Tail(l.todo) \in Seq(Streams) BY <2>2, <2>3, HeadTailProperties
  <2>5. Tail(l.todo) \in Seq(Handles) BY <1>1, <2>2, TailType
  <2>6. m \in LocalsSet /\ m.todo = Tail(l.todo) BY <1>1, <2>5 DEF LocalsSet
  <2>7. /\ \A u \in Threads : u # t => cancelling'[u] = cancelling[u]
        /\ cancelling'[t].at = "idle"
    BY <1>6, <1>3 DEF EndCancel, CancelReturn, Idle
  <2> HIDE DEF m
  <2> QED BY <1>1, <2>1, <2>4, <2>6, <2>7 DEF ControlInv, Goto
<1>7. CASE AllCancelled(t)
  <2>1. cancelling[t].at = "idle" /\ UNCHANGED cancelling
    BY <1>7 DEF AllCancelled, ControlInv, NoReaders, cancelVars
  <2>2. [l EXCEPT !.todo = StreamOrder] \in LocalsSet
    BY <1>1, ListsOfHandles DEF LocalsSet
  <2>3. CASE Step(t, "start_cancel", "start_join", [l EXCEPT !.todo = StreamOrder])
    <3>1. t = Starter BY <2>3 DEF Step, At, ControlInv, StarterPlaces
    <3> QED BY <2>1, <2>2, <2>3, <3>1, Moves DEF Step, Places, RunsReaders, CancelPlaces
  <2>4. CASE Step(t, "forced_cancel", "forced_wait", l)
    BY <1>1, <2>1, <2>4, Moves DEF Step, Places, RunsReaders, CancelPlaces, StarterPlaces
  <2> QED BY <1>7, <2>3, <2>4 DEF AllCancelled
<1> QED BY <1>4, <1>5, <1>6, <1>7

(* The steps of a loop that joins the readers.                                 *)
LEMMA ControlJoin ==
    ASSUME ControlInv, NEW t \in Threads, JoinReader(t) \/ AllJoined(t)
    PROVE  ControlInv'
<1> DEFINE l == loc[t]
<1>1. l \in LocalsSet /\ pc[t] \in Places BY DEF ControlInv
<1>2. UNCHANGED cancelling BY DEF JoinReader, AllJoined, NoReaders, cancelVars
<1>3. pc[t] \in JoinPlaces BY DEF JoinReader, AllJoined, Step, At, JoinPlaces
<1>4. pc[t] \notin CancelPlaces BY <1>3 DEF JoinPlaces, CancelPlaces
<1>5. cancelling[t].at = "idle" BY <1>4 DEF ControlInv
<1>6. \A p \in Elsewhere, m \in LocalsSet : Goto(t, p, m) => ControlInv'
  BY <1>2, <1>4, MovesElsewhere
<1>7. \A m \in LocalsSet : Goto(t, pc[t], m) => ControlInv'
  <2>1. pc[t] \notin RunsReaders BY <1>3 DEF JoinPlaces, RunsReaders, CancelPlaces
  <2>2. pc[t] \in StarterPlaces => t = Starter BY DEF ControlInv
  <2> QED BY <1>1, <1>2, <1>5, <2>1, <2>2, Moves
<1>8. \A c \in Codes : Fails(t, c) => ControlInv'
  <2>1. \A c \in Codes : [l EXCEPT !.code = c] \in LocalsSet BY <1>1 DEF LocalsSet
  <2> QED
    BY <1>6, <2>1
       DEF Fails, Elsewhere, Places, RunsReaders, CancelPlaces, StarterPlaces
<1>9. CASE JoinReader(t)
  <2> DEFINE next == [l EXCEPT !.todo = Tail(@)]
             bad == [next EXCEPT !.failed = TRUE]
             left == [bad EXCEPT !.joined = FALSE]
  <2>1. Tail(l.todo) \in Seq(Handles) BY <1>1, <1>9, TailType DEF JoinReader
  <2>2. next \in LocalsSet BY <1>1, <2>1 DEF LocalsSet
  <2>3. bad \in LocalsSet BY <2>2 DEF LocalsSet
  <2>4. left \in LocalsSet BY <2>3 DEF LocalsSet
  <2>5. \/ Goto(t, pc[t], next) \/ Goto(t, pc[t], bad) \/ Goto(t, pc[t], left)
        \/ \E c \in Codes : Fails(t, c)
    BY <1>9 DEF JoinReader, Codes
  <2> HIDE DEF next, bad, left
  <2> QED BY <1>7, <1>8, <2>2, <2>3, <2>4, <2>5
<1>10. CASE AllJoined(t)
  <2>1. CASE At(t, "start_join") /\ StartFails(l)
    <3>1. t = Starter BY <2>1 DEF At, ControlInv, StarterPlaces
    <3> QED BY <1>2, <1>4, <1>5, <2>1, <3>1, StartFailsKeeps
  <2>2. CASE \/ Goto(t, "forced_job", l) \/ Goto(t, "job", l)
             \/ \E c \in Codes : Fails(t, c)
    BY <1>1, <1>6, <1>8, <2>2
       DEF Elsewhere, Places, RunsReaders, CancelPlaces, StarterPlaces
  <2> QED BY <1>10, <2>1, <2>2 DEF AllJoined, Step, Codes
<1> QED BY <1>9, <1>10

(* The graceful path keeps it.                                                 *)
Graceful(t) ==
    \/ SignalRoot(t) \/ UndoSignal(t) \/ WaitRoot(t) \/ RestoreAndExamine(t)
    \/ AwaitEmptyJob(t) \/ BeginVerify(t) \/ EndVerify(t) \/ ClaimProbe(t)

LEMMA ControlGraceful ==
    ASSUME ControlInv, NEW t \in Threads, Graceful(t) PROVE ControlInv'
<1> DEFINE l == loc[t]
<1>1. l \in LocalsSet BY DEF ControlInv
<1>2. UNCHANGED cancelling
  BY DEF Graceful, SignalRoot, UndoSignal, WaitRoot, RestoreAndExamine, AwaitEmptyJob,
     BeginVerify, EndVerify, ClaimProbe, NoReaders, cancelVars
<1>3. pc[t] \notin CancelPlaces
  BY DEF Graceful, SignalRoot, UndoSignal, WaitRoot, RestoreAndExamine, AwaitEmptyJob,
     BeginVerify, EndVerify, ClaimProbe, Step, At, CancelPlaces
<1>4. \A p \in Elsewhere, m \in LocalsSet : Goto(t, p, m) => ControlInv'
  BY <1>2, <1>3, MovesElsewhere
<1>5. {"wait", "unsignal", "restore", "join", "verify", "verifying", "claim_probe", "close",
       "unwind", "shutdown_failed"} \subseteq Elsewhere
  BY DEF Elsewhere, Places, RunsReaders, CancelPlaces, StarterPlaces
<1>6. /\ \A c \in Codes : [l EXCEPT !.code = c] \in LocalsSet
      /\ [l EXCEPT !.todo = StreamOrder] \in LocalsSet
  BY <1>1, ListsOfHandles DEF LocalsSet
<1>7. \A c \in Codes : Fails(t, c) => ControlInv'
  BY <1>4, <1>5, <1>6 DEF Fails
<1>8. CloseGracefully(t) => ControlInv'
  <2>1. [l EXCEPT !.clean = ~uncertain /\ ~ctrl_c, !.empty = TRUE,
                  !.todo = <<"process", "stderr", "stdout", "job">>] \in LocalsSet
    BY <1>1, ListsOfHandles DEF LocalsSet
  <2> QED BY <1>4, <1>5, <2>1 DEF CloseGracefully
<1> USE <1>1, <1>4, <1>5, <1>6, <1>7, <1>8 DEF Codes
<1>11. CASE SignalRoot(t) BY <1>11 DEF SignalRoot
<1>12. CASE UndoSignal(t) BY <1>12 DEF UndoSignal
<1>13. CASE WaitRoot(t) BY <1>13 DEF WaitRoot, Step
<1>14. CASE RestoreAndExamine(t) BY <1>14 DEF RestoreAndExamine
<1>15. CASE AwaitEmptyJob(t) BY <1>15 DEF AwaitEmptyJob, Step
<1>16. CASE BeginVerify(t) BY <1>16 DEF BeginVerify, Step
<1>17. CASE EndVerify(t) BY <1>17 DEF EndVerify
<1>18. CASE ClaimProbe(t) BY <1>18 DEF ClaimProbe
<1> QED
  BY <1>11, <1>12, <1>13, <1>14, <1>15, <1>16, <1>17, <1>18 DEF Graceful

(* So do the forced cleanup and the closing of what is managed.                *)
ForcedStep(t) ==
    ForcedTerminate(t) \/ ForcedWait(t) \/ ForcedRestore(t) \/ ForcedJob(t)

LEMMA ControlForced ==
    ASSUME ControlInv, NEW t \in Threads, ForcedStep(t) PROVE ControlInv'
<1> DEFINE l == loc[t]
           failed(m) == [m EXCEPT !.failed = TRUE]
<1>1. l \in LocalsSet BY DEF ControlInv
<1>2. UNCHANGED cancelling
  BY DEF ForcedStep, ForcedTerminate, ForcedWait, ForcedRestore, ForcedJob, NoReaders, cancelVars
<1>3. pc[t] \notin CancelPlaces
  BY DEF ForcedStep, ForcedTerminate, ForcedWait, ForcedRestore, ForcedJob, Tried, Step, At,
     CancelPlaces
<1>4. \A p \in Elsewhere, m \in LocalsSet : Goto(t, p, m) => ControlInv'
  BY <1>2, <1>3, MovesElsewhere
<1>5. {"forced_restore", "forced_join", "close"} \subseteq Elsewhere
  BY DEF Elsewhere, Places, RunsReaders, CancelPlaces, StarterPlaces
<1>6. \A m \in LocalsSet : failed(m) \in LocalsSet /\ failed(m).todo = m.todo
  BY DEF LocalsSet
<1> DEFINE m == [l EXCEPT !.todo = Attached]
<1>7. m \in LocalsSet /\ m.todo \in Seq(Streams)
  <2>1. Attached \in Seq(Streams) BY StreamsAssumption DEF Attached
  <2>2. Attached \in Seq(Handles) BY ListsOfHandles
  <2> QED BY <1>1, <2>1, <2>2 DEF LocalsSet
<1>10. CASE ForcedTerminate(t)
  <2>1. Goto(t, "forced_cancel", m) \/ Goto(t, "forced_cancel", failed(m))
    BY <1>10 DEF ForcedTerminate, Tried, Step
  <2>2. cancelling[t].at = "idle" BY <1>3 DEF ControlInv
  <2>3. "forced_cancel" \in Places /\ "forced_cancel" \notin StarterPlaces
    BY DEF Places, StarterPlaces
  <2> HIDE DEF m, failed
  <2> QED BY <1>2, <1>6, <1>7, <2>1, <2>2, <2>3, Moves
<1>11. CASE ForcedWait(t)
  <2>1. Goto(t, "forced_restore", l) \/ Goto(t, "forced_restore", failed(l))
    BY <1>11 DEF ForcedWait, Tried, Step
  <2> HIDE DEF failed
  <2> QED BY <1>1, <1>4, <1>5, <1>6, <2>1
<1>12. CASE ForcedRestore(t)
  <2>1. Goto(t, "forced_join", m) \/ Goto(t, "forced_join", failed(m))
    BY <1>12 DEF ForcedRestore, Tried, Step
  <2> HIDE DEF m, failed
  <2> QED BY <1>4, <1>5, <1>6, <1>7, <2>1
<1>13. CASE ForcedJob(t)
  <2> DEFINE pipes == IF l.joined THEN <<"stderr", "stdout">> ELSE <<>>
             closing == [l EXCEPT !.todo = <<"process">> \o pipes \o <<"job">>,
                                  !.clean = ~uncertain /\ ~ctrl_c /\ l.joined]
             empty == [closing EXCEPT !.empty = TRUE]
  <2>1. <<"process">> \o pipes \o <<"job">> \in Seq(Handles) BY ListsOfHandles
  <2>2. l.joined \in BOOLEAN BY <1>1 DEF LocalsSet
  <2>3. closing \in LocalsSet BY <1>1, <2>1, <2>2 DEF LocalsSet
  <2> HIDE DEF closing
  <2>4. empty \in LocalsSet BY <2>3 DEF LocalsSet
  <2>5. Goto(t, "close", empty) \/ Goto(t, "close", failed(closing))
    BY <1>13 DEF ForcedJob, Tried, Step, closing
  <2> HIDE DEF failed, empty
  <2> QED BY <1>4, <1>5, <1>6, <2>3, <2>4, <2>5
<1> QED BY <1>10, <1>11, <1>12, <1>13 DEF ForcedStep

Closing(t) ==
    CloseManaged(t) \/ FreeConsole(t) \/ ReleaseManaged(t) \/ Report(t) \/ ShutdownFailed(t)

LEMMA ControlClosing ==
    ASSUME ControlInv, NEW t \in Threads, Closing(t) PROVE ControlInv'
<1> DEFINE l == loc[t]
<1>1. l \in LocalsSet BY DEF ControlInv
<1>2. UNCHANGED cancelling
  BY DEF Closing, CloseManaged, FreeConsole, ReleaseManaged, Report, ShutdownFailed,
     NoReaders, cancelVars
<1>3. pc[t] \notin CancelPlaces
  BY DEF Closing, CloseManaged, FreeConsole, ReleaseManaged, Report, ShutdownFailed, At,
     CancelPlaces
<1>4. \A p \in Elsewhere, m \in LocalsSet : Goto(t, p, m) => ControlInv'
  BY <1>2, <1>3, MovesElsewhere
<1>5. {"close", "release", "report", "shutdown_failed", "forced_terminate"} \subseteq Elsewhere
  BY DEF Elsewhere, Places, RunsReaders, CancelPlaces, StarterPlaces
<1>6. \A r : Returns(t, r) /\ UNCHANGED loc => ControlInv'
  BY <1>2, <1>3, Ends
<1>7. \A m \in LocalsSet, c \in Codes : [m EXCEPT !.clean = FALSE, !.code = c] \in LocalsSet
  BY DEF LocalsSet
<1>10. CASE CloseManaged(t)
  <2> DEFINE next == [l EXCEPT !.todo = Tail(@)]
  <2>1. Tail(l.todo) \in Seq(Handles) BY <1>1, <1>10, TailType DEF CloseManaged
  <2>2. next \in LocalsSet BY <1>1, <2>1 DEF LocalsSet
  <2>3. \/ Goto(t, "close", next)
        \/ \E c \in Codes : Goto(t, "close", [next EXCEPT !.clean = FALSE, !.code = c])
    BY <1>10 DEF CloseManaged, Codes
  <2> HIDE DEF next
  <2> QED BY <1>4, <1>5, <1>7, <2>2, <2>3
<1>11. CASE FreeConsole(t)
  <2>1. \/ Goto(t, "release", l)
        \/ \E c \in Codes : Goto(t, "release", [l EXCEPT !.clean = FALSE, !.code = c])
    BY <1>11 DEF FreeConsole, Codes
  <2> QED BY <1>1, <1>4, <1>5, <1>7, <2>1
<1>12. CASE ReleaseManaged(t)
  <2> DEFINE code == IF l.clean THEN "cleanup_failed" ELSE l.code
             bad == [l EXCEPT !.failed = TRUE, !.code = code]
  <2>1. code \in Codes BY <1>1 DEF LocalsSet, Codes
  <2>2. bad \in LocalsSet BY <1>1, <2>1 DEF LocalsSet
  <2>3. Goto(t, "report", l) \/ Goto(t, "report", bad)
    BY <1>12 DEF ReleaseManaged
  <2> HIDE DEF bad
  <2> QED BY <1>1, <1>4, <1>5, <2>2, <2>3
<1>13. CASE Report(t) BY <1>13, <1>1, <1>4, <1>5, <1>6 DEF Report
<1>14. CASE ShutdownFailed(t)
  <2> DEFINE m == Locals("forced")
  <2>1. m \in LocalsSet BY ListsOfHandles DEF Locals, Kinds, Codes, LocalsSet
  <2>2. l.code \in Codes BY <1>1 DEF LocalsSet
  <2> HIDE DEF m
  <2>3. [m EXCEPT !.code = l.code] \in LocalsSet BY <2>1, <2>2 DEF LocalsSet
  <2>4. \/ Returns(t, "cleanup_failed") /\ UNCHANGED loc
        \/ Goto(t, "forced_terminate", [m EXCEPT !.code = l.code])
    BY <1>14 DEF ShutdownFailed, m
  <2> QED BY <1>4, <1>5, <1>6, <2>3, <2>4
<1> QED BY <1>10, <1>11, <1>12, <1>13, <1>14 DEF Closing

-----------------------------------------------------------------------------
(* Every step of the session, as the readers see it.                           *)

\* Until the process is created nothing runs and no reader has been started.
Before == {"claim", "console", "acquire", "prelaunch", "verify_launch", "create"}
BeforeInv ==
    pc[Starter] \in Before => live = {} /\ \A r \in Streams : step[r] = "created"

SInv == ReaderTypeOK /\ ControlInv /\ BeforeInv

LEMMA SInvInit == Init => SInv
<1> SUFFICES ASSUME Init PROVE SInv
  OBVIOUS
<1>1. ReaderTypeOK BY TypeInit DEF Init
<1>2. BeforeInv BY DEF Init, ReaderInit, BeforeInv
<1>3. ControlInv
  <2>1. Locals("none") \in LocalsSet BY ListsOfHandles DEF Locals, LocalsSet, Kinds, Codes
  <2>2. \A t \in Threads : pc[t] \in {"claim", "idle"} /\ cancelling[t].at = "idle"
    BY DEF Init, ReaderInit, Idle
  <2>3. pc \in [Threads -> Places] /\ loc \in [Threads -> LocalsSet]
    BY <2>1 DEF Init, Places
  <2> QED BY <2>2, <2>3 DEF ControlInv, RunsReaders, CancelPlaces, StarterPlaces
<1> QED BY <1>1, <1>2, <1>3 DEF SInv

(* The launch: only the creation of the process touches what readers see.      *)
LEMMA LaunchIsReaders ==
    ASSUME SInv, StartStep
    PROVE  (Launch \/ UNCHANGED logVars) /\ BeforeInv'
<1> DEFINE Places1 == {"launch_terminate", "launch_close"}
<1>1. \A p, l : Goto(Starter, p, l) => pc'[Starter] = p
  BY ThreadsAssumption DEF SInv, ControlInv, Goto
<1>2. \A r : Returns(Starter, r) => pc'[Starter] = "done"
  BY ThreadsAssumption DEF SInv, ControlInv, Returns
<1>3. \A c : FailStart(c) => pc'[Starter] \in Places1
  BY <1>1 DEF FailStart
<1>4. CASE CreateProcess
  <2>1. live = {} /\ \A r \in Streams : step[r] = "created"
    BY <1>4 DEF CreateProcess, At, SInv, BeforeInv, Before
  <2>2. Launch \/ UNCHANGED logVars
    BY <1>4, <2>1 DEF CreateProcess, NoReader, Launch, logVars
  <2>3. pc'[Starter] \notin Before
    BY <1>1, <1>3, <1>4, <2>1 DEF CreateProcess, Before
  <2> QED BY <2>2, <2>3 DEF BeforeInv
<1>5. CASE ~CreateProcess
  <2>1. UNCHANGED logVars
    BY <1>5 DEF StartStep, ClaimLease, AllocateConsole, AcquireHandles, BeginPrelaunch,
         EndPrelaunch, RetireHandles, InspectProcess, LaunchTerminate, LaunchWait,
         LaunchClose, LaunchFreeConsole, LaunchRelease, NoReader, logVars
  <2>2. pc'[Starter] \in Before => pc[Starter] \in Before
    BY <1>1, <1>2, <1>3, <1>5 DEF StartStep, ClaimLease, AllocateConsole, AcquireHandles,
         BeginPrelaunch,
         EndPrelaunch, RetireHandles, InspectProcess, LaunchTerminate, LaunchWait,
         LaunchClose, LaunchFreeConsole, LaunchRelease, At, Before
  <2> QED BY <2>1, <2>2 DEF SInv, BeforeInv, logVars, readerVars
<1> QED BY <1>4, <1>5

(* The rest of a start: it starts readers and may fail the router.             *)
LEMMA SessionIsReaders ==
    ASSUME SInv, SessionStart
    PROVE  /\ FailRouter \/ (\E r \in Streams : StartReader(r)) \/ UNCHANGED logVars
           /\ BeforeInv'
<1> DEFINE l == loc[Starter]
<1>1. FailRouter \/ (\E r \in Streams : StartReader(r)) \/ UNCHANGED logVars
  <2>1. CASE StartReaders
    <3>1. l.todo # <<>> => Head(l.todo) \in Streams
      <4>1. l.todo \in Seq(Streams)
        BY <2>1, ThreadsAssumption DEF StartReaders, At, SInv, ControlInv, RunsReaders
      <4> QED BY <4>1, HeadTailProperties
    <3>2. \/ l.todo # <<>> /\ StartReader(Head(l.todo))
          \/ NoReaders /\ UNCHANGED live
      BY <2>1 DEF StartReaders
    <3> QED BY <3>1, <3>2 DEF NoReaders, logVars
  <2>2. CASE FailReaders BY <2>2 DEF FailReaders
  <2>3. CASE Unwind BY <2>3 DEF Unwind, FailRouter
  <2> QED
    BY <2>1, <2>2, <2>3 DEF SessionStart, AttachReaders, PollStartup, RecheckStartup,
       BindSession, NoReaders, logVars
<1>2. \A p, m : Goto(Starter, p, m) => pc'[Starter] = p
  BY ThreadsAssumption DEF SInv, ControlInv, Goto
<1>3. \A r : Returns(Starter, r) => pc'[Starter] = "done"
  BY ThreadsAssumption DEF SInv, ControlInv, Returns
<1>4. pc'[Starter] \notin Before
  BY <1>2, <1>3 DEF SessionStart, AttachReaders, StartFails, StartReaders, FailReaders,
     PollStartup, RecheckStartup, BindSession, Unwind, Step, Before
<1> QED BY <1>1, <1>4 DEF BeforeInv

\* The launch, from the lease to the process or to its undoing.
Launching == Before \cup {"retire", "inspect", "launch_terminate", "launch_wait", "launch_close"}

(* A cleanup moves its own thread only, and never into a launch.               *)
Launched == Launching \cup {"launch_console", "launch_release", "managed"}
MovesOnly(t) ==
    /\ pc'[t] \notin Launched
    /\ \A u \in Threads : u # t => pc'[u] = pc[u] /\ loc'[u] = loc[u]

LEMMA CleanupMoves ==
    ASSUME ControlInv, NEW t \in Threads, CleanupStep(t) PROVE MovesOnly(t)
<1> DEFINE l == loc[t]
<1>1. \A p, m : Goto(t, p, m) /\ p \notin Launched => MovesOnly(t)
  BY DEF ControlInv, Goto, MovesOnly
<1>2. \A r : Returns(t, r) /\ UNCHANGED loc => MovesOnly(t)
  BY DEF ControlInv, Returns, Launched, Launching, Before, MovesOnly
<1>3. {"unwind", "shutdown_failed", "close", "start_join", "forced_wait", "forced_job", "job",
       "wait", "unsignal", "restore", "join", "verify", "verifying", "claim_probe", "release",
       "report", "forced_terminate", "forced_cancel", "forced_restore", "forced_join"}
          \cap Launched = {}
  BY DEF Launched, Launching, Before
<1>4. \A c : Fails(t, c) => MovesOnly(t) BY <1>1, <1>3 DEF Fails
<1>5. CASE BeginCancel(t) \/ EndCancel(t)
  <2>1. pc[t] \in CancelPlaces
    BY <1>5 DEF BeginCancel, EndCancel, CancelReturn, CancelReturned, ControlInv
  <2>2. pc[t] \notin Launched BY <2>1 DEF CancelPlaces, Launched, Launching, Before
  <2>3. \E m : Goto(t, pc[t], m) BY <1>5 DEF BeginCancel, EndCancel
  <2> QED BY <1>1, <2>2, <2>3
<1>6. CASE ContinueCancel(t)
  <2>1. cancelling[t].at # "idle"
    BY <1>6 DEF ContinueCancel, CancelStep, CancelUnregistered, CancelPending, CancelMissed,
       CancelGivesUp, CancelConclude, CancelFollowed, Leads
  <2>2. pc[t] \in CancelPlaces /\ UNCHANGED <<pc, loc>>
    BY <1>6, <2>1 DEF ContinueCancel, ControlInv
  <2> QED BY <2>2 DEF CancelPlaces, Launched, Launching, Before, MovesOnly
<1>7. CASE AllCancelled(t)
  <2>1. \E p \in {"start_join", "forced_wait"}, m \in {l, [l EXCEPT !.todo = StreamOrder]} :
          Goto(t, p, m)
    BY <1>7 DEF AllCancelled, Step
  <2> QED BY <1>1, <1>3, <2>1
<1>8. CASE JoinReader(t)
  <2>1. \/ Goto(t, pc[t], loc'[t]) /\ pc[t] \in JoinPlaces
        \/ \E c : Fails(t, c)
    BY <1>8 DEF JoinReader, Goto, ControlInv, JoinPlaces
  <2>2. JoinPlaces \cap Launched = {} BY DEF JoinPlaces, Launched, Launching, Before
  <2> QED BY <2>1, <2>2, <1>1, <1>4
<1>9. CASE AllJoined(t)
  <2>1. \/ At(t, "start_join") /\ StartFails(l)
        \/ Goto(t, "forced_job", l) \/ Goto(t, "job", l)
        \/ \E c : Fails(t, c)
    BY <1>9 DEF AllJoined, Step
  <2>2. At(t, "start_join") => t = Starter BY DEF At, ControlInv, StarterPlaces
  <2> QED BY <2>1, <2>2, <1>1, <1>2, <1>3, <1>4 DEF StartFails
<1>10. CASE Graceful(t)
  <2>1. CloseGracefully(t) => MovesOnly(t) BY <1>1, <1>3 DEF CloseGracefully
  <2> QED
    BY <1>10, <2>1, <1>1, <1>3, <1>4 DEF Graceful, SignalRoot, UndoSignal, WaitRoot,
       RestoreAndExamine, AwaitEmptyJob, BeginVerify, EndVerify, ClaimProbe, Step
<1>11. CASE ForcedStep(t)
  BY <1>11, <1>1, <1>3 DEF ForcedStep, ForcedTerminate, ForcedWait, ForcedRestore, ForcedJob,
     Tried, Step
<1>12. CASE Closing(t)
  <2>1. \/ \E p \in {"close", "release", "report", "shutdown_failed", "forced_terminate"} :
               \E m : Goto(t, p, m)
        \/ \E r : Returns(t, r) /\ UNCHANGED loc
    <3>1. CASE CloseManaged(t) BY <3>1 DEF CloseManaged
    <3>2. CASE FreeConsole(t) BY <3>2 DEF FreeConsole
    <3>3. CASE ReleaseManaged(t) BY <3>3 DEF ReleaseManaged
    <3>4. CASE Report(t) BY <3>4 DEF Report
    <3>5. CASE ShutdownFailed(t) BY <3>5 DEF ShutdownFailed
    <3> QED BY <1>12, <3>1, <3>2, <3>3, <3>4, <3>5 DEF Closing
  <2> QED BY <2>1, <1>1, <1>2, <1>3
<1> QED
  BY <1>5, <1>6, <1>7, <1>8, <1>9, <1>10, <1>11, <1>12
     DEF CleanupStep, Graceful, ForcedStep, Closing

(* A cleanup cancels readers, and starts nothing.                              *)
LEMMA CleanupIsReaders ==
    ASSUME SInv, NEW t \in Threads, CleanupStep(t)
    PROVE  /\ \/ \E r \in Streams, zero \in BOOLEAN : EnterCancel(t, r, zero)
              \/ CancelStep(t) \/ CancelReturn(t) \/ UNCHANGED logVars
           /\ BeforeInv'
<1> DEFINE l == loc[t]
<1>1. UNCHANGED <<step, live>> => BeforeInv'
  <2>1. pc'[Starter] \in Before => pc[Starter] \in Before
    BY CleanupMoves, ThreadsAssumption DEF SInv, Launched, Launching, MovesOnly
  <2> QED BY <2>1 DEF SInv, BeforeInv
<1>2. CASE BeginCancel(t)
  <2>1. PICK zero \in BOOLEAN : EnterCancel(t, Head(l.todo), zero)
    BY <1>2 DEF BeginCancel
  <2>2. l.todo \in Seq(Streams) /\ l.todo # <<>>
    BY <1>2 DEF BeginCancel, SInv, ControlInv, RunsReaders
  <2>3. Head(l.todo) \in Streams BY <2>2, HeadTailProperties
  <2>4. UNCHANGED <<step, live>>
    BY <2>1 DEF EnterCancel, CancelReplay, CancelFollow, CancelLead, readerVars
  <2> QED BY <1>1, <2>1, <2>3, <2>4
<1>3. CASE ContinueCancel(t)
  <2>1. UNCHANGED <<step, live>>
    BY <1>3 DEF ContinueCancel, CancelStep, CancelUnregistered, CancelPending, CancelMissed,
       CancelGivesUp, CancelConclude, CancelFollowed, readerVars
  <2> QED BY <1>1, <1>3, <2>1 DEF ContinueCancel
<1>4. CASE EndCancel(t)
  BY <1>1, <1>4 DEF EndCancel, CancelReturn, readerVars
<1>5. CASE ~(BeginCancel(t) \/ ContinueCancel(t) \/ EndCancel(t))
  <2>1. UNCHANGED logVars
    BY <1>5 DEF CleanupStep, AllCancelled, JoinReader, AllJoined, SignalRoot, UndoSignal,
       WaitRoot, RestoreAndExamine, AwaitEmptyJob, BeginVerify, EndVerify, ClaimProbe,
       CloseManaged, FreeConsole, ReleaseManaged, Report, ShutdownFailed, ForcedTerminate,
       ForcedWait, ForcedRestore, ForcedJob, NoReaders, logVars
  <2> QED BY <1>1, <2>1 DEF logVars, readerVars
<1> QED BY <1>2, <1>3, <1>4, <1>5

LEMMA ReaderKeepsCalls ==
    ASSUME NEW r \in Streams, ReaderStep(r) PROVE UNCHANGED cancelling
BY DEF ReaderStep, OpenThread, OpenFails, PublishThread, CheckCancelled, ObserveCancel,
   IssueRead, ReadData, ReadEof, ReadAborted, ReadFails, DrainFails, WithdrawThread,
   CloseThread, cancelVars

(* Every step of the session keeps the invariant and, to the readers, is one of *)
(* their steps or none.                                                        *)
LEMMA StepIsReaders ==
    ASSUME SInv, [Next]_vars
    PROVE  [ReaderNext]_logVars /\ SInv'
<1> SUFFICES [ReaderNext]_logVars /\ ControlInv' /\ BeforeInv'
  BY TypeNext DEF SInv
<1>1. CASE StarterStep
  <2>1. CASE LaunchStep
    BY <2>1, LaunchIsReaders, ControlStart DEF LaunchStep, SInv, ReaderNext
  <2>2. CASE SessionStart
    BY <2>2, SessionIsReaders, ControlSession DEF SInv, ReaderNext
  <2> QED BY <1>1, <2>1, <2>2 DEF StarterStep, SessionStart
<1>2. ASSUME NEW t \in Threads, CleanupStep(t)
      PROVE  [ReaderNext]_logVars /\ ControlInv' /\ BeforeInv'
  <2>1. [ReaderNext]_logVars /\ BeforeInv' BY <1>2, CleanupIsReaders DEF ReaderNext
  <2>2. ControlInv'
    BY <1>2, ControlCancel, ControlJoin, ControlGraceful, ControlForced, ControlClosing
       DEF SInv, CleanupStep, Graceful, ForcedStep, Closing
  <2> QED BY <2>1, <2>2
<1>3. ASSUME NEW t \in Closers, Abort(t) \/ Shutdown(t)
      PROVE  [ReaderNext]_logVars /\ ControlInv' /\ BeforeInv'
  <2>1. t \in Threads /\ t # Starter BY <1>3, ThreadsAssumption
  <2>2. UNCHANGED logVars
    BY <1>3 DEF Abort, Shutdown, Claim, NoReaders, logVars
  <2>3. ControlInv' BY <1>3, <2>1, ControlCalls DEF SInv
  <2>4. pc'[Starter] = pc[Starter]
    BY <1>3, <2>1, ThreadsAssumption
       DEF Abort, Shutdown, Claim, Goto, Returns, SInv, ControlInv
  <2> QED BY <2>2, <2>3, <2>4 DEF SInv, BeforeInv, logVars, readerVars
<1>4. ASSUME NEW r \in Streams, ReaderRuns(r)
      PROVE  [ReaderNext]_logVars /\ ControlInv' /\ BeforeInv'
  <2>1. ReaderStep(r) BY <1>4 DEF ReaderRuns, ReaderStep
  <2>2. step[r] # "created"
    BY <2>1 DEF ReaderStep, OpenThread, OpenFails, PublishThread, CheckCancelled,
       ObserveCancel, IssueRead, ReadData, ReadEof, ReadAborted, ReadFails, WithdrawThread,
       CloseThread, Move
  <2>3. UNCHANGED <<pc, loc>> BY <1>4 DEF ReaderRuns
  <2>4. UNCHANGED cancelling BY <2>1, ReaderKeepsCalls
  <2>5. ControlInv' BY <2>3, <2>4 DEF SInv, ControlInv
  <2>6. BeforeInv' BY <2>2, <2>3 DEF SInv, BeforeInv
  <2> QED BY <2>1, <2>5, <2>6 DEF ReaderNext
<1>5. CASE ProcessesEnd
  <2>1. Exit BY <1>5 DEF ProcessesEnd, Exit
  <2>2. live # {} /\ UNCHANGED <<pc, loc, cancelling>>
    BY <1>5 DEF ProcessesEnd, cancelVars
  <2> QED BY <2>1, <2>2 DEF SInv, ControlInv, BeforeInv, ReaderNext
<1>6. CASE UNCHANGED vars
  BY <1>6 DEF vars, logVars, readerVars, cancelVars, startVars, SInv, ControlInv, BeforeInv
<1> QED
  BY <1>1, <1>2, <1>3, <1>4, <1>5, <1>6 DEF Next, ThreadStep, AllEnded

(* Inside a session the readers take only the steps LogReaders gives them (the *)
(* session is written so), which brings its theorems here.                     *)
LEMMA ReadersBehave == Spec => ReaderSpec
<1>1. Init => SInv BY SInvInit
<1>2. SInv /\ [Next]_vars => [ReaderNext]_logVars /\ SInv' BY StepIsReaders
<1>3. Init => ReaderInit BY DEF Init
<1> QED BY <1>1, <1>2, <1>3, PTL DEF Spec, ReaderSpec

(* So in a session too a cancel that has reported success holds, whoever else  *)
(* cancels, joins or closes.                                                   *)
THEOREM SessionCancelHolds == Spec => []CancelHolds
BY ReadersBehave, SuccessHolds, PTL

(* And the thread handle CancelSynchronousIo is given is open, whichever of    *)
(* the callers cancels and however far the reader's own end has got.           *)
THEOREM SessionHandleOpen == Spec => []CancelTargetsOpenThread
BY ReadersBehave, HandleOpen, PTL

-----------------------------------------------------------------------------
(* No handle is closed twice.                                                  *)

\* A list without repetitions, none of whose elements is in S.
Distinct(q) == \A i, j \in 1 .. Len(q) : q[i] = q[j] => i = j
Unclosed(S) == \A h \in S : closes[h] = 0

\* What may still be closed has not been: by the launch, while the process is
\* being created; by its cleanup; and by whoever holds the managed process.
CloseInv ==
    /\ closes \in [Handles -> Nat] /\ owned \subseteq Handles
    /\ managed \subseteq Handles /\ ClosedOnce
    /\ Unclosed(managed)
    /\ pc[Starter] \in Launching => managed = {}
    /\ pc[Starter] \in Before => Unclosed(Handles)
    /\ pc[Starter] \in {"retire", "inspect"} => Unclosed(owned) /\ Unclosed(Retained)
    /\ LET todo == loc[Starter].todo IN
       /\ pc[Starter] = "retire" =>
             /\ Distinct(todo)
             /\ \A i \in 1 .. Len(todo) : todo[i] \notin Retained /\ closes[todo[i]] = 0
       /\ pc[Starter] \in {"launch_terminate", "launch_wait", "launch_close"} =>
             /\ Distinct(todo)
             /\ \A i \in 1 .. Len(todo) : todo[i] \in owned => closes[todo[i]] = 0

LEMMA TailDistinct ==
    ASSUME NEW S, NEW q \in Seq(S), q # <<>>, Distinct(q)
    PROVE  /\ Distinct(Tail(q))
           /\ \A i \in 1 .. Len(Tail(q)) : \E j \in 1 .. Len(q) : Tail(q)[i] = q[j]
           /\ \A i \in 1 .. Len(Tail(q)) : Tail(q)[i] # Head(q)
           /\ 1 \in 1 .. Len(q) /\ Head(q) = q[1]
<1>1. /\ Tail(q) \in Seq(S) /\ Len(Tail(q)) = Len(q) - 1 /\ Len(q) \in Nat /\ Len(q) # 0
      /\ \A i \in 1 .. Len(Tail(q)) : Tail(q)[i] = q[i + 1]
      /\ Head(q) = q[1]
  BY HeadTailProperties, EmptySeq
<1>2. \A i \in 1 .. Len(Tail(q)) : i + 1 \in 1 .. Len(q) /\ i + 1 # 1
  BY <1>1
<1> QED BY <1>1, <1>2 DEF Distinct

LEMMA ListsAreDistinct ==
    /\ Distinct(CloseOrder)
    /\ Distinct(<<"attributes", "thread">> \o Children)
    /\ \A i \in 1 .. Len(<<"attributes", "thread">> \o Children) :
          (<<"attributes", "thread">> \o Children)[i] \in Handles \ Retained
<1>1. Distinct(CloseOrder) BY DEF Distinct, CloseOrder
<1> DEFINE q == <<"attributes", "thread">> \o Children
<1>2. /\ Len(q) = 5 /\ q[1] = "attributes" /\ q[2] = "thread"
      /\ q[3] = "stderr_child" /\ q[4] = "stdout_child" /\ q[5] = "stdin"
  <2>1. <<"attributes", "thread">> \in Seq(Handles) /\ Children \in Seq(Handles)
    BY HandlesAre DEF Children
  <2>2. Len(<<"attributes", "thread">>) = 2 /\ Len(Children) = 3 BY DEF Children
  <2>3. \A s1, s2 \in Seq(Handles) :
           Len(s1) = 2 /\ Len(s2) = 3 =>
              /\ Len(s1 \o s2) = 5
              /\ (s1 \o s2)[1] = s1[1] /\ (s1 \o s2)[2] = s1[2]
              /\ (s1 \o s2)[3] = s2[1] /\ (s1 \o s2)[4] = s2[2] /\ (s1 \o s2)[5] = s2[3]
    <3> SUFFICES ASSUME NEW s1 \in Seq(Handles), NEW s2 \in Seq(Handles),
                        Len(s1) = 2, Len(s2) = 3
                 PROVE  /\ Len(s1 \o s2) = 5
                        /\ (s1 \o s2)[1] = s1[1] /\ (s1 \o s2)[2] = s1[2]
                        /\ (s1 \o s2)[3] = s2[1] /\ (s1 \o s2)[4] = s2[2]
                        /\ (s1 \o s2)[5] = s2[3]
      OBVIOUS
    <3> DEFINE c == s1 \o s2
    <3>1. /\ Len(c) = Len(s1) + Len(s2)
          /\ \A i \in 1 .. Len(s1) + Len(s2) : c[i] = IF i <= Len(s1) THEN s1[i] ELSE s2[i - Len(s1)]
      BY ConcatProperties
    <3> HIDE DEF c
    <3>2. \A i \in 1 .. 5 : c[i] = IF i <= 2 THEN s1[i] ELSE s2[i - 2]
      BY <3>1
    <3>3. c[3] = s2[3 - 2] /\ c[4] = s2[4 - 2] /\ c[5] = s2[5 - 2] BY <3>2
    <3>4. c[1] = s1[1] /\ c[2] = s1[2] BY <3>2
    <3>5. c[3] = s2[1] /\ c[4] = s2[2] /\ c[5] = s2[3] BY <3>3
    <3>6. Len(c) = 5 BY <3>1
    <3> QED BY <3>4, <3>5, <3>6 DEF c
  <2>4. /\ Len(q) = 5 /\ q[1] = <<"attributes", "thread">>[1]
        /\ q[2] = <<"attributes", "thread">>[2]
        /\ q[3] = Children[1] /\ q[4] = Children[2] /\ q[5] = Children[3]
    BY <2>1, <2>2, <2>3
  <2> HIDE DEF q
  <2>5. /\ <<"attributes", "thread">>[1] = "attributes"
        /\ <<"attributes", "thread">>[2] = "thread"
        /\ Children[1] = "stderr_child" /\ Children[2] = "stdout_child"
        /\ Children[3] = "stdin"
    BY DEF Children
  <2> QED BY <2>4, <2>5
<1> HIDE DEF q
<1>3. Distinct(q) BY <1>2 DEF Distinct
<1>4. \A i \in 1 .. Len(q) : q[i] \in Handles \ Retained
  BY <1>2, HandlesAre DEF Retained
<1> QED BY <1>1, <1>3, <1>4 DEF q

\* What CloseInv says of every state, wherever the threads are.
Counted ==
    /\ closes \in [Handles -> Nat] /\ owned \subseteq Handles
    /\ managed \subseteq Handles /\ ClosedOnce
    /\ Unclosed(managed)

LEMMA CountedHolds == CloseInv => Counted
BY DEF CloseInv, Counted

(* A failed launch goes to its cleanup with every handle it owns unclosed.     *)
LEMMA FailStartCloses ==
    ASSUME ControlInv, NEW c, FailStart(c), Counted', managed' = {},
           \A h \in owned' : closes'[h] = 0
    PROVE  CloseInv'
<1>1. loc[Starter] \in LocalsSet BY ThreadsAssumption DEF ControlInv
<1>2. PICK p \in {"launch_terminate", "launch_close"} :
          Goto(Starter, p, [loc[Starter] EXCEPT !.code = c, !.empty = "process" \notin owned',
                                                !.todo = CloseOrder])
  BY DEF FailStart
<1>3. pc'[Starter] = p /\ loc'[Starter].todo = CloseOrder
  BY <1>1, <1>2, ThreadsAssumption DEF Goto, ControlInv, LocalsSet
<1>4. \A i \in 1 .. Len(CloseOrder) : CloseOrder[i] \in owned' => closes'[CloseOrder[i]] = 0
  OBVIOUS
<1> QED
  BY <1>3, <1>4, ListsAreDistinct DEF CloseInv, Counted, Before, Distinct

(* One close of a handle that has not been closed before.                      *)
LEMMA CloseCounts ==
    ASSUME Counted, NEW h \in Handles, closes[h] = 0, NEW ok, CloseNative(h, ok)
    PROVE  /\ closes' \in [Handles -> Nat] /\ ClosedOnce'
           /\ closes'[h] = 1 /\ \A g \in Handles : g # h => closes'[g] = closes[g]
BY DEF Counted, CloseNative, ClosedOnce

LEMMA CloseLaunch ==
    ASSUME SInv, CloseInv, StartStep PROVE CloseInv'
<1> DEFINE l == loc[Starter]
<1>1. l \in LocalsSet BY ThreadsAssumption DEF SInv, ControlInv
<1>2. \A p, m : Goto(Starter, p, m) => pc'[Starter] = p /\ loc'[Starter] = m
  BY ThreadsAssumption DEF SInv, ControlInv, Goto
<1>3. ControlInv /\ Counted BY CountedHolds DEF SInv
<1>4. pc[Starter] \in Before => managed = {} /\ Unclosed(Handles)
  BY DEF CloseInv, Launching
<1>5. CASE ClaimLease
  BY <1>5, <1>2, <1>3, <1>4
     DEF ClaimLease, CloseInv, Counted, At, Before, Launching, Unclosed, ClosedOnce
<1>6. CASE AllocateConsole
  <2>1. managed' = {} /\ Counted' /\ \A h \in owned' : closes'[h] = 0
    BY <1>6, <1>3, <1>4 DEF AllocateConsole, At, Before, Counted, Unclosed, ClosedOnce
  <2>2. CASE FailStart("console_failed") BY <1>3, <2>1, <2>2, FailStartCloses
  <2>3. CASE ~FailStart("console_failed")
    <3>1. pc'[Starter] = "acquire" BY <1>2, <1>6, <2>3 DEF AllocateConsole
    <3>2. Unclosed(Handles)' BY <1>6, <1>4 DEF AllocateConsole, At, Before, Unclosed, Handles
    <3> QED BY <2>1, <3>1, <3>2 DEF CloseInv, Counted, Before, Launching
  <2> QED BY <2>2, <2>3
<1>7. CASE AcquireHandles
  <2>1. l.todo # <<>> => Head(l.todo) \in Handles
    <3>1. l.todo \in Seq(Handles) BY <1>1 DEF LocalsSet
    <3> QED BY <3>1, HeadTailProperties
  <2>2. l.todo # <<>> => Brings(Head(l.todo)) \subseteq Handles
    BY <2>1, HandlesAre DEF Brings
  <2>3. managed = {} /\ Unclosed(Handles) BY <1>7, <1>4 DEF AcquireHandles, At, Before
  <2>4. owned' \subseteq Handles
    BY <1>7, <1>3, <2>1, <2>2 DEF AcquireHandles, Counted
  <2>5. UNCHANGED <<closes, managed>> BY <1>7 DEF AcquireHandles
  <2>6. managed' = {} /\ Unclosed(Handles)' /\ Counted'
    BY <1>3, <2>3, <2>4, <2>5 DEF Counted, Unclosed, ClosedOnce, Handles
  <2>7. CASE FailStart("launch_failed")
    BY <1>3, <2>4, <2>6, <2>7, FailStartCloses DEF Unclosed, Handles
  <2>8. CASE ~FailStart("launch_failed")
    <3>1. pc'[Starter] \in {"acquire", "prelaunch"} BY <1>2, <1>7, <2>8 DEF AcquireHandles
    <3> QED BY <2>6, <3>1 DEF CloseInv, Counted, Before, Launching
  <2> QED BY <2>7, <2>8
<1>8. CASE BeginPrelaunch
  BY <1>8, <1>2, <1>3, <1>4
     DEF BeginPrelaunch, CloseInv, Counted, At, Before, Launching, Unclosed, ClosedOnce
<1>9. CASE EndPrelaunch
  <2>1. managed' = {} /\ Counted' /\ Unclosed(Handles)'
    BY <1>9, <1>3, <1>4 DEF EndPrelaunch, At, Before, Counted, Unclosed, ClosedOnce, Handles
  <2>2. CASE FailStart("launch_failed")
    BY <1>3, <2>1, <2>2, FailStartCloses DEF Unclosed, Handles, Counted
  <2>3. CASE ~FailStart("launch_failed")
    <3>1. pc'[Starter] = "create" BY <1>2, <1>9, <2>3 DEF EndPrelaunch
    <3> QED BY <2>1, <3>1 DEF CloseInv, Counted, Before, Launching
  <2> QED BY <2>2, <2>3
<1>10. CASE CreateProcess
  <2> DEFINE list == <<"attributes", "thread">> \o Children
             m == [l EXCEPT !.todo = list]
  <2>1. managed = {} /\ Unclosed(Handles) BY <1>10, <1>4 DEF CreateProcess, At, Before
  <2>2. owned' \subseteq Handles BY <1>10, <1>3, HandlesAre DEF CreateProcess, Counted
  <2>3. managed' = {} /\ Counted' /\ Unclosed(Handles)'
    BY <1>10, <1>3, <2>1, <2>2 DEF CreateProcess, Counted, Unclosed, ClosedOnce, Handles
  <2>4. CASE FailStart("launch_failed")
    BY <1>3, <2>2, <2>3, <2>4, FailStartCloses DEF Unclosed, Handles
  <2>5. CASE ~FailStart("launch_failed")
    <3>1. Goto(Starter, "retire", m) BY <1>10, <2>5 DEF CreateProcess
    <3>2. pc'[Starter] = "retire" /\ loc'[Starter].todo = list
      BY <1>1, <1>2, <3>1 DEF LocalsSet
    <3>3. Unclosed(owned)' /\ Unclosed(Retained)'
      BY <2>2, <2>3, HandlesAre DEF Unclosed, Retained
    <3> HIDE DEF list
    <3>4. /\ Distinct(list)
          /\ \A i \in 1 .. Len(list) : list[i] \notin Retained /\ closes'[list[i]] = 0
      BY <2>3, ListsAreDistinct DEF list, Unclosed, Handles
    <3> QED BY <2>3, <3>2, <3>3, <3>4 DEF CloseInv, Counted, Before, Launching, Distinct
  <2> QED BY <2>4, <2>5
<1>11. CASE RetireHandles
  <2>1. /\ managed = {} /\ Unclosed(owned) /\ Unclosed(Retained) /\ Distinct(l.todo)
        /\ \A i \in 1 .. Len(l.todo) : l.todo[i] \notin Retained /\ closes[l.todo[i]] = 0
    BY <1>11 DEF RetireHandles, At, CloseInv, Launching
  <2>2. l.todo \in Seq(Handles) BY <1>1 DEF LocalsSet
  <2>3. CASE l.todo = <<>>
    <3>1. /\ pc'[Starter] = "inspect" /\ UNCHANGED <<closes, owned, managed>>
      BY <1>2, <1>11, <2>3 DEF RetireHandles
    <3> QED
      BY <1>3, <2>1, <3>1 DEF CloseInv, Counted, Before, Launching, Unclosed, ClosedOnce
  <2>4. CASE l.todo # <<>>
    <3> DEFINE h == Head(l.todo)
               rest == [l EXCEPT !.todo = Tail(@)]
    <3>1. h \in Handles /\ h \notin Retained /\ closes[h] = 0
      BY <2>1, <2>2, <2>4, TailDistinct, HeadTailProperties
    <3>2. PICK ok \in BOOLEAN : CloseNative(h, ok)
      BY <1>11, <2>4 DEF RetireHandles
    <3>3. owned' = owned \ {h} /\ UNCHANGED managed BY <1>11, <2>4 DEF RetireHandles
    <3>4. /\ closes' \in [Handles -> Nat] /\ ClosedOnce'
          /\ \A g \in Handles : g # h => closes'[g] = closes[g]
      BY <1>3, <3>1, <3>2, CloseCounts
    <3>5. Counted' /\ managed' = {}
      BY <1>3, <2>1, <3>3, <3>4 DEF Counted, Unclosed
    <3>6. /\ \A g \in owned' : closes'[g] = 0
          /\ \A g \in Retained : closes'[g] = 0
      BY <1>3, <2>1, <3>1, <3>3, <3>4, HandlesAre DEF Counted, Unclosed, Retained
    <3>7. CASE FailStart("cleanup_failed")
      BY <1>3, <3>5, <3>6, <3>7, FailStartCloses
    <3>8. CASE ~FailStart("cleanup_failed")
      <4>1. Goto(Starter, "retire", rest) BY <1>11, <2>4, <3>8 DEF RetireHandles
      <4>2. pc'[Starter] = "retire" /\ loc'[Starter].todo = Tail(l.todo)
        BY <1>1, <1>2, <4>1 DEF LocalsSet
      <4>3. PICK q \in Seq(Handles) : q = Tail(l.todo) BY <2>2, <2>4, HeadTailProperties
      <4>4. PICK g \in Handles : g = h BY <3>1
      <4>5. /\ Distinct(q)
            /\ \A i \in 1 .. Len(q) : \E j \in 1 .. Len(l.todo) : q[i] = l.todo[j]
            /\ \A i \in 1 .. Len(q) : q[i] # g
        BY <2>1, <2>2, <2>4, <4>3, <4>4, TailDistinct
      <4>6. \A j \in 1 .. Len(l.todo) : l.todo[j] \in Handles BY <2>2, ElementOfSeq
      <4>10. \A e \in Handles : e # g => closes'[e] = closes[e] BY <3>4, <4>4
      <4>7. ASSUME NEW i \in 1 .. Len(q) PROVE q[i] \notin Retained /\ closes'[q[i]] = 0
        <5>1. PICK j \in 1 .. Len(l.todo) : q[i] = l.todo[j] BY <4>5
        <5>2. q[i] \in Handles /\ q[i] \notin Retained /\ closes[q[i]] = 0
          BY <2>1, <4>6, <5>1
        <5>3. q[i] # g BY <4>5
        <5> QED BY <4>10, <5>2, <5>3
      <4>8. Unclosed(owned)' /\ Unclosed(Retained)' BY <3>6 DEF Unclosed, Retained
      <4>9. loc'[Starter].todo = q BY <4>2, <4>3
      <4> QED
        BY <3>5, <4>2, <4>5, <4>7, <4>8, <4>9
           DEF CloseInv, Counted, Before, Launching, Distinct
    <3> QED BY <3>7, <3>8
  <2> QED BY <2>3, <2>4
<1>12. CASE InspectProcess
  <2>1. managed = {} /\ Unclosed(owned) /\ Unclosed(Retained)
    BY <1>12 DEF InspectProcess, At, CloseInv, Launching
  <2>2. CASE FailStart("launch_failed")
    <3>1. Counted' /\ managed' = {} /\ \A g \in owned' : closes'[g] = 0
      <4>1. UNCHANGED closes BY <1>12 DEF InspectProcess
      <4>2. UNCHANGED <<managed, owned>> \/ pc'[Starter] = "managed"
        BY <1>2, <1>12 DEF InspectProcess
      <4>3. pc'[Starter] \in {"launch_terminate", "launch_close"}
        BY <1>2, <2>2 DEF FailStart
      <4> QED BY <1>3, <2>1, <4>1, <4>2, <4>3 DEF Counted, Unclosed, ClosedOnce
    <3> QED BY <1>3, <2>2, <3>1, FailStartCloses
  <2>3. CASE ~FailStart("launch_failed")
    <3>1. /\ pc'[Starter] = "managed" /\ managed' = Retained /\ owned' = owned \ Retained
          /\ UNCHANGED closes
      BY <1>2, <1>12, <2>3 DEF InspectProcess
    <3>2. Retained \subseteq Handles BY HandlesAre DEF Retained
    <3> QED
      BY <1>3, <2>1, <3>1, <3>2 DEF CloseInv, Counted, Before, Launching, Unclosed, ClosedOnce
  <2> QED BY <2>2, <2>3
<1>13. CASE LaunchTerminate \/ LaunchWait
  <2>1. /\ pc'[Starter] \in {"launch_wait", "launch_close"}
        /\ pc[Starter] \in {"launch_terminate", "launch_wait"}
        /\ UNCHANGED <<closes, owned, managed>>
    BY <1>13, <1>2 DEF LaunchTerminate, LaunchWait, At
  <2>2. loc'[Starter].todo = l.todo
    BY <1>13, <1>1, <1>2 DEF LaunchTerminate, LaunchWait, LocalsSet
  <2>3. /\ managed = {} /\ Distinct(l.todo)
        /\ \A i \in 1 .. Len(l.todo) : l.todo[i] \in owned => closes[l.todo[i]] = 0
    BY <2>1 DEF CloseInv, Launching
  <2>4. Counted' /\ managed' = {} BY <1>3, <2>1, <2>3 DEF Counted, Unclosed, ClosedOnce
  <2> QED
    BY <2>1, <2>2, <2>3, <2>4 DEF CloseInv, Counted, Before, Distinct
<1>14. CASE LaunchClose
  <2>1. /\ managed = {} /\ Distinct(l.todo)
        /\ \A i \in 1 .. Len(l.todo) : l.todo[i] \in owned => closes[l.todo[i]] = 0
    BY <1>14 DEF LaunchClose, At, CloseInv, Launching
  <2>2. l.todo \in Seq(Handles) BY <1>1 DEF LocalsSet
  <2>3. CASE l.todo = <<>>
    <3>1. /\ pc'[Starter] = "launch_console" /\ owned' = {}
          /\ UNCHANGED <<closes, managed>>
      BY <1>2, <1>14, <2>3 DEF LaunchClose
    <3> QED
      BY <1>3, <2>1, <3>1 DEF CloseInv, Counted, Before, Launching, Unclosed, ClosedOnce
  <2>4. CASE l.todo # <<>>
    <3>1. PICK g \in Handles : g = Head(l.todo) BY <2>2, <2>4, HeadTailProperties
    <3>2. PICK q \in Seq(Handles) : q = Tail(l.todo) BY <2>2, <2>4, HeadTailProperties
    <3>3. /\ Distinct(q)
          /\ \A i \in 1 .. Len(q) : \E j \in 1 .. Len(l.todo) : q[i] = l.todo[j]
          /\ \A i \in 1 .. Len(q) : q[i] # g
          /\ 1 \in 1 .. Len(l.todo) /\ g = l.todo[1]
      BY <2>1, <2>2, <2>4, <3>1, <3>2, TailDistinct
    <3>4. /\ pc'[Starter] = "launch_close" /\ loc'[Starter].todo = q
          /\ UNCHANGED <<managed, owned>>
      <4>1. /\ [l EXCEPT !.todo = Tail(@)].todo = q
            /\ \A ok : [l EXCEPT !.todo = Tail(@), !.failed = @ \/ ~ok].todo = q
        BY <1>1, <3>2 DEF LocalsSet
      <4> QED BY <1>2, <1>14, <2>4, <4>1 DEF LaunchClose
    <3>5. /\ closes' \in [Handles -> Nat] /\ ClosedOnce'
          /\ \A e \in Handles : e # g => closes'[e] = closes[e]
      <4>1. CASE g \notin owned
        BY <1>3, <1>14, <2>4, <3>1, <4>1 DEF LaunchClose, Counted, ClosedOnce
      <4>2. CASE g \in owned
        <5>1. closes[g] = 0 BY <2>1, <3>3, <4>2
        <5>2. \E ok \in BOOLEAN : CloseNative(g, ok)
          BY <1>14, <2>4, <3>1, <4>2 DEF LaunchClose
        <5> QED BY <1>3, <5>1, <5>2, CloseCounts
      <4> QED BY <4>1, <4>2
    <3>6. \A j \in 1 .. Len(l.todo) : l.todo[j] \in Handles BY <2>2, ElementOfSeq
    <3>7. ASSUME NEW i \in 1 .. Len(q), q[i] \in owned PROVE closes'[q[i]] = 0
      <4>1. PICK j \in 1 .. Len(l.todo) : q[i] = l.todo[j] BY <3>3
      <4>2. q[i] \in Handles /\ closes[q[i]] = 0 BY <2>1, <3>6, <3>7, <4>1
      <4>3. q[i] # g BY <3>3
      <4> QED BY <3>5, <4>2, <4>3
    <3>8. Counted' /\ managed' = {} BY <1>3, <2>1, <3>4, <3>5 DEF Counted, Unclosed
    <3> QED BY <3>3, <3>4, <3>7, <3>8 DEF CloseInv, Counted, Before, Distinct
  <2> QED BY <2>3, <2>4
<1>15. CASE LaunchFreeConsole \/ LaunchRelease
  <2>1. /\ pc'[Starter] \in {"launch_release", "done"}
        /\ UNCHANGED <<closes, owned, managed>>
    BY <1>15, <1>2, ThreadsAssumption
       DEF LaunchFreeConsole, LaunchRelease, Returns, SInv, ControlInv
  <2> QED
    BY <1>3, <2>1 DEF CloseInv, Counted, Before, Launching, Unclosed, ClosedOnce
<1> QED
  BY <1>5, <1>6, <1>7, <1>8, <1>9, <1>10, <1>11, <1>12, <1>13, <1>14, <1>15 DEF StartStep

(* Any other step leaves the launch alone; only the closing of what is managed  *)
(* closes a handle, and takes it out of the managed process first.             *)
LEMMA CloseStands ==
    ASSUME CloseInv, UNCHANGED <<closes, owned, managed>>,
           pc'[Starter] \in Launching =>
              pc'[Starter] = pc[Starter] /\ loc'[Starter] = loc[Starter]
    PROVE  CloseInv'
BY DEF CloseInv, Unclosed, ClosedOnce, Launching, Before, Distinct, Retained

LEMMA CloseCleanup ==
    ASSUME SInv, CloseInv, NEW t \in Threads, CleanupStep(t) PROVE CloseInv'
<1> DEFINE l == loc[t]
<1>1. pc'[Starter] \in Launching => /\ t # Starter
                                    /\ pc'[Starter] = pc[Starter] /\ loc'[Starter] = loc[Starter]
  BY CleanupMoves, ThreadsAssumption DEF SInv, MovesOnly, Launched
<1>2. CASE UNCHANGED <<closes, owned, managed>>
  BY <1>1, <1>2, CloseStands
<1>3. CASE CloseManaged(t) /\ Head(l.todo) \in managed
  <2>1. PICK g \in Handles : g = Head(l.todo) /\ closes[g] = 0
    BY <1>3 DEF CloseInv, Unclosed
  <2>2. managed' = managed \ {g} /\ (\E ok \in BOOLEAN : CloseNative(g, ok)) /\ UNCHANGED owned
    BY <1>3, <2>1 DEF CloseManaged, NoLaunch
  <2>3. /\ closes' \in [Handles -> Nat] /\ ClosedOnce'
        /\ \A e \in Handles : e # g => closes'[e] = closes[e]
    BY <2>1, <2>2, CloseCounts, CountedHolds
  <2>4. pc[Starter] \notin Launching BY <1>3 DEF CloseInv
  <2>5. pc'[Starter] \notin Launching BY <1>1, <2>4
  <2>6. Unclosed(managed)' BY <2>2, <2>3 DEF CloseInv, Unclosed
  <2> QED BY <2>2, <2>3, <2>5, <2>6 DEF CloseInv, Launching, Before
<1> QED
  BY <1>2, <1>3 DEF CleanupStep, BeginCancel, ContinueCancel, EndCancel, AllCancelled,
     JoinReader, AllJoined, SignalRoot, UndoSignal, WaitRoot, RestoreAndExamine,
     AwaitEmptyJob, BeginVerify, EndVerify, ClaimProbe, CloseManaged, FreeConsole,
     ReleaseManaged, Report, ShutdownFailed, ForcedTerminate, ForcedWait, ForcedRestore,
     ForcedJob, NoHandles, NoLaunch

LEMMA CloseInit == Init => CloseInv
BY ThreadsAssumption DEF Init, CloseInv, ClosedOnce, Unclosed, Before, Launching

LEMMA CloseNext == ASSUME SInv, CloseInv, [Next]_vars PROVE CloseInv'
<1>1. CASE LaunchStep BY <1>1, CloseLaunch DEF LaunchStep
<1>2. CASE SessionStart
  <2>1. \A p, m : Goto(Starter, p, m) => pc'[Starter] = p
    BY ThreadsAssumption DEF SInv, ControlInv, Goto
  <2>2. \A r : Returns(Starter, r) => pc'[Starter] = "done"
    BY ThreadsAssumption DEF SInv, ControlInv, Returns
  <2>3. pc'[Starter] \notin Launching
    BY <1>2, <2>1, <2>2 DEF SessionStart, AttachReaders, StartFails, StartReaders,
       FailReaders, PollStartup, RecheckStartup, BindSession, Unwind, Step, Launching, Before
  <2>4. UNCHANGED <<closes, owned, managed>>
    BY <1>2 DEF SessionStart, AttachReaders, StartReaders, FailReaders, PollStartup,
       RecheckStartup, BindSession, Unwind, NoLaunch, NoHandles
  <2> QED BY <2>3, <2>4, CloseStands
<1>3. ASSUME NEW t \in Threads, CleanupStep(t) PROVE CloseInv'
  BY <1>3, CloseCleanup
<1>4. ASSUME NEW t \in Closers, Abort(t) \/ Shutdown(t) PROVE CloseInv'
  <2>1. t \in Threads /\ t # Starter BY <1>4, ThreadsAssumption
  <2>2. UNCHANGED <<closes, owned, managed>>
    BY <1>4 DEF Abort, Shutdown, Claim, NoLaunch, NoHandles
  <2>3. pc'[Starter] = pc[Starter] /\ loc'[Starter] = loc[Starter]
    BY <1>4, <2>1, ThreadsAssumption
       DEF Abort, Shutdown, Claim, Goto, Returns, SInv, ControlInv
  <2> QED BY <2>2, <2>3, CloseStands
<1>5. CASE \/ \E r \in Streams : ReaderRuns(r)
           \/ ProcessesEnd \/ UNCHANGED vars
  <2>1. UNCHANGED <<closes, owned, managed, pc, loc>>
    BY <1>5 DEF ReaderRuns, ProcessesEnd, vars, startVars
  <2> QED BY <2>1, CloseStands
<1> QED
  BY <1>1, <1>2, <1>3, <1>4, <1>5
     DEF Next, ThreadStep, StarterStep, SessionStart, AllEnded

(* CloseHandle is called at most once for every handle, over the launch, its    *)
(* cleanup, a graceful shutdown and a forced cleanup, whoever races with whom.  *)
THEOREM NoSecondClose == Spec => []ClosedOnce
<1>1. Init => SInv /\ CloseInv BY SInvInit, CloseInit
<1>2. SInv /\ CloseInv /\ [Next]_vars => SInv' /\ CloseInv'
  BY StepIsReaders, CloseNext
<1>3. CloseInv => ClosedOnce BY DEF CloseInv
<1> QED BY <1>1, <1>2, <1>3, PTL DEF Spec

-----------------------------------------------------------------------------
(* No read on a closed pipe.                                                   *)

\* A reader that will never again be in ReadFile.
Quiet(r) ==
    \/ step[r] \in {"finalizing", "closing", "finished"}
    \/ cancel_requested[r] /\ step[r] \notin {"issuing", "pending"}
    \/ ~attached /\ closed

Started == \A r \in Streams : step[r] # "created"
Left(t) == ToSet(loc[t].todo)

\* The places of a call that has claimed the process: all of the forced
\* cleanup and of the closing, and the graceful path but for a probe's.
GracefulPlaces == {"signal", "unsignal", "wait", "restore", "join", "job", "verify", "verifying"}
Waiting == {"signal", "unsignal", "wait", "restore", "join"}
Ended == {"job", "verify", "verifying", "claim_probe"}
ForcedPlaces == {"forced_terminate", "forced_cancel", "forced_wait", "forced_restore",
                 "forced_join", "forced_job"}
ClaimedInv(t) ==
    /\ pc[t] \in ForcedPlaces \cup {"shutdown_failed", "close", "release", "report"} => closed
    /\ pc[t] \in GracefulPlaces /\ loc[t].kind # "probe" => closed

\* What a thread knows of the readers, from where it is.
KnowsInv(t) ==
    /\ pc[t] = "start_reader" => attached /\ \A r \in Streams : r \in Left(t) \/ step[r] # "created"
    /\ pc[t] \in {"poll", "adopt", "bind"} \cup Waiting => Started
    /\ pc[t] = "join" => \A r \in Streams : r \in Left(t) \/ step[r] = "finished"
    /\ pc[t] \in Ended => \A r \in Streams : step[r] = "finished"
    /\ pc[t] = "forced_cancel" /\ attached =>
          \A r \in Streams : r \in Left(t) \/ cancel_requested[r]
    /\ cancelling[t].at # "idle" => cancel_requested[Head(loc[t].todo)]
    /\ pc[t] \in {"forced_wait", "forced_restore", "forced_join", "forced_job"} /\ attached =>
          \A r \in Streams : cancel_requested[r]
    /\ pc[t] = "forced_join" /\ loc[t].joined => \A r \in Streams : r \in Left(t) \/ Quiet(r)
    /\ pc[t] = "forced_job" /\ loc[t].joined => \A r \in Streams : Quiet(r)
    /\ pc[t] = "close" => \A r \in Streams : r \in Left(t) => Quiet(r)

\* The pipes are open, from their creation on, as long as a reader may read.
Pipes == {"job", "stdout", "stderr"}
PipesInv ==
    /\ pc[Starter] = "acquire" => Pipes \subseteq native \cup Left(Starter)
    /\ pc[Starter] \in {"prelaunch", "verify_launch", "create"} => Pipes \subseteq native
    /\ pc[Starter] \in {"retire", "inspect"} => Retained \subseteq native
    /\ managed \subseteq native
    /\ pc[Starter] = "managed" /\ ~closed => Retained \subseteq managed
    /\ pc[Starter] \in Launching => ~attached
    /\ ~attached => \A r \in Streams : step[r] = "created"
    /\ attached => \A r \in Streams : r \in native \/ Quiet(r)

Results == {"none", "ok", "error", "cleanup_failed", "invalid", "readers", "session", "evidence"}
StartedInv ==
    /\ result \in [Threads -> Results]
    /\ adopted \/ result[Starter] = "readers" => Started
    /\ \A r \in Streams : cancel_result[r] # "none" \/ cancel_in_progress[r] => cancel_requested[r]

ReadInv == PipesInv /\ StartedInv /\ \A t \in Threads : ClaimedInv(t) /\ KnowsInv(t)

\* What stays, whoever steps.
Lasts ==
    /\ closed => closed'
    /\ attached => attached'
    /\ closed /\ ~attached => ~attached'
    /\ \A r \in Streams :
         /\ step[r] # "created" => step'[r] # "created"
         /\ step[r] = "finished" => step'[r] = "finished"
         /\ cancel_requested[r] => cancel_requested'[r]
         /\ Quiet(r) => Quiet(r)'

(* The readers' own steps: past its loop a reader does not come back, and one  *)
(* with the flag set does not begin a read.                                    *)
LEMMA ReadersLast ==
    ASSUME ReaderTypeOK, [ReaderNext]_logVars, NEW r \in Streams
    PROVE  /\ step[r] # "created" => step'[r] # "created"
           /\ step[r] = "finished" => step'[r] = "finished"
           /\ step[r] \in {"finalizing", "closing", "finished"} =>
                 step'[r] \in {"finalizing", "closing", "finished"}
           /\ cancel_requested[r] => cancel_requested'[r]
           /\ cancel_requested[r] /\ step[r] \notin {"issuing", "pending"} =>
                 step'[r] \notin {"issuing", "pending"}
<1> DEFINE G == /\ step[r] # "created" => step'[r] # "created"
                /\ step[r] = "finished" => step'[r] = "finished"
                /\ step[r] \in {"finalizing", "closing", "finished"} =>
                      step'[r] \in {"finalizing", "closing", "finished"}
                /\ cancel_requested[r] => cancel_requested'[r]
                /\ cancel_requested[r] /\ step[r] \notin {"issuing", "pending"} =>
                      step'[r] \notin {"issuing", "pending"}
<1>1. ASSUME NEW q \in Streams, StartReader(q) \/ ReaderStep(q) PROVE G
  <2>1. UNCHANGED cancel_requested
    BY <1>1 DEF StartReader, ReaderStep, OpenThread, OpenFails, PublishThread, CheckCancelled,
       ObserveCancel, IssueRead, ReadData, ReadEof, ReadAborted, ReadFails, DrainFails,
       WithdrawThread, CloseThread, cancelVars
  <2>2. \E from, to \in Steps :
           /\ Move(q, from, to) /\ from \notin {"finished"} /\ to # "created"
           /\ from \in {"finalizing", "closing"} => to \in {"closing", "finished"}
           /\ to \in {"issuing", "pending"} => ~cancel_requested[q] \/ from = "issuing"
    <3> USE DEF Steps, Draining
    <3>1. CASE StartReader(q) BY <3>1 DEF StartReader
    <3>2. CASE OpenThread(q) BY <3>2 DEF OpenThread
    <3>3. CASE OpenFails(q) BY <3>3 DEF OpenFails
    <3>4. CASE PublishThread(q) BY <3>4 DEF PublishThread
    <3>5. CASE CheckCancelled(q) BY <3>5 DEF CheckCancelled
    <3>6. CASE ObserveCancel(q) BY <3>6 DEF ObserveCancel
    <3>7. CASE IssueRead(q) BY <3>7 DEF IssueRead
    <3>8. CASE \E news \in {"nothing", "port", "malformed"} : ReadData(q, news)
      BY <3>8 DEF ReadData
    <3>9. CASE ReadEof(q) BY <3>9 DEF ReadEof
    <3>10. CASE ReadAborted(q) BY <3>10 DEF ReadAborted
    <3>11. CASE ReadFails(q) BY <3>11 DEF ReadFails
    <3>12. CASE WithdrawThread(q) BY <3>12 DEF WithdrawThread
    <3>13. CASE \E ok \in BOOLEAN : CloseThread(q, ok) BY <3>13 DEF CloseThread
    <3> QED
      BY <1>1, <3>1, <3>2, <3>3, <3>4, <3>5, <3>6, <3>7, <3>8, <3>9, <3>10, <3>11, <3>12, <3>13
         DEF ReaderStep
  <2>3. PICK from, to \in Steps :
           /\ Move(q, from, to) /\ from \notin {"finished"} /\ to # "created"
           /\ from \in {"finalizing", "closing"} => to \in {"closing", "finished"}
           /\ to \in {"issuing", "pending"} => ~cancel_requested[q] \/ from = "issuing"
    BY <2>2
  <2>4. step[q] = from /\ step'[q] = to /\ (q # r => step'[r] = step[r])
    BY <2>3 DEF Move, ReaderTypeOK
  <2>5. CASE q = r
    <3>1. step[r] = from /\ step'[r] = to /\ cancel_requested'[r] = cancel_requested[r]
      BY <2>1, <2>4, <2>5
    <3>2. to \in {"issuing", "pending"} => ~cancel_requested[r] \/ from = "issuing"
      BY <2>3, <2>5
    <3>3. from # "finished" /\ to # "created"
          /\ (from \in {"finalizing", "closing"} => to \in {"closing", "finished"})
      BY <2>3
    <3> QED BY <3>1, <3>2, <3>3
  <2>6. CASE q # r BY <2>1, <2>4, <2>6
  <2> QED BY <2>5, <2>6
<1>2. ASSUME NEW t \in Threads, NEW q \in Streams, NEW zero \in BOOLEAN, EnterCancel(t, q, zero)
      PROVE  G
  BY <1>2 DEF EnterCancel, CancelReplay, CancelFollow, CancelLead, readerVars, ReaderTypeOK
<1>3. ASSUME NEW t \in Threads, CancelStep(t) \/ CancelReturn(t) PROVE G
  BY <1>3 DEF CancelStep, CancelUnregistered, CancelPending, CancelMissed, CancelGivesUp,
     CancelConclude, CancelFollowed, CancelReturn, Decide, readerVars
<1>4. CASE Launch \/ Exit \/ FailRouter \/ UNCHANGED logVars
  BY <1>4 DEF Launch, Exit, FailRouter, logVars, readerVars, cancelVars
<1>5. CASE ReaderNext BY <1>5, <1>1, <1>2, <1>3, <1>4, ZenonT(60) DEF ReaderNext
<1> QED BY <1>4, <1>5

(* A claim is never withdrawn, and no readers are attached after it.           *)
LEMMA ClaimsLast ==
    ASSUME [Next]_vars
    PROVE  /\ closed => closed'
           /\ attached => attached'
           /\ closed /\ ~attached => ~attached'
<1>1. CASE StarterStep
  BY <1>1 DEF StarterStep, LaunchStep, AttachReaders, StartReaders, FailReaders, PollStartup,
     RecheckStartup, BindSession, Unwind, Claimed, NoClaim, sessionVars
<1>2. ASSUME NEW t \in Threads, CleanupStep(t)
      PROVE  (closed => closed') /\ UNCHANGED attached
  <2>1. CASE ClaimProbe(t) BY <2>1 DEF ClaimProbe, Claimed
  <2>2. CASE ~ClaimProbe(t)
    <3>1. NoClaim
      BY <1>2, <2>2 DEF CleanupStep, BeginCancel, ContinueCancel, EndCancel, AllCancelled,
         JoinReader, AllJoined, SignalRoot, UndoSignal, WaitRoot, RestoreAndExamine,
         AwaitEmptyJob, BeginVerify, EndVerify, CloseManaged, FreeConsole,
         ReleaseManaged, Report, ShutdownFailed, ForcedTerminate, ForcedWait, ForcedRestore,
         ForcedJob
    <3> QED BY <3>1 DEF NoClaim
  <2> QED BY <2>1, <2>2
<1>3. ASSUME NEW t \in Closers, Abort(t) \/ Shutdown(t)
      PROVE  (closed => closed') /\ UNCHANGED attached
  BY <1>3 DEF Abort, Shutdown, Claim, Claimed
<1>4. CASE (\E r \in Streams : ReaderRuns(r)) \/ ProcessesEnd \/ UNCHANGED vars
  <2>1. UNCHANGED sessionVars BY <1>4 DEF ReaderRuns, ProcessesEnd, vars
  <2> QED BY <2>1 DEF sessionVars
<1> QED BY <1>1, <1>2, <1>3, <1>4 DEF Next, ThreadStep, AllEnded

LEMMA LastsNext == ASSUME SInv, [Next]_vars PROVE Lasts
<1>1. ReaderTypeOK /\ [ReaderNext]_logVars BY StepIsReaders DEF SInv
<1> QED BY <1>1, ReadersLast, ClaimsLast DEF Lasts, Quiet

(* What a thread knows stays true as long as it does not move.                 *)
LEMMA OthersKeep ==
    ASSUME Lasts, NEW u \in Threads, KnowsInv(u), ClaimedInv(u),
           pc'[u] = pc[u], loc'[u] = loc[u], cancelling'[u] = cancelling[u],
           cancelling[u].at # "idle" => Head(loc[u].todo) \in Streams
    PROVE  KnowsInv(u)' /\ ClaimedInv(u)'
<1>1. ClaimedInv(u)' BY DEF Lasts, ClaimedInv
<1>2. Left(u)' = Left(u) BY DEF Left, ToSet
<1>3. KnowsInv(u)'
  BY <1>2 DEF Lasts, KnowsInv, ClaimedInv, ForcedPlaces, Started
<1> QED BY <1>1, <1>3

(* What is left of a list of readers.                                          *)
LEMMA LeftOfOrder == ToSet(StreamOrder) = Streams /\ ToSet(<<>>) = {}
BY StreamsAssumption DEF ToSet

LEMMA LeftOfTail ==
    ASSUME NEW S, NEW q \in Seq(S), q # <<>>
    PROVE  ToSet(q) = {Head(q)} \cup ToSet(Tail(q))
<1>1. /\ Head(q) = q[1] /\ Tail(q) \in Seq(S) /\ Len(q) \in Nat \ {0}
      /\ Len(Tail(q)) = Len(q) - 1
      /\ \A i \in 1 .. Len(Tail(q)) : Tail(q)[i] = q[i + 1]
  BY HeadTailProperties, EmptySeq
<1>2. DOMAIN q = 1 .. Len(q) /\ DOMAIN Tail(q) = 1 .. Len(Tail(q))
  BY <1>1, LenProperties
<1>3. ASSUME NEW e \in ToSet(q) PROVE e \in {Head(q)} \cup ToSet(Tail(q))
  <2>1. PICK i \in 1 .. Len(q) : e = q[i] BY <1>2, <1>3 DEF ToSet
  <2>2. CASE i = 1 BY <1>1, <2>1, <2>2
  <2>3. CASE i # 1
    <3>1. i - 1 \in 1 .. Len(Tail(q)) BY <1>1, <2>1, <2>3
    <3>2. Tail(q)[i - 1] = q[(i - 1) + 1] BY <1>1, <3>1
    <3>3. (i - 1) + 1 = i BY <1>1, <2>1
    <3>4. Tail(q)[i - 1] = e BY <2>1, <3>2, <3>3
    <3> QED BY <1>2, <3>1, <3>4 DEF ToSet
  <2> QED BY <2>2, <2>3
<1>4. ASSUME NEW e \in ToSet(Tail(q)) PROVE e \in ToSet(q)
  <2>1. PICK i \in 1 .. Len(Tail(q)) : e = Tail(q)[i] BY <1>2, <1>4 DEF ToSet
  <2>2. i + 1 \in 1 .. Len(q) /\ e = q[i + 1] BY <1>1, <2>1
  <2> QED BY <1>2, <2>2 DEF ToSet
<1>5. Head(q) \in ToSet(q) BY <1>1, <1>2 DEF ToSet
<1> QED BY <1>3, <1>4, <1>5

\* Where nothing is known of the readers; and where nothing is asked at all.
Ignorant == {"unwind", "shutdown_failed", "release", "report", "forced_terminate", "start_failed",
             "start_cancel", "start_join", "done"}
Unbound == {"unwind", "start_failed", "start_cancel", "start_join", "done"}

LEMMA Landing ==
    ASSUME NEW t \in Threads, pc'[t] \in Ignorant, cancelling'[t].at = "idle",
           pc'[t] \in Unbound \/ closed'
    PROVE  KnowsInv(t)' /\ ClaimedInv(t)'
BY DEF Ignorant, Unbound, KnowsInv, ClaimedInv, Waiting, Ended, ForcedPlaces, GracefulPlaces

(* An error on the graceful path.                                              *)
LEMMA FailsLanding ==
    ASSUME ControlInv, Lasts, NEW t \in Threads, ClaimedInv(t), pc[t] \in GracefulPlaces,
           NEW c, Fails(t, c), cancelling'[t].at = "idle"
    PROVE  KnowsInv(t)' /\ ClaimedInv(t)'
<1>1. pc'[t] = IF loc[t].kind = "probe" THEN "unwind" ELSE "shutdown_failed"
  BY DEF Fails, Goto, ControlInv
<1>2. loc[t].kind # "probe" => closed' BY DEF ClaimedInv, Lasts
<1> QED BY <1>1, <1>2, Landing DEF Ignorant, Unbound

(* The graceful path.                                                          *)
LEMMA KnowsGraceful ==
    ASSUME SInv, Lasts, NEW t \in Threads, KnowsInv(t), ClaimedInv(t), Graceful(t)
    PROVE  KnowsInv(t)' /\ ClaimedInv(t)'
<1> DEFINE l == loc[t]
<1>1. ControlInv /\ l \in LocalsSet BY DEF SInv, ControlInv
<1>2. \A p, m : Goto(t, p, m) => pc'[t] = p /\ loc'[t] = m BY <1>1 DEF ControlInv, Goto
<1>3. cancelling'[t].at = "idle"
  <2>1. UNCHANGED cancelling
    BY DEF Graceful, SignalRoot, UndoSignal, WaitRoot, RestoreAndExamine, AwaitEmptyJob,
       BeginVerify, EndVerify, ClaimProbe, NoReaders, cancelVars
  <2>2. pc[t] \notin CancelPlaces
    BY DEF Graceful, SignalRoot, UndoSignal, WaitRoot, RestoreAndExamine, AwaitEmptyJob,
       BeginVerify, EndVerify, ClaimProbe, Step, At, CancelPlaces
  <2> QED BY <1>1, <2>1, <2>2 DEF ControlInv
<1>4. pc[t] \in GracefulPlaces \cup {"claim_probe"}
  BY DEF Graceful, SignalRoot, UndoSignal, WaitRoot, RestoreAndExamine, AwaitEmptyJob,
     BeginVerify, EndVerify, ClaimProbe, Step, At, GracefulPlaces
<1>5. pc[t] # "claim_probe" => \A c : Fails(t, c) => KnowsInv(t)' /\ ClaimedInv(t)'
  BY <1>1, <1>3, <1>4, FailsLanding
<1>6. pc[t] \in GracefulPlaces /\ l.kind # "probe" => closed' BY DEF ClaimedInv, Lasts
<1>7. Started => Started' BY DEF Lasts, Started
<1>8. (\A r \in Streams : step[r] = "finished") => \A r \in Streams : step'[r] = "finished" /\ Quiet(r)'
  BY DEF Lasts, Quiet
<1>9. CloseGracefully(t) /\ (\A r \in Streams : step[r] = "finished") /\ closed' =>
         KnowsInv(t)' /\ ClaimedInv(t)'
  <2>1. CloseGracefully(t) => pc'[t] = "close" BY <1>2 DEF CloseGracefully
  <2> QED
    BY <1>3, <1>8, <2>1
       DEF KnowsInv, ClaimedInv, Waiting, Ended, ForcedPlaces, GracefulPlaces
<1>10. CASE SignalRoot(t) \/ WaitRoot(t) \/ UndoSignal(t)
  <2>1. Started /\ pc[t] \in GracefulPlaces /\ pc[t] # "claim_probe"
    BY <1>10 DEF SignalRoot, WaitRoot, UndoSignal, Step, At, KnowsInv, Waiting, GracefulPlaces
  <2>2. CASE \E c : Fails(t, c) BY <1>5, <2>1, <2>2
  <2>3. CASE ~\E c : Fails(t, c)
    <3>1. pc'[t] \in {"wait", "unsignal", "restore"} /\ loc'[t] = l
      BY <1>2, <1>10, <2>3 DEF SignalRoot, WaitRoot, UndoSignal, Step
    <3> QED
      BY <1>3, <1>6, <1>7, <2>1, <3>1
         DEF KnowsInv, ClaimedInv, Waiting, Ended, ForcedPlaces, GracefulPlaces
  <2> QED BY <2>2, <2>3
<1>11. CASE RestoreAndExamine(t)
  <2>1. Started /\ pc[t] \in GracefulPlaces /\ pc[t] # "claim_probe"
    BY <1>11 DEF RestoreAndExamine, At, KnowsInv, Waiting, GracefulPlaces
  <2>2. CASE \E c : Fails(t, c) BY <1>5, <2>1, <2>2
  <2>3. CASE ~\E c : Fails(t, c)
    <3>1. Goto(t, "join", [l EXCEPT !.todo = StreamOrder])
      BY <1>11, <2>3 DEF RestoreAndExamine
    <3>2. pc'[t] = "join" /\ loc'[t].todo = StreamOrder /\ loc'[t].kind = l.kind
      BY <1>1, <1>2, <3>1 DEF LocalsSet
    <3>3. Left(t)' = Streams BY <3>2, LeftOfOrder DEF Left
    <3> QED
      BY <1>3, <1>6, <1>7, <2>1, <3>2, <3>3
         DEF KnowsInv, ClaimedInv, Waiting, Ended, ForcedPlaces, GracefulPlaces
  <2> QED BY <2>2, <2>3
<1>12. CASE AwaitEmptyJob(t) \/ BeginVerify(t)
  <2>1. /\ pc[t] \in GracefulPlaces /\ pc[t] # "claim_probe"
        /\ \A r \in Streams : step[r] = "finished"
    BY <1>12 DEF AwaitEmptyJob, BeginVerify, Step, At, KnowsInv, Ended, GracefulPlaces
  <2>2. CASE \E c : Fails(t, c) BY <1>5, <2>1, <2>2
  <2>3. CASE ~\E c : Fails(t, c)
    <3>1. pc'[t] \in {"verify", "verifying"} /\ loc'[t] = l
      BY <1>2, <1>12, <2>3 DEF AwaitEmptyJob, BeginVerify, Step
    <3> QED
      BY <1>3, <1>6, <1>8, <2>1, <3>1
         DEF KnowsInv, ClaimedInv, Waiting, Ended, ForcedPlaces, GracefulPlaces
  <2> QED BY <2>2, <2>3
<1>13. CASE EndVerify(t)
  <2>1. /\ pc[t] \in GracefulPlaces /\ pc[t] # "claim_probe"
        /\ \A r \in Streams : step[r] = "finished"
    BY <1>13 DEF EndVerify, At, KnowsInv, Ended, GracefulPlaces
  <2>2. CASE \E c : Fails(t, c) BY <1>5, <2>1, <2>2
  <2>3. CASE l.kind = "probe" /\ Goto(t, "claim_probe", l)
    <3>1. pc'[t] = "claim_probe" /\ loc'[t] = l BY <1>2, <2>3
    <3> QED
      BY <1>3, <1>8, <2>1, <3>1
         DEF KnowsInv, ClaimedInv, Waiting, Ended, ForcedPlaces, GracefulPlaces
  <2>4. CASE l.kind # "probe" /\ CloseGracefully(t) BY <1>6, <1>9, <2>1, <2>4
  <2> QED BY <1>13, <2>2, <2>3, <2>4 DEF EndVerify
<1>14. CASE ClaimProbe(t)
  <2>1. (\A r \in Streams : step[r] = "finished") /\ closed' /\ CloseGracefully(t)
    BY <1>14 DEF ClaimProbe, Claimed, At, KnowsInv, Ended
  <2> QED BY <1>9, <2>1
<1> QED BY <1>10, <1>11, <1>12, <1>13, <1>14 DEF Graceful

(* The loops over the readers.                                                 *)
LEMMA KnowsCancel ==
    ASSUME SInv, StartedInv, Lasts, NEW t \in Threads, KnowsInv(t), ClaimedInv(t),
           BeginCancel(t) \/ ContinueCancel(t) \/ EndCancel(t) \/ AllCancelled(t)
    PROVE  KnowsInv(t)' /\ ClaimedInv(t)'
<1> DEFINE l == loc[t]
<1>1. ControlInv /\ l \in LocalsSet BY DEF SInv, ControlInv
<1>2. \A p, m : Goto(t, p, m) => pc'[t] = p /\ loc'[t] = m BY <1>1 DEF ControlInv, Goto
<1>3. cancelling \in [Threads -> CancelCalls] BY DEF SInv, ReaderTypeOK
<1>4. pc[t] \in CancelPlaces /\ (pc[t] = "forced_cancel" => closed')
  BY DEF BeginCancel, ContinueCancel, EndCancel, AllCancelled, CancelStep, CancelUnregistered,
     CancelPending, CancelMissed, CancelGivesUp, CancelConclude, CancelFollowed, Leads,
     CancelReturn, CancelReturned, SInv, ControlInv, Step, At, CancelPlaces,
     ClaimedInv, ForcedPlaces, Lasts
<1>5. pc[t] = "forced_cancel" /\ attached' =>
         attached /\ \A r \in Streams : r \in Left(t) \/ cancel_requested'[r]
  BY DEF ClaimedInv, ForcedPlaces, Lasts, KnowsInv
<1>6. CASE BeginCancel(t)
  <2>1. PICK zero \in BOOLEAN :
            /\ EnterCancel(t, Head(l.todo), zero)
            /\ Goto(t, pc[t], [l EXCEPT !.failed = @ \/ zero])
    BY <1>6 DEF BeginCancel
  <2>2. pc'[t] = pc[t] /\ loc'[t].todo = l.todo BY <1>1, <1>2, <2>1 DEF LocalsSet
  <2>3. l.todo # <<>> /\ l.todo \in Seq(Streams)
    BY <1>1, <1>4, <1>6 DEF BeginCancel, ControlInv, RunsReaders
  <2>4. Head(l.todo) \in Streams BY <2>3, HeadTailProperties
  <2>5. cancel_requested'[Head(l.todo)]
    <3>1. PICK r \in Streams : r = Head(l.todo) BY <2>4
    <3>2. cancel_requested \in [Streams -> BOOLEAN] BY DEF SInv, ReaderTypeOK
    <3>3. cancel_result[r] # "none" \/ cancel_in_progress[r] => cancel_requested[r]
      BY DEF StartedInv
    <3>4. EnterCancel(t, r, zero) BY <2>1, <3>1
    <3>5. CASE CancelReplay(t, r) BY <3>1, <3>3, <3>5 DEF CancelReplay
    <3>6. CASE CancelFollow(t, r) BY <3>1, <3>3, <3>6 DEF CancelFollow
    <3>7. CASE CancelLead(t, r, zero) BY <3>1, <3>2, <3>7 DEF CancelLead
    <3> QED BY <3>4, <3>5, <3>6, <3>7 DEF EnterCancel
  <2>6. Left(t)' = Left(t) BY <2>2 DEF Left
  <2> QED
    BY <1>4, <1>5, <2>2, <2>5, <2>6
       DEF KnowsInv, ClaimedInv, CancelPlaces, Waiting, Ended, ForcedPlaces, GracefulPlaces
<1>7. CASE ContinueCancel(t)
  <2>1. cancelling[t].at # "idle"
    BY <1>7 DEF ContinueCancel, CancelStep, CancelUnregistered, CancelPending, CancelMissed,
       CancelGivesUp, CancelConclude, CancelFollowed, Leads
  <2>2. UNCHANGED <<pc, loc>> BY <1>7 DEF ContinueCancel
  <2>3. l.todo # <<>> /\ l.todo \in Seq(Streams)
    BY <1>1, <1>4, <2>1 DEF ControlInv, RunsReaders
  <2>4. Head(l.todo) \in Streams BY <2>3, HeadTailProperties
  <2>5. cancel_requested'[Head(l.todo)] BY <2>1, <2>4 DEF KnowsInv, Lasts
  <2>6. Left(t)' = Left(t) BY <2>2 DEF Left
  <2> QED
    BY <1>4, <1>5, <2>2, <2>5, <2>6
       DEF KnowsInv, ClaimedInv, CancelPlaces, Waiting, Ended, ForcedPlaces, GracefulPlaces
<1>8. CASE EndCancel(t)
  <2> DEFINE bad == cancelling[t].at = "failed"
             m == [l EXCEPT !.todo = Tail(@), !.failed = @ \/ bad]
  <2>1. cancelling[t].at # "idle" /\ Goto(t, pc[t], m)
    BY <1>8 DEF EndCancel, CancelReturn, CancelReturned
  <2>2. l.todo # <<>> /\ l.todo \in Seq(Streams)
    BY <1>1, <1>4, <2>1 DEF ControlInv, RunsReaders
  <2>3. pc'[t] = pc[t] /\ loc'[t].todo = Tail(l.todo)
    <3>1. m.todo = Tail(l.todo) BY <1>1 DEF LocalsSet
    <3> HIDE DEF m
    <3> QED BY <1>2, <2>1, <3>1
  <2>4. Left(t) = {Head(l.todo)} \cup Left(t)' BY <2>2, <2>3, LeftOfTail DEF Left
  <2>5. Head(l.todo) \in Streams BY <2>2, HeadTailProperties
  <2>6. cancel_requested'[Head(l.todo)] BY <2>1, <2>5 DEF KnowsInv, Lasts
  <2>7. cancelling'[t].at = "idle" BY <1>3, <1>8 DEF EndCancel, CancelReturn, Idle
  <2> HIDE DEF m
  <2> QED
    BY <1>4, <1>5, <2>3, <2>4, <2>6, <2>7
       DEF KnowsInv, ClaimedInv, CancelPlaces, Waiting, Ended, ForcedPlaces, GracefulPlaces
<1>9. CASE AllCancelled(t)
  <2>1. cancelling'[t].at = "idle"
    BY <1>1, <1>9 DEF AllCancelled, ControlInv, NoReaders, cancelVars
  <2>2. CASE pc'[t] = "start_join" BY <2>1, <2>2, Landing DEF Ignorant, Unbound
  <2>3. CASE pc[t] = "forced_cancel" /\ pc'[t] = "forced_wait" /\ l.todo = <<>>
    <3>1. Left(t) = {} BY <2>3, LeftOfOrder DEF Left
    <3> QED
      BY <1>4, <1>5, <2>1, <2>3, <3>1
         DEF KnowsInv, ClaimedInv, CancelPlaces, Waiting, Ended, ForcedPlaces, GracefulPlaces
  <2> QED BY <1>2, <1>9, <2>2, <2>3 DEF AllCancelled, Step, At
<1> QED BY <1>6, <1>7, <1>8, <1>9

LEMMA KnowsJoin ==
    ASSUME SInv, PipesInv, Lasts, NEW t \in Threads, KnowsInv(t), ClaimedInv(t),
           JoinReader(t) \/ AllJoined(t)
    PROVE  KnowsInv(t)' /\ ClaimedInv(t)'
<1> DEFINE l == loc[t]
           r == Head(l.todo)
<1>1. ControlInv /\ l \in LocalsSet BY DEF SInv, ControlInv
<1>2. \A p, m : Goto(t, p, m) => pc'[t] = p /\ loc'[t] = m BY <1>1 DEF ControlInv, Goto
<1>3. pc[t] \in JoinPlaces BY DEF JoinReader, AllJoined, Step, At, JoinPlaces
<1>4. cancelling'[t].at = "idle"
  <2>1. UNCHANGED cancelling BY DEF JoinReader, AllJoined, NoReaders, cancelVars
  <2>2. pc[t] \notin CancelPlaces BY <1>3 DEF JoinPlaces, CancelPlaces
  <2> QED BY <1>1, <2>1, <2>2 DEF ControlInv
<1>5. pc[t] = "join" => \A c : Fails(t, c) => KnowsInv(t)' /\ ClaimedInv(t)'
  BY <1>1, <1>4, FailsLanding DEF GracefulPlaces
<1>6. /\ pc[t] = "join" /\ l.kind # "probe" => closed'
      /\ pc[t] = "forced_join" => closed'
      /\ pc[t] = "join" => Started'
  BY DEF ClaimedInv, GracefulPlaces, ForcedPlaces, KnowsInv, Waiting, Lasts, Started
<1>7. /\ pc[t] = "join" => \A q \in Streams : q \in Left(t) \/ step'[q] = "finished"
      /\ pc[t] = "forced_join" /\ l.joined => \A q \in Streams : q \in Left(t) \/ Quiet(q)'
      /\ pc[t] = "forced_join" /\ attached' => \A q \in Streams : cancel_requested'[q]
  BY DEF KnowsInv, Lasts, ClaimedInv, ForcedPlaces
<1>8. CASE JoinReader(t)
  <2> DEFINE next == [l EXCEPT !.todo = Tail(@)]
             bad == [next EXCEPT !.failed = TRUE]
             left == [bad EXCEPT !.joined = FALSE]
  <2>1. l.todo # <<>> /\ l.todo \in Seq(Handles)
    BY <1>1, <1>8 DEF JoinReader, LocalsSet
  <2>2. Left(t) = {r} \cup ToSet(Tail(l.todo)) BY <2>1, LeftOfTail DEF Left
  <2>3. \A m \in {next, bad, left} : m.todo = Tail(l.todo) /\ m.kind = l.kind
    BY <1>1 DEF LocalsSet
  <2>4. next.joined = l.joined /\ bad.joined = l.joined /\ left.joined = FALSE
    BY <1>1 DEF LocalsSet
  <2> HIDE DEF next, bad, left
  <2>5. CASE \E c : pc[t] = "join" /\ Fails(t, c) BY <1>5, <2>5
  <2>6. CASE /\ Stopped(r)
             /\ Goto(t, pc[t], next) \/ (Goto(t, pc[t], bad) /\ pc[t] # "join")
    <3>1. pc'[t] = pc[t] /\ Left(t)' = ToSet(Tail(l.todo)) /\ loc'[t].kind = l.kind
          /\ loc'[t].joined = l.joined
      BY <1>2, <2>3, <2>4, <2>6 DEF Left
    <3>2. CASE pc[t] = "start_join"
      BY <1>4, <3>1, <3>2, Landing DEF Ignorant, Unbound
    <3>3. CASE pc[t] = "join"
      <4>1. r \in Streams => step'[r] = "finished"
        BY <2>6, <3>3 DEF Stopped, KnowsInv, Waiting, Started, Lasts
      <4> QED
        BY <1>4, <1>6, <1>7, <2>2, <3>1, <3>3, <4>1
           DEF KnowsInv, ClaimedInv, Waiting, Ended, ForcedPlaces, GracefulPlaces
    <3>4. CASE pc[t] = "forced_join"
      <4>1. r \in Streams => Quiet(r)
        BY <2>6, <3>4 DEF Stopped, KnowsInv, Quiet, ClaimedInv, ForcedPlaces
      <4>2. l.joined => \A q \in Streams : q \in Left(t)' \/ Quiet(q)'
        <5> SUFFICES ASSUME l.joined, NEW q \in Streams, q \notin Left(t)' PROVE Quiet(q)'
          OBVIOUS
        <5>1. CASE q = r BY <4>1, <5>1 DEF Lasts
        <5>2. CASE q # r BY <1>7, <2>2, <3>1, <3>4, <5>2
        <5> QED BY <5>1, <5>2
      <4>3. KnowsInv(t)'
        BY <1>4, <1>7, <3>1, <3>4, <4>2 DEF KnowsInv, Waiting, Ended
      <4>4. ClaimedInv(t)' BY <1>6, <3>1, <3>4 DEF ClaimedInv, ForcedPlaces, GracefulPlaces
      <4> QED BY <4>3, <4>4
    <3> QED BY <1>3, <3>2, <3>3, <3>4 DEF JoinPlaces
  <2>7. CASE Goto(t, pc[t], left) /\ pc[t] # "join"
    <3>1. pc'[t] = pc[t] /\ loc'[t].joined = FALSE BY <1>2, <2>4, <2>7
    <3>2. CASE pc[t] = "start_join"
      BY <1>4, <3>1, <3>2, Landing DEF Ignorant, Unbound
    <3>3. CASE pc[t] = "forced_join"
      <4>1. KnowsInv(t)' BY <1>4, <1>7, <3>1, <3>3 DEF KnowsInv, Waiting, Ended
      <4>2. ClaimedInv(t)' BY <1>6, <3>1, <3>3 DEF ClaimedInv, ForcedPlaces, GracefulPlaces
      <4> QED BY <4>1, <4>2
    <3> QED BY <1>3, <2>7, <3>2, <3>3 DEF JoinPlaces
  <2> QED BY <1>8, <2>5, <2>6, <2>7 DEF JoinReader, JoinRaises, Stopped, next, bad, left
<1>9. CASE AllJoined(t)
  <2>1. Left(t) = {} BY <1>9, LeftOfOrder DEF AllJoined, Left
  <2>2. CASE At(t, "start_join") /\ StartFails(l)
    <3>1. t = Starter BY <1>1, <2>2 DEF At, ControlInv, StarterPlaces
    <3>2. pc'[t] \in {"done", "unwind"}
      BY <1>1, <1>2, <2>2, <3>1 DEF StartFails, Returns, ControlInv
    <3> QED BY <1>4, <3>2, Landing DEF Ignorant, Unbound
  <2>3. CASE pc[t] = "forced_join" /\ Goto(t, "forced_job", l)
    <3>1. pc'[t] = "forced_job" /\ loc'[t] = l BY <1>2, <2>3
    <3> QED
      BY <1>4, <1>6, <1>7, <2>1, <2>3, <3>1
         DEF KnowsInv, ClaimedInv, Waiting, Ended, ForcedPlaces, GracefulPlaces
  <2>4. CASE pc[t] = "join" /\ Goto(t, "job", l)
    <3>1. pc'[t] = "job" /\ loc'[t] = l BY <1>2, <2>4
    <3> QED
      BY <1>4, <1>6, <1>7, <2>1, <2>4, <3>1
         DEF KnowsInv, ClaimedInv, Waiting, Ended, ForcedPlaces, GracefulPlaces
  <2>5. CASE \E c : pc[t] = "join" /\ Fails(t, c) BY <1>5, <2>5
  <2> QED BY <1>9, <2>2, <2>3, <2>4, <2>5 DEF AllJoined, Step, At
<1> QED BY <1>8, <1>9

(* The forced cleanup.                                                         *)
LEMMA KnowsForced ==
    ASSUME SInv, PipesInv, Lasts, NEW t \in Threads, KnowsInv(t), ClaimedInv(t), ForcedStep(t)
    PROVE  KnowsInv(t)' /\ ClaimedInv(t)'
<1> DEFINE l == loc[t]
           failed(m) == [m EXCEPT !.failed = TRUE]
           m0 == [l EXCEPT !.todo = Attached]
<1>1. ControlInv /\ l \in LocalsSet BY DEF SInv, ControlInv
<1>2. \A p, m : Goto(t, p, m) => pc'[t] = p /\ loc'[t] = m BY <1>1 DEF ControlInv, Goto
<1>3. cancelling'[t].at = "idle"
  <2>1. UNCHANGED cancelling
    BY DEF ForcedStep, ForcedTerminate, ForcedWait, ForcedRestore, ForcedJob, NoReaders,
       cancelVars
  <2>2. pc[t] \notin CancelPlaces
    BY DEF ForcedStep, ForcedTerminate, ForcedWait, ForcedRestore, ForcedJob, Tried, Step, At,
       CancelPlaces
  <2> QED BY <1>1, <2>1, <2>2 DEF ControlInv
<1>4. /\ UNCHANGED <<attached, adopted, closed>> /\ closed
      /\ pc[t] \in {"forced_terminate", "forced_wait", "forced_restore", "forced_job"}
  BY DEF ForcedStep, ForcedTerminate, ForcedWait, ForcedRestore, ForcedJob, Tried, Step, At,
     NoClaim, ClaimedInv, ForcedPlaces
<1>5. \A m \in LocalsSet : failed(m).todo = m.todo /\ failed(m).joined = m.joined
  BY DEF LocalsSet
<1>6. m0 \in LocalsSet /\ m0.todo = Attached BY <1>1, ListsOfHandles DEF LocalsSet
<1>7. attached => ToSet(Attached) = Streams BY LeftOfOrder DEF Attached
<1>8. ~attached => \A r \in Streams : Quiet(r)' BY <1>4 DEF Quiet
<1>9. pc[t] # "forced_terminate" /\ attached => \A r \in Streams : cancel_requested'[r]
  BY <1>4 DEF KnowsInv, Lasts
<1>10. CASE ForcedTerminate(t)
  <2>1. Goto(t, "forced_cancel", m0) \/ Goto(t, "forced_cancel", failed(m0))
    BY <1>10 DEF ForcedTerminate, Tried, Step
  <2> HIDE DEF m0, failed
  <2>2. pc'[t] = "forced_cancel" /\ loc'[t].todo = Attached
    BY <1>2, <1>5, <1>6, <2>1
  <2>3. attached' => Left(t)' = Streams BY <1>4, <1>7, <2>2 DEF Left
  <2>4. KnowsInv(t)' BY <1>3, <2>2, <2>3 DEF KnowsInv, Waiting, Ended
  <2>5. ClaimedInv(t)' BY <1>4, <2>2 DEF ClaimedInv
  <2> QED BY <2>4, <2>5
<1>11. CASE ForcedWait(t)
  <2>1. pc'[t] = "forced_restore" /\ pc[t] = "forced_wait"
    BY <1>2, <1>11 DEF ForcedWait, Tried, Step, At
  <2>2. KnowsInv(t)' BY <1>3, <1>4, <1>9, <2>1 DEF KnowsInv, Waiting, Ended
  <2>3. ClaimedInv(t)' BY <1>4, <2>1 DEF ClaimedInv
  <2> QED BY <2>2, <2>3
<1>12. CASE ForcedRestore(t)
  <2>1. Goto(t, "forced_join", m0) \/ Goto(t, "forced_join", failed(m0))
    BY <1>12 DEF ForcedRestore, Tried, Step
  <2>0. pc[t] # "forced_terminate" BY <1>12 DEF ForcedRestore, Tried, Step, At
  <2> HIDE DEF m0, failed
  <2>2. pc'[t] = "forced_join" /\ loc'[t].todo = Attached
    BY <1>2, <1>5, <1>6, <2>1
  <2>3. attached => Left(t)' = Streams BY <1>7, <2>2 DEF Left
  <2>4. \A r \in Streams : r \in Left(t)' \/ Quiet(r)' BY <1>8, <2>3
  <2>5. KnowsInv(t)' BY <1>3, <1>4, <1>9, <2>0, <2>2, <2>4 DEF KnowsInv, Waiting, Ended
  <2>6. ClaimedInv(t)' BY <1>4, <2>2 DEF ClaimedInv
  <2> QED BY <2>5, <2>6
<1>13. CASE ForcedJob(t)
  <2> DEFINE pipes == IF l.joined THEN <<"stderr", "stdout">> ELSE <<>>
             todo == <<"process">> \o pipes \o <<"job">>
             closing == [l EXCEPT !.todo = todo,
                                  !.clean = ~uncertain /\ ~ctrl_c /\ l.joined]
             empty == [closing EXCEPT !.empty = TRUE]
  <2>1. todo \in Seq(Handles) BY ListsOfHandles
  <2>2. l.joined \in BOOLEAN BY <1>1 DEF LocalsSet
  <2>3. closing \in LocalsSet /\ closing.todo = todo BY <1>1, <2>1, <2>2 DEF LocalsSet
  <2>4. Goto(t, "close", empty) \/ Goto(t, "close", failed(closing))
    BY <1>13 DEF ForcedJob, Tried, Step
  <2>5. l.joined => \A r \in Streams : Quiet(r)'
    BY <1>13 DEF ForcedJob, Tried, Step, At, KnowsInv, Lasts
  <2>6. ~l.joined => ToSet(todo) \subseteq {"process", "job"}
    BY DEF ToSet
  <2> HIDE DEF closing, failed, todo
  <2>7. pc'[t] = "close" /\ loc'[t].todo = todo
    <3>1. empty.todo = todo BY <2>3 DEF LocalsSet
    <3> HIDE DEF empty
    <3> QED BY <1>2, <1>5, <2>3, <2>4, <3>1
  <2>8. \A r \in Streams : r \in Left(t)' => Quiet(r)'
    BY <2>5, <2>6, <2>7, StreamsAssumption DEF Left
  <2>9. KnowsInv(t)' BY <1>3, <2>7, <2>8 DEF KnowsInv, Waiting, Ended
  <2>10. ClaimedInv(t)' BY <1>4, <2>7 DEF ClaimedInv
  <2> QED BY <2>9, <2>10
<1> QED BY <1>10, <1>11, <1>12, <1>13 DEF ForcedStep

(* The closing of what is managed, and what follows it.                        *)
LEMMA KnowsClosing ==
    ASSUME SInv, Lasts, NEW t \in Threads, KnowsInv(t), ClaimedInv(t), Closing(t)
    PROVE  KnowsInv(t)' /\ ClaimedInv(t)'
<1> DEFINE l == loc[t]
<1>1. ControlInv /\ l \in LocalsSet BY DEF SInv, ControlInv
<1>2. \A p, m : Goto(t, p, m) => pc'[t] = p /\ loc'[t] = m BY <1>1 DEF ControlInv, Goto
<1>3. cancelling'[t].at = "idle"
  <2>1. UNCHANGED cancelling
    BY DEF Closing, CloseManaged, FreeConsole, ReleaseManaged, Report, ShutdownFailed,
       NoReaders, cancelVars
  <2>2. pc[t] \notin CancelPlaces
    BY DEF Closing, CloseManaged, FreeConsole, ReleaseManaged, Report, ShutdownFailed, At,
       CancelPlaces
  <2> QED BY <1>1, <2>1, <2>2 DEF ControlInv
<1>4. closed'
  BY DEF Closing, CloseManaged, FreeConsole, ReleaseManaged, Report, ShutdownFailed, At,
     ClaimedInv, Lasts
<1>5. \A r : Returns(t, r) => pc'[t] = "done" BY <1>1 DEF ControlInv, Returns
<1>6. CASE CloseManaged(t)
  <2> DEFINE next == [l EXCEPT !.todo = Tail(@)]
             failed(c) == [next EXCEPT !.clean = FALSE, !.code = c]
  <2>1. l.todo # <<>> /\ l.todo \in Seq(Handles) /\ pc[t] = "close"
    BY <1>1, <1>6 DEF CloseManaged, LocalsSet, At
  <2>2. Goto(t, "close", next) \/ \E c : Goto(t, "close", failed(c))
    BY <1>6 DEF CloseManaged
  <2>3. next.todo = Tail(l.todo) /\ \A c : failed(c).todo = Tail(l.todo)
    BY <1>1 DEF LocalsSet
  <2> HIDE DEF next, failed
  <2>4. pc'[t] = "close" /\ loc'[t].todo = Tail(l.todo) BY <1>2, <2>2, <2>3
  <2>5. Left(t)' \subseteq Left(t) BY <2>1, <2>4, LeftOfTail DEF Left
  <2>6. \A r \in Streams : r \in Left(t)' => Quiet(r)' BY <2>1, <2>5 DEF KnowsInv, Lasts
  <2>7. KnowsInv(t)' BY <1>3, <2>4, <2>6 DEF KnowsInv, Waiting, Ended
  <2>8. ClaimedInv(t)' BY <1>4, <2>4 DEF ClaimedInv
  <2> QED BY <2>7, <2>8
<1>7. CASE FreeConsole(t) \/ ReleaseManaged(t) \/ Report(t) \/ ShutdownFailed(t)
  <2>1. pc'[t] \in {"release", "report", "shutdown_failed", "forced_terminate", "done"}
    BY <1>2, <1>5, <1>7 DEF FreeConsole, ReleaseManaged, Report, ShutdownFailed
  <2> QED BY <1>3, <1>4, <2>1, Landing DEF Ignorant
<1> QED BY <1>6, <1>7 DEF Closing

(* The rest of a start.                                                        *)
LEMMA KnowsSession ==
    ASSUME SInv, Lasts, KnowsInv(Starter), ClaimedInv(Starter), SessionStart
    PROVE  KnowsInv(Starter)' /\ ClaimedInv(Starter)'
<1> DEFINE l == loc[Starter]
<1>1. Starter \in Threads /\ ControlInv /\ l \in LocalsSet
  BY ThreadsAssumption DEF SInv, ControlInv
<1>2. \A p, m : Goto(Starter, p, m) => pc'[Starter] = p /\ loc'[Starter] = m
  BY <1>1 DEF ControlInv, Goto
<1>3. \A r : Returns(Starter, r) => pc'[Starter] = "done" BY <1>1 DEF ControlInv, Returns
<1>4. cancelling'[Starter].at = "idle"
  <2>1. UNCHANGED cancelling
    BY DEF SessionStart, AttachReaders, StartReaders, StartReader, FailReaders, FailRouter,
       PollStartup, RecheckStartup, BindSession, Unwind, NoReaders, cancelVars
  <2>2. pc[Starter] \notin CancelPlaces
    BY DEF SessionStart, AttachReaders, StartReaders, FailReaders, PollStartup,
       RecheckStartup, BindSession, Unwind, Step, At, CancelPlaces
  <2> QED BY <1>1, <2>1, <2>2 DEF ControlInv
<1>5. pc'[Starter] \in Unbound => KnowsInv(Starter)' /\ ClaimedInv(Starter)'
  BY <1>1, <1>4, Landing DEF Unbound, Ignorant
<1>6. Started => Started' BY DEF Lasts, Started
<1>7. CASE AttachReaders
  <2>1. CASE StartFails(l)
    <3>1. pc'[Starter] \in {"done", "unwind"} BY <1>2, <1>3, <2>1 DEF StartFails
    <3> QED BY <1>5, <3>1 DEF Unbound
  <2>2. CASE attached' /\ Goto(Starter, "start_reader", [l EXCEPT !.todo = StreamOrder])
    <3>1. pc'[Starter] = "start_reader" /\ loc'[Starter].todo = StreamOrder
      BY <1>1, <1>2, <2>2 DEF LocalsSet
    <3>2. Left(Starter)' = Streams BY <3>1, LeftOfOrder DEF Left
    <3>3. KnowsInv(Starter)' BY <1>4, <2>2, <3>1, <3>2 DEF KnowsInv, Waiting, Ended
    <3>4. ClaimedInv(Starter)' BY <3>1 DEF ClaimedInv, ForcedPlaces, GracefulPlaces
    <3> QED BY <3>3, <3>4
  <2> QED BY <1>7, <2>1, <2>2 DEF AttachReaders
<1>8. CASE StartReaders
  <2>1. /\ pc[Starter] = "start_reader" /\ attached'
        /\ \A r \in Streams : r \in Left(Starter) \/ step[r] # "created"
    BY <1>8 DEF StartReaders, At, KnowsInv, Lasts
  <2>2. CASE l.todo = <<>>
    <3>1. Left(Starter) = {} BY <2>2, LeftOfOrder DEF Left
    <3>2. Started' BY <1>6, <2>1, <3>1 DEF Started
    <3>3. pc'[Starter] \in {"done", "poll", "wait"}
          /\ (pc'[Starter] = "wait" => loc'[Starter].kind = "probe")
      BY <1>1, <1>2, <1>3, <1>8, <2>2 DEF StartReaders, LocalsSet
    <3>4. KnowsInv(Starter)' BY <1>4, <3>2, <3>3 DEF KnowsInv, Waiting, Ended
    <3>5. ClaimedInv(Starter)' BY <3>3 DEF ClaimedInv, ForcedPlaces, GracefulPlaces
    <3> QED BY <3>4, <3>5
  <2>3. CASE /\ l.todo # <<>> /\ StartReader(Head(l.todo))
             /\ Goto(Starter, "start_reader", [l EXCEPT !.todo = Tail(@)])
    <3>1. l.todo \in Seq(Streams) BY <1>1, <2>1 DEF ControlInv, RunsReaders
    <3>2. PICK h \in Streams : h = Head(l.todo) BY <2>3, <3>1, HeadTailProperties
    <3>3. step'[h] = "opening" BY <2>3, <3>2 DEF StartReader, Move, SInv, ReaderTypeOK
    <3>4. pc'[Starter] = "start_reader" /\ loc'[Starter].todo = Tail(l.todo)
      BY <1>1, <1>2, <2>3 DEF LocalsSet
    <3>5. Left(Starter) = {h} \cup Left(Starter)'
      BY <2>3, <3>1, <3>2, <3>4, LeftOfTail DEF Left
    <3>6. \A r \in Streams : r \in Left(Starter)' \/ step'[r] # "created"
      BY <2>1, <3>3, <3>5 DEF Lasts
    <3>7. KnowsInv(Starter)' BY <1>4, <2>1, <3>4, <3>6 DEF KnowsInv, Waiting, Ended
    <3>8. ClaimedInv(Starter)' BY <3>4 DEF ClaimedInv, ForcedPlaces, GracefulPlaces
    <3> QED BY <3>7, <3>8
  <2>4. CASE pc'[Starter] = "start_failed" BY <1>5, <2>4 DEF Unbound
  <2> QED BY <1>2, <1>8, <2>2, <2>3, <2>4 DEF StartReaders
<1>9. CASE FailReaders
  <2>1. pc'[Starter] = "start_cancel" BY <1>2, <1>9 DEF FailReaders, Step
  <2> QED BY <1>5, <2>1 DEF Unbound
<1>10. CASE PollStartup \/ RecheckStartup
  <2>1. Started'
    BY <1>6, <1>10 DEF PollStartup, RecheckStartup, Step, At, KnowsInv
  <2>2. pc'[Starter] \in {"adopt", "bind", "unwind"}
    BY <1>2, <1>10 DEF PollStartup, RecheckStartup, Step
  <2>3. KnowsInv(Starter)' BY <1>4, <2>1, <2>2 DEF KnowsInv, Waiting, Ended
  <2>4. ClaimedInv(Starter)' BY <2>2 DEF ClaimedInv, ForcedPlaces, GracefulPlaces
  <2> QED BY <2>3, <2>4
<1>11. CASE BindSession
  <2>1. pc'[Starter] \in {"done", "unwind"} BY <1>2, <1>3, <1>11 DEF BindSession
  <2> QED BY <1>5, <2>1 DEF Unbound
<1>12. CASE Unwind
  <2>1. pc'[Starter] = "done" \/ (pc'[Starter] = "forced_terminate" /\ closed')
    BY <1>2, <1>3, <1>12 DEF Unwind, Claimed
  <2> QED BY <1>1, <1>4, <2>1, Landing DEF Ignorant, Unbound
<1> QED BY <1>7, <1>8, <1>9, <1>10, <1>11, <1>12 DEF SessionStart

LEMMA KnowsLaunch ==
    ASSUME SInv, StartStep
    PROVE  KnowsInv(Starter)' /\ ClaimedInv(Starter)'
<1>1. Starter \in Threads /\ ControlInv BY ThreadsAssumption DEF SInv
<1>2. \A p, m : Goto(Starter, p, m) => pc'[Starter] = p BY <1>1 DEF ControlInv, Goto
<1>3. \A r : Returns(Starter, r) => pc'[Starter] = "done" BY <1>1 DEF ControlInv, Returns
<1>4. UNCHANGED cancelling
  BY DEF StartStep, ClaimLease, AllocateConsole, AcquireHandles, BeginPrelaunch, EndPrelaunch,
         CreateProcess, RetireHandles, InspectProcess, LaunchTerminate, LaunchWait,
         LaunchClose, LaunchFreeConsole, LaunchRelease, NoReader, cancelVars
<1>5. pc[Starter] \notin CancelPlaces
  BY DEF StartStep, ClaimLease, AllocateConsole, AcquireHandles, BeginPrelaunch, EndPrelaunch,
         CreateProcess, RetireHandles, InspectProcess, LaunchTerminate, LaunchWait,
         LaunchClose, LaunchFreeConsole, LaunchRelease, At, CancelPlaces
<1>6. cancelling'[Starter].at = "idle" BY <1>1, <1>4, <1>5 DEF ControlInv
<1>7. pc'[Starter] \in Launching \cup {"managed", "launch_console", "launch_release", "done"}
  BY <1>2, <1>3
     DEF StartStep, ClaimLease, AllocateConsole, AcquireHandles, BeginPrelaunch, EndPrelaunch,
         CreateProcess, RetireHandles, InspectProcess, LaunchTerminate, LaunchWait,
         LaunchClose, LaunchFreeConsole, LaunchRelease, FailStart, Launching, Before
<1> QED
  BY <1>6, <1>7 DEF KnowsInv, ClaimedInv, Waiting, Ended, ForcedPlaces, GracefulPlaces,
     Launching, Before

(* A call that begins.                                                         *)
LEMMA KnowsCalls ==
    ASSUME SInv, StartedInv, Lasts, NEW t \in Closers, Abort(t) \/ Shutdown(t)
    PROVE  KnowsInv(t)' /\ ClaimedInv(t)'
<1>1. t \in Threads /\ ControlInv BY ThreadsAssumption DEF SInv
<1>2. \A p, m : Goto(t, p, m) => pc'[t] = p /\ loc'[t] = m BY <1>1 DEF ControlInv, Goto
<1>3. \A r : Returns(t, r) => pc'[t] = "done" BY <1>1 DEF ControlInv, Returns
<1>4. cancelling'[t].at = "idle"
  BY <1>1 DEF Abort, Shutdown, Claim, NoReaders, cancelVars, At, ControlInv, CancelPlaces
<1>5. CASE closed
  <2>1. pc'[t] = "done" BY <1>3, <1>5 DEF Abort, Shutdown, Claim
  <2> QED BY <1>1, <1>4, <2>1, Landing DEF Ignorant, Unbound
<1>6. CASE ~closed /\ Abort(t)
  <2>1. pc'[t] = "forced_terminate" /\ closed' BY <1>2, <1>6 DEF Abort, Claim, Claimed
  <2> QED BY <1>1, <1>4, <2>1, Landing DEF Ignorant, Unbound
<1>7. CASE ~closed /\ Shutdown(t)
  <2>1. pc'[t] = "signal" /\ closed' BY <1>2, <1>7 DEF Shutdown, Claim, Claimed
  <2>2. adopted \/ result[Starter] = "readers" BY <1>7 DEF Shutdown, Known
  <2>3. Started' BY <2>2 DEF StartedInv, Lasts, Started
  <2>4. KnowsInv(t)' BY <1>4, <2>1, <2>3 DEF KnowsInv, Waiting, Ended
  <2>5. ClaimedInv(t)' BY <2>1 DEF ClaimedInv
  <2> QED BY <2>4, <2>5
<1> QED BY <1>5, <1>6, <1>7

-----------------------------------------------------------------------------
(* A reader with a cancel in progress, or with its result, has the flag set.   *)
Flagged ==
    \A r \in Streams : cancel_result[r] # "none" \/ cancel_in_progress[r] => cancel_requested[r]

LEMMA FlaggedNext == ASSUME IInv, Flagged, [ReaderNext]_logVars PROVE Flagged'
<1> USE DEF IInv, ReaderTypeOK
<1>1. ASSUME NEW r \in Streams, StartReader(r) \/ ReaderStep(r) PROVE Flagged'
  <2>1. UNCHANGED cancelVars BY <1>1, ReaderKeeps
  <2> QED BY <2>1 DEF Flagged, cancelVars
<1>2. ASSUME NEW t \in Threads, NEW r \in Streams, NEW zero \in BOOLEAN,
             EnterCancel(t, r, zero)
      PROVE  Flagged'
  BY <1>2 DEF EnterCancel, CancelReplay, CancelFollow, CancelLead, Flagged
<1>3. ASSUME NEW t \in Threads, CancelStep(t) \/ CancelReturn(t) PROVE Flagged'
  <2>1. CASE CancelConclude(t)
    <3>1. PICK r \in Streams : r = cancelling[t].stream
      BY <2>1, CallNamesReader DEF CancelConclude
    <3>2. cancel_requested[r] BY <2>1, <3>1 DEF CancelConclude, VerdictInv
    <3>3. \A q \in Streams : q # r =>
             /\ cancel_result'[q] = cancel_result[q]
             /\ cancel_in_progress'[q] = cancel_in_progress[q]
      BY <2>1, <3>1 DEF CancelConclude
    <3>4. UNCHANGED cancel_requested BY <2>1 DEF CancelConclude
    <3> QED BY <3>2, <3>3, <3>4 DEF Flagged
  <2>2. CASE ~CancelConclude(t)
    BY <1>3, <2>2 DEF CancelStep, CancelUnregistered, CancelPending, CancelMissed,
       CancelGivesUp, CancelFollowed, CancelReturn, Decide, Flagged
  <2> QED BY <2>1, <2>2
<1>4. CASE Launch \/ Exit \/ FailRouter \/ UNCHANGED logVars
  BY <1>4 DEF Launch, Exit, FailRouter, logVars, cancelVars, Flagged
<1> QED BY <1>1, <1>2, <1>3, <1>4 DEF ReaderNext

(* The results of the calls: only a raw start returns the readers, and only     *)
(* when it has started them all.                                               *)
LEMMA ReturnKeeps ==
    ASSUME result \in [Threads -> Results], NEW t \in Threads, NEW r, Returns(t, r),
           r \in Results
    PROVE  /\ result' \in [Threads -> Results]
           /\ result'[Starter] = "readers" => result[Starter] = "readers" \/ r = "readers"
BY ThreadsAssumption DEF Returns

\* The two conjuncts of StartedInv that are about the calls.
CallsInv ==
    /\ result \in [Threads -> Results]
    /\ adopted \/ result[Starter] = "readers" => Started

LEMMA CallsSession ==
    ASSUME CallsInv, Lasts, KnowsInv(Starter), SessionStart PROVE CallsInv'
<1> DEFINE l == loc[Starter]
<1>1. Started => Started' BY DEF Lasts, Started
<1>2. \A r \in Results \ {"readers"} :
         Returns(Starter, r) => /\ result' \in [Threads -> Results]
                                /\ result'[Starter] # "readers"
  BY ThreadsAssumption DEF Returns, CallsInv
<1>3. UNCHANGED result => /\ result' \in [Threads -> Results]
                          /\ result'[Starter] = "readers" => Started'
  BY <1>1 DEF CallsInv
<1>4. UNCHANGED adopted => (adopted' => Started') BY <1>1 DEF CallsInv
<1>5. CASE AttachReaders
  <2>1. StartFails(l) => UNCHANGED result \/ \E r \in Results \ {"readers"} : Returns(Starter, r)
    BY DEF StartFails, Results
  <2>2. UNCHANGED adopted /\ (StartFails(l) \/ UNCHANGED result) BY <1>5 DEF AttachReaders
  <2> QED BY <1>2, <1>3, <1>4, <2>1, <2>2 DEF CallsInv
<1>6. CASE StartReaders
  <2>1. UNCHANGED adopted BY <1>6 DEF StartReaders, NoClaim
  <2>2. CASE UNCHANGED result BY <1>3, <1>4, <2>1, <2>2 DEF CallsInv
  <2>3. CASE l.todo = <<>> /\ Returns(Starter, "readers")
    <3>1. Left(Starter) = {} BY <2>3, LeftOfOrder DEF Left
    <3>2. Started' BY <1>1, <1>6, <3>1 DEF StartReaders, At, KnowsInv, Started
    <3>3. result' \in [Threads -> Results]
      BY <2>3, ThreadsAssumption DEF Returns, Results, CallsInv
    <3> QED BY <3>2, <3>3 DEF CallsInv
  <2> QED BY <1>6, <2>2, <2>3 DEF StartReaders
<1>7. CASE FailReaders \/ PollStartup \/ RecheckStartup
  BY <1>3, <1>4, <1>7 DEF FailReaders, PollStartup, RecheckStartup, NoClaim, CallsInv
<1>8. CASE BindSession
  <2>1. Started' BY <1>1, <1>8 DEF BindSession, At, KnowsInv
  <2>2. UNCHANGED result \/ Returns(Starter, "session") BY <1>8 DEF BindSession
  <2>3. result' \in [Threads -> Results] BY <1>2, <1>3, <2>2 DEF Results
  <2> QED BY <2>1, <2>3 DEF CallsInv
<1>9. CASE Unwind
  <2>1. UNCHANGED result \/ Returns(Starter, "invalid") BY <1>9 DEF Unwind
  <2>2. UNCHANGED adopted BY <1>9 DEF Unwind, Claimed
  <2> QED BY <1>2, <1>3, <1>4, <2>1, <2>2 DEF CallsInv, Results
<1> QED BY <1>5, <1>6, <1>7, <1>8, <1>9 DEF SessionStart

LEMMA CallsOthers ==
    ASSUME CallsInv, Lasts, UNCHANGED adopted,
           \/ UNCHANGED result
           \/ \E t \in Threads, r \in Results \ {"readers"} : Returns(t, r)
    PROVE  CallsInv'
<1>1. Started => Started' BY DEF Lasts, Started
<1>2. CASE UNCHANGED result BY <1>1, <1>2 DEF CallsInv
<1>3. ASSUME NEW t \in Threads, NEW r \in Results \ {"readers"}, Returns(t, r)
      PROVE  CallsInv'
  BY <1>1, <1>3, ReturnKeeps DEF CallsInv
<1> QED BY <1>2, <1>3

\* What a cleanup leaves alone, but for the closing of the handles.
LEMMA CleanupKeeps ==
    ASSUME NEW t \in Threads, CleanupStep(t), ControlInv
    PROVE  /\ UNCHANGED <<attached, adopted, step>>
           /\ UNCHANGED <<native, managed>> \/ CloseManaged(t)
           /\ \/ UNCHANGED result
              \/ \E r \in Results \ {"readers"} : Returns(t, r)
<1>1. UNCHANGED <<attached, adopted>>
  BY DEF CleanupStep, BeginCancel, ContinueCancel, EndCancel, AllCancelled,
     JoinReader, AllJoined, SignalRoot, UndoSignal, WaitRoot, RestoreAndExamine,
     AwaitEmptyJob, BeginVerify, EndVerify, ClaimProbe, CloseManaged, FreeConsole,
     ReleaseManaged, Report, ShutdownFailed, ForcedTerminate, ForcedWait, ForcedRestore,
     ForcedJob, NoClaim, Claimed
<1>2. UNCHANGED <<native, managed>> \/ CloseManaged(t)
  BY DEF CleanupStep, BeginCancel, ContinueCancel, EndCancel, AllCancelled,
     JoinReader, AllJoined, SignalRoot, UndoSignal, WaitRoot, RestoreAndExamine,
     AwaitEmptyJob, BeginVerify, EndVerify, ClaimProbe, FreeConsole,
     ReleaseManaged, Report, ShutdownFailed, ForcedTerminate, ForcedWait, ForcedRestore,
     ForcedJob, NoHandles
<1>3. UNCHANGED step
  <2>1. CASE BeginCancel(t)
    BY <2>1 DEF BeginCancel, EnterCancel, CancelReplay, CancelFollow, CancelLead, readerVars
  <2>2. CASE ContinueCancel(t)
    BY <2>2 DEF ContinueCancel, CancelStep, CancelUnregistered, CancelPending, CancelMissed,
       CancelGivesUp, CancelConclude, CancelFollowed, readerVars
  <2>3. CASE EndCancel(t) BY <2>3 DEF EndCancel, CancelReturn, readerVars
  <2> QED
    BY <2>1, <2>2, <2>3 DEF CleanupStep, AllCancelled, JoinReader, AllJoined, SignalRoot,
       UndoSignal, WaitRoot, RestoreAndExamine, AwaitEmptyJob, BeginVerify, EndVerify,
       ClaimProbe, CloseManaged, FreeConsole, ReleaseManaged, Report, ShutdownFailed,
       ForcedTerminate, ForcedWait, ForcedRestore, ForcedJob, NoReaders, readerVars
<1>4. UNCHANGED result \/ \E r \in Results \ {"readers"} : Returns(t, r)
  <2>1. CASE AllJoined(t)
    <3>1. At(t, "start_join") => t = Starter BY DEF At, ControlInv, StarterPlaces
    <3> QED BY <2>1, <3>1 DEF AllJoined, StartFails, Results
  <2>2. CASE Report(t) \/ ShutdownFailed(t)
    BY <2>2 DEF Report, ShutdownFailed, Results
  <2> QED
    BY <2>1, <2>2 DEF CleanupStep, BeginCancel, ContinueCancel, EndCancel, AllCancelled,
       JoinReader, SignalRoot, UndoSignal, WaitRoot, RestoreAndExamine,
       AwaitEmptyJob, BeginVerify, EndVerify, ClaimProbe, CloseManaged, FreeConsole,
       ReleaseManaged, ForcedTerminate, ForcedWait, ForcedRestore, ForcedJob
<1> QED BY <1>1, <1>2, <1>3, <1>4

-----------------------------------------------------------------------------
(* The pipes.                                                                  *)

(* A step that touches no handle, moves into no launch, and starts no reader   *)
(* before they are attached.                                                   *)
LEMMA PipesStand ==
    ASSUME PipesInv, Lasts, UNCHANGED <<native, managed, attached>>,
           attached \/ UNCHANGED step,
           pc'[Starter] \in Launching \cup {"managed"} =>
              pc'[Starter] = pc[Starter] /\ loc'[Starter] = loc[Starter]
    PROVE  PipesInv'
<1> USE DEF PipesInv, Launching, Before
<1>1. pc'[Starter] = "acquire" => Pipes \subseteq native' \cup Left(Starter)'
  BY DEF Left
<1>2. /\ pc'[Starter] \in {"prelaunch", "verify_launch", "create"} => Pipes \subseteq native'
      /\ pc'[Starter] \in {"retire", "inspect"} => Retained \subseteq native'
      /\ managed' \subseteq native'
      /\ pc'[Starter] = "managed" /\ ~closed' => Retained \subseteq managed'
      /\ pc'[Starter] \in Launching => ~attached'
  BY DEF Lasts, Retained
<1>3. ~attached' => \A r \in Streams : step'[r] = "created"
  OBVIOUS
<1>4. attached' => \A r \in Streams : r \in native' \/ Quiet(r)'
  BY DEF Lasts
<1> QED BY <1>1, <1>2, <1>3, <1>4 DEF Retained

(* The launch opens the pipes and keeps what it does not give up.              *)
LEMMA PipesLaunch ==
    ASSUME SInv, CloseInv, PipesInv, Lasts, LaunchStep PROVE PipesInv'
<1> DEFINE l == loc[Starter]
<1>1. Starter \in Threads /\ ControlInv /\ l \in LocalsSet
  BY ThreadsAssumption DEF SInv, ControlInv
<1>2. \A p, m : Goto(Starter, p, m) => pc'[Starter] = p /\ loc'[Starter] = m
  BY <1>1 DEF ControlInv, Goto
<1>3. \A r : Returns(Starter, r) => pc'[Starter] = "done" BY <1>1 DEF ControlInv, Returns
<1>4. \A c : FailStart(c) => pc'[Starter] \in {"launch_terminate", "launch_close"}
  BY <1>2 DEF FailStart
<1>5. UNCHANGED <<attached, closed, step>>
  BY DEF LaunchStep, sessionVars, StartStep, ClaimLease, AllocateConsole, AcquireHandles,
     BeginPrelaunch, EndPrelaunch, CreateProcess, RetireHandles, InspectProcess,
     LaunchTerminate, LaunchWait, LaunchClose, LaunchFreeConsole, LaunchRelease, NoReader,
     readerVars
<1>6. CASE LaunchFreeConsole \/ LaunchRelease
  <2>1. UNCHANGED <<native, managed>> /\ pc'[Starter] \in {"launch_release", "done"}
    BY <1>2, <1>3, <1>6 DEF LaunchFreeConsole, LaunchRelease
  <2> QED BY <1>5, <2>1, PipesStand DEF Launching, Before
<1>7. CASE ~(LaunchFreeConsole \/ LaunchRelease)
  <2>1. StartStep /\ pc[Starter] \in Launching
    BY <1>7 DEF LaunchStep, StartStep, ClaimLease, AllocateConsole, AcquireHandles,
       BeginPrelaunch, EndPrelaunch, CreateProcess, RetireHandles, InspectProcess,
       LaunchTerminate, LaunchWait, LaunchClose, At, Launching, Before
  <2>2. ~attached' /\ (\A r \in Streams : step'[r] = "created") /\ managed = {}
    BY <1>5, <2>1 DEF PipesInv, CloseInv
  <2>3. UNCHANGED managed \/ InspectProcess
    BY <2>1, <1>7 DEF StartStep, ClaimLease, AllocateConsole, AcquireHandles,
       BeginPrelaunch, EndPrelaunch, CreateProcess, RetireHandles,
       LaunchTerminate, LaunchWait, LaunchClose
  <2> DEFINE
        Held == /\ pc'[Starter] = "acquire" => Pipes \subseteq native' \cup Left(Starter)'
                /\ pc'[Starter] \in {"prelaunch", "verify_launch", "create"} =>
                      Pipes \subseteq native'
                /\ pc'[Starter] \in {"retire", "inspect"} => Retained \subseteq native'
                /\ managed' \subseteq native'
                /\ pc'[Starter] = "managed" /\ ~closed' => Retained \subseteq managed'
  <2>4. Held => PipesInv' BY <2>2 DEF PipesInv, Pipes, Retained
  <2>5. UNCHANGED managed /\ pc'[Starter] \in Launching
           \ {"acquire", "prelaunch", "verify_launch", "create", "retire", "inspect"} => Held
    BY <2>2 DEF Launching, Before
  <2> HIDE DEF Held
  <2> SUFFICES Held BY <2>4
  <2>6. \A c : FailStart(c) /\ UNCHANGED managed => Held
    BY <1>4, <2>5 DEF Launching, Before
  <2>7. CASE ClaimLease
    BY <1>2, <2>5, <2>7 DEF ClaimLease, Launching, Before
  <2>8. CASE AllocateConsole
    <3>1. CASE \E c : FailStart(c) BY <2>3, <2>6, <2>8, <3>1 DEF AllocateConsole
    <3>2. CASE Goto(Starter, "acquire", [l EXCEPT !.todo =
                       <<"job", "stdin", "stdout", "stderr", "attributes">>])
      <4> DEFINE todo == <<"job", "stdin", "stdout", "stderr", "attributes">>
      <4>1. pc'[Starter] = "acquire" /\ loc'[Starter].todo = todo
        BY <1>1, <1>2, <3>2 DEF LocalsSet
      <4>2. {todo[1], todo[3], todo[4]} \subseteq ToSet(todo) BY DEF ToSet
      <4>3. Pipes \subseteq ToSet(todo) BY <4>2 DEF Pipes
      <4> HIDE DEF todo
      <4>4. Pipes \subseteq Left(Starter)' BY <4>1, <4>3 DEF Left
      <4>5. managed' = {} BY <2>2, <2>8 DEF AllocateConsole
      <4> QED BY <4>1, <4>4, <4>5 DEF Held
    <3> QED BY <2>8, <3>1, <3>2 DEF AllocateConsole
  <2>9. CASE AcquireHandles
    <3>1. Pipes \subseteq native \cup Left(Starter) /\ managed' = {}
      BY <2>2, <2>9 DEF AcquireHandles, At, PipesInv
    <3>2. CASE \E c : FailStart(c) BY <2>3, <2>6, <2>9, <3>2 DEF AcquireHandles
    <3>3. CASE l.todo = <<>> /\ UNCHANGED native /\ Goto(Starter, "prelaunch", l)
      <4>1. Left(Starter) = {} BY <3>3, LeftOfOrder DEF Left
      <4> QED BY <1>2, <3>1, <3>3, <4>1 DEF Held
    <3>4. CASE /\ l.todo # <<>> /\ native' = native \cup Brings(Head(l.todo))
               /\ Goto(Starter, "acquire", [l EXCEPT !.todo = Tail(@)])
      <4>1. pc'[Starter] = "acquire" /\ loc'[Starter].todo = Tail(l.todo)
        BY <1>1, <1>2, <3>4 DEF LocalsSet
      <4>2. l.todo \in Seq(Handles) BY <1>1 DEF LocalsSet
      <4>3. Left(Starter) = {Head(l.todo)} \cup Left(Starter)'
        BY <3>4, <4>1, <4>2, LeftOfTail DEF Left
      <4>4. Head(l.todo) \in Brings(Head(l.todo)) BY DEF Brings
      <4> QED BY <3>1, <3>4, <4>1, <4>3, <4>4 DEF Held
    <3> QED BY <2>9, <3>2, <3>3, <3>4 DEF AcquireHandles
  <2>10. CASE BeginPrelaunch \/ EndPrelaunch
    <3>1. Pipes \subseteq native' /\ managed' = {}
      BY <2>2, <2>10 DEF BeginPrelaunch, EndPrelaunch, At, PipesInv
    <3>2. CASE \E c : FailStart(c) BY <2>2, <2>6, <3>1, <3>2
    <3>3. CASE pc'[Starter] \in {"verify_launch", "create"} BY <3>1, <3>3 DEF Held
    <3> QED BY <1>2, <2>10, <3>2, <3>3 DEF BeginPrelaunch, EndPrelaunch
  <2>11. CASE CreateProcess
    <3>1. Pipes \subseteq native /\ managed' = {}
      BY <2>2, <2>11 DEF CreateProcess, At, PipesInv
    <3>2. CASE \E c : FailStart(c) BY <2>2, <2>6, <3>1, <3>2
    <3>3. CASE pc'[Starter] = "retire" /\ native' = native \cup {"process", "thread"}
      BY <3>1, <3>3 DEF Held, Pipes, Retained
    <3> QED BY <1>2, <2>11, <3>2, <3>3 DEF CreateProcess
  <2>12. CASE RetireHandles
    <3>1. Retained \subseteq native /\ managed' = {}
      BY <2>2, <2>12 DEF RetireHandles, At, PipesInv
    <3>2. CASE \E c : FailStart(c) BY <2>2, <2>6, <3>1, <3>2
    <3>3. CASE UNCHANGED native /\ pc'[Starter] = "inspect" BY <3>1, <3>3 DEF Held
    <3>4. CASE /\ l.todo # <<>> /\ CloseNative(Head(l.todo), TRUE)
               /\ pc'[Starter] = "retire"
      <4>1. l.todo \in Seq(Handles) BY <1>1 DEF LocalsSet
      <4>2. Head(l.todo) \notin Retained
        <5>1. /\ Distinct(l.todo)
              /\ \A i \in 1 .. Len(l.todo) : l.todo[i] \notin Retained
          BY <2>12 DEF RetireHandles, At, CloseInv
        <5> QED BY <3>4, <4>1, <5>1, TailDistinct
      <4>3. native' = native \ {Head(l.todo)} BY <3>4 DEF CloseNative
      <4> QED BY <3>1, <3>4, <4>2, <4>3 DEF Held, Retained
    <3> QED BY <1>2, <2>12, <3>2, <3>3, <3>4 DEF RetireHandles
  <2>13. CASE InspectProcess
    <3>1. Retained \subseteq native /\ UNCHANGED native
      BY <2>13 DEF InspectProcess, At, PipesInv
    <3>2. CASE \E c : FailStart(c)
      <4>1. UNCHANGED managed BY <1>2, <1>4, <2>13, <3>2 DEF InspectProcess
      <4> QED BY <2>6, <3>2, <4>1
    <3>3. CASE pc'[Starter] = "managed" /\ managed' = Retained BY <3>1, <3>3 DEF Held
    <3> QED BY <1>2, <2>13, <3>2, <3>3 DEF InspectProcess
  <2>14. CASE LaunchTerminate \/ LaunchWait \/ LaunchClose
    <3>1. pc'[Starter] \in {"launch_wait", "launch_close", "launch_console"}
          /\ UNCHANGED managed
      BY <1>2, <2>14 DEF LaunchTerminate, LaunchWait, LaunchClose
    <3> QED BY <2>2, <3>1 DEF Held
  <2> QED
    BY <1>7, <2>1, <2>7, <2>8, <2>9, <2>10, <2>11, <2>12, <2>13, <2>14 DEF StartStep
<1> QED BY <1>6, <1>7

(* A cleanup closes a pipe only when its reader reads no more.                 *)
LEMMA PipesCleanup ==
    ASSUME SInv, CloseInv, PipesInv, Lasts, NEW t \in Threads, KnowsInv(t), ClaimedInv(t),
           CleanupStep(t)
    PROVE  PipesInv'
<1> DEFINE l == loc[t]
<1>1. ControlInv /\ l \in LocalsSet BY DEF SInv, ControlInv
<1>2. /\ UNCHANGED <<attached, step>>
      /\ UNCHANGED <<native, managed>> \/ CloseManaged(t)
  BY <1>1, CleanupKeeps
<1>3. pc'[Starter] \in Launching \cup {"managed"} =>
         /\ t # Starter /\ pc'[Starter] = pc[Starter] /\ loc'[Starter] = loc[Starter]
  BY <1>1, CleanupMoves, ThreadsAssumption DEF MovesOnly, Launched
<1>4. CASE UNCHANGED <<native, managed>> BY <1>2, <1>3, <1>4, PipesStand
<1>5. CASE CloseManaged(t) /\ Head(l.todo) \in managed
  <2>1. PICK h \in Handles : h = Head(l.todo) /\ h \in managed BY <1>5 DEF CloseInv
  <2>2. managed' = managed \ {h} /\ native \ {h} \subseteq native'
    BY <1>5, <2>1 DEF CloseManaged, CloseNative
  <2>3. pc'[Starter] \notin Launching
    BY <1>3, <2>1 DEF CloseInv
  <2>4. closed' BY <1>5 DEF CloseManaged, At, ClaimedInv, Lasts
  <2>5. h \in Left(t)
    BY <1>1, <1>5, <2>1, LeftOfTail DEF CloseManaged, LocalsSet, Left
  <2>6. h \in Streams => Quiet(h)' BY <1>5, <2>5 DEF CloseManaged, At, KnowsInv, Lasts
  <2>7. attached' => \A r \in Streams : r \in native' \/ Quiet(r)'
    <3> SUFFICES ASSUME attached, NEW r \in Streams PROVE r \in native' \/ Quiet(r)'
      BY <1>2
    <3>1. CASE r = h BY <2>6, <3>1
    <3>2. CASE r # h BY <2>2, <3>2 DEF PipesInv, Lasts
    <3> QED BY <3>1, <3>2
  <2>8. managed' \subseteq native' BY <2>2 DEF PipesInv
  <2>9. ~attached' => \A r \in Streams : step'[r] = "created" BY <1>2 DEF PipesInv
  <2> QED
    BY <2>3, <2>4, <2>7, <2>8, <2>9 DEF PipesInv, Launching, Before
<1>6. CASE CloseManaged(t) /\ Head(l.todo) \notin managed
  <2>1. UNCHANGED <<native, managed>> BY <1>6 DEF CloseManaged
  <2> QED BY <1>4, <2>1
<1> QED BY <1>2, <1>4, <1>5, <1>6

(* The rest of a start closes nothing; the readers are attached to a process   *)
(* nobody has claimed, whose pipes are open.                                   *)
LEMMA PipesSession ==
    ASSUME SInv, PipesInv, Lasts, KnowsInv(Starter), SessionStart PROVE PipesInv'
<1>1. \A p, m : Goto(Starter, p, m) => pc'[Starter] = p
  BY ThreadsAssumption DEF SInv, ControlInv, Goto
<1>2. \A r : Returns(Starter, r) => pc'[Starter] = "done"
  BY ThreadsAssumption DEF SInv, ControlInv, Returns
<1>3. pc'[Starter] \notin Launching \cup {"managed"}
  BY <1>1, <1>2 DEF SessionStart, AttachReaders, StartFails, StartReaders, FailReaders,
     PollStartup, RecheckStartup, BindSession, Unwind, Step, Launching, Before
<1>4. UNCHANGED <<native, managed>>
  BY DEF SessionStart, AttachReaders, StartReaders, FailReaders, PollStartup,
     RecheckStartup, BindSession, Unwind, NoHandles
<1>5. CASE AttachReaders /\ ~closed
  <2>1. attached' /\ UNCHANGED step BY <1>5 DEF AttachReaders, NoReaders, readerVars
  <2>2. Retained \subseteq native' /\ managed' \subseteq native'
    BY <1>4, <1>5 DEF AttachReaders, At, PipesInv
  <2>3. Streams \subseteq native' BY <2>2, StreamsAssumption DEF Retained
  <2> QED BY <1>3, <2>1, <2>2, <2>3 DEF PipesInv, Launching, Before
<1>6. CASE ~(AttachReaders /\ ~closed)
  <2>1. UNCHANGED attached
    BY <1>6 DEF SessionStart, AttachReaders, StartReaders, FailReaders, PollStartup,
       RecheckStartup, BindSession, Unwind, NoClaim, Claimed
  <2>2. attached \/ UNCHANGED step
    BY <1>6 DEF SessionStart, AttachReaders, StartReaders, FailReaders, FailRouter, PollStartup,
       RecheckStartup, BindSession, Unwind, NoReaders, readerVars, At, KnowsInv
  <2> QED BY <1>3, <1>4, <2>1, <2>2, PipesStand
<1> QED BY <1>5, <1>6

\* A step of t, to the others.
Alone(t) ==
    \A u \in Threads : u # t => /\ pc'[u] = pc[u] /\ loc'[u] = loc[u]
                               /\ cancelling'[u] = cancelling[u]
AllKnow == \A t \in Threads : ClaimedInv(t) /\ KnowsInv(t)

LEMMA CallsAtReaders ==
    ASSUME SInv, NEW t \in Threads, cancelling[t].at # "idle"
    PROVE  Head(loc[t].todo) \in Streams
<1>1. loc[t].todo # <<>> /\ loc[t].todo \in Seq(Streams)
  BY DEF SInv, ControlInv, RunsReaders
<1> QED BY <1>1, HeadTailProperties

LEMMA AllKnowNext ==
    ASSUME SInv, Lasts, AllKnow, NEW t \in Threads, Alone(t), KnowsInv(t)' /\ ClaimedInv(t)'
    PROVE  AllKnow'
<1>1. ASSUME NEW u \in Threads, u # t PROVE KnowsInv(u)' /\ ClaimedInv(u)'
  BY <1>1, CallsAtReaders, OthersKeep DEF Alone, AllKnow
<1> QED BY <1>1 DEF AllKnow

LEMMA CleanupAlone ==
    ASSUME SInv, NEW t \in Threads, CleanupStep(t) PROVE Alone(t)
<1>1. \A u \in Threads : u # t => pc'[u] = pc[u] /\ loc'[u] = loc[u]
  BY CleanupMoves DEF SInv, MovesOnly
<1>2. \A u \in Threads : u # t => cancelling'[u] = cancelling[u]
  <2> USE DEF SInv, ReaderTypeOK
  <2>1. CASE BeginCancel(t)
    BY <2>1 DEF BeginCancel, EnterCancel, CancelReplay, CancelFollow, CancelLead
  <2>2. CASE ContinueCancel(t)
    BY <2>2 DEF ContinueCancel, CancelStep, CancelUnregistered, CancelPending, CancelMissed,
       CancelGivesUp, CancelConclude, CancelFollowed, Decide
  <2>3. CASE EndCancel(t) BY <2>3 DEF EndCancel, CancelReturn
  <2> QED
    BY <2>1, <2>2, <2>3 DEF CleanupStep, AllCancelled, JoinReader, AllJoined, SignalRoot,
       UndoSignal, WaitRoot, RestoreAndExamine, AwaitEmptyJob, BeginVerify, EndVerify,
       ClaimProbe, CloseManaged, FreeConsole, ReleaseManaged, Report, ShutdownFailed,
       ForcedTerminate, ForcedWait, ForcedRestore, ForcedJob, NoReaders, cancelVars
<1> QED BY <1>1, <1>2 DEF Alone

LEMMA StarterAlone ==
    ASSUME SInv, StarterStep PROVE Alone(Starter)
<1>1. UNCHANGED cancelling
  <2>1. CASE SessionStart
    BY <2>1 DEF SessionStart, AttachReaders, StartReaders, StartReader, FailReaders, FailRouter,
       PollStartup, RecheckStartup, BindSession, Unwind, NoReaders, cancelVars
  <2>2. CASE LaunchStep
    BY <2>2 DEF LaunchStep, StartStep, ClaimLease, AllocateConsole, AcquireHandles,
       BeginPrelaunch, EndPrelaunch, CreateProcess, RetireHandles, InspectProcess,
       LaunchTerminate, LaunchWait, LaunchClose, LaunchFreeConsole, LaunchRelease, NoReader,
       cancelVars
  <2> QED BY <2>1, <2>2 DEF StarterStep, SessionStart
<1>2. ASSUME NEW u \in Threads, u # Starter PROVE pc'[u] = pc[u] /\ loc'[u] = loc[u]
  <2>1. \A p, m : Goto(Starter, p, m) => pc'[u] = pc[u] /\ loc'[u] = loc[u]
    BY <1>2, ThreadsAssumption DEF SInv, ControlInv, Goto
  <2>2. \A r : Returns(Starter, r) => pc'[u] = pc[u]
    BY <1>2, ThreadsAssumption DEF SInv, ControlInv, Returns
  <2>3. CASE SessionStart
    BY <2>1, <2>2, <2>3 DEF SessionStart, AttachReaders, StartFails, StartReaders, FailReaders,
       PollStartup, RecheckStartup, BindSession, Unwind, Step
  <2>4. CASE LaunchStep
    <3>1. \A c : FailStart(c) => pc'[u] = pc[u] /\ loc'[u] = loc[u] BY <2>1 DEF FailStart
    <3> QED
      BY <2>1, <2>2, <2>4, <3>1 DEF LaunchStep, StartStep, ClaimLease, AllocateConsole,
         AcquireHandles,
         BeginPrelaunch, EndPrelaunch, CreateProcess, RetireHandles, InspectProcess,
         LaunchTerminate, LaunchWait, LaunchClose, LaunchFreeConsole, LaunchRelease
  <2> QED BY <2>3, <2>4 DEF StarterStep, SessionStart
<1> QED BY <1>1, <1>2 DEF Alone

-----------------------------------------------------------------------------
(* The whole invariant.                                                        *)
WholeInv == SInv /\ CloseInv /\ IInv /\ ReadInv

LEMMA WholeInit == Init => WholeInv
<1> SUFFICES ASSUME Init PROVE WholeInv
  OBVIOUS
<1>1. SInv /\ CloseInv /\ IInv BY SInvInit, CloseInit, InvInit DEF Init
<1>2. PipesInv
  BY ThreadsAssumption DEF Init, ReaderInit, PipesInv, Launching, Before
<1>3. StartedInv
  BY ThreadsAssumption DEF Init, ReaderInit, StartedInv, Results
<1>4. ASSUME NEW t \in Threads PROVE ClaimedInv(t) /\ KnowsInv(t)
  <2>1. pc[t] \in {"claim", "idle"} /\ cancelling[t].at = "idle"
    BY DEF Init, ReaderInit, Idle
  <2> QED
    BY <2>1 DEF ClaimedInv, KnowsInv, Waiting, Ended, ForcedPlaces, GracefulPlaces
<1> QED BY <1>1, <1>2, <1>3, <1>4 DEF WholeInv, ReadInv

LEMMA WholeNext == ASSUME WholeInv, [Next]_vars PROVE WholeInv'
<1>1. SInv /\ CloseInv /\ IInv /\ PipesInv /\ StartedInv /\ AllKnow /\ Lasts
  BY LastsNext DEF WholeInv, ReadInv, AllKnow
<1>2. CallsInv /\ Flagged BY <1>1 DEF StartedInv, CallsInv, Flagged
<1>3. SInv' /\ CloseInv' /\ IInv' /\ Flagged'
  BY <1>1, <1>2, StepIsReaders, CloseNext, InvNext, FlaggedNext
<1> SUFFICES PipesInv' /\ CallsInv' /\ AllKnow'
  BY <1>3 DEF WholeInv, ReadInv, StartedInv, CallsInv, Flagged, AllKnow
<1>4. CASE StarterStep
  <2>1. Starter \in Threads /\ KnowsInv(Starter) /\ ClaimedInv(Starter)
    BY <1>1, ThreadsAssumption DEF AllKnow
  <2>2. CASE LaunchStep
    <3>1. StartStep /\ UNCHANGED adopted BY <2>2 DEF LaunchStep, sessionVars
    <3>2. \/ UNCHANGED result
          \/ \E t \in Threads, r \in Results \ {"readers"} : Returns(t, r)
      BY <2>1, <3>1 DEF StartStep, ClaimLease, AllocateConsole, AcquireHandles, BeginPrelaunch,
         EndPrelaunch, CreateProcess, RetireHandles, InspectProcess, LaunchTerminate,
         LaunchWait, LaunchClose, LaunchFreeConsole, LaunchRelease, Results
    <3>3. PipesInv' BY <1>1, <2>2, PipesLaunch
    <3>4. CallsInv' BY <1>1, <1>2, <3>1, <3>2, CallsOthers
    <3>5. AllKnow' BY <1>1, <1>4, <2>1, <3>1, KnowsLaunch, StarterAlone, AllKnowNext
    <3> QED BY <3>3, <3>4, <3>5
  <2>3. CASE SessionStart
    <3>1. PipesInv' BY <1>1, <2>1, <2>3, PipesSession
    <3>2. CallsInv' BY <1>1, <1>2, <2>1, <2>3, CallsSession
    <3>3. AllKnow' BY <1>1, <1>4, <2>1, <2>3, KnowsSession, StarterAlone, AllKnowNext
    <3> QED BY <3>1, <3>2, <3>3
  <2> QED BY <1>4, <2>2, <2>3 DEF StarterStep, SessionStart
<1>5. ASSUME NEW t \in Threads, CleanupStep(t) PROVE PipesInv' /\ CallsInv' /\ AllKnow'
  <2>1. KnowsInv(t) /\ ClaimedInv(t) /\ ControlInv BY <1>1 DEF AllKnow, SInv
  <2>2. PipesInv' BY <1>1, <1>5, <2>1, PipesCleanup
  <2>3. CallsInv' BY <1>1, <1>2, <1>5, <2>1, CleanupKeeps, CallsOthers
  <2>4. KnowsInv(t)' /\ ClaimedInv(t)'
    BY <1>1, <1>5, <2>1, KnowsCancel, KnowsJoin, KnowsGraceful, KnowsForced, KnowsClosing
       DEF CleanupStep, Graceful, ForcedStep, Closing
  <2>5. AllKnow' BY <1>1, <1>5, <2>4, CleanupAlone, AllKnowNext
  <2> QED BY <2>2, <2>3, <2>5
<1>6. ASSUME NEW t \in Closers, Abort(t) \/ Shutdown(t)
      PROVE  PipesInv' /\ CallsInv' /\ AllKnow'
  <2>1. t \in Threads /\ t # Starter BY <1>6, ThreadsAssumption
  <2>2. UNCHANGED <<native, managed, attached, adopted, step, cancelling>>
    BY <1>6 DEF Abort, Shutdown, Claim, Claimed, NoHandles, NoReaders, readerVars, cancelVars
  <2>3. \A u \in Threads : u # t => pc'[u] = pc[u] /\ loc'[u] = loc[u]
    BY <1>1, <1>6, <2>1
       DEF Abort, Shutdown, Claim, Goto, Returns, SInv, ControlInv
  <2>4. UNCHANGED result \/ Returns(t, "invalid") BY <1>6 DEF Abort, Shutdown, Claim
  <2>5. PipesInv'
    BY <1>1, <2>1, <2>2, <2>3, ThreadsAssumption, PipesStand
  <2>6. CallsInv' BY <1>1, <1>2, <2>1, <2>2, <2>4, CallsOthers DEF Results
  <2>7. AllKnow'
    <3>1. Alone(t) BY <2>2, <2>3 DEF Alone
    <3>2. KnowsInv(t)' /\ ClaimedInv(t)' BY <1>1, <1>6, KnowsCalls
    <3> QED BY <1>1, <2>1, <3>1, <3>2, AllKnowNext
  <2> QED BY <2>5, <2>6, <2>7
<1>7. CASE (\E r \in Streams : ReaderRuns(r)) \/ ProcessesEnd \/ UNCHANGED vars
  <2>1. UNCHANGED <<native, managed, attached, adopted, result, pc, loc>>
    BY <1>7 DEF ReaderRuns, ProcessesEnd, vars, startVars, sessionVars
  <2>2. UNCHANGED cancelling
    <3>1. ASSUME NEW r \in Streams, ReaderRuns(r) PROVE UNCHANGED cancelling
      <4>1. ReaderStep(r) BY <3>1 DEF ReaderRuns, ReaderStep
      <4> QED BY <4>1, ReaderKeepsCalls
    <3> QED BY <1>7, <3>1 DEF ProcessesEnd, vars, logVars, cancelVars
  <2>3. attached \/ UNCHANGED step
    <3>1. ASSUME NEW r \in Streams, ReaderRuns(r) PROVE attached
      <4>1. step[r] # "created"
        BY <3>1 DEF ReaderRuns, OpenThread, OpenFails, PublishThread, CheckCancelled,
           ObserveCancel, IssueRead, ReadData, ReadEof, ReadAborted, ReadFails,
           WithdrawThread, CloseThread, Move
      <4> QED BY <1>1, <4>1 DEF PipesInv
    <3> QED BY <1>7, <3>1 DEF ProcessesEnd, vars, logVars, readerVars
  <2>4. PipesInv' BY <1>1, <2>1, <2>3, PipesStand
  <2>5. CallsInv' BY <1>1, <1>2, <2>1, CallsOthers
  <2>6. AllKnow'
    BY <1>1, <2>1, <2>2, CallsAtReaders, OthersKeep DEF AllKnow
  <2> QED BY <2>4, <2>5, <2>6
<1> QED BY <1>4, <1>5, <1>6, <1>7 DEF Next, ThreadStep, AllEnded

(* No ReadFile is issued, or still pending, on a pipe whose handle has been     *)
(* closed: a pipe is closed only when its reader has stopped reading for good,  *)
(* or has not started and will find its flag set, or has been attached never.   *)
THEOREM PipesOutliveReads == Spec => []NoReadOnClosedPipe
<1>1. Init => WholeInv BY WholeInit
<1>2. WholeInv /\ [Next]_vars => WholeInv' BY WholeNext
<1>3. WholeInv => NoReadOnClosedPipe
  BY DEF WholeInv, ReadInv, PipesInv, Quiet, NoReadOnClosedPipe
<1> QED BY <1>1, <1>2, <1>3, PTL DEF Spec

-----------------------------------------------------------------------------
(* Evidence.                                                                   *)

\* The root has ended by itself with code 0, and no process is left; both
\* readers are through, and have read to the end.
Gone == live = {} /\ exit_code = "zero"
Finished == \A r \in Streams : step[r] = "finished"
Complete == Finished /\ (mode # "raw" => \A r \in Streams : outcome[r] = "eof")

ForcedKinds == {"start", "abort", "forced"}
Verifying == {"verify", "verifying", "claim_probe"}
ClosingPlaces == {"close", "release", "report"}

ExitInv ==
    /\ exit_code # "none" => pc[Starter] \notin Before
    /\ "root" \in live => exit_code = "none"

\* What a thread has seen of the end on its way to evidence; all who close by
\* force have a kind that says so.
EarnedInv(t) ==
    /\ pc[t] \in {"join", "job"} => exit_code = "zero"
    /\ pc[t] \in Verifying => Gone
    /\ pc[t] \in ForcedPlaces => loc[t].kind \in ForcedKinds
    /\ pc[t] \in ClosingPlaces => loc[t].kind \in ForcedKinds \/ (Gone /\ Finished)
    /\ result[t] = "evidence" => Gone /\ Complete

EvidenceInv ==
    /\ ExitInv
    /\ lease \in {"verifying", "verified"} => Gone
    /\ \A t \in Threads : EarnedInv(t)

\* What stays, whoever steps.
EndStays ==
    /\ exit_code = "zero" => exit_code' = "zero"
    /\ Gone => Gone'
    /\ Finished => Finished'
    /\ Complete => Complete'

(* What a finished reader has come to is final.                                *)
LEMMA OutcomeLasts ==
    ASSUME ReaderTypeOK, [ReaderNext]_logVars, NEW r \in Streams, step[r] = "finished"
    PROVE  outcome'[r] = outcome[r]
<1>1. ASSUME NEW q \in Streams, StartReader(q) \/ ReaderStep(q) PROVE outcome'[r] = outcome[r]
  <2>1. step[q] # "finished" /\ \A p \in Streams : p # q => outcome'[p] = outcome[p]
    <3> USE DEF ReaderTypeOK, Move
    <3>1. CASE StartReader(q) BY <3>1 DEF StartReader
    <3>2. CASE OpenThread(q) BY <3>2 DEF OpenThread
    <3>3. CASE OpenFails(q) BY <3>3 DEF OpenFails
    <3>4. CASE PublishThread(q) BY <3>4 DEF PublishThread
    <3>5. CASE CheckCancelled(q) BY <3>5 DEF CheckCancelled
    <3>6. CASE ObserveCancel(q) BY <3>6 DEF ObserveCancel, DrainFails
    <3>7. CASE IssueRead(q) BY <3>7 DEF IssueRead
    <3>8. CASE \E news \in {"nothing", "port", "malformed"} : ReadData(q, news)
      BY <3>8 DEF ReadData
    <3>9. CASE ReadEof(q) BY <3>9 DEF ReadEof
    <3>10. CASE ReadAborted(q) BY <3>10 DEF ReadAborted, DrainFails
    <3>11. CASE ReadFails(q) BY <3>11 DEF ReadFails, DrainFails
    <3>12. CASE WithdrawThread(q) BY <3>12 DEF WithdrawThread
    <3>13. CASE \E ok \in BOOLEAN : CloseThread(q, ok) BY <3>13 DEF CloseThread
    <3> QED
      BY <1>1, <3>1, <3>2, <3>3, <3>4, <3>5, <3>6, <3>7, <3>8, <3>9, <3>10, <3>11, <3>12, <3>13
         DEF ReaderStep
  <2> QED BY <2>1
<1>2. ASSUME NEW t \in Threads, NEW q \in Streams, NEW zero \in BOOLEAN, EnterCancel(t, q, zero)
      PROVE  UNCHANGED outcome
  BY <1>2 DEF EnterCancel, CancelReplay, CancelFollow, CancelLead, readerVars
<1>3. ASSUME NEW t \in Threads, CancelStep(t) \/ CancelReturn(t) PROVE UNCHANGED outcome
  BY <1>3 DEF CancelStep, CancelUnregistered, CancelPending, CancelMissed, CancelGivesUp,
     CancelConclude, CancelFollowed, CancelReturn, Decide, readerVars
<1>4. CASE Launch \/ Exit \/ FailRouter \/ UNCHANGED logVars
  BY <1>4 DEF Launch, Exit, FailRouter, logVars, readerVars
<1> QED BY <1>1, <1>2, <1>3, <1>4, ZenonT(60) DEF ReaderNext

(* Only the creation of the process and the end of processes change which run, *)
(* and no step goes back to before the creation.                               *)
LEMMA RunChanges ==
    ASSUME SInv, [Next]_vars
    PROVE  /\ UNCHANGED <<live, exit_code>> \/ CreateProcess \/ ProcessesEnd
           /\ pc'[Starter] \in Before => pc[Starter] \in Before
           /\ CreateProcess => UNCHANGED exit_code /\ pc[Starter] = "create"
           /\ ProcessesEnd => UNCHANGED pc
<1>0. Starter \in Threads /\ ControlInv BY ThreadsAssumption DEF SInv
<1>1. CreateProcess => UNCHANGED exit_code /\ pc[Starter] = "create"
  BY DEF CreateProcess, At
<1>2. ProcessesEnd => UNCHANGED pc BY DEF ProcessesEnd
<1>3. CASE LaunchStep
  <2>1. UNCHANGED <<live, exit_code>> \/ CreateProcess
    BY <1>3 DEF LaunchStep, StartStep, ClaimLease, AllocateConsole, AcquireHandles,
       BeginPrelaunch, EndPrelaunch, RetireHandles, InspectProcess, LaunchTerminate,
       LaunchWait, LaunchClose, LaunchFreeConsole, LaunchRelease
  <2>2. \A p, m : Goto(Starter, p, m) => pc'[Starter] = p BY <1>0 DEF ControlInv, Goto
  <2>3. \A c : FailStart(c) => pc'[Starter] \in {"launch_terminate", "launch_close"}
    BY <2>2 DEF FailStart
  <2>4. \A r : Returns(Starter, r) => pc'[Starter] = "done" BY <1>0 DEF ControlInv, Returns
  <2>5. pc'[Starter] \in Before => pc[Starter] \in Before
    BY <1>3, <2>2, <2>3, <2>4 DEF LaunchStep, StartStep, ClaimLease, AllocateConsole,
       AcquireHandles, BeginPrelaunch, EndPrelaunch, CreateProcess, RetireHandles,
       InspectProcess, LaunchTerminate, LaunchWait, LaunchClose, LaunchFreeConsole,
       LaunchRelease, Before, At
  <2> QED BY <1>1, <1>2, <2>1, <2>5
<1>4. CASE SessionStart
  <2>1. UNCHANGED <<live, exit_code>>
    BY <1>4 DEF SessionStart, AttachReaders, StartReaders, StartReader, FailReaders, FailRouter,
       PollStartup, RecheckStartup, BindSession, Unwind, NoLaunch
  <2>2. \A p, m : Goto(Starter, p, m) => pc'[Starter] = p BY <1>0 DEF ControlInv, Goto
  <2>3. \A r : Returns(Starter, r) => pc'[Starter] = "done" BY <1>0 DEF ControlInv, Returns
  <2>4. pc'[Starter] \notin Before
    BY <1>4, <2>2, <2>3 DEF SessionStart, AttachReaders, StartFails, StartReaders, FailReaders,
       PollStartup, RecheckStartup, BindSession, Unwind, Step, Before
  <2> QED BY <1>1, <1>2, <2>1, <2>4
<1>5. ASSUME NEW t \in Threads, CleanupStep(t)
      PROVE  /\ UNCHANGED <<live, exit_code>>
             /\ pc'[Starter] \in Before => pc[Starter] \in Before
  <2>1. UNCHANGED exit_code
    BY <1>5 DEF CleanupStep, BeginCancel, ContinueCancel, EndCancel, AllCancelled,
       JoinReader, AllJoined, SignalRoot, UndoSignal, WaitRoot, RestoreAndExamine,
       AwaitEmptyJob, BeginVerify, EndVerify, ClaimProbe, CloseManaged, FreeConsole,
       ReleaseManaged, Report, ShutdownFailed, ForcedTerminate, ForcedWait, ForcedRestore,
       ForcedJob, NoLaunch
  <2>2. UNCHANGED live
    <3>1. CASE BeginCancel(t)
      BY <3>1 DEF BeginCancel, EnterCancel, CancelReplay, CancelFollow, CancelLead
    <3>2. CASE ContinueCancel(t)
      BY <3>2 DEF ContinueCancel, CancelStep, CancelUnregistered, CancelPending, CancelMissed,
         CancelGivesUp, CancelConclude, CancelFollowed
    <3>3. CASE EndCancel(t) BY <3>3 DEF EndCancel, CancelReturn
    <3> QED
      BY <1>5, <3>1, <3>2, <3>3 DEF CleanupStep, AllCancelled, JoinReader, AllJoined, SignalRoot,
         UndoSignal, WaitRoot, RestoreAndExamine, AwaitEmptyJob, BeginVerify, EndVerify,
         ClaimProbe, CloseManaged, FreeConsole, ReleaseManaged, Report, ShutdownFailed,
         ForcedTerminate, ForcedWait, ForcedRestore, ForcedJob
  <2>3. pc'[Starter] \in Before => pc[Starter] \in Before
    BY <1>0, <1>5, CleanupMoves DEF MovesOnly, Launched, Launching
  <2> QED BY <2>1, <2>2, <2>3
<1>6. ASSUME NEW t \in Closers, Abort(t) \/ Shutdown(t)
      PROVE  UNCHANGED <<live, exit_code>> /\ pc'[Starter] = pc[Starter]
  <2>1. t \in Threads /\ t # Starter BY <1>6, ThreadsAssumption
  <2> QED BY <1>0, <1>6, <2>1 DEF Abort, Shutdown, Claim, NoLaunch, Goto, Returns, ControlInv
<1>7. CASE (\E r \in Streams : ReaderRuns(r)) \/ UNCHANGED vars
  <2>1. UNCHANGED <<pc, exit_code>> BY <1>7 DEF ReaderRuns, vars, startVars
  <2>2. UNCHANGED live
    BY <1>7 DEF ReaderRuns, OpenThread, OpenFails, PublishThread, CheckCancelled,
       ObserveCancel, IssueRead, ReadData, ReadEof, ReadAborted, ReadFails, DrainFails,
       WithdrawThread, CloseThread, vars, logVars
  <2> QED BY <1>1, <1>2, <2>1, <2>2
<1>8. CASE StarterStep BY <1>3, <1>4, <1>8 DEF StarterStep, SessionStart
<1> QED
  BY <1>1, <1>2, <1>5, <1>6, <1>7, <1>8 DEF Next, ThreadStep, AllEnded

(* Who has started the process is settled once.                                *)
LEMMA ModeStays == ASSUME [Next]_vars PROVE UNCHANGED mode
<1>1. CASE LaunchStep BY <1>1 DEF LaunchStep, sessionVars
<1>2. CASE SessionStart
  BY <1>2 DEF SessionStart, AttachReaders, StartReaders, FailReaders, PollStartup,
     RecheckStartup, BindSession, Unwind, NoLaunch
<1>3. ASSUME NEW t \in Threads, CleanupStep(t) PROVE UNCHANGED mode
  BY <1>3 DEF CleanupStep, BeginCancel, ContinueCancel, EndCancel, AllCancelled,
     JoinReader, AllJoined, SignalRoot, UndoSignal, WaitRoot, RestoreAndExamine,
     AwaitEmptyJob, BeginVerify, EndVerify, ClaimProbe, CloseManaged, FreeConsole,
     ReleaseManaged, Report, ShutdownFailed, ForcedTerminate, ForcedWait, ForcedRestore,
     ForcedJob, NoLaunch
<1>4. CASE (\E r \in Streams : ReaderRuns(r)) \/ ProcessesEnd \/ UNCHANGED vars
  BY <1>4 DEF ReaderRuns, ProcessesEnd, vars, sessionVars
<1>5. ASSUME NEW t \in Closers, Abort(t) \/ Shutdown(t) PROVE UNCHANGED mode
  BY <1>5 DEF Abort, Shutdown, Claim, NoLaunch
<1> QED
  BY <1>1, <1>2, <1>3, <1>4, <1>5 DEF Next, ThreadStep, StarterStep, SessionStart, AllEnded

LEMMA EndLasts ==
    ASSUME SInv, Lasts, ExitInv, [Next]_vars
    PROVE  EndStays /\ ExitInv'
<1>1. BeforeInv /\ ReaderTypeOK /\ [ReaderNext]_logVars BY StepIsReaders DEF SInv
<1>2. Finished => Finished' BY DEF Lasts, Finished
<1>3. Complete => Complete' BY <1>1, <1>2, OutcomeLasts, ModeStays DEF Complete, Finished
<1>4. CASE UNCHANGED <<live, exit_code>>
  BY <1>2, <1>3, <1>4, RunChanges DEF EndStays, Gone, ExitInv
<1>5. CASE CreateProcess
  <2>1. exit_code = "none" /\ exit_code' = "none"
    BY <1>5, RunChanges DEF ExitInv, Before
  <2> QED BY <1>2, <1>3, <2>1 DEF EndStays, Gone, ExitInv
<1>6. CASE ProcessesEnd
  <2>1. live # {} /\ live' \in SUBSET live BY <1>6 DEF ProcessesEnd
  <2>2. pc'[Starter] \notin Before BY <1>1, <1>6, <2>1, RunChanges DEF BeforeInv
  <2>3. "root" \in live' => exit_code' = "none"
    BY <1>6, <2>1 DEF ProcessesEnd, ExitInv
  <2>4. exit_code = "zero" => exit_code' = "zero" BY <1>6 DEF ProcessesEnd, ExitInv
  <2> QED BY <1>2, <1>3, <2>1, <2>2, <2>3, <2>4 DEF EndStays, Gone, ExitInv
<1> QED BY <1>4, <1>5, <1>6, RunChanges


(* What a thread has seen stays true as long as it does not move.              *)
LEMMA EarnedStands ==
    ASSUME EndStays, NEW u \in Threads, EarnedInv(u),
           pc'[u] = pc[u], loc'[u] = loc[u], result'[u] = result[u]
    PROVE  EarnedInv(u)'
BY DEF EndStays, EarnedInv

LEMMA EarnedMoves ==
    ASSUME ControlInv, EndStays, NEW t \in Threads, EarnedInv(t), NEW p, NEW m,
           Goto(t, p, m), UNCHANGED result,
           p \in {"join", "job"} => exit_code = "zero",
           p \in Verifying => Gone,
           p \in ForcedPlaces => m.kind \in ForcedKinds,
           p \in ClosingPlaces => m.kind \in ForcedKinds \/ (Gone /\ Finished)
    PROVE  EarnedInv(t)'
<1>1. pc'[t] = p /\ loc'[t] = m BY DEF ControlInv, Goto
<1> QED BY <1>1 DEF EndStays, EarnedInv

LEMMA EarnedReturns ==
    ASSUME ControlInv, CallsInv, EndStays, NEW t \in Threads, NEW r, Returns(t, r),
           r = "evidence" => Gone /\ Complete
    PROVE  EarnedInv(t)'
<1>1. pc'[t] = "done" /\ result'[t] = r BY DEF ControlInv, CallsInv, Returns
<1> QED BY <1>1 DEF EndStays, EarnedInv, Verifying, ForcedPlaces, ClosingPlaces

\* Where nothing is asked of a thread.
Unearned == {"unwind", "shutdown_failed", "start_reader", "start_failed", "start_cancel",
             "start_join", "poll", "adopt", "bind", "signal", "unsignal", "wait", "restore"}

LEMMA EarnedElsewhere ==
    ASSUME ControlInv, EndStays, NEW t \in Threads, EarnedInv(t), NEW p, NEW m,
           Goto(t, p, m), UNCHANGED result, p \in Unearned
    PROVE  EarnedInv(t)'
<1>1. p \notin {"join", "job"} \cup Verifying \cup ForcedPlaces \cup ClosingPlaces
  BY DEF Unearned, Verifying, ForcedPlaces, ClosingPlaces
<1> QED BY <1>1, EarnedMoves

LEMMA EarnedFails ==
    ASSUME ControlInv, EndStays, NEW t \in Threads, EarnedInv(t), NEW c,
           Fails(t, c), UNCHANGED result
    PROVE  EarnedInv(t)'
BY EarnedElsewhere DEF Fails, Unearned

(* The graceful path: the code is looked at before the readers are joined, and *)
(* the Job before the files are verified.                                      *)
LEMMA EarnedGraceful ==
    ASSUME ControlInv, EndStays, NEW t \in Threads, EarnedInv(t), KnowsInv(t), Graceful(t)
    PROVE  EarnedInv(t)'
<1> DEFINE l == loc[t]
<1>1. UNCHANGED result
  BY DEF Graceful, SignalRoot, UndoSignal, WaitRoot, RestoreAndExamine, AwaitEmptyJob,
     BeginVerify, EndVerify, ClaimProbe
<1>2. \A c : Fails(t, c) => EarnedInv(t)' BY <1>1, EarnedFails
<1>3. CloseGracefully(t) /\ Gone /\ Finished => EarnedInv(t)'
  <2>1. CloseGracefully(t) => \E m : Goto(t, "close", m) BY DEF CloseGracefully
  <2>2. "close" \notin {"join", "job"} \cup Verifying \cup ForcedPlaces
    BY DEF Verifying, ForcedPlaces
  <2> QED BY <1>1, <2>1, <2>2, EarnedMoves
<1>4. CASE SignalRoot(t) \/ UndoSignal(t) \/ WaitRoot(t)
  <2>1. Goto(t, "wait", l) \/ Goto(t, "unsignal", l) \/ Goto(t, "restore", l) \/ \E c : Fails(t, c)
    BY <1>4 DEF SignalRoot, UndoSignal, WaitRoot, Step
  <2> QED BY <1>1, <1>2, <2>1, EarnedElsewhere DEF Unearned
<1>5. CASE RestoreAndExamine(t)
  <2>1. \/ exit_code = "zero" /\ \E m : Goto(t, "join", m)
        \/ \E c : Fails(t, c)
    BY <1>5 DEF RestoreAndExamine
  <2>2. "join" \notin Verifying \cup ForcedPlaces \cup ClosingPlaces
    BY DEF Verifying, ForcedPlaces, ClosingPlaces
  <2> QED BY <1>1, <1>2, <2>1, <2>2, EarnedMoves
<1>6. CASE AwaitEmptyJob(t) \/ BeginVerify(t)
  <2>1. \/ Gone /\ \E p \in {"verify", "verifying"} : Goto(t, p, l)
        \/ \E c : Fails(t, c)
    BY <1>6 DEF AwaitEmptyJob, BeginVerify, Step, At, EarnedInv, Gone, Verifying
  <2>2. {"verify", "verifying"} \cap ({"join", "job"} \cup ForcedPlaces \cup ClosingPlaces) = {}
    BY DEF ForcedPlaces, ClosingPlaces
  <2> QED BY <1>1, <1>2, <2>1, <2>2, EarnedMoves
<1>7. CASE EndVerify(t)
  <2>1. Gone /\ Finished
    BY <1>7 DEF EndVerify, At, EarnedInv, Verifying, KnowsInv, Ended, Finished
  <2>2. Goto(t, "claim_probe", l) \/ CloseGracefully(t) \/ \E c : Fails(t, c)
    BY <1>7 DEF EndVerify
  <2>3. "claim_probe" \notin {"join", "job"} \cup ForcedPlaces \cup ClosingPlaces
    BY DEF ForcedPlaces, ClosingPlaces
  <2> QED BY <1>1, <1>2, <1>3, <2>1, <2>2, <2>3, EarnedMoves
<1>8. CASE ClaimProbe(t)
  BY <1>3, <1>8 DEF ClaimProbe, At, EarnedInv, Verifying, KnowsInv, Ended, Finished
<1> QED BY <1>4, <1>5, <1>6, <1>7, <1>8 DEF Graceful

(* The loops over the readers, and the forced cleanup.                         *)
LEMMA EarnedForced ==
    ASSUME ControlInv, CallsInv, EndStays, NEW t \in Threads, EarnedInv(t),
           \/ BeginCancel(t) \/ ContinueCancel(t) \/ EndCancel(t) \/ AllCancelled(t)
           \/ JoinReader(t) \/ AllJoined(t) \/ ForcedStep(t)
    PROVE  EarnedInv(t)'
<1> DEFINE l == loc[t]
<1>0. l \in LocalsSet /\ \A p, m : Goto(t, p, m) => pc'[t] = p /\ loc'[t] = m
  BY DEF ControlInv, Goto
<1>1. \A c : Fails(t, c) /\ UNCHANGED result => EarnedInv(t)' BY EarnedFails
<1>2. CASE ContinueCancel(t) BY <1>2, EarnedStands DEF ContinueCancel
\* Going round a loop, or on in the forced cleanup.
<1>3. ASSUME NEW p \in {"start_cancel", "start_join"} \cup ForcedPlaces \cup {"join", "job", "close"},
             pc'[t] = p, loc'[t].kind = l.kind, UNCHANGED result,
             p \in {"join", "job"} => pc[t] = "join",
             p \in ForcedPlaces \cup {"close"} => pc[t] \in ForcedPlaces
      PROVE  EarnedInv(t)'
  <2>1. p \notin Verifying BY DEF ForcedPlaces, Verifying
  <2>2. p \in {"join", "job"} => exit_code = "zero" BY <1>3 DEF EarnedInv
  <2>3. p \in ClosingPlaces => p = "close" BY DEF ForcedPlaces, ClosingPlaces
  <2>4. p \in ForcedPlaces \cup {"close"} => loc'[t].kind \in ForcedKinds BY <1>3 DEF EarnedInv
  <2> QED BY <1>3, <2>1, <2>2, <2>3, <2>4 DEF EndStays, EarnedInv
<1>4. CASE BeginCancel(t) \/ EndCancel(t)
  <2>1. /\ pc[t] \in CancelPlaces /\ UNCHANGED result
        /\ pc'[t] = pc[t] /\ loc'[t].kind = l.kind
    <3>1. CASE BeginCancel(t)
      <4>1. PICK zero \in BOOLEAN : Goto(t, pc[t], [l EXCEPT !.failed = @ \/ zero])
        BY <3>1 DEF BeginCancel
      <4>2. [l EXCEPT !.failed = @ \/ zero].kind = l.kind BY <1>0 DEF LocalsSet
      <4> QED BY <1>0, <3>1, <4>1, <4>2 DEF BeginCancel
    <3>2. CASE EndCancel(t)
      <4> DEFINE m == [l EXCEPT !.todo = Tail(@), !.failed = @ \/ cancelling[t].at = "failed"]
      <4>1. Goto(t, pc[t], m) /\ UNCHANGED result BY <3>2 DEF EndCancel
      <4>2. m.kind = l.kind BY <1>0 DEF LocalsSet
      <4>3. pc[t] \in CancelPlaces
        BY <3>2 DEF EndCancel, CancelReturn, CancelReturned, ControlInv
      <4> HIDE DEF m
      <4> QED BY <1>0, <4>1, <4>2, <4>3
    <3> QED BY <1>4, <3>1, <3>2
  <2> QED BY <1>3, <2>1 DEF CancelPlaces, ForcedPlaces
<1>5. CASE AllCancelled(t)
  <2>1. /\ UNCHANGED result
        /\ \/ pc'[t] = "start_join" /\ loc'[t].kind = l.kind
           \/ pc[t] = "forced_cancel" /\ pc'[t] = "forced_wait" /\ loc'[t] = l
    BY <1>0, <1>5 DEF AllCancelled, Step, At, LocalsSet
  <2> QED BY <1>3, <2>1 DEF ForcedPlaces
<1>6. CASE JoinReader(t)
  <2>1. /\ UNCHANGED result
        /\ \/ pc[t] \in JoinPlaces /\ pc'[t] = pc[t] /\ loc'[t].kind = l.kind
           \/ \E c : Fails(t, c)
    <3> DEFINE next == [l EXCEPT !.todo = Tail(@)]
               bad == [next EXCEPT !.failed = TRUE]
               left == [bad EXCEPT !.joined = FALSE]
    <3>1. next.kind = l.kind /\ bad.kind = l.kind /\ left.kind = l.kind BY <1>0 DEF LocalsSet
    <3>2. \/ pc[t] \in JoinPlaces /\ \E m \in {next, bad, left} : Goto(t, pc[t], m)
          \/ \E c : Fails(t, c)
      BY <1>6 DEF JoinReader, JoinPlaces
    <3> HIDE DEF next, bad, left
    <3> QED BY <1>0, <1>6, <3>1, <3>2 DEF JoinReader
  <2> QED BY <1>1, <1>3, <2>1 DEF JoinPlaces, ForcedPlaces
<1>7. CASE AllJoined(t)
  <2>1. CASE At(t, "start_join") /\ StartFails(l)
    <3>1. t = Starter BY <2>1 DEF At, ControlInv, StarterPlaces
    <3>2. \/ \E r \in {"cleanup_failed", "error"} : Returns(t, r)
          \/ UNCHANGED result /\ \E m : Goto(t, "unwind", m)
      BY <2>1, <3>1 DEF StartFails
    <3> QED BY <3>2, EarnedReturns, EarnedElsewhere DEF Unearned
  <2>2. CASE UNCHANGED result /\ Step(t, "forced_join", "forced_job", l)
    BY <1>0, <1>3, <2>2 DEF Step, At, ForcedPlaces
  <2>3. CASE UNCHANGED result /\ At(t, "join") /\ Goto(t, "job", l)
    BY <1>0, <1>3, <2>3 DEF At, ForcedPlaces
  <2>4. CASE UNCHANGED result /\ \E c : Fails(t, c) BY <1>1, <2>4
  <2> QED BY <1>7, <2>1, <2>2, <2>3, <2>4 DEF AllJoined
<1>8. CASE ForcedStep(t)
  <2>1. /\ UNCHANGED result /\ pc[t] \in ForcedPlaces
        /\ pc'[t] \in ForcedPlaces \cup {"close"} /\ loc'[t].kind = l.kind
    <3>1. CASE ForcedTerminate(t)
      BY <1>0, <3>1 DEF ForcedTerminate, Tried, Step, At, ForcedPlaces, LocalsSet
    <3>2. CASE ForcedWait(t)
      BY <1>0, <3>2 DEF ForcedWait, Tried, Step, At, ForcedPlaces, LocalsSet
    <3>3. CASE ForcedRestore(t)
      BY <1>0, <3>3 DEF ForcedRestore, Tried, Step, At, ForcedPlaces, LocalsSet
    <3>4. CASE ForcedJob(t)
      <4> DEFINE pipes == IF l.joined THEN <<"stderr", "stdout">> ELSE <<>>
                 closing == [l EXCEPT !.todo = <<"process">> \o pipes \o <<"job">>,
                                      !.clean = ~uncertain /\ ~ctrl_c /\ l.joined]
                 empty == [closing EXCEPT !.empty = TRUE]
                 late == [closing EXCEPT !.failed = TRUE]
      <4>1. empty.kind = l.kind /\ late.kind = l.kind BY <1>0 DEF LocalsSet
      <4>2. pc[t] = "forced_job" /\ (Goto(t, "close", empty) \/ Goto(t, "close", late))
        BY <3>4 DEF ForcedJob, Tried, Step, At
      <4> HIDE DEF empty, late
      <4> QED BY <1>0, <3>4, <4>1, <4>2 DEF ForcedJob, ForcedPlaces
    <3> QED BY <1>8, <3>1, <3>2, <3>3, <3>4 DEF ForcedStep
  <2> QED BY <1>3, <2>1 DEF ForcedPlaces
<1> QED BY <1>2, <1>4, <1>5, <1>6, <1>7, <1>8

(* The end of the two ways.                                                    *)
LEMMA EarnedClosing ==
    ASSUME ControlInv, CallsInv, EndStays, NEW t \in Threads, EarnedInv(t), Closing(t)
    PROVE  EarnedInv(t)'
<1> DEFINE l == loc[t]
<1>0. l \in LocalsSet /\ \A p, m : Goto(t, p, m) => pc'[t] = p /\ loc'[t] = m
  BY DEF ControlInv, Goto
<1>1. ASSUME pc[t] \in ClosingPlaces, pc'[t] \in ClosingPlaces, loc'[t].kind = l.kind,
             UNCHANGED result
      PROVE  EarnedInv(t)'
  <2>1. pc'[t] \notin {"join", "job"} \cup Verifying \cup ForcedPlaces
    BY <1>1 DEF ClosingPlaces, Verifying, ForcedPlaces
  <2>2. loc'[t].kind \in ForcedKinds \/ (Gone /\ Finished) BY <1>1 DEF EarnedInv
  <2> QED BY <1>1, <2>1, <2>2 DEF EndStays, EarnedInv
<1>2. CASE CloseManaged(t) \/ FreeConsole(t) \/ ReleaseManaged(t)
  <2>1. /\ UNCHANGED result /\ pc[t] \in ClosingPlaces
        /\ pc'[t] \in ClosingPlaces /\ loc'[t].kind = l.kind
    <3>1. CASE CloseManaged(t) BY <1>0, <3>1 DEF CloseManaged, At, ClosingPlaces, LocalsSet
    <3>2. CASE FreeConsole(t) BY <1>0, <3>2 DEF FreeConsole, At, ClosingPlaces, LocalsSet
    <3>3. CASE ReleaseManaged(t) BY <1>0, <3>3 DEF ReleaseManaged, At, ClosingPlaces, LocalsSet
    <3> QED BY <1>2, <3>1, <3>2, <3>3
  <2> QED BY <1>1, <2>1
<1>3. CASE Report(t)
  <2>1. pc[t] \in ClosingPlaces BY <1>3 DEF Report, At, ClosingPlaces
  <2>2. \/ \E r \in Results \ {"evidence"} : Returns(t, r)
        \/ /\ ~Forced(t) /\ (mode # "raw" => \A r \in Streams : outcome[r] = "eof")
           /\ Returns(t, "evidence")
        \/ UNCHANGED result /\ Goto(t, "shutdown_failed", l)
    BY <1>3 DEF Report, Results
  <2>3. ~Forced(t) => Gone /\ Finished BY <2>1 DEF EarnedInv, Forced, ForcedKinds
  <2>4. CASE \E r \in Results \ {"evidence"} : Returns(t, r) BY <2>4, EarnedReturns
  <2>5. CASE /\ ~Forced(t) /\ (mode # "raw" => \A r \in Streams : outcome[r] = "eof")
             /\ Returns(t, "evidence")
    BY <2>3, <2>5, EarnedReturns DEF Complete
  <2>6. CASE UNCHANGED result /\ Goto(t, "shutdown_failed", l)
    BY <2>6, EarnedElsewhere DEF Unearned
  <2> QED BY <2>2, <2>4, <2>5, <2>6
<1>4. CASE ShutdownFailed(t)
  <2>1. CASE Returns(t, "cleanup_failed") BY <2>1, EarnedReturns
  <2>2. CASE UNCHANGED result /\ Goto(t, "forced_terminate", [Locals("forced") EXCEPT !.code = l.code])
    <3>1. [Locals("forced") EXCEPT !.code = l.code].kind = "forced" BY DEF Locals
    <3>2. "forced_terminate" \notin {"join", "job"} \cup Verifying \cup ClosingPlaces
      BY DEF Verifying, ClosingPlaces
    <3> QED BY <2>2, <3>1, <3>2, EarnedMoves DEF ForcedKinds
  <2> QED BY <1>4, <2>1, <2>2 DEF ShutdownFailed
<1> QED BY <1>2, <1>3, <1>4 DEF Closing

(* A start, and a call that begins.                                            *)
LEMMA EarnedStart ==
    ASSUME ControlInv, CallsInv, EndStays, EarnedInv(Starter), StarterStep
    PROVE  EarnedInv(Starter)'
<1>0. Starter \in Threads BY ThreadsAssumption
<1>1. CASE LaunchStep
  <2>1. \/ \E r \in Results \ {"evidence"} : Returns(Starter, r)
        \/ UNCHANGED result /\ \E p \in Launched : \E m :
               Goto(Starter, p, m)
    <3>1. \A c : FailStart(c) => \E p \in {"launch_terminate", "launch_close"} : \E m :
               Goto(Starter, p, m)
      BY DEF FailStart
    <3>2. {"console", "acquire", "prelaunch", "verify_launch", "create", "retire", "inspect",
           "launch_terminate", "launch_wait", "launch_close", "launch_console",
           "launch_release", "managed"} \subseteq Launched
      BY DEF Launched, Launching, Before
    <3>3. CASE LaunchRelease BY <3>3 DEF LaunchRelease, Results
    <3>4. CASE ~LaunchRelease
      BY <1>1, <3>1, <3>2, <3>4 DEF LaunchStep, StartStep, ClaimLease, AllocateConsole,
         AcquireHandles, BeginPrelaunch, EndPrelaunch, CreateProcess, RetireHandles,
         InspectProcess, LaunchTerminate, LaunchWait, LaunchClose, LaunchFreeConsole
    <3> QED BY <3>3, <3>4
  <2>2. \A p \in Launched :
           p \notin {"join", "job"} \cup Verifying \cup ForcedPlaces \cup ClosingPlaces
    BY DEF Launched, Launching, Before, Verifying, ForcedPlaces, ClosingPlaces
  <2> QED BY <1>0, <2>1, <2>2, EarnedMoves, EarnedReturns
<1>2. CASE SessionStart
  <2>1. \/ \E r \in Results \ {"evidence"} : Returns(Starter, r)
        \/ UNCHANGED result /\ \E p \in Unearned : \E m : Goto(Starter, p, m)
        \/ UNCHANGED result /\ \E m : Goto(Starter, "forced_terminate", m) /\ m.kind = "start"
    <3>1. loc[Starter] \in LocalsSet BY <1>0 DEF ControlInv
    <3>2. CASE Unwind
      <4>1. [loc[Starter] EXCEPT !.kind = "start", !.joined = TRUE].kind = "start"
        BY <3>1 DEF LocalsSet
      <4> QED BY <3>2, <4>1 DEF Unwind, Results
    <3>3. CASE AttachReaders BY <3>3 DEF AttachReaders, StartFails, Results, Unearned
    <3>4. CASE StartReaders BY <3>4 DEF StartReaders, Results, Unearned
    <3>5. CASE FailReaders \/ PollStartup \/ RecheckStartup
      BY <3>5 DEF FailReaders, PollStartup, RecheckStartup, Step, Unearned
    <3>6. CASE BindSession BY <3>6 DEF BindSession, Results, Unearned
    <3> QED BY <1>2, <3>2, <3>3, <3>4, <3>5, <3>6 DEF SessionStart
  <2>2. "forced_terminate" \notin {"join", "job"} \cup Verifying \cup ClosingPlaces
    BY DEF Verifying, ClosingPlaces
  <2>3. CASE UNCHANGED result /\ \E m : Goto(Starter, "forced_terminate", m) /\ m.kind = "start"
    BY <1>0, <2>2, <2>3, EarnedMoves DEF ForcedKinds
  <2> QED BY <1>0, <2>1, <2>3, EarnedElsewhere, EarnedReturns
<1> QED BY <1>1, <1>2 DEF StarterStep, SessionStart

LEMMA EarnedCalls ==
    ASSUME ControlInv, CallsInv, EndStays, NEW t \in Threads, EarnedInv(t),
           Abort(t) \/ Shutdown(t)
    PROVE  EarnedInv(t)'
<1>1. \/ Returns(t, "invalid")
      \/ UNCHANGED result /\ Goto(t, "forced_terminate", Locals("abort"))
      \/ UNCHANGED result /\ Goto(t, "signal", Locals("shutdown"))
  BY DEF Abort, Shutdown, Claim
<1>2. CASE UNCHANGED result /\ Goto(t, "forced_terminate", Locals("abort"))
  <2>1. "forced_terminate" \notin {"join", "job"} \cup Verifying \cup ClosingPlaces
    BY DEF Verifying, ClosingPlaces
  <2> QED BY <1>2, <2>1, EarnedMoves DEF ForcedKinds, Locals
<1> QED BY <1>1, <1>2, EarnedElsewhere, EarnedReturns DEF Unearned

(* The lease is being verified, and verified, only when nothing runs.          *)
LEMMA LeaseChanges ==
    ASSUME EvidenceInv, EndStays, [Next]_vars
    PROVE  lease' \in {"verifying", "verified"} => Gone'
<1>1. lease' \in {lease, "bound", "verifying_launch", "failed", "released"}
        \/ \E t \in Threads : BeginVerify(t) \/ EndVerify(t)
  <2>1. CASE StarterStep
    BY <2>1 DEF StarterStep, LaunchStep, StartStep, ClaimLease, AllocateConsole, AcquireHandles,
       BeginPrelaunch, EndPrelaunch, CreateProcess, RetireHandles, InspectProcess,
       LaunchTerminate, LaunchWait, LaunchClose, LaunchFreeConsole, LaunchRelease, ReleaseLease,
       AttachReaders, StartReaders, FailReaders, PollStartup, RecheckStartup, BindSession, Unwind
  <2>2. ASSUME NEW t \in Threads, CleanupStep(t), ~(BeginVerify(t) \/ EndVerify(t))
        PROVE  lease' \in {lease, "released"}
    BY <2>2 DEF CleanupStep, BeginCancel, ContinueCancel, EndCancel, AllCancelled,
       JoinReader, AllJoined, SignalRoot, UndoSignal, WaitRoot, RestoreAndExamine,
       AwaitEmptyJob, ClaimProbe, CloseManaged, FreeConsole, ReleaseManaged, ReleaseLease,
       Report, ShutdownFailed, ForcedTerminate, ForcedWait, ForcedRestore, ForcedJob
  <2>3. CASE \/ \E t \in Closers : Abort(t) \/ Shutdown(t)
             \/ (\E r \in Streams : ReaderRuns(r)) \/ ProcessesEnd \/ UNCHANGED vars
    BY <2>3 DEF Abort, Shutdown, Claim, ReaderRuns, ProcessesEnd, vars, startVars
  <2> QED BY <2>1, <2>2, <2>3 DEF Next, ThreadStep, AllEnded
<1>2. ASSUME NEW t \in Threads, BeginVerify(t) \/ EndVerify(t) PROVE Gone
  BY <1>2 DEF BeginVerify, EndVerify, Step, At, EvidenceInv, EarnedInv, Verifying
<1> QED BY <1>1, <1>2 DEF EvidenceInv, EndStays

LEMMA EvidenceInit == Init => EvidenceInv
<1> SUFFICES ASSUME Init PROVE EvidenceInv
  OBVIOUS
<1>1. ExitInv BY DEF Init, ReaderInit, ExitInv
<1>2. ASSUME NEW t \in Threads PROVE EarnedInv(t)
  <2>1. pc[t] \in {"claim", "idle"} /\ result[t] = "none" BY DEF Init
  <2> QED BY <2>1 DEF EarnedInv, Verifying, ForcedPlaces, ClosingPlaces
<1> QED BY <1>1, <1>2 DEF Init, EvidenceInv

LEMMA EvidenceNext == ASSUME WholeInv, EvidenceInv, [Next]_vars PROVE EvidenceInv'
<1>1. /\ SInv /\ ControlInv /\ Lasts /\ CallsInv /\ AllKnow
      /\ ExitInv /\ (\A t \in Threads : EarnedInv(t))
  BY LastsNext DEF WholeInv, ReadInv, StartedInv, CallsInv, AllKnow, SInv, EvidenceInv
<1>2. EndStays /\ ExitInv' BY <1>1, EndLasts
<1>3. lease' \in {"verifying", "verified"} => Gone' BY <1>2, LeaseChanges
\* A thread's step keeps what it has earned, and moves nobody else.
<1>4. ASSUME NEW t \in Threads, EarnedInv(t)', UNCHANGED result \/ \E r : Returns(t, r),
             \A u \in Threads : u # t => pc'[u] = pc[u] /\ loc'[u] = loc[u]
      PROVE  \A u \in Threads : EarnedInv(u)'
  <2>1. \A u \in Threads : u # t => result'[u] = result[u]
    BY <1>1, <1>4 DEF Returns, CallsInv
  <2> QED BY <1>1, <1>2, <1>4, <2>1, EarnedStands
<1>5. CASE StarterStep
  <2>1. Starter \in Threads BY ThreadsAssumption
  <2>2. EarnedInv(Starter)' BY <1>1, <1>2, <1>5, <2>1, EarnedStart
  <2>3. UNCHANGED result \/ \E r : Returns(Starter, r)
    BY <1>5 DEF StarterStep, LaunchStep, StartStep, ClaimLease, AllocateConsole,
       AcquireHandles, BeginPrelaunch, EndPrelaunch, CreateProcess, RetireHandles,
       InspectProcess, LaunchTerminate, LaunchWait, LaunchClose, LaunchFreeConsole,
       LaunchRelease, AttachReaders, StartFails, StartReaders, FailReaders, PollStartup,
       RecheckStartup, BindSession, Unwind
  <2>4. Alone(Starter) BY <1>1, <1>5, StarterAlone
  <2> QED BY <1>2, <1>3, <1>4, <2>1, <2>2, <2>3, <2>4 DEF EvidenceInv, Alone
<1>6. ASSUME NEW t \in Threads, CleanupStep(t) PROVE EvidenceInv'
  <2>1. EarnedInv(t) /\ KnowsInv(t) BY <1>1 DEF AllKnow
  <2>2. EarnedInv(t)'
    BY <1>1, <1>2, <1>6, <2>1, EarnedGraceful, EarnedForced, EarnedClosing
       DEF CleanupStep, Graceful, ForcedStep, Closing
  <2>3. UNCHANGED result \/ \E r : Returns(t, r) BY <1>1, <1>6, CleanupKeeps
  <2>4. Alone(t) BY <1>1, <1>6, CleanupAlone
  <2> QED BY <1>2, <1>3, <1>4, <2>2, <2>3, <2>4 DEF EvidenceInv, Alone
<1>7. ASSUME NEW t \in Closers, Abort(t) \/ Shutdown(t) PROVE EvidenceInv'
  <2>1. t \in Threads BY ThreadsAssumption
  <2>2. EarnedInv(t)' BY <1>1, <1>2, <1>7, <2>1, EarnedCalls
  <2>3. UNCHANGED result \/ \E r : Returns(t, r) BY <1>7 DEF Abort, Shutdown, Claim
  <2>4. \A u \in Threads : u # t => pc'[u] = pc[u] /\ loc'[u] = loc[u]
    BY <1>1, <1>7, <2>1 DEF Abort, Shutdown, Claim, Goto, Returns, ControlInv
  <2> QED BY <1>2, <1>3, <1>4, <2>1, <2>2, <2>3, <2>4 DEF EvidenceInv
<1>8. CASE (\E r \in Streams : ReaderRuns(r)) \/ ProcessesEnd \/ UNCHANGED vars
  <2>1. UNCHANGED <<pc, loc, result>> BY <1>8 DEF ReaderRuns, ProcessesEnd, vars, startVars
  <2> QED BY <1>1, <1>2, <1>3, <2>1, EarnedStands DEF EvidenceInv
<1> QED BY <1>5, <1>6, <1>7, <1>8 DEF Next, ThreadStep, AllEnded

(* Evidence is about a run that ended by itself with code 0, whose logs were    *)
(* read to the end and whose files were verified when no process was left: the  *)
(* graceful path looks at the code, joins, empties the Job and verifies in this *)
(* order, and whoever leaves it comes to report under another kind.            *)
THEOREM EvidenceHolds == Spec => []EvidenceIsSound
<1>1. Init => WholeInv BY WholeInit
<1>2. WholeInv /\ [Next]_vars => WholeInv' BY WholeNext
<1>3. Init => EvidenceInv BY EvidenceInit
<1>4. WholeInv /\ EvidenceInv /\ [Next]_vars => EvidenceInv' BY EvidenceNext
<1>5. EvidenceInv => EvidenceIsSound
  BY DEF EvidenceInv, EarnedInv, Gone, Complete, Finished, EvidenceIsSound
<1> QED BY <1>1, <1>2, <1>3, <1>4, <1>5, PTL DEF Spec


-----------------------------------------------------------------------------
(* A clean end.                                                                *)

\* The launch and its undoing, and who may be at the process's handles after it.
LaunchPlaces == Launched \ {"managed"}
JoinedPlaces == Launching \cup {"managed", "start_reader", "claim_probe"} \cup GracefulPlaces
ActingPlaces ==
    ForcedPlaces \cup GracefulPlaces \cup ClosingPlaces \cup {"claim_probe", "shutdown_failed"}

\* While it lasts nobody else is at work ...
LaunchAlone ==
    pc[Starter] \in LaunchPlaces =>
       /\ managed = {} /\ ~closed /\ ~adopted /\ ~ctrl_c /\ ~uncertain
       /\ \A t \in Threads : result[t] = "none" /\ (t # Starter => pc[t] = "idle")

\* ... the handles it has open it owns, and what its undoing has left it
\* remembers as a failure.
UndoInv ==
    LET l == loc[Starter]
        p == pc[Starter]
        ill == l.failed \/ l.code = "cleanup_failed" IN
    /\ p \in Launching => console # "freed"
    /\ p \in Before \cup {"retire", "inspect"} => native \subseteq owned
    /\ p \in {"retire", "inspect"} => "process" \in owned
    /\ p = "retire" => native \subseteq Retained \cup Left(Starter)
    /\ p = "inspect" => native \subseteq Retained
    /\ p \in {"launch_terminate", "launch_wait"} =>
          /\ Left(Starter) = Handles /\ native \cap Retained \subseteq owned
          /\ ill \/ native \subseteq owned
    /\ p \in {"launch_close", "launch_console"} => l.failed \/ l.empty
    /\ p = "launch_close" =>
          /\ l.failed \/ native \cap Retained \subseteq owned \cap Left(Starter)
          /\ ill \/ native \subseteq owned \cap Left(Starter)
    /\ p = "launch_console" =>
          /\ l.failed \/ native \cap Retained = {}
          /\ ill \/ native = {}
    /\ p = "launch_release" => ill \/ (live = {} /\ native = {} /\ console # "private")

LaunchInv == LaunchAlone /\ UndoInv

\* After it the managed process has all handles that are open, or it is known
\* that a close has failed.
HandInv ==
    /\ managed \subseteq Retained
    /\ (closed \/ managed # {}) /\ ~uncertain => native \subseteq managed
    /\ adopted \/ pc[Starter] \notin LaunchPlaces \cup {"done"} => managed # {} \/ closed
    /\ console = "freed" => live = {} /\ Retained \cap native = {}

\* Only one thread is at work on a process: who has claimed it, or its probe.
AloneInv ==
    /\ \A t, u \in Threads : pc[t] \in ActingPlaces /\ pc[u] \in ActingPlaces => t = u
    /\ \A t \in Threads : pc[t] \in ActingPlaces => closed \/ (mode = "probe" /\ t = Starter)
    /\ mode = "probe" => \A t \in Threads : t # Starter => pc[t] = "idle"

\* What a thread's locals say of the handles, and what its result does.
NothingRuns == live = {} /\ pc[Starter] \notin Before
TidyInv(t) ==
    LET l == loc[t] IN
    /\ l.empty => NothingRuns
    /\ pc[t] \in JoinedPlaces => l.joined
    /\ pc[t] = "verifying" => lease = "verifying"
    /\ pc[t] \in ClosingPlaces => l.failed \/ l.empty
    /\ pc[t] = "close" /\ l.clean =>
          l.joined /\ ~uncertain /\ ~ctrl_c /\ managed \subseteq Left(t)
    /\ pc[t] \in {"release", "report"} /\ l.clean /\ ~l.failed =>
          live = {} /\ native = {} /\ ~ctrl_c /\ console # "private"
    /\ pc[t] = "report" => lease = "released"
    /\ result[t] \in {"ok", "error", "evidence"} =>
          \/ AllGivenBack
          \/ result[t] = "error" /\ t = Starter /\ mode = "raw" /\ (managed # {} \/ closed)

CleanInv == LaunchInv /\ HandInv /\ AloneInv /\ \A t \in Threads : TidyInv(t)

\* What stays, whoever steps.
TidyStays ==
    /\ NothingRuns => NothingRuns'
    /\ managed # {} \/ closed => managed' # {} \/ closed'
    /\ AllGivenBack /\ (\E t \in Threads : result[t] # "none") => AllGivenBack'
    /\ UNCHANGED mode

\* What the steps of others leave to a thread at work.
Undisturbed(u) ==
    /\ pc'[u] = pc[u] /\ loc'[u] = loc[u] /\ result'[u] = result[u]
    /\ pc[u] \in ActingPlaces => UNCHANGED <<native, managed, console, lease, ctrl_c, uncertain>>

LEMMA TidyStands ==
    ASSUME TidyStays, NEW u \in Threads, TidyInv(u), Undisturbed(u)
    PROVE  TidyInv(u)'
<1>1. pc[u] \in ClosingPlaces \cup {"verifying"} => pc[u] \in ActingPlaces
  BY DEF ClosingPlaces, ActingPlaces, GracefulPlaces
<1>2. Left(u)' = Left(u) BY DEF Undisturbed, Left, ToSet
<1>3. (result[u] \in {"ok", "error", "evidence"} =>
          \/ AllGivenBack
          \/ result[u] = "error" /\ u = Starter /\ mode = "raw" /\ (managed # {} \/ closed))'
  BY DEF Undisturbed, TidyStays, TidyInv
<1>4. pc[u] \notin ClosingPlaces \cup {"verifying"} => TidyInv(u)'
  BY <1>3 DEF Undisturbed, TidyStays, TidyInv, ClosingPlaces
<1>5. CASE pc[u] \in ClosingPlaces \cup {"verifying"}
  <2>1. UNCHANGED <<native, managed, console, lease, ctrl_c, uncertain>>
    BY <1>1, <1>5 DEF Undisturbed
  <2>2. live = {} /\ (loc[u].empty) => live' = {} BY DEF TidyInv, NothingRuns, TidyStays
  <2>3. pc[u] \in {"release", "report"} /\ loc[u].clean /\ ~loc[u].failed => live' = {}
    BY <2>2 DEF TidyInv, ClosingPlaces
  <2> QED
    BY <1>2, <1>3, <1>5, <2>1, <2>3 DEF Undisturbed, TidyStays, TidyInv
<1> QED BY <1>4, <1>5

\* A thread's own move to a place where nothing is asked of the handles.
LEMMA TidyElsewhere ==
    ASSUME TidyStays, NEW t \in Threads, TidyInv(t), result'[t] = result[t],
           loc'[t].empty => loc[t].empty,
           pc'[t] \in JoinedPlaces => loc'[t].joined,
           pc'[t] \notin ClosingPlaces \cup {"verifying"}
    PROVE  TidyInv(t)'
BY DEF TidyStays, TidyInv, ClosingPlaces

LEMMA TidyReturns ==
    ASSUME ControlInv, CallsInv, TidyStays, NEW t \in Threads, TidyInv(t), NEW r,
           Returns(t, r), UNCHANGED loc,
           r \in {"ok", "error", "evidence"} =>
              \/ AllGivenBack'
              \/ r = "error" /\ t = Starter /\ mode = "raw" /\ (managed # {} \/ closed)
    PROVE  TidyInv(t)'
<1>1. pc'[t] = "done" /\ result'[t] = r BY DEF ControlInv, CallsInv, Returns
<1>2. "done" \notin JoinedPlaces \cup ClosingPlaces \cup {"verifying"}
  BY DEF JoinedPlaces, Launching, Before, GracefulPlaces, ClosingPlaces
<1> QED BY <1>1, <1>2 DEF TidyStays, TidyInv, ClosingPlaces

(* A cleanup is the work of a thread that has claimed the process or is its     *)
(* probe; or of a failed start of the readers, which touches no handle.        *)
StartLoop(t) ==
    /\ t = Starter
    /\ pc[t] \in {"start_cancel", "start_join"}
    /\ pc'[t] \in {"start_cancel", "start_join", "unwind", "done"}
    /\ UNCHANGED <<native, managed, console, lease, ctrl_c, uncertain>>

LEMMA CleanupActs ==
    ASSUME ControlInv, NEW t \in Threads, CleanupStep(t)
    PROVE  pc[t] \in ActingPlaces \/ StartLoop(t)
<1> USE DEF ActingPlaces, ForcedPlaces, GracefulPlaces, ClosingPlaces
<1>1. CASE Graceful(t)
  BY <1>1 DEF Graceful, SignalRoot, UndoSignal, WaitRoot, RestoreAndExamine, AwaitEmptyJob,
     BeginVerify, EndVerify, ClaimProbe, Step, At
<1>2. CASE ForcedStep(t)
  BY <1>2 DEF ForcedStep, ForcedTerminate, ForcedWait, ForcedRestore, ForcedJob, Tried, Step, At
<1>3. CASE Closing(t)
  BY <1>3 DEF Closing, CloseManaged, FreeConsole, ReleaseManaged, Report, ShutdownFailed, At
<1>4. CASE BeginCancel(t) \/ ContinueCancel(t) \/ EndCancel(t) \/ AllCancelled(t)
           \/ JoinReader(t) \/ AllJoined(t)
  <2>1. pc[t] \in CancelPlaces \cup JoinPlaces
    <3>1. CASE ContinueCancel(t)
      <4>1. cancelling[t].at # "idle"
        BY <3>1 DEF ContinueCancel, CancelStep, CancelUnregistered, CancelPending, CancelMissed,
           CancelGivesUp, CancelConclude, CancelFollowed, Leads
      <4> QED BY <4>1 DEF ControlInv
    <3> QED
      BY <1>4, <3>1 DEF BeginCancel, EndCancel, CancelReturn, CancelReturned, AllCancelled,
         JoinReader, AllJoined, Step, At, ControlInv, CancelPlaces, JoinPlaces
  <2>2. CASE pc[t] \in {"start_cancel", "start_join"}
    <3>1. t = Starter BY <2>2 DEF ControlInv, StarterPlaces
    <3>2. \A p, m : Goto(t, p, m) => pc'[t] = p BY DEF ControlInv, Goto
    <3>3. \A r : Returns(t, r) => pc'[t] = "done" BY DEF ControlInv, Returns
    <3>4. pc'[t] \in {"start_cancel", "start_join", "unwind", "done"}
      BY <1>4, <2>2, <3>1, <3>2, <3>3 DEF BeginCancel, ContinueCancel, EndCancel, AllCancelled,
         JoinReader, AllJoined, StartFails, Step, At
    <3>5. UNCHANGED <<native, managed, console, lease, ctrl_c, uncertain>>
      BY <1>4 DEF BeginCancel, ContinueCancel, EndCancel, AllCancelled, JoinReader, AllJoined,
         NoHandles, NoSignal
    <3> QED BY <2>2, <3>1, <3>4, <3>5 DEF StartLoop
  <2> QED BY <2>1, <2>2 DEF CancelPlaces, JoinPlaces
<1> QED BY <1>1, <1>2, <1>3, <1>4 DEF CleanupStep, Graceful, ForcedStep, Closing

LEMMA SessionKeeps ==
    ASSUME SessionStart PROVE UNCHANGED <<native, managed, console, lease, ctrl_c, uncertain, mode>>
BY DEF SessionStart, AttachReaders, StartReaders, FailReaders, PollStartup, RecheckStartup,
   BindSession, Unwind, NoHandles, NoSignal, NoLaunch

\* What a step other than the launch's may do to the handles, and who takes it.
LEMMA Changes ==
    ASSUME ControlInv, [Next]_vars, ~LaunchStep
    PROVE  /\ native' \subseteq native
           /\ managed' \subseteq managed
           /\ lease' \in {lease, "released"} \/ \E t \in Threads : BeginVerify(t) \/ EndVerify(t)
           /\ ctrl_c' => ctrl_c \/ "root" \in live
           /\ console' \in {console, "freed"}
           /\ UNCHANGED mode
<1>1. ASSUME NEW t \in Threads, CleanupStep(t)
      PROVE  /\ native' \subseteq native /\ managed' \subseteq managed
             /\ lease' \in {lease, "released"} \/ BeginVerify(t) \/ EndVerify(t)
             /\ ctrl_c' => ctrl_c \/ "root" \in live
             /\ console' \in {console, "freed"}
             /\ UNCHANGED mode
  <2>1. native' \subseteq native /\ managed' \subseteq managed
    BY <1>1, CleanupKeeps DEF CloseManaged, CloseNative
  <2>2. lease' \in {lease, "released"} \/ BeginVerify(t) \/ EndVerify(t)
    BY <1>1 DEF CleanupStep, BeginCancel, ContinueCancel, EndCancel, AllCancelled,
       JoinReader, AllJoined, SignalRoot, UndoSignal, WaitRoot, RestoreAndExamine,
       AwaitEmptyJob, ClaimProbe, CloseManaged, FreeConsole, ReleaseManaged, ReleaseLease,
       Report, ShutdownFailed, ForcedTerminate, ForcedWait, ForcedRestore, ForcedJob
  <2>3. ctrl_c' => ctrl_c \/ "root" \in live
    BY <1>1 DEF CleanupStep, BeginCancel, ContinueCancel, EndCancel, AllCancelled,
       JoinReader, AllJoined, SignalRoot, UndoSignal, WaitRoot, RestoreAndExamine,
       AwaitEmptyJob, BeginVerify, EndVerify, ClaimProbe, CloseManaged, FreeConsole,
       ReleaseManaged, Report, ShutdownFailed, ForcedTerminate, ForcedWait, ForcedRestore,
       ForcedJob, NoSignal
  <2>4. console' \in {console, "freed"}
    BY <1>1 DEF CleanupStep, BeginCancel, ContinueCancel, EndCancel, AllCancelled,
       JoinReader, AllJoined, SignalRoot, UndoSignal, WaitRoot, RestoreAndExamine,
       AwaitEmptyJob, BeginVerify, EndVerify, ClaimProbe, CloseManaged, FreeConsole,
       ReleaseManaged, Report, ShutdownFailed, ForcedTerminate, ForcedWait, ForcedRestore,
       ForcedJob, NoHandles
  <2>5. UNCHANGED mode
    BY <1>1 DEF CleanupStep, BeginCancel, ContinueCancel, EndCancel, AllCancelled,
       JoinReader, AllJoined, SignalRoot, UndoSignal, WaitRoot, RestoreAndExamine,
       AwaitEmptyJob, BeginVerify, EndVerify, ClaimProbe, CloseManaged, FreeConsole,
       ReleaseManaged, Report, ShutdownFailed, ForcedTerminate, ForcedWait, ForcedRestore,
       ForcedJob, NoLaunch
  <2> QED BY <2>1, <2>2, <2>3, <2>4, <2>5
<1>2. ASSUME NEW t \in Closers, Abort(t) \/ Shutdown(t)
      PROVE  UNCHANGED <<native, managed, console, lease, ctrl_c, mode>>
  BY <1>2 DEF Abort, Shutdown, Claim, NoHandles, NoSignal, NoLaunch
<1>3. CASE (\E r \in Streams : ReaderRuns(r)) \/ ProcessesEnd \/ UNCHANGED vars
  <2>1. UNCHANGED <<native, managed, console, lease, sessionVars>>
    BY <1>3 DEF ReaderRuns, ProcessesEnd, vars, startVars
  <2> QED BY <2>1 DEF sessionVars
<1>4. CASE StarterStep
  <2>1. SessionStart BY <1>4 DEF StarterStep, SessionStart
  <2> QED BY <2>1, SessionKeeps
<1> QED BY <1>1, <1>2, <1>3, <1>4 DEF Next, ThreadStep, AllEnded

LEMMA LaunchAt == StartStep => pc[Starter] \in LaunchPlaces
BY DEF StartStep, ClaimLease, AllocateConsole, AcquireHandles, BeginPrelaunch, EndPrelaunch,
   CreateProcess, RetireHandles, InspectProcess, LaunchTerminate, LaunchWait, LaunchClose,
   LaunchFreeConsole, LaunchRelease, At, LaunchPlaces, Launched, Launching, Before

\* No other step leads into the launch.
LEMMA LaunchIsOver ==
    ASSUME ControlInv, [Next]_vars, ~LaunchStep
    PROVE  pc'[Starter] \in Launched => pc'[Starter] = pc[Starter]
<1>0. Starter \in Threads BY ThreadsAssumption
<1>1. CASE SessionStart
  <2>1. \A p, m : Goto(Starter, p, m) => pc'[Starter] = p BY <1>0 DEF ControlInv, Goto
  <2>2. \A r : Returns(Starter, r) => pc'[Starter] = "done" BY <1>0 DEF ControlInv, Returns
  <2>3. pc'[Starter] \notin Launched
    BY <1>1, <2>1, <2>2 DEF SessionStart, AttachReaders, StartFails, StartReaders, FailReaders,
       PollStartup, RecheckStartup, BindSession, Unwind, Step, Launched, Launching, Before
  <2> QED BY <2>3
<1>2. ASSUME NEW t \in Threads, CleanupStep(t)
      PROVE  pc'[Starter] \in Launched => pc'[Starter] = pc[Starter]
  BY <1>0, <1>2, CleanupMoves DEF MovesOnly
<1>3. ASSUME NEW t \in Closers, Abort(t) \/ Shutdown(t) PROVE pc'[Starter] = pc[Starter]
  <2>1. t \in Threads /\ t # Starter BY <1>3, ThreadsAssumption
  <2> QED BY <1>0, <1>3, <2>1 DEF Abort, Shutdown, Claim, Goto, Returns, ControlInv
<1>4. CASE (\E r \in Streams : ReaderRuns(r)) \/ ProcessesEnd \/ UNCHANGED vars
  BY <1>4 DEF ReaderRuns, ProcessesEnd, vars, startVars
<1>5. StarterStep => SessionStart BY DEF StarterStep, SessionStart
<1> QED BY <1>1, <1>2, <1>3, <1>4, <1>5 DEF Next, ThreadStep, AllEnded

LEMMA TidyLasts ==
    ASSUME WholeInv, CleanInv, [Next]_vars
    PROVE  TidyStays
<1>0. SInv /\ ControlInv /\ Lasts /\ AllKnow /\ LaunchInv /\ \A t \in Threads : TidyInv(t)
  BY LastsNext DEF WholeInv, ReadInv, AllKnow, SInv, CleanInv
<1>1. NothingRuns => NothingRuns'
  BY <1>0, RunChanges DEF NothingRuns, Before, ProcessesEnd
<1>2. CASE LaunchStep
  <2>1. pc[Starter] \in LaunchPlaces BY <1>2, LaunchAt DEF LaunchStep
  <2>2. managed = {} /\ ~closed /\ \A t \in Threads : result[t] = "none"
    BY <1>0, <2>1 DEF LaunchInv, LaunchAlone
  <2>3. UNCHANGED mode BY <1>2 DEF LaunchStep, sessionVars
  <2> QED BY <1>1, <2>2, <2>3 DEF TidyStays
<1>3. CASE ~LaunchStep
  <2>1. managed # {} \/ closed => managed' # {} \/ closed'
    <3>1. ASSUME NEW t \in Threads, CleanupStep(t), managed' # managed PROVE closed'
      <4>1. CloseManaged(t) BY <1>0, <3>1, CleanupKeeps
      <4>2. closed BY <1>0, <4>1 DEF CloseManaged, At, AllKnow, ClaimedInv
      <4> QED BY <1>0, <4>2 DEF Lasts
    <3>2. ASSUME NEW t \in Closers, Abort(t) \/ Shutdown(t) PROVE UNCHANGED managed
      BY <3>2 DEF Abort, Shutdown, Claim, NoHandles
    <3>3. CASE (\E r \in Streams : ReaderRuns(r)) \/ ProcessesEnd \/ UNCHANGED vars
      <4>1. UNCHANGED managed BY <3>3 DEF ReaderRuns, ProcessesEnd, vars, startVars
      <4> QED BY <1>0, <4>1 DEF Lasts
    <3>4. StarterStep => UNCHANGED managed
      BY <1>3, SessionKeeps DEF StarterStep, SessionStart
    <3> QED BY <1>0, <3>1, <3>2, <3>3, <3>4 DEF Next, ThreadStep, AllEnded, Lasts
  <2>2. ASSUME AllGivenBack, NEW t \in Threads, result[t] # "none" PROVE AllGivenBack'
    <3>1. live' = {}
      <4>1. ~CreateProcess
        BY <1>0, <2>2, RunChanges DEF LaunchInv, LaunchAlone, LaunchPlaces, Launched, Launching, Before
      <4> QED BY <1>0, <2>2, <4>1, RunChanges DEF AllGivenBack, ProcessesEnd
    <3>2. \A u \in Threads : ~BeginVerify(u) /\ ~EndVerify(u)
      BY <1>0, <2>2 DEF BeginVerify, EndVerify, At, AllGivenBack, TidyInv
    <3> QED BY <1>0, <1>3, <2>2, <3>1, <3>2, Changes DEF AllGivenBack
  <2> QED BY <1>0, <1>1, <1>3, <2>1, <2>2, Changes DEF TidyStays
<1> QED BY <1>2, <1>3

LEMMA RetainedAre ==
    /\ Retained \subseteq ToSet(<<"process", "stderr", "stdout", "job">>)
    /\ Retained \subseteq ToSet(<<"process">> \o <<"stderr", "stdout">> \o <<"job">>)
<1> DEFINE a == <<"process">>
           b == <<"stderr", "stdout">>
           c == <<"job">>
           q == a \o b \o c
           order == <<"process", "stderr", "stdout", "job">>
<1>1. /\ Len(a) = 1 /\ Len(b) = 2 /\ Len(c) = 1
      /\ a[1] = "process" /\ b[1] = "stderr" /\ b[2] = "stdout" /\ c[1] = "job"
  OBVIOUS
<1>2. a \in Seq(Handles) /\ b \in Seq(Handles) /\ c \in Seq(Handles) BY HandlesAre
<1>3. {order[1], order[2], order[3], order[4]} \subseteq ToSet(order) BY DEF ToSet
<1>4. Retained \subseteq ToSet(q)
  <2> HIDE DEF a, b, c
  <2>1. /\ a \o b \in Seq(Handles) /\ Len(a \o b) = 3
        /\ (a \o b)[1] = "process" /\ (a \o b)[2] = "stderr" /\ (a \o b)[3] = "stdout"
    <3>1. /\ a \o b \in Seq(Handles) /\ Len(a \o b) = Len(a) + Len(b)
          /\ \A i \in 1 .. Len(a) + Len(b) :
                (a \o b)[i] = IF i <= Len(a) THEN a[i] ELSE b[i - Len(a)]
      BY <1>2, ConcatProperties
    <3>2. (a \o b)[1] = a[1] /\ (a \o b)[2] = b[2 - 1] /\ (a \o b)[3] = b[3 - 1]
      BY <1>1, <3>1
    <3> QED BY <1>1, <3>1, <3>2
  <2>2. /\ q \in Seq(Handles) /\ Len(q) = 4
        /\ q[1] = "process" /\ q[2] = "stderr" /\ q[3] = "stdout" /\ q[4] = "job"
    BY <1>1, <1>2, <2>1, ConcatProperties
  <2> HIDE DEF q
  <2>3. {1, 2, 3, 4} \subseteq DOMAIN q BY <2>2, LenProperties
  <2> QED BY <2>2, <2>3 DEF ToSet, Retained
<1> QED BY <1>3, <1>4 DEF Retained

(* The graceful path.                                                          *)
LEMMA TidyGraceful ==
    ASSUME ControlInv, HandInv, ExitInv, TidyStays, NEW t \in Threads, TidyInv(t), EarnedInv(t),
           Graceful(t)
    PROVE  TidyInv(t)'
<1> DEFINE l == loc[t]
<1>0. l \in LocalsSet /\ \A p, m : Goto(t, p, m) => pc'[t] = p /\ loc'[t] = m
  BY DEF ControlInv, Goto
<1>1. UNCHANGED result
  BY DEF Graceful, SignalRoot, UndoSignal, WaitRoot, RestoreAndExamine, AwaitEmptyJob,
     BeginVerify, EndVerify, ClaimProbe
<1>2. pc[t] \in GracefulPlaces \cup {"claim_probe"}
  BY DEF Graceful, SignalRoot, UndoSignal, WaitRoot, RestoreAndExamine, AwaitEmptyJob,
     BeginVerify, EndVerify, ClaimProbe, Step, At, GracefulPlaces
<1>3. l.joined BY <1>2 DEF TidyInv, JoinedPlaces
<1>4. \A c : Fails(t, c) => TidyInv(t)'
  <2>1. ASSUME NEW c, Fails(t, c) PROVE TidyInv(t)'
    <3>1. [l EXCEPT !.code = c].empty = l.empty BY <1>0 DEF LocalsSet
    <3>2. pc'[t] \in {"unwind", "shutdown_failed"} /\ loc'[t].empty = l.empty
      BY <1>0, <2>1, <3>1 DEF Fails
    <3>3. {"unwind", "shutdown_failed"} \cap (JoinedPlaces \cup ClosingPlaces \cup {"verifying"}) = {}
      BY DEF JoinedPlaces, Launching, Before, GracefulPlaces, ClosingPlaces
    <3> QED BY <1>1, <3>2, <3>3, TidyElsewhere
  <2> QED BY <2>1
<1>5. ASSUME Gone, CloseGracefully(t), UNCHANGED <<managed, ctrl_c, uncertain>> PROVE TidyInv(t)'
  <2> DEFINE todo == <<"process", "stderr", "stdout", "job">>
             m == [l EXCEPT !.clean = ~uncertain /\ ~ctrl_c, !.empty = TRUE, !.todo = todo]
  <2>1. pc'[t] = "close" /\ loc'[t] = m BY <1>0, <1>5 DEF CloseGracefully
  <2>2. /\ m.clean = (~uncertain /\ ~ctrl_c) /\ m.empty /\ m.joined = l.joined /\ m.todo = todo
    BY <1>0 DEF LocalsSet
  <2> HIDE DEF m
  <2>3. Retained \subseteq Left(t)' BY <2>1, <2>2, RetainedAre DEF Left
  <2>4. NothingRuns' BY <1>5 DEF Gone, ExitInv, NothingRuns, TidyStays
  <2>5. managed' \subseteq Left(t)' BY <1>5, <2>3 DEF HandInv
  <2>6. "close" \notin JoinedPlaces
    BY DEF JoinedPlaces, Launching, Before, GracefulPlaces
  <2> QED
    BY <1>1, <1>3, <1>5, <2>1, <2>2, <2>4, <2>5, <2>6 DEF TidyInv, TidyStays
<1>6. CASE SignalRoot(t) \/ UndoSignal(t) \/ WaitRoot(t) \/ RestoreAndExamine(t)
  <2> DEFINE m == [l EXCEPT !.todo = StreamOrder]
  <2>1. m.empty = l.empty /\ m.joined = l.joined BY <1>0 DEF LocalsSet
  <2>2. \/ \E p \in {"wait", "unsignal", "restore", "join"} : Goto(t, p, l) \/ Goto(t, p, m)
        \/ \E c : Fails(t, c)
    BY <1>6 DEF SignalRoot, UndoSignal, WaitRoot, RestoreAndExamine, Step
  <2> HIDE DEF m
  <2>3. {"wait", "unsignal", "restore", "join"} \cap (ClosingPlaces \cup {"verifying"}) = {}
    BY DEF ClosingPlaces
  <2>4. CASE \E p \in {"wait", "unsignal", "restore", "join"} : Goto(t, p, l) \/ Goto(t, p, m)
    <3>1. /\ pc'[t] \in {"wait", "unsignal", "restore", "join"}
          /\ loc'[t].empty = l.empty /\ loc'[t].joined = l.joined
      BY <1>0, <2>1, <2>4
    <3> QED BY <1>1, <1>3, <2>3, <3>1, TidyElsewhere
  <2> QED BY <1>4, <2>2, <2>4
<1>7. CASE AwaitEmptyJob(t)
  <2>1. Goto(t, "verify", l) \/ \E c : Fails(t, c) BY <1>7 DEF AwaitEmptyJob, Step
  <2> QED BY <1>0, <1>1, <1>3, <1>4, <2>1, TidyElsewhere DEF ClosingPlaces
<1>8. CASE BeginVerify(t)
  <2>1. pc'[t] = "verifying" /\ loc'[t] = l /\ lease' = "verifying"
    BY <1>0, <1>8 DEF BeginVerify, Step
  <2> QED BY <1>1, <1>3, <2>1 DEF TidyInv, TidyStays, ClosingPlaces
<1>9. CASE EndVerify(t)
  <2>1. /\ Gone
        /\ Goto(t, "claim_probe", l) \/ CloseGracefully(t) \/ \E c : Fails(t, c)
        /\ UNCHANGED <<managed, ctrl_c, uncertain>>
    BY <1>9 DEF EndVerify, At, EarnedInv, Verifying, NoHandles, NoSignal
  <2>2. CASE Goto(t, "claim_probe", l)
    BY <1>0, <1>1, <1>3, <2>2, TidyElsewhere DEF ClosingPlaces
  <2> QED BY <1>4, <1>5, <2>1, <2>2
<1>10. CASE ClaimProbe(t)
  BY <1>5, <1>10 DEF ClaimProbe, At, EarnedInv, Verifying, NoHandles, NoSignal
<1> QED BY <1>6, <1>7, <1>8, <1>9, <1>10 DEF Graceful

(* The loops over the readers, and the forced cleanup.                         *)
LEMMA TidyForced ==
    ASSUME ControlInv, CallsInv, LaunchInv, HandInv, TidyStays, NEW t \in Threads, TidyInv(t),
           \/ BeginCancel(t) \/ ContinueCancel(t) \/ EndCancel(t) \/ AllCancelled(t)
           \/ JoinReader(t) \/ AllJoined(t) \/ ForcedStep(t)
    PROVE  TidyInv(t)'
<1> DEFINE l == loc[t]
<1>0. l \in LocalsSet /\ \A p, m : Goto(t, p, m) => pc'[t] = p /\ loc'[t] = m
  BY DEF ControlInv, Goto
<1>1. ASSUME UNCHANGED result, loc'[t].empty = l.empty,
             \/ pc'[t] \in CancelPlaces \cup JoinPlaces \cup ForcedPlaces \cup {"unwind", "shutdown_failed"}
             \/ pc'[t] = "job",
             pc'[t] \in {"join", "job"} => loc'[t].joined
      PROVE  TidyInv(t)'
  <2>1. /\ pc'[t] \notin ClosingPlaces \cup {"verifying"}
        /\ pc'[t] \in JoinedPlaces => pc'[t] \in {"join", "job"}
    BY <1>1 DEF CancelPlaces, JoinPlaces, ForcedPlaces, ClosingPlaces, JoinedPlaces, Launching,
       Before, GracefulPlaces
  <2> QED BY <1>1, <2>1, TidyElsewhere
<1>2. \A c : Fails(t, c) /\ UNCHANGED result => TidyInv(t)'
  <2>1. ASSUME NEW c, Fails(t, c), UNCHANGED result PROVE TidyInv(t)'
    <3>1. [l EXCEPT !.code = c].empty = l.empty BY <1>0 DEF LocalsSet
    <3>2. pc'[t] \in {"unwind", "shutdown_failed"} /\ loc'[t].empty = l.empty
      BY <1>0, <2>1, <3>1 DEF Fails
    <3> QED BY <1>1, <2>1, <3>2
  <2> QED BY <2>1
<1>3. pc[t] = "join" => l.joined BY DEF TidyInv, JoinedPlaces, GracefulPlaces
<1>4. CASE ContinueCancel(t)
  <2>1. cancelling[t].at # "idle" /\ UNCHANGED <<pc, loc, result>>
    BY <1>4 DEF ContinueCancel, CancelStep, CancelUnregistered, CancelPending, CancelMissed,
       CancelGivesUp, CancelConclude, CancelFollowed, Leads
  <2>2. pc[t] \in CancelPlaces BY <2>1 DEF ControlInv
  <2> QED BY <1>1, <2>1, <2>2 DEF CancelPlaces
<1>5. CASE BeginCancel(t)
  <2>1. PICK zero \in BOOLEAN : Goto(t, pc[t], [l EXCEPT !.failed = @ \/ zero])
    BY <1>5 DEF BeginCancel
  <2>2. [l EXCEPT !.failed = @ \/ zero].empty = l.empty BY <1>0 DEF LocalsSet
  <2> QED BY <1>0, <1>1, <1>5, <2>1, <2>2 DEF BeginCancel, CancelPlaces
<1>6. CASE EndCancel(t)
  <2> DEFINE m == [l EXCEPT !.todo = Tail(@), !.failed = @ \/ cancelling[t].at = "failed"]
  <2>1. Goto(t, pc[t], m) /\ UNCHANGED result BY <1>6 DEF EndCancel
  <2>2. m.empty = l.empty BY <1>0 DEF LocalsSet
  <2>3. pc[t] \in CancelPlaces BY <1>6 DEF EndCancel, CancelReturn, CancelReturned, ControlInv
  <2> HIDE DEF m
  <2> QED BY <1>0, <1>1, <2>1, <2>2, <2>3 DEF CancelPlaces
<1>7. CASE AllCancelled(t)
  <2> DEFINE m == [l EXCEPT !.todo = StreamOrder]
  <2>1. UNCHANGED result /\ (Goto(t, "start_join", m) \/ Goto(t, "forced_wait", l))
    BY <1>7 DEF AllCancelled, Step
  <2>2. m.empty = l.empty BY <1>0 DEF LocalsSet
  <2> HIDE DEF m
  <2> QED BY <1>0, <1>1, <2>1, <2>2 DEF JoinPlaces, ForcedPlaces
<1>8. CASE JoinReader(t)
  <2> DEFINE next == [l EXCEPT !.todo = Tail(@)]
             bad == [next EXCEPT !.failed = TRUE]
             left == [bad EXCEPT !.joined = FALSE]
  <2>1. /\ next.empty = l.empty /\ bad.empty = l.empty /\ left.empty = l.empty
        /\ next.joined = l.joined
    BY <1>0 DEF LocalsSet
  <2>2. \/ pc[t] \in JoinPlaces /\ Goto(t, pc[t], next)
        \/ pc[t] \in {"start_join", "forced_join"} /\ \E m \in {bad, left} : Goto(t, pc[t], m)
        \/ \E c : Fails(t, c)
    BY <1>8 DEF JoinReader
  <2> HIDE DEF next, bad, left
  <2>3. UNCHANGED result BY <1>8 DEF JoinReader
  <2>4. CASE pc[t] \in JoinPlaces /\ Goto(t, pc[t], next)
    BY <1>0, <1>1, <1>3, <2>1, <2>3, <2>4 DEF JoinPlaces
  <2>5. CASE pc[t] \in {"start_join", "forced_join"} /\ \E m \in {bad, left} : Goto(t, pc[t], m)
    BY <1>0, <1>1, <2>1, <2>3, <2>5 DEF JoinPlaces
  <2> QED BY <1>2, <2>2, <2>3, <2>4, <2>5
<1>9. CASE AllJoined(t)
  <2>1. CASE At(t, "start_join") /\ StartFails(l)
    <3>1. t = Starter BY <2>1 DEF At, ControlInv, StarterPlaces
    <3>2. CASE mode = "raw"
      <4>1. managed # {} \/ closed
        BY <2>1, <3>1 DEF At, HandInv, LaunchPlaces, Launched, Launching, Before
      <4>2. \E r \in {"cleanup_failed", "error"} : Returns(t, r) /\ UNCHANGED loc
        BY <2>1, <3>1, <3>2 DEF StartFails
      <4> QED BY <3>1, <3>2, <4>1, <4>2, TidyReturns
    <3>3. CASE mode # "raw"
      <4> DEFINE m == [l EXCEPT !.code = IF l.failed THEN "cleanup_failed" ELSE "error"]
      <4>1. Goto(t, "unwind", m) /\ UNCHANGED result BY <2>1, <3>1, <3>3 DEF StartFails
      <4>2. m.empty = l.empty BY <1>0 DEF LocalsSet
      <4> HIDE DEF m
      <4> QED BY <1>0, <1>1, <4>1, <4>2
    <3> QED BY <3>2, <3>3
  <2>2. CASE UNCHANGED result /\ Goto(t, "forced_job", l)
    BY <1>0, <1>1, <2>2 DEF ForcedPlaces
  <2>3. CASE UNCHANGED result /\ At(t, "join") /\ Goto(t, "job", l)
    BY <1>0, <1>1, <1>3, <2>3 DEF At
  <2>4. CASE UNCHANGED result /\ \E c : Fails(t, c) BY <1>2, <2>4
  <2> QED BY <1>9, <2>1, <2>2, <2>3, <2>4 DEF AllJoined, Step
<1>10. CASE ForcedTerminate(t) \/ ForcedWait(t) \/ ForcedRestore(t)
  <2> DEFINE todo == [l EXCEPT !.todo = Attached]
             failed == [l EXCEPT !.failed = TRUE]
             both == [todo EXCEPT !.failed = TRUE]
  <2>1. todo.empty = l.empty /\ failed.empty = l.empty /\ both.empty = l.empty
    BY <1>0 DEF LocalsSet
  <2>2. /\ UNCHANGED result
        /\ \E p \in {"forced_cancel", "forced_restore", "forced_join"},
              m \in {l, todo, failed, both} : Goto(t, p, m)
    BY <1>10 DEF ForcedTerminate, ForcedWait, ForcedRestore, Tried, Step
  <2> HIDE DEF todo, failed, both
  <2>3. pc'[t] \in {"forced_cancel", "forced_restore", "forced_join"} /\ loc'[t].empty = l.empty
    BY <1>0, <2>1, <2>2
  <2> QED BY <1>1, <2>2, <2>3 DEF ForcedPlaces
<1>11. CASE ForcedJob(t)
  <2> DEFINE pipes == IF l.joined THEN <<"stderr", "stdout">> ELSE <<>>
             todo == <<"process">> \o pipes \o <<"job">>
             closing == [l EXCEPT !.todo = todo, !.clean = ~uncertain /\ ~ctrl_c /\ l.joined]
             empty == [closing EXCEPT !.empty = TRUE]
             late == [closing EXCEPT !.failed = TRUE]
  <2>1. /\ empty.todo = todo /\ late.todo = todo /\ empty.joined = l.joined /\ late.joined = l.joined
        /\ empty.clean = (~uncertain /\ ~ctrl_c /\ l.joined) /\ late.clean = empty.clean
        /\ empty.empty /\ late.empty = l.empty /\ late.failed
    BY <1>0 DEF LocalsSet
  <2>2. l.joined => Retained \subseteq ToSet(todo) BY RetainedAre
  <2>3. /\ pc[t] = "forced_job" /\ UNCHANGED <<result, managed, ctrl_c, uncertain>>
        /\ (Goto(t, "close", empty) /\ live = {}) \/ Goto(t, "close", late)
    BY <1>11 DEF ForcedJob, Tried, Step, At, NoHandles, NoSignal
  <2> HIDE DEF empty, late, todo
  <2>4. pc'[t] = "close" /\ loc'[t] \in {empty, late} /\ (loc'[t] = late \/ live = {})
    BY <1>0, <2>3
  <2>5. loc'[t].clean => l.joined /\ loc'[t].joined /\ ~uncertain /\ ~ctrl_c
    BY <2>1, <2>4
  <2>6. Left(t)' = ToSet(todo) BY <2>1, <2>4 DEF Left
  <2>7. loc'[t].clean => managed' \subseteq Left(t)' BY <2>2, <2>3, <2>5, <2>6 DEF HandInv
  <2>8. loc'[t].failed \/ loc'[t].empty BY <2>1, <2>4
  <2>9. "close" \notin JoinedPlaces
    BY DEF JoinedPlaces, Launching, Before, GracefulPlaces
  <2>10. loc'[t].empty => NothingRuns'
    <3>1. pc[Starter] \notin Before
      BY <2>3, ThreadsAssumption DEF LaunchInv, LaunchAlone, LaunchPlaces, Launched, Launching, Before
    <3> QED BY <2>1, <2>4, <3>1 DEF TidyInv, TidyStays, NothingRuns
  <2> QED
    BY <2>3, <2>4, <2>5, <2>7, <2>8, <2>9, <2>10 DEF TidyInv, TidyStays
<1> QED
  BY <1>4, <1>5, <1>6, <1>7, <1>8, <1>9, <1>10, <1>11 DEF ForcedStep

(* The closing of the handles, the lease, and what the call reports.           *)
LEMMA TidyClosing ==
    ASSUME ControlInv, CallsInv, HandInv, TidyStays, NEW t \in Threads, TidyInv(t),
           ClaimedInv(t), Closing(t)
    PROVE  TidyInv(t)'
<1> DEFINE l == loc[t]
<1>0. l \in LocalsSet /\ \A p, m : Goto(t, p, m) => pc'[t] = p /\ loc'[t] = m
  BY DEF ControlInv, Goto
<1>1. {"close", "release", "report", "shutdown_failed", "forced_terminate"} \cap JoinedPlaces = {}
  BY DEF JoinedPlaces, Launching, Before, GracefulPlaces
<1>2. CASE CloseManaged(t)
  <2> DEFINE h == Head(l.todo)
             next == [l EXCEPT !.todo = Tail(@)]
             failed(c) == [next EXCEPT !.clean = FALSE, !.code = c]
  <2>1. /\ next.todo = Tail(l.todo) /\ next.clean = l.clean /\ next.joined = l.joined
        /\ next.empty = l.empty /\ next.failed = l.failed
        /\ \A c : ~failed(c).clean /\ failed(c).empty = l.empty /\ failed(c).failed = l.failed
    BY <1>0 DEF LocalsSet
  <2>2. /\ pc[t] = "close" /\ l.todo # <<>> /\ l.todo \in Seq(Handles)
        /\ UNCHANGED <<result, live, ctrl_c>>
        /\ managed' \subseteq managed \ {h} \/ (h \notin managed /\ UNCHANGED managed)
        /\ \/ Goto(t, "close", next) /\ UNCHANGED uncertain
           \/ \E c : Goto(t, "close", failed(c))
    BY <1>0, <1>2 DEF CloseManaged, At, NoSignal, LocalsSet
  <2> HIDE DEF next, failed
  <2>3. /\ pc'[t] = "close" /\ loc'[t].empty = l.empty /\ loc'[t].failed = l.failed
        /\ loc'[t].clean => loc'[t] = next /\ UNCHANGED uncertain /\ l.clean
    BY <1>0, <2>1, <2>2
  <2>4. loc'[t].clean => managed' \subseteq Left(t)'
    <3>1. Left(t) = {h} \cup ToSet(Tail(l.todo)) BY <2>2, LeftOfTail DEF Left
    <3>2. loc'[t].clean => Left(t)' = ToSet(Tail(l.todo)) BY <2>1, <2>3 DEF Left
    <3>3. l.clean => managed \subseteq Left(t) BY <2>2 DEF TidyInv
    <3> QED BY <2>2, <2>3, <3>1, <3>2, <3>3
  <2>5. loc'[t].clean => loc'[t].joined /\ ~uncertain' /\ ~ctrl_c'
    BY <2>1, <2>2, <2>3 DEF TidyInv
  <2>6. loc'[t].failed \/ loc'[t].empty BY <2>2, <2>3 DEF TidyInv, ClosingPlaces
  <2> QED BY <1>1, <2>2, <2>3, <2>4, <2>5, <2>6 DEF TidyInv, TidyStays
<1>3. CASE FreeConsole(t)
  <2> DEFINE unclean(c) == [l EXCEPT !.clean = FALSE, !.code = c]
             free == /\ console = "private" /\ l.joined /\ l.empty
                     /\ managed = {} /\ ~ctrl_c /\ ~uncertain /\ l.clean
  <2>1. \A c : /\ ~unclean(c).clean /\ unclean(c).empty = l.empty
               /\ unclean(c).failed = l.failed
    BY <1>0 DEF LocalsSet
  <2>2. /\ pc[t] = "close" /\ l.todo = <<>>
        /\ UNCHANGED <<result, live, ctrl_c, native>>
        /\ \/ Goto(t, "release", l) /\ (free => console' = "freed") /\ (~free => UNCHANGED console)
           \/ \E c : Goto(t, "release", unclean(c))
    BY <1>3 DEF FreeConsole, At, NoSignal
  <2> HIDE DEF unclean
  <2>3. /\ pc'[t] = "release" /\ loc'[t].empty = l.empty /\ loc'[t].failed = l.failed
        /\ loc'[t].clean => /\ loc'[t] = l /\ l.clean
                            /\ free => console' = "freed" 
                            /\ ~free => UNCHANGED console
    BY <1>0, <2>1, <2>2
  <2>4. l.failed \/ l.empty BY <2>2 DEF TidyInv, ClosingPlaces
  <2>5. loc'[t].clean /\ ~loc'[t].failed =>
            live' = {} /\ native' = {} /\ ~ctrl_c' /\ console' # "private"
    <3> SUFFICES ASSUME loc'[t].clean, ~loc'[t].failed
                 PROVE  live' = {} /\ native' = {} /\ ~ctrl_c' /\ console' # "private"
      OBVIOUS
    <3>1. l.joined /\ ~uncertain /\ ~ctrl_c /\ managed \subseteq Left(t)
      BY <2>2, <2>3 DEF TidyInv
    <3>2. managed = {} BY <2>2, <3>1, LeftOfOrder DEF Left
    <3>3. l.empty /\ live = {} BY <2>3, <2>4 DEF TidyInv, NothingRuns
    <3>4. closed BY <2>2 DEF ClaimedInv
    <3>5. native = {} BY <3>1, <3>2, <3>4 DEF HandInv
    <3> QED BY <2>2, <2>3, <3>1, <3>2, <3>3, <3>5
  <2> QED BY <1>1, <2>2, <2>3, <2>4, <2>5 DEF TidyInv, TidyStays
<1>4. CASE ReleaseManaged(t)
  <2> DEFINE late == [l EXCEPT !.failed = TRUE,
                               !.code = IF l.clean THEN "cleanup_failed" ELSE @]
  <2>1. late.failed /\ late.empty = l.empty BY <1>0 DEF LocalsSet
  <2>2. /\ pc[t] = "release" /\ lease' = "released"
        /\ UNCHANGED <<result, live, ctrl_c, native, console>>
        /\ Goto(t, "report", l) \/ Goto(t, "report", late)
    BY <1>4 DEF ReleaseManaged, ReleaseLease, At, NoSignal, NoHandles
  <2> HIDE DEF late
  <2>3. /\ pc'[t] = "report" /\ loc'[t].empty = l.empty
        /\ loc'[t].failed \/ loc'[t] = l
    BY <1>0, <2>1, <2>2
  <2>4. l.failed \/ l.empty BY <2>2 DEF TidyInv, ClosingPlaces
  <2>5. loc'[t].clean /\ ~loc'[t].failed =>
            live' = {} /\ native' = {} /\ ~ctrl_c' /\ console' # "private"
    BY <2>2, <2>3 DEF TidyInv
  <2> QED BY <1>1, <2>2, <2>3, <2>4, <2>5 DEF TidyInv, TidyStays
<1>5. CASE Report(t)
  <2>1. l.clean /\ ~l.failed => AllGivenBack'
    BY <1>5 DEF Report, At, NoSignal, NoHandles, TidyInv, AllGivenBack
  <2>2. \/ Returns(t, "cleanup_failed") /\ UNCHANGED loc
        \/ l.clean /\ ~l.failed /\ UNCHANGED loc /\ \E r : Returns(t, r)
        \/ UNCHANGED result /\ Goto(t, "shutdown_failed", l)
    BY <1>5 DEF Report
  <2>3. CASE UNCHANGED result /\ Goto(t, "shutdown_failed", l)
    BY <1>0, <1>1, <2>3, TidyElsewhere DEF ClosingPlaces
  <2> QED BY <2>1, <2>2, <2>3, TidyReturns
<1>6. CASE ShutdownFailed(t)
  <2> DEFINE m == [Locals("forced") EXCEPT !.code = l.code]
  <2>1. ~m.empty BY DEF Locals
  <2>2. \/ Returns(t, "cleanup_failed") /\ UNCHANGED loc
        \/ UNCHANGED result /\ Goto(t, "forced_terminate", m)
    BY <1>6 DEF ShutdownFailed
  <2> HIDE DEF m
  <2>3. CASE UNCHANGED result /\ Goto(t, "forced_terminate", m)
    <3>1. pc'[t] = "forced_terminate" /\ ~loc'[t].empty BY <1>0, <2>1, <2>3
    <3> QED BY <1>1, <2>3, <3>1, TidyElsewhere DEF ClosingPlaces
  <2> QED BY <2>2, <2>3, TidyReturns
<1> QED BY <1>2, <1>3, <1>4, <1>5, <1>6 DEF Closing

(* The rest of a start: it leaves the handles alone.                           *)
LEMMA TidySession ==
    ASSUME ControlInv, CallsInv, TidyStays, TidyInv(Starter), SessionStart
    PROVE  TidyInv(Starter)'
<1> DEFINE l == loc[Starter]
           todo == [l EXCEPT !.todo = StreamOrder]
           tail == [l EXCEPT !.todo = Tail(@)]
           kind(k) == [l EXCEPT !.kind = k]
           code(c) == [l EXCEPT !.code = c]
<1>0. Starter \in Threads /\ l \in LocalsSet BY ThreadsAssumption DEF ControlInv
<1>a. \A p, m : Goto(Starter, p, m) => pc'[Starter] = p /\ loc'[Starter] = m
  BY <1>0 DEF ControlInv, Goto
<1>1. /\ todo.empty = l.empty /\ tail.empty = l.empty
      /\ todo.joined = l.joined /\ tail.joined = l.joined
      /\ \A k : kind(k).empty = l.empty /\ kind(k).joined = l.joined
      /\ \A c : code(c).empty = l.empty
  BY <1>0 DEF LocalsSet
<1>2. ASSUME UNCHANGED result, loc'[Starter].empty = l.empty,
             pc'[Starter] \in {"start_reader", "start_failed", "start_cancel", "poll", "adopt",
                               "bind", "unwind", "wait", "forced_terminate"},
             pc'[Starter] \in {"start_reader", "wait"} => loc'[Starter].joined
      PROVE  TidyInv(Starter)'
  <2>1. /\ pc'[Starter] \notin ClosingPlaces \cup {"verifying"}
        /\ pc'[Starter] \in JoinedPlaces => pc'[Starter] \in {"start_reader", "wait"}
    BY <1>2 DEF ClosingPlaces, JoinedPlaces, Launching, Before, GracefulPlaces
  <2> QED BY <1>0, <1>2, <2>1, TidyElsewhere
<1>3. \A p \in {"poll", "adopt", "bind", "start_failed"} :
         UNCHANGED result /\ Goto(Starter, p, l) => TidyInv(Starter)'
  BY <1>a, <1>2
<1>4. \A c : UNCHANGED result /\ Goto(Starter, "unwind", code(c)) => TidyInv(Starter)'
  <2> HIDE DEF code
  <2> QED BY <1>a, <1>1, <1>2
<1>5. pc[Starter] \in {"managed", "start_reader"} => l.joined BY DEF TidyInv, JoinedPlaces
<1>6. \A r : Returns(Starter, r) /\ UNCHANGED loc /\ r \notin {"ok", "error", "evidence"}
         => TidyInv(Starter)'
  BY <1>0, TidyReturns
<1>7. CASE AttachReaders
  <2>1. CASE closed /\ StartFails(l)
    <3>1. CASE mode = "raw"
      <4>1. closed' BY <2>1, <1>7 DEF AttachReaders
      <4>2. \E r \in {"cleanup_failed", "error"} : Returns(Starter, r) /\ UNCHANGED loc
        BY <2>1, <3>1 DEF StartFails
      <4> QED BY <1>0, <2>1, <3>1, <4>2, TidyReturns
    <3>2. CASE mode # "raw" BY <1>4, <2>1, <3>2 DEF StartFails
    <3> QED BY <3>1, <3>2
  <2>2. CASE Goto(Starter, "start_reader", todo) /\ UNCHANGED result
    <3>1. l.joined BY <1>5, <1>7 DEF AttachReaders, At
    <3> HIDE DEF todo
    <3> QED BY <1>a, <1>1, <1>2, <2>2, <3>1
  <2> QED BY <1>7, <2>1, <2>2 DEF AttachReaders
<1>8. CASE StartReaders
  <2>1. l.joined BY <1>5, <1>8 DEF StartReaders, At
  <2>2. \/ Returns(Starter, "readers") /\ UNCHANGED loc
        \/ UNCHANGED result /\ Goto(Starter, "poll", l)
        \/ UNCHANGED result /\ Goto(Starter, "wait", kind("probe"))
        \/ UNCHANGED result /\ Goto(Starter, "start_reader", tail)
        \/ UNCHANGED result /\ Goto(Starter, "start_failed", l)
    BY <1>8 DEF StartReaders
  <2> HIDE DEF kind, tail
  <2>3. CASE UNCHANGED result /\ (Goto(Starter, "wait", kind("probe"))
                                 \/ Goto(Starter, "start_reader", tail))
    <3>1. /\ pc'[Starter] \in {"wait", "start_reader"}
          /\ loc'[Starter].empty = l.empty /\ loc'[Starter].joined = l.joined
      BY <1>a, <1>1, <2>3
    <3> QED BY <1>2, <2>1, <2>3, <3>1
  <2> QED BY <1>3, <1>6, <2>2, <2>3
<1>9. CASE FailReaders
  <2>1. UNCHANGED result /\ Goto(Starter, "start_cancel", todo) BY <1>9 DEF FailReaders, Step
  <2> HIDE DEF todo
  <2> QED BY <1>a, <1>1, <1>2, <2>1
<1>10. CASE PollStartup \/ RecheckStartup
  BY <1>3, <1>4, <1>10 DEF PollStartup, RecheckStartup, Step
<1>11. CASE BindSession BY <1>4, <1>6, <1>11 DEF BindSession
<1>12. CASE Unwind
  <2> DEFINE unwound == [l EXCEPT !.kind = "start", !.joined = TRUE]
  <2>1. \/ Returns(Starter, "invalid") /\ UNCHANGED loc
        \/ UNCHANGED result /\ Goto(Starter, "forced_terminate", unwound)
    BY <1>12 DEF Unwind
  <2>2. unwound.empty = l.empty BY <1>0 DEF LocalsSet
  <2> HIDE DEF unwound
  <2> QED BY <1>a, <1>2, <1>6, <2>1, <2>2
<1> QED BY <1>7, <1>8, <1>9, <1>10, <1>11, <1>12 DEF SessionStart

(* A call that begins.                                                         *)
LEMMA TidyCalls ==
    ASSUME ControlInv, CallsInv, TidyStays, NEW t \in Threads, TidyInv(t),
           Abort(t) \/ Shutdown(t)
    PROVE  TidyInv(t)'
<1>0. \A p, m : Goto(t, p, m) => pc'[t] = p /\ loc'[t] = m BY DEF ControlInv, Goto
<1>1. \/ Returns(t, "invalid") /\ UNCHANGED loc
      \/ /\ UNCHANGED result
         /\ \E p \in {"forced_terminate", "signal"} : \E k : Goto(t, p, Locals(k))
  BY DEF Abort, Shutdown, Claim
<1>2. CASE /\ UNCHANGED result
           /\ \E p \in {"forced_terminate", "signal"} : \E k : Goto(t, p, Locals(k))
  <2>1. \A k : ~Locals(k).empty /\ Locals(k).joined BY DEF Locals
  <2>2. pc'[t] \in {"forced_terminate", "signal"} /\ ~loc'[t].empty /\ loc'[t].joined
    BY <1>0, <1>2, <2>1
  <2> QED BY <1>2, <2>2, TidyElsewhere DEF ClosingPlaces
<1> QED BY <1>1, <1>2, TidyReturns

\* What the retiring goes through is all that is not retained.
LEMMA RetiredAre == Handles \subseteq Retained \cup ToSet(<<"attributes", "thread">> \o Children)
<1> DEFINE a == <<"attributes", "thread">>
           q == a \o Children
<1>1. /\ Len(a) = 2 /\ Len(Children) = 3 /\ a[1] = "attributes" /\ a[2] = "thread"
      /\ Children[1] = "stderr_child" /\ Children[2] = "stdout_child" /\ Children[3] = "stdin"
  BY DEF Children
<1>2. a \in Seq(Handles) /\ Children \in Seq(Handles) BY HandlesAre DEF Children
<1> HIDE DEF a
<1>3. /\ q \in Seq(Handles) /\ Len(q) = Len(a) + Len(Children)
      /\ \A i \in 1 .. Len(a) + Len(Children) :
            q[i] = IF i <= Len(a) THEN a[i] ELSE Children[i - Len(a)]
  BY <1>2, ConcatProperties
<1>4. /\ q[1] = a[1] /\ q[2] = a[2] /\ q[3] = Children[3 - 2] /\ q[4] = Children[4 - 2]
      /\ q[5] = Children[5 - 2]
  BY <1>1, <1>3
<1> HIDE DEF q
<1>5. {q[1], q[2], q[3], q[4], q[5]} \subseteq ToSet(q)
  BY <1>1, <1>3, LenProperties DEF ToSet
<1>6. Handles \subseteq Retained \cup ToSet(q)
  BY <1>1, <1>4, <1>5, HandlesAre DEF Retained
<1> QED BY <1>6 DEF q, a

(* The launch, and its undoing.                                                *)
LEMMA FailStartUndoes ==
    ASSUME ControlInv, NEW c, FailStart(c), console' # "freed", owned' \subseteq Handles,
           native' \cap Retained \subseteq owned',
           c = "cleanup_failed" \/ native' \subseteq owned',
           "process" \in owned' \/ native' \subseteq owned'
    PROVE  UndoInv'
<1> DEFINE m == [loc[Starter] EXCEPT !.code = c, !.empty = "process" \notin owned',
                                     !.todo = CloseOrder]
<1>0. loc[Starter] \in LocalsSet BY ThreadsAssumption DEF ControlInv
<1>1. m.code = c /\ m.empty = ("process" \notin owned') /\ m.todo = CloseOrder
      /\ m.failed = loc[Starter].failed
  BY <1>0 DEF LocalsSet
<1>2. /\ pc'[Starter] = IF "process" \in owned' THEN "launch_terminate" ELSE "launch_close"
      /\ loc'[Starter] = m
  BY ThreadsAssumption DEF ControlInv, FailStart, Goto
<1> HIDE DEF m
<1>3. Left(Starter)' = Handles BY <1>1, <1>2 DEF Left, Handles
<1>4. CASE "process" \in owned'
  <2>1. pc'[Starter] = "launch_terminate" BY <1>2, <1>4
  <2> QED BY <1>1, <1>2, <1>3, <2>1 DEF UndoInv, Before
<1>5. CASE "process" \notin owned'
  <2>1. pc'[Starter] = "launch_close" /\ native' \subseteq owned' BY <1>2, <1>5
  <2> QED BY <1>1, <1>2, <1>3, <1>5, <2>1 DEF UndoInv, Before
<1> QED BY <1>4, <1>5

\* No system call of the launch fails before something to undo it is known.
LEMMA UndoLaunch ==
    ASSUME SInv, CloseInv, LaunchInv, TidyInv(Starter), StartStep, owned' \subseteq Handles
    PROVE  UndoInv'
<1> DEFINE l == loc[Starter]
           tail == [l EXCEPT !.todo = Tail(@)]
           failed == [l EXCEPT !.failed = TRUE]
<1>0. ControlInv /\ Starter \in Threads /\ l \in LocalsSet /\ UndoInv
  BY ThreadsAssumption DEF SInv, ControlInv, LaunchInv
<1>a. \A p, m : Goto(Starter, p, m) => pc'[Starter] = p /\ loc'[Starter] = m
  BY <1>0 DEF ControlInv, Goto
<1>b. /\ l.todo \in Seq(Handles)
      /\ tail.todo = Tail(l.todo) /\ tail.failed = l.failed /\ tail.code = l.code
      /\ tail.empty = l.empty
      /\ failed.failed /\ failed.todo = l.todo /\ failed.code = l.code
  BY <1>0 DEF LocalsSet
<1>c. l.todo # <<>> => Left(Starter) = {Head(l.todo)} \cup ToSet(Tail(l.todo))
  BY <1>b, LeftOfTail DEF Left
<1>d. l.todo = <<>> => Left(Starter) = {} BY LeftOfOrder DEF Left
<1>e. pc[Starter] \in Before => native \subseteq owned /\ console # "freed"
  BY <1>0 DEF UndoInv, Launching
<1>f. ASSUME native' \subseteq owned', console' # "freed", \E c : FailStart(c) PROVE UndoInv'
  BY <1>0, <1>f, FailStartUndoes
<1>g. ASSUME native' \subseteq owned', console' # "freed", pc'[Starter] \in Before
      PROVE  UndoInv'
  BY <1>g DEF UndoInv, Before
<1> HIDE DEF tail, failed
<1>1. CASE ClaimLease
  <2>1. pc[Starter] \in Before /\ pc'[Starter] \in Before /\ UNCHANGED <<native, owned, console>>
    BY <1>1, <1>a DEF ClaimLease, At, Before
  <2> QED BY <2>1, <1>e, <1>g
<1>2. CASE AllocateConsole
  <2>1. pc[Starter] \in Before /\ UNCHANGED <<native, owned>> /\ console' \in {console, "private"}
    BY <1>2 DEF AllocateConsole, At, Before
  <2>2. pc'[Starter] \in Before \/ \E c : FailStart(c) BY <1>2, <1>a DEF AllocateConsole, Before
  <2> QED BY <2>1, <2>2, <1>e, <1>f, <1>g
<1>3. CASE AcquireHandles
  <2>1. pc[Starter] \in Before /\ UNCHANGED console BY <1>3 DEF AcquireHandles, At, Before
  <2>2. pc'[Starter] \in Before \/ \E c : FailStart(c) BY <1>3, <1>a DEF AcquireHandles, Before
  <2>3. \/ UNCHANGED <<native, owned>>
        \/ \E S : native' = native \cup S /\ owned' = owned \cup S
    BY <1>3 DEF AcquireHandles
  <2> QED BY <2>1, <2>2, <2>3, <1>e, <1>f, <1>g
<1>4. CASE BeginPrelaunch \/ EndPrelaunch
  <2>1. pc[Starter] \in Before /\ UNCHANGED <<native, owned, console>>
    BY <1>4 DEF BeginPrelaunch, EndPrelaunch, At, Before
  <2>2. pc'[Starter] \in Before \/ \E c : FailStart(c)
    BY <1>4, <1>a DEF BeginPrelaunch, EndPrelaunch, Before
  <2> QED BY <2>1, <2>2, <1>e, <1>f, <1>g
<1>5. CASE CreateProcess
  <2> DEFINE list == <<"attributes", "thread">> \o Children
             m == [l EXCEPT !.todo = list]
  <2>1. /\ pc[Starter] \in Before /\ UNCHANGED console
        /\ \/ UNCHANGED <<native, owned>>
           \/ /\ native' = native \cup {"process", "thread"}
              /\ owned' = owned \cup {"process", "thread"}
    BY <1>5 DEF CreateProcess, At, Before
  <2>2. native' \subseteq owned' /\ console' # "freed" BY <2>1, <1>e
  <2>3. (\E c : FailStart(c)) \/ ("process" \in owned' /\ Goto(Starter, "retire", m))
    BY <1>5 DEF CreateProcess
  <2>4. CASE "process" \in owned' /\ Goto(Starter, "retire", m)
    <3>1. m.todo = list BY <1>0 DEF LocalsSet
    <3> HIDE DEF m, list
    <3>2. pc'[Starter] = "retire" /\ Left(Starter)' = ToSet(list)
      BY <1>a, <2>4, <3>1 DEF Left
    <3>3. native' \subseteq Retained \cup Left(Starter)' BY <2>2, <3>2, RetiredAre DEF list
    <3> QED BY <2>2, <2>4, <3>2, <3>3 DEF UndoInv, Before
  <2> QED BY <2>2, <2>3, <2>4, <1>f
<1>6. CASE RetireHandles
  <2>1. /\ native \subseteq owned /\ "process" \in owned /\ console # "freed"
        /\ native \subseteq Retained \cup Left(Starter)
    BY <1>0, <1>6 DEF RetireHandles, At, UndoInv, Launching
  <2>2. UNCHANGED console BY <1>6 DEF RetireHandles
  <2>3. CASE l.todo = <<>>
    <3>1. pc'[Starter] = "inspect" /\ UNCHANGED <<native, owned>>
      BY <1>6, <1>a, <2>3 DEF RetireHandles
    <3> QED BY <2>1, <2>2, <2>3, <3>1, <1>d DEF UndoInv, Before
  <2>4. CASE l.todo # <<>>
    <3> DEFINE h == Head(l.todo)
    <3>1. h \notin Retained
      <4>1. /\ Distinct(l.todo)
            /\ \A i \in 1 .. Len(l.todo) : l.todo[i] \notin Retained
        BY <1>6 DEF RetireHandles, At, CloseInv
      <4> QED BY <1>b, <2>4, <4>1, TailDistinct
    <3>2. owned' = owned \ {h} /\ native \ {h} \subseteq native' /\ native' \subseteq native
      BY <1>6, <2>4 DEF RetireHandles, CloseNative
    <3>3. \/ native' = native \ {h} /\ Goto(Starter, "retire", tail)
          \/ FailStart("cleanup_failed")
      BY <1>6, <2>4 DEF RetireHandles, CloseNative, tail
    <3>4. native' \cap Retained \subseteq owned' /\ "process" \in owned'
      BY <2>1, <3>1, <3>2 DEF Retained
    <3>5. CASE native' = native \ {h} /\ Goto(Starter, "retire", tail)
      <4>1. pc'[Starter] = "retire" /\ Left(Starter)' = ToSet(Tail(l.todo))
        BY <1>a, <1>b, <3>5 DEF Left
      <4>2. native' \subseteq Retained \cup Left(Starter)' BY <1>c, <2>1, <2>4, <3>5, <4>1
      <4>3. native' \subseteq owned' BY <2>1, <3>2, <3>5
      <4> QED BY <2>1, <2>2, <3>4, <4>1, <4>2, <4>3 DEF UndoInv, Before
    <3>6. CASE FailStart("cleanup_failed")
      BY <1>0, <2>1, <2>2, <3>4, <3>6, FailStartUndoes
    <3> QED BY <3>3, <3>5, <3>6
  <2> QED BY <2>3, <2>4
<1>7. CASE InspectProcess
  <2>1. native \subseteq owned /\ console # "freed"
    BY <1>0, <1>7 DEF InspectProcess, At, UndoInv, Launching
  <2>2. \/ pc'[Starter] = "managed"
        \/ UNCHANGED <<native, owned, console>> /\ \E c : FailStart(c)
    BY <1>7, <1>a DEF InspectProcess
  <2>3. pc'[Starter] = "managed" => UndoInv' BY DEF UndoInv, Launching, Before
  <2> QED BY <1>f, <2>1, <2>2, <2>3
<1>8. CASE LaunchTerminate
  <2>1. pc[Starter] = "launch_terminate" /\ UNCHANGED <<native, owned, console>>
    BY <1>8 DEF LaunchTerminate, At
  <2>2. pc'[Starter] = "launch_wait" /\ loc'[Starter] \in {l, failed}
    BY <1>8, <1>a DEF LaunchTerminate, failed
  <2>3. Left(Starter)' = Left(Starter) BY <1>b, <2>2 DEF Left
  <2> QED BY <1>0, <1>b, <2>1, <2>2, <2>3 DEF UndoInv, Launching, Before
<1>9. CASE LaunchWait
  <2> DEFINE empty == [l EXCEPT !.empty = TRUE]
             late(seen) == [l EXCEPT !.failed = TRUE, !.empty = seen]
  <2>1. /\ empty.empty /\ empty.failed = l.failed /\ empty.code = l.code /\ empty.todo = l.todo
        /\ \A seen : late(seen).failed /\ late(seen).todo = l.todo
    BY <1>0 DEF LocalsSet
  <2>2. pc[Starter] = "launch_wait" /\ UNCHANGED <<native, owned, console>>
    BY <1>9 DEF LaunchWait, At
  <2>3. Goto(Starter, "launch_close", empty) \/ \E seen : Goto(Starter, "launch_close", late(seen))
    BY <1>9 DEF LaunchWait
  <2> HIDE DEF empty, late
  <2>4. /\ pc'[Starter] = "launch_close" /\ loc'[Starter].todo = l.todo
        /\ \/ loc'[Starter].failed
           \/ loc'[Starter].empty /\ loc'[Starter].failed = l.failed /\ loc'[Starter].code = l.code
    BY <1>a, <2>1, <2>3
  <2>5. Left(Starter)' = Handles BY <1>0, <2>2, <2>4 DEF Left, UndoInv
  <2>6. /\ native \cap Retained \subseteq owned
        /\ l.failed \/ l.code = "cleanup_failed" \/ native \subseteq owned
        /\ console # "freed" /\ owned \subseteq Handles
    BY <1>0, <2>2 DEF UndoInv, Launching, CloseInv
  <2> QED BY <2>2, <2>4, <2>5, <2>6 DEF UndoInv, Before
<1>10. CASE LaunchClose
  <2>1. /\ pc[Starter] = "launch_close" /\ UNCHANGED console /\ console # "freed"
        /\ l.failed \/ l.empty
        /\ l.failed \/ native \cap Retained \subseteq owned \cap Left(Starter)
        /\ l.failed \/ l.code = "cleanup_failed" \/ native \subseteq owned \cap Left(Starter)
    BY <1>0, <1>10 DEF LaunchClose, At, UndoInv, Launching
  <2>2. CASE l.todo = <<>>
    <3>1. /\ pc'[Starter] = "launch_console" /\ loc'[Starter] = l /\ UNCHANGED native
      BY <1>a, <1>10, <2>2 DEF LaunchClose
    <3> QED BY <1>d, <2>1, <2>2, <3>1 DEF UndoInv, Launching, Before
  <2>3. CASE l.todo # <<>>
    <3> DEFINE h == Head(l.todo)
               bad == [l EXCEPT !.todo = Tail(@), !.failed = TRUE]
               good(ok) == [l EXCEPT !.todo = Tail(@), !.failed = @ \/ ~ok]
    <3>1. /\ \A ok \in BOOLEAN :
                /\ good(ok).todo = Tail(l.todo) /\ good(ok).code = l.code
                /\ good(ok).empty = l.empty /\ good(ok).failed = (l.failed \/ ~ok)
      BY <1>0 DEF LocalsSet
    <3>2. /\ UNCHANGED owned
          /\ \/ h \notin owned /\ UNCHANGED native /\ Goto(Starter, "launch_close", tail)
             \/ \E ok \in BOOLEAN : /\ CloseNative(h, ok)
                                    /\ Goto(Starter, "launch_close", good(ok))
      BY <1>10, <2>3 DEF LaunchClose, tail
    <3> HIDE DEF good
    <3>3. /\ pc'[Starter] = "launch_close" /\ loc'[Starter].todo = Tail(l.todo)
          /\ loc'[Starter].code = l.code /\ loc'[Starter].empty = l.empty
          /\ l.failed => loc'[Starter].failed
          /\ \/ loc'[Starter].failed
             \/ h \notin owned /\ native' = native
             \/ native' = native \ {h}
      BY <1>a, <1>b, <3>1, <3>2 DEF CloseNative
    <3>4. Left(Starter) = {h} \cup Left(Starter)' BY <1>c, <2>3, <3>3 DEF Left
    <3>5. \/ loc'[Starter].failed
          \/ /\ native' \cap Retained \subseteq owned' \cap Left(Starter)'
             /\ l.code = "cleanup_failed" \/ native' \subseteq owned' \cap Left(Starter)'
      BY <2>1, <3>2, <3>3, <3>4
    <3> QED BY <2>1, <3>3, <3>5 DEF UndoInv, Before
  <2> QED BY <2>2, <2>3
<1>11. CASE LaunchFreeConsole
  <2> DEFINE left == [l EXCEPT !.failed = @ \/ console = "private"]
  <2>1. left.failed = (l.failed \/ console = "private") /\ left.code = l.code
    BY <1>0 DEF LocalsSet
  <2>2. /\ pc[Starter] = "launch_console" /\ UNCHANGED <<native, live>>
        /\ \/ l.empty /\ ~l.failed /\ console' = "freed" /\ Goto(Starter, "launch_release", l)
           \/ Goto(Starter, "launch_release", failed)
           \/ UNCHANGED console /\ Goto(Starter, "launch_release", left)
    BY <1>11 DEF LaunchFreeConsole, At, failed
  <2> HIDE DEF left
  <2>3. /\ l.failed \/ l.empty
        /\ l.failed \/ l.code = "cleanup_failed" \/ native = {}
    BY <1>0, <2>2 DEF UndoInv
  <2>4. l.empty => live = {} BY DEF TidyInv, NothingRuns
  <2>5. /\ pc'[Starter] = "launch_release"
        /\ \/ loc'[Starter].failed
           \/ ~l.failed /\ loc'[Starter].code = l.code /\ console' # "private"
    BY <1>a, <1>b, <2>1, <2>2
  <2> QED BY <2>2, <2>3, <2>4, <2>5 DEF UndoInv, Launching, Before
<1>12. CASE LaunchRelease
  <2>1. pc'[Starter] = "done" BY <1>0, <1>12 DEF LaunchRelease, Returns, ControlInv
  <2> QED BY <2>1 DEF UndoInv, Launching, Before
<1> QED
  BY <1>1, <1>2, <1>3, <1>4, <1>5, <1>6, <1>7, <1>8, <1>9, <1>10, <1>11, <1>12 DEF StartStep

(* While the launch lasts nobody else takes a step but readers and processes.  *)
LEMMA LaunchWaits ==
    ASSUME ControlInv, LaunchAlone, [Next]_vars, ~LaunchStep, pc[Starter] \in LaunchPlaces
    PROVE  UNCHANGED <<pc, loc, native, owned, managed, console, result, sessionVars>>
<1>0. Starter \in Threads BY ThreadsAssumption
<1>1. /\ managed = {} /\ ~closed /\ ~adopted
      /\ \A t \in Threads : t # Starter => pc[t] = "idle"
  BY DEF LaunchAlone
<1>2. ~StarterStep
  BY DEF StarterStep, AttachReaders, StartReaders, FailReaders, PollStartup, RecheckStartup,
     BindSession, Unwind, Step, At, LaunchPlaces, Launched, Launching, Before
<1>3. ASSUME NEW t \in Threads, CleanupStep(t) PROVE FALSE
  <2>1. pc[t] \in ActingPlaces \cup {"start_cancel", "start_join"}
    BY <1>3, CleanupActs DEF StartLoop
  <2>2. pc[t] \in LaunchPlaces \cup {"idle"} BY <1>0, <1>1
  <2> QED
    BY <2>1, <2>2 DEF ActingPlaces, ForcedPlaces, GracefulPlaces, ClosingPlaces, LaunchPlaces,
       Launched, Launching, Before
<1>4. ASSUME NEW t \in Closers, Abort(t) \/ Shutdown(t) PROVE FALSE
  BY <1>1, <1>4 DEF Abort, Shutdown, Known
<1>5. CASE (\E r \in Streams : ReaderRuns(r)) \/ ProcessesEnd \/ UNCHANGED vars
  BY <1>5 DEF ReaderRuns, ProcessesEnd, vars, startVars
<1> QED BY <1>2, <1>3, <1>4, <1>5 DEF Next, ThreadStep, AllEnded

LEMMA LaunchNext == ASSUME WholeInv, CleanInv, [Next]_vars PROVE LaunchInv'
<1>0. /\ SInv /\ ControlInv /\ CloseInv /\ LaunchInv /\ LaunchAlone /\ UndoInv
      /\ Starter \in Threads /\ TidyInv(Starter)
  BY ThreadsAssumption DEF WholeInv, SInv, CleanInv, LaunchInv
<1>1. CASE LaunchStep
  <2>1. /\ managed = {} /\ ~closed /\ ~adopted /\ ~ctrl_c /\ ~uncertain
        /\ \A t \in Threads : result[t] = "none" /\ (t # Starter => pc[t] = "idle")
    BY <1>0, <1>1, LaunchAt DEF LaunchStep, LaunchAlone
  <2>2. owned' \subseteq Handles
    BY <1>0, <1>1, CloseLaunch DEF LaunchStep, CloseInv
  <2>3. UndoInv' BY <1>0, <1>1, <2>2, UndoLaunch DEF LaunchStep
  <2>4. \A u \in Threads : u # Starter => pc'[u] = "idle"
    BY <1>0, <1>1, <2>1, StarterAlone DEF Alone, StarterStep
  <2>5. UNCHANGED sessionVars BY <1>1 DEF LaunchStep
  <2>6. UNCHANGED managed \/ pc'[Starter] \notin LaunchPlaces
    <3>1. \A p, m : Goto(Starter, p, m) => pc'[Starter] = p
      BY <1>0 DEF ControlInv, Goto
    <3> QED
      BY <1>1, <3>1 DEF LaunchStep, StartStep, ClaimLease, AllocateConsole, AcquireHandles,
         BeginPrelaunch, EndPrelaunch, CreateProcess, RetireHandles, InspectProcess,
         LaunchTerminate, LaunchWait, LaunchClose, LaunchFreeConsole, LaunchRelease,
         LaunchPlaces
  <2>7. UNCHANGED result \/ pc'[Starter] \notin LaunchPlaces
    <3>1. \A r : Returns(Starter, r) => pc'[Starter] = "done"
      BY <1>0 DEF ControlInv, Returns
    <3> QED
      BY <1>1, <3>1 DEF LaunchStep, StartStep, ClaimLease, AllocateConsole, AcquireHandles,
         BeginPrelaunch, EndPrelaunch, CreateProcess, RetireHandles, InspectProcess,
         LaunchTerminate, LaunchWait, LaunchClose, LaunchFreeConsole, LaunchRelease,
         LaunchPlaces, Launched, Launching, Before
  <2> QED
    BY <2>1, <2>3, <2>4, <2>5, <2>6, <2>7 DEF LaunchInv, LaunchAlone, sessionVars
<1>2. CASE ~LaunchStep /\ pc'[Starter] \in LaunchPlaces
  <2>1. pc[Starter] \in LaunchPlaces BY <1>0, <1>2, LaunchIsOver DEF LaunchPlaces
  <2>2. UNCHANGED <<pc, loc, native, owned, managed, console, result, sessionVars>>
    BY <1>0, <1>2, <2>1, LaunchWaits
  <2>3. live = {} => live' = {} \/ pc[Starter] = "create"
    BY <1>0, RunChanges DEF ProcessesEnd
  <2>4. Left(Starter)' = Left(Starter) BY <2>2 DEF Left, ToSet
  <2>5. LaunchAlone' BY <1>0, <2>2 DEF LaunchAlone, sessionVars
  <2>6. UndoInv' BY <1>0, <2>2, <2>3, <2>4 DEF UndoInv
  <2> QED BY <2>5, <2>6 DEF LaunchInv
<1>3. CASE pc'[Starter] \notin LaunchPlaces
  BY <1>3 DEF LaunchInv, LaunchAlone, UndoInv, LaunchPlaces, Launched, Launching, Before
<1> QED BY <1>1, <1>2, <1>3

(* Nobody sets to work but by claiming the process, or as its probe.           *)
LEMMA Enters ==
    ASSUME ControlInv, SInv, [Next]_vars, NEW t \in Threads,
           pc'[t] \in ActingPlaces, pc[t] \notin ActingPlaces
    PROVE  /\ \A u \in Threads : u # t => pc'[u] = pc[u]
           /\ \/ ~closed /\ closed' /\ (t = Starter \/ mode # "probe")
              \/ t = Starter /\ mode = "probe"
<1>0. Starter \in Threads BY ThreadsAssumption
<1>a. {"start_cancel", "start_join", "start_reader", "start_failed", "poll", "adopt", "bind",
       "unwind", "done", "idle"} \cap ActingPlaces = {}
  BY DEF ActingPlaces, ForcedPlaces, GracefulPlaces, ClosingPlaces
<1>b. Launched \cap ActingPlaces = {}
  BY DEF ActingPlaces, ForcedPlaces, GracefulPlaces, ClosingPlaces, Launched, Launching, Before
<1>c. \A p, m : Goto(Starter, p, m) => pc'[Starter] = p BY <1>0 DEF ControlInv, Goto
<1>d. \A r : Returns(Starter, r) => pc'[Starter] = "done" BY <1>0 DEF ControlInv, Returns
<1>1. CASE StarterStep
  <2>1. \A u \in Threads : u # Starter => pc'[u] = pc[u] BY <1>1, StarterAlone DEF Alone
  <2>2. t = Starter BY <2>1
  <2>3. CASE LaunchStep
    <3>1. pc'[Starter] \in Launched \cup {"done"}
      <4>1. \A c : FailStart(c) => pc'[Starter] \in {"launch_terminate", "launch_close"}
        BY <1>c DEF FailStart
      <4> QED
        BY <1>c, <1>d, <2>3, <4>1 DEF LaunchStep, StartStep, ClaimLease, AllocateConsole,
           AcquireHandles, BeginPrelaunch, EndPrelaunch, CreateProcess, RetireHandles,
           InspectProcess, LaunchTerminate, LaunchWait, LaunchClose, LaunchFreeConsole,
           LaunchRelease, Launched, Launching, Before
    <3> QED BY <1>a, <1>b, <2>2, <3>1
  <2>4. CASE Unwind
    <3>1. ~closed /\ closed' BY <1>a, <1>d, <2>2, <2>4 DEF Unwind, Claimed
    <3> QED BY <2>1, <2>2, <3>1
  <2>5. CASE StartReaders
    <3>1. mode = "probe" BY <1>a, <1>c, <1>d, <2>2, <2>5 DEF StartReaders
    <3> QED BY <2>1, <2>2, <3>1
  <2>6. CASE AttachReaders \/ FailReaders \/ PollStartup \/ RecheckStartup \/ BindSession
    <3>1. pc'[Starter] \in {"start_reader", "start_cancel", "adopt", "bind", "unwind", "done"}
      BY <1>c, <1>d, <2>6 DEF AttachReaders, StartFails, FailReaders, PollStartup,
         RecheckStartup, BindSession, Step
    <3> QED BY <1>a, <2>2, <3>1
  <2> QED BY <1>1, <2>3, <2>4, <2>5, <2>6 DEF StarterStep
<1>2. ASSUME NEW u \in Threads, CleanupStep(u) PROVE FALSE
  <2>1. t = u BY <1>2, CleanupMoves DEF MovesOnly
  <2>2. pc'[t] \in {"start_cancel", "start_join", "unwind", "done"}
    BY <1>2, <2>1, CleanupActs DEF StartLoop
  <2> QED BY <1>a, <2>2
<1>3. ASSUME NEW u \in Closers, Abort(u) \/ Shutdown(u)
      PROVE  /\ ~closed /\ closed' /\ mode # "probe"
             /\ \A v \in Threads : v # t => pc'[v] = pc[v]
  <2>1. u \in Threads BY ThreadsAssumption
  <2>2. \A v \in Threads : v # u => pc'[v] = pc[v]
    BY <1>3, <2>1 DEF Abort, Shutdown, Claim, Goto, Returns, ControlInv
  <2>3. t = u BY <2>2
  <2>4. mode # "probe" BY <1>3 DEF Abort, Shutdown, Known
  <2>5. \A r : Returns(t, r) => pc'[t] = "done" BY DEF ControlInv, Returns
  <2>6. ~closed /\ closed'
    BY <1>3, <1>a, <2>3, <2>5 DEF Abort, Shutdown, Claim, Claimed
  <2> QED BY <2>2, <2>3, <2>4, <2>6
<1>4. CASE (\E r \in Streams : ReaderRuns(r)) \/ ProcessesEnd \/ UNCHANGED vars
  BY <1>4 DEF ReaderRuns, ProcessesEnd, vars, startVars
<1> QED BY <1>1, <1>2, <1>3, <1>4 DEF Next, ThreadStep, AllEnded

LEMMA AloneNext == ASSUME WholeInv, CleanInv, TidyStays, [Next]_vars PROVE AloneInv'
<1>0. /\ SInv /\ ControlInv /\ Lasts /\ AloneInv /\ UNCHANGED mode /\ Starter \in Threads
  BY LastsNext, ThreadsAssumption DEF WholeInv, SInv, CleanInv, TidyStays
<1>1. ASSUME NEW t \in Threads, NEW u \in Threads, t # u,
             pc'[t] \in ActingPlaces, pc'[u] \in ActingPlaces, pc[t] \notin ActingPlaces
      PROVE  FALSE
  <2>1. /\ pc'[u] = pc[u]
        /\ \/ ~closed /\ (t = Starter \/ mode # "probe")
           \/ t = Starter /\ mode = "probe"
    BY <1>0, <1>1, Enters
  <2>2. closed \/ (mode = "probe" /\ u = Starter) BY <1>0, <1>1, <2>1 DEF AloneInv
  <2>3. mode = "probe" => u = Starter
    BY <1>0, <1>1, <2>1
       DEF AloneInv, ActingPlaces, ForcedPlaces, GracefulPlaces, ClosingPlaces
  <2> QED BY <1>1, <2>1, <2>2, <2>3
<1>2. \A t, u \in Threads : pc'[t] \in ActingPlaces /\ pc'[u] \in ActingPlaces => t = u
  BY <1>0, <1>1 DEF AloneInv
<1>3. ASSUME NEW t \in Threads, pc'[t] \in ActingPlaces
      PROVE  closed' \/ (mode = "probe" /\ t = Starter)
  <2>1. CASE pc[t] \in ActingPlaces BY <1>0, <2>1 DEF AloneInv, Lasts
  <2>2. CASE pc[t] \notin ActingPlaces BY <1>0, <1>3, <2>2, Enters
  <2> QED BY <2>1, <2>2
<1>4. ASSUME mode = "probe", NEW t \in Threads, t # Starter PROVE pc'[t] = "idle"
  <2>1. pc[t] = "idle" BY <1>0, <1>4 DEF AloneInv
  <2>2. CASE StarterStep BY <1>0, <1>4, <2>1, <2>2, StarterAlone DEF Alone
  <2>3. ASSUME NEW u \in Threads, CleanupStep(u) PROVE pc'[t] = "idle"
    <3>1. u # t
      <4>1. pc[u] \in ActingPlaces \/ u = Starter BY <1>0, <2>3, CleanupActs DEF StartLoop
      <4>2. "idle" \notin ActingPlaces
        BY DEF ActingPlaces, ForcedPlaces, GracefulPlaces, ClosingPlaces
      <4> QED BY <1>4, <2>1, <4>1, <4>2
    <3> QED BY <1>0, <2>1, <2>3, <3>1, CleanupMoves DEF MovesOnly
  <2>4. \A u \in Closers : ~Abort(u) /\ ~Shutdown(u) BY <1>4 DEF Abort, Shutdown, Known
  <2>5. CASE (\E r \in Streams : ReaderRuns(r)) \/ ProcessesEnd \/ UNCHANGED vars
    BY <2>1, <2>5 DEF ReaderRuns, ProcessesEnd, vars, startVars
  <2> QED BY <2>2, <2>3, <2>4, <2>5 DEF Next, ThreadStep, AllEnded
<1> QED BY <1>0, <1>2, <1>3, <1>4 DEF AloneInv

(* The handles stay with the managed process, but for a close that failed.     *)
LEMMA HandNext ==
    ASSUME WholeInv, CleanInv, TidyStays, [Next]_vars
    PROVE  HandInv'
<1>0. /\ SInv /\ ControlInv /\ Lasts /\ AllKnow /\ LaunchAlone /\ UndoInv /\ HandInv /\ AloneInv
      /\ Starter \in Threads /\ \A t \in Threads : TidyInv(t)
  BY LastsNext, ThreadsAssumption
     DEF WholeInv, ReadInv, AllKnow, SInv, CleanInv, LaunchInv
<1>1. CASE LaunchStep
  <2>1. managed = {} /\ ~closed /\ ~adopted /\ StartStep /\ UNCHANGED sessionVars
    BY <1>0, <1>1, LaunchAt DEF LaunchStep, LaunchAlone
  <2>2. pc'[Starter] \in LaunchPlaces \cup {"managed", "done"}
    <3>1. \A p, m : Goto(Starter, p, m) => pc'[Starter] = p BY <1>0 DEF ControlInv, Goto
    <3>2. \A r : Returns(Starter, r) => pc'[Starter] = "done" BY <1>0 DEF ControlInv, Returns
    <3>3. \A c : FailStart(c) => pc'[Starter] \in {"launch_terminate", "launch_close"}
      BY <3>1 DEF FailStart
    <3> QED
      BY <2>1, <3>1, <3>2, <3>3 DEF StartStep, ClaimLease, AllocateConsole,
         AcquireHandles, BeginPrelaunch, EndPrelaunch, CreateProcess, RetireHandles,
         InspectProcess, LaunchTerminate, LaunchWait, LaunchClose, LaunchFreeConsole,
         LaunchRelease, LaunchPlaces, Launched, Launching, Before
  <2>3. \/ managed' = {} /\ pc'[Starter] # "managed"
        \/ managed' = Retained /\ native' \subseteq Retained
    <3>1. CASE InspectProcess
      <4>1. \A c : FailStart(c) => pc'[Starter] # "managed"
        BY <1>0 DEF FailStart, ControlInv, Goto
      <4>2. native' \subseteq Retained BY <1>0, <3>1 DEF InspectProcess, At, UndoInv
      <4> QED BY <2>1, <3>1, <4>1, <4>2 DEF InspectProcess
    <3>2. CASE ~InspectProcess
      <4>1. \A p, m : Goto(Starter, p, m) => pc'[Starter] = p BY <1>0 DEF ControlInv, Goto
      <4>2. \A r : Returns(Starter, r) => pc'[Starter] = "done" BY <1>0 DEF ControlInv, Returns
      <4>3. \A c : FailStart(c) => pc'[Starter] \in {"launch_terminate", "launch_close"}
        BY <4>1 DEF FailStart
      <4> QED
        BY <2>1, <3>2, <4>1, <4>2, <4>3 DEF StartStep, ClaimLease, AllocateConsole,
           AcquireHandles, BeginPrelaunch, EndPrelaunch, CreateProcess, RetireHandles,
           LaunchTerminate, LaunchWait, LaunchClose, LaunchFreeConsole, LaunchRelease
    <3> QED BY <3>1, <3>2
  <2>4. console' = "freed" => live' = {} /\ Retained \cap native' = {}
    <3>1. CASE pc[Starter] = "launch_console"
      <4>1. LaunchFreeConsole
        BY <2>1, <3>1 DEF StartStep, ClaimLease, AllocateConsole, AcquireHandles, BeginPrelaunch,
           EndPrelaunch, CreateProcess, RetireHandles, InspectProcess, LaunchTerminate,
           LaunchWait, LaunchClose, LaunchRelease, At
      <4>2. loc[Starter].failed \/ native \cap Retained = {} BY <1>0, <3>1 DEF UndoInv
      <4>3. loc[Starter].empty => live = {} BY <1>0 DEF TidyInv, NothingRuns
      <4> QED BY <1>0, <4>1, <4>2, <4>3 DEF LaunchFreeConsole, HandInv
    <3>2. CASE pc[Starter] = "launch_release"
      <4>1. LaunchRelease
        BY <2>1, <3>2 DEF StartStep, ClaimLease, AllocateConsole, AcquireHandles, BeginPrelaunch,
           EndPrelaunch, CreateProcess, RetireHandles, InspectProcess, LaunchTerminate,
           LaunchWait, LaunchClose, LaunchFreeConsole, At
      <4> QED BY <1>0, <4>1 DEF LaunchRelease, HandInv
    <3>3. CASE pc[Starter] \in Launching
      <4>1. console # "freed" BY <1>0, <3>3 DEF UndoInv
      <4>2. console' # "freed"
        BY <2>1, <3>3, <4>1 DEF StartStep, ClaimLease, AllocateConsole, AcquireHandles,
           BeginPrelaunch, EndPrelaunch, CreateProcess, RetireHandles, InspectProcess,
           LaunchTerminate, LaunchWait, LaunchClose, LaunchFreeConsole, LaunchRelease, At,
           Launching, Before
      <4> QED BY <4>2
    <3> QED BY <2>1, <3>1, <3>2, <3>3, LaunchAt DEF LaunchPlaces, Launched
  <2>5. Retained # {} BY DEF Retained
  <2> QED BY <2>1, <2>2, <2>3, <2>4, <2>5 DEF HandInv, sessionVars
<1>2. CASE ~LaunchStep
  <2>1. native' \subseteq native /\ managed' \subseteq managed /\ console' \in {console, "freed"}
    BY <1>0, <1>2, Changes
  <2>2. managed' \subseteq Retained BY <1>0, <2>1 DEF HandInv
  \* What the two steps that close and free do.
  <2>3. ASSUME NEW t \in Threads, CleanupStep(t),
               ~(closed = closed' /\ UNCHANGED <<native, managed, console, uncertain>>)
        PROVE  CloseManaged(t) \/ FreeConsole(t) \/ ClaimProbe(t)
    BY <2>3 DEF CleanupStep, BeginCancel, ContinueCancel, EndCancel, AllCancelled,
       JoinReader, AllJoined, SignalRoot, UndoSignal, WaitRoot, RestoreAndExamine,
       AwaitEmptyJob, BeginVerify, EndVerify, ReleaseManaged, Report, ShutdownFailed,
       ForcedTerminate, ForcedWait, ForcedRestore, ForcedJob, NoHandles, NoClaim
  <2>4. (closed' \/ managed' # {}) /\ ~uncertain' => native' \subseteq managed'
    <3>1. ASSUME NEW t \in Threads, CloseManaged(t), ~uncertain' PROVE native' \subseteq managed'
      <4>1. closed /\ ~uncertain
        BY <1>0, <3>1 DEF CloseManaged, At, AllKnow, ClaimedInv
      <4>2. native \subseteq managed BY <1>0, <4>1 DEF HandInv
      <4> QED BY <3>1, <4>2 DEF CloseManaged, CloseNative
    <3>2. ASSUME NEW t \in Threads, FreeConsole(t)
          PROVE  UNCHANGED <<native, managed, closed>> /\ (~uncertain' => ~uncertain)
      BY <3>2 DEF FreeConsole, NoClaim
    \* Whoever claims the process finds it holding its handles.
    <3>3. ASSUME Claimed PROVE managed # {}
      <4>1. ~closed BY <3>3 DEF Claimed
      <4>2. CASE pc[Starter] \notin LaunchPlaces \cup {"done"} BY <1>0, <4>1, <4>2 DEF HandInv
      <4>3. CASE pc[Starter] \in LaunchPlaces
        <5>1. UNCHANGED closed BY <1>0, <1>2, <4>3, LaunchWaits DEF sessionVars
        <5> QED BY <3>3, <5>1 DEF Claimed
      <4>4. CASE pc[Starter] = "done"
        <5>1. ~SessionStart
          BY <4>4 DEF SessionStart, AttachReaders, StartReaders, FailReaders, PollStartup,
             RecheckStartup, BindSession, Unwind, Step, At
        <5>2. ASSUME NEW t \in Threads, CleanupStep(t), closed # closed' PROVE FALSE
          <6>1. ClaimProbe(t) BY <2>3, <5>2 DEF CloseManaged, FreeConsole, NoClaim
          <6>2. pc[t] \in ActingPlaces BY <6>1 DEF ClaimProbe, At, ActingPlaces
          <6>3. t = Starter BY <1>0, <4>1, <6>2 DEF AloneInv
          <6> QED BY <4>4, <6>1, <6>3 DEF ClaimProbe, At
        <5>3. ASSUME NEW t \in Closers, Abort(t) \/ Shutdown(t) PROVE managed # {}
          <6>1. Known BY <5>3 DEF Abort, Shutdown
          <6> QED BY <1>0, <4>1, <6>1 DEF Known, HandInv
        <5>4. CASE (\E r \in Streams : ReaderRuns(r)) \/ ProcessesEnd \/ UNCHANGED vars
          <6>1. UNCHANGED closed BY <5>4 DEF ReaderRuns, ProcessesEnd, vars, sessionVars
          <6> QED BY <3>3, <6>1 DEF Claimed
        <5>5. closed # closed' BY <3>3 DEF Claimed
        <5> QED
          BY <1>2, <5>1, <5>2, <5>3, <5>4, <5>5
             DEF Next, ThreadStep, StarterStep, SessionStart, AllEnded
      <4> QED BY <4>2, <4>3, <4>4
    <3>4. ASSUME UNCHANGED <<native, managed, uncertain>>, UNCHANGED closed \/ Claimed
          PROVE  (closed' \/ managed' # {}) /\ ~uncertain' => native' \subseteq managed'
      BY <1>0, <3>3, <3>4 DEF HandInv
    <3>5. ASSUME NEW t \in Threads, CleanupStep(t)
          PROVE  (closed' \/ managed' # {}) /\ ~uncertain' => native' \subseteq managed'
      <4>1. CASE CloseManaged(t) BY <3>1, <4>1
      <4>2. CASE FreeConsole(t) BY <1>0, <3>2, <4>2 DEF HandInv
      <4>3. CASE ClaimProbe(t) BY <3>4, <4>3 DEF ClaimProbe, NoHandles
      <4> QED BY <2>3, <3>4, <3>5, <4>1, <4>2, <4>3
    <3>6. CASE SessionStart
      <4>1. UNCHANGED closed \/ Claimed
        BY <3>6 DEF SessionStart, AttachReaders, StartReaders, FailReaders, PollStartup,
           RecheckStartup, BindSession, Unwind, NoClaim
      <4> QED BY <3>4, <3>6, <4>1, SessionKeeps
    <3>7. ASSUME NEW t \in Closers, Abort(t) \/ Shutdown(t)
          PROVE  (closed' \/ managed' # {}) /\ ~uncertain' => native' \subseteq managed'
      BY <3>4, <3>7 DEF Abort, Shutdown, Claim, NoHandles
    <3>8. CASE (\E r \in Streams : ReaderRuns(r)) \/ ProcessesEnd \/ UNCHANGED vars
      <4>1. UNCHANGED <<native, managed, uncertain, closed>>
        BY <3>8 DEF ReaderRuns, ProcessesEnd, vars, startVars, sessionVars
      <4> QED BY <3>4, <4>1
    <3> QED
      BY <1>2, <3>5, <3>6, <3>7, <3>8 DEF Next, ThreadStep, StarterStep, SessionStart, AllEnded
  <2>5. adopted' \/ pc'[Starter] \notin LaunchPlaces \cup {"done"} => managed' # {} \/ closed'
    <3> SUFFICES ASSUME adopted' \/ pc'[Starter] \notin LaunchPlaces \cup {"done"},
                        managed = {}, ~closed
                 PROVE  FALSE
      BY <1>0 DEF TidyStays
    <3>1. ~adopted /\ pc[Starter] \in LaunchPlaces \cup {"done"} BY <1>0 DEF HandInv
    <3>2. pc[Starter] = "done"
      <4>1. pc[Starter] \notin LaunchPlaces
        BY <1>0, <1>2, <3>1, LaunchWaits DEF sessionVars
      <4> QED BY <3>1, <4>1
    <3>3. ~SessionStart
      BY <3>2 DEF SessionStart, AttachReaders, StartReaders, FailReaders, PollStartup,
         RecheckStartup, BindSession, Unwind, Step, At
    <3>4. ASSUME NEW t \in Threads, CleanupStep(t)
          PROVE  UNCHANGED adopted /\ pc'[Starter] = pc[Starter]
      <4>1. UNCHANGED adopted BY <1>0, <3>4, CleanupKeeps
      <4>2. t # Starter
        <5>1. pc[t] \in ActingPlaces \cup {"start_cancel", "start_join"}
          BY <1>0, <3>4, CleanupActs DEF StartLoop
        <5> QED
          BY <3>2, <5>1 DEF ActingPlaces, ForcedPlaces, GracefulPlaces, ClosingPlaces
      <4> QED BY <1>0, <3>4, <4>1, <4>2, CleanupMoves DEF MovesOnly
    <3>5. ASSUME NEW t \in Closers, Abort(t) \/ Shutdown(t) PROVE FALSE
      BY <3>1, <3>5 DEF Abort, Shutdown, Known
    <3>6. CASE (\E r \in Streams : ReaderRuns(r)) \/ ProcessesEnd \/ UNCHANGED vars
      <4>1. UNCHANGED <<pc, adopted>>
        BY <3>6 DEF ReaderRuns, ProcessesEnd, vars, startVars, sessionVars
      <4> QED BY <3>1, <3>2, <4>1
    <3> QED
      BY <1>2, <3>1, <3>2, <3>3, <3>4, <3>5, <3>6
         DEF Next, ThreadStep, StarterStep, SessionStart, AllEnded
  <2>6. console' = "freed" => live' = {} /\ Retained \cap native' = {}
    <3>1. CASE console = "freed"
      <4>1. pc[Starter] # "create" BY <1>0, <3>1 DEF UndoInv, Launching, Before
      <4>2. live' = {} BY <1>0, <3>1, <4>1, RunChanges DEF HandInv, ProcessesEnd
      <4> QED BY <1>0, <2>1, <3>1, <4>2 DEF HandInv
    <3>2. ASSUME console # "freed", console' = "freed"
          PROVE  live' = {} /\ Retained \cap native' = {}
      <4>1. PICK t \in Threads : FreeConsole(t)
        <5>1. ~SessionStart BY <3>2, SessionKeeps
        <5>2. \A t \in Closers : ~Abort(t) /\ ~Shutdown(t)
          BY <3>2 DEF Abort, Shutdown, Claim, NoHandles
        <5>3. ~((\E r \in Streams : ReaderRuns(r)) \/ ProcessesEnd \/ UNCHANGED vars)
          BY <3>2 DEF ReaderRuns, ProcessesEnd, vars, startVars
        <5>4. \A t \in Threads : CleanupStep(t) => FreeConsole(t)
          BY <2>3, <3>2 DEF CloseManaged, ClaimProbe, NoHandles
        <5> QED
          BY <1>2, <5>1, <5>2, <5>3, <5>4
             DEF Next, ThreadStep, StarterStep, SessionStart, AllEnded
      <4>2. /\ loc[t].empty /\ managed = {} /\ ~uncertain /\ pc[t] = "close"
            /\ UNCHANGED <<live, native>>
        BY <3>2, <4>1 DEF FreeConsole, At
      <4>3. live = {} BY <1>0, <4>2 DEF TidyInv, NothingRuns
      <4>4. closed BY <1>0, <4>2 DEF AllKnow, ClaimedInv
      <4>5. native = {} BY <1>0, <4>2, <4>4 DEF HandInv
      <4> QED BY <4>2, <4>3, <4>5
    <3> QED BY <3>1, <3>2
  <2> QED BY <2>2, <2>4, <2>5, <2>6 DEF HandInv
<1> QED BY <1>1, <1>2

(* The Job counts as empty in the launch when no process was created, or when  *)
(* it was seen empty; and an end without cleanup_failed has given all back.    *)
LEMMA TidyLaunch ==
    ASSUME WholeInv, CleanInv, TidyStays, LaunchStep
    PROVE  TidyInv(Starter)'
<1> DEFINE l == loc[Starter]
<1>0. /\ Starter \in Threads /\ SInv /\ ControlInv /\ CloseInv /\ BeforeInv /\ l \in LocalsSet
      /\ LaunchAlone /\ UndoInv /\ TidyInv(Starter) /\ CallsInv
  BY ThreadsAssumption
     DEF WholeInv, SInv, ControlInv, CleanInv, LaunchInv, ReadInv, StartedInv, CallsInv
<1>a. \A p, m : Goto(Starter, p, m) => pc'[Starter] = p /\ loc'[Starter] = m
  BY <1>0 DEF ControlInv, Goto
<1>b. /\ managed = {} /\ ~closed /\ ~ctrl_c /\ UNCHANGED sessionVars
      /\ StartStep /\ pc[Starter] \in LaunchPlaces
  BY <1>0, LaunchAt DEF LaunchStep, LaunchAlone
<1>c. pc[Starter] \in JoinedPlaces => l.joined BY <1>0 DEF TidyInv
<1>d. l.empty => NothingRuns BY <1>0 DEF TidyInv
<1>e. ASSUME UNCHANGED result, pc'[Starter] \in Launched,
             loc'[Starter].empty => NothingRuns', pc'[Starter] \in JoinedPlaces => loc'[Starter].joined
      PROVE  TidyInv(Starter)'
  <2>1. pc'[Starter] \notin ClosingPlaces \cup {"verifying"}
    BY <1>e DEF ClosingPlaces, Launched, Launching, Before
  <2> QED BY <1>0, <1>e, <2>1 DEF TidyStays, TidyInv, ClosingPlaces
<1>f. ASSUME UNCHANGED result, pc[Starter] \in JoinedPlaces,
             "process" \in owned' \/ live' = {}, \E c : FailStart(c)
      PROVE  TidyInv(Starter)'
  <2> DEFINE m(c) == [l EXCEPT !.code = c, !.empty = "process" \notin owned', !.todo = CloseOrder]
  <2>1. \A c : m(c).empty = ("process" \notin owned') /\ m(c).joined = l.joined
    BY <1>0 DEF LocalsSet
  <2>2. \E c : Goto(Starter, IF "process" \in owned' THEN "launch_terminate"
                             ELSE "launch_close", m(c))
    BY <1>f DEF FailStart
  <2> HIDE DEF m
  <2>3. /\ pc'[Starter] \in {"launch_terminate", "launch_close"}
        /\ loc'[Starter].empty = ("process" \notin owned') /\ loc'[Starter].joined = l.joined
    BY <1>a, <2>1, <2>2
  <2>4. {"launch_terminate", "launch_close"} \subseteq Launched \ Before
    BY DEF Launched, Launching, Before
  <2> QED BY <1>c, <1>e, <1>f, <2>3, <2>4 DEF NothingRuns
<1>g. ASSUME UNCHANGED result, pc[Starter] \in JoinedPlaces, pc'[Starter] \in Launched,
             loc'[Starter].empty = l.empty, loc'[Starter].joined = l.joined
      PROVE  TidyInv(Starter)'
  BY <1>c, <1>d, <1>e, <1>g DEF TidyStays
<1>h. pc[Starter] \in Before => live = {} BY <1>0 DEF BeforeInv
<1>i. pc[Starter] \in Launching => pc[Starter] \in JoinedPlaces BY DEF JoinedPlaces
<1>j. Before \subseteq Launching /\ Launching \subseteq Launched BY DEF Launching, Launched
<1>1. CASE ClaimLease
  <2>1. pc[Starter] \in Before /\ UNCHANGED result BY <1>1 DEF ClaimLease, At, Before
  <2>2. pc'[Starter] = "console" /\ loc'[Starter] = l BY <1>1, <1>a DEF ClaimLease
  <2> QED BY <1>g, <1>i, <1>j, <2>1, <2>2 DEF Before
<1>2. CASE AllocateConsole
  <2> DEFINE m == [l EXCEPT !.todo = <<"job", "stdin", "stdout", "stderr", "attributes">>]
  <2>1. m.empty = l.empty /\ m.joined = l.joined BY <1>0 DEF LocalsSet
  <2>2. /\ pc[Starter] \in Before /\ UNCHANGED <<result, live>>
        /\ Goto(Starter, "acquire", m) \/ \E c : FailStart(c)
    BY <1>2 DEF AllocateConsole, At, Before
  <2> HIDE DEF m
  <2>3. CASE Goto(Starter, "acquire", m)
    <3>1. /\ pc'[Starter] \in Before /\ loc'[Starter].empty = l.empty
          /\ loc'[Starter].joined = l.joined
      BY <1>a, <2>1, <2>3 DEF Before
    <3> QED BY <1>g, <1>i, <1>j, <2>2, <3>1
  <2> QED BY <1>f, <1>h, <1>i, <1>j, <2>2, <2>3
<1>3. CASE AcquireHandles
  <2> DEFINE m == [l EXCEPT !.todo = Tail(@)]
  <2>1. m.empty = l.empty /\ m.joined = l.joined BY <1>0 DEF LocalsSet
  <2>2. /\ pc[Starter] \in Before /\ UNCHANGED <<result, live>>
        /\ \/ \E p \in Before : Goto(Starter, p, m) \/ Goto(Starter, p, l)
           \/ \E c : FailStart(c)
    BY <1>3 DEF AcquireHandles, At, Before
  <2> HIDE DEF m
  <2>3. CASE \E p \in Before : Goto(Starter, p, m) \/ Goto(Starter, p, l)
    <3>1. /\ pc'[Starter] \in Before /\ loc'[Starter].empty = l.empty
          /\ loc'[Starter].joined = l.joined
      BY <1>a, <2>1, <2>3
    <3> QED BY <1>g, <1>i, <1>j, <2>2, <3>1
  <2> QED BY <1>f, <1>h, <1>i, <1>j, <2>2, <2>3
<1>4. CASE BeginPrelaunch \/ EndPrelaunch
  <2>1. /\ pc[Starter] \in Before /\ UNCHANGED <<result, live>>
        /\ (pc'[Starter] \in Before /\ loc'[Starter] = l) \/ \E c : FailStart(c)
    BY <1>4, <1>a DEF BeginPrelaunch, EndPrelaunch, At, Before
  <2> QED BY <1>f, <1>g, <1>h, <1>i, <1>j, <2>1
<1>5. CASE CreateProcess
  <2> DEFINE m == [l EXCEPT !.todo = <<"attributes", "thread">> \o Children]
  <2>1. m.empty = l.empty /\ m.joined = l.joined BY <1>0 DEF LocalsSet
  <2>2. /\ pc[Starter] \in Before /\ UNCHANGED result
        /\ Goto(Starter, "retire", m) \/ \E c : FailStart(c)
        /\ "process" \in owned' \/ UNCHANGED live
    BY <1>5 DEF CreateProcess, At, Before
  <2> HIDE DEF m
  <2>3. CASE Goto(Starter, "retire", m)
    <3>1. /\ pc'[Starter] \in Launched /\ loc'[Starter].empty = l.empty
          /\ loc'[Starter].joined = l.joined
      BY <1>a, <2>1, <2>3 DEF Launched, Launching
    <3> QED BY <1>g, <1>i, <1>j, <2>2, <3>1
  <2> QED BY <1>f, <1>h, <1>i, <1>j, <2>2, <2>3
<1>6. CASE RetireHandles
  <2> DEFINE m == [l EXCEPT !.todo = Tail(@)]
  <2>1. m.empty = l.empty /\ m.joined = l.joined BY <1>0 DEF LocalsSet
  <2>2. /\ pc[Starter] = "retire" /\ UNCHANGED result
        /\ \/ Goto(Starter, "retire", m) \/ Goto(Starter, "inspect", l)
           \/ l.todo # <<>> /\ owned' = owned \ {Head(l.todo)} /\ \E c : FailStart(c)
    BY <1>6 DEF RetireHandles, At
  <2>3. {"retire", "inspect"} \subseteq Launching BY DEF Launching
  <2> HIDE DEF m
  <2>4. CASE Goto(Starter, "retire", m) \/ Goto(Starter, "inspect", l)
    <3>1. /\ pc'[Starter] \in {"retire", "inspect"} /\ loc'[Starter].empty = l.empty
          /\ loc'[Starter].joined = l.joined
      BY <1>a, <2>1, <2>4
    <3> QED BY <1>g, <1>i, <1>j, <2>2, <2>3, <3>1
  <2>5. CASE l.todo # <<>> /\ owned' = owned \ {Head(l.todo)} /\ \E c : FailStart(c)
    <3>1. Head(l.todo) \notin Retained
      <4>1. /\ Distinct(l.todo)
            /\ \A i \in 1 .. Len(l.todo) : l.todo[i] \notin Retained
        BY <1>0, <2>2 DEF CloseInv
      <4>2. l.todo \in Seq(Handles) BY <1>0 DEF LocalsSet
      <4> QED BY <2>5, <4>1, <4>2, TailDistinct
    <3>2. "process" \in owned' BY <1>0, <2>2, <2>5, <3>1 DEF UndoInv, Retained
    <3> QED BY <1>f, <1>i, <2>2, <2>3, <2>5, <3>2
  <2> QED BY <2>2, <2>4, <2>5
<1>7. CASE InspectProcess
  <2>1. /\ pc[Starter] = "inspect" /\ UNCHANGED result
        /\ \/ pc'[Starter] = "managed" /\ loc'[Starter] = l
           \/ UNCHANGED owned /\ \E c : FailStart(c)
    BY <1>7, <1>a DEF InspectProcess, At
  <2>2. "process" \in owned BY <1>0, <2>1 DEF UndoInv
  <2>3. "inspect" \in Launching /\ "managed" \in Launched BY DEF Launching, Launched
  <2> QED BY <1>f, <1>g, <1>i, <2>1, <2>2, <2>3
<1>8. CASE LaunchTerminate
  <2> DEFINE m == [l EXCEPT !.failed = TRUE]
  <2>1. m.empty = l.empty /\ m.joined = l.joined BY <1>0 DEF LocalsSet
  <2>2. /\ pc[Starter] = "launch_terminate" /\ UNCHANGED result
        /\ Goto(Starter, "launch_wait", l) \/ Goto(Starter, "launch_wait", m)
    BY <1>8 DEF LaunchTerminate, At
  <2> HIDE DEF m
  <2>3. /\ pc'[Starter] = "launch_wait" /\ loc'[Starter].empty = l.empty
        /\ loc'[Starter].joined = l.joined
    BY <1>a, <2>1, <2>2
  <2>4. {"launch_terminate", "launch_wait"} \subseteq Launching BY DEF Launching
  <2> QED BY <1>g, <1>i, <1>j, <2>2, <2>3, <2>4
<1>9. CASE LaunchWait
  <2> DEFINE m == [l EXCEPT !.empty = TRUE]
             late(seen) == [l EXCEPT !.failed = TRUE, !.empty = seen]
  <2>1. /\ m.empty /\ m.joined = l.joined
        /\ \A seen : late(seen).empty = seen /\ late(seen).joined = l.joined
    BY <1>0 DEF LocalsSet
  <2>2. /\ pc[Starter] = "launch_wait" /\ UNCHANGED <<result, live>>
        /\ \/ live = {} /\ Goto(Starter, "launch_close", m)
           \/ \E seen \in BOOLEAN : (seen => live = {}) /\ Goto(Starter, "launch_close", late(seen))
    BY <1>9 DEF LaunchWait, At
  <2> HIDE DEF m, late
  <2>3. /\ pc'[Starter] = "launch_close" /\ loc'[Starter].joined = l.joined
        /\ loc'[Starter].empty => live = {}
    BY <1>a, <2>1, <2>2
  <2>4. {"launch_wait", "launch_close"} \subseteq Launching \ Before BY DEF Launching, Before
  <2> QED BY <1>c, <1>e, <1>i, <1>j, <2>2, <2>3, <2>4 DEF NothingRuns
<1>10. CASE LaunchClose
  <2> DEFINE m == [l EXCEPT !.todo = Tail(@)]
             n(ok) == [l EXCEPT !.todo = Tail(@), !.failed = @ \/ ~ok]
  <2>1. /\ m.empty = l.empty /\ m.joined = l.joined
        /\ \A ok : n(ok).empty = l.empty /\ n(ok).joined = l.joined
    BY <1>0 DEF LocalsSet
  <2>2. /\ pc[Starter] = "launch_close" /\ UNCHANGED result
        /\ \/ Goto(Starter, "launch_console", l)
           \/ Goto(Starter, "launch_close", m)
           \/ \E ok : Goto(Starter, "launch_close", n(ok))
    BY <1>10 DEF LaunchClose, At
  <2> HIDE DEF m, n
  <2>3. /\ pc'[Starter] \in {"launch_close", "launch_console"}
        /\ loc'[Starter].empty = l.empty /\ loc'[Starter].joined = l.joined
    BY <1>a, <2>1, <2>2
  <2>4. {"launch_close", "launch_console"} \subseteq Launched /\ "launch_close" \in Launching
    BY DEF Launched, Launching
  <2> QED BY <1>g, <1>i, <2>2, <2>3, <2>4
<1>11. CASE LaunchFreeConsole
  <2> DEFINE m == [l EXCEPT !.failed = TRUE]
             n == [l EXCEPT !.failed = @ \/ console = "private"]
  <2>1. m.empty = l.empty /\ n.empty = l.empty BY <1>0 DEF LocalsSet
  <2>2. /\ UNCHANGED result
        /\ \E x \in {l, m, n} : Goto(Starter, "launch_release", x)
    BY <1>11 DEF LaunchFreeConsole
  <2> HIDE DEF m, n
  <2>3. pc'[Starter] = "launch_release" /\ loc'[Starter].empty = l.empty
    BY <1>a, <2>1, <2>2
  <2>4. "launch_release" \in Launched /\ "launch_release" \notin JoinedPlaces
    BY DEF Launched, JoinedPlaces, Launching, Before, GracefulPlaces
  <2> QED BY <1>d, <1>e, <2>2, <2>3, <2>4 DEF TidyStays
<1>12. CASE LaunchRelease
  <2>1. /\ pc[Starter] = "launch_release" /\ lease' = "released" /\ UNCHANGED loc
        /\ UNCHANGED <<live, native, console>>
        /\ \/ Returns(Starter, "cleanup_failed")
           \/ ~(l.failed \/ l.code = "cleanup_failed") /\ Returns(Starter, "error")
    BY <1>12 DEF LaunchRelease, ReleaseLease, At
  <2>2. ~(l.failed \/ l.code = "cleanup_failed") =>
            live = {} /\ native = {} /\ console # "private"
    BY <1>0, <2>1 DEF UndoInv
  <2>3. ~(l.failed \/ l.code = "cleanup_failed") => AllGivenBack'
    BY <1>b, <2>1, <2>2 DEF AllGivenBack, sessionVars
  <2> QED BY <1>0, <2>1, <2>3, TidyReturns
<1> QED
  BY <1>b, <1>1, <1>2, <1>3, <1>4, <1>5, <1>6, <1>7, <1>8, <1>9, <1>10, <1>11, <1>12
     DEF StartStep


LEMMA CleanInit == Init => CleanInv
<1> SUFFICES ASSUME Init PROVE CleanInv
  OBVIOUS
<1>1. /\ \A t \in Threads : pc[t] \in {"claim", "idle"} /\ result[t] = "none"
                            /\ ~loc[t].empty /\ loc[t].joined
      /\ Starter \in Threads /\ pc[Starter] = "claim"
      /\ \A t \in Threads : t # Starter => pc[t] = "idle"
      /\ native = {} /\ managed = {} /\ console = "inherited"
      /\ ~closed /\ ~adopted /\ ~ctrl_c /\ ~uncertain
  BY ThreadsAssumption DEF Init, Locals
<1>2. "claim" \in Before /\ Before \subseteq Launching /\ Launching \subseteq Launched
  BY DEF Before, Launching, Launched
<1>3. {"claim", "idle"} \cap (ActingPlaces \cup ClosingPlaces) = {}
  BY DEF ActingPlaces, ForcedPlaces, GracefulPlaces, ClosingPlaces
<1>4. LaunchInv BY <1>1 DEF LaunchInv, LaunchAlone, UndoInv
<1>5. HandInv BY <1>1, <1>2 DEF HandInv, LaunchPlaces
<1>6. AloneInv BY <1>1, <1>3 DEF AloneInv
<1>7. ASSUME NEW t \in Threads PROVE TidyInv(t)
  BY <1>1, <1>3 DEF TidyInv
<1> QED BY <1>4, <1>5, <1>6, <1>7 DEF CleanInv

LEMMA CleanNext ==
    ASSUME WholeInv, EvidenceInv, CleanInv, [Next]_vars
    PROVE  CleanInv'
<1>1. /\ SInv /\ ControlInv /\ CallsInv /\ AllKnow /\ ExitInv
      /\ LaunchInv /\ LaunchAlone /\ HandInv /\ AloneInv /\ Starter \in Threads
      /\ \A t \in Threads : EarnedInv(t) /\ TidyInv(t)
  BY ThreadsAssumption
     DEF WholeInv, ReadInv, StartedInv, CallsInv, AllKnow, SInv, EvidenceInv, CleanInv, LaunchInv
<1>2. TidyStays BY TidyLasts
<1>3. LaunchInv' /\ HandInv' /\ AloneInv' BY <1>2, LaunchNext, HandNext, AloneNext
\* A thread's step keeps what it knows, and disturbs nobody.
<1>4. ASSUME NEW t \in Threads, TidyInv(t)', UNCHANGED result \/ \E r : Returns(t, r),
             \A u \in Threads : u # t => pc'[u] = pc[u] /\ loc'[u] = loc[u],
             \A u \in Threads : u # t /\ pc[u] \in ActingPlaces =>
                UNCHANGED <<native, managed, console, lease, ctrl_c, uncertain>>
      PROVE  CleanInv'
  <2>1. \A u \in Threads : u # t => result'[u] = result[u]
    BY <1>1, <1>4 DEF Returns, CallsInv
  <2>2. ASSUME NEW u \in Threads, u # t PROVE TidyInv(u)'
    <3>1. Undisturbed(u) BY <1>4, <2>1, <2>2 DEF Undisturbed
    <3> QED BY <1>1, <1>2, <3>1, TidyStands
  <2> QED BY <1>3, <1>4, <2>2 DEF CleanInv
<1>5. CASE StarterStep
  <2>1. CASE LaunchStep
    <3>1. TidyInv(Starter)' BY <1>2, <2>1, TidyLaunch
    <3>2. "idle" \notin ActingPlaces
      BY DEF ActingPlaces, ForcedPlaces, GracefulPlaces, ClosingPlaces
    <3>3. \A u \in Threads : u # Starter => pc[u] \notin ActingPlaces
      BY <1>1, <2>1, <3>2, LaunchAt DEF LaunchStep, LaunchAlone
    <3>4. UNCHANGED result \/ \E r : Returns(Starter, r)
      BY <2>1 DEF LaunchStep, StartStep, ClaimLease, AllocateConsole,
         AcquireHandles, BeginPrelaunch, EndPrelaunch, CreateProcess, RetireHandles,
         InspectProcess, LaunchTerminate, LaunchWait, LaunchClose, LaunchFreeConsole,
         LaunchRelease
    <3>5. Alone(Starter) BY <1>1, <1>5, StarterAlone
    <3> QED BY <1>1, <1>4, <3>1, <3>3, <3>4, <3>5 DEF Alone
  <2>2. CASE SessionStart
    <3>1. TidyInv(Starter)' BY <1>1, <1>2, <2>2, TidySession
    <3>2. UNCHANGED <<native, managed, console, lease, ctrl_c, uncertain>>
      BY <2>2, SessionKeeps
    <3>3. UNCHANGED result \/ \E r : Returns(Starter, r)
      BY <2>2 DEF SessionStart, AttachReaders, StartFails, StartReaders, FailReaders,
         PollStartup, RecheckStartup, BindSession, Unwind
    <3>4. Alone(Starter) BY <1>1, <1>5, StarterAlone
    <3> QED BY <1>1, <1>4, <3>1, <3>2, <3>3, <3>4 DEF Alone
  <2> QED BY <1>5, <2>1, <2>2 DEF StarterStep, SessionStart
<1>6. ASSUME NEW t \in Threads, CleanupStep(t) PROVE CleanInv'
  <2>1. EarnedInv(t) /\ ClaimedInv(t) /\ TidyInv(t) BY <1>1 DEF AllKnow
  <2>2. TidyInv(t)'
    BY <1>1, <1>2, <1>6, <2>1, TidyGraceful, TidyForced, TidyClosing
       DEF CleanupStep, Graceful, ForcedStep, Closing
  <2>3. UNCHANGED result \/ \E r : Returns(t, r) BY <1>1, <1>6, CleanupKeeps
  <2>4. Alone(t) BY <1>1, <1>6, CleanupAlone
  <2>5. \A u \in Threads : u # t /\ pc[u] \in ActingPlaces =>
           UNCHANGED <<native, managed, console, lease, ctrl_c, uncertain>>
    BY <1>1, <1>6, CleanupActs DEF StartLoop, AloneInv
  <2> QED BY <1>4, <2>2, <2>3, <2>4, <2>5 DEF Alone
<1>7. ASSUME NEW t \in Closers, Abort(t) \/ Shutdown(t) PROVE CleanInv'
  <2>1. t \in Threads BY ThreadsAssumption
  <2>2. TidyInv(t)' BY <1>1, <1>2, <1>7, <2>1, TidyCalls
  <2>3. UNCHANGED result \/ \E r : Returns(t, r) BY <1>7 DEF Abort, Shutdown, Claim
  <2>4. \A u \in Threads : u # t => pc'[u] = pc[u] /\ loc'[u] = loc[u]
    BY <1>1, <1>7, <2>1 DEF Abort, Shutdown, Claim, Goto, Returns, ControlInv
  <2>5. UNCHANGED <<native, managed, console, lease, ctrl_c, uncertain>>
    BY <1>7 DEF Abort, Shutdown, Claim, NoHandles, NoSignal
  <2> QED BY <1>4, <2>1, <2>2, <2>3, <2>4, <2>5
<1>8. CASE (\E r \in Streams : ReaderRuns(r)) \/ ProcessesEnd \/ UNCHANGED vars
  <2>1. UNCHANGED <<pc, loc, result, native, managed, console, lease, sessionVars>>
    BY <1>8 DEF ReaderRuns, ProcessesEnd, vars, startVars
  <2>2. \A u \in Threads : Undisturbed(u) BY <2>1 DEF Undisturbed, sessionVars
  <2> QED BY <1>1, <1>2, <1>3, <2>2, TidyStands DEF CleanInv
<1> QED BY <1>5, <1>6, <1>7, <1>8 DEF Next, ThreadStep, AllEnded

(* A call that reports a clean end has left nothing behind, and the console is  *)
(* freed only when no process is left on it and its handles are closed: only    *)
(* one thread is ever at work on the handles, what it says it closed is closed, *)
(* and a close, a join or a wait that came to nothing is remembered until the   *)
(* call returns.                                                               *)
THEOREM EndsClean == Spec => []CleanEndIsClean
<1>1. Init => WholeInv /\ EvidenceInv /\ CleanInv BY WholeInit, EvidenceInit, CleanInit
<1>2. WholeInv /\ EvidenceInv /\ CleanInv /\ [Next]_vars => WholeInv' /\ EvidenceInv' /\ CleanInv'
  BY WholeNext, EvidenceNext, CleanNext
<1>3. CleanInv => CleanEndIsClean
  <2> SUFFICES ASSUME CleanInv PROVE CleanEndIsClean
    OBVIOUS
  <2>1. HandInv /\ \A t \in Threads : TidyInv(t) BY DEF CleanInv
  <2>2. \A t \in Closers : t \in Threads /\ t # Starter BY ThreadsAssumption
  <2>3. Starter \in Threads BY ThreadsAssumption
  <2> QED BY <2>1, <2>2, <2>3 DEF HandInv, TidyInv, CleanEndIsClean
<1> QED BY <1>1, <1>2, <1>3, PTL DEF Spec
=============================================================================
