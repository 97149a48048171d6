----------------------- MODULE GenerationStreamProofs -----------------------
(***************************************************************************)
(* The inductive invariant of one generation request: where its three      *)
(* threads may be together, who holds the connection, who closes the       *)
(* stream, who disconnects while recovery runs, and what a result that is  *)
(* released rests on.  LocalAnswerProofs uses it for the composition.      *)
(***************************************************************************)
EXTENDS GenerationStream, TLAPS

(* Everything that changes the variables of the stream; the user may       *)
(* cancel at any time.                                                     *)
CancelSet ==
  /\ cancel' = TRUE
  /\ UNCHANGED <<pc, close, watcher, timer, streamVars, expired, stop, trouble,
                 got, reply>>

StreamStep == Main \/ Server \/ Timer \/ Watcher \/ CancelSet

Opening == {"start", "connect", "enter", "check"}
Reading3 == {"read", "blocked", "received"}
Streaming == Reading3 \cup {"caught", "recover", "closing", "joining", "final"}

ThreadsTypeOK ==
  /\ pc \in Opening \cup Streaming \cup {"unwind", "unwound", "over"}
  /\ close \in [Threads -> {"idle", "begin", "iterator", "cancel", "join", "claim",
                            "close", "finish", "done"}]
  /\ watcher \in {"off", "waiting", "closing", "over"}
  /\ timer \in {"off", "armed", "cancelled", "firing", "over"}

ConnectionTypeOK ==
  /\ resource \in [Resources -> {"absent", "open", "closed", "failed"}]
  /\ owned \subseteq Resources
  /\ held \in [Threads -> SUBSET Resources]
  /\ claimed \in BOOLEAN
  /\ stream \in [closed : BOOLEAN, closing : BOOLEAN, reading : BOOLEAN]

SignalsTypeOK ==
  /\ expired \in BOOLEAN /\ cancel \in BOOLEAN /\ stop \in BOOLEAN
  /\ trouble \in [Threads -> BOOLEAN]
  /\ got \in {"none", "chunk", "end", "error", "timeout"}
  /\ reply \in {"none", "released", "cancelled", "timeout", "error", "invariant"}

StreamTypeOK == ThreadsTypeOK /\ ConnectionTypeOK /\ SignalsTypeOK

(* Where the threads may be.                                               *)
PlaceInv ==
  /\ close["timer"] \in {"idle", "claim", "close", "done"}
  /\ close["timer"] # "idle" <=> timer = "firing"
  /\ close["watcher"] # "idle" <=> watcher = "closing"
  /\ close["main"] # "idle" => pc \in {"unwind", "unwound", "closing"}
  /\ close["main"] \in {"begin", "iterator", "finish"} => pc = "closing"
  /\ pc = "start" => timer = "off"
  /\ pc \in Streaming => watcher # "off"
  /\ pc \in Opening \cup {"unwind", "unwound"} =>
       watcher = "off" /\ ~stop /\ ~stream.closing /\ ~stream.closed
  /\ stream.reading <=> pc \in {"blocked", "received"}

(* Who holds the connection.                                               *)
OwnerInv ==
  /\ claimed => owned = {}
  /\ \A t \in Threads : held[t] # {} => claimed /\ close[t] = "close"
  /\ \A r \in Resources : resource[r] = "open" <=> (r \in owned \/ \E t \in Threads : r \in held[t])
  /\ \A r \in Resources, t, u \in Threads : r \in held[t] /\ r \in held[u] => t = u
  /\ pc \in {"start", "connect"} => \A r \in Resources : resource[r] = "absent"
  /\ pc = "enter" => resource["context"] = "absent" /\ resource["client"] # "absent"
  /\ pc \in {"check"} \cup Streaming => \A r \in Resources : resource[r] # "absent"

(* The thread that has begun to close the stream, and has not ended.       *)
Closes(t) ==
  /\ close[t] \in {"iterator", "cancel", "join", "claim", "close", "finish"}
  /\ t = "watcher" \/ (t = "main" /\ pc = "closing")

(* There is one, and it takes the iterator only from an idle reader.       *)
CloserInv ==
  /\ ~(Closes("main") /\ Closes("watcher"))
  /\ \A t \in Threads : Closes(t) => stream.closing \/ stream.closed
  /\ \A t \in Threads : close[t] = "iterator" => stream.closing /\ ~stream.reading

(* Who disconnects, until the finally clause does.                         *)
DisconnectInv ==
  /\ expired => claimed \/ (timer = "firing" /\ close["timer"] = "claim")
  /\ got = "timeout" => expired
  /\ pc = "recover" => cancel \/ got = "timeout"
  /\ pc \in Reading3 \cup {"caught", "recover"} =>
       /\ ~stop
       /\ watcher = "waiting" \/ close["watcher"] = "begin" =>
            ~stream.closing /\ ~stream.closed
       /\ watcher = "closing" =>
            claimed \/ close["watcher"] \in {"begin", "iterator", "cancel", "join", "claim"}
       /\ watcher = "over" => claimed

(* What the reply rests on when nobody has cancelled.                      *)
ReplyInv ==
  /\ watcher = "closing" \/ trouble["watcher"] => cancel
  /\ pc \in Opening \cup Reading3 \cup {"caught", "final"} => reply = "none"
  /\ pc = "recover" => reply # "none"
  /\ pc \in Opening \cup Streaming =>
       \A r \in Resources : resource[r] = "failed" => \E t \in Threads : trouble[t]
  /\ pc \in {"closing", "joining", "final"} /\ reply = "none" => got = "end"
  /\ reply = "released" => pc = "over"

Undisturbed ==
  ~cancel =>
    /\ pc \in Reading3 \cup {"caught", "recover"} => ~stream.closing /\ ~stream.closed
    /\ pc = "closing" /\ close["main"] \in {"idle", "begin"} =>
         ~stream.closing /\ ~stream.closed
    /\ pc = "closing" /\ close["main"] \in {"claim", "close", "finish", "done"} =>
         trouble["main"] \/ timer = "over"
    /\ pc = "closing" /\ close["main"] \in {"close", "finish", "done"} => claimed
    /\ pc = "closing" /\ close["main"] = "done" => trouble["main"] \/ ~trouble["timer"]
    /\ pc \in {"joining", "final"} /\ reply = "none" =>
         claimed /\ timer = "over" /\ \A t \in Threads : ~trouble[t]

StreamInv ==
  /\ StreamTypeOK /\ PlaceInv /\ OwnerInv /\ CloserInv /\ DisconnectInv
  /\ ReplyInv /\ Undisturbed /\ ReleasedWhole

(* The stream begins so.                                                   *)
(* The stream begins so.                                                   *)
(* The stream begins so.                                                   *)
(* The stream begins so.                                                   *)
(* The stream begins so.                                                   *)
(* The stream begins so.                                                   *)
(* The stream begins so.                                                   *)
(* The stream begins so.                                                   *)
(* The stream begins so.                                                   *)
(* The stream begins so.                                                   *)
(* The stream begins so.                                                   *)
(* The stream begins so.                                                   *)
(* The stream begins so.                                                   *)
(* The stream begins so.                                                   *)
(* The stream begins so.                                                   *)
(* The stream begins so.                                                   *)
(* The stream begins so.                                                   *)
(* The stream begins so.                                                   *)
(* The stream begins so.                                                   *)
(* The stream begins so.                                                   *)
(* The stream begins so.                                                   *)
(* The stream begins so.                                                   *)
LEMMA StreamInitInv == StreamInit => StreamInv
<1> SUFFICES ASSUME StreamInit PROVE StreamInv
  OBVIOUS
<1>1. StreamTypeOK
  BY DEF StreamInit, Threads, Resources, Opening, Reading3, Streaming,
         StreamTypeOK, ThreadsTypeOK,
         ConnectionTypeOK, SignalsTypeOK
<1>2. PlaceInv
  BY DEF StreamInit, Threads, Resources, Opening, Reading3, Streaming, PlaceInv
<1>3. OwnerInv
  BY DEF StreamInit, Threads, Resources, Opening, Reading3, Streaming, OwnerInv
<1>4. CloserInv
  BY DEF StreamInit, Threads, Resources, Opening, Reading3, Streaming,
         CloserInv, Closes
<1>5. DisconnectInv /\ ReplyInv /\ Undisturbed /\ ReleasedWhole
  BY DEF StreamInit, Threads, Resources, Opening, Reading3, Streaming,
         DisconnectInv, ReplyInv, Undisturbed, ReleasedWhole
<1> QED
  BY <1>1, <1>2, <1>3, <1>4, <1>5 DEF StreamInv

(* Every step keeps the places of the threads in their types.              *)
LEMMA ThreadsTypeOKStep ==
  ASSUME StreamInv, StreamStep
  PROVE  ThreadsTypeOK'
<1> USE StreamInv DEF StreamInv, StreamTypeOK, ThreadsTypeOK, ConnectionTypeOK,
        SignalsTypeOK, Threads, Resources, Closed, Opening, Reading3, Streaming
<1>1. CASE Start
  BY <1>1 DEF Start, TimerAtStart, streamVars
<1>2. CASE Connect
  BY <1>2 DEF Connect, Adopt
<1>3. CASE Answer
  BY <1>3 DEF Answer, Adopt
<1>4. CASE NoAnswer
  BY <1>4 DEF NoAnswer, streamVars
<1>5. CASE CheckResponse
  BY <1>5 DEF CheckResponse, streamVars
<1>6. CASE Unwind
  BY <1>6 DEF Unwind, streamVars
<1>7. CASE BeginRead
  BY <1>7 DEF BeginRead
<1>8. ASSUME NEW what \in {"chunk", "end", "error"}, Receive(what) PROVE ThreadsTypeOK'
  BY <1>8 DEF Receive, streamVars
<1>9. CASE EndRead
  BY <1>9 DEF EndRead
<1>10. CASE Catch
  BY <1>10 DEF Catch, Proceed, StopsWatcher, streamVars
<1>11. CASE Recover
  BY <1>11 DEF Recover, Proceed, StopsWatcher, streamVars
<1>12. CASE Finally
  BY <1>12 DEF Finally, GoTo, streamVars
<1>13. CASE JoinWatcher
  BY <1>13 DEF JoinWatcher, streamVars
<1>14. CASE Release
  BY <1>14 DEF Release, streamVars
<1>15. ASSUME NEW t \in Threads, BeginClose(t) PROVE ThreadsTypeOK'
  BY <1>15 DEF BeginClose, GoTo, TakesIterator
<1>16. ASSUME NEW t \in Threads, CloseIterator(t) PROVE ThreadsTypeOK'
  BY <1>16 DEF CloseIterator, GoTo, streamVars
<1>17. ASSUME NEW t \in Threads, CancelTimer(t) PROVE ThreadsTypeOK'
  BY <1>17 DEF CancelTimer, GoTo, streamVars
<1>18. ASSUME NEW t \in Threads, JoinTimer(t) PROVE ThreadsTypeOK'
  BY <1>18 DEF JoinTimer, GoTo, streamVars
<1>19. ASSUME NEW t \in Threads, Claim(t) PROVE ThreadsTypeOK'
  BY <1>19 DEF Claim, GoTo, AfterClose, Unclaimed
<1>20. ASSUME NEW t \in Threads, CloseNext(t) PROVE ThreadsTypeOK'
  BY <1>20 DEF CloseNext, GoTo, AfterClose
<1>21. ASSUME NEW t \in Threads, FinishClose(t) PROVE ThreadsTypeOK'
  BY <1>21 DEF FinishClose, GoTo, Fails
<1>22. CASE Fire
  BY <1>22 DEF Fire, GoTo, streamVars
<1>23. CASE EndTimer
  BY <1>23 DEF EndTimer, GoTo, streamVars
<1>24. CASE Watch
  BY <1>24 DEF Watch, GoTo, streamVars
<1>25. CASE EndWatcher
  BY <1>25 DEF EndWatcher, GoTo, streamVars
<1>26. CASE CancelSet
  BY <1>26 DEF CancelSet, streamVars
<1> QED
  BY StreamStep, <1>1, <1>2, <1>3, <1>4, <1>5, <1>6, <1>7, <1>8, <1>9, <1>10,
         <1>11, <1>12, <1>13, <1>14, <1>15, <1>16, <1>17, <1>18, <1>19, <1>20,
         <1>21, <1>22, <1>23, <1>24, <1>25, <1>26 DEF StreamStep, Main,
         Server, Timer, Watcher, ReceiveAny, ReceiveNothing, CloseStep,
         Threads

(* Every step keeps the connection and the stream in their types.          *)
LEMMA ConnectionTypeOKStep ==
  ASSUME StreamInv, StreamStep
  PROVE  ConnectionTypeOK'
<1> USE StreamInv DEF StreamInv, StreamTypeOK, ThreadsTypeOK, ConnectionTypeOK,
        SignalsTypeOK, Threads, Resources, Closed, Opening, Reading3, Streaming
<1>1. CASE Start
  BY <1>1 DEF Start, TimerAtStart, streamVars
<1>2. CASE Connect
  BY <1>2 DEF Connect, Adopt
<1>3. CASE Answer
  BY <1>3 DEF Answer, Adopt
<1>4. CASE NoAnswer
  BY <1>4 DEF NoAnswer, streamVars
<1>5. CASE CheckResponse
  BY <1>5 DEF CheckResponse, streamVars
<1>6. CASE Unwind
  BY <1>6 DEF Unwind, streamVars
<1>7. CASE BeginRead
  BY <1>7 DEF BeginRead
<1>8. ASSUME NEW what \in {"chunk", "end", "error"}, Receive(what) PROVE ConnectionTypeOK'
  BY <1>8 DEF Receive, streamVars
<1>9. CASE EndRead
  <2>1. CASE stream.closing
    <3>1. stream' = [closed |-> TRUE, closing |-> FALSE, reading |-> FALSE]
      BY <1>9, <2>1 DEF EndRead
    <3>2. stream' \in [closed : BOOLEAN, closing : BOOLEAN, reading : BOOLEAN]
      BY <3>1
    <3> QED
      BY <1>9, <3>2 DEF EndRead, StreamInv, StreamTypeOK, ConnectionTypeOK
  <2>2. CASE ~stream.closing
    BY <1>9, <2>2 DEF EndRead, StreamInv, StreamTypeOK, ConnectionTypeOK
  <2> QED
    BY <2>1, <2>2
<1>10. CASE Catch
  BY <1>10 DEF Catch, Proceed, StopsWatcher, streamVars
<1>11. CASE Recover
  BY <1>11 DEF Recover, Proceed, StopsWatcher, streamVars
<1>12. CASE Finally
  BY <1>12 DEF Finally, GoTo, streamVars
<1>13. CASE JoinWatcher
  BY <1>13 DEF JoinWatcher, streamVars
<1>14. CASE Release
  BY <1>14 DEF Release, streamVars
<1>15. ASSUME NEW t \in Threads, BeginClose(t) PROVE ConnectionTypeOK'
  BY <1>15 DEF BeginClose, GoTo, TakesIterator
<1>16. ASSUME NEW t \in Threads, CloseIterator(t) PROVE ConnectionTypeOK'
  BY <1>16 DEF CloseIterator, GoTo, streamVars
<1>17. ASSUME NEW t \in Threads, CancelTimer(t) PROVE ConnectionTypeOK'
  BY <1>17 DEF CancelTimer, GoTo, streamVars
<1>18. ASSUME NEW t \in Threads, JoinTimer(t) PROVE ConnectionTypeOK'
  BY <1>18 DEF JoinTimer, GoTo, streamVars
<1>19. ASSUME NEW t \in Threads, Claim(t) PROVE ConnectionTypeOK'
  <2>1. held' \in [Threads -> SUBSET Resources]
    BY <1>19 DEF Claim, StreamInv, StreamTypeOK, ConnectionTypeOK
  <2> QED
    BY <1>19, <2>1 DEF Claim, Unclaimed, StreamInv, StreamTypeOK,
           ConnectionTypeOK
<1>20. ASSUME NEW t \in Threads, CloseNext(t) PROVE ConnectionTypeOK'
  BY <1>20 DEF CloseNext, GoTo, AfterClose
<1>21. ASSUME NEW t \in Threads, FinishClose(t) PROVE ConnectionTypeOK'
  BY <1>21 DEF FinishClose, GoTo, Fails
<1>22. CASE Fire
  BY <1>22 DEF Fire, GoTo, streamVars
<1>23. CASE EndTimer
  BY <1>23 DEF EndTimer, GoTo, streamVars
<1>24. CASE Watch
  BY <1>24 DEF Watch, GoTo, streamVars
<1>25. CASE EndWatcher
  BY <1>25 DEF EndWatcher, GoTo, streamVars
<1>26. CASE CancelSet
  BY <1>26 DEF CancelSet, streamVars
<1> QED
  BY StreamStep, <1>1, <1>2, <1>3, <1>4, <1>5, <1>6, <1>7, <1>8, <1>9, <1>10,
         <1>11, <1>12, <1>13, <1>14, <1>15, <1>16, <1>17, <1>18, <1>19, <1>20,
         <1>21, <1>22, <1>23, <1>24, <1>25, <1>26 DEF StreamStep, Main,
         Server, Timer, Watcher, ReceiveAny, ReceiveNothing, CloseStep,
         Threads

(* A close that fails is recorded.                                         *)
LEMMA CloseNextTrouble ==
  ASSUME StreamInv, NEW t \in Threads, CloseNext(t)
  PROVE  trouble' \in [Threads -> BOOLEAN]
BY DEF CloseNext, StreamInv, StreamTypeOK, SignalsTypeOK

(* Every step keeps signals, results and failures in their types.          *)
LEMMA SignalsTypeOKStep ==
  ASSUME StreamInv, StreamStep
  PROVE  SignalsTypeOK'
<1> USE StreamInv DEF StreamInv, StreamTypeOK, ThreadsTypeOK, ConnectionTypeOK,
        SignalsTypeOK, ReplyInv, Threads, Resources, Closed, Opening, Reading3,
        Streaming
<1>1. CASE Start
  BY <1>1 DEF Start, TimerAtStart, streamVars
<1>2. CASE Connect
  BY <1>2 DEF Connect, Adopt
<1>3. CASE Answer
  BY <1>3 DEF Answer, Adopt
<1>4. CASE NoAnswer
  BY <1>4 DEF NoAnswer, streamVars
<1>5. CASE CheckResponse
  BY <1>5 DEF CheckResponse, streamVars
<1>6. CASE Unwind
  BY <1>6 DEF Unwind, streamVars
<1>7. CASE BeginRead
  BY <1>7 DEF BeginRead
<1>8. ASSUME NEW what \in {"chunk", "end", "error"}, Receive(what) PROVE SignalsTypeOK'
  BY <1>8 DEF Receive, streamVars
<1>9. CASE EndRead
  BY <1>9 DEF EndRead
<1>10. CASE Catch
  BY <1>10 DEF Catch, Proceed, StopsWatcher, streamVars
<1>11. CASE Recover
  BY <1>11 DEF Recover, Proceed, StopsWatcher, streamVars
<1>12. CASE Finally
  BY <1>12 DEF Finally, GoTo, streamVars
<1>13. CASE JoinWatcher
  BY <1>13 DEF JoinWatcher, streamVars
<1>14. CASE Release
  BY <1>14 DEF Release, streamVars
<1>15. ASSUME NEW t \in Threads, BeginClose(t) PROVE SignalsTypeOK'
  BY <1>15 DEF BeginClose, GoTo, TakesIterator
<1>16. ASSUME NEW t \in Threads, CloseIterator(t) PROVE SignalsTypeOK'
  BY <1>16 DEF CloseIterator, GoTo, streamVars
<1>17. ASSUME NEW t \in Threads, CancelTimer(t) PROVE SignalsTypeOK'
  BY <1>17 DEF CancelTimer, GoTo, streamVars
<1>18. ASSUME NEW t \in Threads, JoinTimer(t) PROVE SignalsTypeOK'
  BY <1>18 DEF JoinTimer, GoTo, streamVars
<1>19. ASSUME NEW t \in Threads, Claim(t) PROVE SignalsTypeOK'
  BY <1>19 DEF Claim, GoTo, AfterClose, Unclaimed
<1>20. ASSUME NEW t \in Threads, CloseNext(t) PROVE SignalsTypeOK'
  <2>1. trouble' \in [Threads -> BOOLEAN]
    BY <1>20, CloseNextTrouble
  <2> QED
    BY <1>20, <2>1 DEF CloseNext
<1>21. ASSUME NEW t \in Threads, FinishClose(t) PROVE SignalsTypeOK'
  BY <1>21 DEF FinishClose, GoTo, Fails
<1>22. CASE Fire
  BY <1>22 DEF Fire, GoTo, streamVars
<1>23. CASE EndTimer
  BY <1>23 DEF EndTimer, GoTo, streamVars
<1>24. CASE Watch
  BY <1>24 DEF Watch, GoTo, streamVars
<1>25. CASE EndWatcher
  BY <1>25 DEF EndWatcher, GoTo, streamVars
<1>26. CASE CancelSet
  BY <1>26 DEF CancelSet, streamVars
<1> QED
  BY StreamStep, <1>1, <1>2, <1>3, <1>4, <1>5, <1>6, <1>7, <1>8, <1>9, <1>10,
         <1>11, <1>12, <1>13, <1>14, <1>15, <1>16, <1>17, <1>18, <1>19, <1>20,
         <1>21, <1>22, <1>23, <1>24, <1>25, <1>26 DEF StreamStep, Main,
         Server, Timer, Watcher, ReceiveAny, ReceiveNothing, CloseStep,
         Threads

(* Every step keeps the threads in places that go together.                *)
LEMMA PlaceInvStep ==
  ASSUME StreamInv, StreamStep
  PROVE  PlaceInv'
<1> USE StreamInv DEF StreamInv, StreamTypeOK, ThreadsTypeOK, ConnectionTypeOK,
        SignalsTypeOK, PlaceInv, DisconnectInv, Threads, Resources, Closed,
        Opening, Reading3, Streaming
<1>1. CASE Start
  BY <1>1 DEF Start, TimerAtStart, streamVars
<1>2. CASE Connect
  BY <1>2 DEF Connect, Adopt
<1>3. CASE Answer
  BY <1>3 DEF Answer, Adopt
<1>4. CASE NoAnswer
  BY <1>4 DEF NoAnswer, streamVars
<1>5. CASE CheckResponse
  BY <1>5 DEF CheckResponse, streamVars
<1>6. CASE Unwind
  BY <1>6 DEF Unwind, streamVars
<1>7. CASE BeginRead
  BY <1>7 DEF BeginRead
<1>8. ASSUME NEW what \in {"chunk", "end", "error"}, Receive(what) PROVE PlaceInv'
  BY <1>8 DEF Receive, streamVars
<1>9. CASE EndRead
  BY <1>9 DEF EndRead
<1>10. CASE Catch
  BY <1>10 DEF Catch, Proceed, StopsWatcher, streamVars
<1>11. CASE Recover
  BY <1>11 DEF Recover, Proceed, StopsWatcher, streamVars
<1>12. CASE Finally
  BY <1>12 DEF Finally, GoTo, streamVars
<1>13. CASE JoinWatcher
  BY <1>13 DEF JoinWatcher, streamVars
<1>14. CASE Release
  BY <1>14 DEF Release, streamVars
<1>15. ASSUME NEW t \in Threads, BeginClose(t) PROVE PlaceInv'
  BY <1>15 DEF BeginClose, GoTo, TakesIterator
<1>16. ASSUME NEW t \in Threads, CloseIterator(t) PROVE PlaceInv'
  BY <1>16 DEF CloseIterator, GoTo, streamVars
<1>17. ASSUME NEW t \in Threads, CancelTimer(t) PROVE PlaceInv'
  BY <1>17 DEF CancelTimer, GoTo, streamVars
<1>18. ASSUME NEW t \in Threads, JoinTimer(t) PROVE PlaceInv'
  BY <1>18 DEF JoinTimer, GoTo, streamVars
<1>19. ASSUME NEW t \in Threads, Claim(t) PROVE PlaceInv'
  BY <1>19 DEF Claim, GoTo, AfterClose, Unclaimed
<1>20. ASSUME NEW t \in Threads, CloseNext(t) PROVE PlaceInv'
  BY <1>20 DEF CloseNext, GoTo, AfterClose
<1>21. ASSUME NEW t \in Threads, FinishClose(t) PROVE PlaceInv'
  BY <1>21 DEF FinishClose, GoTo, Fails
<1>22. CASE Fire
  BY <1>22 DEF Fire, GoTo, streamVars
<1>23. CASE EndTimer
  BY <1>23 DEF EndTimer, GoTo, streamVars
<1>24. CASE Watch
  BY <1>24 DEF Watch, GoTo, streamVars
<1>25. CASE EndWatcher
  BY <1>25 DEF EndWatcher, GoTo, streamVars
<1>26. CASE CancelSet
  BY <1>26 DEF CancelSet, streamVars
<1> QED
  BY StreamStep, <1>1, <1>2, <1>3, <1>4, <1>5, <1>6, <1>7, <1>8, <1>9, <1>10,
         <1>11, <1>12, <1>13, <1>14, <1>15, <1>16, <1>17, <1>18, <1>19, <1>20,
         <1>21, <1>22, <1>23, <1>24, <1>25, <1>26 DEF StreamStep, Main,
         Server, Timer, Watcher, ReceiveAny, ReceiveNothing, CloseStep,
         Threads

(* The context that is adopted, or closed at once, has one holder or none. *)
LEMMA AnswerOwner ==
  ASSUME StreamInv, Answer
  PROVE  OwnerInv'
<1> USE DEF Answer, Adopt, StreamInv, StreamTypeOK, ConnectionTypeOK, PlaceInv,
        OwnerInv, Threads, Resources, Closed, Opening, Reading3, Streaming
<1>1. CASE claimed
  BY <1>1
<1>2. CASE ~claimed
  BY <1>2
<1> QED
  BY <1>1, <1>2

(* Every step keeps each open resource with one holder.                    *)
LEMMA OwnerInvStep ==
  ASSUME StreamInv, StreamStep
  PROVE  OwnerInv'
<1> USE StreamInv DEF StreamInv, StreamTypeOK, ThreadsTypeOK, ConnectionTypeOK,
        SignalsTypeOK, PlaceInv, OwnerInv, Threads, Resources, Closed, Opening,
        Reading3, Streaming
<1>1. CASE Start
  BY <1>1 DEF Start, TimerAtStart, streamVars
<1>2. CASE Connect
  <2>1. CASE Adopt("client") /\ claimed
    BY <1>2, <2>1 DEF Connect, Adopt, StreamInv, StreamTypeOK,
           ConnectionTypeOK, PlaceInv, OwnerInv, Threads, Resources, Closed,
           Opening, Reading3, Streaming
  <2>2. CASE Adopt("client") /\ ~claimed
    BY <1>2, <2>2 DEF Connect, Adopt, StreamInv, StreamTypeOK,
           ConnectionTypeOK, PlaceInv, OwnerInv, Threads, Resources, Closed,
           Opening, Reading3, Streaming
  <2>3. CASE pc' = "unwind" /\ UNCHANGED <<resource, owned>>
    BY <1>2, <2>3 DEF Connect, Adopt, StreamInv, StreamTypeOK,
           ConnectionTypeOK, PlaceInv, OwnerInv, Threads, Resources, Closed,
           Opening, Reading3, Streaming
  <2> QED
    BY <1>2, <2>1, <2>2, <2>3 DEF Connect
<1>3. CASE Answer
  BY <1>3, AnswerOwner
<1>4. CASE NoAnswer
  BY <1>4 DEF NoAnswer, streamVars
<1>5. CASE CheckResponse
  BY <1>5 DEF CheckResponse, streamVars
<1>6. CASE Unwind
  BY <1>6 DEF Unwind, streamVars
<1>7. CASE BeginRead
  BY <1>7 DEF BeginRead
<1>8. ASSUME NEW what \in {"chunk", "end", "error"}, Receive(what) PROVE OwnerInv'
  BY <1>8 DEF Receive, streamVars
<1>9. CASE EndRead
  BY <1>9 DEF EndRead
<1>10. CASE Catch
  BY <1>10 DEF Catch, Proceed, StopsWatcher, streamVars
<1>11. CASE Recover
  BY <1>11 DEF Recover, Proceed, StopsWatcher, streamVars
<1>12. CASE Finally
  BY <1>12 DEF Finally, GoTo, streamVars
<1>13. CASE JoinWatcher
  BY <1>13 DEF JoinWatcher, streamVars
<1>14. CASE Release
  BY <1>14 DEF Release, streamVars
<1>15. ASSUME NEW t \in Threads, BeginClose(t) PROVE OwnerInv'
  BY <1>15 DEF BeginClose, GoTo, TakesIterator
<1>16. ASSUME NEW t \in Threads, CloseIterator(t) PROVE OwnerInv'
  BY <1>16 DEF CloseIterator, GoTo, streamVars
<1>17. ASSUME NEW t \in Threads, CancelTimer(t) PROVE OwnerInv'
  BY <1>17 DEF CancelTimer, GoTo, streamVars
<1>18. ASSUME NEW t \in Threads, JoinTimer(t) PROVE OwnerInv'
  BY <1>18 DEF JoinTimer, GoTo, streamVars
<1>19. ASSUME NEW t \in Threads, Claim(t) PROVE OwnerInv'
  <2> USE StreamInv, <1>19 DEF Claim, GoTo, StreamInv, StreamTypeOK,
          ConnectionTypeOK, ThreadsTypeOK, PlaceInv, OwnerInv
  <2>1. CASE claimed
    <3>1. /\ UNCHANGED <<pc, resource, owned, held, claimed>> /\ held[t] = {}
          /\ \A u \in Threads \ {t} : close'[u] = close[u]
      BY <2>1
    <3> QED
      BY <2>1, <3>1
  <2>2. CASE ~claimed
    <3>1. \A u \in Threads : held[u] = {}
      BY <2>2
    <3>2. /\ owned' = {} /\ claimed' /\ UNCHANGED <<pc, resource>>
          /\ held' = [held EXCEPT ![t] = owned]
          /\ close' = [close EXCEPT ![t] = "close"]
      BY <2>2 DEF Unclaimed
    <3> QED
      BY <2>2, <3>1, <3>2 DEF Opening, Reading3, Streaming
  <2> QED
    BY <2>1, <2>2
<1>20. ASSUME NEW t \in Threads, CloseNext(t) PROVE OwnerInv'
  BY <1>20 DEF CloseNext, GoTo, AfterClose
<1>21. ASSUME NEW t \in Threads, FinishClose(t) PROVE OwnerInv'
  BY <1>21 DEF FinishClose, GoTo, Fails
<1>22. CASE Fire
  BY <1>22 DEF Fire, GoTo, streamVars
<1>23. CASE EndTimer
  BY <1>23 DEF EndTimer, GoTo, streamVars
<1>24. CASE Watch
  BY <1>24 DEF Watch, GoTo, streamVars
<1>25. CASE EndWatcher
  BY <1>25 DEF EndWatcher, GoTo, streamVars
<1>26. CASE CancelSet
  BY <1>26 DEF CancelSet, streamVars
<1> QED
  BY StreamStep, <1>1, <1>2, <1>3, <1>4, <1>5, <1>6, <1>7, <1>8, <1>9, <1>10,
         <1>11, <1>12, <1>13, <1>14, <1>15, <1>16, <1>17, <1>18, <1>19, <1>20,
         <1>21, <1>22, <1>23, <1>24, <1>25, <1>26 DEF StreamStep, Main,
         Server, Timer, Watcher, ReceiveAny, ReceiveNothing, CloseStep,
         Threads

(* Every step keeps the closing of the stream with one thread.             *)
LEMMA CloserInvStep ==
  ASSUME StreamInv, StreamStep
  PROVE  CloserInv'
<1> USE StreamInv DEF StreamInv, StreamTypeOK, ThreadsTypeOK, ConnectionTypeOK,
        SignalsTypeOK, PlaceInv, CloserInv, Closes, Threads, Resources, Closed,
        Opening, Reading3, Streaming
<1>1. CASE Start
  BY <1>1 DEF Start, TimerAtStart, streamVars
<1>2. CASE Connect
  BY <1>2 DEF Connect, Adopt
<1>3. CASE Answer
  BY <1>3 DEF Answer, Adopt
<1>4. CASE NoAnswer
  BY <1>4 DEF NoAnswer, streamVars
<1>5. CASE CheckResponse
  BY <1>5 DEF CheckResponse, streamVars
<1>6. CASE Unwind
  BY <1>6 DEF Unwind, streamVars
<1>7. CASE BeginRead
  BY <1>7 DEF BeginRead
<1>8. ASSUME NEW what \in {"chunk", "end", "error"}, Receive(what) PROVE CloserInv'
  BY <1>8 DEF Receive, streamVars
<1>9. CASE EndRead
  BY <1>9 DEF EndRead
<1>10. CASE Catch
  BY <1>10 DEF Catch, Proceed, StopsWatcher, streamVars
<1>11. CASE Recover
  BY <1>11 DEF Recover, Proceed, StopsWatcher, streamVars
<1>12. CASE Finally
  BY <1>12 DEF Finally, GoTo, streamVars
<1>13. CASE JoinWatcher
  BY <1>13 DEF JoinWatcher, streamVars
<1>14. CASE Release
  BY <1>14 DEF Release, streamVars
<1>15. ASSUME NEW t \in Threads, BeginClose(t) PROVE CloserInv'
  BY <1>15 DEF BeginClose, GoTo, TakesIterator
<1>16. ASSUME NEW t \in Threads, CloseIterator(t) PROVE CloserInv'
  BY <1>16 DEF CloseIterator, GoTo, streamVars
<1>17. ASSUME NEW t \in Threads, CancelTimer(t) PROVE CloserInv'
  BY <1>17 DEF CancelTimer, GoTo, streamVars
<1>18. ASSUME NEW t \in Threads, JoinTimer(t) PROVE CloserInv'
  BY <1>18 DEF JoinTimer, GoTo, streamVars
<1>19. ASSUME NEW t \in Threads, Claim(t) PROVE CloserInv'
  BY <1>19 DEF Claim, GoTo, AfterClose, Unclaimed
<1>20. ASSUME NEW t \in Threads, CloseNext(t) PROVE CloserInv'
  BY <1>20 DEF CloseNext, GoTo, AfterClose
<1>21. ASSUME NEW t \in Threads, FinishClose(t) PROVE CloserInv'
  BY <1>21 DEF FinishClose, GoTo, Fails
<1>22. CASE Fire
  BY <1>22 DEF Fire, GoTo, streamVars
<1>23. CASE EndTimer
  BY <1>23 DEF EndTimer, GoTo, streamVars
<1>24. CASE Watch
  BY <1>24 DEF Watch, GoTo, streamVars
<1>25. CASE EndWatcher
  BY <1>25 DEF EndWatcher, GoTo, streamVars
<1>26. CASE CancelSet
  BY <1>26 DEF CancelSet, streamVars
<1> QED
  BY StreamStep, <1>1, <1>2, <1>3, <1>4, <1>5, <1>6, <1>7, <1>8, <1>9, <1>10,
         <1>11, <1>12, <1>13, <1>14, <1>15, <1>16, <1>17, <1>18, <1>19, <1>20,
         <1>21, <1>22, <1>23, <1>24, <1>25, <1>26 DEF StreamStep, Main,
         Server, Timer, Watcher, ReceiveAny, ReceiveNothing, CloseStep,
         Threads

(* Every step keeps, until the finally clause, somebody who disconnects.   *)
LEMMA DisconnectInvStep ==
  ASSUME StreamInv, StreamStep
  PROVE  DisconnectInv'
<1> USE StreamInv DEF StreamInv, StreamTypeOK, ThreadsTypeOK, ConnectionTypeOK,
        SignalsTypeOK, PlaceInv, CloserInv, Closes, DisconnectInv, Threads,
        Resources, Closed, Opening, Reading3, Streaming
<1>1. CASE Start
  BY <1>1 DEF Start, TimerAtStart, streamVars
<1>2. CASE Connect
  BY <1>2 DEF Connect, Adopt
<1>3. CASE Answer
  BY <1>3 DEF Answer, Adopt
<1>4. CASE NoAnswer
  BY <1>4 DEF NoAnswer, streamVars
<1>5. CASE CheckResponse
  BY <1>5 DEF CheckResponse, streamVars
<1>6. CASE Unwind
  BY <1>6 DEF Unwind, streamVars
<1>7. CASE BeginRead
  BY <1>7 DEF BeginRead
<1>8. ASSUME NEW what \in {"chunk", "end", "error"}, Receive(what) PROVE DisconnectInv'
  BY <1>8 DEF Receive, streamVars
<1>9. CASE EndRead
  BY <1>9 DEF EndRead
<1>10. CASE Catch
  BY <1>10 DEF Catch, Proceed, StopsWatcher, streamVars
<1>11. CASE Recover
  BY <1>11 DEF Recover, Proceed, StopsWatcher, streamVars
<1>12. CASE Finally
  BY <1>12 DEF Finally, GoTo, streamVars
<1>13. CASE JoinWatcher
  BY <1>13 DEF JoinWatcher, streamVars
<1>14. CASE Release
  BY <1>14 DEF Release, streamVars
<1>15. ASSUME NEW t \in Threads, BeginClose(t) PROVE DisconnectInv'
  BY <1>15 DEF BeginClose, GoTo, TakesIterator
<1>16. ASSUME NEW t \in Threads, CloseIterator(t) PROVE DisconnectInv'
  BY <1>16 DEF CloseIterator, GoTo, streamVars
<1>17. ASSUME NEW t \in Threads, CancelTimer(t) PROVE DisconnectInv'
  BY <1>17 DEF CancelTimer, GoTo, streamVars
<1>18. ASSUME NEW t \in Threads, JoinTimer(t) PROVE DisconnectInv'
  BY <1>18 DEF JoinTimer, GoTo, streamVars
<1>19. ASSUME NEW t \in Threads, Claim(t) PROVE DisconnectInv'
  BY <1>19 DEF Claim, GoTo, AfterClose, Unclaimed
<1>20. ASSUME NEW t \in Threads, CloseNext(t) PROVE DisconnectInv'
  BY <1>20 DEF CloseNext, GoTo, AfterClose
<1>21. ASSUME NEW t \in Threads, FinishClose(t) PROVE DisconnectInv'
  BY <1>21 DEF FinishClose, GoTo, Fails
<1>22. CASE Fire
  BY <1>22 DEF Fire, GoTo, streamVars
<1>23. CASE EndTimer
  BY <1>23 DEF EndTimer, GoTo, streamVars
<1>24. CASE Watch
  BY <1>24 DEF Watch, GoTo, streamVars
<1>25. CASE EndWatcher
  BY <1>25 DEF EndWatcher, GoTo, streamVars
<1>26. CASE CancelSet
  BY <1>26 DEF CancelSet, streamVars
<1> QED
  BY StreamStep, <1>1, <1>2, <1>3, <1>4, <1>5, <1>6, <1>7, <1>8, <1>9, <1>10,
         <1>11, <1>12, <1>13, <1>14, <1>15, <1>16, <1>17, <1>18, <1>19, <1>20,
         <1>21, <1>22, <1>23, <1>24, <1>25, <1>26 DEF StreamStep, Main,
         Server, Timer, Watcher, ReceiveAny, ReceiveNothing, CloseStep,
         Threads

(* Every step keeps what the reply rests on.                               *)
LEMMA ReplyInvStep ==
  ASSUME StreamInv, StreamStep
  PROVE  ReplyInv'
<1> USE StreamInv DEF StreamInv, StreamTypeOK, ThreadsTypeOK, ConnectionTypeOK,
        SignalsTypeOK, PlaceInv, OwnerInv, ReplyInv, Threads, Resources,
        Closed, Opening, Reading3, Streaming
<1>1. CASE Start
  BY <1>1 DEF Start, TimerAtStart, streamVars
<1>2. CASE Connect
  BY <1>2 DEF Connect, Adopt
<1>3. CASE Answer
  BY <1>3 DEF Answer, Adopt
<1>4. CASE NoAnswer
  BY <1>4 DEF NoAnswer, streamVars
<1>5. CASE CheckResponse
  BY <1>5 DEF CheckResponse, streamVars
<1>6. CASE Unwind
  BY <1>6 DEF Unwind, streamVars
<1>7. CASE BeginRead
  BY <1>7 DEF BeginRead
<1>8. ASSUME NEW what \in {"chunk", "end", "error"}, Receive(what) PROVE ReplyInv'
  BY <1>8 DEF Receive, streamVars
<1>9. CASE EndRead
  BY <1>9 DEF EndRead
<1>10. CASE Catch
  BY <1>10 DEF Catch, Proceed, StopsWatcher, streamVars
<1>11. CASE Recover
  BY <1>11 DEF Recover, Proceed, StopsWatcher, streamVars
<1>12. CASE Finally
  BY <1>12 DEF Finally, GoTo, streamVars
<1>13. CASE JoinWatcher
  BY <1>13 DEF JoinWatcher, streamVars
<1>14. CASE Release
  BY <1>14 DEF Release, streamVars
<1>15. ASSUME NEW t \in Threads, BeginClose(t) PROVE ReplyInv'
  BY <1>15 DEF BeginClose, GoTo, TakesIterator
<1>16. ASSUME NEW t \in Threads, CloseIterator(t) PROVE ReplyInv'
  BY <1>16 DEF CloseIterator, GoTo, streamVars
<1>17. ASSUME NEW t \in Threads, CancelTimer(t) PROVE ReplyInv'
  BY <1>17 DEF CancelTimer, GoTo, streamVars
<1>18. ASSUME NEW t \in Threads, JoinTimer(t) PROVE ReplyInv'
  BY <1>18 DEF JoinTimer, GoTo, streamVars
<1>19. ASSUME NEW t \in Threads, Claim(t) PROVE ReplyInv'
  BY <1>19 DEF Claim, GoTo, AfterClose, Unclaimed
<1>20. ASSUME NEW t \in Threads, CloseNext(t) PROVE ReplyInv'
  BY <1>20 DEF CloseNext, GoTo, AfterClose
<1>21. ASSUME NEW t \in Threads, FinishClose(t) PROVE ReplyInv'
  BY <1>21 DEF FinishClose, GoTo, Fails
<1>22. CASE Fire
  BY <1>22 DEF Fire, GoTo, streamVars
<1>23. CASE EndTimer
  BY <1>23 DEF EndTimer, GoTo, streamVars
<1>24. CASE Watch
  BY <1>24 DEF Watch, GoTo, streamVars
<1>25. CASE EndWatcher
  BY <1>25 DEF EndWatcher, GoTo, streamVars
<1>26. CASE CancelSet
  BY <1>26 DEF CancelSet, streamVars
<1> QED
  BY StreamStep, <1>1, <1>2, <1>3, <1>4, <1>5, <1>6, <1>7, <1>8, <1>9, <1>10,
         <1>11, <1>12, <1>13, <1>14, <1>15, <1>16, <1>17, <1>18, <1>19, <1>20,
         <1>21, <1>22, <1>23, <1>24, <1>25, <1>26 DEF StreamStep, Main,
         Server, Timer, Watcher, ReceiveAny, ReceiveNothing, CloseStep,
         Threads

(* Every step keeps the request undisturbed when nobody cancels.           *)
LEMMA UndisturbedStep ==
  ASSUME StreamInv, StreamStep
  PROVE  Undisturbed'
<1> USE StreamInv DEF StreamInv, StreamTypeOK, ThreadsTypeOK, ConnectionTypeOK,
        SignalsTypeOK, PlaceInv, CloserInv, Closes, DisconnectInv, ReplyInv,
        Undisturbed, Threads, Resources, Closed, Opening, Reading3, Streaming
<1>1. CASE Start
  BY <1>1 DEF Start, TimerAtStart, streamVars
<1>2. CASE Connect
  BY <1>2 DEF Connect, Adopt
<1>3. CASE Answer
  BY <1>3 DEF Answer, Adopt
<1>4. CASE NoAnswer
  BY <1>4 DEF NoAnswer, streamVars
<1>5. CASE CheckResponse
  BY <1>5 DEF CheckResponse, streamVars
<1>6. CASE Unwind
  BY <1>6 DEF Unwind, streamVars
<1>7. CASE BeginRead
  BY <1>7 DEF BeginRead
<1>8. ASSUME NEW what \in {"chunk", "end", "error"}, Receive(what) PROVE Undisturbed'
  BY <1>8 DEF Receive, streamVars
<1>9. CASE EndRead
  BY <1>9 DEF EndRead
<1>10. CASE Catch
  BY <1>10 DEF Catch, Proceed, StopsWatcher, streamVars
<1>11. CASE Recover
  BY <1>11 DEF Recover, Proceed, StopsWatcher, streamVars
<1>12. CASE Finally
  BY <1>12 DEF Finally, GoTo, streamVars
<1>13. CASE JoinWatcher
  BY <1>13 DEF JoinWatcher, streamVars
<1>14. CASE Release
  BY <1>14 DEF Release, streamVars
<1>15. ASSUME NEW t \in Threads, BeginClose(t) PROVE Undisturbed'
  BY <1>15 DEF BeginClose, GoTo, TakesIterator
<1>16. ASSUME NEW t \in Threads, CloseIterator(t) PROVE Undisturbed'
  BY <1>16 DEF CloseIterator, GoTo, streamVars
<1>17. ASSUME NEW t \in Threads, CancelTimer(t) PROVE Undisturbed'
  BY <1>17 DEF CancelTimer, GoTo, streamVars
<1>18. ASSUME NEW t \in Threads, JoinTimer(t) PROVE Undisturbed'
  BY <1>18 DEF JoinTimer, GoTo, streamVars
<1>19. ASSUME NEW t \in Threads, Claim(t) PROVE Undisturbed'
  BY <1>19 DEF Claim, GoTo, AfterClose, Unclaimed
<1>20. ASSUME NEW t \in Threads, CloseNext(t) PROVE Undisturbed'
  BY <1>20 DEF CloseNext, GoTo, AfterClose
<1>21. ASSUME NEW t \in Threads, FinishClose(t) PROVE Undisturbed'
  BY <1>21 DEF FinishClose, GoTo, Fails
<1>22. CASE Fire
  BY <1>22 DEF Fire, GoTo, streamVars
<1>23. CASE EndTimer
  BY <1>23 DEF EndTimer, GoTo, streamVars
<1>24. CASE Watch
  BY <1>24 DEF Watch, GoTo, streamVars
<1>25. CASE EndWatcher
  BY <1>25 DEF EndWatcher, GoTo, streamVars
<1>26. CASE CancelSet
  BY <1>26 DEF CancelSet, streamVars
<1> QED
  BY StreamStep, <1>1, <1>2, <1>3, <1>4, <1>5, <1>6, <1>7, <1>8, <1>9, <1>10,
         <1>11, <1>12, <1>13, <1>14, <1>15, <1>16, <1>17, <1>18, <1>19, <1>20,
         <1>21, <1>22, <1>23, <1>24, <1>25, <1>26 DEF StreamStep, Main,
         Server, Timer, Watcher, ReceiveAny, ReceiveNothing, CloseStep,
         Threads

(* Only a stream read to its end and closed without failure is released.   *)
LEMMA ReleasedWholeStep ==
  ASSUME StreamInv, StreamStep
  PROVE  ReleasedWhole'
<1> USE StreamInv DEF StreamInv, StreamTypeOK, ThreadsTypeOK, ConnectionTypeOK,
        SignalsTypeOK, PlaceInv, OwnerInv, ReplyInv, Undisturbed,
        ReleasedWhole, Threads, Resources, Closed, Opening, Reading3, Streaming
<1>1. CASE Start
  BY <1>1 DEF Start, TimerAtStart, streamVars
<1>2. CASE Connect
  BY <1>2 DEF Connect, Adopt
<1>3. CASE Answer
  BY <1>3 DEF Answer, Adopt
<1>4. CASE NoAnswer
  BY <1>4 DEF NoAnswer, streamVars
<1>5. CASE CheckResponse
  BY <1>5 DEF CheckResponse, streamVars
<1>6. CASE Unwind
  BY <1>6 DEF Unwind, streamVars
<1>7. CASE BeginRead
  BY <1>7 DEF BeginRead
<1>8. ASSUME NEW what \in {"chunk", "end", "error"}, Receive(what) PROVE ReleasedWhole'
  BY <1>8 DEF Receive, streamVars
<1>9. CASE EndRead
  BY <1>9 DEF EndRead
<1>10. CASE Catch
  BY <1>10 DEF Catch, Proceed, StopsWatcher, streamVars
<1>11. CASE Recover
  BY <1>11 DEF Recover, Proceed, StopsWatcher, streamVars
<1>12. CASE Finally
  BY <1>12 DEF Finally, GoTo, streamVars
<1>13. CASE JoinWatcher
  BY <1>13 DEF JoinWatcher, streamVars
<1>14. CASE Release
  BY <1>14 DEF Release, streamVars
<1>15. ASSUME NEW t \in Threads, BeginClose(t) PROVE ReleasedWhole'
  BY <1>15 DEF BeginClose, GoTo, TakesIterator
<1>16. ASSUME NEW t \in Threads, CloseIterator(t) PROVE ReleasedWhole'
  BY <1>16 DEF CloseIterator, GoTo, streamVars
<1>17. ASSUME NEW t \in Threads, CancelTimer(t) PROVE ReleasedWhole'
  BY <1>17 DEF CancelTimer, GoTo, streamVars
<1>18. ASSUME NEW t \in Threads, JoinTimer(t) PROVE ReleasedWhole'
  BY <1>18 DEF JoinTimer, GoTo, streamVars
<1>19. ASSUME NEW t \in Threads, Claim(t) PROVE ReleasedWhole'
  BY <1>19 DEF Claim, GoTo, AfterClose, Unclaimed
<1>20. ASSUME NEW t \in Threads, CloseNext(t) PROVE ReleasedWhole'
  BY <1>20 DEF CloseNext, GoTo, AfterClose
<1>21. ASSUME NEW t \in Threads, FinishClose(t) PROVE ReleasedWhole'
  BY <1>21 DEF FinishClose, GoTo, Fails
<1>22. CASE Fire
  BY <1>22 DEF Fire, GoTo, streamVars
<1>23. CASE EndTimer
  BY <1>23 DEF EndTimer, GoTo, streamVars
<1>24. CASE Watch
  BY <1>24 DEF Watch, GoTo, streamVars
<1>25. CASE EndWatcher
  BY <1>25 DEF EndWatcher, GoTo, streamVars
<1>26. CASE CancelSet
  BY <1>26 DEF CancelSet, streamVars
<1> QED
  BY StreamStep, <1>1, <1>2, <1>3, <1>4, <1>5, <1>6, <1>7, <1>8, <1>9, <1>10,
         <1>11, <1>12, <1>13, <1>14, <1>15, <1>16, <1>17, <1>18, <1>19, <1>20,
         <1>21, <1>22, <1>23, <1>24, <1>25, <1>26 DEF StreamStep, Main,
         Server, Timer, Watcher, ReceiveAny, ReceiveNothing, CloseStep,
         Threads

(* The invariant is inductive: no step of any thread breaks it.            *)
LEMMA StreamStepInv ==
  ASSUME StreamInv, StreamStep
  PROVE  StreamInv'
  BY ThreadsTypeOKStep, ConnectionTypeOKStep, SignalsTypeOKStep, PlaceInvStep,
         OwnerInvStep, CloserInvStep, DisconnectInvStep, ReplyInvStep,
         UndisturbedStep, ReleasedWholeStep DEF StreamInv, StreamTypeOK

(* Nor does a step of somebody else.                                       *)
LEMMA StreamStutterInv ==
  ASSUME StreamInv, UNCHANGED generationVars
  PROVE  StreamInv'
<1> USE DEF generationVars
<1>1. StreamTypeOK'
  BY DEF StreamInv, StreamTypeOK, ThreadsTypeOK, ConnectionTypeOK,
         SignalsTypeOK
<1>2. PlaceInv' /\ OwnerInv'
  BY DEF StreamInv, PlaceInv, OwnerInv
<1>3. CloserInv' /\ DisconnectInv'
  BY DEF StreamInv, CloserInv, Closes, DisconnectInv
<1>4. ReplyInv' /\ Undisturbed' /\ ReleasedWhole'
  BY DEF StreamInv, ReplyInv, Undisturbed, ReleasedWhole
<1> QED
  BY <1>1, <1>2, <1>3, <1>4 DEF StreamInv

(* It implies the safety properties of the stream.                         *)
LEMMA StreamSafe ==
  ASSUME StreamInv
  PROVE  OneOwner /\ RecoverySeesDisconnect
<1>1. OneOwner
  <2>1. \A r \in Resources :
          LET holders == {t \in Threads : r \in held[t]} IN
          /\ resource[r] = "open" <=> (r \in owned \/ holders # {})
          /\ r \in owned => holders = {}
          /\ \A t, u \in holders : t = u
    BY DEF StreamInv, OwnerInv
  <2>2. pc = "blocked" => \A t \in Threads : close[t] # "iterator"
    BY DEF StreamInv, CloserInv, PlaceInv
  <2> QED
    BY <2>1, <2>2 DEF OneOwner
<1>2. RecoverySeesDisconnect
  BY DEF StreamInv, StreamTypeOK, ThreadsTypeOK, PlaceInv, DisconnectInv,
         RecoverySeesDisconnect, Disconnecting, Reading3, Streaming
<1> QED
  BY <1>1, <1>2

=============================================================================
