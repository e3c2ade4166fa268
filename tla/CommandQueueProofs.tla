------------------------- MODULE CommandQueueProofs -------------------------
(***************************************************************************)
(* Proofs about CommandQueue for every set of execution threads.           *)
(***************************************************************************)
EXTENDS CommandQueue, FiniteSetTheorems, TLAPS

\* Every disjunct of Next, as a list of cases: used by all step lemmas below.
StepCases ==
    \/ LoopTest
    \/ \E k \in 0..MaxChunk : Receive(k)
    \/ ReceiveFails
    \/ Push
    \/ SkipLine
    \/ EndOfChunk
    \/ FlushTest
    \/ FlushPop
    \/ FlushDone
    \/ JoinTimer
    \/ JoinWorkers
    \/ WaitOnEmpty(Main)
    \/ \E w \in Workers : Check(w)
    \/ \E w \in Workers : Pop(w)
    \/ \E w \in Workers : WaitOnEmpty(w)
    \/ \E w \in Workers : Finish(w)
    \/ \E w \in Workers : DieOrRestart(w)
    \/ \E t \in Threads : SpuriousWakeup(t)
    \/ StopSignal
    \/ TimerExit
    \/ UNCHANGED vars

\* A step of the bot is one of the cases.
LEMMA NextCases == [Next]_vars => StepCases
BY DEF Next, MainNext, WorkerNext, StepCases

-----------------------------------------------------------------------------
(* Types *)

\* Initially the variables have their types.
LEMMA TypeInit == Init => TypeOK
<1> SUFFICES ASSUME Init PROVE TypeOK
  OBVIOUS
<1> USE ThreadsAssumption DEF Init, Threads, MainLabels, WorkerLabels
<1>1. pc \in [Threads -> MainLabels \cup WorkerLabels]
  OBVIOUS
<1>2. /\ pc[Main] = "loop"
      /\ pc[Timer] = "check"
      /\ \A w \in Workers : pc[w] = "check"
  OBVIOUS
<1>3. /\ cur \in [Workers -> Nat]
      /\ late \in [Workers -> Nat]
      /\ queue \in Seq(Nat \ {0})
  OBVIOUS
<1> QED
  BY <1>1, <1>2, <1>3 DEF TypeOK

\* Every step of the bot preserves the types.
LEMMA TypeStep == TypeOK /\ [Next]_vars => TypeOK'
<1> SUFFICES ASSUME TypeOK, [Next]_vars PROVE TypeOK'
  OBVIOUS
<1> USE ThreadsAssumption, BoundsAssumption DEF TypeOK, Threads, MainLabels, WorkerLabels, Goto, history
<1>1. CASE LoopTest
  BY <1>1 DEF LoopTest
<1>2. ASSUME NEW k \in 0..MaxChunk, Receive(k) PROVE TypeOK'
  BY <1>2 DEF Receive
<1>3. CASE ReceiveFails
  BY <1>3 DEF ReceiveFails
<1>4. CASE Push
  <2>1. /\ queue' \in Seq(Nat \ {0})
        /\ chunk' \in Nat
        /\ pushed' \in Nat
    BY <1>4 DEF Push
  <2>2. /\ pc' \in [Threads -> MainLabels \cup WorkerLabels]
        /\ pc'[Main] \in MainLabels
        /\ pc'[Timer] \in {"check", "exited"}
        /\ \A w \in Workers : pc'[w] \in WorkerLabels
    BY <1>4 DEF Push, SignalOne, Waiters, Sleeping, Awake
  <2> QED
    BY <1>4, <2>1, <2>2 DEF Push
<1>5. CASE SkipLine
  BY <1>5 DEF SkipLine
<1>6. CASE EndOfChunk
  BY <1>6 DEF EndOfChunk
<1>7. CASE FlushTest
  BY <1>7 DEF FlushTest
<1>8. CASE FlushPop
  <2>1. queue # <<>>
    BY <1>8 DEF FlushPop, TakeHead
  <2>2. Head(queue) \in Nat /\ Tail(queue) \in Seq(Nat \ {0})
    BY <2>1
  <2>3. queue' \in Seq(Nat \ {0}) /\ taken' \in Nat
    BY <1>8, <2>2 DEF FlushPop, TakeHead
  <2>4. dropped' = dropped \cup {Head(queue)}
    BY <1>8 DEF FlushPop
  <2>5. dropped' \subseteq Nat
    BY <2>2, <2>4
  <2> QED
    BY <1>8, <2>3, <2>5 DEF FlushPop
<1>9. CASE FlushDone
  BY <1>9 DEF FlushDone
<1>10. CASE JoinTimer
  BY <1>10 DEF JoinTimer
<1>11. CASE JoinWorkers
  BY <1>11 DEF JoinWorkers
<1>12. ASSUME NEW t \in Threads, WaitOnEmpty(t) PROVE TypeOK'
  BY <1>12 DEF WaitOnEmpty
<1>13. ASSUME NEW w \in Workers, Check(w) PROVE TypeOK'
  BY <1>13 DEF Check
<1>14. ASSUME NEW w \in Workers, Pop(w) PROVE TypeOK'
  BY <1>14 DEF Pop, TakeHead
<1>15. ASSUME NEW w \in Workers, Finish(w) PROVE TypeOK'
  BY <1>15 DEF Finish
<1>16. ASSUME NEW w \in Workers, DieOrRestart(w) PROVE TypeOK'
  BY <1>16 DEF DieOrRestart
<1>17. ASSUME NEW t \in Threads, SpuriousWakeup(t) PROVE TypeOK'
  BY <1>17 DEF SpuriousWakeup, Sleeping, Awake
<1>18. CASE StopSignal
  BY <1>18 DEF StopSignal
<1>19. CASE TimerExit
  BY <1>19 DEF TimerExit
<1>20. CASE UNCHANGED vars
  BY <1>20 DEF vars
<1> QED
  BY NextCases, <1>1, <1>2, <1>3, <1>4, <1>5, <1>6, <1>7, <1>8, <1>9, <1>10, <1>11,
     <1>12, <1>13, <1>14, <1>15, <1>16, <1>17, <1>18, <1>19, <1>20 DEF StepCases

\* TypeOK is an invariant of the bot, for any number of execution threads.
THEOREM TypeCorrect == Spec => []TypeOK
<1>1. TypeOK /\ [Next]_vars => TypeOK'
  BY TypeStep
<1> QED
  BY TypeInit, <1>1, PTL DEF Spec

-----------------------------------------------------------------------------
(* Order and fate of the messages *)

messages == <<queue, pushed, taken, cur, done, dropped, late>>

\* Only a push, a pop and the end of a handler change what happens to messages.
LEMMA MessageSteps ==
    [Next]_vars => \/ Push
                   \/ FlushPop
                   \/ \E w \in Workers : Pop(w)
                   \/ \E w \in Workers : Finish(w)
                   \/ UNCHANGED messages
<1> SUFFICES ASSUME StepCases
             PROVE  \/ Push
                    \/ FlushPop
                    \/ \E w \in Workers : Pop(w)
                    \/ \E w \in Workers : Finish(w)
                    \/ UNCHANGED messages
  BY NextCases
<1> QED
  BY DEF StepCases, messages, history, vars, LoopTest, Receive, ReceiveFails, SkipLine,
         EndOfChunk, FlushTest, FlushDone, JoinTimer, JoinWorkers, WaitOnEmpty, Check,
         DieOrRestart, SpuriousWakeup, StopSignal, TimerExit

\* Taking the head of the queue takes the message after the last one taken.
LEMMA TakeHeadFifo ==
    ASSUME TypeOK, FifoOrder, TakeHead, pushed' = pushed
    PROVE  /\ Head(queue) = taken + 1
           /\ taken' = taken + 1
           /\ taken + 1 \in 1..pushed
           /\ FifoOrder'
<1>1. /\ Len(queue) \in Nat
      /\ Len(queue) > 0
      /\ Head(queue) = queue[1]
      /\ Len(Tail(queue)) = Len(queue) - 1
      /\ \A i \in 1..Len(queue) - 1 : Tail(queue)[i] = queue[i + 1]
  <2>1. queue \in Seq(Nat \ {0}) /\ queue # <<>>
    BY DEF TypeOK, TakeHead
  <2>2. Len(queue) \in Nat /\ Len(queue) > 0 /\ Head(queue) = queue[1]
    BY <2>1
  <2>3. /\ Len(Tail(queue)) = Len(queue) - 1
        /\ \A i \in 1..Len(queue) - 1 : Tail(queue)[i] = queue[i + 1]
    BY <2>1, <2>2
  <2> QED
    BY <2>2, <2>3
<1>2. /\ queue' = Tail(queue)
      /\ taken' = taken + 1
  BY DEF TakeHead
<1>3. taken \in Nat /\ pushed \in Nat
  BY DEF TypeOK
<1>4. Head(queue) = taken + 1 /\ taken + 1 \in 1..pushed
  BY <1>1, <1>3 DEF FifoOrder
<1>5. taken' + Len(queue') = pushed'
  <2>1. Len(queue') = Len(queue) - 1
    BY <1>1, <1>2
  <2>2. taken + Len(queue) = pushed
    BY DEF FifoOrder
  <2>3. /\ Len(queue) \in Nat
        /\ taken' = taken + 1
    BY <1>1, <1>2
  <2> QED
    BY <1>3, <2>1, <2>2, <2>3
<1>6. ASSUME NEW i \in 1..Len(queue') PROVE queue'[i] = taken' + i
  BY <1>1, <1>2, <1>3, <1>6 DEF FifoOrder
<1> QED
  BY <1>2, <1>4, <1>5, <1>6 DEF FifoOrder

\* FifoOrder is preserved: pushQueue appends, popQueue takes the head.
LEMMA FifoStep == TypeOK /\ FifoOrder /\ [Next]_vars => FifoOrder'
<1> SUFFICES ASSUME TypeOK, FifoOrder, [Next]_vars PROVE FifoOrder'
  OBVIOUS
<1>1. CASE Push
  <2>1. /\ queue' = Append(queue, pushed + 1)
        /\ pushed' = pushed + 1
        /\ taken' = taken
    BY <1>1 DEF Push
  <2>2. queue \in Seq(Nat \ {0}) /\ taken \in Nat /\ pushed \in Nat
    BY DEF TypeOK
  <2>3. /\ Len(queue') = Len(queue) + 1
        /\ \A i \in 1..Len(queue) : queue'[i] = queue[i]
        /\ queue'[Len(queue) + 1] = pushed + 1
    BY <2>1, <2>2
  <2>4. taken' + Len(queue') = pushed'
    BY <2>1, <2>2, <2>3 DEF FifoOrder
  <2>5. ASSUME NEW i \in 1..Len(queue') PROVE queue'[i] = taken' + i
    <3>1. CASE i = Len(queue) + 1
      BY <2>1, <2>2, <2>3, <3>1 DEF FifoOrder
    <3>2. CASE i # Len(queue) + 1
      BY <2>1, <2>2, <2>3, <2>5, <3>2 DEF FifoOrder
    <3> QED
      BY <3>1, <3>2
  <2> QED
    BY <2>4, <2>5 DEF FifoOrder
<1>2. CASE FlushPop
  BY <1>2, TakeHeadFifo DEF FlushPop
<1>3. ASSUME NEW w \in Workers, Pop(w) PROVE FifoOrder'
  BY <1>3, TakeHeadFifo DEF Pop
<1>4. ASSUME NEW w \in Workers, Finish(w) PROVE FifoOrder'
  BY <1>4 DEF Finish, FifoOrder
<1>5. CASE UNCHANGED messages
  BY <1>5 DEF messages, FifoOrder
<1> QED
  BY MessageSteps, <1>1, <1>2, <1>3, <1>4, <1>5

\* FifoOrder is an invariant: no message overtakes another or is lost in the
\* queue, for any number of execution threads.
THEOREM FifoAlways == Spec => []FifoOrder
<1>1. Init => FifoOrder
  BY DEF Init, FifoOrder
<1>2. TypeOK /\ FifoOrder /\ [Next]_vars => FifoOrder'
  BY FifoStep
<1> QED
  BY TypeCorrect, <1>1, <1>2, PTL DEF Spec

\* A thread holds a message exactly while it executes it.
Busy == \A w \in Workers : cur[w] # 0 <=> pc[w] = "exec"

\* Busy is preserved: only Pop enters the label "exec", only Finish leaves it.
LEMMA BusyStep == TypeOK /\ FifoOrder /\ Busy /\ [Next]_vars => Busy'
<1> SUFFICES ASSUME TypeOK, FifoOrder, Busy, [Next]_vars PROVE Busy'
  OBVIOUS
<1> USE ThreadsAssumption DEF Threads, Busy, history, Goto
<1>0. /\ pc \in [Threads -> MainLabels \cup WorkerLabels]
      /\ cur \in [Workers -> Nat]
      /\ taken \in Nat
  BY DEF TypeOK
<1>1. ASSUME NEW w \in Workers, Pop(w) PROVE Busy'
  <2>1. Head(queue) = taken + 1
    BY <1>1, TakeHeadFifo DEF Pop
  <2>2. cur' = [cur EXCEPT ![w] = taken + 1] /\ pc' = [pc EXCEPT ![w] = "exec"]
    BY <1>1, <2>1 DEF Pop
  <2> QED
    BY <1>0, <2>2
<1>2. ASSUME NEW w \in Workers, Finish(w) PROVE Busy'
  BY <1>0, <1>2 DEF Finish
<1>3. CASE Push
  <2>1. cur' = cur
    BY <1>3 DEF Push
  <2>2. ASSUME NEW w \in Workers PROVE pc'[w] = "exec" <=> pc[w] = "exec"
    BY <1>0, <1>3 DEF Push, SignalOne, Waiters, Sleeping, Awake
  <2> QED
    BY <2>1, <2>2
<1>4. CASE FlushDone
  <2>1. cur' = cur
    BY <1>4 DEF FlushDone
  <2>2. ASSUME NEW w \in Workers PROVE pc'[w] = "exec" <=> pc[w] = "exec"
    BY <1>4 DEF FlushDone
  <2> QED
    BY <2>1, <2>2
<1>5. ASSUME NEW t \in Threads, SpuriousWakeup(t) PROVE Busy'
  BY <1>0, <1>5 DEF SpuriousWakeup, Sleeping, Awake
<1>6. ASSUME NEW t \in Threads, WaitOnEmpty(t) PROVE Busy'
  BY <1>0, <1>6 DEF WaitOnEmpty
<1>7. ASSUME NEW w \in Workers, Check(w) PROVE Busy'
  BY <1>0, <1>7 DEF Check
<1>8. CASE LoopTest \/ (\E k \in 0..MaxChunk : Receive(k)) \/ ReceiveFails \/ EndOfChunk
  BY <1>0, <1>8 DEF LoopTest, Receive, ReceiveFails, EndOfChunk
<1>9. CASE FlushTest \/ FlushPop \/ JoinTimer \/ JoinWorkers \/ TimerExit
  BY <1>0, <1>9 DEF FlushTest, FlushPop, JoinTimer, JoinWorkers, TimerExit
<1>10. CASE SkipLine \/ StopSignal \/ UNCHANGED vars
  BY <1>10 DEF SkipLine, StopSignal, vars
<1>11. ASSUME NEW w \in Workers, DieOrRestart(w) PROVE Busy'
  BY <1>11 DEF DieOrRestart
<1> QED
  BY NextCases, <1>1, <1>2, <1>3, <1>4, <1>5, <1>6, <1>7, <1>8, <1>9, <1>10, <1>11
  DEF StepCases

\* A step that takes a message hands it to a thread or to flushQueue.
LEMMA OnceStep ==
    TypeOK /\ FifoOrder /\ Busy /\ ExactlyOnce /\ [Next]_vars => ExactlyOnce'
<1> SUFFICES ASSUME TypeOK, FifoOrder, Busy, ExactlyOnce, [Next]_vars PROVE ExactlyOnce'
  OBVIOUS
<1>0. /\ cur \in [Workers -> Nat]
      /\ taken \in Nat
      /\ 1..(taken + 1) = (1..taken) \cup {taken + 1}
      /\ taken + 1 \notin 1..taken
  BY DEF TypeOK
<1>1. /\ 1..taken = InHand \cup done \cup dropped
      /\ InHand \cap done = {}
      /\ InHand \cap dropped = {}
      /\ done \cap dropped = {}
      /\ \A v, w \in Workers : cur[v] = cur[w] /\ cur[v] # 0 => v = w
  BY DEF ExactlyOnce
<1>2. CASE FlushPop
  <2>1. /\ taken' = taken + 1
        /\ dropped' = dropped \cup {taken + 1}
        /\ done' = done
        /\ cur' = cur
    BY <1>2, TakeHeadFifo DEF FlushPop
  <2>2. InHand' = InHand
    BY <2>1 DEF InHand
  <2> QED
    BY <1>0, <1>1, <2>1, <2>2 DEF ExactlyOnce
<1>3. ASSUME NEW w \in Workers, Pop(w) PROVE ExactlyOnce'
  <2>1. /\ taken' = taken + 1
        /\ cur' = [cur EXCEPT ![w] = taken + 1]
        /\ done' = done
        /\ dropped' = dropped
    BY <1>3, TakeHeadFifo DEF Pop
  <2>2. cur[w] = 0
    BY <1>3 DEF Pop, Goto, Busy
  <2>3. InHand' = InHand \cup {taken + 1}
    BY <1>0, <2>1, <2>2 DEF InHand
  <2>4. \A u \in Workers : cur[u] # taken + 1
    BY <1>0, <1>1 DEF InHand
  <2>5. \A u, v \in Workers : cur'[u] = cur'[v] /\ cur'[u] # 0 => u = v
    BY <1>0, <1>1, <2>1, <2>4
  <2> QED
    BY <1>0, <1>1, <2>1, <2>3, <2>5 DEF ExactlyOnce
<1>4. ASSUME NEW w \in Workers, Finish(w) PROVE ExactlyOnce'
  <2>1. /\ taken' = taken
        /\ cur' = [cur EXCEPT ![w] = 0]
        /\ done' = done \cup {cur[w]}
        /\ dropped' = dropped
    BY <1>4 DEF Finish
  <2>2. cur[w] # 0
    BY <1>4 DEF Finish, Goto, Busy
  <2>3. InHand' = InHand \ {cur[w]} /\ cur[w] \in InHand
    BY <1>0, <1>1, <2>1, <2>2 DEF InHand
  <2>4. \A u, v \in Workers : cur'[u] = cur'[v] /\ cur'[u] # 0 => u = v
    BY <1>0, <1>1, <2>1
  <2> QED
    BY <1>1, <2>1, <2>3, <2>4 DEF ExactlyOnce
<1>5. CASE Push
  BY <1>5 DEF Push, history, ExactlyOnce, InHand
<1>6. CASE UNCHANGED messages
  BY <1>6 DEF messages, ExactlyOnce, InHand
<1> QED
  BY MessageSteps, <1>2, <1>3, <1>4, <1>5, <1>6

\* ExactlyOnce needs FifoOrder (a popped number is new) and Busy (the thread
\* that pops holds nothing that could be overwritten).
IInv == TypeOK /\ FifoOrder /\ Busy /\ ExactlyOnce

\* What the threads do with the messages holds in every reachable state.
LEMMA IInvInvariant == Spec => []IInv
<1>1. Init => IInv
  <2> SUFFICES ASSUME Init PROVE IInv
    OBVIOUS
  <2>1. TypeOK /\ FifoOrder
    BY TypeInit DEF Init, FifoOrder
  <2>2. Busy /\ ExactlyOnce
    BY ThreadsAssumption DEF Init, Busy, ExactlyOnce, InHand, Threads
  <2> QED
    BY <2>1, <2>2 DEF IInv
<1>2. IInv /\ [Next]_vars => IInv'
  BY TypeStep, FifoStep, BusyStep, OnceStep DEF IInv
<1> QED
  BY <1>1, <1>2, PTL DEF Spec

\* ExactlyOnce is an invariant: no command is executed twice or by two threads,
\* and none disappears, for any number of execution threads.
THEOREM ExactlyOnceAlways == Spec => []ExactlyOnce
<1>1. IInv => ExactlyOnce
  BY DEF IInv
<1> QED
  BY IInvInvariant, <1>1, PTL

-----------------------------------------------------------------------------
(* CommandQueue implements Dispatch *)

\* A worker's pop starts the next message, the end of its handler finishes it,
\* a pop of flushQueue discards it, and every other step is a stop or a stutter.
LEMMA DispatchStep ==
    IInv /\ [Next]_vars /\ (pc[Main] = "flushPop" => stop) => [D!Next]_D!vars
<1> SUFFICES ASSUME IInv, [Next]_vars, pc[Main] = "flushPop" => stop
             PROVE  [D!Next]_D!vars
  OBVIOUS
<1> USE DEF history
<1>0. TypeOK /\ FifoOrder /\ Busy
  BY DEF IInv
<1>1. CASE Push
  BY <1>1 DEF Push, D!Next, D!Accept
<1>2. CASE FlushPop
  <2>1. /\ taken + 1 \in 1..pushed
        /\ taken' = taken + 1
        /\ dropped' = dropped \cup {taken + 1}
        /\ stop
    BY <1>0, <1>2, TakeHeadFifo DEF FlushPop, Goto
  <2>2. taken < pushed
    BY <1>0, <2>1 DEF TypeOK
  <2> QED
    BY <1>2, <2>1, <2>2 DEF FlushPop, D!Next, D!Discard
<1>3. ASSUME NEW w \in Workers, Pop(w) PROVE D!Next
  <2>1. /\ taken + 1 \in 1..pushed
        /\ taken' = taken + 1
        /\ cur' = [cur EXCEPT ![w] = taken + 1]
        /\ cur[w] = 0
    BY <1>0, <1>3, TakeHeadFifo DEF Pop, Goto, Busy
  <2>2. taken < pushed
    BY <1>0, <2>1 DEF TypeOK
  <2> QED
    BY <1>3, <2>1, <2>2 DEF Pop, D!Next, D!Start
<1>4. ASSUME NEW w \in Workers, Finish(w) PROVE D!Next
  <2>1. cur[w] # 0
    BY <1>0, <1>4 DEF Finish, Goto, Busy
  <2> QED
    BY <1>4, <2>1 DEF Finish, D!Next, D!Finish
<1>5. CASE ReceiveFails
  BY <1>5 DEF ReceiveFails, D!Next, D!Stop
<1>6. ASSUME NEW w \in Workers, DieOrRestart(w) PROVE D!Next
  BY <1>6 DEF DieOrRestart, D!Next, D!Stop
<1>7. CASE StopSignal
  BY <1>7 DEF StopSignal, D!Next, D!Stop
<1>8. CASE UNCHANGED D!vars
  BY <1>8
<1>9. \/ Push \/ FlushPop \/ ReceiveFails \/ StopSignal
      \/ \E w \in Workers : Pop(w) \/ Finish(w) \/ DieOrRestart(w)
      \/ UNCHANGED D!vars
  <2> SUFFICES ASSUME StepCases
               PROVE  \/ Push \/ FlushPop \/ ReceiveFails \/ StopSignal
                      \/ \E w \in Workers : Pop(w) \/ Finish(w) \/ DieOrRestart(w)
                      \/ UNCHANGED D!vars
    BY NextCases
  <2> QED
    BY DEF StepCases, D!vars, vars, LoopTest, Receive, SkipLine, EndOfChunk, FlushTest,
           FlushDone, JoinTimer, JoinWorkers, WaitOnEmpty, Check, SpuriousWakeup, TimerExit
<1> QED
  BY <1>1, <1>2, <1>3, <1>4, <1>5, <1>6, <1>7, <1>8, <1>9

AfterLoop == {"flush", "flushPop", "flushWait", "joinTimer", "join", "closed"}

\* The main thread leaves the receive loop only when stop is set.
StopSeen == pc[Main] \in AfterLoop => stop

\* stop is never reset within one life of the bot, so StopSeen is preserved.
LEMMA StopSeenStep == TypeOK /\ StopSeen /\ [Next]_vars => StopSeen'
<1> SUFFICES ASSUME TypeOK, StopSeen, [Next]_vars PROVE StopSeen'
  OBVIOUS
<1> USE ThreadsAssumption DEF Threads, StopSeen, AfterLoop, history, Goto
<1>0. pc \in [Threads -> MainLabels \cup WorkerLabels]
  BY DEF TypeOK
<1>1. CASE Push
  <2>1. pc'[Main] = pc[Main] /\ stop' = stop
    BY <1>0, <1>1 DEF Push, SignalOne, Waiters, Sleeping, Awake
  <2> QED
    BY <2>1
<1>2. ASSUME NEW t \in Threads, SpuriousWakeup(t) PROVE StopSeen'
  BY <1>0, <1>2 DEF SpuriousWakeup, Sleeping, Awake
<1>3. ASSUME NEW t \in Threads, WaitOnEmpty(t) PROVE StopSeen'
  BY <1>0, <1>3 DEF WaitOnEmpty
<1>4. ASSUME NEW w \in Workers, Check(w) \/ Pop(w) \/ Finish(w) \/ DieOrRestart(w)
      PROVE  StopSeen'
  BY <1>0, <1>4 DEF Check, Pop, Finish, DieOrRestart
<1>5. CASE LoopTest \/ (\E k \in 0..MaxChunk : Receive(k)) \/ ReceiveFails \/ EndOfChunk
  BY <1>0, <1>5 DEF LoopTest, Receive, ReceiveFails, EndOfChunk
<1>6. CASE FlushTest \/ FlushPop \/ FlushDone \/ JoinTimer \/ JoinWorkers \/ TimerExit
  BY <1>0, <1>6 DEF FlushTest, FlushPop, FlushDone, JoinTimer, JoinWorkers, TimerExit
<1>7. CASE SkipLine \/ StopSignal \/ UNCHANGED vars
  BY <1>7 DEF SkipLine, StopSignal, vars
<1> QED
  BY NextCases, <1>1, <1>2, <1>3, <1>4, <1>5, <1>6, <1>7 DEF StepCases

\* Dispatched: for any number of execution threads, the queue, its condition
\* variable and the stop protocol implement the dispatch of Dispatch.tla.
THEOREM ImplementsDispatch == Spec => Dispatched
<1>1. Init => D!Init
  BY DEF Init, D!Init
<1>2. IInv /\ StopSeen /\ [Next]_vars => [D!Next]_D!vars
  BY DispatchStep DEF StopSeen, AfterLoop
<1>3. Init => StopSeen
  BY ThreadsAssumption DEF Init, StopSeen, AfterLoop, Threads
<1>4. TypeOK /\ StopSeen /\ [Next]_vars => StopSeen'
  BY StopSeenStep
<1> QED
  BY IInvInvariant, TypeCorrect, <1>1, <1>2, <1>3, <1>4, PTL DEF Spec, Dispatched, D!Spec

-----------------------------------------------------------------------------
(* The end of the bot *)

\* A worker that took a late message, or has not taken one although stop is
\* set, is at the label that allows it.
LateInv == \A w \in Workers : /\ late[w] \in {0, 1}
                              /\ late[w] = 1 => stop /\ pc[w] \in {"exec", "check", "exited"}

\* The test of stop comes between two pops of a worker: LateInv is preserved.
LEMMA LateStep == TypeOK /\ LateInv /\ [Next]_vars => LateInv'
<1> SUFFICES ASSUME TypeOK, LateInv, [Next]_vars PROVE LateInv'
  OBVIOUS
<1> USE ThreadsAssumption DEF Threads, LateInv, history, Goto
<1>0. /\ pc \in [Threads -> MainLabels \cup WorkerLabels]
      /\ late \in [Workers -> Nat]
      /\ stop \in BOOLEAN
  BY DEF TypeOK
<1>1. CASE Push
  <2>1. stop' = stop /\ late' = late
    BY <1>1 DEF Push
  <2>2. \A w \in Workers : pc[w] \in {"exec", "check", "exited"} => pc'[w] = pc[w]
    BY <1>0, <1>1 DEF Push, SignalOne, Waiters, Sleeping, Awake
  <2> QED
    BY <2>1, <2>2
<1>2. ASSUME NEW t \in Threads, SpuriousWakeup(t) \/ WaitOnEmpty(t) PROVE LateInv'
  BY <1>0, <1>2 DEF SpuriousWakeup, WaitOnEmpty, Sleeping, Awake
<1>3. ASSUME NEW w \in Workers, Check(w) \/ Pop(w) \/ Finish(w) \/ DieOrRestart(w)
      PROVE  LateInv'
  BY <1>0, <1>3 DEF Check, Pop, Finish, DieOrRestart
<1>4. CASE LoopTest \/ (\E k \in 0..MaxChunk : Receive(k)) \/ ReceiveFails \/ EndOfChunk
  BY <1>0, <1>4 DEF LoopTest, Receive, ReceiveFails, EndOfChunk
<1>5. CASE FlushTest \/ FlushPop \/ FlushDone \/ JoinTimer \/ JoinWorkers \/ TimerExit
  BY <1>0, <1>5 DEF FlushTest, FlushPop, FlushDone, JoinTimer, JoinWorkers, TimerExit
<1>6. CASE SkipLine \/ StopSignal \/ UNCHANGED vars
  BY <1>6 DEF SkipLine, StopSignal, vars
<1> QED
  BY NextCases, <1>1, <1>2, <1>3, <1>4, <1>5, <1>6 DEF StepCases

\* OneLateMessage: after stop is set an execution thread starts at most one
\* further command, for any number of threads and messages.
THEOREM OneLateAlways == Spec => []OneLateMessage
<1>1. Init => LateInv
  BY DEF Init, LateInv
<1>2. TypeOK /\ LateInv /\ [Next]_vars => LateInv'
  BY LateStep
<1>3. LateInv => OneLateMessage
  BY DEF LateInv, OneLateMessage
<1> QED
  BY TypeCorrect, <1>1, <1>2, <1>3, PTL DEF Spec

\* Once joined, the workers are gone and the main thread only flushes; closed
\* means joined and the queue empty.
JoinInv == /\ joined => /\ \A w \in Workers : pc[w] = "exited"
                        /\ pc[Main] \in {"flush", "flushPop", "flushWait", "closed"}
           /\ pc[Main] = "closed" => joined /\ queue = <<>>

\* pthread_join comes before deleteQueue, and nobody pushes in between: JoinInv
\* is preserved.
LEMMA JoinStep == TypeOK /\ JoinInv /\ [Next]_vars => JoinInv'
<1> SUFFICES ASSUME TypeOK, JoinInv, [Next]_vars PROVE JoinInv'
  OBVIOUS
<1> USE ThreadsAssumption DEF Threads, JoinInv, history, Goto
<1>0. pc \in [Threads -> MainLabels \cup WorkerLabels] /\ joined \in BOOLEAN
  BY DEF TypeOK
<1>1. CASE Push
  <2>1. pc[Main] = "parse" /\ ~joined /\ joined' = joined
    BY <1>0, <1>1 DEF Push
  <2>2. pc'[Main] = "parse"
    BY <1>0, <1>1 DEF Push, SignalOne, Waiters, Sleeping, Awake
  <2> QED
    BY <2>1, <2>2
<1>2. ASSUME NEW t \in Threads, SpuriousWakeup(t) \/ WaitOnEmpty(t) PROVE JoinInv'
  BY <1>0, <1>2 DEF SpuriousWakeup, WaitOnEmpty, Sleeping, Awake
<1>3. ASSUME NEW w \in Workers, Check(w) \/ Pop(w) \/ Finish(w) \/ DieOrRestart(w)
      PROVE  JoinInv'
  BY <1>0, <1>3 DEF Check, Pop, TakeHead, Finish, DieOrRestart
<1>4. CASE LoopTest \/ (\E k \in 0..MaxChunk : Receive(k)) \/ ReceiveFails \/ EndOfChunk
  BY <1>0, <1>4 DEF LoopTest, Receive, ReceiveFails, EndOfChunk
<1>5. CASE FlushTest \/ FlushPop \/ FlushDone \/ JoinTimer \/ JoinWorkers \/ TimerExit
  BY <1>0, <1>5 DEF FlushTest, FlushPop, FlushDone, JoinTimer, JoinWorkers, TimerExit
<1>6. CASE SkipLine \/ StopSignal \/ UNCHANGED vars
  BY <1>6 DEF SkipLine, StopSignal, vars
<1> QED
  BY NextCases, <1>1, <1>2, <1>3, <1>4, <1>5, <1>6 DEF StepCases

\* QueueFreedLast: deleteQueue destroys the mutex and frees the queue when no
\* execution thread is left and every message was executed or freed.
THEOREM QueueFreedLastAlways == Spec => []QueueFreedLast
<1>1. Init => JoinInv
  BY ThreadsAssumption DEF Init, JoinInv, Threads
<1>2. TypeOK /\ JoinInv /\ [Next]_vars => JoinInv'
  BY JoinStep
<1>3. IInv /\ JoinInv => QueueFreedLast
  <2> SUFFICES ASSUME IInv, JoinInv, pc[Main] = "closed"
               PROVE  /\ \A w \in Workers : pc[w] = "exited"
                      /\ InHand = {}
                      /\ done \cup dropped = 1..pushed
    BY DEF QueueFreedLast
  <2>1. \A w \in Workers : pc[w] = "exited"
    BY DEF JoinInv
  <2>2. InHand = {}
    BY <2>1 DEF IInv, Busy, InHand
  <2>3. taken = pushed
    BY DEF IInv, JoinInv, FifoOrder, TypeOK
  <2> QED
    BY <2>1, <2>2, <2>3 DEF IInv, ExactlyOnce
<1> QED
  BY IInvInvariant, TypeCorrect, <1>1, <1>2, <1>3, PTL DEF Spec

-----------------------------------------------------------------------------
(* No lost wakeup *)

\* The threads that will test the queue again are finitely many.
LEMMA ReadyFinite == IsFiniteSet(Ready) /\ IsFiniteSet(Ready')
<1>1. IsFiniteSet(Threads)
  <2>1. IsFiniteSet({Main}) /\ IsFiniteSet({Timer})
    BY FS_Singleton
  <2>2. IsFiniteSet({Main} \cup {Timer})
    BY <2>1, FS_Union
  <2>3. Threads = Workers \cup ({Main} \cup {Timer})
    BY DEF Threads
  <2> QED
    BY <2>2, <2>3, FS_Union, ThreadsAssumption
<1> QED
  BY <1>1, FS_Subset DEF Ready

\* Every push wakes a sleeper if there is one, a sleeper falls asleep only on
\* an empty queue, and a thread that stops being ready takes a message.
LEMMA WakeupStep == TypeOK /\ NoLostWakeup /\ [Next]_vars => NoLostWakeup'
<1> SUFFICES ASSUME TypeOK, NoLostWakeup, [Next]_vars, Waiters' # {}
             PROVE  Len(queue') <= Cardinality(Ready')
  BY DEF NoLostWakeup
<1> USE ThreadsAssumption DEF Threads, history, Goto
<1>0. /\ pc \in [Threads -> MainLabels \cup WorkerLabels]
      /\ queue \in Seq(Nat \ {0})
      /\ Len(queue) \in Nat
  BY DEF TypeOK
<1>1. Cardinality(Ready) \in Nat /\ Cardinality(Ready') \in Nat
  BY ReadyFinite, FS_CardinalityType
<1>2. ASSUME Waiters # {}, Len(queue') <= Len(queue), Ready \subseteq Ready'
      PROVE  Len(queue') <= Cardinality(Ready')
  <2>1. Cardinality(Ready) <= Cardinality(Ready')
    BY <1>2, ReadyFinite, FS_Subset
  <2>2. Len(queue) <= Cardinality(Ready)
    BY <1>2 DEF NoLostWakeup
  <2>3. Len(queue') \in Nat
    BY TypeStep DEF TypeOK
  <2> QED
    BY <1>0, <1>1, <1>2, <2>1, <2>2, <2>3
<1>3. ASSUME NEW t \in Threads, t \in Ready, Ready' = Ready \ {t},
             Waiters # {}, TakeHead
      PROVE  Len(queue') <= Cardinality(Ready')
  <2>1. Cardinality(Ready') = Cardinality(Ready) - 1
    BY <1>3, ReadyFinite, FS_RemoveElement
  <2>2. queue # <<>> /\ queue' = Tail(queue)
    BY <1>3 DEF TakeHead
  <2>3. Len(queue') = Len(queue) - 1
    BY <1>0, <2>2
  <2>4. Len(queue) <= Cardinality(Ready)
    BY <1>3 DEF NoLostWakeup
  <2> QED
    BY <1>0, <1>1, <2>1, <2>3, <2>4
<1>4. CASE Push
  <2>1. PICK t \in Waiters : pc' = [pc EXCEPT ![t] = Awake(pc[t])]
    <3>1. CASE pc' = pc /\ Waiters = {}
      BY <3>1 DEF Waiters
    <3> QED
      BY <1>4, <3>1 DEF Push, SignalOne
  <2>2. t \in Threads /\ pc[t] \in Sleeping
    BY DEF Waiters
  <2>3. t \notin Ready /\ Ready' = Ready \cup {t}
    BY <1>0, <2>1, <2>2 DEF Ready, Sleeping, Awake
  <2>4. Cardinality(Ready') = Cardinality(Ready) + 1
    BY <2>3, ReadyFinite, FS_AddElement
  <2>5. queue' = Append(queue, pushed + 1) /\ pushed \in Nat
    BY <1>4 DEF Push, TypeOK
  <2>6. Len(queue') = Len(queue) + 1
    BY <1>0, <2>5
  <2>7. Len(queue) <= Cardinality(Ready)
    BY <2>2 DEF NoLostWakeup, Waiters
  <2> QED
    BY <1>0, <1>1, <2>4, <2>6, <2>7
<1>5. ASSUME NEW w \in Workers, Pop(w) PROVE Len(queue') <= Cardinality(Ready')
  <2>1. w \in Ready /\ Ready' = Ready \ {w} /\ Waiters' = Waiters
    BY <1>0, <1>5 DEF Pop, Ready, Waiters, Sleeping
  <2> QED
    BY <1>3, <1>5, <2>1 DEF Pop
<1>6. CASE FlushPop
  <2>1. Main \in Ready /\ Ready' = Ready \ {Main} /\ Waiters' = Waiters
    BY <1>0, <1>6 DEF FlushPop, Ready, Waiters, Sleeping
  <2> QED
    BY <1>3, <1>6, <2>1 DEF FlushPop
<1>7. ASSUME queue' = <<>> PROVE Len(queue') <= Cardinality(Ready')
  BY <1>1, <1>7
<1>8. ASSUME NEW t \in Threads, WaitOnEmpty(t) PROVE Len(queue') <= Cardinality(Ready')
  BY <1>7, <1>8 DEF WaitOnEmpty
<1>9. CASE FlushDone
  BY <1>7, <1>9 DEF FlushDone
<1>10. ASSUME UNCHANGED queue, Waiters' \subseteq Waiters, Ready \subseteq Ready'
       PROVE  Len(queue') <= Cardinality(Ready')
  BY <1>0, <1>2, <1>10
<1>11. ASSUME NEW t \in Threads, SpuriousWakeup(t)
       PROVE  Len(queue') <= Cardinality(Ready')
  <2>1. UNCHANGED queue /\ Waiters' \subseteq Waiters /\ Ready \subseteq Ready'
    BY <1>0, <1>11 DEF SpuriousWakeup, Ready, Waiters, Sleeping, Awake
  <2> QED
    BY <1>10, <2>1
<1>12. ASSUME NEW w \in Workers, Check(w) \/ Finish(w) \/ DieOrRestart(w)
       PROVE  Len(queue') <= Cardinality(Ready')
  <2>1. UNCHANGED queue /\ Waiters' \subseteq Waiters /\ Ready \subseteq Ready'
    BY <1>0, <1>12 DEF Check, Finish, DieOrRestart, Ready, Waiters, Sleeping
  <2> QED
    BY <1>10, <2>1
<1>13. CASE LoopTest \/ (\E k \in 0..MaxChunk : Receive(k)) \/ ReceiveFails \/ EndOfChunk
  <2>1. UNCHANGED queue /\ Waiters' \subseteq Waiters /\ Ready \subseteq Ready'
    BY <1>0, <1>13 DEF LoopTest, Receive, ReceiveFails, EndOfChunk, Ready, Waiters, Sleeping
  <2> QED
    BY <1>10, <2>1
<1>14. CASE FlushTest \/ JoinTimer \/ JoinWorkers \/ TimerExit
  <2>1. UNCHANGED queue /\ Waiters' \subseteq Waiters /\ Ready \subseteq Ready'
    BY <1>0, <1>14 DEF FlushTest, JoinTimer, JoinWorkers, TimerExit, Ready, Waiters, Sleeping
  <2> QED
    BY <1>10, <2>1
<1>15. CASE SkipLine \/ StopSignal \/ UNCHANGED vars
  <2>1. UNCHANGED queue /\ Waiters' \subseteq Waiters /\ Ready \subseteq Ready'
    BY <1>15 DEF SkipLine, StopSignal, vars, Ready, Waiters
  <2> QED
    BY <1>10, <2>1
<1> QED
  BY NextCases, <1>4, <1>5, <1>6, <1>8, <1>9, <1>11, <1>12, <1>13, <1>14, <1>15
  DEF StepCases

\* NoLostWakeup: pthread_cond_signal for every pushed message is enough, with
\* any number of sleeping threads, flushQueue's pops and spurious wakeups.
THEOREM NoLostWakeupAlways == Spec => []NoLostWakeup
<1>1. Init => NoLostWakeup
  BY ThreadsAssumption DEF Init, NoLostWakeup, Waiters, Sleeping, Threads
<1>2. TypeOK /\ NoLostWakeup /\ [Next]_vars => NoLostWakeup'
  BY WakeupStep
<1> QED
  BY TypeCorrect, <1>1, <1>2, PTL DEF Spec
=============================================================================
