---------------------------- MODULE CommandQueue ----------------------------
(***************************************************************************)
(* The command queue of one life of the bot (one call of AppMain): the     *)
(* main thread receives lines, pre-parses them and pushes the identified   *)
(* ones; the execution threads pop and handle them; a stop request ends    *)
(* the receive loop, after which the main thread flushes the queue, joins  *)
(* the other threads and deletes the queue.                                *)
(*                                                                         *)
(* Every critical section of queue.c is one step.  popQueue is two: the    *)
(* test under queue_mutex, and pthread_cond_wait, which releases the mutex *)
(* while it sleeps ("wait", "flushWait") and tests again when it wakes.    *)
(* The flag stop is read and written without a lock, in steps of its own.  *)
(*                                                                         *)
(* Messages are numbered in the order in which they are pushed.            *)
(***************************************************************************)
EXTENDS Naturals, Sequences, FiniteSets

CONSTANTS
    Workers,      \* the execution threads, sSetup.thread_limit of them
    Main,         \* the thread that runs AppMain
    Timer,        \* the thread that runs TimingThread
    MaxLines,     \* bound: messages pushed
    MaxChunk      \* bound: complete lines in one recv

Threads == Workers \cup {Main, Timer}

ASSUME ThreadsAssumption == /\ IsFiniteSet(Workers)
                            /\ Main \notin Workers
                            /\ Timer \notin Workers
                            /\ Main # Timer

ASSUME BoundsAssumption == MaxLines \in Nat /\ MaxChunk \in Nat

VARIABLES
    queue,        \* the ring list: head is the sentinel's prev, the oldest
    stop,         \* the global stop flag
    pc,           \* where each thread is
    chunk,        \* complete lines of the receive buffer not yet parsed
    joined,       \* the execution threads have been joined
    cur,          \* the message an execution thread handles, 0 for none
    pushed,       \* number of messages pushed
    taken,        \* number of messages popped
    done,         \* messages whose handler returned
    dropped,      \* messages freed by flushQueue
    late          \* messages each worker popped after stop was set

vars == <<queue, stop, pc, chunk, joined, cur, pushed, taken, done, dropped, late>>
history == <<done, dropped, late>>

MainLabels == {"loop", "recv", "parse", "flush", "flushPop", "flushWait",
               "joinTimer", "join", "closed"}
WorkerLabels == {"check", "pop", "wait", "exec", "exited"}

Init == /\ queue = <<>>
        /\ stop = FALSE
        /\ pc = [t \in Threads |-> IF t = Main THEN "loop" ELSE "check"]
        /\ chunk = 0
        /\ joined = FALSE
        /\ cur = [w \in Workers |-> 0]
        /\ pushed = 0
        /\ taken = 0
        /\ done = {}
        /\ dropped = {}
        /\ late = [w \in Workers |-> 0]

\* t moves from label a to label b.
Goto(t, a, b) == pc[t] = a /\ pc' = [pc EXCEPT ![t] = b]

-----------------------------------------------------------------------------
(* The condition variable StopThreadCond. *)

Sleeping == {"wait", "flushWait"}
Waiters == {t \in Threads : pc[t] \in Sleeping}
Awake(label) == IF label = "wait" THEN "pop" ELSE "flushPop"

\* Fault variant: a push that wakes nobody.
SignalOne_NoSignal == pc' = pc

\* pthread_cond_signal: one sleeper, if there is one, will test again.
SignalOne == \/ /\ Waiters = {}
                /\ pc' = pc
             \/ \E t \in Waiters : pc' = [pc EXCEPT ![t] = Awake(pc[t])]

\* pthread_cond_wait may return although nobody signalled.
SpuriousWakeup(t) == /\ pc[t] \in Sleeping
                     /\ pc' = [pc EXCEPT ![t] = Awake(pc[t])]
                     /\ UNCHANGED <<queue, stop, chunk, joined, cur, pushed, taken, history>>

-----------------------------------------------------------------------------
(* The main thread: the receive loop of AppMain. *)

\* Fault variant: the receive loop ignores stop.
LoopTest_Endless == /\ Goto(Main, "loop", "recv")
                    /\ UNCHANGED <<queue, stop, chunk, joined, cur, pushed, taken, history>>

LoopTest == /\ pc[Main] = "loop"
            /\ pc' = [pc EXCEPT ![Main] = IF stop THEN "flush" ELSE "recv"]
            /\ UNCHANGED <<queue, stop, chunk, joined, cur, pushed, taken, history>>

\* recv returned data with k complete lines (none if only a part arrived).
Receive(k) == /\ Goto(Main, "recv", "parse")
              /\ pushed + k <= MaxLines
              /\ chunk' = k
              /\ UNCHANGED <<queue, stop, joined, cur, pushed, taken, history>>

\* The poll timed out or the server closed the connection.
ReceiveFails == /\ Goto(Main, "recv", "parse")
                /\ stop' = TRUE
                /\ UNCHANGED <<queue, chunk, joined, cur, pushed, taken, history>>

\* Fault variant: the new element is linked at the end popQueue takes from.
Push_Stack == /\ pc[Main] = "parse"
              /\ chunk > 0
              /\ chunk' = chunk - 1
              /\ pushed' = pushed + 1
              /\ queue' = <<pushed + 1>> \o queue
              /\ SignalOne
              /\ UNCHANGED <<stop, joined, cur, taken, history>>

\* An identified line is appended; the signal is sent before the unlock.
Push == /\ pc[Main] = "parse"
        /\ chunk > 0
        /\ chunk' = chunk - 1
        /\ pushed' = pushed + 1
        /\ queue' = Append(queue, pushed + 1)
        /\ SignalOne
        /\ UNCHANGED <<stop, joined, cur, taken, history>>

\* Fault variant: the parse loop goes on after the last line.
SkipLine_Unbounded == /\ pc[Main] = "parse"
                      /\ chunk' = chunk - 1
                      /\ UNCHANGED <<queue, stop, pc, joined, cur, pushed, taken, history>>

\* The line is not identified, is a PING, or malloc fails in pushQueue.
SkipLine == /\ pc[Main] = "parse"
            /\ chunk > 0
            /\ chunk' = chunk - 1
            /\ UNCHANGED <<queue, stop, pc, joined, cur, pushed, taken, history>>

\* Fault variant: the loop is left after the first receive.
EndOfChunk_Leave == /\ chunk = 0
                    /\ Goto(Main, "parse", "flush")
                    /\ UNCHANGED <<queue, stop, chunk, joined, cur, pushed, taken, history>>

EndOfChunk == /\ chunk = 0
              /\ Goto(Main, "parse", "loop")
              /\ UNCHANGED <<queue, stop, chunk, joined, cur, pushed, taken, history>>

-----------------------------------------------------------------------------
(* popQueue, shared by the execution threads and flushQueue. *)

\* Fault variant: the element is read but not unlinked.
TakeHead_Peek == /\ queue # <<>>
                 /\ queue' = queue
                 /\ taken' = taken + 1

TakeHead == /\ queue # <<>>
            /\ queue' = Tail(queue)
            /\ taken' = taken + 1

\* Fault variant: the execution loop does not test stop.
Check_Forever(w) == /\ Goto(w, "check", "pop")
                    /\ UNCHANGED <<queue, stop, chunk, joined, cur, pushed, taken, history>>

\* An execution thread tests stop, and nothing else, before it pops.
Check(w) == /\ pc[w] = "check"
            /\ pc' = [pc EXCEPT ![w] = IF stop THEN "exited" ELSE "pop"]
            /\ UNCHANGED <<queue, stop, chunk, joined, cur, pushed, taken, history>>

Pop(w) == /\ TakeHead
          /\ Goto(w, "pop", "exec")
          /\ cur' = [cur EXCEPT ![w] = Head(queue)]
          /\ late' = [late EXCEPT ![w] = @ + IF stop THEN 1 ELSE 0]
          /\ UNCHANGED <<stop, chunk, joined, pushed, done, dropped>>

\* The wait loop of popQueue tests the counter only, never stop.
WaitOnEmpty(t) == /\ queue = <<>>
                  /\ \/ Goto(t, "pop", "wait")
                     \/ Goto(t, "flushPop", "flushWait")
                  /\ UNCHANGED <<queue, stop, chunk, joined, cur, pushed, taken, history>>

\* The handler of the message returns and its memory is freed.
Finish(w) == /\ Goto(w, "exec", "check")
             /\ done' = done \cup {cur[w]}
             /\ cur' = [cur EXCEPT ![w] = 0]
             /\ UNCHANGED <<queue, stop, chunk, joined, pushed, taken, dropped, late>>

\* The handler is that of !die or !restart: it calls stopParser.
DieOrRestart(w) == /\ pc[w] = "exec"
                   /\ ~stop
                   /\ stop' = TRUE
                   /\ UNCHANGED <<queue, pc, chunk, joined, cur, pushed, taken, history>>

\* stopParser as a signal handler, or SendLine finds the connection closed.
StopSignal == /\ ~stop
              /\ stop' = TRUE
              /\ UNCHANGED <<queue, pc, chunk, joined, cur, pushed, taken, history>>

\* TimingThread leaves its loop; until then its ticks change nothing here.
TimerExit == /\ stop
             /\ Goto(Timer, "check", "exited")
             /\ UNCHANGED <<queue, stop, chunk, joined, cur, pushed, taken, history>>

-----------------------------------------------------------------------------
(* The main thread after the receive loop. *)

\* flushQueue tests isfullQueue and pops in two critical sections.
FlushTest == /\ queue # <<>>
             /\ Goto(Main, "flush", "flushPop")
             /\ UNCHANGED <<queue, stop, chunk, joined, cur, pushed, taken, history>>

FlushPop == /\ TakeHead
            /\ Goto(Main, "flushPop", "flush")
            /\ dropped' = dropped \cup {Head(queue)}
            /\ UNCHANGED <<stop, chunk, joined, cur, pushed, done, late>>

\* The queue is empty: wake all sleepers.  The first flush is followed by the
\* joins, the second one, of deleteQueue, by the destruction of the queue.
FlushDone == /\ pc[Main] = "flush"
             /\ queue = <<>>
             /\ pc' = [t \in Threads |->
                          IF t = Main THEN IF joined THEN "closed" ELSE "joinTimer"
                          ELSE IF pc[t] = "wait" THEN "pop" ELSE pc[t]]
             /\ UNCHANGED <<queue, stop, chunk, joined, cur, pushed, taken, history>>

JoinTimer == /\ pc[Timer] = "exited"
             /\ Goto(Main, "joinTimer", "join")
             /\ UNCHANGED <<queue, stop, chunk, joined, cur, pushed, taken, history>>

\* Fault variant: the execution threads are not joined before deleteQueue.
JoinWorkers_Skip == /\ Goto(Main, "join", "flush")
                    /\ joined' = TRUE
                    /\ UNCHANGED <<queue, stop, chunk, cur, pushed, taken, history>>

JoinWorkers == /\ \A w \in Workers : pc[w] = "exited"
               /\ Goto(Main, "join", "flush")
               /\ joined' = TRUE
               /\ UNCHANGED <<queue, stop, chunk, cur, pushed, taken, history>>

-----------------------------------------------------------------------------
MainNext == \/ LoopTest
            \/ \E k \in 0..MaxChunk : Receive(k)
            \/ ReceiveFails
            \/ Push
            \/ SkipLine
            \/ EndOfChunk
            \/ FlushTest
            \/ FlushPop
            \/ FlushDone
            \/ JoinTimer
            \/ JoinWorkers
            \/ WaitOnEmpty(Main)

WorkerNext(w) == Check(w) \/ Pop(w) \/ WaitOnEmpty(w) \/ Finish(w)

Next == \/ MainNext
        \/ \E w \in Workers : WorkerNext(w) \/ DieOrRestart(w)
        \/ \E t \in Threads : SpuriousWakeup(t)
        \/ StopSignal
        \/ TimerExit

Spec == Init /\ [][Next]_vars

(* The scheduler runs every thread that can run; poll has a timeout, so the *)
(* receive returns, and handlers return.  Nothing makes anyone send a stop  *)
(* request, and no wakeup is owed without a signal.                         *)
Fairness == /\ WF_vars(MainNext)
            /\ \A w \in Workers : WF_vars(WorkerNext(w))
            /\ WF_vars(TimerExit)

FairSpec == Spec /\ Fairness

-----------------------------------------------------------------------------
(* Properties. *)

\* The values every variable of queue.c, ircbot.c and parser.c ranges over.
TypeOK == /\ queue \in Seq(Nat \ {0})
          /\ stop \in BOOLEAN
          /\ pc \in [Threads -> MainLabels \cup WorkerLabels]
          /\ pc[Main] \in MainLabels
          /\ pc[Timer] \in {"check", "exited"}
          /\ \A w \in Workers : pc[w] \in WorkerLabels
          /\ chunk \in Nat
          /\ joined \in BOOLEAN
          /\ cur \in [Workers -> Nat]
          /\ pushed \in Nat
          /\ taken \in Nat
          /\ done \subseteq Nat
          /\ dropped \subseteq Nat
          /\ late \in [Workers -> Nat]

\* popQueue removes messages in the order pushQueue added them and none is lost
\* in between, whatever threads pop: the queue holds the messages after the
\* last one taken, oldest first.
FifoOrder == /\ taken + Len(queue) = pushed
             /\ \A i \in 1..Len(queue) : queue[i] = taken + i

InHand == {cur[w] : w \in Workers} \ {0}

\* A popped message is in exactly one place: with the one thread that executes
\* it, executed, or freed by flushQueue.  No command is executed twice.
ExactlyOnce == /\ 1..taken = InHand \cup done \cup dropped
               /\ InHand \cap done = {}
               /\ InHand \cap dropped = {}
               /\ done \cap dropped = {}
               /\ \A v, w \in Workers : cur[v] = cur[w] /\ cur[v] # 0 => v = w

Ready == {t \in Threads : pc[t] \in {"pop", "flushPop"}}

\* pushQueue signals once for every message, under the mutex: while a thread
\* sleeps in popQueue, every message in the queue has a thread awake to take it.
NoLostWakeup == Waiters # {} => Len(queue) <= Cardinality(Ready)

\* An execution thread that passed its test of stop pops at most one message
\* after stop was set.
OneLateMessage == \A w \in Workers : late[w] <= 1

\* deleteQueue frees the queue and its mutex only when no thread can use them
\* any more, and nothing pushed is left behind unexecuted and unfreed.
QueueFreedLast == pc[Main] = "closed" => /\ \A w \in Workers : pc[w] = "exited"
                                         /\ InHand = {}
                                         /\ done \cup dropped = 1..pushed

\* The dispatch promised by Dispatch.tla: in order, one thread per message,
\* and nothing thrown away before a stop request.
D == INSTANCE Dispatch WITH Servers <- Workers, accepted <- pushed, started <- taken,
                            serving <- cur, finished <- done, discarded <- dropped,
                            stopping <- stop
Dispatched == D!Spec

\* Every message pushed by AppMain is executed or, after a stop request, freed:
\* none stays in the queue while threads sleep.
MessageServed == \A m \in 1..MaxLines : pushed >= m ~> m \in done \cup dropped

\* An execution thread that is not in popQueue when stop is set terminates.
BusyWorkersStop ==
    \A w \in Workers : stop /\ pc[w] \in {"check", "exec"} ~> pc[w] = "exited"

\* The main thread leaves the receive loop after a stop request, also if it is
\* blocked in RecvLine or has lines left to parse.
ReceiveLoopEnds == stop ~> pc[Main] \notin {"loop", "recv", "parse"}
=============================================================================
