------------------------------- MODULE Sending -------------------------------
(***************************************************************************)
(* The sending of lines and the end of the bot: SendLine with mutexSend,   *)
(* which every thread calls; stopParser, which !die calls and which is the *)
(* handler of the signals, so that it interrupts a thread anywhere; the    *)
(* loss of the connection, which a send answers with SIGPIPE and a receive *)
(* with the end of the main loop; and the way of the main thread from the  *)
(* first signal handler to the destruction of the mutex.                   *)
(*                                                                         *)
(* Each thread has a stack: what it is at, above what it will go on with.  *)
(***************************************************************************)
EXTENDS Naturals, Sequences, FiniteSets

CONSTANTS
    Main,         \* the main thread
    Timer,        \* the timing thread
    Workers,      \* the execution threads
    Joiner,       \* JoinAllChannelsThread, detached
    MaxLines,     \* bound: lines that are sent, apart from QUIT
    MaxSignals,   \* bound: signals from outside
    None          \* mutexSend has no owner

Joined == Workers \cup {Timer}
Threads == Joined \cup {Main, Joiner}

ASSUME SendingAssumption == /\ MaxLines \in Nat /\ MaxSignals \in Nat
                            /\ Main # Timer /\ Main # Joiner /\ Timer # Joiner
                            /\ Workers \cap {Main, Timer, Joiner} = {}
                            /\ None \notin Threads /\ "destroyed" \notin Threads
                            /\ None # "destroyed"

\* SendLine from the lock to the unlock, stopParser before and behind its QUIT, the
\* loop of a thread, and the way of the main thread.
SendLabels == {"lock", "send", "unlock"}
HandlerLabels == {"test", "set"}
Labels == SendLabels \cup HandlerLabels
          \cup {"work", "reset", "create", "loop", "recv", "join", "destroy"}

VARIABLES
    stack,        \* thread -> labels, the innermost first; empty if it does not run
    owner,        \* mutexSend: its owner, None, or "destroyed"
    stop,         \* the flag
    link,         \* the connection: "up", "quit" (the server has a QUIT), "down"
    lines,        \* lines that may still be sent
    signals       \* signals that may still come

vars == <<stack, owner, stop, link, lines, signals>>

\* The main thread has connected and installed the handlers.  stop is FALSE when the
\* process has begun, and still TRUE when main has called AppMain again after
\* !restart; the JoinAllChannelsThread of the run before has ended by then.
Init == /\ stack = [t \in Threads |-> IF t = Main THEN <<"reset">> ELSE <<>>]
        /\ owner = None
        /\ stop \in BOOLEAN
        /\ link = "up"
        /\ lines = MaxLines
        /\ signals = MaxSignals

At(t, label) == stack[t] # <<>> /\ Head(stack[t]) = label

\* The innermost label gives way to others, or to none.
Replace(t, labels) == stack' = [stack EXCEPT ![t] = labels \o Tail(@)]

-----------------------------------------------------------------------------
(* SendLine *)

\* Fault variant: a line is sent without the lock.
Lock_None(t) == /\ At(t, "lock")
                /\ Replace(t, <<"send">>)
                /\ UNCHANGED <<owner, stop, link, lines, signals>>

\* A thread waits while there is an owner, itself included.  The lock of a mutex
\* that is destroyed fails, which nobody looks at.
Lock(t) == /\ At(t, "lock")
           /\ owner \in {None, "destroyed"}
           /\ Replace(t, <<"send">>)
           /\ owner' = IF owner = None THEN t ELSE owner
           /\ UNCHANGED <<stop, link, lines, signals>>

\* The line goes out; a QUIT if stopParser waits for the return.
Quits(t) == Len(stack[t]) > 1 /\ stack[t][2] = "set"

Send(t) == /\ At(t, "send")
           /\ link # "down"
           /\ Replace(t, <<"unlock">>)
           /\ link' = IF Quits(t) THEN "quit" ELSE link
           /\ UNCHANGED <<owner, stop, lines, signals>>

\* Fault variant: SendLine returns when send fails.
BrokenSend_Return(t) == /\ At(t, "send")
                        /\ link = "down"
                        /\ Replace(t, <<"test">>)
                        /\ UNCHANGED <<owner, stop, link, lines, signals>>

\* Without a connection SIGPIPE interrupts the thread in send, whose result, -1, is
\* no reason to stop behind it.
BrokenSend(t) == /\ At(t, "send")
                 /\ link = "down"
                 /\ Replace(t, <<"test", "unlock">>)
                 /\ UNCHANGED <<owner, stop, link, lines, signals>>

Unlock(t) == /\ At(t, "unlock")
             /\ Replace(t, <<>>)
             /\ owner' = IF owner = t THEN None ELSE owner
             /\ UNCHANGED <<stop, link, lines, signals>>

-----------------------------------------------------------------------------
(* stopParser *)

\* Fault variant: a signal only sets stop.
TestStop_NoQuit(t) == /\ At(t, "test")
                      /\ Replace(t, <<"set">>)
                      /\ UNCHANGED <<owner, stop, link, lines, signals>>

TestStop(t) == /\ At(t, "test")
               /\ Replace(t, IF stop THEN <<"set">> ELSE <<"lock", "set">>)
               /\ UNCHANGED <<owner, stop, link, lines, signals>>

SetStop(t) == /\ At(t, "set")
              /\ Replace(t, <<>>)
              /\ stop' = TRUE
              /\ UNCHANGED <<owner, link, lines, signals>>

\* A signal from outside interrupts some thread.
Signal(t) == /\ signals > 0
             /\ signals' = signals - 1
             /\ stack[t] # <<>>
             /\ stack' = [stack EXCEPT ![t] = <<"test">> \o @]
             /\ UNCHANGED <<owner, stop, link, lines>>

-----------------------------------------------------------------------------
(* The threads. *)

\* An answer, a ping or a JOIN.
SendSomething(t) == /\ At(t, "work")
                    /\ lines > 0
                    /\ lines' = lines - 1
                    /\ Replace(t, <<"lock", "work">>)
                    /\ UNCHANGED <<owner, stop, link, signals>>

\* !die
Die(w) == /\ At(w, "work")
          /\ ~ stop
          /\ signals > 0
          /\ signals' = signals - 1
          /\ Replace(w, <<"test", "work">>)
          /\ UNCHANGED <<owner, stop, link, lines>>

\* The threads that are joined end when stop is set, JoinAllChannelsThread at the
\* end of its list.
End(t) == /\ At(t, "work")
          /\ t \in Joined => stop
          /\ Replace(t, <<>>)
          /\ UNCHANGED <<owner, stop, link, lines, signals>>

\* "Main execution loop": stop is reset.
ResetStop == /\ At(Main, "reset")
             /\ Replace(Main, <<"create">>)
             /\ stop' = FALSE
             /\ UNCHANGED <<owner, link, lines, signals>>

Create == /\ At(Main, "create")
          /\ stack' = [t \in Threads |-> IF t = Main THEN <<"loop">> ELSE <<"work">>]
          /\ UNCHANGED <<owner, stop, link, lines, signals>>

Loop == /\ At(Main, "loop")
        /\ Replace(Main, IF stop THEN <<"join">> ELSE <<"recv">>)
        /\ UNCHANGED <<owner, stop, link, lines, signals>>

\* A line from the server; a PING is answered at once.
Receive == /\ At(Main, "recv")
           /\ link # "down"
           /\ \/ Replace(Main, <<"loop">>) /\ UNCHANGED lines
              \/ /\ lines > 0
                 /\ lines' = lines - 1
                 /\ Replace(Main, <<"lock", "loop">>)
           /\ UNCHANGED <<owner, stop, link, signals>>

\* The connection has ended.
ReceiveEnd == /\ At(Main, "recv")
              /\ link = "down"
              /\ Replace(Main, <<"loop">>)
              /\ stop' = TRUE
              /\ UNCHANGED <<owner, link, lines, signals>>

\* poll finds nothing within the timeout.
Timeout == /\ At(Main, "recv")
           /\ link # "down"
           /\ Replace(Main, <<"loop">>)
           /\ stop' = TRUE
           /\ UNCHANGED <<owner, link, lines, signals>>

\* Fault variant: only the execution threads are joined.
JoinThreads_Workers == /\ At(Main, "join")
                       /\ \A t \in Workers : stack[t] = <<>>
                       /\ Replace(Main, <<"destroy">>)
                       /\ UNCHANGED <<owner, stop, link, lines, signals>>

JoinThreads == /\ At(Main, "join")
               /\ \A t \in Joined : stack[t] = <<>>
               /\ Replace(Main, <<"destroy">>)
               /\ UNCHANGED <<owner, stop, link, lines, signals>>

\* disconnectServer: the connection is shut for receiving only, which nobody does any
\* more; a mutex with an owner is not destroyed.
Disconnect == /\ At(Main, "destroy")
              /\ Replace(Main, <<>>)
              /\ owner' = IF owner = None THEN "destroyed" ELSE owner
              /\ UNCHANGED <<stop, link, lines, signals>>

-----------------------------------------------------------------------------
(* The connection. *)

\* The server closes the connection after a QUIT; it can be lost at any time.
Close == link = "quit" /\ link' = "down" /\ UNCHANGED <<stack, owner, stop, lines, signals>>
Lose == link = "up" /\ link' = "down" /\ UNCHANGED <<stack, owner, stop, lines, signals>>

-----------------------------------------------------------------------------
SendLine(t) == Lock(t) \/ Send(t) \/ BrokenSend(t) \/ Unlock(t)
stopParser(t) == TestStop(t) \/ SetStop(t)
AppMain == \/ ResetStop \/ Create \/ Loop \/ Receive \/ ReceiveEnd \/ Timeout
           \/ JoinThreads \/ Disconnect

Next == \/ \E t \in Threads : \/ SendLine(t) \/ stopParser(t) \/ Signal(t)
                              \/ SendSomething(t) \/ End(t)
        \/ \E w \in Workers : Die(w)
        \/ AppMain
        \/ Close \/ Lose

\* A thread that can go on does, and the server closes what was quit.  poll has a
\* timeout, so that a receive returns.
Fairness == /\ \A t \in Threads : WF_vars(SendLine(t) \/ stopParser(t))
            /\ WF_vars(AppMain)
            /\ WF_vars(Close)

Spec == Init /\ [][Next]_vars /\ Fairness

-----------------------------------------------------------------------------
(* Properties. *)

\* Who is between lock and unlock owns the mutex, unless it is destroyed.
OwnerIsInside == \A t \in Threads : (\E i \in 1..Len(stack[t]) : stack[t][i] \in {"send", "unlock"})
                                        => owner \in {t, "destroyed"}

TypeOK == /\ stack \in [Threads -> Seq(Labels)]
          /\ owner \in Threads \cup {None, "destroyed"}
          /\ stop \in BOOLEAN
          /\ link \in {"up", "quit", "down"}
          /\ lines \in 0..MaxLines
          /\ signals \in 0..MaxSignals
          /\ OwnerIsInside

InSendLine(t) == \E i \in 1..Len(stack[t]) : stack[t][i] \in SendLabels

\* disconnectServer destroys mutexSend when nobody who was joined can use it any
\* more; only the detached JoinAllChannelsThread may.
DestroyedUnused == owner = "destroyed" => \A t \in Threads \ {Joiner} : ~ InSendLine(t)

\* A thread waits for the mutex that it has locked itself: a handler has
\* interrupted its SendLine.
WaitsForItself(t) == owner = t /\ At(t, "lock")

\* Nobody keeps the mutex but a thread that goes on to unlock it: it is at send or
\* unlock, or in a handler on top of them.  So a thread that waits for the mutex for
\* ever waits for one that has interrupted itself.
OwnerGoesOn == \A t \in Threads :
    owner = t => \/ WaitsForItself(t)
                 \/ \E label \in {"send", "unlock"} \cup HandlerLabels : At(t, label)

InHandler(t) == \E i \in 1..Len(stack[t]) : stack[t][i] \in HandlerLabels

\* stop is set, after !restart since the run before, and the main thread will reset
\* it: a handler that begins now leaves no trace.
StopIsOld == stop /\ stack[Main] # <<>> /\ stack[Main][Len(stack[Main])] = "reset"

\* A signal, !die or the loss of the connection ends the main loop.  In a process
\* that has just begun this is so before stop is reset too: the handler finds stop
\* unset, and the server answers its QUIT.  There are two exceptions: a handler that
\* interrupted a SendLine of its own thread waits for ever, and after !restart one that
\* finds the old stop sends nothing, and the bot runs on.
SignalEndsLoop ==
    (link # "up" \/ (~ StopIsOld /\ \E t \in Threads : InHandler(t)))
        ~> \/ \E t \in Threads : WaitsForItself(t)
           \/ At(Main, "join") \/ At(Main, "destroy") \/ stack[Main] = <<>>
=============================================================================
