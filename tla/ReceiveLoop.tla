----------------------------- MODULE ReceiveLoop -----------------------------
(***************************************************************************)
(* The receive loop of AppMain at the level of the bytes it receives: TCP  *)
(* cuts the server's lines anywhere, the loop joins what it receives to    *)
(* the rest of the last time, takes out the lines that are complete, and   *)
(* keeps the new rest.  preParser copies an identified line to memory of   *)
(* its own, the execution thread that handles the message frees it.        *)
(*                                                                         *)
(* The server sends NumLines lines of three characters: a text, a carriage *)
(* return and a line feed.  A character is its position in the stream.     *)
(***************************************************************************)
EXTENDS Naturals, Sequences, FiniteSets, SequencesExt

CONSTANTS
    NumLines,     \* bound: lines the server sends
    Commands,     \* the numbers of the lines preParser identifies
    MaxParsed,    \* bound: lines taken out of the buffer
    MaxErrors     \* bound: receives that fail

ASSUME BoundsAssumption == /\ NumLines \in Nat
                           /\ MaxParsed \in Nat
                           /\ MaxErrors \in Nat
                           /\ Commands \subseteq 1..NumLines

Stream == 1..3 * NumLines
LineOf(p) == (p + 2) \div 3
IsReturn(p) == p % 3 = 2
IsText(p) == p % 3 = 1

VARIABLES
    received,     \* number of characters received
    buffer,       \* the buffer recv writes to
    text,         \* the string at pCurrStringPos
    rest,         \* the string pUnparsed
    parsed,       \* the lines given to preParser so far
    msgLine,      \* sMsg.pMsgLine: the number of a parsed line, 0 for NULL
    queued,       \* the lines of the messages in the queue
    freed,        \* the lines freed so far
    twice,        \* a line was freed twice
    split,        \* a receive ended with a carriage return
    errors,       \* the receives that failed
    stop,
    pc            \* where the main thread is

vars == <<received, buffer, text, rest, parsed, msgLine, queued, freed, twice, split,
          errors, stop, pc>>
memory == <<msgLine, queued, freed, twice>>
history == <<split, errors>>

Init == /\ received = 0
        /\ buffer = <<>>
        /\ text = <<>>
        /\ rest = <<>>
        /\ parsed = <<>>
        /\ msgLine = 0
        /\ queued = {}
        /\ freed = {}
        /\ twice = FALSE
        /\ split = FALSE
        /\ errors = 0
        /\ stop = FALSE
        /\ pc = "loop"

Goto(a, b) == pc = a /\ pc' = b

-----------------------------------------------------------------------------
(* Receiving *)

LoopTest == /\ pc = "loop"
            /\ pc' = IF stop THEN "free" ELSE "recv"
            /\ UNCHANGED <<received, buffer, text, rest, parsed, memory, history, stop>>

\* The string to parse is the rest and the new characters.
Joined(new) == text' = rest \o new

Receive(n) ==
    LET new == [i \in 1..n |-> received + i]
    IN  /\ Goto("recv", "parse")
        /\ received + n \in Stream
        /\ received' = received + n
        /\ buffer' = new
        /\ Joined(new)
        /\ split' = (split \/ IsReturn(received + n))
        /\ UNCHANGED <<rest, parsed, memory, errors, stop>>

\* The poll timed out or the connection is closed.
ReceiveNothing == /\ Goto("recv", "parse")
                  /\ buffer' = <<>>
                  /\ Joined(<<>>)
                  /\ stop' = TRUE
                  /\ UNCHANGED <<received, rest, parsed, memory, history>>

\* recv returns -1.  The end mark is written in front of the buffer, and what the
\* buffer holds from the last time is taken again.  (Before the first receive it
\* holds nothing that is defined.)
ReceiveError == /\ Goto("recv", "parse")
                /\ received > 0
                /\ errors < MaxErrors
                /\ Joined(buffer)
                /\ errors' = errors + 1
                /\ UNCHANGED <<received, buffer, rest, parsed, memory, split, stop>>

-----------------------------------------------------------------------------
(* Taking the lines out *)

Returns(s) == {i \in DOMAIN s : IsReturn(s[i])}
FirstReturn(s) == CHOOSE i \in Returns(s) : \A j \in Returns(s) : i <= j

\* preParser compares the beginning of the line.  (A line can be empty, or begin
\* with a line feed, after a receive that failed.)
Identified(line) == /\ line # <<>>
                    /\ IsText(line[1])
                    /\ LineOf(line[1]) \in Commands

\* Fault variant: the pointer is not reset for a line that is not identified.
preParser_Keep(line) == IF Identified(line)
                        THEN msgLine' = Len(parsed) + 1
                        ELSE UNCHANGED msgLine

\* An identified line is copied, the pointer to any other one is NULL.
preParser(line) == msgLine' = IF Identified(line) THEN Len(parsed) + 1 ELSE 0

\* Fault variant: the line feed after the return is not skipped.
Advance_KeepFeed(s, i) == SubSeq(s, i + 1, Len(s))

\* Behind the return and the line feed - unless the return is the last character:
\* then the position is not moved, and what remains is the line itself.
Advance(s, i) == IF i < Len(s) THEN SubSeq(s, i + 2, Len(s)) ELSE SubSeq(s, 1, i - 1)

\* One turn of the inner loop.  pushQueue may fail for lack of memory.
ParseLine ==
    LET i == FirstReturn(text)
        line == SubSeq(text, 1, i - 1)
    IN  /\ pc = "parse"
        /\ Returns(text) # {}
        /\ Len(parsed) < MaxParsed
        /\ preParser(line)
        /\ parsed' = Append(parsed, line)
        /\ \/ Identified(line) /\ queued' = queued \cup {Len(parsed) + 1}
           \/ UNCHANGED queued
        /\ text' = Advance(text, i)
        /\ UNCHANGED <<received, buffer, rest, freed, twice, history, stop, pc>>

\* Fault variant: the rest of the last receive is not kept.
EndOfText_Forget == /\ Goto("parse", "loop")
                    /\ Returns(text) = {}
                    /\ rest' = <<>>
                    /\ UNCHANGED <<received, buffer, text, parsed, memory, history, stop>>

\* Fault variant: one line is taken out of a receive ("if" for "while").
EndOfText_One == /\ Goto("parse", "loop")
                 /\ rest' = text
                 /\ UNCHANGED <<received, buffer, text, parsed, memory, history, stop>>

\* No return is left: the rest is kept.
EndOfText == /\ Goto("parse", "loop")
             /\ Returns(text) = {}
             /\ rest' = text
             /\ UNCHANGED <<received, buffer, text, parsed, memory, history, stop>>

-----------------------------------------------------------------------------
(* The memory of the lines *)

Free(l) == /\ freed' = freed \cup {l}
           /\ twice' = (twice \/ l \in freed)

\* An execution thread takes the message, handles it and frees its line.
Execute(l) == /\ l \in queued
              /\ queued' = queued \ {l}
              /\ Free(l)
              /\ UNCHANGED <<received, buffer, text, rest, parsed, msgLine, history, stop, pc>>

\* !die, !restart, a signal, or a failing send.
StopRequest == /\ ~stop
               /\ stop' = TRUE
               /\ UNCHANGED <<received, buffer, text, rest, parsed, memory, history, pc>>

\* Behind the loop: free(sMsg.pMsgLine), the line of the last message.
FreeLast == /\ Goto("free", "flush")
            /\ IF msgLine = 0 THEN UNCHANGED <<freed, twice>> ELSE Free(msgLine)
            /\ UNCHANGED <<received, buffer, text, rest, parsed, msgLine, queued, history,
                           stop>>

\* flushQueue frees the messages and not their lines.
Flush == /\ Goto("flush", "closed")
         /\ queued' = {}
         /\ UNCHANGED <<received, buffer, text, rest, parsed, msgLine, freed, twice, history,
                        stop>>

-----------------------------------------------------------------------------
Next == \/ LoopTest
        \/ \E n \in Stream : Receive(n)
        \/ ReceiveNothing
        \/ ReceiveError
        \/ ParseLine
        \/ EndOfText
        \/ \E l \in 1..MaxParsed : Execute(l)
        \/ StopRequest
        \/ FreeLast
        \/ Flush

Spec == Init /\ [][Next]_vars

-----------------------------------------------------------------------------
(* Properties. *)

\* The values of the variables of AppMain.
TypeOK == /\ received \in 0..3 * NumLines
          /\ {buffer, text, rest} \subseteq Seq(Stream)
          /\ parsed \in Seq(Seq(Stream))
          /\ Returns(rest) = {}
          /\ Len(parsed) <= MaxParsed
          /\ errors \in 0..MaxErrors
          /\ msgLine \in 0..Len(parsed)
          /\ queued \cup freed \subseteq 1..Len(parsed)
          /\ {twice, split, stop} \subseteq BOOLEAN
          /\ pc \in {"loop", "recv", "parse", "free", "flush", "closed"}

\* The string that is still to be parsed.
Pending == IF pc = "parse" THEN text ELSE rest

\* However the stream is cut, the lines given to preParser are the server's lines,
\* each once, complete and in their order, and what was received behind them
\* is kept - as long as no receive ends in a carriage return or fails.
StreamOrder ==
    ~split /\ errors = 0 =>
        FlattenSeq([i \in DOMAIN parsed |-> parsed[i] \o <<3 * i - 1, 3 * i>>]) \o Pending
          = [p \in 1..received |-> p]

\* In no case a character of a line gets lost: it is given to preParser or kept.
\* (A line that is attached to an older one is given to it as a part of that.)
NoTextLost ==
    \A p \in 1..received :
        IsText(p) => \/ \E i \in DOMAIN parsed : p \in ToSet(parsed[i])
                     \/ p \in ToSet(Pending)

\* The lines of the queue are freed once if the last line received before the end
\* was no command: only that line has a second owner, sMsg in the main thread.
FreedOnce == twice => Identified(Last(parsed))
=============================================================================
