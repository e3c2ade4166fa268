------------------------------ MODULE Registry ------------------------------
(***************************************************************************)
(* What the callback list promises to the commands that use it, without    *)
(* links, locks, messages or program counters: every command registers one *)
(* item for the nickname it waits for, the items stand in one line, and    *)
(* each of them meets one fate, once: it was refused at the line, was      *)
(* taken out and called, or was dropped.  As long as the commands and      *)
(* answers are handled one at a time, the items enter at the end of the    *)
(* line, none is refused, and the answers for a nickname take its items in *)
(* the order of the commands.                                              *)
(*                                                                         *)
(* CallbackList implements this specification (CallbackList!Registered).   *)
(***************************************************************************)
EXTENDS Naturals, Sequences, SequencesExt

CONSTANT Nicks

VARIABLES
    names,        \* the nickname of each item registered so far
    line,         \* the items that wait for an answer, from head to tail
    refused,      \* items that were not let into the line
    taken,        \* items out of the line that will be called
    called,       \* items whose function was called
    dropped,      \* items destroyed without a call
    alone,        \* so far one command or answer was handled at a time
    ending,       \* the bot ends
    defined       \* the program does what its code says

vars == <<names, line, refused, taken, called, dropped, alone, ending, defined>>

Init == /\ names = <<>>
        /\ line = <<>>
        /\ refused = {} /\ taken = {} /\ called = {} /\ dropped = {}
        /\ alone = TRUE
        /\ ending = FALSE
        /\ defined = TRUE

\* Registered and not yet at the line.
Arriving == (1..Len(names)) \ UNION {ToSet(line), refused, taken, called, dropped}

Create(n) == /\ ~ending
             /\ names' = Append(names, n)
             /\ alone' \in {alone, FALSE}
             /\ UNCHANGED <<line, refused, taken, called, dropped, ending, defined>>

\* Behind the p-th item, never before the first.
Enter(i, p) == /\ i \in Arriving
               /\ p = 0 => line = <<>>
               /\ alone => p = Len(line)
               /\ line' = InsertAt(line, p + 1, i)
               /\ UNCHANGED <<names, refused, taken, called, dropped, alone, ending, defined>>

Refuse(i) == /\ i \in Arriving
             /\ ~alone
             /\ line # <<>>
             /\ refused' = refused \cup {i}
             /\ UNCHANGED <<names, line, taken, called, dropped, alone, ending, defined>>

\* The p-th item leaves the line.
Leave(p) == /\ ~ending
            /\ alone => \A q \in 1..(p - 1) : names[line[q]] # names[line[p]]
            /\ line' = RemoveAt(line, p)
            /\ UNCHANGED <<names, refused, called, alone, ending, defined>>

Take(p) == Leave(p) /\ taken' = taken \cup {line[p]} /\ UNCHANGED dropped

Drop(p) == Leave(p) /\ dropped' = dropped \cup {line[p]} /\ UNCHANGED taken

Call(i) == /\ i \in taken
           /\ taken' = taken \ {i}
           /\ called' = called \cup {i}
           /\ UNCHANGED <<names, line, refused, dropped, alone, ending, defined>>

Overlap == /\ alone' = FALSE
           /\ UNCHANGED <<names, line, refused, taken, called, dropped, ending, defined>>

\* Every command is done with its item when the bot ends.
End == /\ Arriving = {} /\ taken = {}
       /\ ending' = TRUE
       /\ UNCHANGED <<names, line, refused, taken, called, dropped, alone, defined>>

\* The items nobody answered go, the last one first.
Discard == /\ ending
           /\ line # <<>>
           /\ line' = Front(line)
           /\ dropped' = dropped \cup {Last(line)}
           /\ UNCHANGED <<names, refused, taken, called, alone, ending, defined>>

\* Something else, once two threads are at work: nothing is promised of the rest.
Undefine == ~alone /\ defined' = FALSE

Next == /\ defined
        /\ \/ \E n \in Nicks : Create(n)
           \/ \E i \in 1..Len(names) : Refuse(i) \/ \E p \in 0..Len(line) : Enter(i, p)
           \/ \E p \in 1..Len(line) : Take(p) \/ Drop(p)
           \/ \E i \in taken : Call(i)
           \/ Overlap
           \/ End
           \/ Discard
           \/ Undefine

Spec == Init /\ [][Next]_vars
=============================================================================
