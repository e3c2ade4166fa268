------------------------------ MODULE Dispatch ------------------------------
(***************************************************************************)
(* What the command dispatch of the bot promises, without queue, locks or  *)
(* program counters: the lines accepted from the IRC server are numbered   *)
(* in the order of their arrival, each of them is handed to one server (an *)
(* execution thread) in that order, and a line may be thrown away instead  *)
(* of served only once the bot is stopping.                                *)
(*                                                                         *)
(* CommandQueue implements this specification (CommandQueue!Dispatched).   *)
(***************************************************************************)
EXTENDS Naturals

CONSTANT Servers      \* the execution threads

VARIABLES
    accepted,     \* number of lines accepted so far
    started,      \* number of lines that left the waiting line
    serving,      \* the line each server is working on, 0 for none
    finished,     \* lines that were served to the end
    discarded,    \* lines that were thrown away
    stopping      \* the bot was asked to stop

vars == <<accepted, started, serving, finished, discarded, stopping>>

Init == /\ accepted = 0
        /\ started = 0
        /\ serving = [s \in Servers |-> 0]
        /\ finished = {}
        /\ discarded = {}
        /\ stopping = FALSE

Accept == /\ accepted' = accepted + 1
          /\ UNCHANGED <<started, serving, finished, discarded, stopping>>

Start(s) == /\ serving[s] = 0
            /\ started < accepted
            /\ started' = started + 1
            /\ serving' = [serving EXCEPT ![s] = started + 1]
            /\ UNCHANGED <<accepted, finished, discarded, stopping>>

Finish(s) == /\ serving[s] # 0
             /\ serving' = [serving EXCEPT ![s] = 0]
             /\ finished' = finished \cup {serving[s]}
             /\ UNCHANGED <<accepted, started, discarded, stopping>>

Discard == /\ stopping
           /\ started < accepted
           /\ started' = started + 1
           /\ discarded' = discarded \cup {started + 1}
           /\ UNCHANGED <<accepted, serving, finished, stopping>>

Stop == /\ stopping' = TRUE
        /\ UNCHANGED <<accepted, started, serving, finished, discarded>>

Next == \/ Accept
        \/ \E s \in Servers : Start(s) \/ Finish(s)
        \/ Discard
        \/ Stop

Spec == Init /\ [][Next]_vars
=============================================================================
