----------------------------- MODULE MCSessions -----------------------------
(***************************************************************************)
(* Instances of Sessions for TLC, and what the comment of rmAccount in     *)
(* account.h says, which the code does not keep.                           *)
(***************************************************************************)
EXTENDS Sessions, TLC

CONSTANTS alice, bob, bobHome

\* bobHome is bob's nickname at his host, any other netmask has alice's.
MCNickOf == [m \in Masks |-> IF m = bobHome THEN bob ELSE alice]

\* The execution threads are interchangeable in every definition.
WorkerSymmetry == Permutations(Workers)

\* Bound: no more than two threads are inside a command at a time.
TwoBusy == Cardinality({t \in Threads : pc[t] # "idle"}) <= 2

\* account.h, rmAccount: the account is removed from all databases.
RemovedFromAll ==
    mutex = None => \A m \in Masks : n2u[m] # None => n2u[m] \in users
=============================================================================
