------------------------------ MODULE MCRights ------------------------------
(***************************************************************************)
(* Instances of Rights for TLC.                                            *)
(***************************************************************************)
EXTENDS Rights, TLC

CONSTANTS alice, bob, aliceHome, bobHome

\* Each account has its nickname at one host.
MCNickOf == (aliceHome :> alice) @@ (bobHome :> bob)

\* The execution threads are interchangeable, and so are the two users.
Swap(a, b) == (a :> b) @@ (b :> a)
Users == {Swap(alice, bob) @@ Swap(aliceHome, bobHome)}
Symmetry == Permutations(Workers) \cup Users
            \cup {p @@ u : p \in Permutations(Workers), u \in Users}

\* doc/ebotula.1.in, !kick: "masters can not be kicked (even by other masters).  The
\* same restrictions apply to the commands BAN and DEBAN."
MastersStay ==
    [][\A w \in Workers : pc[w] = "kick" /\ pc'[w] # "kick" =>
         LET login == n2u[job[w].victim]
         IN login = None \/ master[login] = None]_vars
=============================================================================
