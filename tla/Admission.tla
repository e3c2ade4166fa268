------------------------------ MODULE Admission ------------------------------
(***************************************************************************)
(* What account.c promises to the commands that log on and off, without    *)
(* its mutex, critical sections and program counters: a netmask gets the   *)
(* rights of an account only if a command has admitted it, it gets them    *)
(* when it has none and nobody else has those of this account, and it      *)
(* loses them only to a command that ends the session of the account or    *)
(* begins a new one.  The two session databases change together, and an    *)
(* account is removed while it is logged off.                              *)
(*                                                                         *)
(* What is not promised: a command acts when it comes to it, on what it    *)
(* was admitted for before, whatever has become of the account or of the   *)
(* session since then.  Sessions implements this specification             *)
(* (Sessions!Admitted).                                                    *)
(***************************************************************************)
CONSTANTS Threads, Timer, Logins, Masks, NickOf, None

VARIABLES
    accounts,     \* the accounts that exist
    session,      \* the account whose rights a netmask has
    last,         \* the netmask that logged on last as an account not logged off since
    plan          \* what each thread is about to do

vars == <<accounts, session, last, plan>>

\* A command ends the session of an account, removes the account, and begins a session
\* of a netmask, in this order, or does one or two of these; each is a set of at most
\* one element.
Plan(e, r, b) == [end |-> e, remove |-> r, begin |-> b]

Nothing == Plan({}, {}, {})

Init == /\ accounts \in SUBSET Logins
        /\ session = [m \in Masks |-> None]
        /\ last = [l \in Logins |-> None]
        /\ plan = [t \in Threads |-> Nothing]

-----------------------------------------------------------------------------
(* What a command may plan. *)

\* The first !hello of a nickname makes the account.
Found(m, p) == /\ p = Plan({}, {}, {<<m, NickOf[m]>>})
               /\ NickOf[m] \notin accounts
               /\ accounts' = accounts \cup {NickOf[m]}

\* The password of an account was right.
Identify(m, l, p) == l \in accounts /\ p = Plan({}, {}, {<<m, l>>}) /\ UNCHANGED accounts

\* A netmask that has a session ends it, or takes it along to its new name.
Quit(m, p) == /\ session[m] # None
              /\ p = Plan({session[m]}, {}, {})
              /\ UNCHANGED accounts

Rename(m, new, p) == /\ session[m] # None
                     /\ p = Plan({session[m]}, {}, {<<new, session[m]>>})
                     /\ UNCHANGED accounts

Expel(l, p) == l \in accounts /\ p = Plan({l}, {l}, {}) /\ UNCHANGED accounts

\* Time is up: a session ends, or the account is removed, too.
Sweep(l, p) == p \in {Plan({l}, {}, {}), Plan({l}, {l}, {})} /\ UNCHANGED accounts

May(t, p) == \/ \E m \in Masks : Found(m, p) \/ Quit(m, p)
             \/ \E m \in Masks, l \in Logins : Identify(m, l, p)
             \/ \E m, new \in Masks : Rename(m, new, p)
             \/ \E l \in Logins : Expel(l, p) \/ (t = Timer /\ Sweep(l, p))

Take(t, p) == /\ p = Nothing
              /\ plan'[t] # Nothing
              /\ May(t, plan'[t])
              /\ plan' = [plan EXCEPT ![t] = plan'[t]]
              /\ UNCHANGED <<session, last>>

-----------------------------------------------------------------------------
(* What it does then; p is its plan. *)

\* The netmask that logged on last as l loses its session.
Loses(l) == /\ last[l] # None
            /\ session' = [session EXCEPT ![last[l]] = None]
            /\ last' = [last EXCEPT ![l] = None]

\* The session of the account is ended, if it has one.
End(t, p) == /\ \E l \in p.end : \/ Loses(l)
                                 \/ last[l] = None /\ UNCHANGED <<session, last>>
             /\ plan' = [plan EXCEPT ![t] = Plan({}, p.remove, p.begin)]
             /\ UNCHANGED accounts

\* The account is not logged on when it is removed.
Remove(t, p) == /\ p.end = {}
                /\ \E l \in p.remove : last[l] = None /\ accounts' = accounts \ {l}
                /\ plan' = [plan EXCEPT ![t] = Plan({}, {}, p.begin)]
                /\ UNCHANGED <<session, last>>

\* Who logs on from elsewhere first ends the session he has.
Displace(t, p) == /\ p.end = {}
                  /\ \E b \in p.begin : Loses(b[2])
                  /\ UNCHANGED <<accounts, plan>>

\* The account is not logged on.  A netmask that has the rights of another account
\* keeps them.
Begin(t, p) == /\ p.end = {}
               /\ \E b \in p.begin :
                     /\ last[b[2]] = None
                     /\ last' = [last EXCEPT ![b[2]] = b[1]]
                     /\ session' = [session EXCEPT ![b[1]] = IF @ = None THEN b[2] ELSE @]
               /\ plan' = [plan EXCEPT ![t] = Plan({}, p.remove, {})]
               /\ UNCHANGED accounts

-----------------------------------------------------------------------------
Next == \E t \in Threads :
            LET p == plan[t]
            IN  Take(t, p) \/ End(t, p) \/ Remove(t, p) \/ Displace(t, p) \/ Begin(t, p)

Spec == Init /\ [][Next]_vars

-----------------------------------------------------------------------------
\* The two databases agree at every moment: no two netmasks share an account.
Agree == \A m \in Masks : session[m] # None => last[session[m]] = m
=============================================================================
