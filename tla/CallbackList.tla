---------------------------- MODULE CallbackList ----------------------------
(***************************************************************************)
(* The callback list of the bot.  A command that needs the netmask of a    *)
(* user (MODE protection, !ban, !kick) puts a callback item for his        *)
(* nickname at the tail of a double linked list and sends a WHOIS.  The    *)
(* handler of the answer 311 removes the first item of that nickname and   *)
(* calls its function, the handler of 401 removes the item and destroys it.*)
(*                                                                         *)
(* The functions of callbacklist.c lock the list, one step each.  Their    *)
(* arguments are evaluated by the caller without the lock, in steps of     *)
(* their own: list.tail before an insertion, list.head before a search,    *)
(* and the element found between the search and its removal.  An element   *)
(* used after it was freed makes the rest of the execution undefined: the  *)
(* flag broken is set and the model stops.                                 *)
(***************************************************************************)
EXTENDS Naturals, Sequences, FiniteSets, FiniteSetsExt

CONSTANTS
    Workers,      \* the execution threads
    Nicks,        \* nicknames, without the bot's own
    MaxItems,     \* bound: callback items created
    MaxNoNick     \* bound: answers 401 to something else than a WHOIS

ASSUME BoundsAssumption == IsFiniteSet(Workers) /\ MaxItems \in Nat /\ MaxNoNick \in Nat

Null == 0
Elements == 1..MaxItems     \* every item has an element of its own
Pointers == {Null} \cup Elements

VARIABLES
    list,         \* the CallbackDList and the links of its elements
    freed,        \* elements removed from the list
    refused,      \* elements insert_next_CallbackDList did not take
    nick,         \* the nickname of each item created so far
    asked,        \* WHOIS commands the server has not answered yet
    answers,      \* lines 311 (found) and 401 not yet handled
    noNick,       \* number of answers 401 to other commands
    pc, arg,      \* where each execution thread is, and its locals
    ran,          \* items whose function was called
    dropped,      \* items destroyed without a call
    broken,       \* a freed element or item was used
    overlapped,   \* two execution threads were in these handlers at once
    closing       \* the main thread destroys the list

vars == <<list, freed, refused, nick, asked, answers, noNick, pc, arg, ran, dropped,
          broken, overlapped, closing>>
outcome == <<ran, dropped>>

-----------------------------------------------------------------------------
(* callbacklist.c, inside the lock. *)

init_CallbackDList == [size |-> 0, head |-> Null, tail |-> Null,
                       next |-> [p \in Pointers |-> Null],
                       prev |-> [p \in Pointers |-> Null]]

\* Fault variant: the old tail is not linked to the new element.
insert_next_Unlinked(L, e, new) ==
    IF L.size = 0
    THEN [L EXCEPT !.size = 1, !.head = new, !.tail = new]
    ELSE [L EXCEPT !.size = @ + 1,
                   !.next[new] = L.next[e],
                   !.prev[new] = e,
                   !.tail = new]

\* new is linked behind e.  An empty list does not look at e.
insert_next(L, e, new) ==
    IF L.size = 0
    THEN [L EXCEPT !.size = 1, !.head = new, !.tail = new]
    ELSE LET after == L.next[e]
         IN  [L EXCEPT !.size = @ + 1,
                       !.next = [@ EXCEPT ![new] = after, ![e] = new],
                       !.prev = [p \in Pointers |-> IF p = new THEN e
                                                    ELSE IF p = after /\ p # Null THEN new
                                                    ELSE @[p]],
                       !.tail = IF after = Null THEN new ELSE @]

\* The link of p now leads to q; that of the freed element is no longer defined
\* (Null here, nothing reads it).
Relink(link, p, q, e) == [x \in Pointers |-> IF x \in {Null, e} THEN Null
                                             ELSE IF x = p THEN q ELSE link[x]]

\* Fault variant: the tail is not moved when the last element is removed.
remove_KeepTail(L, e) ==
    LET after == L.next[e]
        before == L.prev[e]
    IN  [L EXCEPT !.size = @ - 1,
                  !.head = IF e = @ THEN after ELSE @,
                  !.next = Relink(@, before, after, e),
                  !.prev = Relink(@, after, before, e)]

remove(L, e) ==
    LET after == L.next[e]
        before == L.prev[e]
    IN  [L EXCEPT !.size = @ - 1,
                  !.head = IF e = @ THEN after ELSE @,
                  !.tail = IF e = @ THEN before ELSE @,
                  !.next = Relink(@, before, after, e),
                  !.prev = Relink(@, after, before, e)]

\* The i-th pointer on the way from p along the links of the given direction.
Way(link, p) == LET way[i \in 0..MaxItems] == IF i = 0 THEN p ELSE link[way[i - 1]]
                IN  way

\* Fault variant: the search returns the last match.
search_Last(L, e, n) ==
    LET way == Way(L.next, e)
        hits == {i \in DOMAIN way : way[i] # Null /\ nick[way[i]] = n}
    IN  IF L.size = 0 \/ hits = {} THEN Null ELSE way[Max(hits)]

\* The first element from e on with this nickname.
search(L, e, n) ==
    LET way == Way(L.next, e)
        hits == {i \in DOMAIN way : way[i] # Null /\ nick[way[i]] = n}
    IN  IF L.size = 0 \/ hits = {} THEN Null ELSE way[Min(hits)]

-----------------------------------------------------------------------------
NoArg == [elem |-> Null, item |-> Null, answer |-> <<>>]

Init == /\ list = init_CallbackDList
        /\ freed = {}
        /\ refused = {}
        /\ nick = <<>>
        /\ asked = <<>>
        /\ answers = <<>>
        /\ noNick = 0
        /\ pc = [w \in Workers |-> "idle"]
        /\ arg = [w \in Workers |-> NoArg]
        /\ ran = {}
        /\ dropped = {}
        /\ broken = FALSE
        /\ overlapped = FALSE
        /\ closing = FALSE

\* Nothing more happens after the use of a freed element.
Goto(w, a, b) == /\ ~broken
                 /\ pc[w] = a
                 /\ pc' = [pc EXCEPT ![w] = b]

\* w starts to handle a message.
Start(w, b) == /\ ~closing
               /\ Goto(w, "idle", b)
               /\ overlapped' = (overlapped \/ \E v \in Workers \ {w} : pc[v] # "idle")

\* A handler creates an item for n and evaluates CallbackList.tail.  hResetModes
\* does so for each user mode of a MODE line; between two of them the thread is
\* idle here.
Register(w, n) ==
    /\ Len(nick) < MaxItems
    /\ Start(w, "insert")
    /\ nick' = Append(nick, n)
    /\ arg' = [arg EXCEPT ![w].elem = list.tail, ![w].item = Len(nick) + 1]
    /\ UNCHANGED <<list, freed, refused, asked, answers, noNick, outcome, broken, closing>>

\* insert_next_CallbackDList refuses NULL for a list that is not empty any more;
\* no caller looks at the result.
InsertNext(w) ==
    LET e == arg[w].elem
        new == arg[w].item
    IN  /\ Goto(w, "insert", "whois")
        /\ \/ /\ list.size # 0
              /\ e = Null
              /\ refused' = refused \cup {new}
              /\ UNCHANGED <<list, broken>>
           \/ /\ list.size = 0 \/ e # Null
              /\ broken' = (list.size # 0 /\ e \in freed)
              /\ list' = IF broken' THEN list ELSE insert_next(list, e, new)
              /\ UNCHANGED refused
        /\ UNCHANGED <<freed, nick, asked, answers, noNick, arg, outcome, overlapped, closing>>

\* Fault variant: the WHOIS is forgotten.
Whois_Forgotten(w) ==
    /\ Goto(w, "whois", "idle")
    /\ arg' = [arg EXCEPT ![w] = NoArg]
    /\ UNCHANGED <<list, freed, refused, nick, asked, answers, noNick, outcome, broken,
                   overlapped, closing>>

\* whois sends a copy of the nickname (hResetModes) or the one of the item
\* (banuser, kickuser), which is freed with the item.
Whois(w) ==
    LET item == arg[w].item
    IN  /\ Goto(w, "whois", "idle")
        /\ \E own \in BOOLEAN : broken' = (own /\ item \in ran \cup dropped)
        /\ asked' = Append(asked, nick[item])
        /\ arg' = [arg EXCEPT ![w] = NoArg]
        /\ UNCHANGED <<list, freed, refused, nick, answers, noNick, outcome, overlapped,
                       closing>>

\* The server answers the oldest WHOIS.
Answer(found) ==
    /\ ~broken
    /\ asked # <<>>
    /\ asked' = Tail(asked)
    /\ answers' = Append(answers, [nick |-> Head(asked), found |-> found])
    /\ UNCHANGED <<list, freed, refused, nick, noNick, pc, arg, outcome, broken, overlapped,
                   closing>>

\* A MODE, NOTICE, INVITE or PRIVMSG of the bot is answered by 401, too.
NoSuchNick(n) ==
    /\ ~broken
    /\ noNick < MaxNoNick
    /\ noNick' = noNick + 1
    /\ answers' = Append(answers, [nick |-> n, found |-> FALSE])
    /\ UNCHANGED <<list, freed, refused, nick, asked, pc, arg, outcome, broken, overlapped,
                   closing>>

\* hCallback or hWhoisFailed evaluates CallbackList.head.
Handle(w) ==
    /\ answers # <<>>
    /\ Start(w, "search")
    /\ answers' = Tail(answers)
    /\ arg' = [arg EXCEPT ![w].elem = list.head, ![w].answer = <<Head(answers)>>]
    /\ UNCHANGED <<list, freed, refused, nick, asked, noNick, outcome, broken, closing>>

Return(w, a) == Goto(w, a, "idle") /\ arg' = [arg EXCEPT ![w] = NoArg]

\* Fault variant: the result is not compared with NULL.
Search_NoTest(w) ==
    LET e == arg[w].elem
    IN  /\ broken' = (list.size # 0 /\ e \in freed)
        /\ Goto(w, "search", "remove")
        /\ arg' = [arg EXCEPT ![w].elem = search(list, e, arg[w].answer[1].nick)]
        /\ UNCHANGED <<list, freed, refused, nick, asked, answers, noNick, outcome, overlapped,
                       closing>>

\* searchNicknameFromCallbackDList
Search(w) ==
    LET e == arg[w].elem
        hit == search(list, e, arg[w].answer[1].nick)
    IN  /\ pc[w] = "search"
        /\ broken' = (list.size # 0 /\ e \in freed)
        /\ IF hit = Null
           THEN Return(w, "search")
           ELSE /\ Goto(w, "search", "remove")
                /\ arg' = [arg EXCEPT ![w].elem = hit]
        /\ UNCHANGED <<list, freed, refused, nick, asked, answers, noNick, outcome, overlapped,
                       closing>>

\* removeCallbackDList, refused if the list is empty; hWhoisFailed destroys the
\* item, hCallback goes on to call its function.
Remove(w) ==
    LET e == arg[w].elem
    IN  /\ pc[w] = "remove"
        /\ IF list.size = 0
           THEN Return(w, "remove") /\ UNCHANGED <<list, freed, dropped, broken>>
           ELSE /\ broken' = (e \in freed)
                /\ list' = IF broken' THEN list ELSE remove(list, e)
                /\ freed' = freed \cup {e}
                /\ IF arg[w].answer[1].found
                   THEN Goto(w, "remove", "call") /\ UNCHANGED <<arg, dropped>>
                   ELSE Return(w, "remove") /\ dropped' = dropped \cup {e}
        /\ UNCHANGED <<refused, nick, asked, answers, noNick, ran, overlapped, closing>>

\* The function of the item is called and the item destroyed.
Call(w) ==
    /\ Return(w, "call")
    /\ ran' = ran \cup {arg[w].elem}
    /\ UNCHANGED <<list, freed, refused, nick, asked, answers, noNick, dropped, broken,
                   overlapped, closing>>

\* AppMain has joined the threads and calls destroyCallbackDList, which removes
\* the elements from the tail.
Close == /\ ~broken
         /\ ~closing
         /\ \A w \in Workers : pc[w] = "idle"
         /\ closing' = TRUE
         /\ UNCHANGED <<list, freed, refused, nick, asked, answers, noNick, pc, arg, outcome,
                        broken, overlapped>>

DestroyTail == /\ ~broken
               /\ closing
               /\ list.size > 0
               /\ broken' = (list.tail \in freed)
               /\ list' = IF list.tail = Null \/ broken' THEN list ELSE remove(list, list.tail)
               /\ freed' = freed \cup ({list.tail} \ {Null})
               /\ dropped' = dropped \cup ({list.tail} \ {Null})
               /\ UNCHANGED <<refused, nick, asked, answers, noNick, pc, arg, ran, overlapped,
                              closing>>

-----------------------------------------------------------------------------
Handler(w) == InsertNext(w) \/ Whois(w) \/ Search(w) \/ Remove(w) \/ Call(w) \/ Handle(w)

ServerAnswers == \E found \in BOOLEAN : Answer(found)

Next == \/ \E w \in Workers : Handler(w) \/ \E n \in Nicks : Register(w, n)
        \/ ServerAnswers
        \/ \E n \in Nicks : NoSuchNick(n)
        \/ Close
        \/ DestroyTail

Spec == Init /\ [][Next]_vars

(* The server answers every WHOIS, the execution threads go on, and so does *)
(* the destruction.  Nothing forces a command or the end of the bot.        *)
Fairness == /\ \A w \in Workers : WF_vars(Handler(w))
            /\ WF_vars(ServerAnswers)
            /\ WF_vars(DestroyTail)

FairSpec == Spec /\ Fairness

-----------------------------------------------------------------------------
(* Properties. *)

Lists == [size : 0..MaxItems, head : Pointers, tail : Pointers,
              next : [Pointers -> Pointers], prev : [Pointers -> Pointers]]

Args == [elem : Pointers, item : Pointers,
         answer : {<<>>} \cup {<<a>> : a \in [nick : Nicks, found : BOOLEAN]}]

\* The values of CallbackDList and of the locals of its users.
TypeOK == /\ list \in Lists
          /\ freed \subseteq Elements
          /\ refused \subseteq Elements
          /\ nick \in Seq(Nicks)
          /\ asked \in Seq(Nicks)
          /\ answers \in Seq([nick : Nicks, found : BOOLEAN])
          /\ noNick \in 0..MaxNoNick
          /\ pc \in [Workers -> {"idle", "insert", "whois", "search", "remove", "call"}]
          /\ arg \in [Workers -> Args]
          /\ ran \subseteq Elements
          /\ dropped \subseteq Elements
          /\ broken \in BOOLEAN /\ overlapped \in BOOLEAN /\ closing \in BOOLEAN

\* The elements that are reached from the head.
Linked == {Way(list.next, list.head)[i] : i \in 0..MaxItems} \ {Null}

\* The list is what its type promises, whatever the threads insert and remove:
\* size elements from head to tail, the same ones backwards, none of them freed.
WellFormed ==
    ~broken =>
        LET ahead == Way(list.next, list.head)
            back == Way(list.prev, list.tail)
        IN  /\ \A i \in 0..MaxItems : (ahead[i] # Null) <=> (i < list.size)
            /\ \A i \in 0..MaxItems : i < list.size => back[i] = ahead[list.size - 1 - i]
            /\ back[list.size] = Null
            /\ Cardinality(Linked) = list.size
            /\ Linked \cap freed = {}

At(labels) == {w \in Workers : pc[w] \in labels}

\* No item is lost or used twice: each one is with the thread that creates it,
\* in the list, refused, with the thread that calls it, called or dropped.
ItemsAccountedFor ==
    ~broken =>
        LET created == {arg[w].item : w \in At({"insert"})}
            calling == {arg[w].elem : w \in At({"call"})}
        IN  /\ 1..Len(nick) = UNION {created, Linked, refused, calling, ran, dropped}
            /\ Len(nick) = Cardinality(created) + list.size + Cardinality(refused)
                             + Cardinality(calling) + Cardinality(ran) + Cardinality(dropped)

\* Every item in the list has an answer to come that removes it: a WHOIS not yet
\* sent or answered, an answer not yet handled, or a handler at work.  An answer
\* 401 to another command, or a refused item, never uses up the last one.
AnswersCover ==
    ~broken /\ ~closing =>
        \A n \in Nicks :
            Cardinality({e \in Linked : nick[e] = n})
              <= Cardinality({i \in DOMAIN asked : asked[i] = n})
                 + Cardinality({i \in DOMAIN answers : answers[i].nick = n})
                 + Cardinality({w \in At({"whois"}) : nick[arg[w].item] = n})
                 + Cardinality({w \in At({"search", "remove"}) : arg[w].answer[1].nick = n})

\* With one execution thread at a time (threadlimit=1) no freed element is used,
\* and no item is refused.
OneThreadIsSafe == broken \/ refused # {} => overlapped

\* With one execution thread at a time, the answers for a nickname meet its items
\* in the order in which the commands came.
OldestFirst ==
    [][~overlapped /\ ~closing =>
          \A e \in freed' \ freed, d \in Linked : nick[d] = nick[e] => e <= d]_vars

\* The items of the list, from head to tail.
Waiting == [i \in 1..list.size |-> Way(list.next, list.head)[i - 1]]

\* The list with its links, its lock and the pointers read without it is the line
\* of Registry.tla: whatever the order of the threads, each item has one fate, and
\* one thread at a time serves the items of a nickname in order.
Reg == INSTANCE Registry WITH names <- nick, line <- Waiting, refused <- refused,
                              taken <- freed \ (ran \cup dropped), called <- ran,
                              dropped <- dropped, alone <- ~overlapped, ending <- closing,
                              defined <- ~broken
Registered == Reg!Spec

\* No item stays in the list for ever: once the commands cease, all are called or
\* dropped, by the answers or by destroyCallbackDList.
ListEmpties == list.size > 0 ~> list.size = 0 \/ broken
=============================================================================
