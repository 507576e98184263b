------------------------------ MODULE Mailbox ------------------------------
(***************************************************************************)
(* What source/traits.rs promises of a mail backend: a call names a folder *)
(* and a UID, and whatever it does, in full or in part, it does to that    *)
(* message of that folder and once.  Nothing is said of connections: this  *)
(* is the specification that ImapSession implements.                       *)
(***************************************************************************)
EXTENDS Naturals

CONSTANTS Callers, Folders, Messages, Flags, Seen, NoCall

VARIABLES
    box,        \* box[f]: the copies in folder f
    next,       \* next[f]: the UID the next copy in f gets
    call,       \* call[c]: the call caller c waits for, or NoCall
    stage       \* stage[c]: how many of its commands have taken effect

absVars == <<box, next, call, stage>>

Copy == [uid : Nat, msg : Messages, flags : SUBSET Flags, deleted : BOOLEAN]

Kinds == {"folders", "list", "fetch", "flags", "move", "delete"}

Calls == [kind : Kinds, folder : Folders, uid : Nat, target : Folders,
          flags : SUBSET Flags]

Named(c) == {m \in box[call[c].folder] : m.uid = call[c].uid}

Begin(c) ==
    /\ call[c] = NoCall
    /\ call' \in [Callers -> Calls \cup {NoCall}]
    /\ \A d \in Callers \ {c} : call'[d] = call[d]
    /\ stage' = [stage EXCEPT ![c] = 0]
    /\ UNCHANGED <<box, next>>

\* Calls return when they have done everything, or with an error before.
End(c) ==
    /\ call[c] # NoCall
    /\ call' = [call EXCEPT ![c] = NoCall]
    /\ stage' = [stage EXCEPT ![c] = 0]
    /\ UNCHANGED <<box, next>>

Does(c, kinds, at) ==
    /\ call[c] # NoCall
    /\ call[c].kind \in kinds
    /\ stage[c] = at
    /\ stage' = [stage EXCEPT ![c] = @ + 1]
    /\ UNCHANGED call

\* The answer to the last command is lost: the call returns with an error.
DoesAndEnds(c, kinds, at) ==
    /\ call[c] # NoCall
    /\ call[c].kind \in kinds
    /\ stage[c] = at
    /\ call' = [call EXCEPT ![c] = NoCall]
    /\ stage' = [stage EXCEPT ![c] = 0]

StoreEffect(c) ==
    /\ box' = [box EXCEPT ![call[c].folder] =
                 (@ \ Named(c)) \cup {[m EXCEPT !.flags = call[c].flags] :
                                        m \in Named(c)}]
    /\ UNCHANGED next

\* Reading a message may mark it as read.
SeenEffect(c) ==
    /\ box' = [box EXCEPT ![call[c].folder] =
                 (@ \ Named(c)) \cup {[m EXCEPT !.flags = @ \cup {Seen}] :
                                        m \in Named(c)}]
    /\ UNCHANGED next

CopyEffect(c) ==
    \/ /\ Named(c) = {}
       /\ UNCHANGED <<box, next>>
    \/ \E m \in Named(c) :
         /\ box' = [box EXCEPT ![call[c].target] =
                      @ \cup {[m EXCEPT !.uid = next[call[c].target]]}]
         /\ next' = [next EXCEPT ![call[c].target] = @ + 1]

MarkEffect(c) ==
    /\ box' = [box EXCEPT ![call[c].folder] =
                 (@ \ Named(c)) \cup {[m EXCEPT !.deleted = TRUE] :
                                        m \in Named(c)}]
    /\ UNCHANGED next

ExpungeEffect(c) ==
    /\ box' = [box EXCEPT ![call[c].folder] =
                 @ \ {m \in Named(c) : m.deleted}]
    /\ UNCHANGED next

Commanded(c, kinds, at) == Does(c, kinds, at) \/ DoesAndEnds(c, kinds, at)

\* A move copies, marks and expunges, in this order; a deletion marks and
\* expunges.
Work(c) ==
    \/ Commanded(c, {"fetch"}, 0) /\ SeenEffect(c)
    \/ Commanded(c, {"flags"}, 0) /\ StoreEffect(c)
    \/ Commanded(c, {"move"}, 0) /\ CopyEffect(c)
    \/ Commanded(c, {"move"}, 1) /\ MarkEffect(c)
    \/ Commanded(c, {"move"}, 2) /\ ExpungeEffect(c)
    \/ Commanded(c, {"delete"}, 0) /\ MarkEffect(c)
    \/ Commanded(c, {"delete"}, 1) /\ ExpungeEffect(c)

\* Somebody else delivers, flags, or removes mail.
Others ==
    \/ \E f \in Folders, m \in Messages, fl \in SUBSET Flags :
         /\ box' = [box EXCEPT ![f] =
                      @ \cup {[uid |-> next[f], msg |-> m, flags |-> fl,
                               deleted |-> FALSE]}]
         /\ next' = [next EXCEPT ![f] = @ + 1]
         /\ UNCHANGED <<call, stage>>
    \/ \E f \in Folders : \E m \in box[f] :
         /\ \/ box' = [box EXCEPT ![f] = (@ \ {m}) \cup
                                          {[m EXCEPT !.deleted = TRUE]}]
            \/ box' = [box EXCEPT ![f] = @ \ {m}]
         /\ UNCHANGED <<next, call, stage>>

Init ==
    /\ \A f \in Folders : \A m \in box[f] : m \in Copy /\ m.uid < next[f]
    /\ call = [c \in Callers |-> NoCall]
    /\ stage = [c \in Callers |-> 0]

Next ==
    \/ \E c \in Callers : Begin(c) \/ Work(c) \/ End(c)
    \/ Others

Spec == Init /\ [][Next]_absVars
============================================================================
