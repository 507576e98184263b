------------------------------ MODULE MCTools ------------------------------
(* Small instances of Tools for TLC. *)
EXTENDS Tools, FiniteSets, TLC

CONSTANTS inbox, trash, home, m, e, card, s, r1, r2

Flat(email, calendar, contacts, sieve, send) ==
    [default |-> [res \in Resources |->
        CASE res = "email" -> email [] res = "calendar" -> calendar
          [] res = "contacts" -> contacts [] OTHER -> sieve],
     rule |-> [place \in Places |-> Unset], send |-> send]

\* everything
All == Flat("read_write", "read_write", "read_write", "read_write", TRUE)
\* default = "none", one calendar and one folder by name
ByName == [Flat("none", "none", "none", "none", FALSE) EXCEPT
              !.rule = (home :> "read_write" @@ inbox :> "read_write" @@ @)]

MCConfigs == SUBSET Blocks
MCPolicies == {All, ByName}
Symmetric == Permutations(Sessions)
MCKindOf == [i \in Items |-> CASE i = m -> "email" [] i = e -> "calendar"
                               [] i = card -> "contacts" [] OTHER -> "sieve"]

\* Bounds: every pull loop runs, the two sessions have different profiles, and a
\* state has items, calls and pulls of one resource alone.  The resources share
\* nothing but the sessions.
InUse == {KindOf[i] : i \in {i \in Items : server[i] # None \/ tree[i] # {}}}
           \cup {res \in Resources : pulled[res] # None}
           \cup {KindOf[call[r].item] : r \in {r \in Sessions : pc[r] # "idle"}}
Bounded == main = All /\ granted[r1] # granted[r2] /\ Cardinality(InUse) <= 1
=============================================================================
