---------------------------- MODULE MCSieveRules ----------------------------
(* Small instances of SieveRules for TLC. *)
EXTENDS SieveRules, TLC

CONSTANTS junk, list, ghost, main, old, spam, s1, s2

\* no rule of these has a blank line in its text
MCParts == [r \in Rules |-> 1]
\* "discard" is an action and no extension
MCDeclares == [r \in Rules |-> IF r = junk THEN {"fileinto", "discard"}
                               ELSE {"fileinto", "copy"}]
MCNeeds == [r \in Rules |-> IF r = junk THEN {"fileinto"} ELSE {"copy"}]
MCKnown == {"fileinto", "copy"}

\* the text of another client: a rule without a name, and one with
Foreign == [requires |-> {"fileinto"},
            blocks |-> <<[rule |-> junk, part |-> 1, name |-> NoName],
                         [rule |-> junk, part |-> 1, name |-> spam]>>]
MCOthers == {Foreign}
ASSUME Tame

Symmetric == Permutations(Sessions)
=============================================================================
