----------------------------- MODULE SieveRules -----------------------------
(***************************************************************************)
(* The two tools that edit mail filters (write/sieve.rs).  A filter script *)
(* is one text on the server; a tool reads the active script, works the    *)
(* rule into or out of it, and stores the whole text again.  Nothing holds *)
(* the script in between: two sessions, or a session and the owner's mail  *)
(* client, may both be at it.                                              *)
(*                                                                         *)
(* A text is what the tools see in it: the extensions its "require" lines  *)
(* name, and its blocks, the pieces between blank lines.  A rule whose own *)
(* text has a blank line has more than one block; a piece that is comments *)
(* alone is no rule (parse_sieve_rules) and is left out: adding a rule     *)
(* keeps it, removing one drops it, and neither the tools nor the server   *)
(* ever look at it.                                                        *)
(***************************************************************************)
EXTENDS Integers, Sequences, SequencesExt, FiniteSetsExt

CONSTANTS Rules,        \* the rules that can be added
          Parts,        \* Parts[r]: the blocks of the text of rule r
          Declares,     \* Declares[r]: the extensions it requires
          Needs,        \* Needs[r]: the extensions it uses
          Misfiled,     \* rules that file into a folder that is not there
          Known,        \* KNOWN_SIEVE_EXTENSIONS
          Names,        \* the comments that name a rule
          NoName,
          Scripts, Main,  \* names of scripts, and CANONICAL_SCRIPT_NAME
          Checked,      \* the server takes a script that is not valid, and
                        \* says so (forwardemail); if not, it refuses it
          Sessions, Others,   \* Others: the texts of other clients
          MaxMoves,     \* bound: changes by others and failures
          MaxCalls,     \* bound: calls of the tools
          None

Block == [rule : Rules, part : Nat \ {0}, name : Names \cup {NoName}]
Text == [requires : SUBSET UNION Range(Declares), blocks : Seq(Block)]

ASSUME SieveAssumption ==
    /\ Parts \in [Rules -> Nat \ {0}]
    /\ DOMAIN Declares = Rules /\ DOMAIN Needs = Rules
    /\ Misfiled \subseteq Rules
    /\ Main \in Scripts /\ None \notin Scripts
    /\ NoName \notin Names
    /\ Checked \in BOOLEAN
    /\ Others \subseteq Text /\ None \notin Text
    /\ MaxMoves \in Nat
    /\ MaxCalls \in Nat

VARIABLES
    script,     \* script[n]: the text of script n on the server, or None
    active,     \* the script that filters mail, or None
    pc, call,   \* where a session is, and the tool it runs
    target,     \* the script that it works on
    text,       \* its copy of the text
    alone,      \* history: nobody else changed a script since the call
    before,     \* history: the active text when the call began
    moves, calls

server == <<script, active>>
mine == <<target, text>>
vars == <<script, active, pc, call, target, text, alone, before,
          moves, calls>>

Empty == [requires |-> {}, blocks |-> <<>>]

Init ==
    /\ script = [n \in Scripts |-> None]
    /\ active = None
    /\ pc = [s \in Sessions |-> "idle"]
    /\ call = [s \in Sessions |-> None]
    /\ target = [s \in Sessions |-> None]
    /\ text = [s \in Sessions |-> None]
    /\ alone = [s \in Sessions |-> TRUE]
    /\ before = [s \in Sessions |-> Empty]
    /\ moves = 0
    /\ calls = 0

Goto(s, label) == pc' = [pc EXCEPT ![s] = label]
Move == moves < MaxMoves /\ moves' = moves + 1 /\ UNCHANGED calls
Calm == UNCHANGED <<moves, calls>>
----------------------------------------------------------------------------
(***************************************************************************)
(* Texts                                                                   *)
(***************************************************************************)

\* The comment heads the first block of the rule's text.
BlocksOf(r, comment) ==
    [k \in 1..Parts[r] |->
       [rule |-> r, part |-> k, name |-> IF k = 1 THEN comment ELSE NoName]]

\* Mutant: the extensions of the new rule are left out.
MergeBodies(t, r, comment) ==
    [requires |-> t.requires \cap Known,
     blocks |-> t.blocks \o BlocksOf(r, comment)]

\* merge_sieve_with_rule, with filter_known_extensions.
Merge(t, r, comment) ==
    [requires |-> (t.requires \cup Declares[r]) \cap Known,
     blocks |-> t.blocks \o BlocksOf(r, comment)]

\* The rules that parse_sieve_rules gives the name.
Named(t, name) == {k \in DOMAIN t.blocks : t.blocks[k].name = name}

\* remove_rule_from_content, where there is a rule of the name: the first one
\* goes.
Without(t, name) ==
    [requires |-> t.requires \cap Known,
     blocks |-> RemoveAt(t.blocks, Min(Named(t, name)))]

\* How often part k of rule r is in a text.
Occurs(t, r, k) ==
    Cardinality({i \in DOMAIN t.blocks : t.blocks[i].rule = r /\ t.blocks[i].part = k})

\* What the server makes of a text: its extensions are declared, and no rule
\* has lost a part.
Valid(t) ==
    /\ \A i \in DOMAIN t.blocks : Needs[t.blocks[i].rule] \subseteq t.requires
    /\ \A r \in Rules : \A k \in 1..Parts[r] : Occurs(t, r, k) = Occurs(t, r, 1)
----------------------------------------------------------------------------
(***************************************************************************)
(* Other clients                                                           *)
(***************************************************************************)

OtherChanges ==
    /\ Move
    /\ \/ \E n \in Scripts, t \in Others :
            script' = [script EXCEPT ![n] = t] /\ UNCHANGED active
       \/ \E n \in Scripts :
            /\ n # active
            /\ script' = [script EXCEPT ![n] = None]
            /\ UNCHANGED active
       \/ \E n \in {n \in Scripts : script[n] # None} \cup {None} :
            active' = n /\ UNCHANGED script
    /\ server' # server
    /\ alone' = [s \in Sessions |-> FALSE]
    /\ UNCHANGED <<pc, call, mine, before>>
----------------------------------------------------------------------------
(***************************************************************************)
(* add_sieve_rule, remove_sieve_rule                                       *)
(***************************************************************************)

Begin(s, c, label) ==
    /\ pc[s] = "idle"
    /\ calls < MaxCalls
    /\ calls' = calls + 1
    /\ call' = [call EXCEPT ![s] = c]
    /\ alone' = [alone EXCEPT ![s] = TRUE]
    /\ before' = [before EXCEPT ![s] =
                    IF active = None THEN Empty ELSE script[active]]
    /\ Goto(s, label)
    /\ UNCHANGED <<server, mine, moves>>

Add(s, r, comment) ==
    Begin(s, [op |-> "add", rule |-> r, name |-> comment], "folders")

RemoveRule(s, name) ==
    Begin(s, [op |-> "remove", rule |-> None, name |-> name], "active")

Fail(s) == Goto(s, "err") /\ UNCHANGED <<server, mine>>

Step(s) == UNCHANGED <<call, before>>

\* validate_fileinto_targets.
CheckFolders(s) ==
    /\ pc[s] = "folders"
    /\ IF call[s].rule \in Misfiled THEN Goto(s, "err") ELSE Goto(s, "active")
    /\ UNCHANGED <<server, mine, alone>>
    /\ Step(s) /\ Calm

GetActive(s) ==
    /\ pc[s] = "active"
    /\ target' = [target EXCEPT ![s] = active]
    /\ CASE active = None /\ call[s].op = "add" -> Goto(s, "bootstrap")
         [] active = None /\ call[s].op = "remove" -> Goto(s, "err")
         [] active # None /\ call[s].op = "add" -> Goto(s, "resolve")
         [] OTHER -> Goto(s, "read")
    /\ UNCHANGED <<server, text, alone>>
    /\ Step(s) /\ Calm

\* The content of this first reading is not used.
Resolve(s) ==
    /\ pc[s] = "resolve"
    /\ IF script[target[s]] = None THEN Goto(s, "err") ELSE Goto(s, "read")
    /\ UNCHANGED <<server, mine, alone>>
    /\ Step(s) /\ Calm

Readable(s) ==
    /\ script[target[s]] # None
    /\ call[s].op = "remove" => Named(script[target[s]], call[s].name) # {}

Read(s) ==
    /\ pc[s] = "read"
    /\ \/ ~Readable(s) /\ Fail(s)
       \/ /\ Readable(s)
          /\ text' = [text EXCEPT ![s] = script[target[s]]]
          /\ Goto(s, "put")
          /\ UNCHANGED <<server, target>>
    /\ UNCHANGED alone
    /\ Step(s) /\ Calm

\* forwardemail stores the text, valid or not, and says which.
StoreChecked(s, n, t, label) ==
    /\ script' = [script EXCEPT ![n] = t]
    /\ Goto(s, IF Valid(t) THEN label ELSE "err")

\* PUTSCRIPT refuses a text that is not valid.
StoreValid(s, n, t, label) ==
    IF Valid(t) THEN script' = [script EXCEPT ![n] = t] /\ Goto(s, label)
    ELSE Goto(s, "err") /\ UNCHANGED script

\* put_script is an upsert.  Everybody else's view of the script is then old.
Store(s, n, t, label) ==
    /\ IF Checked THEN StoreChecked(s, n, t, label) ELSE StoreValid(s, n, t, label)
    /\ alone' = [o \in Sessions |->
                   IF o = s THEN alone[s] ELSE alone[o] /\ script' = script]
    /\ UNCHANGED active

Put(s) ==
    /\ pc[s] = "put"
    /\ LET c == call[s] IN
       Store(s, target[s],
             IF c.op = "add" THEN Merge(text[s], c.rule, c.name)
             ELSE Without(text[s], c.name),
             "refresh")
    /\ UNCHANGED <<call, before, mine>>
    /\ Calm

\* What main held while it was not active is gone.
Bootstrap(s) ==
    /\ pc[s] = "bootstrap"
    /\ target' = [target EXCEPT ![s] = Main]
    /\ Store(s, Main, Merge(Empty, call[s].rule, call[s].name), "activate")
    /\ UNCHANGED text
    /\ Step(s) /\ Calm

\* Mutant: a script that was stored is not activated.
ActivateNever(s) ==
    /\ pc[s] = "activate"
    /\ Goto(s, "refresh")
    /\ UNCHANGED <<server, mine, alone>>
    /\ Step(s) /\ Calm

\* Mutant: whatever happened to the script since.
ActivateUnlooked(s) ==
    /\ pc[s] = "activate"
    /\ active' = Main
    /\ Goto(s, "refresh")
    /\ UNCHANGED <<script, mine, alone>>
    /\ Step(s) /\ Calm

Activate(s) ==
    /\ pc[s] = "activate"
    /\ \/ script[Main] = None /\ Fail(s) /\ UNCHANGED alone
       \/ /\ script[Main] # None
          /\ active' = Main
          /\ alone' = [o \in Sessions |->
                         IF o = s THEN alone[s] ELSE alone[o] /\ active = Main]
          /\ Goto(s, "refresh")
          /\ UNCHANGED <<script, mine>>
    /\ Step(s) /\ Calm

\* refresh: pull_sieve, which only reads the scripts, and the audit commit;
\* Collections has their steps.
Refresh(s) ==
    /\ pc[s] = "refresh"
    /\ Goto(s, "done")
    /\ UNCHANGED <<server, call, mine, alone, before>>
    /\ Calm

\* A request that fails.
RequestFails(s) ==
    /\ pc[s] \in {"folders", "active", "resolve", "read", "put", "bootstrap",
                  "activate", "refresh"}
    /\ Move
    /\ Fail(s)
    /\ UNCHANGED alone
    /\ Step(s)

Return(s) ==
    /\ pc[s] \in {"done", "err"}
    /\ Goto(s, "idle")
    /\ call' = [call EXCEPT ![s] = None]
    /\ target' = [target EXCEPT ![s] = None]
    /\ text' = [text EXCEPT ![s] = None]
    /\ before' = [before EXCEPT ![s] = Empty]
    /\ UNCHANGED <<server, alone>>
    /\ Calm
----------------------------------------------------------------------------
Edit(s) ==
    \/ \E r \in Rules, comment \in Names \cup {NoName} : Add(s, r, comment)
    \/ \E name \in Names : RemoveRule(s, name)
    \/ CheckFolders(s) \/ GetActive(s) \/ Resolve(s) \/ Read(s) \/ Put(s)
    \/ Bootstrap(s) \/ Activate(s) \/ Refresh(s)
    \/ RequestFails(s) \/ Return(s)

Next ==
    \/ \E s \in Sessions : Edit(s)
    \/ OtherChanges

Spec == Init /\ [][Next]_vars
----------------------------------------------------------------------------
(***************************************************************************)
(* Properties                                                              *)
(***************************************************************************)

Call == [op : {"add"}, rule : Rules, name : Names \cup {NoName}]
          \cup [op : {"remove"}, rule : {None}, name : Names]

\* Every variable has its type; the active script is there, and a tool that
\* is about to store a text has one.
TypeOK ==
    /\ script \in [Scripts -> Text \cup {None}]
    /\ active = None \/ (active \in Scripts /\ script[active] # None)
    /\ pc \in [Sessions -> {"idle", "folders", "active", "resolve", "read", "put",
                             "bootstrap", "activate", "refresh", "done", "err"}]
    /\ call \in [Sessions -> Call \cup {None}]
    /\ target \in [Sessions -> Scripts \cup {None}]
    /\ text \in [Sessions -> Text \cup {None}]
    /\ \A s \in Sessions : pc[s] = "put" => text[s] # None
    /\ alone \in [Sessions -> BOOLEAN]
    /\ before \in [Sessions -> Text]
    /\ moves \in Nat /\ calls \in Nat

\* What the server runs at delivery: every extension a rule uses is declared,
\* and nothing is declared that is no extension ("scripts that require a
\* non-extension ... are silently skipped at delivery").
Runs(t) == Valid(t) /\ t.requires \subseteq Known

\* The scripts of the other clients run.  Where the server takes scripts that
\* do not, the rules too are in order: each is one block, and declares what it
\* uses.
Tame ==
  /\ \A t \in Others : Runs(t)
  /\ Checked => \A r \in Rules : Parts[r] = 1 /\ Needs[r] \subseteq Declares[r] \cap Known

\* The active script always runs, whatever sessions and clients do at once,
\* as long as clients and rules are tame.
FiltersRun == active # None => Runs(script[active])

\* When a tool reports success and nobody else touched the scripts since it
\* was called, the active script is what it was but for the one rule.  This is
\* true too of the addition that makes the first script, and of one that found
\* main not active.
OkMeansInForce ==
    \A s \in Sessions :
      pc[s] = "done" /\ alone[s] =>
        /\ active # None
        /\ LET was == before[s].blocks
               is == script[active].blocks IN
           IF call[s].op = "add"
           THEN is = was \o BlocksOf(call[s].rule, call[s].name)
           ELSE \E k \in DOMAIN was :
                  was[k].name = call[s].name /\ is = RemoveAt(was, k)
=============================================================================
