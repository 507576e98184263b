-------------------------- MODULE SieveRules_proofs --------------------------
(* Proofs about the editing of mail filters, for any rules, scripts, texts   *)
(* of other clients, sessions and bounds.                                    *)
EXTENDS SieveRules, FiniteSetTheorems, SequenceTheorems, WellFoundedInduction, TLAPS

-----------------------------------------------------------------------------
(* Texts                                                                   *)

\* A set of positions has a least one.
LEMMA LeastPosition ==
  ASSUME NEW S \in SUBSET Nat, S # {}
  PROVE  Min(S) \in S /\ \A k \in S : Min(S) <= k
<1> DEFINE R == {p \in Nat \X Nat : p[1] < p[2]}
<1>0. OpToRel(<, Nat) = R
  BY DEF OpToRel
<1>1. IsWellFoundedOn(R, Nat)
  BY <1>0, NatLessThanWellFounded
<1>2. PICK m \in S : \A k \in S : ~ (<<k, m>> \in R)
  <2> HIDE DEF R
  <2> QED
  BY <1>1, WFMin
<1>3. ASSUME NEW k \in S
      PROVE  m <= k
  <2>1. ~ (k < m)
    BY <1>2
  <2> QED
    BY <2>1
<1> QED
  BY <1>3 DEF Min

\* A text without one of its blocks has no others than it had.
LEMMA RemovedBlock ==
  ASSUME NEW q \in Seq(Block), NEW k \in DOMAIN q
  PROVE  /\ RemoveAt(q, k) \in Seq(Block)
         /\ \A i \in DOMAIN RemoveAt(q, k) : \E j \in DOMAIN q : RemoveAt(q, k)[i] = q[j]
<1> DEFINE R == {q[j] : j \in DOMAIN q}
<1>1. DOMAIN q = 1..Len(q) /\ Len(q) \in Nat /\ k \in 1..Len(q) /\ R \subseteq Block
  OBVIOUS
<1>2. SubSeq(q, 1, k - 1) \in Seq(R)
  BY <1>1, SubSeqProperties
<1>3. SubSeq(q, k + 1, Len(q)) \in Seq(R)
  BY <1>1, SubSeqProperties
<1>4. RemoveAt(q, k) \in Seq(R)
  <2> HIDE DEF R
  <2> QED
    BY <1>2, <1>3, ConcatProperties DEF RemoveAt
<1>5. \A i \in DOMAIN RemoveAt(q, k) : RemoveAt(q, k)[i] \in R
  <2> HIDE DEF R
  <2> QED
    BY <1>4
<1>6. RemoveAt(q, k) \in Seq(Block)
  <2> HIDE DEF R
  <2> QED
    BY <1>1, <1>4, SeqDef
<1> QED
  BY <1>5, <1>6

LEMMA RuleBlocks ==
  ASSUME NEW r \in Rules, NEW comment \in Names \cup {NoName}
  PROVE  /\ BlocksOf(r, comment) \in Seq(Block)
         /\ Len(BlocksOf(r, comment)) = Parts[r]
         /\ \A k \in 1..Parts[r] :
              BlocksOf(r, comment)[k].rule = r /\ BlocksOf(r, comment)[k].part = k
<1>1. Parts[r] \in Nat \ {0}
  BY SieveAssumption
<1>2. BlocksOf(r, comment) \in [1..Parts[r] -> Block]
  BY <1>1 DEF BlocksOf, Block
<1>3. BlocksOf(r, comment) \in Seq(Block)
  BY <1>1, <1>2, SeqDef
<1>4. DOMAIN BlocksOf(r, comment) = 1..Parts[r]
  BY DEF BlocksOf
<1>5. Len(BlocksOf(r, comment)) = Parts[r]
  BY <1>1, <1>3, <1>4, LenProperties
<1> QED
  BY <1>3, <1>5 DEF BlocksOf

LEMMA EmptyIsText == Empty \in Text
BY DEF Empty, Text

\* merge_sieve_with_rule makes a text of a text.
LEMMA MergeIsText ==
  ASSUME NEW t \in Text, NEW r \in Rules, NEW comment \in Names \cup {NoName}
  PROVE  Merge(t, r, comment) \in Text
<1>1. Declares[r] \in Range(Declares)
  BY SieveAssumption DEF Range
<1>2. t.requires \in SUBSET UNION Range(Declares) /\ t.blocks \in Seq(Block)
  BY DEF Text
<1>3. (t.requires \cup Declares[r]) \cap Known \in SUBSET UNION Range(Declares)
  BY <1>1, <1>2
<1>4. t.blocks \o BlocksOf(r, comment) \in Seq(Block)
  BY <1>2, RuleBlocks, ConcatProperties
<1> QED
  BY <1>3, <1>4 DEF Merge, Text

\* remove_rule_from_content takes one block that has the name away.
LEMMA WithoutOne ==
  ASSUME NEW t \in Text, NEW name, Named(t, name) # {}
  PROVE  \E k \in DOMAIN t.blocks :
           t.blocks[k].name = name /\ Without(t, name).blocks = RemoveAt(t.blocks, k)
<1>1. DOMAIN t.blocks \subseteq Nat
  BY DEF Text
<1>2. Min(Named(t, name)) \in Named(t, name)
  BY <1>1, LeastPosition DEF Named
<1> QED
  BY <1>2 DEF Named, Without

LEMMA WithoutIsText ==
  ASSUME NEW t \in Text, NEW name, Named(t, name) # {}
  PROVE  Without(t, name) \in Text
<1>1. t.requires \in SUBSET UNION Range(Declares) /\ t.blocks \in Seq(Block)
  BY DEF Text
<1>2. Without(t, name).blocks \in Seq(Block)
  BY <1>1, WithoutOne, RemovedBlock
<1>3. t.requires \cap Known \in SUBSET UNION Range(Declares)
  BY <1>1
<1> QED
  BY <1>2, <1>3 DEF Without, Text

-----------------------------------------------------------------------------
(* Type correctness                                                        *)

\* A tool that runs knows what it was called for and which script it is at.
Busy ==
  \A s \in Sessions :
    /\ pc[s] # "idle" => call[s] \in Call
    /\ pc[s] \in {"folders", "resolve", "bootstrap", "activate"} => call[s].op = "add"
    /\ pc[s] \in {"resolve", "read", "put"} => target[s] \in Scripts
    /\ pc[s] = "put" /\ call[s].op = "remove" => Named(text[s], call[s].name) # {}

IInv == TypeOK /\ Busy

LEMMA CallFields ==
  ASSUME NEW c \in Call
  PROVE  /\ c.op \in {"add", "remove"}
         /\ c.op = "add" => c.rule \in Rules /\ c.name \in Names \cup {NoName}
         /\ c.op = "remove" => c.name \in Names
BY DEF Call

LEMMA InitIInv == Init => IInv
<1> SUFFICES ASSUME Init PROVE IInv
  OBVIOUS
<1>1. TypeOK
  BY SieveAssumption, EmptyIsText DEF Init, TypeOK
<1> QED
  BY <1>1 DEF Init, IInv, Busy

LEMMA BeginTyped ==
  ASSUME IInv, NEW s \in Sessions, NEW c \in Call, NEW label \in {"folders", "active"},
         label = "folders" => c.op = "add", Begin(s, c, label)
  PROVE  IInv'
<1>1. (IF active = None THEN Empty ELSE script[active]) \in Text
  BY EmptyIsText DEF IInv, TypeOK
<1>2. TypeOK'
  BY <1>1 DEF IInv, TypeOK, Begin, Goto, server, mine
<1>3. Busy'
  BY DEF IInv, TypeOK, Busy, Begin, Goto, server, mine
<1> QED
  BY <1>2, <1>3 DEF IInv

\* A text that is put where there is a script, or that a script is made of.
LEMMA StoreTyped ==
  ASSUME IInv, NEW s \in Sessions, NEW n \in Scripts, NEW t \in Text,
         NEW label \in {"activate", "refresh"}, label = "activate" => call[s].op = "add",
         pc[s] \in {"put", "bootstrap"},
         Store(s, n, t, label), UNCHANGED <<call, before, text, moves, calls>>,
         target' \in [Sessions -> Scripts \cup {None}],
         \A o \in Sessions \ {s} : target'[o] = target[o]
  PROVE  IInv'
<1>1. script' = script \/ script' = [script EXCEPT ![n] = t]
  BY DEF Store, StoreChecked, StoreValid
<1>2. pc' = [pc EXCEPT ![s] = label] \/ pc' = [pc EXCEPT ![s] = "err"]
  BY DEF Store, StoreChecked, StoreValid, Goto
<1>3. alone' \in [Sessions -> BOOLEAN]
  BY DEF Store, IInv, TypeOK
<1>4. script' \in [Scripts -> Text \cup {None}]
  BY <1>1 DEF IInv, TypeOK
<1>5. active' = None \/ (active' \in Scripts /\ script'[active'] # None)
  BY <1>1, SieveAssumption DEF IInv, TypeOK, Store
<1>6. TypeOK'
  BY <1>2, <1>3, <1>4, <1>5 DEF IInv, TypeOK
<1>7. Busy'
  BY <1>2 DEF IInv, TypeOK, Busy
<1> QED
  BY <1>6, <1>7 DEF IInv

LEMMA OthersTyped ==
  ASSUME IInv, OtherChanges
  PROVE  IInv'
<1>1. script' \in [Scripts -> Text \cup {None}]
  BY SieveAssumption DEF OtherChanges, IInv, TypeOK
<1>2. active' = None \/ (active' \in Scripts /\ script'[active'] # None)
  BY SieveAssumption DEF OtherChanges, IInv, TypeOK
<1>3. TypeOK'
  BY <1>1, <1>2 DEF OtherChanges, IInv, TypeOK, Move, mine
<1>4. Busy'
  BY DEF OtherChanges, IInv, Busy, mine
<1> QED
  BY <1>3, <1>4 DEF IInv

\* What a tool in progress is about to store.
NewText(s) ==
  IF call[s].op = "add" THEN Merge(text[s], call[s].rule, call[s].name)
  ELSE Without(text[s], call[s].name)

LEMMA NewTextTyped ==
  ASSUME IInv, NEW s \in Sessions, pc[s] = "put"
  PROVE  text[s] \in Text /\ NewText(s) \in Text
<1>1. text[s] \in Text /\ call[s] \in Call
  BY DEF IInv, TypeOK, Busy
<1>2. CASE call[s].op = "add"
  BY <1>1, <1>2, CallFields, MergeIsText DEF NewText
<1>3. CASE call[s].op = "remove"
  <2>1. Named(text[s], call[s].name) # {}
    BY <1>3 DEF IInv, Busy
  <2> QED
    BY <1>1, <1>3, <2>1, WithoutIsText DEF NewText
<1> QED
  BY <1>1, <1>2, <1>3, CallFields

LEMMA PutTyped ==
  ASSUME IInv, NEW s \in Sessions, Put(s)
  PROVE  IInv'
<1>1. pc[s] = "put" /\ target[s] \in Scripts
  BY DEF Put, IInv, Busy
<1>2. NewText(s) \in Text
  BY <1>1, NewTextTyped
<1>3. Store(s, target[s], NewText(s), "refresh")
  BY DEF Put, NewText
<1>4. UNCHANGED <<call, before, text, target, moves, calls>>
  BY DEF Put, mine, Calm
<1>5. target' \in [Sessions -> Scripts \cup {None}]
  BY <1>4 DEF IInv, TypeOK
<1> QED
  BY <1>1, <1>2, <1>3, <1>4, <1>5, StoreTyped

LEMMA BootstrapTyped ==
  ASSUME IInv, NEW s \in Sessions, Bootstrap(s)
  PROVE  IInv'
<1> DEFINE t == Merge(Empty, call[s].rule, call[s].name)
<1>1. pc[s] = "bootstrap" /\ call[s] \in Call /\ call[s].op = "add" /\ Main \in Scripts
  BY SieveAssumption DEF Bootstrap, IInv, Busy
<1>2. t \in Text
  BY <1>1, CallFields, EmptyIsText, MergeIsText
<1>3. target' = [target EXCEPT ![s] = Main] /\ Store(s, Main, t, "activate")
  BY DEF Bootstrap
<1>4. target' \in [Sessions -> Scripts \cup {None}]
      /\ \A o \in Sessions \ {s} : target'[o] = target[o]
  BY <1>1, <1>3 DEF IInv, TypeOK
<1>5. UNCHANGED <<call, before, text, moves, calls>>
  BY DEF Bootstrap, Step, Calm
<1> HIDE DEF t
<1> QED
  BY <1>1, <1>2, <1>3, <1>4, <1>5, StoreTyped

LEMMA EditTyped ==
  ASSUME IInv, NEW s \in Sessions, Edit(s)
  PROVE  IInv'
<1>1. ASSUME NEW r \in Rules, NEW comment \in Names \cup {NoName}, Add(s, r, comment)
      PROVE  IInv'
  <2>1. [op |-> "add", rule |-> r, name |-> comment] \in Call
    BY DEF Call
  <2> QED
    BY <1>1, <2>1, BeginTyped DEF Add
<1>2. ASSUME NEW name \in Names, RemoveRule(s, name)
      PROVE  IInv'
  <2>1. [op |-> "remove", rule |-> None, name |-> name] \in Call
    BY DEF Call
  <2> QED
    BY <1>2, <2>1, BeginTyped DEF RemoveRule
<1>3. CASE CheckFolders(s)
  BY <1>3 DEF CheckFolders, IInv, TypeOK, Busy, Goto, Step, Calm, server, mine
<1>4. CASE GetActive(s)
  <2>1. call[s] \in Call /\ call[s].op \in {"add", "remove"}
    BY <1>4, CallFields DEF GetActive, IInv, Busy
  <2>2. CASE active = None
    BY <1>4, <2>1, <2>2 DEF GetActive, IInv, TypeOK, Busy, Goto, Step, Calm, server
  <2>3. CASE active # None
    BY <1>4, <2>1, <2>3 DEF GetActive, IInv, TypeOK, Busy, Goto, Step, Calm, server
  <2> QED
    BY <2>2, <2>3
<1>5. CASE Resolve(s)
  BY <1>5 DEF Resolve, IInv, TypeOK, Busy, Goto, Step, Calm, server, mine
<1>6. CASE Read(s)
  <2>1. CASE ~Readable(s)
    BY <1>6, <2>1 DEF Read, Fail, IInv, TypeOK, Busy, Goto, Step, Calm, server, mine
  <2>2. CASE Readable(s)
    <3>1. target[s] \in Scripts /\ script[target[s]] \in Text
      BY <1>6, <2>2 DEF Read, Readable, IInv, TypeOK, Busy
    <3>2. TypeOK'
      BY <1>6, <2>2, <3>1, SieveAssumption
      DEF Read, IInv, TypeOK, Goto, Step, Calm, server
    <3>3. Busy'
      BY <1>6, <2>2, <3>1 DEF Read, Readable, IInv, TypeOK, Busy, Goto, Step, Calm, server
    <3> QED
      BY <3>2, <3>3 DEF IInv
  <2> QED
    BY <2>1, <2>2
<1>7. CASE Activate(s)
  <2>1. TypeOK'
    BY <1>7, SieveAssumption
    DEF Activate, Fail, IInv, TypeOK, Busy, Goto, Step, Calm, server, mine
  <2>2. Busy'
    BY <1>7 DEF Activate, Fail, IInv, TypeOK, Busy, Goto, Step, Calm, server, mine
  <2> QED
    BY <2>1, <2>2 DEF IInv
<1>8. CASE Refresh(s)
  BY <1>8 DEF Refresh, IInv, TypeOK, Busy, Goto, Calm, server, mine
<1>9. CASE RequestFails(s)
  BY <1>9 DEF RequestFails, Fail, Move, IInv, TypeOK, Busy, Goto, Step, server, mine
<1>10. CASE Return(s)
  BY <1>10, EmptyIsText DEF Return, IInv, TypeOK, Busy, Goto, Calm, server
<1> QED
  BY <1>1, <1>2, <1>3, <1>4, <1>5, <1>6, <1>7, <1>8, <1>9, <1>10,
     PutTyped, BootstrapTyped DEF Edit

LEMMA NextIInv == IInv /\ [Next]_vars => IInv'
<1> SUFFICES ASSUME IInv, [Next]_vars PROVE IInv'
  OBVIOUS
<1>1. CASE UNCHANGED vars
  BY <1>1 DEF IInv, TypeOK, Busy, vars, server, mine
<1> QED
  BY <1>1, EditTyped, OthersTyped DEF Next

\* Every variable has its type: the active script is there, and a tool that
\* is about to store a text has read one.
THEOREM TypeCorrect == Spec => []TypeOK
<1>1. IInv => TypeOK
  BY DEF IInv
<1> QED
  BY <1>1, InitIInv, NextIInv, PTL DEF Spec

-----------------------------------------------------------------------------
(* Scripts that run                                                        *)

\* Every script runs, active or not, and so does what a tool has read.
Running ==
  /\ \A n \in Scripts : script[n] # None => Runs(script[n])
  /\ \A s \in Sessions : pc[s] = "put" => Runs(text[s])

LEMMA EmptyRuns == Runs(Empty)
<1>1. \A r \in Rules, k \in Nat : Occurs(Empty, r, k) = Occurs(Empty, r, 1)
  <2>1. DOMAIN Empty.blocks = {}
    BY DEF Empty
  <2> QED
    BY <2>1 DEF Occurs
<1>2. \A r \in Rules : \A k \in 1..Parts[r] : Occurs(Empty, r, k) = Occurs(Empty, r, 1)
  BY <1>1, SieveAssumption
<1> QED
  BY <1>2 DEF Empty, Runs, Valid

\* Rules of one block cannot lose a part.
LEMMA OneBlockEach ==
  ASSUME Tame, Checked, NEW t
  PROVE  \A r \in Rules : \A k \in 1..Parts[r] : Occurs(t, r, k) = Occurs(t, r, 1)
<1> SUFFICES ASSUME NEW r \in Rules, NEW k \in 1..Parts[r]
             PROVE  Occurs(t, r, k) = Occurs(t, r, 1)
  OBVIOUS
<1>1. k = 1
  BY DEF Tame
<1> QED
  BY <1>1

\* To add a rule to a script that runs leaves a script that runs.
LEMMA MergeRuns ==
  ASSUME Tame, Checked, NEW t \in Text, Runs(t),
         NEW r \in Rules, NEW comment \in Names \cup {NoName}
  PROVE  Runs(Merge(t, r, comment))
<1> DEFINE m == Merge(t, r, comment)
<1>1. /\ m.requires = (t.requires \cup Declares[r]) \cap Known
      /\ m.blocks = t.blocks \o BlocksOf(r, comment)
  BY DEF Merge
<1>2. t.blocks \in Seq(Block) /\ DOMAIN t.blocks = 1..Len(t.blocks) /\ Len(t.blocks) \in Nat
  BY DEF Text
<1>3. /\ BlocksOf(r, comment) \in Seq(Block)
      /\ \A k \in 1..Len(BlocksOf(r, comment)) : BlocksOf(r, comment)[k].rule = r
  BY RuleBlocks
<1>4. ASSUME NEW i \in DOMAIN m.blocks
      PROVE  Needs[m.blocks[i].rule] \subseteq m.requires
  <2>1. /\ i \in 1..Len(t.blocks) + Len(BlocksOf(r, comment))
        /\ m.blocks[i] = IF i <= Len(t.blocks) THEN t.blocks[i]
                         ELSE BlocksOf(r, comment)[i - Len(t.blocks)]
    BY <1>1, <1>2, <1>3, ConcatProperties
  <2>2. CASE i <= Len(t.blocks)
    <3>1. Needs[t.blocks[i].rule] \subseteq t.requires /\ t.requires \subseteq Known
      BY <1>2, <2>1, <2>2 DEF Runs, Valid
    <3> QED
      BY <1>1, <2>1, <2>2, <3>1
  <2>3. CASE ~ (i <= Len(t.blocks))
    <3>1. i - Len(t.blocks) \in 1..Len(BlocksOf(r, comment))
      BY <1>2, <1>3, <2>1, <2>3
    <3>2. m.blocks[i].rule = r
      BY <1>3, <2>1, <2>3, <3>1
    <3> QED
      BY <1>1, <3>2 DEF Tame
  <2> QED
    BY <2>2, <2>3
<1>5. \A q \in Rules : \A k \in 1..Parts[q] : Occurs(m, q, k) = Occurs(m, q, 1)
  BY OneBlockEach
<1>6. m.requires \subseteq Known
  BY <1>1
<1> HIDE DEF m
<1>7. Runs(m)
  BY <1>4, <1>5, <1>6 DEF Runs, Valid
<1> QED
  BY <1>7 DEF m

\* So does taking one away.
LEMMA WithoutRuns ==
  ASSUME Tame, Checked, NEW t \in Text, Runs(t), NEW name, Named(t, name) # {}
  PROVE  Runs(Without(t, name))
<1> DEFINE w == Without(t, name)
<1>1. w.requires = t.requires /\ t.requires \subseteq Known
  BY DEF Without, Runs
<1>2. PICK k \in DOMAIN t.blocks : w.blocks = RemoveAt(t.blocks, k)
  BY WithoutOne
<1>3. ASSUME NEW i \in DOMAIN w.blocks
      PROVE  Needs[w.blocks[i].rule] \subseteq w.requires
  <2>1. PICK j \in DOMAIN t.blocks : w.blocks[i] = t.blocks[j]
    BY <1>2, <1>3, RemovedBlock DEF Text
  <2>2. Needs[t.blocks[j].rule] \subseteq t.requires
    BY DEF Runs, Valid
  <2> QED
    BY <1>1, <2>1, <2>2
<1>4. \A q \in Rules : \A l \in 1..Parts[q] : Occurs(w, q, l) = Occurs(w, q, 1)
  BY OneBlockEach
<1> HIDE DEF w
<1>5. Runs(w)
  BY <1>1, <1>3, <1>4 DEF Runs, Valid
<1> QED
  BY <1>5 DEF w

\* A server that refuses what does not run is left with scripts that do; of one
\* that takes it, the texts that tools put have to run.
LEMMA StoreRuns ==
  ASSUME IInv, Running, NEW s \in Sessions, NEW n \in Scripts, NEW t,
         t.requires \subseteq Known, Checked => Runs(t),
         NEW label \in {"activate", "refresh"}, Store(s, n, t, label), UNCHANGED text
  PROVE  Running'
<1>1. script' = script \/ (script' = [script EXCEPT ![n] = t] /\ Runs(t))
  BY DEF Store, StoreChecked, StoreValid, Runs
<1>2. \A o \in Sessions : pc'[o] = "put" => pc[o] = "put"
  BY DEF Store, StoreChecked, StoreValid, Goto, IInv, TypeOK
<1>3. \A k \in Scripts : script'[k] # None => Runs(script'[k])
  BY <1>1 DEF Running, IInv, TypeOK
<1> QED
  BY <1>2, <1>3 DEF Running

LEMMA PutRuns ==
  ASSUME IInv, Running, Tame, NEW s \in Sessions, Put(s)
  PROVE  Running'
<1>1. pc[s] = "put" /\ target[s] \in Scripts /\ text[s] \in Text /\ call[s] \in Call
  BY NewTextTyped DEF Put, IInv, Busy
<1>2. Store(s, target[s], NewText(s), "refresh") /\ UNCHANGED text
  BY DEF Put, NewText, mine
<1>3. Runs(text[s])
  BY <1>1 DEF Running
<1>4. NewText(s).requires \subseteq Known
  BY DEF NewText, Merge, Without
<1>5. ASSUME Checked PROVE Runs(NewText(s))
  <2>1. CASE call[s].op = "add"
    BY <1>1, <1>3, <1>5, <2>1, CallFields, MergeRuns DEF NewText
  <2>2. CASE call[s].op = "remove"
    <3>1. Named(text[s], call[s].name) # {}
      BY <1>1, <2>2 DEF IInv, Busy
    <3> QED
      BY <1>1, <1>3, <1>5, <2>2, <3>1, WithoutRuns DEF NewText
  <2> QED
    BY <1>1, <2>1, <2>2, CallFields
<1> QED
  BY <1>1, <1>2, <1>4, <1>5, StoreRuns

LEMMA BootstrapRuns ==
  ASSUME IInv, Running, Tame, NEW s \in Sessions, Bootstrap(s)
  PROVE  Running'
<1> DEFINE t == Merge(Empty, call[s].rule, call[s].name)
<1>1. call[s] \in Call /\ call[s].op = "add" /\ Main \in Scripts
  BY SieveAssumption DEF Bootstrap, IInv, Busy
<1>2. Store(s, Main, t, "activate") /\ UNCHANGED text
  BY DEF Bootstrap
<1>3. t.requires \subseteq Known
  BY DEF Merge
<1>4. Checked => Runs(t)
  BY <1>1, CallFields, EmptyIsText, EmptyRuns, MergeRuns
<1> HIDE DEF t
<1> QED
  BY <1>1, <1>2, <1>3, <1>4, StoreRuns

LEMMA NextRunning ==
  ASSUME Tame, IInv, Running, [Next]_vars
  PROVE  Running'
<1>1. ASSUME NEW s \in Sessions, Edit(s)
      PROVE  Running'
  <2>1. ASSUME NEW c, NEW label \in {"folders", "active"}, Begin(s, c, label)
        PROVE  Running'
    BY <2>1 DEF Begin, Goto, server, mine, Running, IInv, TypeOK
  <2>2. CASE \/ CheckFolders(s) \/ GetActive(s) \/ Resolve(s) \/ Activate(s)
             \/ Refresh(s) \/ RequestFails(s)
    <3>1. UNCHANGED <<script, text>>
      BY <2>2 DEF CheckFolders, GetActive, Resolve, Activate, Refresh, RequestFails,
         Fail, server, mine
    <3>2. \A o \in Sessions : pc'[o] = "put" => pc[o] = "put"
      BY <2>2 DEF CheckFolders, GetActive, Resolve, Activate, Refresh, RequestFails,
         Fail, Goto, IInv, TypeOK
    <3> QED
      BY <3>1, <3>2 DEF Running
  <2>3. CASE Read(s)
    BY <2>3 DEF Read, Readable, Fail, Goto, server, mine, Running, IInv, TypeOK, Busy
  <2>4. CASE Return(s)
    BY <2>4 DEF Return, Goto, server, Running, IInv, TypeOK
  <2> QED
    BY <1>1, <2>1, <2>2, <2>3, <2>4, PutRuns, BootstrapRuns DEF Edit, Add, RemoveRule
<1>2. CASE OtherChanges
  <2>1. \A n \in Scripts : script'[n] # None => Runs(script'[n])
    BY <1>2 DEF OtherChanges, Running, IInv, TypeOK, Tame
  <2> QED
    BY <1>2, <2>1 DEF OtherChanges, Running, mine
<1>3. CASE UNCHANGED vars
  BY <1>3 DEF Running, vars, server, mine
<1> QED
  BY <1>1, <1>2, <1>3 DEF Next

\* The active script runs at delivery whatever sessions and clients do at once
\* (merge_sieve_with_rule, filter_known_extensions): always where the server
\* refuses what does not compile, and where it does not, if every rule is one
\* block and declares what it uses.
THEOREM FiltersStayInOrder == Tame => (Spec => []FiltersRun)
<1> SUFFICES ASSUME Tame PROVE Spec => []FiltersRun
  OBVIOUS
<1>1. Init => Running
  BY DEF Init, Running
<1>2. IInv /\ Running /\ [Next]_vars => Running'
  BY NextRunning
<1>3. IInv /\ Running => FiltersRun
  BY DEF Running, FiltersRun, IInv, TypeOK
<1> QED
  BY <1>1, <1>2, <1>3, InitIInv, NextIInv, PTL DEF Spec

-----------------------------------------------------------------------------
(* Edits that are in force                                                 *)

\* The active script is what it was when the call began but for the one rule.
Edited(s) ==
  IF call[s].op = "add"
  THEN script[active].blocks = before[s].blocks \o BlocksOf(call[s].rule, call[s].name)
  ELSE \E k \in DOMAIN before[s].blocks :
         /\ before[s].blocks[k].name = call[s].name
         /\ script[active].blocks = RemoveAt(before[s].blocks, k)

\* What a tool knows of the active script is so while nobody else touches it:
\* the text it was when the call began, up to the request that stores the new
\* one.  It may still be that no script is active.
Undisturbed(s) ==
  /\ pc[s] \in {"folders", "active"} =>
       before[s] = IF active = None THEN Empty ELSE script[active]
  /\ pc[s] = "bootstrap" => active = None /\ before[s] = Empty
  /\ pc[s] \in {"resolve", "read", "put"} =>
       active # None /\ target[s] = active /\ before[s] = script[active]
  /\ pc[s] = "put" => text[s] = before[s]
  /\ pc[s] = "activate" =>
       /\ active = None /\ before[s] = Empty
       /\ script[Main] = Merge(Empty, call[s].rule, call[s].name)
  /\ pc[s] \in {"refresh", "done"} => active # None /\ Edited(s)

InForce == \A s \in Sessions : alone[s] => Undisturbed(s)

\* Nothing that leaves the server and the session alone matters to it.
LEMMA StaysUndisturbed ==
  ASSUME NEW s \in Sessions, Undisturbed(s), UNCHANGED <<script, active>>,
         pc'[s] = pc[s], call'[s] = call[s], target'[s] = target[s], text'[s] = text[s],
         before'[s] = before[s]
  PROVE  Undisturbed(s)'
<1>1. Edited(s) => Edited(s)'
  BY DEF Edited
<1> QED
  BY <1>1 DEF Undisturbed

\* Whoever is alone was alone before, unless his call has just begun, and
\* nobody else's step has changed a script.
LEMMA OthersStayOut ==
  ASSUME IInv, NEW s \in Sessions, NEW o \in Sessions, o # s, Edit(s), alone'[o]
  PROVE  /\ alone[o] /\ UNCHANGED <<script, active>>
         /\ pc'[o] = pc[o] /\ call'[o] = call[o] /\ target'[o] = target[o]
         /\ text'[o] = text[o] /\ before'[o] = before[o]
<1>1. ASSUME NEW c, NEW label, Begin(s, c, label)
      PROVE  /\ alone[o] /\ UNCHANGED <<script, active, target, text>>
             /\ pc'[o] = pc[o] /\ call'[o] = call[o] /\ before'[o] = before[o]
  BY <1>1 DEF Begin, Goto, server, mine, IInv, TypeOK
<1>2. CASE \/ CheckFolders(s) \/ GetActive(s) \/ Resolve(s) \/ Read(s)
           \/ RequestFails(s) \/ Refresh(s) \/ Return(s)
  <2>1. alone[o] /\ UNCHANGED <<script, active>>
    BY <1>2 DEF CheckFolders, GetActive, Resolve, Read, RequestFails, Refresh, Return,
       Fail, Step, server
  <2>2. pc'[o] = pc[o]
    BY <1>2 DEF CheckFolders, GetActive, Resolve, Read, RequestFails, Refresh, Return,
       Fail, Goto, IInv, TypeOK
  <2>3. call'[o] = call[o] /\ before'[o] = before[o]
    BY <1>2 DEF CheckFolders, GetActive, Resolve, Read, RequestFails, Refresh, Return,
       Step, IInv, TypeOK
  <2>4. target'[o] = target[o] /\ text'[o] = text[o]
    BY <1>2 DEF CheckFolders, GetActive, Resolve, Read, RequestFails, Refresh, Return,
       Fail, mine, IInv, TypeOK
  <2> QED
    BY <2>1, <2>2, <2>3, <2>4
<1>3. ASSUME NEW n, NEW t, NEW label, Store(s, n, t, label)
      PROVE  alone[o] /\ UNCHANGED <<script, active>> /\ pc'[o] = pc[o]
  BY <1>3 DEF Store, StoreChecked, StoreValid, Goto, IInv, TypeOK
<1>4. CASE Put(s)
  BY <1>3, <1>4 DEF Put, mine
<1>5. CASE Bootstrap(s)
  BY <1>3, <1>5 DEF Bootstrap, Step, IInv, TypeOK
<1>6. CASE Activate(s)
  BY <1>6 DEF Activate, Fail, Goto, Step, server, mine, IInv, TypeOK
<1> QED
  BY <1>1, <1>2, <1>4, <1>5, <1>6 DEF Edit, Add, RemoveRule

\* A text that a tool puts is what it read but for the one rule.
LEMMA NewTextEdited ==
  ASSUME IInv, NEW s \in Sessions, pc[s] = "put", text[s] = before[s],
         UNCHANGED <<call, before>>, active' # None, script'[active'] = NewText(s)
  PROVE  Edited(s)'
<1>1. text[s] \in Text /\ call[s] \in Call
  BY NewTextTyped DEF IInv, Busy
<1>2. CASE call[s].op = "add"
  <2>1. NewText(s).blocks = text[s].blocks \o BlocksOf(call[s].rule, call[s].name)
    BY <1>2 DEF NewText, Merge
  <2>2. script'[active'].blocks = before'[s].blocks \o BlocksOf(call'[s].rule, call'[s].name)
    BY <2>1
  <2> QED
    BY <1>2, <2>2 DEF Edited
<1>3. CASE call[s].op = "remove"
  <2>1. Named(text[s], call[s].name) # {}
    BY <1>3 DEF IInv, Busy
  <2>2. PICK k \in DOMAIN text[s].blocks :
          /\ text[s].blocks[k].name = call[s].name
          /\ Without(text[s], call[s].name).blocks = RemoveAt(text[s].blocks, k)
    BY <1>1, <2>1, WithoutOne
  <2> QED
    BY <1>3, <2>2 DEF Edited, NewText
<1> QED
  BY <1>1, <1>2, <1>3, CallFields

\* What a session does itself keeps what it knows true, up to the end.
LEMMA OwnStep ==
  ASSUME IInv, InForce, NEW s \in Sessions, Edit(s), alone'[s]
  PROVE  Undisturbed(s)'
<1>1. ASSUME NEW c, NEW label \in {"folders", "active"}, Begin(s, c, label)
      PROVE  Undisturbed(s)'
  BY <1>1 DEF Begin, Goto, server, Undisturbed, IInv, TypeOK
<1>2. ASSUME alone'[s] = alone[s] PROVE Undisturbed(s)
  BY <1>2 DEF InForce
<1>3. CASE CheckFolders(s)
  BY <1>2, <1>3 DEF CheckFolders, Goto, Step, server, mine, Undisturbed, IInv, TypeOK
<1>4. CASE GetActive(s)
  <2>1. call[s].op \in {"add", "remove"}
    BY <1>4, CallFields DEF GetActive, IInv, Busy
  <2>2. before[s] = IF active = None THEN Empty ELSE script[active]
    BY <1>2, <1>4 DEF GetActive, Undisturbed
  <2>3. UNCHANGED <<script, active, before>> /\ target'[s] = active
    BY <1>4 DEF GetActive, Step, server, IInv, TypeOK
  <2>4. \/ active = None /\ pc'[s] \in {"bootstrap", "err"}
        \/ active # None /\ pc'[s] \in {"resolve", "read"}
    BY <1>4, <2>1 DEF GetActive, Goto, IInv, TypeOK
  <2> QED
    BY <2>2, <2>3, <2>4 DEF Undisturbed
<1>5. CASE Resolve(s)
  BY <1>2, <1>5 DEF Resolve, Goto, Step, server, mine, Undisturbed, IInv, TypeOK
<1>6. CASE Read(s)
  BY <1>2, <1>6 DEF Read, Readable, Fail, Goto, Step, server, mine, Undisturbed, IInv, TypeOK
<1>7. CASE Put(s)
  <2>1. /\ pc[s] = "put" /\ target[s] \in Scripts
        /\ Store(s, target[s], NewText(s), "refresh")
        /\ UNCHANGED <<call, before>>
    BY <1>7 DEF Put, NewText, IInv, Busy
  <2>2. active # None /\ target[s] = active /\ text[s] = before[s] /\ active' = active
    BY <1>2, <1>7, <2>1 DEF Undisturbed, Store
  <2>3. CASE pc'[s] = "err"
    BY <2>3 DEF Undisturbed
  <2>4. CASE pc'[s] # "err"
    <3>1. pc'[s] = "refresh" /\ script'[active'] = NewText(s)
      BY <2>1, <2>2, <2>4 DEF Store, StoreChecked, StoreValid, Goto, IInv, TypeOK
    <3>2. Edited(s)'
      BY <2>1, <2>2, <3>1, NewTextEdited
    <3> QED
      BY <2>2, <3>1, <3>2 DEF Undisturbed
  <2> QED
    BY <2>3, <2>4
<1>8. CASE Bootstrap(s)
  <2> DEFINE t == Merge(Empty, call[s].rule, call[s].name)
  <2>1. /\ pc[s] = "bootstrap" /\ Store(s, Main, t, "activate") /\ Main \in Scripts
        /\ UNCHANGED <<call, before>>
    BY <1>8, SieveAssumption DEF Bootstrap, Step
  <2>2. active = None /\ before[s] = Empty /\ active' = active
    BY <1>2, <2>1 DEF Undisturbed, Store
  <2>3. t' = t
    BY <2>1
  <2> HIDE DEF t
  <2>4. \/ pc'[s] = "err"
        \/ pc'[s] = "activate" /\ script'[Main] = t
    BY <2>1 DEF Store, StoreChecked, StoreValid, Goto, IInv, TypeOK
  <2>5. CASE pc'[s] = "err"
    BY <2>5 DEF Undisturbed
  <2>6. CASE pc'[s] = "activate"
    <3>1. script'[Main] = Merge(Empty, call'[s].rule, call'[s].name)
      BY <2>1, <2>4, <2>6 DEF t
    <3> QED
      BY <2>1, <2>2, <2>6, <3>1 DEF Undisturbed
  <2> QED
    BY <2>4, <2>5, <2>6
<1>9. CASE Activate(s)
  <2>1. pc[s] = "activate" /\ alone[s] /\ UNCHANGED <<script, call, before>>
    BY <1>9 DEF Activate, Fail, Step, server
  <2>2. /\ before[s] = Empty /\ call[s].op = "add"
        /\ script[Main] = Merge(Empty, call[s].rule, call[s].name)
    BY <2>1 DEF InForce, Undisturbed, IInv, Busy
  <2>3. \/ pc'[s] = "err"
        \/ pc'[s] = "refresh" /\ active' = Main
    BY <1>9 DEF Activate, Fail, Goto, IInv, TypeOK
  <2>4. CASE pc'[s] = "err"
    BY <2>4 DEF Undisturbed
  <2>5. CASE pc'[s] = "refresh" /\ active' = Main
    <3>1. script'[active'] = Merge(Empty, call[s].rule, call[s].name)
      BY <2>1, <2>2, <2>5
    <3>2. Merge(Empty, call[s].rule, call[s].name).blocks
            = Empty.blocks \o BlocksOf(call[s].rule, call[s].name)
      BY DEF Merge
    <3>3. script'[active'].blocks = Empty.blocks \o BlocksOf(call[s].rule, call[s].name)
      BY <3>1, <3>2
    <3>4. script'[active'].blocks = before'[s].blocks \o BlocksOf(call'[s].rule, call'[s].name)
      BY <2>1, <2>2, <3>3
    <3>5. Edited(s)'
      BY <2>1, <2>2, <3>4 DEF Edited
    <3> QED
      BY <2>5, <3>5, SieveAssumption DEF Undisturbed
  <2> QED
    BY <2>3, <2>4, <2>5
<1>10. CASE Refresh(s)
  <2>1. /\ pc[s] = "refresh" /\ pc'[s] = "done" /\ alone'[s] = alone[s]
        /\ UNCHANGED <<script, active, call, before>>
    BY <1>10 DEF Refresh, Goto, server, IInv, TypeOK
  <2>2. active # None /\ Edited(s)
    BY <1>2, <2>1 DEF Undisturbed
  <2>3. Edited(s)'
    BY <2>1, <2>2 DEF Edited
  <2> QED
    BY <2>1, <2>2, <2>3 DEF Undisturbed
<1>11. CASE RequestFails(s) \/ Return(s)
  <2>1. pc'[s] \in {"err", "idle"}
    BY <1>11 DEF RequestFails, Return, Fail, Goto, IInv, TypeOK
  <2> QED
    BY <2>1 DEF Undisturbed
<1> QED
  BY <1>1, <1>3, <1>4, <1>5, <1>6, <1>7, <1>8, <1>9, <1>10, <1>11 DEF Edit, Add, RemoveRule

LEMMA NextInForce == IInv /\ InForce /\ [Next]_vars => InForce'
<1> SUFFICES ASSUME IInv, InForce, [Next]_vars, NEW o \in Sessions, alone'[o]
             PROVE  Undisturbed(o)'
  BY DEF InForce
<1>1. ASSUME NEW s \in Sessions, Edit(s)
      PROVE  Undisturbed(o)'
  <2>1. CASE s = o
    BY <1>1, <2>1, OwnStep
  <2>2. CASE s # o
    <3>1. Undisturbed(o)
      BY <1>1, <2>2, OthersStayOut DEF InForce
    <3> QED
      BY <1>1, <2>2, <3>1, OthersStayOut, StaysUndisturbed
  <2> QED
    BY <2>1, <2>2
<1>2. CASE OtherChanges
  BY <1>2 DEF OtherChanges
<1>3. CASE UNCHANGED vars
  BY <1>3, StaysUndisturbed DEF InForce, vars, server, mine
<1> QED
  BY <1>1, <1>2, <1>3 DEF Next

\* When add_sieve_rule or remove_sieve_rule report success and nobody else
\* touched the scripts since the call, the active script differs from what it
\* was in the one rule.
THEOREM SuccessIsInForce == Spec => []OkMeansInForce
<1>1. Init => InForce
  BY DEF Init, InForce, Undisturbed
<1>2. InForce => OkMeansInForce
  BY DEF InForce, Undisturbed, Edited, OkMeansInForce
<1> QED
  BY <1>1, <1>2, InitIInv, NextIInv, NextInForce, PTL DEF Spec
=============================================================================
