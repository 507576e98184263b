-------------------------- MODULE MailIndex_proofs --------------------------
(* Proofs about the search index over the mail folders: for any folders,     *)
(* messages, thresholds and bounds.                                          *)
EXTENDS MailIndex, FiniteSetTheorems, SequenceTheorems, TLAPS

-----------------------------------------------------------------------------
(* The folders in an order                                                 *)

\* A set of folders in an order has every folder of the set in it.
LEMMA InOrderHasAll ==
  ASSUME NEW S \in SUBSET Folders, NEW order, NEW q \in InOrder(S, order)
  PROVE  q \in Seq(Folders) /\ Range(q) = S
<1> DEFINE D == 1..Cardinality(S)
<1>1. IsFiniteSet(S) /\ Cardinality(S) \in Nat
  BY MailIndexAssumption, FS_Subset, FS_CardinalityType
<1>2. q \in [D -> S] /\ \A j, k \in D : j # k => q[j] # q[k]
  BY DEF InOrder, SetToSeqs
<1>3. q \in Injection(D, S)
  BY <1>2 DEF Injection, IsInjective
<1>4. IsFiniteSet(D) /\ Cardinality(D) = Cardinality(S)
  BY <1>1, FS_Interval
<1>5. q \in Surjection(D, S)
  BY <1>1, <1>3, <1>4, FS_Injection
<1>6. Range(q) = S
  BY <1>2, <1>5 DEF Surjection, Range
<1> QED
  BY <1>1, <1>2, <1>6

\* What the first folder of a list and the others are.
LEMMA HeadAndRest ==
  ASSUME NEW q \in Seq(Folders), q # <<>>
  PROVE  /\ Head(q) \in Folders /\ Tail(q) \in Seq(Folders)
         /\ Head(q) \in Range(q)
         /\ Range(q) = {Head(q)} \cup Range(Tail(q))
<1>1. /\ Len(q) \in Nat \ {0} /\ DOMAIN q = 1..Len(q) /\ Head(q) = q[1]
      /\ Tail(q) \in Seq(Folders) /\ Len(Tail(q)) = Len(q) - 1
      /\ \A k \in 1..Len(q) - 1 : Tail(q)[k] = q[k + 1]
  BY EmptySeq, HeadTailProperties
<1>2. DOMAIN Tail(q) = 1..Len(q) - 1
  BY <1>1
<1>3. Range(q) \subseteq {Head(q)} \cup Range(Tail(q))
  <2> SUFFICES ASSUME NEW k \in 1..Len(q) PROVE q[k] \in {Head(q)} \cup Range(Tail(q))
    BY <1>1 DEF Range
  <2>1. CASE k = 1
    BY <1>1, <2>1
  <2>2. CASE k # 1
    <3>1. k - 1 \in 1..Len(q) - 1 /\ (k - 1) + 1 = k
      BY <1>1, <2>2
    <3> QED
      BY <1>1, <1>2, <3>1 DEF Range
  <2> QED
    BY <2>1, <2>2
<1>4. Range(Tail(q)) \subseteq Range(q)
  <2> SUFFICES ASSUME NEW k \in 1..Len(q) - 1 PROVE Tail(q)[k] \in Range(q)
    BY <1>2 DEF Range
  <2>1. k + 1 \in 1..Len(q)
    BY <1>1
  <2> QED
    BY <1>1, <2>1 DEF Range
<1>5. Head(q) \in Range(q) /\ Head(q) \in Folders
  BY <1>1 DEF Range
<1> QED
  BY <1>1, <1>3, <1>4, <1>5

-----------------------------------------------------------------------------
(* What a step finds in the variables                                      *)

HasFile(f, m) == emls[f][m] # None

\* Who is at work has a folder in hand.
InHand ==
  /\ \A s \in Syncers :
       pc[s] \in {"messages", "meta", "index", "remove", "forget"} => queue[s] # <<>>
  /\ rpc \in {"folder", "got"} => dirsLeft # <<>>

\* Files are in directories.
Homed == \A f \in Folders, m \in Messages : HasFile(f, m) => f \in dirs

Shape == TypeOK /\ InHand /\ Homed

LEMMA RowType ==
  ASSUME TypeOK, NEW f \in Folders, NEW v \in Versions
  PROVE  Row(f, v) \in RowState
BY DEF Row, RowState, TypeOK

LEMMA InitShape == Init => Shape
<1> SUFFICES ASSUME Init PROVE Shape
  OBVIOUS
<1>1. /\ Nothing \in [Messages -> Opt(Versions)] /\ Nothing \in [Messages -> Opt(RowState)]
      /\ Nothing \in [Messages -> Opt(0..MaxTime)]
  BY DEF Nothing, Opt
<1>2. 0 \in 0..MaxTime /\ 0 \in 0..MaxMoves
  BY MailIndexAssumption
<1>3. /\ mailbox \in [Folders -> Opt([Messages -> Opt(Versions)])]
      /\ emls \in [Folders -> [Messages -> Opt(0..MaxTime)]]
      /\ metas \in [Folders -> [Messages -> Opt(Versions)]]
      /\ rows \in [Messages -> Opt(RowState)] /\ known \in [Messages -> Opt(0..MaxTime)]
  <2>1. Nothing \in Opt([Messages -> Opt(Versions)])
    BY <1>1 DEF Opt
  <2> QED
    BY <1>1, <2>1 DEF Init
<1>4. /\ \A s \in Syncers : pc[s] \in {"idle", "starting"} /\ cur[s] = None
      /\ queue \in [Syncers -> Seq(Folders)]
      /\ todo \in [Syncers -> [fetch : SUBSET Messages, remove : SUBSET Messages]]
      /\ cur \in [Syncers -> Opt(Read)]
      /\ pc \in [Syncers -> {"starting", "rebuilding", "idle", "folder", "messages", "meta",
                             "index", "remove", "forget"}]
  BY DEF Init, Each, NoTodo, Opt, Syncers
<1>5. TypeOK
  <2>1. manifests \subseteq dirs /\ dirs \subseteq Folders /\ listed \subseteq Folders
        /\ opened \subseteq Syncers /\ dirsLeft \in Seq(Folders)
        /\ seen \subseteq Messages /\ walk \subseteq Messages
        /\ errors \subseteq Folders \X Messages /\ got \in Opt(Read)
    BY DEF Init, Opt
  <2> QED
    BY <1>2, <1>3, <1>4, <2>1 DEF Init, TypeOK
<1>6. InHand /\ Homed
  BY <1>4 DEF Init, InHand, Homed, HasFile, Nothing
<1> QED
  BY <1>5, <1>6 DEF Shape

\* The account changes the mailbox only.
LEMMA AccountShape ==
  ASSUME Shape, Account
  PROVE  Shape'
<1> USE DEF Shape
<1>1. moves \in Versions /\ moves' \in 0..MaxMoves
  BY MailIndexAssumption DEF Account, Move, TypeOK, Versions
<1>2. mailbox' \in [Folders -> Opt([Messages -> Opt(Versions)])]
  <2> DEFINE Folder == Opt([Messages -> Opt(Versions)])
  <2>1. /\ mailbox \in [Folders -> Folder] /\ None \in Folder /\ Nothing \in Folder
        /\ \A b \in Folder : b # None => b \in [Messages -> Opt(Versions)]
        /\ \A b \in [Messages -> Opt(Versions)] : b \in Folder
    BY DEF TypeOK, Opt, Nothing
  <2>2. ASSUME NEW b \in Folder, b # None, NEW m \in Messages
        PROVE  [b EXCEPT ![m] = None] \in Folder /\ [b EXCEPT ![m] = moves] \in Folder
    <3>1. b \in [Messages -> Opt(Versions)] /\ None \in Opt(Versions) /\ moves \in Opt(Versions)
      BY <1>1, <2>1, <2>2 DEF Opt
    <3>2. /\ [b EXCEPT ![m] = None] \in [Messages -> Opt(Versions)]
          /\ [b EXCEPT ![m] = moves] \in [Messages -> Opt(Versions)]
      BY <3>1
    <3> QED
      BY <2>1, <3>2
  <2> HIDE DEF Folder
  <2>3. PICK f \in Folders :
          \/ FolderGoes(f) \/ FolderComes(f)
          \/ \E m \in Messages :
              Arrive(f, m) \/ Expunge(f, m) \/ \E g \in Folders : MoveTo(f, g, m)
    BY DEF Account
  <2>4. ASSUME FolderGoes(f) \/ FolderComes(f)
        PROVE  mailbox' \in [Folders -> Folder]
    BY <2>1, <2>4 DEF FolderGoes, FolderComes
  <2>5. ASSUME NEW m \in Messages, Arrive(f, m) \/ Expunge(f, m)
        PROVE  mailbox' \in [Folders -> Folder]
    <3>1. mailbox[f] \in Folder /\ mailbox[f] # None
      BY <2>1, <2>5 DEF Arrive, Expunge, Here
    <3>2. /\ [mailbox[f] EXCEPT ![m] = None] \in Folder
          /\ [mailbox[f] EXCEPT ![m] = moves] \in Folder
      BY <2>2, <3>1
    <3> QED
      BY <2>1, <2>5, <3>2 DEF Arrive, Expunge
  <2>6. ASSUME NEW m \in Messages, NEW g \in Folders, MoveTo(f, g, m)
        PROVE  mailbox' \in [Folders -> Folder]
    <3>1. mailbox[f] \in Folder /\ mailbox[f] # None /\ mailbox[g] \in Folder /\ mailbox[g] # None
      BY <2>1, <2>6 DEF MoveTo, Here
    <3>2. /\ [mailbox[f] EXCEPT ![m] = None] \in Folder
          /\ [mailbox[g] EXCEPT ![m] = moves] \in Folder
      BY <2>2, <3>1
    <3>3. mailbox' = [mailbox EXCEPT ![f] = [@ EXCEPT ![m] = None],
                                     ![g] = [@ EXCEPT ![m] = moves]] /\ f # g
      BY <2>6 DEF MoveTo
    <3>4. mailbox' = [h \in Folders |->
                        IF h = g THEN [mailbox[g] EXCEPT ![m] = moves]
                        ELSE IF h = f THEN [mailbox[f] EXCEPT ![m] = None]
                        ELSE mailbox[h]]
      BY <2>1, <3>3
    <3> QED
      BY <2>1, <3>2, <3>4
  <2>7. mailbox' \in [Folders -> Folder]
    BY <2>3, <2>4, <2>5, <2>6
  <2> QED
    BY <2>7 DEF Folder
<1>3. UNCHANGED <<now, tree, rows, syncers, rebuild, alone, inStep>>
  BY DEF Account
<1>4. TypeOK'
  <2>1. now' = now /\ dirs' = dirs /\ manifests' = manifests /\ emls' = emls
        /\ metas' = metas /\ rows' = rows /\ alone' = alone /\ inStep' = inStep
    BY <1>3 DEF tree
  <2>2. /\ pc' = pc /\ listed' = listed /\ queue' = queue /\ todo' = todo
        /\ cur' = cur /\ opened' = opened
        /\ rpc' = rpc /\ force' = force /\ known' = known /\ dirsLeft' = dirsLeft
        /\ walk' = walk /\ seen' = seen /\ errors' = errors /\ got' = got /\ held' = held
    BY <1>3 DEF syncers, rebuild
  <2> QED
    BY <1>1, <1>2, <2>1, <2>2 DEF TypeOK
<1>5. InHand' /\ Homed'
  BY <1>3 DEF InHand, Homed, HasFile, tree, syncers, rebuild
<1> QED
  BY <1>4, <1>5

LEMMA TickShape ==
  ASSUME Shape, Tick
  PROVE  Shape'
<1> USE DEF Shape
<1>1. now' \in 0..MaxTime
  BY MailIndexAssumption DEF TypeOK, Tick
<1>3. TypeOK'
  BY <1>1 DEF TypeOK, Tick, tree, syncers, rebuild
<1>2. InHand' /\ Homed'
  BY DEF Tick, InHand, Homed, HasFile, tree, syncers, rebuild
<1> QED
  BY <1>2, <1>3

-----------------------------------------------------------------------------
(* The syncs                                                               *)

LEMMA UpsetMoves ==
  ASSUME TypeOK, UNCHANGED moves \/ \E k \in AllKinds : Upset(k)
  PROVE  moves' \in 0..MaxMoves
BY MailIndexAssumption DEF TypeOK, Upset, Move

\* A write of rows leaves the ones there were, or what it was to write.
LEMMA WriteType ==
  ASSUME TypeOK, NEW s \in Syncers, NEW r \in [Messages -> Opt(RowState)], WriteRows(s, r)
  PROVE  /\ rows' \in [Messages -> Opt(RowState)]
         /\ inStep' \in BOOLEAN /\ moves' \in 0..MaxMoves
         /\ inStep' => rows' = r /\ inStep
<1>1. CASE s \in opened /\ ~held /\ rows' = r /\ UNCHANGED <<inStep, moves>>
  BY <1>1 DEF TypeOK
<1>2. CASE s \in opened /\ Upset("noindex") /\ inStep' = FALSE /\ UNCHANGED rows
  BY <1>2, UpsetMoves DEF TypeOK, AllKinds
<1>3. CASE s \notin opened /\ inStep' = FALSE /\ UNCHANGED <<rows, moves>>
  BY <1>3 DEF TypeOK
<1> QED
  BY <1>1, <1>2, <1>3 DEF WriteRows

\* The folder of a sync at work.
LEMMA FolderInHand ==
  ASSUME Shape, NEW s \in Syncers, queue[s] # <<>>
  PROVE  Head(queue[s]) \in Folders /\ Tail(queue[s]) \in Seq(Folders)
BY HeadAndRest DEF Shape, TypeOK

\* What a sync leaves alone, and what is left to show of it.
LEMMA SyncShape ==
  ASSUME Shape, NEW s \in Syncers, NEW step, NEW hand \in Opt(Read),
         pc' = [pc EXCEPT ![s] = step], cur' = [cur EXCEPT ![s] = hand],
         step \in {"idle", "folder", "messages", "meta", "index", "remove", "forget"},
         hand # None <=> step \in {"meta", "index", "remove", "forget"},
         step \in {"messages", "meta", "index", "remove", "forget"} => queue'[s] # <<>>,
         \A t \in Syncers : t # s => queue'[t] = queue[t],
         queue' \in [Syncers -> Seq(Folders)],
         todo' \in [Syncers -> [fetch : SUBSET Messages, remove : SUBSET Messages]],
         emls' \in [Folders -> [Messages -> Opt(0..MaxTime)]],
         metas' \in [Folders -> [Messages -> Opt(Versions)]],
         manifests' \subseteq dirs', dirs' \subseteq Folders,
         \A f \in Folders, m \in Messages : HasFile(f, m)' => f \in dirs',
         rows' \in [Messages -> Opt(RowState)], listed' \subseteq Folders,
         opened' \subseteq Syncers, alone' \in BOOLEAN, inStep' \in BOOLEAN,
         moves' \in 0..MaxMoves, UNCHANGED <<server, rebuild>>
  PROVE  Shape'
<1> USE DEF Shape
<1>1. /\ mailbox' = mailbox /\ now' = now /\ rpc' = rpc /\ force' = force /\ known' = known
      /\ dirsLeft' = dirsLeft /\ walk' = walk /\ seen' = seen /\ errors' = errors
      /\ got' = got /\ held' = held
  BY DEF server, rebuild
<1>2. /\ pc' \in [Syncers -> {"starting", "rebuilding", "idle", "folder", "messages", "meta",
                             "index", "remove", "forget"}]
      /\ cur' \in [Syncers -> Opt(Read)]
      /\ \A t \in Syncers : /\ pc'[t] = IF t = s THEN step ELSE pc[t]
                            /\ cur'[t] = IF t = s THEN hand ELSE cur[t]
  BY DEF TypeOK
<1>3. \A t \in Syncers : cur'[t] # None <=> pc'[t] \in {"meta", "index", "remove", "forget"}
  BY <1>2 DEF TypeOK
<1>4. TypeOK'
  BY <1>1, <1>2, <1>3 DEF TypeOK
<1>5. InHand'
  BY <1>1, <1>2 DEF InHand
<1>6. Homed'
  BY DEF Homed
<1> QED
  BY <1>4, <1>5, <1>6

LEMMA PullShape ==
  ASSUME Shape, NEW s \in Syncers, NEW F \in SUBSET Folders, Pull(s, F),
         listed' \subseteq Folders, moves' \in 0..MaxMoves
  PROVE  Shape'
<1>1. PICK q \in InOrder(F, ListOrder) : queue' = [queue EXCEPT ![s] = q]
  BY DEF Pull
<1>2. q \in Seq(Folders)
  BY InOrderHasAll
<1>3. queue' \in [Syncers -> Seq(Folders)] /\ \A t \in Syncers : t # s => queue'[t] = queue[t]
  BY <1>1, <1>2 DEF Shape, TypeOK
<1>4. cur[s] = None /\ cur' = [cur EXCEPT ![s] = None] /\ None \in Opt(Read)
  BY DEF Pull, Shape, TypeOK, Opt
<1>5. /\ UNCHANGED <<server, rebuild>> /\ pc' = [pc EXCEPT ![s] = "folder"]
      /\ todo' = todo /\ opened' = opened /\ dirs' = dirs /\ manifests' = manifests
      /\ emls' = emls /\ metas' = metas /\ rows' = rows /\ alone' \in BOOLEAN
      /\ inStep' \in BOOLEAN
  BY DEF Pull, tree, Shape, TypeOK
<1>6. /\ todo' \in [Syncers -> [fetch : SUBSET Messages, remove : SUBSET Messages]]
      /\ emls' \in [Folders -> [Messages -> Opt(0..MaxTime)]]
      /\ metas' \in [Folders -> [Messages -> Opt(Versions)]]
      /\ manifests' \subseteq dirs' /\ dirs' \subseteq Folders
      /\ rows' \in [Messages -> Opt(RowState)] /\ opened' \subseteq Syncers
      /\ \A f \in Folders, m \in Messages : HasFile(f, m)' => f \in dirs'
  BY <1>5 DEF Shape, TypeOK, Homed, HasFile
<1> QED
  BY <1>3, <1>4, <1>5, <1>6, SyncShape

LEMMA PullStartShape ==
  ASSUME Shape, PullStart \/ ToolSync
  PROVE  Shape'
<1>1. moves' \in 0..MaxMoves
  BY UpsetMoves DEF PullStart, ToolSync, AllKinds, Shape
<1>2. CASE PullStart
  BY <1>1, <1>2, PullShape DEF PullStart, Present, Syncers
<1>3. CASE ToolSync
  <2>1. PICK F \in SUBSET Present \ {{}} : Pull("tool", F)
    BY <1>3 DEF ToolSync
  <2>2. F \in SUBSET Folders /\ listed' \subseteq Folders
    BY <1>3 DEF ToolSync, Present, Shape, TypeOK
  <2> QED
    BY <1>1, <2>1, <2>2, PullShape DEF Syncers
<1> QED
  BY <1>2, <1>3

LEMMA SyncFolderShape ==
  ASSUME Shape, NEW s \in Syncers, SyncFolder(s)
  PROVE  Shape'
<1>1. moves' \in 0..MaxMoves /\ opened' \subseteq Syncers
  BY UpsetMoves DEF SyncFolder, AllKinds, Shape, TypeOK
<1>2. todo' \in [Syncers -> [fetch : SUBSET Messages, remove : SUBSET Messages]]
  <2> DEFINE f == Head(queue[s])
             t == [fetch |-> {m \in Messages : Here(f, m) /\ metas[f][m] # mailbox[f][m]},
                   remove |-> {m \in Messages : metas[f][m] # None /\ ~Here(f, m)}]
  <2>1. t \in [fetch : SUBSET Messages, remove : SUBSET Messages]
    OBVIOUS
  <2>2. todo' = [todo EXCEPT ![s] = t]
    BY DEF SyncFolder
  <2> HIDE DEF t
  <2> QED
    BY <2>1, <2>2 DEF Shape, TypeOK
<1>3. cur[s] = None /\ cur' = [cur EXCEPT ![s] = None] /\ None \in Opt(Read)
  BY DEF SyncFolder, Shape, TypeOK, Opt
<1>4. /\ UNCHANGED <<server, rebuild>> /\ pc' = [pc EXCEPT ![s] = "messages"]
      /\ queue' = queue /\ queue'[s] # <<>> /\ dirs' = dirs /\ manifests' = manifests
      /\ emls' = emls /\ metas' = metas /\ rows' = rows /\ alone' = alone
      /\ inStep' = inStep /\ listed' = listed
  BY DEF SyncFolder, tree, Rest
<1>5. /\ queue' \in [Syncers -> Seq(Folders)]
      /\ emls' \in [Folders -> [Messages -> Opt(0..MaxTime)]]
      /\ metas' \in [Folders -> [Messages -> Opt(Versions)]]
      /\ manifests' \subseteq dirs' /\ dirs' \subseteq Folders /\ listed' \subseteq Folders
      /\ rows' \in [Messages -> Opt(RowState)] /\ alone' \in BOOLEAN /\ inStep' \in BOOLEAN
      /\ \A f \in Folders, m \in Messages : HasFile(f, m)' => f \in dirs'
  BY <1>4 DEF Shape, TypeOK, Homed, HasFile
<1> QED
  BY <1>1, <1>2, <1>3, <1>4, <1>5, SyncShape

LEMMA FetchShape ==
  ASSUME Shape, NEW s \in Syncers, NEW m \in Messages, Fetch(s, m)
  PROVE  Shape'
<1> DEFINE f == Head(queue[s])
           hand == [id |-> m, ver |-> mailbox[f][m]]
<1>1. queue[s] # <<>> /\ f \in Folders
  BY FolderInHand DEF Fetch, Shape, InHand
<1>2. hand \in Opt(Read) /\ hand # None
  <2>1. hand \in Read
    BY <1>1 DEF Fetch, Here, Shape, TypeOK, Opt, Read
  <2> QED
    BY <2>1, MailIndexAssumption DEF Opt
<1>3. todo' \in [Syncers -> [fetch : SUBSET Messages, remove : SUBSET Messages]]
  BY DEF Fetch, Shape, TypeOK
<1>4. /\ UNCHANGED <<server, rebuild>> /\ pc' = [pc EXCEPT ![s] = "meta"]
      /\ cur' = [cur EXCEPT ![s] = hand] /\ emls' = [emls EXCEPT ![f][m] = now]
      /\ queue' = queue /\ dirs' = dirs \cup {f} /\ manifests' = manifests
      /\ metas' = metas /\ rows' = rows /\ alone' = alone /\ opened' = opened
      /\ inStep' = inStep /\ listed' = listed /\ moves' = moves
  BY DEF Fetch, Rest
<1> HIDE DEF hand, f
<1>5. /\ emls' \in [Folders -> [Messages -> Opt(0..MaxTime)]]
      /\ \A g \in Folders, n \in Messages : HasFile(g, n)' => HasFile(g, n) \/ g = f
  BY <1>1, <1>4 DEF Shape, TypeOK, Opt, HasFile
<1>6. /\ queue' \in [Syncers -> Seq(Folders)]
      /\ metas' \in [Folders -> [Messages -> Opt(Versions)]]
      /\ manifests' \subseteq dirs' /\ dirs' \subseteq Folders /\ listed' \subseteq Folders
      /\ rows' \in [Messages -> Opt(RowState)] /\ alone' \in BOOLEAN /\ inStep' \in BOOLEAN
      /\ opened' \subseteq Syncers /\ moves' \in 0..MaxMoves
  BY <1>1, <1>4 DEF Shape, TypeOK
<1>7. \A g \in Folders, n \in Messages : HasFile(g, n)' => g \in dirs'
  BY <1>4, <1>5 DEF Shape, Homed
<1> QED
  BY <1>1, <1>2, <1>3, <1>4, <1>5, <1>6, <1>7, SyncShape

\* The message in hand.
LEMMA MessageInHand ==
  ASSUME Shape, NEW s \in Syncers, pc[s] \in {"meta", "index", "remove", "forget"}
  PROVE  /\ queue[s] # <<>> /\ Head(queue[s]) \in Folders
         /\ cur[s].id \in Messages /\ cur[s].ver \in Versions
<1>1. queue[s] # <<>> /\ Head(queue[s]) \in Folders
  BY FolderInHand DEF Shape, InHand
<1>2. cur[s] \in Read
  BY DEF Shape, TypeOK, Opt
<1> QED
  BY <1>1, <1>2 DEF Read

LEMMA WriteMetaShape ==
  ASSUME Shape, NEW s \in Syncers, WriteMeta(s)
  PROVE  Shape'
<1> DEFINE f == Head(queue[s])
<1>1. queue[s] # <<>> /\ f \in Folders /\ cur[s].id \in Messages /\ cur[s].ver \in Versions
  BY MessageInHand DEF WriteMeta
<1>2. /\ UNCHANGED <<server, rebuild>> /\ pc' = [pc EXCEPT ![s] = "index"]
      /\ cur' = cur /\ metas' = [metas EXCEPT ![f][cur[s].id] = cur[s].ver]
      /\ queue' = queue /\ dirs' = dirs \cup {f} /\ manifests' = manifests /\ todo' = todo
      /\ emls' = emls /\ rows' = rows /\ alone' = alone /\ opened' = opened
      /\ inStep' = inStep /\ listed' = listed /\ moves' = moves
  BY DEF WriteMeta, Rest
<1>3. cur[s] \in Opt(Read) /\ cur[s] # None /\ cur' = [cur EXCEPT ![s] = cur[s]]
  BY <1>2 DEF WriteMeta, Shape, TypeOK
<1> HIDE DEF f
<1>4. metas' \in [Folders -> [Messages -> Opt(Versions)]]
  BY <1>1, <1>2 DEF Shape, TypeOK, Opt
<1>5. /\ queue' \in [Syncers -> Seq(Folders)]
      /\ todo' \in [Syncers -> [fetch : SUBSET Messages, remove : SUBSET Messages]]
      /\ emls' \in [Folders -> [Messages -> Opt(0..MaxTime)]]
      /\ manifests' \subseteq dirs' /\ dirs' \subseteq Folders /\ listed' \subseteq Folders
      /\ rows' \in [Messages -> Opt(RowState)] /\ alone' \in BOOLEAN /\ inStep' \in BOOLEAN
      /\ opened' \subseteq Syncers /\ moves' \in 0..MaxMoves
  BY <1>1, <1>2 DEF Shape, TypeOK
<1>6. \A g \in Folders, n \in Messages : HasFile(g, n)' => g \in dirs'
  BY <1>2 DEF Shape, Homed, HasFile
<1> QED
  BY <1>1, <1>2, <1>3, <1>4, <1>5, <1>6, SyncShape

LEMMA IndexShape ==
  ASSUME Shape, NEW s \in Syncers, Index(s)
  PROVE  Shape'
<1> DEFINE r == [rows EXCEPT ![cur[s].id] = Row(Head(queue[s]), cur[s].ver)]
<1>1. /\ queue[s] # <<>> /\ Head(queue[s]) \in Folders
      /\ cur[s].id \in Messages /\ cur[s].ver \in Versions
  BY MessageInHand DEF Index
<1>2. r \in [Messages -> Opt(RowState)]
  <2>1. Row(Head(queue[s]), cur[s].ver) \in RowState
    BY <1>1, RowType DEF Shape
  <2> QED
    BY <1>1, <2>1 DEF Shape, TypeOK, Opt
<1>3. WriteRows(s, r)
  BY DEF Index
<1> HIDE DEF r
<1>4. rows' \in [Messages -> Opt(RowState)] /\ inStep' \in BOOLEAN /\ moves' \in 0..MaxMoves
  BY <1>2, <1>3, WriteType DEF Shape
<1>5. /\ UNCHANGED <<server, rebuild>> /\ pc' = [pc EXCEPT ![s] = "messages"]
      /\ cur' = [cur EXCEPT ![s] = None] /\ None \in Opt(Read)
      /\ queue' = queue /\ dirs' = dirs /\ manifests' = manifests /\ todo' = todo
      /\ emls' = emls /\ metas' = metas /\ alone' = alone /\ opened' = opened
      /\ listed' = listed
  BY DEF Index, Rest, tree, Opt
<1>6. /\ queue' \in [Syncers -> Seq(Folders)]
      /\ todo' \in [Syncers -> [fetch : SUBSET Messages, remove : SUBSET Messages]]
      /\ emls' \in [Folders -> [Messages -> Opt(0..MaxTime)]]
      /\ metas' \in [Folders -> [Messages -> Opt(Versions)]]
      /\ manifests' \subseteq dirs' /\ dirs' \subseteq Folders /\ listed' \subseteq Folders
      /\ alone' \in BOOLEAN /\ opened' \subseteq Syncers
      /\ \A g \in Folders, n \in Messages : HasFile(g, n)' => g \in dirs'
  BY <1>5 DEF Shape, TypeOK, Homed, HasFile
<1> QED
  BY <1>1, <1>4, <1>5, <1>6, SyncShape

LEMMA UnindexShape ==
  ASSUME Shape, NEW s \in Syncers, NEW m \in Messages, Unindex(s, m)
  PROVE  Shape'
<1> DEFINE r == [rows EXCEPT ![m] = None]
           hand == [id |-> m, ver |-> 0]
<1>1. r \in [Messages -> Opt(RowState)]
  BY DEF Shape, TypeOK, Opt
<1>2. WriteRows(s, r)
  BY DEF Unindex, Removal
<1> HIDE DEF r
<1>3. rows' \in [Messages -> Opt(RowState)] /\ inStep' \in BOOLEAN /\ moves' \in 0..MaxMoves
  BY <1>1, <1>2, WriteType DEF Shape
<1>4. hand \in Opt(Read) /\ hand # None
  <2>1. hand \in Read
    BY MailIndexAssumption DEF Read, Versions
  <2> QED
    BY <2>1, MailIndexAssumption DEF Opt
<1>5. /\ UNCHANGED <<server, rebuild>> /\ pc' = [pc EXCEPT ![s] = "remove"]
      /\ cur' = [cur EXCEPT ![s] = hand] /\ todo' = [todo EXCEPT ![s].remove = @ \ {m}]
      /\ queue' = queue /\ dirs' = dirs /\ manifests' = manifests
      /\ emls' = emls /\ metas' = metas /\ alone' = alone /\ opened' = opened
      /\ listed' = listed /\ queue[s] # <<>>
  BY DEF Unindex, Removal, Rest, tree, Shape, InHand
<1> HIDE DEF hand
<1>6. /\ queue' \in [Syncers -> Seq(Folders)]
      /\ emls' \in [Folders -> [Messages -> Opt(0..MaxTime)]]
      /\ metas' \in [Folders -> [Messages -> Opt(Versions)]]
      /\ manifests' \subseteq dirs' /\ dirs' \subseteq Folders /\ listed' \subseteq Folders
      /\ alone' \in BOOLEAN /\ opened' \subseteq Syncers
      /\ \A g \in Folders, n \in Messages : HasFile(g, n)' => g \in dirs'
  BY <1>5 DEF Shape, TypeOK, Homed, HasFile
<1>7. todo' \in [Syncers -> [fetch : SUBSET Messages, remove : SUBSET Messages]]
  BY <1>5 DEF Shape, TypeOK
<1> QED
  BY <1>3, <1>4, <1>5, <1>6, <1>7, SyncShape

LEMMA RemoveShape ==
  ASSUME Shape, NEW s \in Syncers, RemoveEml(s) \/ RemoveMeta(s)
  PROVE  Shape'
<1> DEFINE f == Head(queue[s])
<1>1. queue[s] # <<>> /\ f \in Folders /\ cur[s].id \in Messages
  BY MessageInHand DEF RemoveEml, RemoveMeta
<1>2. /\ UNCHANGED <<server, rebuild>>
      /\ queue' = queue /\ dirs' = dirs /\ manifests' = manifests /\ todo' = todo
      /\ rows' = rows /\ alone' = alone /\ opened' = opened
      /\ inStep' = inStep /\ listed' = listed /\ moves' = moves
  BY DEF RemoveEml, RemoveMeta, Rest
<1>3. /\ queue' \in [Syncers -> Seq(Folders)]
      /\ todo' \in [Syncers -> [fetch : SUBSET Messages, remove : SUBSET Messages]]
      /\ manifests' \subseteq dirs' /\ dirs' \subseteq Folders /\ listed' \subseteq Folders
      /\ rows' \in [Messages -> Opt(RowState)] /\ alone' \in BOOLEAN /\ inStep' \in BOOLEAN
      /\ opened' \subseteq Syncers /\ moves' \in 0..MaxMoves
  BY <1>2 DEF Shape, TypeOK
<1>4. CASE RemoveEml(s)
  <2>1. /\ pc' = [pc EXCEPT ![s] = "forget"] /\ metas' = metas
        /\ emls' = [emls EXCEPT ![f][cur[s].id] = None]
        /\ cur' = [cur EXCEPT ![s] = cur[s]] /\ cur[s] \in Opt(Read) /\ cur[s] # None
    BY <1>4 DEF RemoveEml, Shape, TypeOK
  <2>2. /\ emls' \in [Folders -> [Messages -> Opt(0..MaxTime)]]
        /\ metas' \in [Folders -> [Messages -> Opt(Versions)]]
        /\ \A g \in Folders, n \in Messages : HasFile(g, n)' => g \in dirs'
    BY <1>1, <1>2, <2>1 DEF Shape, TypeOK, Homed, HasFile, Opt
  <2> QED
    BY <1>1, <1>2, <1>3, <2>1, <2>2, SyncShape
<1>5. CASE RemoveMeta(s)
  <2>1. /\ pc' = [pc EXCEPT ![s] = "messages"] /\ emls' = emls
        /\ metas' = [metas EXCEPT ![f][cur[s].id] = None]
        /\ cur' = [cur EXCEPT ![s] = None] /\ None \in Opt(Read)
    BY <1>5 DEF RemoveMeta, Opt
  <2>2. /\ emls' \in [Folders -> [Messages -> Opt(0..MaxTime)]]
        /\ metas' \in [Folders -> [Messages -> Opt(Versions)]]
        /\ \A g \in Folders, n \in Messages : HasFile(g, n)' => g \in dirs'
    BY <1>1, <1>2, <2>1 DEF Shape, TypeOK, Homed, HasFile, Opt
  <2> QED
    BY <1>1, <1>2, <1>3, <2>1, <2>2, SyncShape
<1> QED
  BY <1>4, <1>5

LEMMA FolderDoneShape ==
  ASSUME Shape, NEW s \in Syncers, FolderDone(s)
  PROVE  Shape'
<1> DEFINE f == Head(queue[s])
           step == IF s = "tool" /\ Tail(queue[s]) = <<>> THEN "idle" ELSE "folder"
<1>1. f \in Folders /\ Tail(queue[s]) \in Seq(Folders)
  BY FolderInHand DEF FolderDone, Shape, InHand
<1>2. /\ UNCHANGED <<server, rebuild>> /\ pc' = [pc EXCEPT ![s] = step]
      /\ queue' = [queue EXCEPT ![s] = Tail(queue[s])]
      /\ manifests' = manifests \cup {f} /\ dirs' = dirs \cup {f}
      /\ emls' = emls /\ metas' = metas /\ rows' = rows /\ todo' = todo
      /\ opened' = opened \cup {s} /\ alone' = alone /\ inStep' = inStep
      /\ listed' = listed /\ moves' = moves
  BY DEF FolderDone, Rest
<1>3. step \in {"idle", "folder"}
  OBVIOUS
<1>4. cur[s] = None /\ cur' = [cur EXCEPT ![s] = None] /\ None \in Opt(Read)
  BY DEF FolderDone, Shape, TypeOK, Opt
<1> HIDE DEF step, f
<1>5. /\ queue' \in [Syncers -> Seq(Folders)]
      /\ \A t \in Syncers : t # s => queue'[t] = queue[t]
  BY <1>1, <1>2 DEF Shape, TypeOK
<1>6. /\ todo' \in [Syncers -> [fetch : SUBSET Messages, remove : SUBSET Messages]]
      /\ emls' \in [Folders -> [Messages -> Opt(0..MaxTime)]]
      /\ metas' \in [Folders -> [Messages -> Opt(Versions)]]
      /\ manifests' \subseteq dirs' /\ dirs' \subseteq Folders /\ listed' \subseteq Folders
      /\ rows' \in [Messages -> Opt(RowState)] /\ alone' \in BOOLEAN /\ inStep' \in BOOLEAN
      /\ opened' \subseteq Syncers /\ moves' \in 0..MaxMoves
      /\ \A g \in Folders, n \in Messages : HasFile(g, n)' => g \in dirs'
  BY <1>1, <1>2 DEF Shape, TypeOK, Homed, HasFile
<1> QED
  BY <1>2, <1>3, <1>4, <1>5, <1>6, SyncShape

LEMMA CleanupShape ==
  ASSUME Shape, Cleanup
  PROVE  Shape'
<1>1. /\ UNCHANGED <<server, rebuild>> /\ pc' = [pc EXCEPT !["puller"] = "idle"]
      /\ dirs' = dirs \ Stale /\ manifests' = manifests \ Stale
      /\ emls' = [f \in Folders |-> IF f \in Stale THEN Nothing ELSE emls[f]]
      /\ metas' = [f \in Folders |-> IF f \in Stale THEN Nothing ELSE metas[f]]
      /\ listed' = {} /\ queue' = queue /\ todo' = todo /\ opened' = opened
      /\ alone' = alone
  BY DEF Cleanup, Rest
<1>2. /\ "puller" \in Syncers /\ cur["puller"] = None
      /\ cur' = [cur EXCEPT !["puller"] = None] /\ None \in Opt(Read)
  BY DEF Cleanup, Shape, TypeOK, Opt, Syncers
<1>3. /\ emls' \in [Folders -> [Messages -> Opt(0..MaxTime)]]
      /\ metas' \in [Folders -> [Messages -> Opt(Versions)]]
      /\ \A g \in Folders, n \in Messages : HasFile(g, n)' => g \in dirs'
  <2>1. Nothing \in [Messages -> Opt(0..MaxTime)] /\ Nothing \in [Messages -> Opt(Versions)]
        /\ \A m \in Messages : Nothing[m] = None
    BY DEF Nothing, Opt
  <2> QED
    BY <1>1, <2>1 DEF Shape, TypeOK, Homed, HasFile
<1>4. rows' \in [Messages -> Opt(RowState)] /\ inStep' \in BOOLEAN /\ moves' \in 0..MaxMoves
  BY UpsetMoves DEF Cleanup, Shape, TypeOK, Opt, AllKinds
<1>5. /\ queue' \in [Syncers -> Seq(Folders)]
      /\ todo' \in [Syncers -> [fetch : SUBSET Messages, remove : SUBSET Messages]]
      /\ manifests' \subseteq dirs' /\ dirs' \subseteq Folders /\ listed' \subseteq Folders
      /\ alone' \in BOOLEAN /\ opened' \subseteq Syncers
  BY <1>1 DEF Shape, TypeOK
<1> QED
  BY <1>1, <1>2, <1>3, <1>4, <1>5, SyncShape

LEMMA AbortShape ==
  ASSUME Shape, NEW s \in Syncers, Abort(s)
  PROVE  Shape'
<1>1. moves' \in 0..MaxMoves /\ inStep' \in BOOLEAN
  BY UpsetMoves DEF Abort, AllKinds, Shape, TypeOK
<1>2. /\ UNCHANGED <<server, rebuild>> /\ pc' = [pc EXCEPT ![s] = "idle"]
      /\ queue' = [queue EXCEPT ![s] = <<>>] /\ todo' = [todo EXCEPT ![s] = NoTodo]
      /\ cur' = [cur EXCEPT ![s] = None] /\ None \in Opt(Read) /\ opened' = opened \cup {s}
      /\ dirs' = dirs /\ manifests' = manifests /\ emls' = emls /\ metas' = metas
      /\ rows' = rows /\ alone' = alone
  BY DEF Abort, Rest, tree, Opt
<1>3. listed' \subseteq Folders
  BY DEF Abort, Shape, TypeOK
<1>4. <<>> \in Seq(Folders) /\ NoTodo \in [fetch : SUBSET Messages, remove : SUBSET Messages]
  BY DEF NoTodo
<1>5. /\ queue' \in [Syncers -> Seq(Folders)]
      /\ \A t \in Syncers : t # s => queue'[t] = queue[t]
      /\ todo' \in [Syncers -> [fetch : SUBSET Messages, remove : SUBSET Messages]]
  BY <1>2, <1>4 DEF Shape, TypeOK
<1>6. /\ emls' \in [Folders -> [Messages -> Opt(0..MaxTime)]]
      /\ metas' \in [Folders -> [Messages -> Opt(Versions)]]
      /\ manifests' \subseteq dirs' /\ dirs' \subseteq Folders
      /\ rows' \in [Messages -> Opt(RowState)] /\ alone' \in BOOLEAN
      /\ opened' \subseteq Syncers
      /\ \A g \in Folders, n \in Messages : HasFile(g, n)' => g \in dirs'
  BY <1>2 DEF Shape, TypeOK, Homed, HasFile
<1> QED
  BY <1>1, <1>2, <1>3, <1>5, <1>6, SyncShape

-----------------------------------------------------------------------------
(* The rebuild                                                             *)

\* What the start of a rebuild leaves and makes.
LEMMA BeginMeans ==
  ASSUME TypeOK, NEW f \in BOOLEAN, Begin(f)
  PROVE  /\ rpc = "idle" /\ rpc' = "walk" /\ force' = f /\ seen' = {} /\ errors' = {}
         /\ dirsLeft' \in Seq(Folders) /\ Range(dirsLeft') = dirs
         /\ rows' \in [Messages -> Opt(RowState)]
         /\ \A m \in Messages : rows'[m] = IF f THEN None ELSE rows[m]
         /\ known' \in [Messages -> Opt(0..MaxTime)]
         /\ \A m \in Messages : known'[m] # None => rows'[m] # None
         /\ mailbox' = mailbox /\ now' = now /\ dirs' = dirs /\ manifests' = manifests
         /\ emls' = emls /\ metas' = metas /\ walk' = walk /\ got' = got /\ held' = held
<1>1. dirsLeft' \in Seq(Folders) /\ Range(dirsLeft') = dirs
  BY InOrderHasAll DEF Begin, TypeOK
<1>2. /\ rows' \in [Messages -> Opt(RowState)]
      /\ \A m \in Messages : rows'[m] = IF f THEN None ELSE rows[m]
  BY DEF Begin, TypeOK, Nothing, Opt
<1>3. \A m \in Messages :
        (IF f \/ rows[m] = None THEN None ELSE rows[m].indexed) \in Opt(0..MaxTime)
  BY DEF TypeOK, Opt, RowState
<1>4. known' = [m \in Messages |->
                  IF f \/ rows[m] = None THEN None ELSE rows[m].indexed]
  BY DEF Begin
<1>5. known' \in [Messages -> Opt(0..MaxTime)]
  BY <1>3, <1>4
<1>6. \A m \in Messages : known'[m] # None => rows'[m] # None
  BY <1>2, <1>4
<1> QED
  BY <1>1, <1>2, <1>5, <1>6 DEF Begin, server, tree

\* The daemon may step on while a rebuild begins or ends.
LEMMA DaemonShape ==
  ASSUME Shape, pc' = pc \/ \E step \in {"idle", "rebuilding"} : pc' = [pc EXCEPT !["puller"] = step],
         pc' # pc => pc["puller"] \in {"starting", "rebuilding"},
         listed' = listed, queue' = queue, todo' = todo, cur' = cur, opened' = opened
  PROVE  /\ pc' \in [Syncers -> {"starting", "rebuilding", "idle", "folder", "messages",
                                 "meta", "index", "remove", "forget"}]
         /\ \A s \in Syncers :
              cur'[s] # None <=> pc'[s] \in {"meta", "index", "remove", "forget"}
         /\ \A s \in Syncers :
              pc'[s] \in {"messages", "meta", "index", "remove", "forget"} => queue'[s] # <<>>
<1>1. CASE pc' = pc
  BY <1>1 DEF Shape, TypeOK, InHand
<1>2. ASSUME pc' # pc, NEW step \in {"idle", "rebuilding"}, pc' = [pc EXCEPT !["puller"] = step]
      PROVE  /\ pc' \in [Syncers -> {"starting", "rebuilding", "idle", "folder", "messages",
                                     "meta", "index", "remove", "forget"}]
             /\ \A s \in Syncers : /\ pc'[s] = pc[s] \/ (s = "puller" /\ pc'[s] = step)
                                   /\ s = "puller" => cur[s] = None
  BY <1>2 DEF Shape, TypeOK
<1> QED
  BY <1>1, <1>2 DEF Shape, TypeOK, InHand

LEMMA CommandShape ==
  ASSUME Shape, Command
  PROVE  Shape'
<1> USE DEF Shape
<1>1. PICK f \in BOOLEAN : Begin(f)
  BY DEF Command
<1>2. moves' \in 0..MaxMoves
  BY UpsetMoves DEF Command, AllKinds
<1>3. /\ alone' \in BOOLEAN /\ inStep' \in BOOLEAN
      /\ pc' = pc /\ listed' = listed /\ queue' = queue /\ todo' = todo
      /\ cur' = cur /\ opened' = opened
  BY DEF Command, Quiet, syncers, TypeOK
<1>4. TypeOK'
  BY <1>1, <1>2, <1>3, BeginMeans DEF TypeOK
<1>5. InHand' /\ Homed'
  BY <1>1, <1>3, BeginMeans DEF InHand, Homed, HasFile
<1> QED
  BY <1>4, <1>5

LEMMA StartShape ==
  ASSUME Shape, Start
  PROVE  Shape'
<1> USE DEF Shape
<1>1. /\ listed' = listed /\ queue' = queue /\ todo' = todo /\ cur' = cur /\ opened' = opened
      /\ inStep' = inStep /\ moves' \in 0..MaxMoves /\ pc["puller"] = "starting"
  BY UpsetMoves DEF Start, AllKinds
<1>2. CASE Begin(FALSE) /\ pc' = [pc EXCEPT !["puller"] = "rebuilding"] /\ alone' = TRUE
  <2>1. /\ pc' \in [Syncers -> {"starting", "rebuilding", "idle", "folder", "messages",
                                 "meta", "index", "remove", "forget"}]
        /\ \A s \in Syncers :
             cur'[s] # None <=> pc'[s] \in {"meta", "index", "remove", "forget"}
        /\ \A s \in Syncers :
             pc'[s] \in {"messages", "meta", "index", "remove", "forget"} => queue'[s] # <<>>
    BY <1>1, <1>2, DaemonShape
  <2>2. TypeOK'
    BY <1>1, <1>2, <2>1, BeginMeans DEF TypeOK
  <2>3. InHand' /\ Homed'
    BY <1>1, <1>2, <2>1, BeginMeans DEF InHand, Homed, HasFile
  <2> QED
    BY <2>2, <2>3
<1>3. CASE pc' = [pc EXCEPT !["puller"] = "idle"] /\ UNCHANGED <<server, tree, rows, rebuild, alone>>
  <2>1. /\ pc' \in [Syncers -> {"starting", "rebuilding", "idle", "folder", "messages",
                                 "meta", "index", "remove", "forget"}]
        /\ \A s \in Syncers :
             cur'[s] # None <=> pc'[s] \in {"meta", "index", "remove", "forget"}
        /\ \A s \in Syncers :
             pc'[s] \in {"messages", "meta", "index", "remove", "forget"} => queue'[s] # <<>>
    BY <1>1, <1>3, DaemonShape
  <2>2. TypeOK'
    BY <1>1, <1>3, <2>1 DEF TypeOK, server, tree, rebuild
  <2>3. InHand' /\ Homed'
    BY <1>1, <1>3, <2>1 DEF InHand, Homed, HasFile, tree, rebuild
  <2> QED
    BY <2>2, <2>3
<1> QED
  BY <1>2, <1>3 DEF Start

\* What a step of the walk leaves alone.
LEMMA WalkLeaves ==
  ASSUME Walk
  PROVE  /\ mailbox' = mailbox /\ now' = now /\ dirs' = dirs /\ manifests' = manifests
         /\ emls' = emls /\ metas' = metas
         /\ pc' = pc /\ listed' = listed /\ queue' = queue /\ todo' = todo
         /\ cur' = cur /\ opened' = opened
         /\ alone' = alone /\ inStep' = inStep
         /\ force' = force /\ known' = known /\ rpc # "idle" /\ rpc' # "idle"
BY DEF Walk, server, tree, syncers, EnterFolder, Take, TakeOne, Refused, Upsert, LeaveFolder

\* A file is skipped, refused, or read.
LEMMA TakeMeans ==
  ASSUME NEW m \in Messages, Take(m)
  PROVE  /\ rpc = "folder" /\ m \in walk /\ walk' = walk \ {m} /\ seen' = seen \cup {m}
         /\ rows' = rows /\ force' = force /\ known' = known /\ dirsLeft' = dirsLeft
         /\ held' = held
         /\ \/ Current(m) /\ rpc' = rpc /\ got' = got /\ errors' = errors /\ moves' = moves
            \/ /\ errors' = errors \cup {<<Head(dirsLeft), m>>} /\ rpc' = rpc /\ got' = got
               /\ moves' = moves \/ Upset("unreadable")
            \/ /\ emls[Head(dirsLeft)][m] # None /\ metas[Head(dirsLeft)][m] # None
               /\ got' = [id |-> m, ver |-> metas[Head(dirsLeft)][m]]
               /\ rpc' = "got" /\ errors' = errors /\ moves' = moves
BY DEF Take, TakeOne, Refused

LEMMA WalkShape ==
  ASSUME Shape, Walk
  PROVE  Shape'
<1> USE DEF Shape
<1> DEFINE Typed ==
             /\ rpc' \in {"walk", "folder", "got"}
             /\ rows' \in [Messages -> Opt(RowState)]
             /\ dirsLeft' \in Seq(Folders) /\ seen' \subseteq Messages /\ walk' \subseteq Messages
             /\ errors' \subseteq Folders \X Messages
             /\ got' \in Opt(Read) /\ (got' # None <=> rpc' = "got")
             /\ held' \in BOOLEAN /\ (held' => rpc' \in {"folder", "got"})
             /\ (rpc' \in {"folder", "got"} => dirsLeft' # <<>>)
             /\ moves' \in 0..MaxMoves
<1> DEFINE f == Head(dirsLeft)
<1>1. Typed
  <2>1. CASE EnterFolder
    <3>1. f \in Folders /\ Tail(dirsLeft) \in Seq(Folders)
      BY <2>1, HeadAndRest DEF EnterFolder, TypeOK
    <3>2. moves' \in 0..MaxMoves
      BY <2>1, UpsetMoves DEF EnterFolder, AllKinds
    <3>3. errors' \subseteq Folders \X Messages
      BY <2>1, <3>1 DEF EnterFolder, TypeOK
    <3> QED
      BY <2>1, <3>1, <3>2, <3>3 DEF EnterFolder, TypeOK, InHand
  <2>2. ASSUME NEW m \in Messages, Take(m) PROVE Typed
    <3> DEFINE read == [id |-> m, ver |-> metas[f][m]]
    <3>1. f \in Folders /\ dirsLeft # <<>>
      BY <2>2, HeadAndRest, TakeMeans DEF TypeOK, InHand
    <3>2. metas[f][m] # None => read \in Read /\ read # None
      BY <3>1, MailIndexAssumption DEF TypeOK, Opt, Read
    <3>3. moves' \in 0..MaxMoves
      BY <2>2, TakeMeans, UpsetMoves DEF AllKinds
    <3>4. errors' \subseteq Folders \X Messages
      BY <2>2, <3>1, TakeMeans DEF TypeOK
    <3>5. /\ rpc' \in {"folder", "got"} /\ got' \in Opt(Read) /\ (got' # None <=> rpc' = "got")
      <4>1. CASE rpc' = rpc /\ got' = got
        BY <2>2, <4>1, TakeMeans DEF TypeOK
      <4>2. CASE rpc' = "got" /\ got' = read /\ metas[f][m] # None
        <5> HIDE DEF read
        <5> QED
          BY <3>2, <4>2 DEF Opt
      <4> QED
        BY <2>2, <4>1, <4>2, TakeMeans
    <3> QED
      BY <2>2, <3>1, <3>3, <3>4, <3>5, TakeMeans DEF TypeOK
  <2>3. CASE Upsert
    <3>1. f \in Folders /\ dirsLeft # <<>> /\ got.id \in Messages /\ got.ver \in Versions
      BY <2>3, HeadAndRest DEF Upsert, TypeOK, InHand, Opt, Read
    <3>2. rows' \in [Messages -> Opt(RowState)]
      <4>1. Row(f, got.ver) \in RowState
        BY <3>1, RowType
      <4> QED
        BY <2>3, <3>1, <4>1 DEF Upsert, TypeOK, Opt
    <3>3. moves' \in 0..MaxMoves
      BY <2>3, UpsetMoves DEF Upsert, AllKinds
    <3>4. errors' \subseteq Folders \X Messages
      BY <2>3, <3>1 DEF Upsert, TypeOK
    <3> QED
      BY <2>3, <3>1, <3>2, <3>3, <3>4 DEF Upsert, TypeOK, Opt
  <2>4. CASE LeaveFolder
    BY <2>4, HeadAndRest DEF LeaveFolder, TypeOK, InHand
  <2> HIDE DEF Typed
  <2> QED
    BY <2>1, <2>2, <2>3, <2>4 DEF Walk
<1>2. TypeOK'
  BY <1>1, WalkLeaves DEF TypeOK
<1>3. InHand' /\ Homed'
  BY <1>1, WalkLeaves DEF InHand, Homed, HasFile
<1> QED
  BY <1>2, <1>3

LEMMA ResetType ==
  ASSUME RebuildEnds
  PROVE  /\ rpc' = "idle" /\ force' \in BOOLEAN /\ known' \in [Messages -> Opt(0..MaxTime)]
         /\ dirsLeft' \in Seq(Folders) /\ seen' \subseteq Messages /\ walk' \subseteq Messages
         /\ errors' \subseteq Folders \X Messages /\ got' = None /\ held' = FALSE
<1>1. Nothing \in [Messages -> Opt(0..MaxTime)]
  BY DEF Nothing, Opt
<1>2. <<>> \in Seq(Folders)
  OBVIOUS
<1> QED
  BY <1>1, <1>2 DEF RebuildEnds

LEMMA EndShape ==
  ASSUME Shape, Sweep \/ RebuildFails
  PROVE  Shape'
<1> USE DEF Shape
<1>1. RebuildEnds /\ LetGo
  BY DEF Sweep, RebuildFails
<1>2. /\ rows' \in [Messages -> Opt(RowState)] /\ inStep' \in BOOLEAN
      /\ moves' \in 0..MaxMoves
  BY UpsetMoves DEF Sweep, RebuildFails, TypeOK, Opt, AllKinds
<1>3. /\ mailbox' = mailbox /\ now' = now /\ dirs' = dirs /\ manifests' = manifests
      /\ emls' = emls /\ metas' = metas /\ alone' = alone
      /\ listed' = listed /\ queue' = queue /\ todo' = todo /\ cur' = cur
      /\ opened' = opened
      /\ pc' = [pc EXCEPT !["puller"] = IF @ = "rebuilding" THEN "idle" ELSE @]
  BY <1>1 DEF LetGo, server, tree
<1>4. CASE pc["puller"] = "rebuilding"
  <2>1. pc' = [pc EXCEPT !["puller"] = "idle"]
    BY <1>3, <1>4
  <2> QED
    BY <1>1, <1>2, <1>3, <1>4, <2>1, ResetType, DaemonShape
       DEF TypeOK, InHand, Homed, HasFile, Opt
<1>5. CASE pc["puller"] # "rebuilding"
  <2>1. pc' = pc
    BY <1>3, <1>5 DEF TypeOK
  <2> QED
    BY <1>1, <1>2, <1>3, <2>1, ResetType DEF TypeOK, InHand, Homed, HasFile, Opt
<1> QED
  BY <1>4, <1>5

LEMMA CrashShape ==
  ASSUME Shape, Crash
  PROVE  Shape'
<1> USE DEF Shape
<1>1. moves' \in 0..MaxMoves
  BY UpsetMoves DEF Crash, AllKinds
<1>2. /\ mailbox' = mailbox /\ now' = now /\ dirs' = dirs /\ manifests' = manifests
      /\ emls' = emls /\ metas' = metas /\ rows' = rows /\ alone' = alone
      /\ inStep' \in BOOLEAN /\ listed' = {} /\ queue' = Each(<<>>) /\ todo' = Each(NoTodo)
      /\ cur' = Each(None) /\ opened' = Syncers
  BY DEF Crash, server, tree, TypeOK
<1>3. /\ pc' \in [Syncers -> {"starting", "rebuilding", "idle", "folder", "messages",
                              "meta", "index", "remove", "forget"}]
      /\ \A s \in Syncers : pc'[s] \in {"starting", "idle"}
  BY DEF Crash, Each, Syncers
<1>4. <<>> \in Seq(Folders) /\ NoTodo \in [fetch : SUBSET Messages, remove : SUBSET Messages]
  BY DEF NoTodo
<1>5. /\ queue' \in [Syncers -> Seq(Folders)]
      /\ todo' \in [Syncers -> [fetch : SUBSET Messages, remove : SUBSET Messages]]
      /\ cur' \in [Syncers -> Opt(Read)] /\ \A s \in Syncers : cur'[s] = None
  BY <1>2, <1>4 DEF Each, Opt
<1>6. CASE RebuildEnds
  <2>1. TypeOK'
    BY <1>1, <1>2, <1>3, <1>5, <1>6, ResetType DEF TypeOK, Opt
  <2> QED
    BY <1>2, <1>3, <1>6, <2>1, ResetType DEF InHand, Homed, HasFile
<1>7. CASE UNCHANGED rebuild
  <2>1. TypeOK'
    BY <1>1, <1>2, <1>3, <1>5, <1>7 DEF TypeOK, rebuild
  <2> QED
    BY <1>2, <1>3, <1>7, <2>1 DEF InHand, Homed, HasFile, rebuild
<1> QED
  BY <1>6, <1>7 DEF Crash

\* A step of a sync at work.
SyncStep(s) ==
  \/ SyncFolder(s) \/ WriteMeta(s) \/ Index(s) \/ RemoveEml(s) \/ RemoveMeta(s)
  \/ FolderDone(s) \/ Abort(s)
  \/ \E m \in Messages : Fetch(s, m) \/ Unindex(s, m)

LEMMA SyncStepShape ==
  ASSUME Shape, NEW s \in Syncers, SyncStep(s)
  PROVE  Shape'
BY SyncFolderShape, FetchShape, WriteMetaShape, IndexShape, UnindexShape, RemoveShape,
   FolderDoneShape, AbortShape DEF SyncStep

LEMMA ShapeStep ==
  ASSUME Shape, [Next]_vars
  PROVE  Shape'
<1>1. CASE UNCHANGED vars
  <2>1. UNCHANGED <<server, tree, rows, syncers, rebuild, alone, inStep, moves>>
    BY <1>1 DEF vars
  <2>2. TypeOK'
    BY <2>1 DEF Shape, TypeOK, server, tree, syncers, rebuild
  <2> QED
    BY <2>1, <2>2 DEF Shape, InHand, Homed, HasFile, tree, syncers, rebuild
<1>2. ASSUME NEW s \in Syncers, SyncStep(s) PROVE Shape'
  BY <1>2, SyncStepShape
<1>3. CASE Account \/ Tick
  BY <1>3, AccountShape, TickShape
<1>4. CASE PullStart \/ ToolSync \/ Cleanup
  BY <1>4, PullStartShape, CleanupShape
<1>5. CASE Command \/ Walk \/ Sweep \/ RebuildFails \/ Start \/ Crash
  BY <1>5, CommandShape, WalkShape, EndShape, StartShape, CrashShape
<1> QED
  BY <1>1, <1>2, <1>3, <1>4, <1>5 DEF Next, SyncStep

THEOREM ShapeHolds == Spec => []Shape
<1> QED
  BY InitShape, ShapeStep, PTL DEF Spec

\* Every variable holds what the code can put there, for any folders, messages
\* and thresholds: a message is in hand only between the first and the last step
\* of its handling, and a rebuild has a transaction open only inside a folder.
THEOREM TypeCorrect == Spec => []TypeOK
<1>1. Shape => TypeOK
  BY DEF Shape
<1> QED
  BY <1>1, ShapeHolds, PTL

-----------------------------------------------------------------------------
(* A rebuild that no sync disturbs                                         *)

Undisturbed == rpc # "idle" /\ alone

\* The folders the rebuild has still to enter.
Ahead == IF rpc = "walk" THEN dirsLeft ELSE Tail(dirsLeft)
Inside == rpc \in {"folder", "got"}

\* A file that was looked at: an error, or noted and in the table, or in hand.
Handled(f, m) ==
  \/ <<f, m>> \in errors
  \/ m \in seen /\ rows[m] # None
  \/ m \in seen /\ rpc = "got" /\ got.id = m /\ f = Head(dirsLeft)

\* Every file was looked at, or is in a folder to enter, or left in this one.
Noted ==
  \A f \in Folders, m \in Messages : HasFile(f, m) =>
    \/ Handled(f, m)
    \/ f \in Range(Ahead)
    \/ Inside /\ f = Head(dirsLeft) /\ m \in walk

\* What was noted has a file, and what was known, a row.
Rowed ==
  /\ \A m \in seen : \E f \in Folders : HasFile(f, m)
  /\ Inside => \A m \in walk : HasFile(Head(dirsLeft), m)
  /\ \A m \in Messages : known[m] # None => rows[m] # None
  /\ rpc = "got" => /\ HasFile(Head(dirsLeft), got.id)
                    /\ metas[Head(dirsLeft)][got.id] = got.ver

Walks == Undisturbed => Quiet /\ Noted /\ Rowed

\* A sync at work is busy, and leaves the rebuild alone.
LEMMA SyncLeaves ==
  ASSUME NEW s \in Syncers, SyncStep(s)
  PROVE  /\ Busy(s) /\ \A t \in Syncers : t # s => pc'[t] = pc[t]
         /\ rpc' = rpc /\ force' = force /\ alone' = alone
<1>1. Busy(s) /\ rebuild' = rebuild /\ alone' = alone /\ \E step : pc' = [pc EXCEPT ![s] = step]
  BY DEF SyncStep, SyncFolder, Fetch, WriteMeta, Index, Unindex, Removal, RemoveEml,
         RemoveMeta, FolderDone, Abort, Rest, Busy
<1> QED
  BY <1>1 DEF rebuild

LEMMA CleanupLeaves ==
  ASSUME Cleanup
  PROVE  Busy("puller") /\ "puller" \in Syncers
         /\ rpc' = rpc /\ force' = force /\ alone' = alone
BY DEF Cleanup, Busy, Rest, rebuild, Syncers

\* Nothing that a rebuild reads or writes moves.
LEMMA WalksAlike ==
  ASSUME Walks, Quiet => Quiet',
         emls' = emls, metas' = metas, rows' = rows, rebuild' = rebuild, alone' = alone
  PROVE  Walks'
<1>1. /\ rpc' = rpc /\ known' = known /\ dirsLeft' = dirsLeft
      /\ walk' = walk /\ seen' = seen /\ errors' = errors /\ got' = got
  BY DEF rebuild
<1> QED
  BY <1>1 DEF Walks, Undisturbed, Noted, Rowed, Handled, Ahead, Inside, HasFile

LEMMA BeginWalks ==
  ASSUME Shape, NEW f \in BOOLEAN, Begin(f), alone' => Quiet'
  PROVE  Walks'
<1>1. rpc' = "walk" /\ seen' = {} /\ \A m \in Messages : known'[m] # None => rows'[m] # None
  BY BeginMeans DEF Shape
<1>2. \A g \in Folders, m \in Messages : HasFile(g, m)' => g \in Range(Ahead')
  BY <1>1, BeginMeans DEF Shape, Homed, HasFile, Ahead
<1> QED
  BY <1>1, <1>2 DEF Walks, Undisturbed, Noted, Rowed, Inside

LEMMA WalkWalks ==
  ASSUME Shape, Walks, Walk
  PROVE  Walks'
<1> SUFFICES ASSUME Undisturbed' PROVE (Quiet /\ Noted /\ Rowed)'
  BY DEF Walks
<1>1. /\ emls' = emls /\ metas' = metas /\ pc' = pc /\ alone' = alone /\ known' = known
      /\ rpc # "idle"
  BY WalkLeaves
<1>2. Quiet /\ Noted /\ Rowed
  BY <1>1 DEF Walks, Undisturbed
<1>3. dirsLeft # <<>> /\ dirsLeft \in Seq(Folders)
  BY DEF Walk, EnterFolder, Take, TakeOne, Upsert, LeaveFolder, Shape, TypeOK, InHand
<1>4. PICK f \in Folders : f = Head(dirsLeft) /\ Range(dirsLeft) = {f} \cup Range(Tail(dirsLeft))
  BY <1>3, HeadAndRest
<1>5. Quiet'
  BY <1>1, <1>2 DEF Quiet, Busy
<1>6. CASE EnterFolder
  <2>1. rpc = "walk" /\ rows' = rows /\ seen' = seen /\ got' = got
    BY <1>6 DEF EnterFolder
  <2>2. Ahead = dirsLeft /\ ~Inside
    BY <1>4, <2>1 DEF Ahead, Inside
  <2>3. CASE rpc' = "folder"
    <3>1. /\ dirsLeft' = dirsLeft /\ errors' = errors /\ walk' = {m \in Messages : HasFile(f, m)}
      BY <1>4, <1>6, <2>1, <2>3 DEF EnterFolder, HasFile
    <3>2. Ahead' = Tail(dirsLeft) /\ Inside' /\ Head(dirsLeft') = f
      BY <1>4, <2>3, <3>1 DEF Ahead, Inside
    <3>3. Noted'
      BY <1>1, <1>2, <1>4, <2>1, <2>2, <3>1, <3>2 DEF Noted, Handled, HasFile
    <3>4. Rowed'
      BY <1>1, <1>2, <2>1, <2>3, <3>1, <3>2 DEF Rowed, HasFile
    <3> QED
      BY <1>5, <3>3, <3>4
  <2>4. CASE rpc' # "folder"
    <3>1. /\ rpc' = rpc /\ walk' = walk /\ dirsLeft' = Tail(dirsLeft)
          /\ errors' = errors \cup ({f} \X Messages)
      BY <1>4, <1>6, <2>4 DEF EnterFolder
    <3>2. Ahead' = Tail(dirsLeft) /\ ~Inside'
      BY <2>1, <3>1 DEF Ahead, Inside
    <3>3. Noted'
      BY <1>1, <1>2, <1>4, <2>1, <2>2, <3>1, <3>2 DEF Noted, Handled, HasFile
    <3>4. Rowed'
      BY <1>1, <1>2, <2>1, <3>1, <3>2 DEF Rowed, HasFile
    <3> QED
      BY <1>5, <3>3, <3>4
  <2> QED
    BY <2>3, <2>4
<1>7. ASSUME NEW m \in Messages, Take(m) PROVE (Noted /\ Rowed)'
  <2>1. /\ rpc = "folder" /\ m \in walk /\ rows' = rows
        /\ dirsLeft' = dirsLeft /\ seen' = seen \cup {m} /\ walk' = walk \ {m}
    BY <1>7, TakeMeans
  <2>2. HasFile(f, m)
    BY <1>4, <1>2, <2>1 DEF Rowed, Inside
  <2>3. /\ rpc' \in {"folder", "got"} /\ errors \subseteq errors'
        /\ rpc' = "got" => /\ HasFile(f, got'.id) /\ metas[f][got'.id] = got'.ver
        /\ Handled(f, m)'
    <3>1. CASE Current(m) /\ rpc' = rpc /\ got' = got /\ errors' = errors
      BY <1>1, <1>2, <2>1, <3>1 DEF Current, Rowed, Handled
    <3>2. CASE errors' = errors \cup {<<f, m>>} /\ rpc' = rpc /\ got' = got
      BY <2>1, <3>2 DEF Handled
    <3>3. CASE rpc' = "got" /\ got' = [id |-> m, ver |-> metas[f][m]] /\ errors' = errors
      BY <1>4, <2>1, <2>2, <3>3 DEF Handled
    <3> QED
      BY <1>7, <3>1, <3>2, <3>3, <1>4, TakeMeans
  <2>4. Ahead' = Ahead /\ Inside' /\ Inside /\ Head(dirsLeft') = f /\ Head(dirsLeft) = f
    BY <1>4, <2>1, <2>3 DEF Ahead, Inside
  <2>5. \A g \in Folders, n \in Messages : Handled(g, n) => Handled(g, n)'
    BY <2>1, <2>3 DEF Handled
  <2>6. Noted'
    <3>1. ASSUME NEW g \in Folders, NEW n \in Messages, HasFile(g, n)'
          PROVE  \/ Handled(g, n)'
                 \/ g \in Range(Ahead)'
                 \/ Inside' /\ g = Head(dirsLeft') /\ n \in walk'
      <4>1. HasFile(g, n)
        BY <1>1, <3>1 DEF HasFile
      <4> QED
        BY <1>2, <2>1, <2>3, <2>4, <2>5, <4>1 DEF Noted
    <3> QED
      BY <3>1 DEF Noted
  <2>7. Rowed'
    BY <1>1, <1>2, <1>4, <2>1, <2>2, <2>3, <2>4 DEF Rowed, HasFile
  <2> QED
    BY <2>6, <2>7
<1>8. CASE Upsert
  <2>1. /\ rpc = "got" /\ rpc' = "folder" /\ dirsLeft' = dirsLeft /\ seen' = seen /\ walk' = walk
        /\ errors \subseteq errors'
        /\ \/ rows' = [rows EXCEPT ![got.id] = Row(f, got.ver)]
           \/ rows' = rows /\ <<f, got.id>> \in errors'
    BY <1>4, <1>8 DEF Upsert
  <2>2. got.id \in Messages /\ got.ver \in Versions
    BY <2>1 DEF Shape, TypeOK, Opt, Read
  <2>3. Row(f, got.ver) # None
    BY <1>4, <2>2, RowType, MailIndexAssumption DEF Shape
  <2>4. /\ \A m \in Messages : rows[m] # None => rows'[m] # None
        /\ rows'[got.id] # None \/ <<f, got.id>> \in errors'
    BY <2>1, <2>2, <2>3 DEF Shape, TypeOK
  <2>5. Ahead' = Ahead /\ Inside' /\ Inside /\ Head(dirsLeft') = f /\ Head(dirsLeft) = f
    BY <1>4, <2>1 DEF Ahead, Inside
  <2>6. \A g \in Folders, n \in Messages : Handled(g, n) => Handled(g, n)'
    BY <2>1, <2>4, <2>5 DEF Handled
  <2>7. Noted'
    BY <1>1, <1>2, <2>1, <2>5, <2>6 DEF Noted, HasFile
  <2>8. Rowed'
    BY <1>1, <1>2, <2>1, <2>4, <2>5 DEF Rowed, HasFile
  <2> QED
    BY <1>5, <2>7, <2>8
<1>9. CASE LeaveFolder
  <2>1. /\ rpc = "folder" /\ rpc' = "walk" /\ rows' = rows /\ errors' = errors
        /\ dirsLeft' = Tail(dirsLeft) /\ seen' = seen /\ walk = {}
    BY <1>9 DEF LeaveFolder
  <2>2. Ahead' = Ahead /\ ~Inside'
    BY <1>4, <2>1 DEF Ahead, Inside
  <2>3. \A g \in Folders, n \in Messages : Handled(g, n) => Handled(g, n)'
    BY <2>1 DEF Handled
  <2>4. Noted'
    BY <1>1, <1>2, <2>1, <2>2, <2>3 DEF Noted, HasFile
  <2>5. Rowed'
    BY <1>1, <1>2, <2>1, <2>2 DEF Rowed, HasFile
  <2> QED
    BY <1>5, <2>4, <2>5
<1> QED
  BY <1>5, <1>6, <1>7, <1>8, <1>9 DEF Walk

\* Stepping on, the daemon is as quiet as it was.
LEMMA QuietStays ==
  ASSUME Shape, \E step \in {"idle", "rebuilding"} : pc' = [pc EXCEPT !["puller"] = step]
  PROVE  Quiet => Quiet'
BY DEF Shape, TypeOK, Quiet, Busy

\* Tools are served once the daemon has started.
Served == pc["puller"] \in {"starting", "rebuilding"} => ~Busy("tool")

LEMMA ServedStep ==
  ASSUME Shape, Served, [Next]_vars
  PROVE  Served'
<1> USE DEF Served, Syncers
<1>1. CASE pc' = pc
  BY <1>1 DEF Busy
<1>2. ASSUME NEW step \in {"idle", "rebuilding"}, pc' = [pc EXCEPT !["puller"] = step],
             step = "idle" \/ pc["puller"] = "starting"
      PROVE  Served'
  BY <1>2 DEF Busy, Shape, TypeOK
<1>3. ASSUME NEW s \in Syncers, Busy(s) \/ ("tool" = s /\ ToolSync) \/ PullStart,
             NEW step \in {"idle", "folder", "messages", "meta", "index", "remove", "forget"},
             pc' = [pc EXCEPT ![s] = step]
      PROVE  Served'
  BY <1>3 DEF Busy, Shape, TypeOK, ToolSync, PullStart, Pull
<1>4. CASE UNCHANGED vars \/ Account \/ Tick \/ Command \/ Walk
  BY <1>1, <1>4, WalkLeaves DEF vars, syncers, Account, Tick, Command
<1>5. CASE PullStart \/ ToolSync
  BY <1>3, <1>5 DEF PullStart, ToolSync, Pull
<1>6. ASSUME NEW s \in Syncers, SyncStep(s) PROVE Served'
  <2>1. \E step \in {"idle", "folder", "messages", "meta", "index", "remove", "forget"} :
          pc' = [pc EXCEPT ![s] = step]
    BY <1>6 DEF SyncStep, SyncFolder, Fetch, WriteMeta, Index, Unindex, Removal, RemoveEml,
                RemoveMeta, FolderDone, Abort
  <2> QED
    BY <1>3, <1>6, <2>1, SyncLeaves
<1>7. CASE Cleanup
  BY <1>3, <1>7, CleanupLeaves DEF Cleanup
<1>8. CASE Start
  BY <1>2, <1>8 DEF Start
<1>9. CASE Sweep \/ RebuildFails
  <2>1. pc' = [pc EXCEPT !["puller"] = IF @ = "rebuilding" THEN "idle" ELSE @]
    BY <1>9 DEF Sweep, RebuildFails, LetGo
  <2>2. pc' = pc \/ pc' = [pc EXCEPT !["puller"] = "idle"]
    BY <2>1 DEF Shape, TypeOK
  <2> QED
    BY <1>1, <1>2, <2>2
<1>10. CASE Crash
  BY <1>10 DEF Crash, Each, Busy
<1> QED
  BY <1>4, <1>5, <1>6, <1>7, <1>8, <1>9, <1>10 DEF Next, SyncStep

LEMMA WalksStep ==
  ASSUME Shape, Served, Walks, [Next]_vars
  PROVE  Walks'
<1>1. CASE UNCHANGED vars \/ Account \/ Tick
  <2>1. /\ pc' = pc /\ emls' = emls /\ metas' = metas /\ rows' = rows /\ rebuild' = rebuild
        /\ alone' = alone
    BY <1>1 DEF vars, syncers, tree, Account, Tick
  <2> QED
    BY <2>1, WalksAlike DEF Quiet, Busy
<1>2. CASE PullStart \/ ToolSync
  BY <1>2 DEF PullStart, ToolSync, Pull, Walks, Undisturbed
<1>3. ASSUME NEW s \in Syncers, SyncStep(s) PROVE Walks'
  BY <1>3, SyncLeaves DEF Walks, Undisturbed, Quiet
<1>4. CASE Cleanup
  BY <1>4, CleanupLeaves DEF Walks, Undisturbed, Quiet
<1>5. CASE Command
  <2>1. PICK f \in BOOLEAN : Begin(f)
    BY <1>5 DEF Command
  <2>2. alone' => Quiet'
    BY <1>5 DEF Command, syncers, Quiet, Busy
  <2> QED
    BY <2>1, <2>2, BeginWalks
<1>6. CASE Walk
  BY <1>6, WalkWalks
<1>7. CASE Sweep \/ RebuildFails
  BY <1>7 DEF Sweep, RebuildFails, RebuildEnds, Walks, Undisturbed
<1>8. CASE Start
  <2>1. CASE Begin(FALSE) /\ pc' = [pc EXCEPT !["puller"] = "rebuilding"] /\ alone' = TRUE
    <3>1. Quiet'
      BY <1>8, <2>1 DEF Start, Served, Shape, TypeOK, Quiet, Busy, Syncers
    <3> QED
      BY <2>1, <3>1, BeginWalks
  <2>2. CASE pc' = [pc EXCEPT !["puller"] = "idle"]
             /\ UNCHANGED <<server, tree, rows, rebuild, alone>>
    BY <2>2, QuietStays, WalksAlike DEF tree
  <2> QED
    BY <1>8, <2>1, <2>2 DEF Start
<1>9. CASE Crash
  <2>1. CASE RebuildEnds
    BY <2>1 DEF RebuildEnds, Walks, Undisturbed
  <2>2. CASE UNCHANGED rebuild
    <3>1. Quiet'
      BY <1>9 DEF Crash, Quiet, Busy, Each
    <3> QED
      BY <1>9, <2>2, <3>1, WalksAlike DEF Crash, tree
  <2> QED
    BY <1>9, <2>1, <2>2 DEF Crash
<1> QED
  BY <1>1, <1>2, <1>3, <1>4, <1>5, <1>6, <1>7, <1>8, <1>9 DEF Next, SyncStep

THEOREM WalksHolds == Spec => [](Shape /\ Served /\ Walks)
<1>1. Init => Shape /\ Served /\ Walks
  BY InitShape DEF Init, Each, Served, Busy, Syncers, Walks, Undisturbed
<1>2. Shape /\ Served /\ Walks /\ [Next]_vars => (Shape /\ Served /\ Walks)'
  BY ShapeStep, ServedStep, WalksStep
<1> QED
  BY <1>1, <1>2, PTL DEF Spec

LEMMA SweepCovers ==
  ASSUME Shape, Walks, Sweep, alone, NEW m \in Messages
  PROVE  /\ rows'[m] # None => \E f \in Folders : emls[f][m] # None
         /\ \A f \in Folders :
              emls[f][m] # None /\ <<f, m>> \notin errors => rows'[m] # None
<1>1. /\ dirsLeft = <<>> /\ rpc = "walk"
      /\ rows' = [n \in Messages |-> IF n \in seen THEN rows[n] ELSE None]
  BY DEF Sweep
<1>2. Noted /\ Rowed
  BY <1>1 DEF Walks, Undisturbed
<1>3. Range(Ahead) = {} /\ ~Inside
  BY <1>1 DEF Range, Ahead, Inside
<1>4. rows'[m] # None => \E f \in Folders : emls[f][m] # None
  BY <1>1, <1>2 DEF Rowed, HasFile
<1>5. ASSUME NEW f \in Folders, emls[f][m] # None, <<f, m>> \notin errors
      PROVE  rows'[m] # None
  BY <1>1, <1>2, <1>3, <1>5 DEF Noted, Handled, HasFile
<1> QED
  BY <1>4, <1>5

\* A rebuild that no sync overlapped and that ends with its sweep, by the command
\* or at the start, forced or not, whatever state it began in and however many
\* folders and messages there are, leaves rows for messages with an .eml only, and
\* a row for every .eml that it does not count as an error.
THEOREM RebuildsCover == Spec => RebuildCovers
<1>1. Shape /\ Served /\ Walks /\ [Next]_vars =>
        [Sweep /\ alone =>
          \A m \in Messages :
            /\ rows'[m] # None => \E f \in Folders : emls[f][m] # None
            /\ \A f \in Folders :
                 emls[f][m] # None /\ <<f, m>> \notin errors => rows'[m] # None
        ]_vars
  BY SweepCovers
<1> QED
  BY <1>1, WalksHolds, PTL DEF Spec, RebuildCovers

-----------------------------------------------------------------------------
(* Rows and files in step                                                  *)

\* The row of a message stands for the files of its folder, as they are.
Stands(m) ==
  rows[m] # None =>
    HasFile(rows[m].folder, m) /\ metas[rows[m].folder][m] = rows[m].ver

\* A forced rebuild that nothing disturbs makes every row anew.
Afresh == force /\ Undisturbed

\* Who is about to write the row of m.
Owed(m) == \E s \in Syncers : pc[s] = "index" /\ cur[s].id = m

\* Between the first and the last step of a message, what is done of it.
Halfway(s) ==
  /\ pc[s] \in {"remove", "forget"} => rows[cur[s].id] = None
  /\ pc[s] \in {"meta", "index"} => HasFile(Head(queue[s]), cur[s].id)
  /\ pc[s] = "index" => metas[Head(queue[s])][cur[s].id] = cur[s].ver

Single == \A s, t \in Syncers : Busy(s) /\ Busy(t) => s = t

\* Rows stand for files, but for the message whose files were just written, and
\* one sync or one rebuild is at work at a time.
Steady ==
  /\ inStep \/ Afresh => \A m \in Messages : Stands(m) \/ Owed(m)
  /\ inStep => /\ Single /\ (rpc # "idle" => alone)
               /\ \A s \in Syncers : Halfway(s)

\* Nothing that Steady speaks of moves.
LEMMA SteadyAlike ==
  ASSUME Steady, emls' = emls, metas' = metas, rows' = rows, rpc' = rpc, force' = force,
         alone' = alone, inStep' => inStep, pc' = pc, cur' = cur, queue' = queue
  PROVE  Steady'
<1>1. (inStep \/ Afresh)' => inStep \/ Afresh
  BY DEF Afresh, Undisturbed
<1> QED
  BY <1>1 DEF Steady, Stands, HasFile, Owed, Halfway, Single, Busy

\* A sync cannot meet a rebuild that nothing disturbs, nor, in step, another one.
LEMMA BusySteady ==
  ASSUME Walks, Steady, NEW s \in Syncers, Busy(s),
         \A t \in Syncers : t # s => pc'[t] = pc[t],
         rpc' = rpc, force' = force, alone' = alone, inStep' => inStep,
         inStep /\ inStep' => /\ \A m \in Messages : Stands(m)' \/ Owed(m)'
                              /\ Halfway(s)'
  PROVE  Steady'
<1>1. ~Undisturbed
  BY DEF Walks, Quiet
<1>2. ASSUME inStep, inStep', NEW t \in Syncers, t # s PROVE ~Busy(t) /\ ~Busy(t)'
  BY <1>2 DEF Steady, Single, Busy
<1>3. inStep /\ inStep' => Single'
  BY <1>2 DEF Single
<1>4. inStep /\ inStep' => \A t \in Syncers : Halfway(t)'
  BY <1>2 DEF Halfway, Busy
<1> QED
  BY <1>1, <1>3, <1>4 DEF Steady, Afresh, Undisturbed

\* What the message of one sync is to the others.
LEMMA OnlyOwed ==
  ASSUME Steady, inStep, NEW s \in Syncers, Busy(s), NEW m \in Messages,
         pc[s] = "index" => cur[s].id # m
  PROVE  Stands(m)
BY DEF Steady, Single, Owed, Busy

LEMMA RowFolder ==
  ASSUME Shape, NEW m \in Messages, rows[m] # None
  PROVE  rows[m].folder \in Folders
BY DEF Shape, TypeOK, Opt, RowState

LEMMA FetchSteady ==
  ASSUME Shape, Walks, Steady, NEW s \in Syncers, NEW m \in Messages, Fetch(s, m)
  PROVE  Steady'
<1>1. /\ Busy(s) /\ rpc' = rpc /\ force' = force /\ alone' = alone
      /\ \A t \in Syncers : t # s => pc'[t] = pc[t]
  BY SyncLeaves DEF SyncStep
<1>2. PICK f \in Folders : f = Head(queue[s])
  BY FolderInHand DEF Fetch, Shape, InHand
<1>3. /\ pc[s] = "messages" /\ pc'[s] = "meta" /\ cur'[s].id = m /\ rows' = rows
      /\ inStep' = inStep /\ metas' = metas /\ queue' = queue
      /\ emls' = [emls EXCEPT ![f][m] = now]
  BY <1>2 DEF Fetch, Shape, TypeOK
<1>4. emls'[f][m] # None /\ \A g \in Folders, n \in Messages : HasFile(g, n) => HasFile(g, n)'
  BY <1>2, <1>3, MailIndexAssumption DEF Shape, TypeOK, HasFile
<1>5. inStep => \A n \in Messages : Stands(n)'
  BY <1>1, <1>3, <1>4, OnlyOwed, RowFolder DEF Stands
<1>6. Halfway(s)'
  BY <1>2, <1>3, <1>4 DEF Halfway, HasFile
<1> QED
  BY <1>1, <1>3, <1>5, <1>6, BusySteady

LEMMA WriteMetaSteady ==
  ASSUME Shape, Walks, Steady, NEW s \in Syncers, WriteMeta(s)
  PROVE  Steady'
<1>1. /\ Busy(s) /\ rpc' = rpc /\ force' = force /\ alone' = alone
      /\ \A t \in Syncers : t # s => pc'[t] = pc[t]
  BY SyncLeaves DEF SyncStep
<1>2. /\ queue[s] # <<>> /\ Head(queue[s]) \in Folders /\ cur[s].id \in Messages
  BY MessageInHand DEF WriteMeta
<1>3. PICK f \in Folders, m \in Messages : f = Head(queue[s]) /\ m = cur[s].id
  BY <1>2
<1>4. /\ pc[s] = "meta" /\ pc'[s] = "index" /\ cur' = cur /\ rows' = rows
      /\ inStep' = inStep /\ emls' = emls /\ queue' = queue
      /\ metas' = [metas EXCEPT ![f][m] = cur[s].ver]
  BY <1>3 DEF WriteMeta, Shape, TypeOK
<1>5. /\ metas'[f][m] = cur[s].ver
      /\ \A g \in Folders, n \in Messages : n # m => metas'[g][n] = metas[g][n]
  BY <1>3, <1>4 DEF Shape, TypeOK
<1>6. Owed(m)'
  BY <1>3, <1>4 DEF Owed
<1>7. inStep => \A n \in Messages : Stands(n)' \/ Owed(n)'
  BY <1>1, <1>4, <1>5, <1>6, OnlyOwed, RowFolder DEF Stands, HasFile
<1>8. inStep => Halfway(s)'
  BY <1>3, <1>4, <1>5 DEF Steady, Halfway, HasFile
<1> QED
  BY <1>1, <1>4, <1>7, <1>8, BusySteady

LEMMA IndexSteady ==
  ASSUME Shape, Walks, Steady, NEW s \in Syncers, Index(s)
  PROVE  Steady'
<1>1. /\ Busy(s) /\ rpc' = rpc /\ force' = force /\ alone' = alone
      /\ \A t \in Syncers : t # s => pc'[t] = pc[t]
  BY SyncLeaves DEF SyncStep
<1>2. /\ Head(queue[s]) \in Folders /\ cur[s].id \in Messages /\ cur[s].ver \in Versions
  BY MessageInHand DEF Index
<1>3. PICK f \in Folders, m \in Messages, v \in Versions :
        f = Head(queue[s]) /\ m = cur[s].id /\ v = cur[s].ver
  BY <1>2
<1> DEFINE r == [rows EXCEPT ![m] = Row(f, v)]
<1>4. /\ pc[s] = "index" /\ pc'[s] = "messages" /\ emls' = emls /\ metas' = metas
      /\ WriteRows(s, r)
  BY <1>3 DEF Index, Shape, TypeOK, tree
<1>5. /\ r \in [Messages -> Opt(RowState)] /\ r[m].folder = f /\ r[m].ver = v
      /\ \A n \in Messages : n # m => r[n] = rows[n]
  <2>1. Row(f, v) \in RowState /\ Row(f, v).folder = f /\ Row(f, v).ver = v
    BY RowType DEF Shape, Row
  <2> QED
    BY <2>1 DEF Shape, TypeOK, Opt
<1> HIDE DEF r
<1>6. inStep' => rows' = r /\ inStep
  BY <1>4, <1>5, WriteType DEF Shape
<1>7. inStep => HasFile(f, m) /\ metas[f][m] = v
  BY <1>3, <1>4 DEF Steady, Halfway
<1>8. inStep' => \A n \in Messages : Stands(n)'
  <2>1. ASSUME inStep', NEW n \in Messages, n # m PROVE Stands(n)'
    BY <1>1, <1>3, <1>4, <1>5, <1>6, <2>1, OnlyOwed DEF Stands, HasFile
  <2>2. inStep' => Stands(m)'
    BY <1>4, <1>5, <1>6, <1>7 DEF Stands, HasFile
  <2> QED
    BY <2>1, <2>2
<1>9. Halfway(s)'
  BY <1>4 DEF Halfway
<1> QED
  BY <1>1, <1>6, <1>8, <1>9, BusySteady

LEMMA UnindexSteady ==
  ASSUME Shape, Walks, Steady, NEW s \in Syncers, NEW m \in Messages, Unindex(s, m)
  PROVE  Steady'
<1>1. /\ Busy(s) /\ rpc' = rpc /\ force' = force /\ alone' = alone
      /\ \A t \in Syncers : t # s => pc'[t] = pc[t]
  BY SyncLeaves DEF SyncStep
<1> DEFINE r == [rows EXCEPT ![m] = None]
<1>2. /\ pc[s] = "messages" /\ pc'[s] = "remove" /\ cur'[s].id = m
      /\ emls' = emls /\ metas' = metas /\ WriteRows(s, r)
  BY DEF Unindex, Removal, Shape, TypeOK, tree
<1>3. /\ r \in [Messages -> Opt(RowState)] /\ r[m] = None
      /\ \A n \in Messages : n # m => r[n] = rows[n]
  BY DEF Shape, TypeOK, Opt
<1> HIDE DEF r
<1>4. inStep' => rows' = r /\ inStep
  BY <1>2, <1>3, WriteType DEF Shape
<1>5. inStep' => (\A n \in Messages : Stands(n)') /\ Halfway(s)'
  BY <1>1, <1>2, <1>3, <1>4, OnlyOwed DEF Stands, HasFile, Halfway
<1> QED
  BY <1>1, <1>4, <1>5, BusySteady

LEMMA RemoveSteady ==
  ASSUME Shape, Walks, Steady, NEW s \in Syncers, RemoveEml(s) \/ RemoveMeta(s)
  PROVE  Steady'
<1>1. /\ Busy(s) /\ rpc' = rpc /\ force' = force /\ alone' = alone
      /\ \A t \in Syncers : t # s => pc'[t] = pc[t]
  BY SyncLeaves DEF SyncStep
<1>2. PICK f \in Folders, m \in Messages : f = Head(queue[s]) /\ m = cur[s].id
  BY MessageInHand DEF RemoveEml, RemoveMeta
<1>3. /\ pc[s] \in {"remove", "forget"} /\ pc'[s] \in {"forget", "messages"}
      /\ rows' = rows /\ inStep' = inStep
      /\ pc'[s] = "forget" => cur' = cur
      /\ emls' = emls \/ emls' = [emls EXCEPT ![f][m] = None]
      /\ metas' = metas \/ metas' = [metas EXCEPT ![f][m] = None]
  BY <1>2 DEF RemoveEml, RemoveMeta, Shape, TypeOK
<1>4. \A g \in Folders, n \in Messages : n # m =>
        emls'[g][n] = emls[g][n] /\ metas'[g][n] = metas[g][n]
  <2>1. ASSUME NEW g \in Folders, NEW n \in Messages, n # m PROVE emls'[g][n] = emls[g][n]
    <3>1. CASE emls' = emls
      BY <3>1
    <3>2. CASE emls' = [emls EXCEPT ![f][m] = None]
      BY <1>2, <2>1, <3>2 DEF Shape, TypeOK
    <3> QED
      BY <1>3, <3>1, <3>2
  <2>2. ASSUME NEW g \in Folders, NEW n \in Messages, n # m PROVE metas'[g][n] = metas[g][n]
    <3>1. CASE metas' = metas
      BY <3>1
    <3>2. CASE metas' = [metas EXCEPT ![f][m] = None]
      BY <1>2, <2>2, <3>2 DEF Shape, TypeOK
    <3> QED
      BY <1>3, <3>1, <3>2
  <2> QED
    BY <2>1, <2>2
<1>5. inStep => rows[m] = None
  BY <1>2, <1>3 DEF Steady, Halfway
<1>6. inStep => \A n \in Messages : Stands(n)'
  BY <1>1, <1>3, <1>4, <1>5, OnlyOwed, RowFolder DEF Stands, HasFile
<1>7. inStep => Halfway(s)'
  BY <1>2, <1>3, <1>5 DEF Halfway
<1> QED
  BY <1>1, <1>3, <1>6, <1>7, BusySteady

LEMMA OtherSyncsSteady ==
  ASSUME Shape, Walks, Steady, NEW s \in Syncers, SyncFolder(s) \/ FolderDone(s) \/ Abort(s)
  PROVE  Steady'
<1>1. /\ Busy(s) /\ rpc' = rpc /\ force' = force /\ alone' = alone
      /\ \A t \in Syncers : t # s => pc'[t] = pc[t]
  BY SyncLeaves DEF SyncStep
<1>2. /\ emls' = emls /\ metas' = metas /\ rows' = rows
      /\ inStep' => inStep /\ pc[s] # "index"
      /\ pc'[s] \in {"messages", "folder", "idle"}
  <2>1. CASE SyncFolder(s)
    BY <2>1 DEF SyncFolder, tree, Shape, TypeOK
  <2>2. CASE FolderDone(s)
    <3>1. \E step \in {"idle", "folder"} : pc' = [pc EXCEPT ![s] = step]
      BY <2>2 DEF FolderDone
    <3> QED
      BY <2>2, <3>1 DEF FolderDone, Shape, TypeOK
  <2>3. CASE Abort(s)
    BY <2>3 DEF Abort, tree, Shape, TypeOK
  <2> QED
    BY <2>1, <2>2, <2>3
<1>3. inStep' => \A m \in Messages : Stands(m)'
  BY <1>1, <1>2, OnlyOwed DEF Stands, HasFile
<1>4. Halfway(s)'
  BY <1>2 DEF Halfway
<1> QED
  BY <1>1, <1>2, <1>3, <1>4, BusySteady

LEMMA CleanupSteady ==
  ASSUME Shape, Walks, Steady, Cleanup
  PROVE  Steady'
<1>1. /\ Busy("puller") /\ "puller" \in Syncers
      /\ rpc' = rpc /\ force' = force /\ alone' = alone
  BY CleanupLeaves
<1>2. /\ pc["puller"] = "folder" /\ pc' = [pc EXCEPT !["puller"] = "idle"]
      /\ emls' = [f \in Folders |-> IF f \in Stale THEN Nothing ELSE emls[f]]
      /\ metas' = [f \in Folders |-> IF f \in Stale THEN Nothing ELSE metas[f]]
  BY DEF Cleanup
<1>3. pc'["puller"] = "idle" /\ \A t \in Syncers : t # "puller" => pc'[t] = pc[t]
  BY <1>1, <1>2 DEF Shape, TypeOK
<1>4. inStep' => /\ inStep
                 /\ rows' = [m \in Messages |-> IF m \in RowsOf(Stale) THEN None ELSE rows[m]]
  BY DEF Cleanup
<1>5. ASSUME inStep', NEW m \in Messages PROVE Stands(m)'
  <2>1. CASE rows'[m] = None
    BY <2>1 DEF Stands
  <2>2. CASE rows'[m] # None
    <3>1. rows'[m] = rows[m] /\ rows[m] # None /\ m \notin RowsOf(Stale) /\ Stands(m)
      BY <1>1, <1>2, <1>4, <1>5, <2>2, OnlyOwed
    <3>2. PICK f \in Folders : f = rows[m].folder
      BY <3>1, RowFolder
    <3>3. metas[f][m] # None
      BY <3>1, <3>2, MailIndexAssumption DEF Stands, Shape, TypeOK, Opt, RowState, Versions
    <3>4. f \notin Stale
      BY <3>1, <3>2, <3>3, MailIndexAssumption DEF RowsOf
    <3>5. emls'[f] = emls[f] /\ metas'[f] = metas[f]
      BY <1>2, <3>4
    <3> QED
      BY <3>1, <3>2, <3>5 DEF Stands, HasFile
  <2> QED
    BY <2>1, <2>2
<1>6. Halfway("puller")'
  BY <1>3 DEF Halfway
<1> QED
  BY <1>1, <1>3, <1>4, <1>5, <1>6, BusySteady

LEMMA PullSteady ==
  ASSUME Shape, Steady, NEW s \in Syncers, NEW F, Pull(s, F)
  PROVE  Steady'
<1>1. /\ pc[s] = "idle" /\ pc'[s] = "folder" /\ \A t \in Syncers : t # s => pc'[t] = pc[t]
      /\ alone' = FALSE /\ emls' = emls /\ metas' = metas /\ rows' = rows /\ rpc' = rpc
      /\ inStep' = (inStep /\ rpc = "idle" /\ Quiet)
  BY DEF Pull, Shape, TypeOK, tree, rebuild
<1>2. inStep' => inStep /\ \A t \in Syncers : pc[t] \in {"starting", "rebuilding", "idle"}
  BY <1>1 DEF Quiet, Busy
<1>3. inStep' => \A m \in Messages : Stands(m)'
  BY <1>1, <1>2 DEF Steady, Stands, HasFile, Owed
<1>4. inStep' => Single' /\ \A t \in Syncers : Halfway(t)'
  BY <1>1, <1>2 DEF Single, Busy, Halfway
<1> QED
  BY <1>1, <1>3, <1>4 DEF Steady, Afresh, Undisturbed

\* Everyone at rest, every row stands.
LEMMA QuietStands ==
  ASSUME Steady, Quiet, inStep \/ Afresh
  PROVE  \A m \in Messages : Stands(m)
BY DEF Steady, Owed, Quiet, Busy

LEMMA QuietSteady ==
  ASSUME Quiet', inStep' \/ Afresh' => \A m \in Messages : Stands(m)',
         inStep' /\ rpc' # "idle" => alone'
  PROVE  Steady'
BY DEF Steady, Quiet, Busy, Single, Halfway

LEMMA BeginSteady ==
  ASSUME Shape, Steady, NEW f \in BOOLEAN, Begin(f), Quiet, Quiet',
         inStep' => inStep /\ alone'
  PROVE  Steady'
<1>1. /\ force' = f /\ emls' = emls /\ metas' = metas
      /\ \A m \in Messages : rows'[m] = IF f THEN None ELSE rows[m]
  BY BeginMeans DEF Shape
<1>2. inStep' \/ f => \A m \in Messages : Stands(m)'
  BY <1>1, QuietStands DEF Stands, HasFile
<1> QED
  BY <1>1, <1>2, QuietSteady DEF Afresh

LEMMA WalkSteady ==
  ASSUME Shape, Walks, Steady, Walk
  PROVE  Steady'
<1>1. /\ emls' = emls /\ metas' = metas /\ pc' = pc /\ cur' = cur /\ queue' = queue
      /\ alone' = alone /\ inStep' = inStep /\ force' = force
      /\ rpc # "idle" /\ rpc' # "idle"
  BY WalkLeaves
<1>2. Quiet' <=> Quiet
  BY <1>1 DEF Quiet, Busy
<1>3. inStep \/ Afresh => Undisturbed /\ Quiet
  BY <1>1 DEF Steady, Afresh, Undisturbed, Walks
<1>4. (inStep \/ Afresh)' => inStep \/ Afresh
  BY <1>1 DEF Afresh, Undisturbed
<1>5. CASE Quiet
  <2>1. CASE rows' = rows
    BY <1>1, <1>2, <1>3, <1>4, <1>5, <2>1, QuietStands, QuietSteady
       DEF Stands, HasFile, Undisturbed
  <2>2. CASE Upsert /\ rows' = [rows EXCEPT ![got.id] = Row(Head(dirsLeft), got.ver)]
    <3>1. rpc = "got" /\ got \in Read
      BY <2>2 DEF Upsert, Shape, TypeOK, Opt
    <3>2. PICK g \in Messages : g = got.id
      BY <3>1 DEF Read
    <3>3. /\ rows'[g].folder = Head(dirsLeft) /\ rows'[g].ver = got.ver
          /\ \A m \in Messages : m # g => rows'[m] = rows[m]
      BY <2>2, <3>2 DEF Shape, TypeOK, Row
    <3>4. Undisturbed => Stands(g)'
      BY <1>1, <3>1, <3>2, <3>3 DEF Walks, Rowed, Stands, HasFile
    <3>5. inStep \/ Afresh => \A m \in Messages : Stands(m)'
      BY <1>1, <1>3, <1>5, <3>3, <3>4, QuietStands DEF Stands, HasFile
    <3> QED
      BY <1>1, <1>2, <1>3, <1>4, <1>5, <3>5, QuietSteady DEF Undisturbed
  <2>3. rows' = rows \/ (Upsert /\ rows' = [rows EXCEPT ![got.id] = Row(Head(dirsLeft), got.ver)])
    BY DEF Walk, EnterFolder, Take, TakeOne, Upsert, LeaveFolder
  <2> QED
    BY <2>1, <2>2, <2>3
<1>6. CASE ~Quiet
  BY <1>3, <1>4, <1>6 DEF Steady
<1> QED
  BY <1>5, <1>6

LEMMA EndSteady ==
  ASSUME Shape, Walks, Steady, Sweep \/ RebuildFails
  PROVE  Steady'
<1>1. /\ rpc # "idle" /\ rpc' = "idle" /\ emls' = emls /\ metas' = metas
      /\ cur' = cur /\ queue' = queue
      /\ pc' = [pc EXCEPT !["puller"] = IF @ = "rebuilding" THEN "idle" ELSE @]
  BY DEF Sweep, RebuildFails, RebuildEnds, LetGo, tree
<1>2. /\ inStep' => inStep \/ (force /\ alone)
      /\ \A m \in Messages : rows'[m] # None => rows'[m] = rows[m]
  <2>1. CASE Sweep
    BY <2>1 DEF Sweep
  <2>2. CASE RebuildFails
    BY <2>2 DEF RebuildFails
  <2> QED
    BY <2>1, <2>2
<1>3. inStep' => (inStep \/ Afresh) /\ Undisturbed
  BY <1>1, <1>2 DEF Steady, Afresh, Undisturbed
<1>4. pc' = pc \/ pc' = [pc EXCEPT !["puller"] = "idle"]
  BY <1>1 DEF Shape, TypeOK
<1>5. Quiet => Quiet'
  BY <1>4, QuietStays DEF Quiet, Busy
<1>6. inStep' => Quiet /\ \A m \in Messages : Stands(m)'
  BY <1>1, <1>2, <1>3, QuietStands DEF Walks, Stands, HasFile
<1>7. CASE inStep'
  BY <1>1, <1>5, <1>6, <1>7, QuietSteady DEF Afresh, Undisturbed
<1>8. CASE ~inStep'
  BY <1>1, <1>8 DEF Steady, Afresh, Undisturbed
<1> QED
  BY <1>7, <1>8

LEMMA StartSteady ==
  ASSUME Shape, Served, Steady, Start
  PROVE  Steady'
<1>1. Quiet /\ inStep' = inStep /\ cur' = cur /\ queue' = queue
  BY DEF Start, Served, Quiet, Busy, Syncers
<1>2. Quiet'
  BY <1>1, QuietStays DEF Start
<1>3. CASE Begin(FALSE) /\ alone' = TRUE
  BY <1>1, <1>2, <1>3, BeginSteady
<1>4. CASE UNCHANGED <<server, tree, rows, rebuild, alone>>
  <2>1. /\ emls' = emls /\ metas' = metas /\ rows' = rows /\ rpc' = rpc /\ force' = force
        /\ alone' = alone
    BY <1>4 DEF tree, rebuild
  <2>2. (inStep \/ Afresh)' => inStep \/ Afresh
    BY <1>1, <2>1 DEF Afresh, Undisturbed
  <2>3. inStep \/ Afresh => \A m \in Messages : Stands(m)'
    BY <1>1, <2>1, QuietStands DEF Stands, HasFile
  <2> QED
    BY <1>1, <1>2, <2>1, <2>2, <2>3, QuietSteady DEF Steady
<1> QED
  BY <1>3, <1>4 DEF Start

LEMMA CrashSteady ==
  ASSUME Shape, Walks, Steady, Crash
  PROVE  Steady'
<1>1. /\ emls' = emls /\ metas' = metas /\ rows' = rows /\ alone' = alone
      /\ inStep' = (inStep /\ \A s \in Syncers : pc[s] # "index")
      /\ RebuildEnds \/ UNCHANGED rebuild
  BY DEF Crash, tree
<1>2. Quiet'
  BY DEF Crash, Quiet, Busy, Each
<1>3. (rpc' = "idle" \/ (rpc' = rpc /\ force' = force))
  BY <1>1 DEF RebuildEnds, rebuild
<1>4. Afresh' => Afresh /\ Quiet
  BY <1>1, <1>3 DEF Afresh, Undisturbed, Walks
<1>5. inStep' \/ Afresh' => \A m \in Messages : Stands(m)'
  BY <1>1, <1>4, QuietStands DEF Steady, Stands, HasFile, Owed
<1>6. inStep' /\ rpc' # "idle" => alone'
  BY <1>1, <1>3 DEF Steady
<1> QED
  BY <1>2, <1>5, <1>6, QuietSteady

LEMMA SteadyStep ==
  ASSUME Shape, Served, Walks, Steady, [Next]_vars
  PROVE  Steady'
<1>1. CASE UNCHANGED vars \/ Account \/ Tick
  BY <1>1, SteadyAlike DEF vars, tree, syncers, rebuild, Account, Tick
<1>2. CASE PullStart \/ ToolSync
  BY <1>2, PullSteady DEF PullStart, ToolSync, Syncers
<1>3. ASSUME NEW s \in Syncers, SyncStep(s) PROVE Steady'
  BY <1>3, FetchSteady, WriteMetaSteady, IndexSteady, UnindexSteady, RemoveSteady,
     OtherSyncsSteady DEF SyncStep
<1>4. CASE Cleanup
  BY <1>4, CleanupSteady
<1>5. CASE Command
  <2>1. PICK f \in BOOLEAN : Begin(f)
    BY <1>5 DEF Command
  <2>2. /\ pc' = pc /\ cur' = cur /\ queue' = queue /\ alone' = Quiet
        /\ inStep' = (inStep /\ Quiet)
    BY <1>5 DEF Command, syncers
  <2>3. Quiet' <=> Quiet
    BY <2>2 DEF Quiet, Busy
  <2>4. CASE Quiet
    BY <2>1, <2>2, <2>3, <2>4, BeginSteady
  <2>5. CASE ~Quiet
    BY <2>2, <2>5 DEF Steady, Afresh, Undisturbed
  <2> QED
    BY <2>4, <2>5
<1>6. CASE Walk
  BY <1>6, WalkSteady
<1>7. CASE Sweep \/ RebuildFails
  BY <1>7, EndSteady
<1>8. CASE Start \/ Crash
  BY <1>8, StartSteady, CrashSteady
<1> QED
  BY <1>1, <1>2, <1>3, <1>4, <1>5, <1>6, <1>7, <1>8 DEF Next, SyncStep

\* Between syncs every row stands for the files of its folder as they are now, for
\* any folders, names and messages, unless a sync ran beside another or beside a
\* rebuild, the index failed, or a sync ended or died between files and row, and
\* no forced rebuild has mended that since.
THEOREM RowsStand == Spec => []RowsHaveFiles
<1>1. Init => Steady
  BY DEF Init, Each, Steady, Stands, Afresh, Undisturbed, Nothing, Single, Busy, Halfway, Syncers
<1>2. Shape /\ Served /\ Walks /\ Steady /\ [Next]_vars => Steady'
  BY SteadyStep
<1>3. Steady => RowsHaveFiles
  BY QuietStands DEF RowsHaveFiles, AtRest, Stands, HasFile
<1> QED
  BY <1>1, <1>2, <1>3, WalksHolds, PTL DEF Spec
=============================================================================
