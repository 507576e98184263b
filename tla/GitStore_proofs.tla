--------------------------- MODULE GitStore_proofs ---------------------------
(* Proofs about the git store, for any number of callers, handles and files. *)
EXTENDS GitStore, TLAPS

-----------------------------------------------------------------------------
(* Type correctness                                                        *)

LEMMA TypeInit == Init => Typed
  BY TaskKinds DEF Init, Typed, Tasks, PC

\* A commit appends one author to the log and records versions that exist.
LEMMA CommitType ==
  ASSUME Typed, NEW t \in Tasks, CommitIndex(t)
  PROVE  /\ head' \in [Paths -> Nat]
         /\ log' \in Seq(Tasks)
         /\ Len(log') = Len(log) + 1
         /\ captured' \in SUBSET (Paths \X Nat)
<1>1. {<<p, index[p]>> : p \in Paths} \in SUBSET (Paths \X Nat)
  BY DEF Typed
<1> QED
  BY <1>1 DEF Typed, CommitIndex

LEMMA LongerRange ==
  ASSUME NEW n \in Nat, NEW f \in [Tasks -> 0 .. n]
  PROVE  f \in [Tasks -> 0 .. n + 1]
  OBVIOUS

LEMMA TypeStep == Typed /\ [Next]_vars => Typed'
<1> SUFFICES ASSUME Typed, [Next]_vars PROVE Typed'
  OBVIOUS
<1> USE DEF Typed, PC, call, store, files, Goto, Acquire, Release, DropIndexLock,
            TakeIndexLockIfFree
<1>1. CASE UNCHANGED vars
  BY <1>1 DEF vars
<1>2. ASSUME NEW t \in Tasks, NEW p \in Paths, Write(t, p) \/ TakeBack(t, p)
      PROVE  Typed'
  <2>1. CASE Write(t, p)
    <3>1. wrote[t] \cup {<<p, fresh + 1>>} \in SUBSET (Paths \X Nat)
      OBVIOUS
    <3>2. wrote' \in [Tasks -> SUBSET (Paths \X Nat)]
      BY <2>1, <3>1 DEF Write
    <3>3. tree' \in [Paths -> Nat] /\ fresh' \in Nat
      BY <2>1 DEF Write
    <3> QED
      BY <2>1, <3>2, <3>3 DEF Write
  <2>2. CASE TakeBack(t, p)
    <3>1. tree' \in [Paths -> Nat]
      BY <2>2 DEF TakeBack
    <3> QED
      BY <2>2, <3>1 DEF TakeBack
  <2> QED
    BY <1>2, <2>1, <2>2
<1>3. ASSUME NEW t \in Tasks, Step(t) PROVE Typed'
  <2>1. CASE CommitAll(t)
    BY <2>1 DEF CommitAll
  <2>2. CASE FastPath(t)
    BY <2>2 DEF FastPath, WhenClean
  <2>3. CASE LockForCommit(t)
    BY <2>3 DEF LockForCommit
  <2>4. CASE Rechecked(t)
    BY <2>4 DEF Rechecked, WhenClean
  <2>5. CASE Add(t) \/ Commit(t)
    BY <2>5 DEF Add, Commit, Start, Die
  <2>6. CASE Added(t)
    BY <2>6 DEF Added
  <2>7. CASE Committed(t)
    <3>1. CASE index = head
      BY <2>7, <3>1 DEF Committed
    <3>2. CASE index # head
      <4>1. CommitIndex(t) /\ UNCHANGED lock
        BY <2>7, <3>2 DEF Committed
      <4>2. sha \in [Tasks -> 0 .. Len(log')] /\ asked \in [Tasks -> 0 .. Len(log')]
        <5>1. Len(log) \in Nat /\ Len(log') = Len(log) + 1
          BY <4>1, CommitType
        <5> QED
          BY <5>1, LongerRange
      <4>3. pc' \in [Tasks -> PC] /\ indexLock' \in Tasks \cup {None}
        BY <2>7, <3>2 DEF Committed
      <4> QED
        BY <2>7, <4>1, <4>2, <4>3, CommitType DEF Committed
    <3> QED
      BY <3>1, <3>2
  <2>8. CASE RevParse(t)
    <3>1. sha' \in [Tasks -> 0 .. Len(log)]
      <4>1. Len(log) \in 0 .. Len(log)
        OBVIOUS
      <4> QED
        BY <2>8, <4>1 DEF RevParse
    <3> QED
      BY <2>8, <3>1 DEF RevParse
  <2>9. CASE EmptyCommit(t)
    BY <2>9 DEF EmptyCommit
  <2>10. CASE EmptyCommitted(t)
    <3>1. CommitIndex(t)
      BY <2>10 DEF EmptyCommitted
    <3>2. sha \in [Tasks -> 0 .. Len(log')] /\ asked \in [Tasks -> 0 .. Len(log')]
      <4>1. Len(log) \in Nat /\ Len(log') = Len(log) + 1
        BY <3>1, CommitType
      <4> QED
        BY <4>1, LongerRange
    <3>3. pc' \in [Tasks -> PC] /\ indexLock' \in Tasks \cup {None}
      BY <2>10 DEF EmptyCommitted
    <3> QED
      BY <2>10, <3>1, <3>2, <3>3, CommitType DEF EmptyCommitted
  <2>11. CASE Gc(t) \/ GcDone(t)
    BY <2>11 DEF Gc, GcDone
  <2>12. CASE Return(t)
    BY <2>12 DEF Return
  <2> QED
    BY <1>3, <2>1, <2>2, <2>3, <2>4, <2>5, <2>6, <2>7, <2>8, <2>9, <2>10, <2>11, <2>12
    DEF Step
<1>5. CASE Repacked
  BY <1>5 DEF Repacked, files
<1> QED
  BY <1>1, <1>2, <1>3, <1>5 DEF Next

-----------------------------------------------------------------------------
(* The inductive invariant                                                 *)

\* A task in the guarded part of a call holds the mutex of its handle.
LockHeld == \A t \in Tasks : pc[t] \in Guarded => lock[LockOf[t]] = t

\* t's own commit is in the log, and no task that shares t's handle has
\* committed since.
OwnIsLast(t) ==
  \E i \in 1 .. Len(log) :
    /\ i > asked[t]
    /\ log[i] = t
    /\ \A j \in i + 1 .. Len(log) : ~Share(t, log[j])

\* t's own commit is in the log, and sha[t] names it or a stranger's.
NamesOwn(t) ==
  /\ \E i \in 1 .. Len(log) : i > asked[t] /\ log[i] = t
  /\ sha[t] > asked[t]
  /\ Share(t, log[sha[t]]) => log[sha[t]] = t

OwnCommit ==
  \A t \in Tasks :
    /\ pc[t] = "committed" => OwnIsLast(t)
    /\ pc[t] = "some" => NamesOwn(t)

\* A version is kept for good once some commit holds it; a version that is in
\* the tree no more is nobody's to keep.
Kept(w) == w \in captured \/ tree[w[1]] # w[2]

\* What a task wrote is kept, or staged, as its call goes on.
Capture ==
  /\ \A p \in Paths : <<p, head[p]>> \in captured
  /\ \A t \in Tasks : \A w \in wrote[t] : w[2] <= fresh
  /\ \A t \in Tasks : pc[t] \in {"staged", "commit"} =>
       \A w \in wrote[t] : Kept(w) \/ index[w[1]] = w[2]
  /\ \A t \in Tasks : pc[t] \in {"auditwait", "empty", "committed", "some", "none"} =>
       \A w \in wrote[t] : Kept(w)

IInv == Typed /\ LockHeld /\ KindsOfTask /\ OwnCommit /\ Capture

LEMMA LockHeldStep == Typed /\ LockHeld /\ [Next]_vars => LockHeld'
<1> SUFFICES ASSUME Typed, LockHeld, [Next]_vars, NEW u \in Tasks, pc'[u] \in Guarded
             PROVE  lock'[LockOf[u]] = u
  BY DEF LockHeld
<1> USE TaskKinds, HandleType
    DEF Typed, LockHeld, Guarded, Goto, Acquire, Release
<1>1. CASE UNCHANGED vars
  BY <1>1 DEF vars
<1>2. ASSUME NEW t \in Tasks, NEW p \in Paths, Write(t, p) \/ TakeBack(t, p)
      PROVE  lock'[LockOf[u]] = u
  BY <1>2 DEF Write, TakeBack
<1>3. ASSUME NEW t \in Tasks, Step(t) PROVE lock'[LockOf[u]] = u
  <2>1. CASE CommitAll(t) \/ FastPath(t) \/ LockForCommit(t)
    BY <2>1 DEF CommitAll, FastPath, WhenClean, LockForCommit
  <2>2. CASE Rechecked(t)
    BY <2>2 DEF Rechecked, WhenClean
  <2>3. CASE Add(t) \/ Commit(t)
    BY <2>3 DEF Add, Commit, Start, Die
  <2>4. CASE Added(t) \/ Committed(t) \/ RevParse(t)
    BY <2>4 DEF Added, Committed, RevParse
  <2>5. CASE EmptyCommit(t) \/ EmptyCommitted(t)
    BY <2>5 DEF EmptyCommit, EmptyCommitted
  <2>6. CASE Gc(t) \/ GcDone(t)
    BY <2>6 DEF Gc, GcDone
  <2>7. CASE Return(t)
    BY <2>7 DEF Return
  <2> QED
    BY <1>3, <2>1, <2>2, <2>3, <2>4, <2>5, <2>6, <2>7 DEF Step
<1>5. CASE Repacked
  BY <1>5 DEF Repacked, files
<1> QED
  BY <1>1, <1>2, <1>3, <1>5 DEF Next

LEMMA KindsStep == Typed /\ KindsOfTask /\ [Next]_vars => KindsOfTask'
<1> SUFFICES ASSUME Typed, KindsOfTask, [Next]_vars PROVE KindsOfTask'
  OBVIOUS
<1> USE TaskKinds DEF Typed, KindsOfTask, Goto, Tasks
<1>1. CASE UNCHANGED vars
  BY <1>1 DEF vars
<1>2. ASSUME NEW t \in Tasks, NEW p \in Paths, Write(t, p) \/ TakeBack(t, p)
      PROVE  KindsOfTask'
  BY <1>2 DEF Write, TakeBack
<1>3. ASSUME NEW t \in Tasks, Step(t) PROVE KindsOfTask'
  <2>1. CASE CommitAll(t) \/ FastPath(t) \/ LockForCommit(t) \/ Rechecked(t)
    BY <2>1 DEF CommitAll, FastPath, WhenClean, LockForCommit, Rechecked, store, files
  <2>2. CASE Add(t) \/ Added(t) \/ Commit(t) \/ Committed(t) \/ RevParse(t)
    BY <2>2 DEF Add, Commit, Start, Die, Added, Committed, RevParse, store, files
  <2>3. CASE EmptyCommit(t) \/ EmptyCommitted(t)
    BY <2>3 DEF EmptyCommit, EmptyCommitted, store, files
  <2>4. CASE Gc(t) \/ GcDone(t)
    BY <2>4 DEF Gc, GcDone, store, files
  <2>5. CASE Return(t)
    BY <2>5 DEF Return
  <2> QED
    BY <1>3, <2>1, <2>2, <2>3, <2>4, <2>5 DEF Step
<1>5. CASE Repacked
  BY <1>5 DEF Repacked, files
<1> QED
  BY <1>1, <1>2, <1>3, <1>5 DEF Next

LEMMA LogGrows ==
  ASSUME Typed, NEW t \in Tasks, CommitIndex(t)
  PROVE  /\ Len(log') = Len(log) + 1
         /\ \A i \in 1 .. Len(log) : log'[i] = log[i]
         /\ log'[Len(log) + 1] = t
  BY DEF Typed, CommitIndex

\* The commit of t itself, seen by t and by everybody else.
LEMMA OwnCommitWhenCommitting ==
  ASSUME Typed, LockHeld, OwnCommit, NEW t \in Tasks, pc[t] \in {"commit", "empty"},
         CommitIndex(t), pc' = [pc EXCEPT ![t] = "committed"], UNCHANGED call
  PROVE  OwnCommit'
<1> USE DEF call
<1>1. /\ Len(log) \in Nat
      /\ Len(log') = Len(log) + 1
      /\ \A i \in 1 .. Len(log) : log'[i] = log[i]
      /\ log'[Len(log) + 1] = t
  BY LogGrows DEF Typed
<1>2. \A u \in Tasks : sha[u] \in 0 .. Len(log) /\ asked[u] \in 0 .. Len(log)
  BY DEF Typed
<1>3. pc'[t] = "committed" /\ \A u \in Tasks : u # t => pc'[u] = pc[u]
  BY DEF Typed
<1>4. OwnIsLast(t)'
  BY <1>1, <1>2 DEF OwnIsLast
<1>5. ASSUME NEW u \in Tasks, u # t, pc'[u] = "committed" PROVE OwnIsLast(u)'
  <2>1. pc[u] = "committed"
    BY <1>5, <1>3
  <2>2. ~Share(u, t)
    BY <1>5, <2>1 DEF LockHeld, Guarded, Share
  <2>3. PICK i \in 1 .. Len(log) : /\ i > asked[u]
                                  /\ log[i] = u
                                  /\ \A j \in i + 1 .. Len(log) : ~Share(u, log[j])
    BY <2>1 DEF OwnCommit, OwnIsLast
  <2>4. ASSUME NEW j \in i + 1 .. Len(log') PROVE ~Share(u, log'[j])
    <3>1. CASE j <= Len(log)
      <4>1. j \in i + 1 .. Len(log) /\ log'[j] = log[j]
        BY <3>1, <1>1
      <4> QED
        BY <4>1, <2>3
    <3>2. CASE j = Len(log) + 1
      BY <3>2, <1>1, <2>2
    <3> QED
      BY <1>1, <3>1, <3>2
  <2>5. i \in 1 .. Len(log') /\ log'[i] = u
    BY <1>1, <2>3
  <2>6. \A j \in i + 1 .. Len(log') : (~Share(u, log[j]))'
    BY <2>4 DEF Share
  <2> QED
    BY <2>3, <2>5, <2>6 DEF OwnIsLast
<1>6. ASSUME NEW u \in Tasks, pc'[u] = "some" PROVE NamesOwn(u)'
  <2>1. NamesOwn(u)
    BY <1>6, <1>3 DEF OwnCommit
  <2>2. log'[sha[u]] = log[sha[u]]
    BY <2>1, <1>1, <1>2 DEF NamesOwn
  <2>3. \E i \in 1 .. Len(log') : i > asked[u] /\ log'[i] = u
    BY <2>1, <1>1 DEF NamesOwn
  <2> QED
    BY <2>1, <2>2, <2>3 DEF NamesOwn, Share
<1> QED
  BY <1>3, <1>4, <1>5, <1>6 DEF OwnCommit

\* Any other step leaves a finished commit alone.
LEMMA OwnCommitFrame ==
  ASSUME OwnCommit, UNCHANGED log,
         \A u \in Tasks : pc'[u] \in {"committed", "some"} =>
           pc'[u] = pc[u] /\ sha'[u] = sha[u] /\ asked'[u] = asked[u]
  PROVE  OwnCommit'
<1>1. ASSUME NEW u \in Tasks, pc'[u] = "committed" PROVE OwnIsLast(u)'
  BY <1>1 DEF OwnCommit, OwnIsLast, Share
<1>2. ASSUME NEW u \in Tasks, pc'[u] = "some" PROVE NamesOwn(u)'
  BY <1>2 DEF OwnCommit, NamesOwn, Share
<1> QED
  BY <1>1, <1>2 DEF OwnCommit

LEMMA OwnCommitStep ==
  Typed /\ LockHeld /\ OwnCommit /\ [Next]_vars => OwnCommit'
<1> SUFFICES ASSUME Typed, LockHeld, OwnCommit, [Next]_vars PROVE OwnCommit'
  OBVIOUS
<1> DEFINE Finished(u) == pc'[u] \in {"committed", "some"}
           Same(u) == pc'[u] = pc[u] /\ sha'[u] = sha[u] /\ asked'[u] = asked[u]
           Frame == UNCHANGED log /\ \A u \in Tasks : Finished(u) => Same(u)
<1> USE DEF Goto
<1>1. CASE UNCHANGED vars
  BY <1>1, OwnCommitFrame DEF vars
<1>2. ASSUME NEW t \in Tasks, NEW p \in Paths, Write(t, p) \/ TakeBack(t, p)
      PROVE  OwnCommit'
  BY <1>2, OwnCommitFrame DEF Write, TakeBack, call
<1>3. ASSUME NEW t \in Tasks, Step(t) PROVE OwnCommit'
  <2>1. ASSUME Frame PROVE OwnCommit'
    BY <2>1, OwnCommitFrame
  <2>2. CASE CommitAll(t)
    <3>1. Frame
      BY <2>2 DEF CommitAll, store, files, Typed
    <3> QED
      BY <2>1, <3>1
  <2>3. CASE FastPath(t) \/ LockForCommit(t) \/ Rechecked(t)
    <3>1. Frame
      BY <2>3 DEF FastPath, WhenClean, LockForCommit, Rechecked, store, files, call, Typed
    <3> QED
      BY <2>1, <3>1
  <2>4. CASE Add(t) \/ Added(t) \/ Commit(t)
    <3>1. Frame
      BY <2>4 DEF Add, Commit, Start, Die, Added, store, files, call, Typed
    <3> QED
      BY <2>1, <3>1
  <2>5. CASE Committed(t) /\ index = head
    <3>1. Frame
      BY <2>5 DEF Committed, call, Typed
    <3> QED
      BY <2>1, <3>1
  <2>6. CASE Committed(t) /\ index # head
    BY <2>6, OwnCommitWhenCommitting DEF Committed
  <2>7. CASE RevParse(t)
    <3>1. PICK i \in 1 .. Len(log) : /\ i > asked[t]
                                    /\ log[i] = t
                                    /\ \A j \in i + 1 .. Len(log) : ~Share(t, log[j])
      BY <2>7 DEF RevParse, OwnCommit, OwnIsLast
    <3>2. Len(log) \in Nat /\ asked[t] \in Nat
      BY DEF Typed
    <3>3. Len(log) > asked[t] /\ (Share(t, log[Len(log)]) => log[Len(log)] = t)
      <4>1. CASE i = Len(log)
        BY <4>1, <3>1
      <4>2. CASE i # Len(log)
        BY <4>2, <3>1, <3>2
      <4> QED
        BY <4>1, <4>2
    <3>4. /\ UNCHANGED <<log, asked>>
          /\ sha' = [sha EXCEPT ![t] = Len(log)]
          /\ pc' = [pc EXCEPT ![t] = "some"]
      BY <2>7 DEF RevParse, store, files
    <3>5. sha'[t] = Len(log) /\ pc'[t] = "some"
      BY <3>4 DEF Typed
    <3>6. NamesOwn(t)'
      BY <3>1, <3>3, <3>4, <3>5 DEF NamesOwn, Share
    <3>7. ASSUME NEW u \in Tasks, u # t
          PROVE  pc'[u] = pc[u] /\ sha'[u] = sha[u]
      BY <3>4, <3>7 DEF Typed
    <3>8. ASSUME NEW u \in Tasks, u # t, pc'[u] = "committed" PROVE OwnIsLast(u)'
      BY <3>4, <3>7, <3>8 DEF OwnCommit, OwnIsLast, Share
    <3>9. ASSUME NEW u \in Tasks, u # t, pc'[u] = "some" PROVE NamesOwn(u)'
      BY <3>4, <3>7, <3>9 DEF OwnCommit, NamesOwn, Share
    <3> QED
      BY <3>5, <3>6, <3>8, <3>9 DEF OwnCommit
  <2>8. CASE EmptyCommit(t)
    <3>1. Frame
      BY <2>8 DEF EmptyCommit, store, files, call, Typed
    <3> QED
      BY <2>1, <3>1
  <2>9. CASE EmptyCommitted(t)
    BY <2>9, OwnCommitWhenCommitting DEF EmptyCommitted
  <2>10. CASE Gc(t) \/ GcDone(t) \/ Return(t)
    <3>1. Frame
      BY <2>10 DEF Gc, GcDone, Return, store, files, call, Typed
    <3> QED
      BY <2>1, <3>1
  <2> QED
    BY <1>3, <2>2, <2>3, <2>4, <2>5, <2>6, <2>7, <2>8, <2>9, <2>10 DEF Step
<1>5. CASE Repacked
  BY <1>5, OwnCommitFrame DEF Repacked, files, call
<1> QED
  BY <1>1, <1>2, <1>3, <1>5 DEF Next

\* A step that leaves the tree alone and loses no commit moves what t wrote
\* from written to staged to kept, whatever the others do to the index.
LEMMA CaptureFrame ==
  ASSUME Typed, Capture, UNCHANGED <<tree, fresh>>, captured \subseteq captured',
         \A p \in Paths : <<p, head'[p]>> \in captured',
         \A u \in Tasks : wrote'[u] \in {{}, wrote[u]},
         \A u \in Tasks : pc'[u] \in {"staged", "commit"} =>
           \A w \in wrote[u] : Kept(w)' \/ index'[w[1]] = w[2],
         \A u \in Tasks : pc'[u] \in {"auditwait", "empty", "committed", "some", "none"} =>
           \A w \in wrote[u] : Kept(w)'
  PROVE  Capture'
<1>1. \A u \in Tasks : wrote'[u] \subseteq wrote[u]
  OBVIOUS
<1> QED
  BY <1>1 DEF Capture

LEMMA CaptureStep ==
  Typed /\ KindsOfTask /\ Capture /\ [Next]_vars => Capture'
<1> SUFFICES ASSUME Typed, KindsOfTask, Capture, [Next]_vars PROVE Capture'
  OBVIOUS
<1> USE DEF Goto
<1>1. CASE UNCHANGED vars
  BY <1>1 DEF vars, Capture, Kept
<1>2. ASSUME NEW t \in Tasks, NEW p \in Paths, Write(t, p) PROVE Capture'
  <2>1. /\ pc[t] = "idle"
        /\ fresh' = fresh + 1
        /\ tree' = [tree EXCEPT ![p] = fresh + 1]
        /\ wrote' = [wrote EXCEPT ![t] = @ \cup {<<p, fresh + 1>>}]
        /\ UNCHANGED <<index, head, pc, captured>>
    BY <1>2 DEF Write
  <2>2. ASSUME NEW u \in Tasks, NEW w \in wrote'[u] PROVE w[2] <= fresh'
    BY <2>1, <2>2 DEF Capture, Typed
  <2>3. ASSUME NEW u \in Tasks, u # t, NEW w \in wrote[u], Kept(w) PROVE Kept(w)'
    <3>1. w \in Paths \X Nat /\ w[2] <= fresh
      BY <2>3 DEF Capture, Typed
    <3> QED
      BY <2>1, <2>3, <3>1 DEF Kept, Typed
  <2>4. \A u \in Tasks : u # t => wrote'[u] = wrote[u]
    BY <2>1 DEF Typed
  <2> QED
    BY <2>1, <2>2, <2>3, <2>4 DEF Capture
<1>3. ASSUME NEW t \in Tasks, NEW p \in Paths, TakeBack(t, p) PROVE Capture'
  <2>1. /\ tree' = [tree EXCEPT ![p] = head[p]]
        /\ UNCHANGED <<index, head, pc, captured, wrote, fresh>>
    BY <1>3 DEF TakeBack
  <2>2. ASSUME NEW u \in Tasks, NEW w \in wrote[u], Kept(w) PROVE Kept(w)'
    <3>1. w \in Paths \X Nat /\ w = <<w[1], w[2]>>
      BY DEF Typed
    <3>2. <<p, head[p]>> \in captured
      BY DEF Capture
    <3>3. CASE w[1] = p /\ w[2] = head[p]
      BY <2>1, <3>1, <3>2, <3>3 DEF Kept
    <3>4. CASE w[1] = p /\ w[2] # head[p]
      BY <2>1, <3>1, <3>4 DEF Kept, Typed
    <3>5. CASE w[1] # p
      BY <2>1, <2>2, <3>1, <3>5 DEF Kept, Typed
    <3> QED
      BY <3>3, <3>4, <3>5
  <2> QED
    BY <2>1, <2>2 DEF Capture
<1>4. ASSUME NEW t \in Tasks, Step(t) PROVE Capture'
  <2> DEFINE KeptAll(u) == \A w \in wrote[u] : Kept(w)
             SafePc == {"auditwait", "empty", "committed", "some", "none"}
             StagedPc == {"staged", "commit"}
             Quiet == UNCHANGED <<tree, index, head, fresh, wrote, captured>>
  <2>1. ASSUME Quiet,
               \A u \in Tasks : pc'[u] \in StagedPc => pc[u] \in StagedPc,
               \A u \in Tasks : pc'[u] \in SafePc => pc[u] \in SafePc \/ KeptAll(u)
        PROVE  Capture'
    BY <2>1 DEF Capture, Kept
  <2>2. ASSUME ~HasChanges, NEW u \in Tasks PROVE KeptAll(u)
    <3> SUFFICES ASSUME NEW w \in wrote[u], tree[w[1]] = w[2] PROVE w \in captured
      BY DEF Kept
    <3>1. w \in Paths \X Nat /\ w = <<w[1], w[2]>> /\ head[w[1]] = w[2]
      BY <2>2 DEF HasChanges, Typed
    <3> QED
      BY <3>1 DEF Capture
  <2>3. CASE FastPath(t)
    <3>1. Quiet /\ pc' = [pc EXCEPT ![t] = IF HasChanges THEN "wait" ELSE WhenClean(t)]
      BY <2>3 DEF FastPath, store, files
    <3> QED
      BY <2>1, <2>2, <3>1 DEF WhenClean, Typed
  <2>4. CASE Rechecked(t)
    <3>1. /\ Quiet
          /\ \/ pc' = [pc EXCEPT ![t] = "dirty"]
             \/ ~HasChanges /\ pc' = [pc EXCEPT ![t] = WhenClean(t)]
      BY <2>4 DEF Rechecked, store, files
    <3> QED
      BY <2>1, <2>2, <3>1 DEF WhenClean, Typed
  <2>5. CASE CommitAll(t) \/ LockForCommit(t) \/ Add(t) \/ Commit(t) \/ RevParse(t)
             \/ EmptyCommit(t)
    <3>1. Quiet
      BY <2>5 DEF CommitAll, LockForCommit, Add, Commit, Start, Die, RevParse, EmptyCommit, store, files
    <3>2. \A u \in Tasks : pc'[u] \in StagedPc => pc[u] \in StagedPc
      BY <2>5 DEF CommitAll, LockForCommit, Add, Commit, Start, Die, RevParse, EmptyCommit, Typed
    <3>3. \A u \in Tasks : pc'[u] \in SafePc => pc[u] \in SafePc
      BY <2>5 DEF CommitAll, LockForCommit, Add, Commit, Start, Die, RevParse, EmptyCommit, Typed
    <3> QED
      BY <2>1, <3>1, <3>2, <3>3
  <2>6. CASE Gc(t) \/ GcDone(t)
    <3>1. Quiet /\ \A u \in Tasks : u # t => pc'[u] = pc[u]
      BY <2>6 DEF Gc, GcDone, store, files, Typed
    <3>2. pc'[t] \in {"idle", "gc"}
      BY <2>6 DEF Gc, GcDone, Typed
    <3> QED
      BY <2>1, <3>1, <3>2
  <2>7. CASE Added(t)
    <3>1. /\ index' = tree
          /\ pc' = [pc EXCEPT ![t] = "staged"]
          /\ UNCHANGED <<tree, head, fresh, wrote, captured>>
      BY <2>7 DEF Added
    <3>2. \A u \in Tasks : \A w \in wrote[u] : Kept(w)' \/ index'[w[1]] = w[2]
      BY <3>1 DEF Kept
    <3>3. \A u \in Tasks : pc'[u] \in SafePc => \A w \in wrote[u] : Kept(w)'
      BY <3>1 DEF Capture, Kept, Typed
    <3>4. \A p \in Paths : <<p, head'[p]>> \in captured'
      BY <3>1 DEF Capture
    <3> QED
      BY <3>1, <3>2, <3>3, <3>4, CaptureFrame
  <2>8. ASSUME CommitIndex(t), pc[t] \in {"commit", "empty"},
               pc' = [pc EXCEPT ![t] = "committed"], UNCHANGED <<tree, index, fresh, wrote>>
        PROVE  Capture'
    <3>1. captured \subseteq captured' /\ \A p \in Paths : <<p, head'[p]>> \in captured'
      BY <2>8 DEF CommitIndex
    <3>2. ASSUME NEW u \in Tasks, NEW w \in wrote[u], index[w[1]] = w[2] PROVE Kept(w)'
      <4>1. w \in Paths \X Nat /\ w = <<w[1], w[2]>>
        BY DEF Typed
      <4> QED
        BY <2>8, <3>2, <4>1 DEF CommitIndex, Kept
    <3>3. ASSUME NEW w, Kept(w) PROVE Kept(w)'
      BY <2>8, <3>1, <3>3 DEF Kept
    <3>4. \A u \in Tasks : u # t => pc'[u] = pc[u]
      BY <2>8 DEF Typed
    <3>5. \A w \in wrote[t] : Kept(w)'
      BY <2>8, <3>2, <3>3 DEF Capture
    <3>6. \A u \in Tasks : pc'[u] \in StagedPc =>
            \A w \in wrote[u] : Kept(w)' \/ index'[w[1]] = w[2]
      BY <2>8, <3>2, <3>3, <3>4, <3>5 DEF Capture
    <3>7. \A u \in Tasks : pc'[u] \in SafePc => \A w \in wrote[u] : Kept(w)'
      BY <3>3, <3>4, <3>5 DEF Capture
    <3> QED
      BY <2>8, <3>1, <3>6, <3>7, CaptureFrame
  <2>9. CASE Committed(t) /\ index = head
    <3>1. Quiet /\ pc' = [pc EXCEPT ![t] = "err"]
      BY <2>9 DEF Committed
    <3> QED
      BY <2>1, <3>1 DEF Typed
  <2>10. CASE Committed(t) /\ index # head
    BY <2>8, <2>10 DEF Committed
  <2>11. CASE EmptyCommitted(t)
    BY <2>8, <2>11 DEF EmptyCommitted
  <2>12. CASE Return(t)
    <3>1. /\ UNCHANGED <<tree, index, head, fresh, captured>>
          /\ pc' = [pc EXCEPT ![t] = "idle"]
          /\ \A u \in Tasks : wrote'[u] \in {{}, wrote[u]}
      BY <2>12 DEF Return, Typed
    <3> QED
      BY <3>1, CaptureFrame DEF Capture, Kept, Typed
  <2> QED
    BY <1>4, <2>3, <2>4, <2>5, <2>6, <2>7, <2>9, <2>10, <2>11, <2>12 DEF Step
<1>5. CASE Repacked
  BY <1>5 DEF Repacked, files, Capture, Kept
<1> QED
  BY <1>1, <1>2, <1>3, <1>4, <1>5 DEF Next

-----------------------------------------------------------------------------
(* The theorems                                                            *)

LEMMA IInvInit == Init => IInv
<1> SUFFICES ASSUME Init PROVE IInv
  OBVIOUS
<1>1. Typed
  BY TypeInit
<1>2. LockHeld /\ OwnCommit /\ KindsOfTask
  BY TaskKinds DEF Init, LockHeld, OwnCommit, KindsOfTask, Guarded, Tasks
<1>3. Capture
  BY DEF Init, Capture
<1> QED
  BY <1>1, <1>2, <1>3 DEF IInv

THEOREM Inductive == Spec => []IInv
<1>1. IInv /\ [Next]_vars => IInv'
  BY TypeStep, LockHeldStep, KindsStep, OwnCommitStep, CaptureStep DEF IInv
<1> QED
  BY IInvInit, <1>1, PTL DEF Spec

\* Every reachable state is well typed: versions and commit positions are
\* naturals, a recorded sha never runs ahead of the log, and only a write makes
\* an empty commit.
THEOREM TypeCorrect == Spec => []TypeOK
<1>1. IInv => TypeOK
  BY DEF IInv, TypeOK
<1> QED
  BY <1>1, Inductive, PTL

\* However many callers share a handle, the git processes they wait for write
\* one at a time; what a gc has detached is not one of them.
THEOREM Exclusion == Spec => []HandleExclusion
<1>1. IInv => HandleExclusion
  BY DEF IInv, LockHeld, HandleExclusion, Share, Guarded, Writing
<1> QED
  BY <1>1, Inductive, PTL

\* The sha a call returns is later than the call and never the commit of
\* another caller on the same handle.
THEOREM OwnSha == Spec => []ShaIsOwnCommit
<1>1. IInv => ShaIsOwnCommit
  BY DEF IInv, Typed, OwnCommit, NamesOwn, ShaIsOwnCommit
<1> QED
  BY <1>1, Inductive, PTL

\* What a caller wrote before a call that returned Ok is in some commit, or
\* has been overwritten, under any number of callers and handles.
THEOREM NothingLost == Spec => []OkMeansCaptured
<1>1. IInv => OkMeansCaptured
  BY DEF IInv, Capture, Kept, OkMeansCaptured, Tasks
<1> QED
  BY <1>1, Inductive, PTL

\* A write that reports success left a commit of its author.
THEOREM Audited == Spec => []AuditRecorded
<1>1. IInv => AuditRecorded
  <2> SUFFICES ASSUME IInv, NEW t \in Writers, pc[t] \in {"some", "none"}
               PROVE  \E i \in DOMAIN log : i > asked[t] /\ log[i] = t
    BY DEF AuditRecorded
  <2>1. t \in Tasks /\ pc[t] = "some"
    BY DEF IInv, KindsOfTask, Tasks
  <2>2. \E i \in 1 .. Len(log) : i > asked[t] /\ log[i] = t
    BY <2>1 DEF IInv, OwnCommit, NamesOwn
  <2>3. DOMAIN log = 1 .. Len(log)
    BY DEF IInv, Typed
  <2> QED
    BY <2>2, <2>3
<1> QED
  BY <1>1, Inductive, PTL

=============================================================================
