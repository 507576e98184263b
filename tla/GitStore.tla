------------------------------ MODULE GitStore ------------------------------
(***************************************************************************)
(* The git-backed store (store/mod.rs): commit_all, empty_commit and gc    *)
(* over one working tree, each a sequence of separate `git` processes      *)
(* serialised by the mutex of the Repo handle the caller holds.            *)
(*                                                                         *)
(* Tasks are the callers: the pullers and the gc timer, which share one    *)
(* handle, and the MCP requests, each of which opens a handle of its own   *)
(* (daemon.rs).  LockOf says which mutex a task's handle carries, so one   *)
(* module covers both wirings.  Git itself is external: what matters of it *)
(* is .git/index.lock, which `add` and `commit` die on when it is taken    *)
(* and `status` takes when it can, and that `gc --auto` detaches its       *)
(* repack (gc.autoDetach): the process under the guard ends, the repack    *)
(* goes on under none.                                                     *)
(***************************************************************************)
EXTENDS Integers, Sequences

CONSTANTS
  Pullers,     \* tasks that call commit_all only
  Writers,     \* tasks that record an audit commit: commit_all, else empty_commit
  GcTasks,     \* tasks that call gc
  Locks,       \* the commit_lock mutexes, one per Repo::open_or_init
  LockOf,      \* the mutex of the handle each task holds
  Paths,       \* files of the working tree
  None,        \* "nobody"
  MaxWrites,   \* bound: file versions written
  MaxCommits   \* bound: commits after which no call starts

Tasks == Pullers \cup Writers \cup GcTasks

ASSUME TaskKinds ==
  /\ Pullers \cap Writers = {}
  /\ Pullers \cap GcTasks = {}
  /\ Writers \cap GcTasks = {}
  /\ None \notin Tasks
ASSUME HandleType == LockOf \in [Tasks -> Locks]
ASSUME Bounds == MaxWrites \in Nat /\ MaxCommits \in Nat

VARIABLES
  tree,       \* version of each file in the working tree (0: as first committed)
  index,      \* version of each file staged in the git index
  head,       \* version of each file in the HEAD commit
  log,        \* the author of every commit, oldest first; a sha is a position
  indexLock,  \* the task whose git process holds .git/index.lock, or None
  lock,       \* the task that holds each commit_lock, or None
  repack,     \* "running" while a repack that a gc has detached goes on
  pc,         \* where each task is
  sha,        \* what rev-parse HEAD told each task in its last call (0: nothing)
  asked,      \* history: how many commits there were when that call began
  fresh,      \* the last file version written
  wrote,      \* history: what each task wrote and has not yet been told is safe
  captured    \* history: the file versions that some commit holds

vars == <<tree, index, head, log, indexLock, lock, repack, pc, sha, asked, fresh, wrote,
          captured>>
call == <<sha, asked>>
files == <<tree, index, head, log, fresh, wrote, captured>>
store == <<files, repack>>

PC == {"idle", "status", "wait", "recheck", "dirty", "add", "staged", "commit",
       "committed", "auditwait", "empty", "gc", "some", "none", "err"}

\* The steps a task takes with its commit_lock held: from .lock() until the
\* guard is dropped.
Guarded == {"recheck", "dirty", "add", "staged", "commit", "committed", "empty", "gc"}

\* A git process that some caller waits for and that rewrites the index, a ref
\* or the object store.
Writing == {"add", "commit", "empty", "gc"}

Init ==
  /\ tree = [p \in Paths |-> 0]
  /\ index = tree
  /\ head = tree
  /\ log = <<>>
  /\ indexLock = None
  /\ lock = [l \in Locks |-> None]
  /\ repack = "no"
  /\ pc = [t \in Tasks |-> "idle"]
  /\ sha = [t \in Tasks |-> 0]
  /\ asked = [t \in Tasks |-> 0]
  /\ fresh = 0
  /\ wrote = [t \in Tasks |-> {}]
  /\ captured = {<<p, 0>> : p \in Paths}

-----------------------------------------------------------------------------
(* Working-tree writes: std::fs, under no lock.                            *)

Write(t, p) ==
  /\ pc[t] = "idle" /\ t \notin GcTasks
  /\ fresh < MaxWrites
  /\ fresh' = fresh + 1
  /\ tree' = [tree EXCEPT ![p] = fresh + 1]
  /\ wrote' = [wrote EXCEPT ![t] = @ \cup {<<p, fresh + 1>>}]
  /\ UNCHANGED <<index, head, log, indexLock, lock, pc, call, captured, repack>>

\* A sync takes back what it wrote before anybody committed it: the deletion
\* loop of a pull removes a file that the same pull created.
TakeBack(t, p) ==
  /\ pc[t] = "idle" /\ t \notin GcTasks
  /\ tree[p] # head[p]
  /\ tree' = [tree EXCEPT ![p] = head[p]]
  /\ UNCHANGED <<index, head, log, indexLock, lock, pc, call, fresh, wrote, captured, repack>>

-----------------------------------------------------------------------------
(* Git processes.  A start takes .git/index.lock, an end gives it back.    *)

Goto(t, label) == pc' = [pc EXCEPT ![t] = label]

Acquire(t) == lock[LockOf[t]] = None /\ lock' = [lock EXCEPT ![LockOf[t]] = t]
Release(t) == lock' = [lock EXCEPT ![LockOf[t]] = None]

\* `git status` refreshes the index when it can take the lock, and does
\* without when it cannot.
TakeIndexLockIfFree(t) == indexLock' = IF indexLock = None THEN t ELSE indexLock
DropIndexLock(t) == indexLock' = IF indexLock = t THEN None ELSE indexLock

\* Mutant of HasChanges: only what is staged counts.
StagedChanges == index # head

\* `git status --porcelain` prints something.
HasChanges == index # head \/ tree # index

\* A step that takes a lock also starts the process it guards: taking it
\* any earlier changes nothing for anybody else.

-----------------------------------------------------------------------------
(* commit_all                                                              *)

CommitAll(t) ==
  /\ pc[t] = "idle" /\ t \notin GcTasks
  /\ Len(log) < MaxCommits
  /\ Goto(t, "status")
  /\ TakeIndexLockIfFree(t)
  /\ asked' = [asked EXCEPT ![t] = Len(log)]
  /\ UNCHANGED <<store, lock, sha>>

\* Mutant of WhenClean: no empty commit when a pull captured the change.
DoneWhenClean(t) == "none"

\* Mutant of WhenClean: every clean call goes on to an empty commit.
AuditAlways(t) == "auditwait"

\* What follows commit_all's Ok(None): a puller is done, a writer records the
\* write with empty_commit.
WhenClean(t) == IF t \in Writers THEN "auditwait" ELSE "none"

\* Fast path: nothing to do, and the lock is never taken.
FastPath(t) ==
  /\ pc[t] = "status"
  /\ Goto(t, IF HasChanges THEN "wait" ELSE WhenClean(t))
  /\ DropIndexLock(t)
  /\ UNCHANGED <<store, lock, call>>

LockForCommit(t) ==
  /\ pc[t] = "wait"
  /\ Acquire(t)
  /\ TakeIndexLockIfFree(t)
  /\ Goto(t, "recheck")
  /\ UNCHANGED <<store, call>>

Rechecked(t) ==
  /\ pc[t] = "recheck"
  /\ DropIndexLock(t)
  /\ \/ HasChanges /\ Goto(t, "dirty") /\ UNCHANGED lock
     \/ ~HasChanges /\ Goto(t, WhenClean(t)) /\ Release(t)
  /\ UNCHANGED <<store, call>>

\* `git add` and `git commit` exit with an error when index.lock exists.
Start(t, from, to) ==
  /\ pc[t] = from
  /\ indexLock = None
  /\ indexLock' = t
  /\ Goto(t, to)
  /\ UNCHANGED <<store, lock, call>>

\* The call then returns Err and its guard is dropped.
Die(t, from) ==
  /\ pc[t] = from
  /\ indexLock # None
  /\ Goto(t, "err")
  /\ Release(t)
  /\ UNCHANGED <<store, indexLock, call>>

Add(t) == Start(t, "dirty", "add") \/ Die(t, "dirty")

\* `git add -A` stages the whole tree, whoever wrote it.
Added(t) ==
  /\ pc[t] = "add"
  /\ index' = tree
  /\ DropIndexLock(t)
  /\ Goto(t, "staged")
  /\ UNCHANGED <<tree, head, log, lock, call, fresh, wrote, captured, repack>>

Commit(t) == Start(t, "staged", "commit") \/ Die(t, "staged")

\* What a commit made by t does to the history.
CommitIndex(t) ==
  /\ head' = index
  /\ log' = Append(log, t)
  /\ captured' = captured \cup {<<p, index[p]>> : p \in Paths}

\* Mutant of Committed: the guard is dropped before rev-parse.
CommittedAndUnlocked(t) ==
  /\ pc[t] = "commit"
  /\ DropIndexLock(t)
  /\ index # head
  /\ CommitIndex(t)
  /\ Goto(t, "committed")
  /\ Release(t)
  /\ UNCHANGED <<tree, index, call, fresh, wrote, repack>>

\* `git commit` refuses when nothing is staged.
Committed(t) ==
  /\ pc[t] = "commit"
  /\ DropIndexLock(t)
  /\ \/ /\ index # head
        /\ CommitIndex(t)
        /\ Goto(t, "committed")
        /\ UNCHANGED lock
     \/ /\ index = head
        /\ Goto(t, "err")
        /\ Release(t)
        /\ UNCHANGED <<head, log, captured>>
  /\ UNCHANGED <<tree, index, call, fresh, wrote, repack>>

RevParse(t) ==
  /\ pc[t] = "committed"
  /\ sha' = [sha EXCEPT ![t] = Len(log)]
  /\ Goto(t, "some")
  /\ Release(t)
  /\ UNCHANGED <<store, indexLock, asked>>

-----------------------------------------------------------------------------
(* empty_commit and gc                                                     *)

\* empty_commit: the process starts, or dies on index.lock.
EmptyCommit(t) ==
  /\ pc[t] = "auditwait"
  /\ lock[LockOf[t]] = None
  /\ \/ /\ indexLock = None
        /\ indexLock' = t
        /\ Acquire(t)
        /\ Goto(t, "empty")
     \/ /\ indexLock # None
        /\ Goto(t, "err")
        /\ UNCHANGED <<indexLock, lock>>
  /\ UNCHANGED <<store, call>>

\* `git commit --allow-empty` commits the index, staged changes included.
EmptyCommitted(t) ==
  /\ pc[t] = "empty"
  /\ CommitIndex(t)
  /\ DropIndexLock(t)
  /\ Goto(t, "committed")
  /\ UNCHANGED <<tree, index, lock, call, fresh, wrote, repack>>

\* Mutant of Gc: outside the mutex.
GcWithoutLock(t) ==
  /\ pc[t] = "idle" /\ t \in GcTasks
  /\ Len(log) < MaxCommits
  /\ Goto(t, "gc")
  /\ UNCHANGED <<store, indexLock, lock, call>>

Gc(t) ==
  /\ pc[t] = "idle" /\ t \in GcTasks
  /\ Len(log) < MaxCommits
  /\ Acquire(t)
  /\ Goto(t, "gc")
  /\ UNCHANGED <<store, indexLock, call>>

\* The process ends, in vain or once it has detached a repack; while one runs,
\* gc.pid makes the next gc end at once.  The timer only logs the outcome.
GcDone(t) ==
  /\ pc[t] = "gc"
  /\ Goto(t, "idle")
  /\ Release(t)
  /\ repack' \in {repack, "running"}
  /\ UNCHANGED <<files, indexLock, call>>

\* External: the detached repack ends.
Repacked ==
  /\ repack = "running"
  /\ repack' = "no"
  /\ UNCHANGED <<files, indexLock, lock, pc, call>>

-----------------------------------------------------------------------------

\* The caller has its answer.  After an Ok it owes nothing more; after an
\* Err its files stay in the tree for a later commit.
Return(t) ==
  /\ pc[t] \in {"some", "none", "err"}
  /\ Goto(t, "idle")
  /\ wrote' = [wrote EXCEPT ![t] = IF pc[t] = "err" THEN @ ELSE {}]
  /\ sha' = [sha EXCEPT ![t] = 0]
  /\ asked' = [asked EXCEPT ![t] = 0]
  /\ UNCHANGED <<tree, index, head, log, indexLock, lock, fresh, captured, repack>>

Step(t) ==
  \/ CommitAll(t) \/ FastPath(t) \/ LockForCommit(t) \/ Rechecked(t)
  \/ Add(t) \/ Added(t) \/ Commit(t) \/ Committed(t) \/ RevParse(t)
  \/ EmptyCommit(t) \/ EmptyCommitted(t)
  \/ Gc(t) \/ GcDone(t) \/ Return(t)

Next ==
  \/ \E t \in Tasks, p \in Paths : Write(t, p) \/ TakeBack(t, p)
  \/ \E t \in Tasks : Step(t)
  \/ Repacked

Spec == Init /\ [][Next]_vars

-----------------------------------------------------------------------------
(* Properties                                                              *)

Typed ==
  /\ tree \in [Paths -> Nat]
  /\ index \in [Paths -> Nat]
  /\ head \in [Paths -> Nat]
  /\ log \in Seq(Tasks)
  /\ indexLock \in Tasks \cup {None}
  /\ lock \in [Locks -> Tasks \cup {None}]
  /\ repack \in {"no", "running"}
  /\ pc \in [Tasks -> PC]
  /\ sha \in [Tasks -> 0 .. Len(log)]
  /\ asked \in [Tasks -> 0 .. Len(log)]
  /\ fresh \in Nat
  /\ wrote \in [Tasks -> SUBSET (Paths \X Nat)]
  /\ captured \in SUBSET (Paths \X Nat)

KindsOfTask ==
  /\ \A t \in GcTasks : pc[t] \in {"idle", "gc"} /\ wrote[t] = {}
  /\ \A t \in Pullers : pc[t] \notin {"gc", "auditwait", "empty"}
  /\ \A t \in Writers : pc[t] \notin {"gc", "none"}

\* Types, and where each kind of task may be: a pull or a gc never makes an
\* empty commit, and a write that succeeds has a commit to name.
TypeOK == Typed /\ KindsOfTask

Share(t, u) == LockOf[t] = LockOf[u]

\* Under one handle the git processes that write exclude each other, commits
\* and gc alike, as long as somebody waits for them: the guard spans the whole
\* of commit_all, empty_commit and gc.  The repack that a gc detaches is not
\* among them: commits run beside it (README, Divergences).
HandleExclusion ==
  \A t, u \in Tasks : t # u /\ Share(t, u) /\ pc[t] \in Writing => pc[u] \notin Writing

\* A call that returns Ok(Some(sha)) names a commit made after it was asked,
\* and no other caller's that shares its handle, although rev-parse HEAD is a
\* process of its own: the scheduling agent diffs the sha it is given.
ShaIsOwnCommit ==
  \A t \in Tasks : pc[t] = "some" =>
    /\ sha[t] > asked[t]
    /\ sha[t] <= Len(log)
    /\ Share(t, log[sha[t]]) => log[sha[t]] = t

\* When a call returns Ok, whatever the caller wrote before it is in some
\* commit, its own or one of whoever staged it first, unless the file has
\* been written again since.
OkMeansCaptured ==
  \A t \in Tasks \ GcTasks : pc[t] \in {"some", "none"} =>
    \A w \in wrote[t] : w \in captured \/ tree[w[1]] # w[2]

\* A write that reports success left a commit under its own author
\* (write/*: commit_all, else empty_commit).
AuditRecorded ==
  \A t \in Writers : pc[t] \in {"some", "none"} =>
    \E i \in DOMAIN log : i > asked[t] /\ log[i] = t

=============================================================================
