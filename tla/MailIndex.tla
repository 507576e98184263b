----------------------------- MODULE MailIndex -----------------------------
(***************************************************************************)
(* The search index over the mail folders (index/, and what pull/mail.rs,  *)
(* write/mail.rs and daemon.rs do with it).  The files of every folder have *)
(* one table between them, with one row for each canonical id, and a       *)
(* message keeps its canonical id, and its text, when it moves.            *)
(*                                                                         *)
(* The puller syncs one folder after the other in the order of LIST, and   *)
(* writes rows as it goes; so does, beside it, the refresh after a tool's  *)
(* write, for the folders the tool names; the command "index rebuild", a   *)
(* process of its own, or the daemon at its start walks the files and      *)
(* makes the rows anew.  MailSync has the steps of the sync of one folder  *)
(* against its server; here it finds at once what differs, and handles a   *)
(* message in three steps: its .eml, its .meta.json, its row.              *)
(***************************************************************************)
EXTENDS Naturals, Sequences, SequencesExt, FiniteSets

CONSTANTS Messages,
          Folders,
          ListOrder,    \* the folders in the order of LIST
          NameOrder,    \* the folders in the order of their names
          Under,        \* Under[f]: the folders with a name like f or f/...
          Kinds,        \* the upsets that may happen
          DriftRows, DriftPct,  \* the two thresholds of the start
          MaxMoves,     \* bound: changes on the server, calls and upsets
          MaxTime,      \* bound: seconds
          None

\* noindex: the index cannot be opened or written; abort: a call to the server
\* or a write of a file fails; crash: the daemon dies; rebuild: the command is
\* run; folders: a folder of the account is removed; short: LIST leaves out
\* folders; unreadable: a file is too large for the rebuild, or cannot be read
\* or parsed; tools: a tool writes mail and syncs the folders it names.
AllKinds == {"noindex", "abort", "crash", "rebuild", "folders", "short", "unreadable",
             "tools"}

Syncers == {"puller", "tool"}

Versions == 0..MaxMoves
RowState == [folder : Folders, ver : Versions, indexed : 0..MaxTime]
Read == [id : Messages, ver : Versions]

ASSUME MailIndexAssumption ==
    /\ IsFiniteSet(Folders)
    /\ ListOrder \in SetToSeqs(Folders) /\ NameOrder \in SetToSeqs(Folders)
    /\ Under \in [Folders -> SUBSET Folders] /\ \A f \in Folders : f \in Under[f]
    /\ Kinds \subseteq AllKinds
    /\ DriftRows \in Nat /\ DriftPct \in Nat
    /\ MaxMoves \in Nat /\ MaxTime \in Nat
    /\ None \notin Nat
    /\ None \notin RowState
    /\ None \notin Read

VARIABLES
    mailbox,    \* mailbox[f][m]: the version of message m in folder f, or
                \* None; None for a folder that is not there
    now,        \* the clock, in seconds
    dirs,       \* the folders with a directory
    manifests,  \* those of them with a _folder.json
    emls,       \* emls[f][m]: mtime of the .eml, or None
    metas,      \* metas[f][m]: the version the .meta.json is of, or None
    rows,       \* rows[m]: folder, version and indexed_at of the row, or None
    pc,         \* pc[s]: where syncer s is
    listed,     \* what list_folders gave the puller
    queue,      \* queue[s]: the folders to sync, the current one first
    todo,       \* todo[s]: its messages to fetch and to remove
    cur,        \* cur[s]: the message in hand, as it was fetched
    opened,     \* the syncers whose sync of this folder could open the index
    rpc,        \* where the rebuild is
    force,      \* whether it is forced
    known,      \* known[m]: indexed_at of the rows at its beginning
    dirsLeft,   \* the folders it has still to walk, the current one first
    walk,       \* the files of the current one it has still to look at
    seen,       \* the canonical ids it has met
    errors,     \* the files it could make no row of, with their folders
    got,        \* the file it has read
    held,       \* whether it has a transaction open
    alone,      \* history: no sync has run since the rebuild began
    inStep,     \* history: every change of a file since the last forced
                \* rebuild was followed by the change of its row, one sync at
                \* a time
    moves

server == <<mailbox, now>>
tree == <<dirs, manifests, emls, metas>>
syncers == <<pc, listed, queue, todo, cur, opened>>
rebuild == <<rpc, force, known, dirsLeft, walk, seen, errors, got, held>>
vars == <<server, tree, rows, syncers, rebuild, alone, inStep, moves>>

Nothing == [m \in Messages |-> None]
NoTodo == [fetch |-> {}, remove |-> {}]
Each(x) == [s \in Syncers |-> x]

Init ==
    /\ mailbox = [f \in Folders |-> Nothing]
    /\ now = 0
    /\ dirs = {} /\ manifests = {}
    /\ emls = [f \in Folders |-> Nothing] /\ metas = [f \in Folders |-> Nothing]
    /\ rows = Nothing
    /\ pc = [Each("idle") EXCEPT !["puller"] = "starting"]
    /\ listed = {} /\ queue = Each(<<>>) /\ todo = Each(NoTodo)
    /\ cur = Each(None) /\ opened = Syncers
    /\ rpc = "idle" /\ force = FALSE /\ known = Nothing /\ dirsLeft = <<>>
    /\ walk = {} /\ seen = {} /\ errors = {} /\ got = None /\ held = FALSE
    /\ alone = TRUE /\ inStep = TRUE
    /\ moves = 0

Move == moves < MaxMoves /\ moves' = moves + 1
Upset(kind) == kind \in Kinds /\ Move
----------------------------------------------------------------------------
(***************************************************************************)
(* The account                                                             *)
(***************************************************************************)

Here(f, m) == mailbox[f] # None /\ mailbox[f][m] # None

\* A message arrives, or changes.
Arrive(f, m) ==
    /\ mailbox[f] # None
    /\ mailbox' = [mailbox EXCEPT ![f][m] = moves]

Expunge(f, m) ==
    /\ Here(f, m)
    /\ mailbox' = [mailbox EXCEPT ![f][m] = None]

MoveTo(f, g, m) ==
    /\ f # g
    /\ Here(f, m) /\ mailbox[g] # None
    /\ mailbox' = [mailbox EXCEPT ![f][m] = None, ![g][m] = moves]

FolderGoes(f) ==
    /\ "folders" \in Kinds
    /\ mailbox[f] # None
    /\ mailbox' = [mailbox EXCEPT ![f] = None]

FolderComes(f) ==
    /\ mailbox[f] = None
    /\ mailbox' = [mailbox EXCEPT ![f] = Nothing]

Account ==
    /\ Move
    /\ \E f \in Folders :
        \/ FolderGoes(f) \/ FolderComes(f)
        \/ \E m \in Messages :
            Arrive(f, m) \/ Expunge(f, m) \/ \E g \in Folders : MoveTo(f, g, m)
    /\ UNCHANGED <<now, tree, rows, syncers, rebuild, alone, inStep>>

Tick ==
    /\ now < MaxTime
    /\ now' = now + 1
    /\ UNCHANGED <<mailbox, tree, rows, syncers, rebuild, alone, inStep, moves>>
----------------------------------------------------------------------------
(***************************************************************************)
(* The puller, and the refresh after a tool's write                        *)
(***************************************************************************)

Rest == UNCHANGED <<server, rebuild, alone>>

Busy(s) == pc[s] \notin {"starting", "rebuilding", "idle"}
Quiet == \A s \in Syncers : ~Busy(s)

\* The folders of S in the order that the whole list has.
InOrder(S, order) ==
    {q \in SetToSeqs(S) : \A j, k \in DOMAIN q : j < k =>
        \E a, b \in DOMAIN order : a < b /\ order[a] = q[j] /\ order[b] = q[k]}

\* A sync of the folders F.  Beside another one, or beside a rebuild, it cannot
\* answer for the rows.
Pull(s, F) ==
    /\ pc[s] = "idle"
    /\ \E q \in InOrder(F, ListOrder) : queue' = [queue EXCEPT ![s] = q]
    /\ pc' = [pc EXCEPT ![s] = "folder"]
    /\ alone' = FALSE
    /\ inStep' = (inStep /\ rpc = "idle" /\ Quiet)
    /\ UNCHANGED <<server, tree, rows, rebuild, todo, cur, opened>>

Present == {f \in Folders : mailbox[f] # None}

\* pull_mail
PullStart ==
    /\ \/ listed' = Present /\ UNCHANGED moves
       \/ listed' \in SUBSET Present /\ Upset("short")
    /\ Pull("puller", listed')

\* sync_folders: some of the folders, and none is cleaned up.  The daemon
\* answers tools once it has started.
ToolSync ==
    /\ Upset("tools")
    /\ pc["puller"] \notin {"starting", "rebuilding"}
    /\ \E F \in SUBSET Present \ {{}} : Pull("tool", F)
    /\ UNCHANGED listed

\* The beginning of sync_one_folder: the index is opened, and the listing
\* compared with the files.
SyncFolder(s) ==
    /\ pc[s] = "folder"
    /\ queue[s] # <<>>
    /\ mailbox[Head(queue[s])] # None
    /\ LET f == Head(queue[s]) IN
       todo' = [todo EXCEPT ![s] =
           [fetch |-> {m \in Messages : Here(f, m) /\ metas[f][m] # mailbox[f][m]},
            remove |-> {m \in Messages : metas[f][m] # None /\ ~Here(f, m)}]]
    /\ pc' = [pc EXCEPT ![s] = "messages"]
    /\ \/ UNCHANGED <<opened, moves>>
       \/ opened' = opened \ {s} /\ Upset("noindex")
    /\ UNCHANGED <<tree, rows, listed, queue, cur, inStep>> /\ Rest

\* fetch_and_write_message: the .eml, the .meta.json, the row.
Fetch(s, m) ==
    /\ pc[s] = "messages"
    /\ m \in todo[s].fetch
    /\ LET f == Head(queue[s]) IN
       /\ Here(f, m)
       /\ emls' = [emls EXCEPT ![f][m] = now]
       /\ dirs' = dirs \cup {f}
       /\ cur' = [cur EXCEPT ![s] = [id |-> m, ver |-> mailbox[f][m]]]
    /\ todo' = [todo EXCEPT ![s].fetch = @ \ {m}]
    /\ pc' = [pc EXCEPT ![s] = "meta"]
    /\ UNCHANGED <<manifests, metas, rows, listed, queue, opened, inStep, moves>> /\ Rest

WriteMeta(s) ==
    /\ pc[s] = "meta"
    /\ metas' = [metas EXCEPT ![Head(queue[s])][cur[s].id] = cur[s].ver]
    /\ dirs' = dirs \cup {Head(queue[s])}
    /\ pc' = [pc EXCEPT ![s] = "index"]
    /\ UNCHANGED <<manifests, emls, rows, listed, queue, todo, cur, opened, inStep, moves>>
    /\ Rest

Row(f, v) == [folder |-> f, ver |-> v, indexed |-> now]

\* A write of rows: none without the index, one that fails is logged and
\* passed over, and one waits for the transaction of a rebuild.
WriteRows(s, r) ==
    \/ s \in opened /\ ~held /\ rows' = r /\ UNCHANGED <<inStep, moves>>
    \/ s \in opened /\ Upset("noindex") /\ inStep' = FALSE /\ UNCHANGED rows
    \/ s \notin opened /\ inStep' = FALSE /\ UNCHANGED <<rows, moves>>

Index(s) ==
    /\ pc[s] = "index"
    /\ WriteRows(s, [rows EXCEPT ![cur[s].id] = Row(Head(queue[s]), cur[s].ver)])
    /\ cur' = [cur EXCEPT ![s] = None]
    /\ pc' = [pc EXCEPT ![s] = "messages"]
    /\ UNCHANGED <<tree, listed, queue, todo, opened>> /\ Rest

\* A message that is gone from the folder: its row, which may be that of
\* another folder, then its files.
Removal(s, m, r) ==
    /\ pc[s] = "messages"
    /\ todo[s].fetch = {}
    /\ m \in todo[s].remove
    /\ WriteRows(s, r)
    /\ cur' = [cur EXCEPT ![s] = [id |-> m, ver |-> 0]]
    /\ todo' = [todo EXCEPT ![s].remove = @ \ {m}]
    /\ pc' = [pc EXCEPT ![s] = "remove"]
    /\ UNCHANGED <<tree, listed, queue, opened>> /\ Rest

\* Mutant: a message that is gone from a folder keeps its row.
UnindexNothing(s, m) == Removal(s, m, rows)

Unindex(s, m) == Removal(s, m, [rows EXCEPT ![m] = None])

RemoveEml(s) ==
    /\ pc[s] = "remove"
    /\ emls' = [emls EXCEPT ![Head(queue[s])][cur[s].id] = None]
    /\ pc' = [pc EXCEPT ![s] = "forget"]
    /\ UNCHANGED <<dirs, manifests, metas, rows, listed, queue, todo, cur, opened, inStep, moves>>
    /\ Rest

RemoveMeta(s) ==
    /\ pc[s] = "forget"
    /\ metas' = [metas EXCEPT ![Head(queue[s])][cur[s].id] = None]
    /\ cur' = [cur EXCEPT ![s] = None]
    /\ pc' = [pc EXCEPT ![s] = "messages"]
    /\ UNCHANGED <<dirs, manifests, emls, rows, listed, queue, todo, opened, inStep, moves>>
    /\ Rest

\* The manifest.  The sync of a tool ends with its last folder.
FolderDone(s) ==
    /\ pc[s] = "messages"
    /\ todo[s] = NoTodo
    /\ manifests' = manifests \cup {Head(queue[s])}
    /\ dirs' = dirs \cup {Head(queue[s])}
    /\ queue' = [queue EXCEPT ![s] = Tail(@)]
    /\ pc' = [pc EXCEPT ![s] =
                 IF s = "tool" /\ Tail(queue[s]) = <<>> THEN "idle" ELSE "folder"]
    /\ opened' = opened \cup {s}
    /\ UNCHANGED <<emls, metas, rows, listed, todo, cur, inStep, moves>> /\ Rest

\* The folders to remove.  An empty list, or one that would remove more than
\* half of the directories, is not believed.
Stale ==
    LET gone == dirs \ listed
    IN  IF listed = {} \/ 2 * Cardinality(gone) > Cardinality(dirs) THEN {} ELSE gone

\* sweep_index_for_removed_folder: the rows of the folder and of those below
\* it; without a manifest, those of its messages.
RowsOf(gone) ==
    {m \in Messages : rows[m] # None /\ \E f \in gone :
        IF f \in manifests THEN rows[m].folder \in Under[f] ELSE metas[f][m] # None}

\* cleanup_removed_folders; without the index the rows stay.
Cleanup ==
    /\ pc["puller"] = "folder"
    /\ queue["puller"] = <<>>
    /\ \/ /\ ~held
          /\ rows' = [m \in Messages |-> IF m \in RowsOf(Stale) THEN None ELSE rows[m]]
          /\ UNCHANGED <<inStep, moves>>
       \/ Stale # {} /\ Upset("noindex") /\ inStep' = FALSE /\ UNCHANGED rows
    /\ dirs' = dirs \ Stale /\ manifests' = manifests \ Stale
    /\ emls' = [f \in Folders |-> IF f \in Stale THEN Nothing ELSE emls[f]]
    /\ metas' = [f \in Folders |-> IF f \in Stale THEN Nothing ELSE metas[f]]
    /\ pc' = [pc EXCEPT !["puller"] = "idle"] /\ listed' = {}
    /\ UNCHANGED <<queue, todo, cur, opened>> /\ Rest

\* A call to the server fails, for the folder or the message is gone or for
\* reasons of its own, or a file cannot be written: the .eml, the .meta.json, or
\* the attachments between it and the row.
Abort(s) ==
    /\ pc[s] \in {"folder", "messages", "meta", "index"}
    /\ \/ Upset("abort")
       \/ /\ queue[s] # <<>>
          /\ \/ pc[s] = "folder" /\ mailbox[Head(queue[s])] = None
             \/ pc[s] = "messages" /\ \E m \in todo[s].fetch : ~Here(Head(queue[s]), m)
          /\ UNCHANGED moves
    /\ inStep' = (inStep /\ pc[s] # "index")
    /\ pc' = [pc EXCEPT ![s] = "idle"]
    /\ listed' = IF s = "puller" THEN {} ELSE listed
    /\ queue' = [queue EXCEPT ![s] = <<>>]
    /\ todo' = [todo EXCEPT ![s] = NoTodo]
    /\ cur' = [cur EXCEPT ![s] = None]
    /\ opened' = opened \cup {s}
    /\ UNCHANGED <<tree, rows>> /\ Rest
----------------------------------------------------------------------------
(***************************************************************************)
(* rebuild_from_disk                                                       *)
(***************************************************************************)

\* A forced rebuild drops every row first and skips no file.
Begin(f) ==
    /\ rpc = "idle"
    /\ rpc' = "walk"
    /\ force' = f
    /\ rows' = IF f THEN Nothing ELSE rows
    /\ known' = [m \in Messages |->
                   IF f \/ rows[m] = None THEN None ELSE rows[m].indexed]
    /\ dirsLeft' \in InOrder(dirs, NameOrder)
    /\ seen' = {} /\ errors' = {}
    /\ UNCHANGED <<server, tree, walk, got, held>>

\* A directory that cannot be read is passed over, and its ids are not noted.
EnterFolder ==
    /\ rpc = "walk"
    /\ dirsLeft # <<>>
    /\ \/ /\ walk' = {m \in Messages : emls[Head(dirsLeft)][m] # None}
          /\ rpc' = "folder"
          /\ UNCHANGED <<dirsLeft, errors, moves>>
       \/ /\ Upset("unreadable")
          /\ errors' = errors \cup ({Head(dirsLeft)} \X Messages)
          /\ dirsLeft' = Tail(dirsLeft)
          /\ UNCHANGED <<rpc, walk>>
    /\ UNCHANGED <<rows, force, known, seen, got, held>>

\* file mtime <= indexed_at: already current.
Current(m) ==
    LET mtime == emls[Head(dirsLeft)][m]
    IN  known[m] # None /\ mtime # None /\ mtime <= known[m]

\* The file is too large, or it or its .meta.json is not there or cannot be read
\* or parsed: counted, and passed over.
Refused(m) ==
    /\ errors' = errors \cup {<<Head(dirsLeft), m>>}
    /\ \/ /\ emls[Head(dirsLeft)][m] = None \/ metas[Head(dirsLeft)][m] = None
          /\ UNCHANGED moves
       \/ Upset("unreadable")
    /\ UNCHANGED <<rpc, got>>

TakeOne(m, noted) ==
    /\ rpc = "folder"
    /\ m \in walk
    /\ walk' = walk \ {m}
    /\ seen' = noted
    /\ \/ Current(m) /\ UNCHANGED <<rpc, got, errors, moves>>
       \/ ~Current(m) /\ Refused(m)
       \/ /\ ~Current(m)
          /\ LET f == Head(dirsLeft) IN
             /\ emls[f][m] # None /\ metas[f][m] # None
             /\ got' = [id |-> m, ver |-> metas[f][m]]
          /\ rpc' = "got"
          /\ UNCHANGED <<errors, moves>>
    /\ UNCHANGED <<rows, force, known, dirsLeft, held>>

\* Mutant: the id of a file that is skipped is not noted.
TakeUnnoted(m) == TakeOne(m, IF Current(m) THEN seen ELSE seen \cup {m})

\* A file: noted, then skipped when it is current, refused, or read.
Take(m) == TakeOne(m, seen \cup {m})

\* The row of the file that was read, in a transaction that stays open until
\* the folder is through.
Upsert ==
    /\ rpc = "got"
    /\ \/ /\ rows' = [rows EXCEPT ![got.id] = Row(Head(dirsLeft), got.ver)]
          /\ UNCHANGED <<errors, moves>>
       \/ /\ Upset("noindex")
          /\ errors' = errors \cup {<<Head(dirsLeft), got.id>>}
          /\ UNCHANGED rows
    /\ held' = TRUE
    /\ got' = None
    /\ rpc' = "folder"
    /\ UNCHANGED <<force, known, dirsLeft, walk, seen>>

\* Mutant: the transaction is not committed.
LeaveFolderOpen ==
    /\ rpc = "folder"
    /\ walk = {}
    /\ dirsLeft' = Tail(dirsLeft)
    /\ rpc' = "walk"
    /\ UNCHANGED <<rows, force, known, walk, seen, errors, got, held, moves>>

LeaveFolder ==
    /\ rpc = "folder"
    /\ walk = {}
    /\ held' = FALSE
    /\ dirsLeft' = Tail(dirsLeft)
    /\ rpc' = "walk"
    /\ UNCHANGED <<rows, force, known, walk, seen, errors, got, moves>>

Walk ==
    /\ EnterFolder \/ (\E m \in Messages : Take(m)) \/ Upsert \/ LeaveFolder
    /\ UNCHANGED <<server, tree, syncers, alone, inStep>>

\* A rebuild ends.  One of the start lets the puller go.
RebuildEnds ==
    /\ rpc' = "idle" /\ force' = FALSE /\ known' = Nothing /\ dirsLeft' = <<>>
    /\ walk' = {} /\ seen' = {} /\ errors' = {} /\ got' = None /\ held' = FALSE

LetGo ==
    /\ pc' = [pc EXCEPT !["puller"] = IF @ = "rebuilding" THEN "idle" ELSE @]
    /\ UNCHANGED <<server, tree, listed, queue, todo, cur, opened, alone>>

\* sweep_orphans
Sweep ==
    /\ rpc = "walk"
    /\ dirsLeft = <<>>
    /\ rows' = [m \in Messages |-> IF m \in seen THEN rows[m] ELSE None]
    /\ inStep' = (inStep \/ (force /\ alone))
    /\ RebuildEnds /\ LetGo
    /\ UNCHANGED moves

\* The table or the transaction fails, or the command is killed: there is no
\* sweep.  Inside a transaction, which is rolled back, it is as if before it.
RebuildFails ==
    /\ rpc # "idle" /\ ~held
    /\ Upset("noindex")
    /\ RebuildEnds /\ LetGo
    /\ UNCHANGED <<rows, inStep>>

\* pimsteward index rebuild [--force]
Command ==
    /\ Upset("rebuild")
    /\ \E f \in BOOLEAN : Begin(f)
    /\ alone' = Quiet
    /\ inStep' = (inStep /\ Quiet)
    /\ UNCHANGED syncers
----------------------------------------------------------------------------
(***************************************************************************)
(* The daemon                                                              *)
(***************************************************************************)

Diff(a, b) == IF a > b THEN a - b ELSE b - a

\* drift_triggers_rebuild: both thresholds.
Drift(idx, disk) ==
    /\ disk > 0
    /\ Diff(idx, disk) > DriftRows
    /\ Diff(idx, disk) * 100 > DriftPct * disk

RowCount == Cardinality({m \in Messages : rows[m] # None})
FileCount == Cardinality({x \in Folders \X Messages : emls[x[1]][x[2]] # None})

NeedsRebuild == (RowCount = 0 /\ FileCount > 0) \/ Drift(RowCount, FileCount)

\* maybe_rebuild_index_on_startup, before the puller is spawned and before any
\* tool is served; it is passed over when the index cannot be opened.
Start ==
    /\ pc["puller"] = "starting"
    /\ \/ /\ NeedsRebuild
          /\ Begin(FALSE)
          /\ pc' = [pc EXCEPT !["puller"] = "rebuilding"]
          /\ alone' = TRUE
          /\ UNCHANGED moves
       \/ /\ \/ ~NeedsRebuild /\ UNCHANGED moves
             \/ Upset("noindex")
          /\ pc' = [pc EXCEPT !["puller"] = "idle"]
          /\ UNCHANGED <<server, tree, rows, rebuild, alone>>
    /\ UNCHANGED <<listed, queue, todo, cur, opened, inStep>>

\* The daemon dies and starts again.  A file whose row was not written yet
\* stays as it is.  A death inside a transaction, which is rolled back, is
\* one before it: nothing else moves while the start rebuilds.
Crash ==
    /\ pc["puller"] # "starting"
    /\ Upset("crash")
    /\ pc' = [Each("idle") EXCEPT !["puller"] = "starting"]
    /\ listed' = {} /\ queue' = Each(<<>>) /\ todo' = Each(NoTodo)
    /\ cur' = Each(None) /\ opened' = Syncers
    /\ inStep' = (inStep /\ \A s \in Syncers : pc[s] # "index")
    /\ IF pc["puller"] = "rebuilding" THEN ~held /\ RebuildEnds ELSE UNCHANGED rebuild
    /\ UNCHANGED <<server, tree, rows, alone>>

Next ==
    \/ Account \/ Tick
    \/ PullStart \/ ToolSync \/ Cleanup
    \/ \E s \in Syncers :
        \/ SyncFolder(s) \/ WriteMeta(s) \/ Index(s) \/ RemoveEml(s) \/ RemoveMeta(s)
        \/ FolderDone(s) \/ Abort(s)
        \/ \E m \in Messages : Fetch(s, m) \/ Unindex(s, m)
    \/ Command \/ Walk \/ Sweep \/ RebuildFails
    \/ Start \/ Crash

Spec == Init /\ [][Next]_vars
----------------------------------------------------------------------------
(***************************************************************************)
(* Properties                                                              *)
(***************************************************************************)

Opt(S) == S \cup {None}

\* Every variable holds what the code can put there: a message is in hand only
\* between the first and the last step of its handling, and the rebuild has a
\* transaction open only inside a folder (pull/mail.rs, index/rebuild.rs).
TypeOK ==
    /\ mailbox \in [Folders -> Opt([Messages -> Opt(Versions)])]
    /\ now \in 0..MaxTime
    /\ manifests \subseteq dirs /\ dirs \subseteq Folders
    /\ emls \in [Folders -> [Messages -> Opt(0..MaxTime)]]
    /\ metas \in [Folders -> [Messages -> Opt(Versions)]]
    /\ rows \in [Messages -> Opt(RowState)]
    /\ pc \in [Syncers -> {"starting", "rebuilding", "idle", "folder", "messages", "meta",
                           "index", "remove", "forget"}]
    /\ listed \subseteq Folders /\ queue \in [Syncers -> Seq(Folders)]
    /\ todo \in [Syncers -> [fetch : SUBSET Messages, remove : SUBSET Messages]]
    /\ cur \in [Syncers -> Opt(Read)]
    /\ \A s \in Syncers : cur[s] # None <=> pc[s] \in {"meta", "index", "remove", "forget"}
    /\ rpc \in {"idle", "walk", "folder", "got"}
    /\ known \in [Messages -> Opt(0..MaxTime)]
    /\ dirsLeft \in Seq(Folders)
    /\ seen \subseteq Messages /\ walk \subseteq Messages /\ errors \subseteq Folders \X Messages
    /\ got \in Opt(Read) /\ (got # None <=> rpc = "got")
    /\ (held => rpc \in {"folder", "got"})
    /\ opened \subseteq Syncers /\ force \in BOOLEAN /\ held \in BOOLEAN
    /\ alone \in BOOLEAN /\ inStep \in BOOLEAN
    /\ moves \in 0..MaxMoves

AtRest == rpc = "idle" /\ Quiet

\* Between syncs every row stands for the files of its folder, as they are now:
\* a search result can be read.  The rows of all folders share one key, so it
\* takes the row's last writer and every remover of a copy to agree, through
\* failed calls, a short list of folders and a rebuild beside them.  It is not
\* so after a sync that ran beside another or beside a rebuild, or when the
\* index failed, or a sync ended or died between the files and the row; a
\* forced rebuild mends it.
RowsHaveFiles ==
    AtRest /\ inStep =>
        \A m \in Messages : rows[m] # None =>
            /\ emls[rows[m].folder][m] # None
            /\ metas[rows[m].folder][m] = rows[m].ver

\* A rebuild that no sync overlapped, whatever state it began in, ends its sweep
\* with rows for messages that have an .eml, and with a row for every .eml that
\* it does not count as an error (one without .meta.json, too large, or that
\* cannot be read or written): it neither sweeps a row whose file it only
\* skipped nor keeps one without a file (index/rebuild.rs).
RebuildCovers ==
    [][Sweep /\ alone =>
        \A m \in Messages :
            /\ rows'[m] # None => \E f \in Folders : emls[f][m] # None
            /\ \A f \in Folders :
                 emls[f][m] # None /\ <<f, m>> \notin errors => rows'[m] # None
      ]_vars

\* docs/specs/2026-04-20-local-search-index-design.md: "Index stays consistent
\* across moves with no special handling."  Once the files are what the server
\* has, a message that is in one folder is found there.
MovesStayFound ==
    AtRest /\ inStep /\ (\A f \in Folders, m \in Messages :
        IF Here(f, m) THEN emls[f][m] # None /\ metas[f][m] = mailbox[f][m]
                      ELSE emls[f][m] = None) =>
        \A m \in Messages : \A f \in Folders :
            Here(f, m) /\ (\A g \in Folders \ {f} : ~Here(g, m)) =>
                rows[m] # None /\ rows[m].folder = f
=============================================================================
