------------------------------ MODULE MailSync ------------------------------
(***************************************************************************)
(* sync_one_folder (pull/mail.rs) over the IMAP source (source/imap.rs):   *)
(* one mail folder is copied into the backup tree, message by message,     *)
(* driven by the CONDSTORE watermark the last sync left in `_folder.json`. *)
(*                                                                         *)
(* Syncers are the daemon's puller and the MCP writes, each of which syncs *)
(* the folders it touched: nothing keeps them apart.  The server changes   *)
(* between any two of their steps, and the daemon may die there.  Files    *)
(* are named by canonical id (the Message-ID), the server's messages by    *)
(* UID.  Upsets are counted by kind, as in Scheduling.                     *)
(***************************************************************************)
EXTENDS Integers, Sequences, FiniteSets

CONSTANTS
  Syncers,   \* tasks that sync the folder
  Puller,    \* the one that does so again and again
  Messages,  \* canonical ids
  Flags,     \* sets of flags, each one value
  Held,      \* the messages the folder holds at first: [name, flags]
  None,      \* no file
  Kinds,     \* the upsets that may happen
  MaxMoves,  \* bound: changes on the server and upsets, together
  MaxUid     \* bound: messages under one UIDVALIDITY

\* overlap: a sync starts while another runs; again: a message with a known
\* Message-ID arrives (a copy, or moved away and back); renumber: the server
\* assigns new UIDs; crash: the daemon dies; abort: a call to the server fails;
\* disk: a local write or the commit fails; index: a call to the search index
\* fails, or the index could not be opened.
AllKinds == {"overlap", "again", "renumber", "crash", "abort", "disk", "index"}

ASSUME PullerType == Puller \in Syncers
HeldMessage == [name : Messages, flags : Flags]

\* Copies of a message come with the "again" upset.
ASSUME HeldType ==
  /\ Held \in Seq(HeldMessage)
  /\ \A u, v \in DOMAIN Held : Held[u].name = Held[v].name => u = v
ASSUME BoundType == Kinds \subseteq AllKinds /\ MaxMoves \in Nat /\ MaxUid \in Nat

VARIABLES
  mailbox,  \* the messages in order of UID, those expunged included
  validity, \* UIDVALIDITY
  highest,  \* HIGHESTMODSEQ
  eml,      \* canonical ids with an .eml file
  meta,     \* what each .meta.json says: the message's id, flags and modseq
  manifest, \* `_folder.json`: UIDVALIDITY and watermark
  index,    \* what the search index says of each message: id and flags
  pc,       \* where each syncer is
  local,    \* the .meta.json files it read at first
  since,    \* the `_folder.json` it read at first
  seen,     \* UIDVALIDITY and HIGHESTMODSEQ as EXAMINE gave them
  ids,      \* the UIDs that UID SEARCH ALL gave
  todo,     \* the UIDs it has still to fetch
  gone,     \* the canonical ids it has still to remove
  got,      \* the message it is writing or removing
  upsets,   \* how often each upset happened
  moves     \* changes on the server and upsets so far

server == <<mailbox, validity, highest>>
files == <<eml, meta, manifest, index>>
scratch == <<local, since, seen, ids, todo, gone, got>>
env == <<upsets, moves>>
vars == <<server, files, pc, scratch, env>>

NoFile == [id |-> 0, flags |-> None, modseq |-> 0]
NoRow == [id |-> 0, flags |-> None]
NoManifest == [validity |-> 0, modseq |-> 0]
NoGot == [name |-> None, file |-> NoFile]
NoFiles == [c \in Messages |-> NoFile]

Live == {u \in DOMAIN mailbox : mailbox[u].live}
Row(m) == [id |-> m.id, flags |-> m.flags]

Message(c, fl, n) == [name |-> c, flags |-> fl, modseq |-> n, live |-> TRUE]

\* Nothing of the folder is backed up yet.
Init ==
  /\ mailbox = [u \in DOMAIN Held |-> Message(Held[u].name, Held[u].flags, 1)]
  /\ validity = 1
  /\ highest = 1
  /\ eml = {}
  /\ meta = NoFiles
  /\ manifest = NoManifest
  /\ index = [c \in Messages |-> NoRow]
  /\ pc = [s \in Syncers |-> "idle"]
  /\ local = [s \in Syncers |-> NoFiles]
  /\ since = [s \in Syncers |-> NoManifest]
  /\ seen = [s \in Syncers |-> NoManifest]
  /\ ids = [s \in Syncers |-> {}]
  /\ todo = [s \in Syncers |-> {}]
  /\ gone = [s \in Syncers |-> {}]
  /\ got = [s \in Syncers |-> NoGot]
  /\ upsets = [k \in AllKinds |-> 0]
  /\ moves = 0

-----------------------------------------------------------------------------
(* The IMAP server: every change of the folder raises HIGHESTMODSEQ.       *)

Move == moves < MaxMoves /\ moves' = moves + 1
Count(k) == k \in Kinds /\ upsets' = [upsets EXCEPT ![k] = @ + 1]
Change == Move /\ highest' = highest + 1 /\ UNCHANGED <<validity, files, pc, scratch>>

Deliver(c, fl) ==
  /\ Change
  /\ Len(mailbox) < MaxUid
  /\ mailbox' = Append(mailbox, Message(c, fl, highest + 1))
  /\ IF \E u \in DOMAIN mailbox : mailbox[u].name = c THEN Count("again") ELSE UNCHANGED upsets

SetFlags(u, fl) ==
  /\ Change
  /\ u \in Live /\ fl # mailbox[u].flags
  /\ mailbox' = [mailbox EXCEPT ![u].flags = fl, ![u].modseq = highest + 1]
  /\ UNCHANGED upsets

Expunge(u) ==
  /\ Change
  /\ u \in Live
  /\ mailbox' = [mailbox EXCEPT ![u].live = FALSE]
  /\ UNCHANGED upsets

\* The folder is made anew: UIDs count from 1 again, in whatever order, and
\* modification sequences from 1 or on from where they were.
Renumber ==
  /\ Move /\ Count("renumber")
  /\ validity' = validity + 1
  /\ highest' \in {1, highest + 1}
  /\ \E n \in 0 .. Len(mailbox) : \E old \in [1 .. n -> Live] :
       /\ \A u \in Live : \E i \in 1 .. n : old[i] = u
       /\ \A i, j \in 1 .. n : old[i] = old[j] => i = j
       /\ mailbox' = [i \in 1 .. n |-> [mailbox[old[i]] EXCEPT !.modseq = highest']]
  /\ UNCHANGED <<files, pc, scratch>>

-----------------------------------------------------------------------------
(* list_messages                                                           *)

Goto(s, label) == pc' = [pc EXCEPT ![s] = label]
Put(f, s, v) == [f EXCEPT ![s] = v]

\* A sync begins by reading the directory and its `_folder.json`.
ReadLocal(s) ==
  /\ pc[s] = "idle"
  /\ Goto(s, "examine")
  /\ local' = Put(local, s, meta)
  /\ since' = Put(since, s, manifest)
  /\ IF \E t \in Syncers : pc[t] # "idle" THEN Move /\ Count("overlap") ELSE UNCHANGED env
  /\ UNCHANGED <<server, files, seen, ids, todo, gone, got>>

\* Mutant of Removed: an empty listing is not believed.
RemovedUnlessEmpty(s, present) ==
  {c \in Messages : present # {} /\ local[s][c] # NoFile /\ local[s][c].id \notin present}

\* The files whose message the server no longer lists.
Removed(s, present) == {c \in Messages : local[s][c] # NoFile /\ local[s][c].id \notin present}

\* EXAMINE.  An empty folder is not enumerated: everything local is gone.
Examine(s) ==
  /\ pc[s] = "examine"
  /\ seen' = Put(seen, s, [validity |-> validity, modseq |-> highest])
  /\ IF Live = {}
     THEN /\ Goto(s, "apply")
          /\ gone' = Put(gone, s, Removed(s, {}))
          /\ local' = Put(local, s, NoFiles) /\ since' = Put(since, s, NoManifest)
     ELSE Goto(s, "search") /\ UNCHANGED <<gone, local, since>>
  /\ UNCHANGED <<server, files, ids, todo, got, env>>

\* The session lives as long as the folder it has selected.
Selected(s) == seen[s].validity = validity

Search(s) ==
  /\ pc[s] = "search" /\ Selected(s)
  /\ ids' = Put(ids, s, Live)
  /\ Goto(s, "list")
  /\ UNCHANGED <<server, files, local, since, seen, todo, gone, got, env>>

\* FETCH 1:* gives the delta only if the hint is of the same UIDVALIDITY.
UseChangedSince(s) == since[s].validity = seen[s].validity

Changed(s) == {u \in Live : UseChangedSince(s) => mailbox[u].modseq > since[s].modseq}

\* The local file of each id, as `source_to_canonical` has it: any one of
\* several.
Stems(s) ==
  {f \in [{local[s][c].id : c \in {d \in Messages : local[s][d] # NoFile}} -> Messages] :
     \A u \in DOMAIN f : local[s][f[u]] # NoFile /\ local[s][f[u]].id = u}

Same(file, m) == file.flags = m.flags /\ file.modseq = m.modseq

\* Mutant of ToFetch: a message that has a file is not fetched again.
ToFetchNew(s, stem) == {u \in Changed(s) \cup ids[s] : u \notin DOMAIN stem}

\* needs_refetch for the changed, and the backfill of what has no file.
ToFetch(s, stem) ==
  {u \in Changed(s) : u \in DOMAIN stem => ~Same(local[s][stem[u]], mailbox[u])}
    \cup {u \in ids[s] : u \notin DOMAIN stem}

\* The FETCH of the summaries, and what it leaves to do.
List(s) ==
  /\ pc[s] = "list" /\ Selected(s)
  /\ \E stem \in Stems(s) : todo' = Put(todo, s, ToFetch(s, stem))
  /\ gone' = Put(gone, s, Removed(s, ids[s]))
  /\ Goto(s, "apply")
  /\ ids' = Put(ids, s, {}) /\ local' = Put(local, s, NoFiles) /\ since' = Put(since, s, NoManifest)
  /\ UNCHANGED <<server, files, seen, got, env>>

-----------------------------------------------------------------------------
(* fetch_and_write_message, for each message to fetch                      *)

\* Mutant of Fetch: the file is named by the server's id, as it once was.
FetchById(s, u) ==
  /\ pc[s] = "apply" /\ u \in todo[s]
  /\ u \in Live
  /\ got' = Put(got, s, [name |-> u,
                         file |-> [id |-> u, flags |-> mailbox[u].flags, modseq |-> mailbox[u].modseq]])
  /\ todo' = Put(todo, s, todo[s] \ {u})
  /\ Goto(s, "eml")
  /\ UNCHANGED <<server, files, local, since, seen, ids, gone, env>>

\* UID FETCH.  A session that was moved to another folder or made anew in the
\* meantime examines the folder again, and takes what has that UID now.
Fetch(s, u) ==
  /\ pc[s] = "apply" /\ u \in todo[s]
  /\ u \in Live
  /\ got' = Put(got, s, [name |-> mailbox[u].name,
                         file |-> [id |-> u, flags |-> mailbox[u].flags, modseq |-> mailbox[u].modseq]])
  /\ todo' = Put(todo, s, todo[s] \ {u})
  /\ Goto(s, "eml")
  /\ UNCHANGED <<server, files, local, since, seen, ids, gone, env>>

WriteEml(s) ==
  /\ pc[s] = "eml"
  /\ eml' = eml \cup {got[s].name}
  /\ Goto(s, "meta")
  /\ UNCHANGED <<server, meta, manifest, index, scratch, env>>

WriteMeta(s) ==
  /\ pc[s] = "meta"
  /\ meta' = [meta EXCEPT ![got[s].name] = got[s].file]
  /\ Goto(s, "index")
  /\ UNCHANGED <<server, eml, manifest, index, scratch, env>>

\* The index is best effort: a failed call is logged and the sync goes on.
IndexCall(c, row) ==
  \/ index' = [index EXCEPT ![c] = row] /\ UNCHANGED env
  \/ Move /\ Count("index") /\ UNCHANGED index

Upsert(s) ==
  /\ pc[s] = "index"
  /\ IndexCall(got[s].name, Row(got[s].file))
  /\ got' = Put(got, s, NoGot)
  /\ Goto(s, "apply")
  /\ UNCHANGED <<server, eml, meta, manifest, local, since, seen, ids, todo, gone>>

-----------------------------------------------------------------------------
(* The deletion loop, the manifest and the commit                          *)

\* Mutant of Remove: the index keeps its row.
RemoveFile(s, c) ==
  /\ pc[s] = "apply" /\ todo[s] = {} /\ c \in gone[s]
  /\ eml' = eml \ {c}
  /\ gone' = Put(gone, s, gone[s] \ {c})
  /\ got' = Put(got, s, [NoGot EXCEPT !.name = c])
  /\ Goto(s, "unlink")
  /\ UNCHANGED <<server, meta, manifest, index, local, since, seen, ids, todo, env>>

\* The index row and the .eml go first, the .meta.json after them.
Remove(s, c) ==
  /\ pc[s] = "apply" /\ todo[s] = {} /\ c \in gone[s]
  /\ IndexCall(c, NoRow)
  /\ eml' = eml \ {c}
  /\ gone' = Put(gone, s, gone[s] \ {c})
  /\ got' = Put(got, s, [NoGot EXCEPT !.name = c])
  /\ Goto(s, "unlink")
  /\ UNCHANGED <<server, meta, manifest, local, since, seen, ids, todo>>

Unlink(s) ==
  /\ pc[s] = "unlink"
  /\ meta' = [meta EXCEPT ![got[s].name] = NoFile]
  /\ got' = Put(got, s, NoGot)
  /\ Goto(s, "apply")
  /\ UNCHANGED <<server, eml, manifest, index, local, since, seen, ids, todo, gone, env>>

\* Mutant of WriteManifest: the watermark of the server's present state.
WriteManifestNow(s) ==
  /\ pc[s] = "apply" /\ todo[s] = {} /\ gone[s] = {}
  /\ manifest' = [validity |-> validity, modseq |-> highest]
  /\ Goto(s, "commit")
  /\ UNCHANGED <<server, eml, meta, index, scratch, env>>

\* Mutant of WriteManifest: before the messages are fetched.
WriteManifestEarly(s) ==
  /\ pc[s] = "apply" /\ gone[s] = {}
  /\ manifest' = seen[s]
  /\ Goto(s, "commit")
  /\ UNCHANGED <<server, eml, meta, index, scratch, env>>

\* The watermark is the one EXAMINE gave before the messages were listed.
WriteManifest(s) ==
  /\ pc[s] = "apply" /\ todo[s] = {} /\ gone[s] = {}
  /\ manifest' = seen[s]
  /\ Goto(s, "commit")
  /\ UNCHANGED <<server, eml, meta, index, scratch, env>>

\* commit_all (GitStore), which touches no file.
CommitFolder(s) ==
  /\ pc[s] = "commit"
  /\ Goto(s, "idle")
  /\ seen' = Put(seen, s, NoManifest)
  /\ UNCHANGED <<server, files, local, since, ids, todo, gone, got, env>>

-----------------------------------------------------------------------------
(* Failures                                                                *)

Forget(S) ==
  /\ pc' = [s \in Syncers |-> IF s \in S THEN "idle" ELSE pc[s]]
  /\ local' = [s \in Syncers |-> IF s \in S THEN NoFiles ELSE local[s]]
  /\ since' = [s \in Syncers |-> IF s \in S THEN NoManifest ELSE since[s]]
  /\ seen' = [s \in Syncers |-> IF s \in S THEN NoManifest ELSE seen[s]]
  /\ ids' = [s \in Syncers |-> IF s \in S THEN {} ELSE ids[s]]
  /\ todo' = [s \in Syncers |-> IF s \in S THEN {} ELSE todo[s]]
  /\ gone' = [s \in Syncers |-> IF s \in S THEN {} ELSE gone[s]]
  /\ got' = [s \in Syncers |-> IF s \in S THEN NoGot ELSE got[s]]

\* A syncer that is talking to the server.
Talking(s) ==
  \/ pc[s] \in {"examine", "search", "list"}
  \/ pc[s] = "apply" /\ todo[s] # {}

\* The message or the folder is gone: the sync ends with an error, the files
\* it wrote stay, the watermark is the old one.
Lost(s) ==
  /\ \/ pc[s] \in {"search", "list"} /\ ~Selected(s)
     \/ /\ pc[s] = "apply"
        /\ \E u \in todo[s] : ~Selected(s) \/ u \notin Live
  /\ Forget({s})
  /\ UNCHANGED <<server, files, env>>

\* A syncer that writes a file, the manifest included, or commits.
Writing(s) ==
  \/ pc[s] \in {"eml", "meta", "commit"}
  \/ pc[s] = "apply" /\ todo[s] = {} /\ gone[s] = {}

\* A call to the server or a local write fails: the same.  (What removals
\* return is not looked at.)
Abort(s) ==
  /\ Move
  /\ \/ Talking(s) /\ Count("abort")
     \/ Writing(s) /\ Count("disk")
  /\ Forget({s})
  /\ UNCHANGED <<server, files>>

\* The daemon dies, whatever its tasks are doing.
Crash ==
  /\ \E s \in Syncers : pc[s] # "idle"
  /\ Move /\ Count("crash")
  /\ Forget(Syncers)
  /\ UNCHANGED <<server, files>>

-----------------------------------------------------------------------------

Work(s) ==
  \/ Examine(s) \/ Search(s) \/ List(s)
  \/ \E u \in todo[s] : Fetch(s, u)
  \/ WriteEml(s) \/ WriteMeta(s) \/ Upsert(s)
  \/ \E c \in Messages : Remove(s, c)
  \/ Unlink(s) \/ WriteManifest(s) \/ CommitFolder(s) \/ Lost(s)

Environment ==
  \/ \E c \in Messages, fl \in Flags : Deliver(c, fl)
  \/ \E u \in DOMAIN mailbox, fl \in Flags : SetFlags(u, fl)
  \/ \E u \in DOMAIN mailbox : Expunge(u)
  \/ Renumber
  \/ \E s \in Syncers : Abort(s)
  \/ Crash

Next == Environment \/ \E s \in Syncers : ReadLocal(s) \/ Work(s)

Spec == Init /\ [][Next]_vars

\* A sync that began goes on, and the puller begins another at its next tick.
FairSpec ==
  Spec /\ WF_vars(ReadLocal(Puller)) /\ \A s \in Syncers : WF_vars(Work(s))

-----------------------------------------------------------------------------
(* Properties                                                              *)

MessageType == [name : Messages, flags : Flags, modseq : Nat, live : BOOLEAN]
FileType == [id : Nat, flags : Flags \cup {None}, modseq : Nat]
RowType == [id : Nat, flags : Flags \cup {None}]
ManifestType == [validity : Nat, modseq : Nat]

TypeOK ==
  /\ mailbox \in Seq(MessageType)
  /\ validity \in Nat /\ highest \in Nat
  /\ eml \subseteq Messages
  /\ meta \in [Messages -> FileType]
  /\ manifest \in ManifestType
  /\ index \in [Messages -> RowType]
  /\ pc \in [Syncers -> {"idle", "examine", "search", "list", "apply", "eml", "meta",
                         "index", "unlink", "commit"}]
  /\ local \in [Syncers -> [Messages -> FileType]]
  /\ since \in [Syncers -> ManifestType]
  /\ seen \in [Syncers -> ManifestType]
  /\ ids \in [Syncers -> SUBSET Nat]
  /\ todo \in [Syncers -> SUBSET Nat]
  /\ gone \in [Syncers -> SUBSET Messages]
  /\ got \in [Syncers -> [name : Messages \cup {None}, file : FileType]]
  /\ upsets \in [AllKinds -> Nat]
  /\ moves \in Nat

Never(K) == \A k \in K : upsets[k] = 0

\* The watermark speaks of the UIDs the server uses now.
Current == manifest.validity = validity

\* Below the watermark nothing is listed again, so it never passes a message
\* that has no file: what the backfill and the order of a sync's steps are
\* for.  Crashes, failed calls and overlapping syncs included.
NoneStranded ==
  Never({"again", "renumber"}) /\ Current =>
    \A u \in Live : mailbox[u].modseq <= manifest.modseq =>
      meta[mailbox[u].name].id = u

\* Nor does it pass a change of flags that the file does not show yet, as long
\* as one sync runs at a time.
NoneStale ==
  Never({"overlap", "again", "renumber"}) /\ Current =>
    \A u \in Live : mailbox[u].modseq <= manifest.modseq =>
      Same(meta[mailbox[u].name], mailbox[u])

\* What a file must say of a message.
FileOf(c) ==
  IF \E u \in Live : mailbox[u].name = c
  THEN LET u == CHOOSE v \in Live : mailbox[v].name = c
       IN  [id |-> u, flags |-> mailbox[u].flags, modseq |-> mailbox[u].modseq]
  ELSE NoFile

Mirrored ==
  /\ \A c \in Messages : meta[c] = FileOf(c)
  /\ {c \in Messages : meta[c] # NoFile} \subseteq eml
  /\ Never({"crash", "disk"}) => eml = {c \in Messages : meta[c] # NoFile}

\* A sync that ends well while the server stood still leaves an exact copy:
\* one file for each message, with its flags, and no other.  (A sync that ended
\* between an .eml and its .meta.json may leave the .eml over.)
ExactCopy(s) ==
  pc[s] = "commit" /\ seen[s] = [validity |-> validity, modseq |-> highest] => Mirrored

ExactCopyWhenCalm ==
  Never({"overlap", "again", "renumber"}) => \A s \in Syncers : ExactCopy(s)

\* Between syncs the search index says of every message what its file says, if
\* no call to the index failed: nothing but the next change of a message
\* brings its row up to date again.
IndexAgrees ==
  Never({"overlap", "crash", "index"}) /\ (\A s \in Syncers : pc[s] = "idle") =>
    \A c \in Messages : index[c] = Row(meta[c])

\* When the server rests, the backup comes to hold every message and no other,
\* overlapping syncs or not; and their flags too if syncs never overlapped.
Converges ==
  <>[](Never({"again", "renumber"}) =>
         /\ \A c \in Messages : meta[c].id = FileOf(c).id
         /\ Never({"overlap"}) => Mirrored)

=============================================================================
