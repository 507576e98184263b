----------------------------- MODULE Scheduling -----------------------------
(***************************************************************************)
(* The organizer-side scheduling agent (scheduling/) behind the calendar   *)
(* puller (pull/calendar.rs, spawn_calendar_puller): a pull copies the     *)
(* server's events into the working tree and commits them; the changes of  *)
(* that commit decide which iMIP messages go out, and a ledger of what was *)
(* sent keeps sequence numbers rising and REQUESTs from being repeated.    *)
(*                                                                         *)
(* MCP calls pull too, beside the daemon and under no common lock: see     *)
(* Pulls.  Which files a pull writes is decided by the marks (etag or      *)
(* hash) in the files' meta.json, and body and meta are two writes.        *)
(*                                                                         *)
(* The calendar server, the clients that edit it and the mail transport    *)
(* are the environment.  Upsets are what disturbs the plain story: they    *)
(* are counted by kind, so that a property can say which ones it survives. *)
(***************************************************************************)
EXTENDS Integers, Sequences, FiniteSets

CONSTANTS
  Files,         \* event files of the repository, <calendar>/events/<key>.ics
  Uids,          \* iCalendar UIDs
  UidOf,         \* the UID each file is named after
  SelfOrganized, \* UIDs of the events organised by the alias
  Attendees,     \* attendees other than the alias
  Events,        \* the events clients write: [att, content, seq]
  None,          \* no event, no file
  Kinds,         \* the upsets that may happen
  MaxMoves       \* bound: client edits and upsets, together

\* Everything an event file says that the agent looks at: who is invited, the
\* scheduling-significant fields, and the SEQUENCE the client gave it.
Contents == {e.content : e \in Events}

\* refused: a send fails; timeout: a send is reported as failed and arrives
\* all the same; unrecorded: the ledger cannot be written; exit: a batch ends
\* with an error before its first message; crash: the daemon dies; sweep:
\* another puller's commit takes calendar changes; refresh: an MCP call pulls;
\* reuse: a client goes back to what somebody was already invited to; abort: a
\* pull, or the writing of the first watermark, fails.
AllKinds == {"refused", "timeout", "unrecorded", "exit", "crash", "sweep", "refresh", "reuse",
             "abort"}

\* Who pulls calendars: the daemon's loop, and MCP calls, one at a time.
Pulls == {"daemon", "mcp"}

ASSUME EventType ==
  \A e \in Events : e.att \subseteq Attendees /\ e.seq \in Nat
ASSUME UidType == UidOf \in [Files -> Uids] /\ SelfOrganized \subseteq Uids
ASSUME NoneType == None \notin Events /\ None \notin Files
ASSUME BoundType == Kinds \subseteq AllKinds /\ MaxMoves \in Nat

VARIABLES
  server,    \* the event behind each file on the server, or None
  tree,      \* the event in each file of the working tree, or None
  mark,      \* the event the mark in each file's meta.json stands for, or None
  head,      \* the event in each file of the HEAD commit, or None
  born,      \* whether there is a HEAD at all: "no" or "yes"
  watermark, \* scheduling/watermark: "unset" or "set"
  touched,   \* history: files whose event is newer than the activation
  past,      \* the contents whose start is over
  pc,        \* where the daemon's calendar task is, but for its pull
  at,        \* where each pull is
  remote,    \* what list_events answered the pull that is on
  pending,   \* the files it has still to write or remove
  half,      \* the file whose body it has written and whose meta it has not
  todo,      \* the Outbounds run_scheduling has not reached yet
  cur,       \* the Outbound being sent, `to` holding who is still to be sent
  sent,      \* the messages that left, oldest first
  ledger,    \* scheduling/sent.jsonl: the messages of `sent` it records
  upsets,    \* how often each upset happened
  moves      \* edits and upsets so far

pull == <<at, remote, pending, half>>
batch == <<todo, cur>>
mail == <<sent, ledger>>
env == <<past, upsets, moves>>
files == <<tree, mark>>
fence == <<watermark, touched>>
repo == <<files, head, born, fence>>
vars == <<server, repo, pc, pull, batch, mail, env>>

NoOutbound == [file |-> None, uid |-> None, method |-> None, to |-> {}, content |-> None, seq |-> 0]

Nothing == [f \in Files |-> None]

\* At first the daemon is down and its repository backs up what was on the
\* server, or has no events because no calendar was ever pulled: it may still
\* have commits, of the other pullers.
Init ==
  /\ server \in [Files -> Events \cup {None}]
  /\ tree \in {server, Nothing}
  /\ mark = tree
  /\ head = tree
  /\ born \in {"no", "yes"}
  /\ (\E f \in Files : head[f] # None) => born = "yes"
  /\ watermark = "unset"
  /\ touched = {}
  /\ past = {}
  /\ pc = "down"
  /\ at = [p \in Pulls |-> "idle"]
  /\ remote = [p \in Pulls |-> Nothing]
  /\ pending = [p \in Pulls |-> {}]
  /\ half = [p \in Pulls |-> None]
  /\ todo = {}
  /\ cur = NoOutbound
  /\ sent = <<>>
  /\ ledger = {}
  /\ upsets = [k \in AllKinds |-> 0]
  /\ moves = 0

-----------------------------------------------------------------------------
(* The environment                                                         *)

Move == moves < MaxMoves /\ moves' = moves + 1
Count(k) == k \in Kinds /\ upsets' = [upsets EXCEPT ![k] = @ + 1]
Upset(k) == Move /\ Count(k)

\* Somebody was sent this very content, and the file no longer invites him to it.
GoesBack(f, e) ==
  \E i \in ledger :
    /\ sent[i].uid = UidOf[f] /\ sent[i].method = "REQUEST"
    /\ sent[i].content = e.content /\ sent[i].to \in e.att
    /\ ~ (server[f] # None /\ server[f].content = e.content /\ sent[i].to \in server[f].att)

\* A client creates, changes or removes an event.
Edit(f, e) ==
  /\ Move
  /\ e # server[f]
  /\ server' = [server EXCEPT ![f] = e]
  /\ touched' = touched \cup {f}
  /\ IF e # None /\ GoesBack(f, e) THEN Count("reuse") ELSE UNCHANGED upsets
  /\ UNCHANGED <<past, files, head, born, watermark, pc, pull, batch, mail>>

TimePasses(c) ==
  /\ c \notin past
  /\ past' = past \cup {c}
  /\ UNCHANGED <<server, repo, pc, pull, batch, mail, upsets, moves>>

-----------------------------------------------------------------------------
(* Commits                                                                 *)

\* Repo::commit_all: whatever is in the working tree, whoever put it there.
Commit == head' = tree /\ born' = "yes"

\* The watermark file is written, and committed with whatever is in the tree.
\* The fence lets through what the server has newer than that commit.
SetFence ==
  /\ watermark' = "set"
  /\ touched' = {f \in Files : tree[f] # server[f]}

\* Another puller's commit takes along what the calendar pulls have written.
OtherCommit ==
  /\ Move
  /\ IF tree # head THEN Count("sweep") ELSE UNCHANGED upsets
  /\ Commit
  /\ UNCHANGED <<server, files, fence, pc, pull, batch, mail, past>>

-----------------------------------------------------------------------------
(* What a commit implies: plan_change                                      *)

Significant(old, new) == old.content # new.content

Outbound(f, method, to, e) ==
  [file |-> f, uid |-> UidOf[f], method |-> method, to |-> to,
   content |-> e.content, seq |-> e.seq]

Requests(f, old, new) ==
  IF /\ new # None
     /\ new.content \notin past
     /\ new.att # {}
     /\ old # None => Significant(old, new) \/ new.att \ old.att # {}
  THEN {Outbound(f, "REQUEST", new.att, new)}
  ELSE {}

\* Mutant of Cancels: only a deleted event cancels anybody.
CancelDeleted(f, old, new) ==
  IF old # None /\ new = None /\ old.att # {}
  THEN {Outbound(f, "CANCEL", old.att, old)} ELSE {}

\* Whoever the old version invited and the new one does not.  The SEQUENCE is
\* read from the version that still exists.
Cancels(f, old, new) ==
  LET removed == IF new = None THEN old.att ELSE old.att \ new.att
  IN  IF old # None /\ removed # {}
      THEN {Outbound(f, "CANCEL", removed, IF new = None THEN old ELSE new)}
      ELSE {}

Plan(f, old, new) ==
  IF UidOf[f] \in SelfOrganized /\ old # new
  THEN Requests(f, old, new) \cup Cancels(f, old, new)
  ELSE {}

ChangeFeed(old, new) == UNION {Plan(f, old[f], new[f]) : f \in Files}

-----------------------------------------------------------------------------
(* The calendar task of the daemon                                         *)

\* ensure_watermark_at_head: what is backed up is fenced off, whatever HEAD
\* holds, unless there is no commit yet.
Start ==
  /\ pc = "down"
  /\ pc' = "idle"
  /\ IF watermark = "unset" /\ born = "yes"
     THEN SetFence /\ Commit
     ELSE UNCHANGED <<fence, head, born>>
  /\ UNCHANGED <<server, files, pull, batch, mail, env>>

\* It failed, which is logged: the first pull's commit will set it.
StartUnfenced ==
  /\ pc = "down"
  /\ watermark = "unset"
  /\ Upset("abort")
  /\ pc' = "idle"
  /\ UNCHANGED <<server, repo, pull, batch, mail, past>>

\* A pull lists the events once.
PullStart(p) ==
  /\ at[p] = "idle"
  /\ \/ p = "daemon" /\ pc = "idle" /\ UNCHANGED <<upsets, moves>>
     \/ p = "mcp" /\ pc # "down" /\ Upset("refresh")
  /\ at' = [at EXCEPT ![p] = "listed"]
  /\ remote' = [remote EXCEPT ![p] = server]
  /\ UNCHANGED <<server, repo, pc, pending, half, batch, mail, past>>

\* It compares the listing with the marks, once.
PullCompare(p) ==
  /\ at[p] = "listed"
  /\ at' = [at EXCEPT ![p] = "files"]
  /\ pending' = [pending EXCEPT ![p] = {f \in Files : mark[f] # remote[p][f]}]
  /\ UNCHANGED <<server, repo, pc, remote, half, batch, mail, env>>

\* The body is written, or removed, ...
PullWrite(p, f) ==
  /\ at[p] = "files" /\ half[p] = None /\ f \in pending[p]
  /\ tree' = [tree EXCEPT ![f] = remote[p][f]]
  /\ half' = [half EXCEPT ![p] = f]
  /\ UNCHANGED <<server, mark, head, born, fence, pc, at, remote, pending, batch, mail, env>>

\* ... and then the meta.
PullMark(p) ==
  /\ at[p] = "files" /\ half[p] # None
  /\ mark' = [mark EXCEPT ![half[p]] = remote[p][half[p]]]
  /\ pending' = [pending EXCEPT ![p] = @ \ {half[p]}]
  /\ half' = [half EXCEPT ![p] = None]
  /\ UNCHANGED <<server, tree, head, born, fence, pc, at, remote, batch, mail, env>>

Leaves(p) ==
  /\ at' = [at EXCEPT ![p] = "idle"]
  /\ pending' = [pending EXCEPT ![p] = {}]
  /\ half' = [half EXCEPT ![p] = None]
  /\ remote' = [remote EXCEPT ![p] = Nothing]

\* A read, a write or the commit failed: nothing is scheduled, and what was
\* written stays.
PullAbort(p) ==
  /\ at[p] # "idle"
  /\ Upset("abort")
  /\ Leaves(p)
  /\ UNCHANGED <<server, repo, pc, batch, mail, past>>

\* Mutant of RunScheduling: a missing watermark is set, and the run goes on.
RunUnfenced(changes) ==
  /\ todo' = changes
  /\ IF watermark = "unset" THEN SetFence ELSE UNCHANGED fence
  /\ pc' = "sending"

\* run_scheduling on the pull's commit, up to its loop.  A commit made by this
\* pull is always after the watermark.
RunScheduling(changes) ==
  IF watermark = "unset"
  THEN SetFence /\ todo' = {} /\ pc' = "idle"
  ELSE UNCHANGED fence /\ todo' = changes /\ pc' = "sending"

\* The commit, if there is something to commit.  The daemon hands its own to
\* the agent; no scheduling run follows that of an MCP call.
PullCommit(p) ==
  /\ at[p] = "files" /\ pending[p] = {}
  /\ Leaves(p)
  /\ IF tree # head THEN Commit ELSE UNCHANGED <<head, born>>
  /\ IF p = "daemon" /\ tree # head
     THEN RunScheduling(ChangeFeed(head, tree))
     ELSE UNCHANGED <<fence, todo, pc>>
  /\ UNCHANGED <<server, files, cur, mail, env>>

-----------------------------------------------------------------------------
(* The loop of run_scheduling                                              *)

Largest(S) == CHOOSE m \in S : \A n \in S : n <= m
Larger(m, n) == IF m >= n THEN m ELSE n

Recorded(uid) == {i \in ledger : sent[i].uid = uid}

\* Mutant of ResolveSequence: as high as the last message, not higher.
SameSequence(o) ==
  IF Recorded(o.uid) = {} THEN o.seq
  ELSE Larger(o.seq, Largest({sent[i].seq : i \in Recorded(o.uid)}))

\* resolve_sequence: newer than anything recorded for the event.
ResolveSequence(o) ==
  IF Recorded(o.uid) = {}
  THEN IF o.method = "REQUEST" THEN o.seq ELSE o.seq + 1
  ELSE Larger(o.seq, Largest({sent[i].seq : i \in Recorded(o.uid)}) + 1)

\* Mutant of AlreadySent: a REQUEST is a repeat only under the same SEQUENCE.
AlreadySentSequence(o, r) ==
  \E i \in ledger : /\ sent[i].uid = o.uid /\ sent[i].to = r /\ sent[i].method = o.method
                    /\ sent[i].seq = ResolveSequence(o)

\* already_sent_request by content; already_sent by SEQUENCE for a CANCEL,
\* which ResolveSequence makes impossible.
AlreadySent(o, r) ==
  \E i \in ledger :
    /\ sent[i].uid = o.uid /\ sent[i].to = r /\ sent[i].method = o.method
    /\ IF o.method = "REQUEST" THEN sent[i].content = o.content
                               ELSE sent[i].seq = ResolveSequence(o)

\* The next Outbound: files in any order, a file's REQUEST before its CANCEL.
Begin(o) ==
  /\ pc = "sending" /\ cur.to = {}
  /\ o \in todo
  /\ o.method = "CANCEL" => \A q \in todo : q.file = o.file => q.method = "CANCEL"
  /\ todo' = todo \ {o}
  /\ cur' = [o EXCEPT !.seq = ResolveSequence(o), !.to = {r \in @ : ~AlreadySent(o, r)}]
  /\ UNCHANGED <<server, repo, pc, pull, mail, env>>

\* send_imip hands the message to the transport ...
Leave(r) ==
  /\ pc = "sending" /\ r \in cur.to
  /\ cur' = [cur EXCEPT !.to = @ \ {r}]
  /\ sent' = Append(sent, [cur EXCEPT !.to = r])

\* ... and says so: the message is on its way to the ledger,
Send(r) ==
  /\ Leave(r)
  /\ pc' = "recording"
  /\ UNCHANGED <<server, repo, pull, todo, ledger, env>>

\* or says it failed although the message left,
SendTimeout(r) ==
  /\ Leave(r)
  /\ Upset("timeout")
  /\ UNCHANGED <<server, repo, pc, pull, todo, ledger, past>>

\* Mutant of SendRefused: recorded although it failed.
RefusedRecorded(r) ==
  /\ pc = "sending" /\ r \in cur.to
  /\ Upset("refused")
  /\ cur' = [cur EXCEPT !.to = @ \ {r}]
  /\ ledger' = ledger \cup {Len(sent) + 1}
  /\ UNCHANGED <<server, repo, pc, pull, todo, sent, past>>

\* or fails: logged and skipped.
SendRefused(r) ==
  /\ pc = "sending" /\ r \in cur.to
  /\ Upset("refused")
  /\ cur' = [cur EXCEPT !.to = @ \ {r}]
  /\ UNCHANGED <<server, repo, pc, pull, todo, mail, past>>

\* Mutant of Record: the message is forgotten.
Forget ==
  /\ pc = "recording"
  /\ pc' = "sending"
  /\ UNCHANGED <<server, repo, pull, batch, mail, env>>

Record ==
  /\ pc = "recording"
  /\ ledger' = ledger \cup {Len(sent)}
  /\ pc' = "sending"
  /\ UNCHANGED <<server, repo, pull, batch, sent, env>>

\* run_scheduling returns an error: the rest of the batch is dropped.
BatchFails ==
  /\ pc' = "idle"
  /\ todo' = {} /\ cur' = NoOutbound
  /\ UNCHANGED <<server, repo, pull, mail, past>>

\* The ledger cannot be written, and the message has left.
RecordFails ==
  /\ pc = "recording"
  /\ Upset("unrecorded")
  /\ BatchFails

\* The change feed cannot be read.  (Ledger::load has no error to return.)
FeedFails ==
  /\ pc = "sending" /\ cur = NoOutbound
  /\ Upset("exit")
  /\ BatchFails

\* The batch is over.  What it recorded is committed, along with whatever an
\* MCP call's pull has put into the tree.
Finish ==
  /\ pc = "sending" /\ todo = {} /\ cur.to = {}
  /\ pc' = "idle"
  /\ cur' = NoOutbound
  /\ Commit \/ UNCHANGED <<head, born>>
  /\ UNCHANGED <<server, files, fence, pull, todo, mail, env>>

\* The daemon dies, its MCP calls with it.  Files stay as they are, the batch
\* is gone.
Crash ==
  /\ pc # "down"
  /\ Upset("crash")
  /\ pc' = "down"
  /\ at' = [p \in Pulls |-> "idle"]
  /\ pending' = [p \in Pulls |-> {}]
  /\ half' = [p \in Pulls |-> None]
  /\ remote' = [p \in Pulls |-> Nothing]
  /\ todo' = {} /\ cur' = NoOutbound
  /\ UNCHANGED <<server, repo, mail, past>>

-----------------------------------------------------------------------------

Daemon ==
  \/ Start
  \/ \E p \in Pulls : PullStart(p) \/ PullCompare(p) \/ PullMark(p) \/ PullCommit(p)
  \/ \E p \in Pulls, f \in Files : PullWrite(p, f)
  \/ \E o \in todo : Begin(o)
  \/ \E r \in Attendees : Send(r)
  \/ Record \/ Finish

Environment ==
  \/ \E f \in Files, e \in Events \cup {None} : Edit(f, e)
  \/ \E c \in Contents : TimePasses(c)
  \/ \E r \in Attendees : SendTimeout(r) \/ SendRefused(r)
  \/ \E p \in Pulls : PullAbort(p)
  \/ OtherCommit \/ StartUnfenced \/ RecordFails \/ FeedFails \/ Crash

Next == Daemon \/ Environment

Spec == Init /\ [][Next]_vars

-----------------------------------------------------------------------------
(* Properties                                                              *)

Message == [file : Files, uid : Uids, method : {"REQUEST", "CANCEL"}, to : Attendees,
            content : Contents, seq : Nat]
OutboundType == [file : Files, uid : Uids, method : {"REQUEST", "CANCEL"},
                 to : SUBSET Attendees, content : Contents, seq : Nat]

\* Types; the ledger records no message that never left.
TypeOK ==
  /\ server \in [Files -> Events \cup {None}]
  /\ tree \in [Files -> Events \cup {None}]
  /\ mark \in [Files -> Events \cup {None}]
  /\ head \in [Files -> Events \cup {None}]
  /\ born \in {"no", "yes"}
  /\ watermark \in {"unset", "set"}
  /\ touched \subseteq Files
  /\ past \subseteq Contents
  /\ pc \in {"down", "idle", "sending", "recording"}
  /\ at \in [Pulls -> {"idle", "listed", "files"}]
  /\ remote \in [Pulls -> [Files -> Events \cup {None}]]
  /\ pending \in [Pulls -> SUBSET Files]
  /\ half \in [Pulls -> Files \cup {None}]
  /\ todo \subseteq OutboundType
  /\ cur \in OutboundType \cup {NoOutbound}
  /\ sent \in Seq(Message)
  /\ ledger \subseteq DOMAIN sent
  /\ upsets \in [AllKinds -> Nat]
  /\ moves \in Nat

SameThread(i, j) == sent[i].uid = sent[j].uid /\ sent[i].to = sent[j].to

\* An attendee never gets a message that does not supersede an earlier one the
\* ledger knows of: calendar clients ignore an update whose SEQUENCE is not
\* higher.  Crashes, lost answers and concurrent commits included.
SequenceOrder ==
  \A i \in ledger, j \in DOMAIN sent :
    i < j /\ SameThread(i, j) => sent[i].seq < sent[j].seq

\* Nobody is sent the same REQUEST twice ("no double-send"), unless the first
\* one never reached the ledger.
NoDoubleRequest ==
  \A i \in ledger, j \in DOMAIN sent :
    i < j /\ SameThread(i, j) /\ sent[i].method = "REQUEST" /\ sent[j].method = "REQUEST"
      => sent[i].content # sent[j].content

\* The ledger is an audit trail: a message is missing from it only while it is
\* being recorded, or because the daemon died, was misled or could not write
\* right then.
LedgerAudit ==
  Cardinality(DOMAIN sent \ ledger) <=
    upsets["timeout"] + upsets["crash"] + upsets["unrecorded"]
      + IF pc = "recording" THEN 1 ELSE 0

\* What the activation fenced off stays quiet: no message leaves about an event
\* that was backed up as it was on the server when the watermark was set, and
\* that nobody has edited since, whatever fails and wherever the daemon dies.
\* (An MCP call's pull that listed an older version may put that one back, and
\* undoing it looks like an edit.)
Fenced ==
  upsets["refresh"] = 0 => \A i \in DOMAIN sent : sent[i].file \in touched

Latest(uid, r) ==
  LET thread == {i \in DOMAIN sent : sent[i].uid = uid /\ sent[i].to = r}
  IN  IF thread = {} THEN 0 ELSE Largest(thread)

Invited(uid, r) ==
  Latest(uid, r) # 0 /\ sent[Latest(uid, r)].method = "REQUEST"

InvitedTo(uid, r, e) == Invited(uid, r) /\ sent[Latest(uid, r)].content = e.content

Live(uid) == {head[f] : f \in {g \in Files : UidOf[g] = uid}} \ {None}

\* Between batches the invitations in people's calendars agree with the backup:
\* whoever holds one is still invited, to the current version, and if one
\* attendee of an event to come heard of it, all of them hold its invitation.
InviteesInformed ==
  pc = "idle" => \A uid \in SelfOrganized :
    /\ \A r \in Attendees : Invited(uid, r) =>
         \E e \in Live(uid) : r \in e.att /\ (InvitedTo(uid, r, e) \/ e.content \in past)
    /\ \A e \in Live(uid) :
         e.content \notin past /\ (\E r \in e.att : Latest(uid, r) # 0) =>
           \A r \in e.att : InvitedTo(uid, r, e)

\* An event in two calendars is two files under one UID.
OneFilePerUid == \A f, g \in Files : UidOf[f] = UidOf[g] => f = g

\* That holds as long as no send is refused, no batch ends with an error, the
\* daemon does not die, nobody else pulls or commits calendar files, no event
\* goes back to an earlier version and none is in two calendars: lost answers
\* and failed pulls do not matter, torn files included.
InviteesInformedWhenCalm ==
  /\ OneFilePerUid
  /\ \A k \in {"refused", "unrecorded", "exit", "crash", "sweep", "refresh", "reuse"} :
       upsets[k] = 0
  => InviteesInformed

=============================================================================
