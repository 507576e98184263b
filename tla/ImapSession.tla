---------------------------- MODULE ImapSession ----------------------------
(***************************************************************************)
(* The IMAP session the mail puller and the MCP tools share                *)
(* (source/imap.rs): one cached connection behind a mutex, the folder and  *)
(* mode it is believed to be in, the count of mailbox switches after which *)
(* it is recycled, the probe of an idle connection; and the second         *)
(* connection on which IDLE waits for news and wakes the puller.           *)
(* The server is external: a connection has a selected folder of its own,  *)
(* and commands act on that one, whatever the client believes.             *)
(***************************************************************************)
EXTENDS Naturals, Sequences

CONSTANTS
    Callers,        \* tasks that use the session
    Puller,         \* the one that IDLE wakes
    Folders, Inbox,
    FolderOrder,    \* the order in which the server lists its folders
    Messages, Flags, Seen,
    MaxSwitches,    \* MAX_MAILBOX_SWITCHES_PER_SESSION
    MaxUid,         \* bound: UIDs a folder hands out
    MaxFaults,      \* bound: connections lost, connects refused, answers
                    \* lost, and messages touched by other clients
    MaxCalls,       \* bound: calls of the tools
    NoCall, None

Modes == {"examine", "select"}
Positions == (Folders \X Modes) \cup {None}
Kinds == {"folders", "list", "fetch", "flags", "move", "delete"}
Calls == [kind : Kinds, folder : Folders, uid : 1..MaxUid, target : Folders,
          flags : SUBSET Flags]
Copy == [uid : Nat, msg : Messages, flags : SUBSET Flags, deleted : BOOLEAN]
Steps == {"idle", "lock", "probe", "connect", "position", "run", "mark",
          "expunge"}
Connection == [alive : BOOLEAN, selected : Positions, opened : Nat]
CachedSession == [current : Positions, switches : Nat, rested : BOOLEAN]

ASSUME SessionAssumption ==
    /\ Puller \in Callers
    /\ Inbox \in Folders
    /\ FolderOrder \in Seq(Folders)
    /\ Messages # {}
    /\ Seen \in Flags
    /\ MaxSwitches \in Nat \ {0}
    /\ MaxUid \in Nat \ {0}
    /\ MaxFaults \in Nat
    /\ MaxCalls \in Nat
    /\ None \notin Folders \X Modes
    /\ None \notin Connection
    /\ None \notin CachedSession
    /\ NoCall \notin [kind : Kinds, folder : Folders, uid : Nat,
                      target : Folders, flags : SUBSET Flags]

VARIABLES
    box, next,      \* the server's folders: copies and the next UID
    binned,         \* history: messages somebody asked to be deleted
    conn,           \* the server's end of the cached connection, or None
    cached,         \* Option<CachedSession>
    queue,          \* callers of session.lock(), the holder first
    call,           \* the call of each caller, or NoCall
    pc,             \* where it is
    pull,           \* what is left of the puller's pull_mail
    idle,           \* the IDLE connection: "down", "examined", "armed", or
                    \* "roused": armed, and the server has mail to tell of
    permit,         \* the one permit a Notify stores
    news,           \* history: what became of the last wake-up
    faults, calls   \* so far

mailVars == <<box, next, binned>>
sessionVars == <<conn, cached>>
taskVars == <<queue, call, pc, pull>>
idleVars == <<idle, permit, news, calls>>
vars == <<box, next, binned, conn, cached, queue, call, pc, pull, idle,
          permit, news, faults, calls>>

Init ==
    /\ box = [f \in Folders |->
                 IF f = Inbox
                 THEN {[uid |-> 1, msg |-> CHOOSE m \in Messages : TRUE,
                        flags |-> {}, deleted |-> FALSE]}
                 ELSE {}]
    /\ next = [f \in Folders |-> IF f = Inbox THEN 2 ELSE 1]
    /\ binned = {}
    /\ conn = None
    /\ cached = None
    /\ queue = <<>>
    /\ call = [c \in Callers |-> NoCall]
    /\ pc = [c \in Callers |-> "idle"]
    /\ pull = <<>>
    /\ idle = "down"
    /\ permit = FALSE
    /\ news = "none"
    /\ faults = 0
    /\ calls = 0
----------------------------------------------------------------------------
(***************************************************************************)
(* The calls and session_guard                                             *)
(***************************************************************************)

Lock(c, k) ==
    /\ pc[c] = "idle"
    /\ call' = [call EXCEPT ![c] = k]
    /\ pc' = [pc EXCEPT ![c] = "lock"]
    /\ queue' = Append(queue, c)
    /\ UNCHANGED <<mailVars, sessionVars, pull, idle, permit, news, faults>>

\* An argument that a call does not have is its first folder, UID or set.
Canonical(k) ==
    /\ k.kind \in {"folders", "list"} => k.uid = 1
    /\ k.kind = "folders" => k.folder = Inbox
    /\ k.kind # "move" => k.target = k.folder
    /\ k.kind # "flags" => k.flags = {}

\* The tools call what they like, with a UID that some listing showed.  A move
\* needs a UID in the target: the bound on UIDs is a bound on calls.
ToolCall(c, k) ==
    /\ c # Puller
    /\ Canonical(k)
    /\ k.kind \notin {"folders", "list"} => k.uid < next[k.folder]
    /\ k.kind = "move" => next[k.target] <= MaxUid
    /\ calls < MaxCalls
    /\ calls' = calls + 1
    /\ Lock(c, k)

\* pull_mail: list_folders, then each folder is listed and what is new in it
\* fetched.  The model fetches at most one message of a folder.
PullPlan ==
    [i \in 1..(2 * Len(FolderOrder) + 1) |->
       IF i = 1
       THEN [kind |-> "folders", folder |-> Inbox]
       ELSE [kind |-> IF i % 2 = 0 THEN "list" ELSE "fetch",
             folder |-> FolderOrder[i \div 2]]]

PullCall ==
    /\ pull # <<>>
    /\ \E uid \in 1..MaxUid :
         /\ Head(pull).kind = "fetch" =>
              \E m \in box[Head(pull).folder] : m.uid = uid
         /\ Lock(Puller, [kind |-> Head(pull).kind, uid |-> uid, flags |-> {},
                          folder |-> Head(pull).folder,
                          target |-> Head(pull).folder])
    /\ UNCHANGED calls

\* Nothing changed in the folder.
PullSkip ==
    /\ pc[Puller] = "idle"
    /\ pull # <<>>
    /\ Head(pull).kind = "fetch"
    /\ pull' = Tail(pull)
    /\ UNCHANGED <<mailVars, sessionVars, queue, call, pc, idleVars, faults>>

\* tokio's mutex is fair: the first to wait is the first to get it.
Holds(c) == queue # <<>> /\ Head(queue) = c

\* Mutant: an off-by-one in the limit.
RecycleLate == cached # None /\ cached.switches > MaxSwitches

ShouldRecycle == cached # None /\ cached.switches >= MaxSwitches

\* session_guard with the lock held: recycle, then probe what has rested for
\* SESSION_IDLE_PROBE.
Enter(c) ==
    /\ pc[c] = "lock"
    /\ Holds(c)
    /\ IF ShouldRecycle
       THEN cached' = None /\ conn' = None
       ELSE UNCHANGED sessionVars
    /\ pc' = [pc EXCEPT ![c] = IF cached' = None THEN "connect"
                               ELSE IF cached'.rested THEN "probe"
                               ELSE "position"]
    /\ UNCHANGED <<mailVars, queue, call, pull, idleVars, faults>>

Probe(c) ==
    /\ pc[c] = "probe"
    /\ IF conn.alive
       THEN /\ cached' = [cached EXCEPT !.rested = FALSE]
            /\ pc' = [pc EXCEPT ![c] = "position"]
            /\ UNCHANGED conn
       ELSE /\ cached' = None
            /\ conn' = None
            /\ pc' = [pc EXCEPT ![c] = "connect"]
    /\ UNCHANGED <<mailVars, queue, call, pull, idleVars, faults>>

Connect(c) ==
    /\ pc[c] = "connect"
    /\ cached' = [current |-> None, switches |-> 0, rested |-> FALSE]
    /\ conn' = [alive |-> TRUE, selected |-> None, opened |-> 0]
    /\ pc' = [pc EXCEPT ![c] = "position"]
    /\ UNCHANGED <<mailVars, queue, call, pull, idleVars, faults>>

\* The guard is dropped.
Release(c) ==
    /\ queue' = Tail(queue)
    /\ call' = [call EXCEPT ![c] = NoCall]
    /\ pc' = [pc EXCEPT ![c] = "idle"]

\* Any error drops the session with what was believed of it; pull_mail passes
\* it on, and the wake-up it was answering is spent.
Fail(c) ==
    /\ cached' = None
    /\ conn' = None
    /\ Release(c)
    /\ pull' = IF c = Puller THEN <<>> ELSE pull
    /\ news' = IF c = Puller /\ news = "taken" THEN "none" ELSE news

Fault == faults < MaxFaults /\ faults' = faults + 1

ConnectFails(c) ==
    /\ pc[c] = "connect"
    /\ Fault
    /\ Fail(c)
    /\ UNCHANGED <<mailVars, idle, permit, calls>>

\* The server closed the connection and nobody noticed until now.
Dead(c) ==
    /\ pc[c] \in {"position", "run", "mark", "expunge"}
    /\ ~conn.alive
    /\ Fail(c)
    /\ UNCHANGED <<mailVars, idle, permit, calls, faults>>
----------------------------------------------------------------------------
(***************************************************************************)
(* ensure_positioned, examine_for_metadata                                 *)
(***************************************************************************)

ModeOf(kind) == IF kind \in {"list", "fetch"} THEN "examine" ELSE "select"

\* Mutant: an examined mailbox is taken for a selected one.
CanSkipSameFolder(current, folder, mode) ==
    /\ current # None
    /\ current[1] = folder

\* mailbox_switch_decision: a selected mailbox can be read too.
CanSkip(current, folder, mode) ==
    /\ current # None
    /\ current[1] = folder
    /\ current[2] = "select" \/ mode = "examine"

MustOpen(c) ==
    \/ call[c].kind = "list"
    \/ /\ call[c].kind # "folders"
       /\ ~CanSkip(cached.current, call[c].folder, ModeOf(call[c].kind))

Reuse(c) ==
    /\ pc[c] = "position"
    /\ ~MustOpen(c)
    /\ pc' = [pc EXCEPT ![c] = "run"]
    /\ UNCHANGED <<mailVars, sessionVars, queue, call, pull, idleVars, faults>>

\* Mutant: a switch by examine_for_metadata is not counted.
OpenUncounted(c) ==
    /\ pc[c] = "position"
    /\ MustOpen(c)
    /\ conn.alive
    /\ LET at == <<call[c].folder, ModeOf(call[c].kind)>> IN
       /\ cached' = [cached EXCEPT !.current = at,
                     !.switches = IF call[c].kind = "list" THEN @ ELSE @ + 1]
       /\ conn' = [conn EXCEPT !.selected = at, !.opened = @ + 1]
    /\ pc' = [pc EXCEPT ![c] = "run"]
    /\ UNCHANGED <<mailVars, queue, call, pull, idleVars, faults>>

Open(c) ==
    /\ pc[c] = "position"
    /\ MustOpen(c)
    /\ conn.alive
    /\ LET at == <<call[c].folder, ModeOf(call[c].kind)>> IN
       /\ cached' = [cached EXCEPT !.current = at, !.switches = @ + 1]
       /\ conn' = [conn EXCEPT !.selected = at, !.opened = @ + 1]
    /\ pc' = [pc EXCEPT ![c] = "run"]
    /\ UNCHANGED <<mailVars, queue, call, pull, idleVars, faults>>
----------------------------------------------------------------------------
(***************************************************************************)
(* The commands.  The server executes them in the folder it has selected.  *)
(***************************************************************************)

Ready(c, step, kinds) ==
    /\ pc[c] = step
    /\ call[c].kind \in kinds
    /\ conn.alive

\* Mutant: a call that lost its answer is tried again on a new connection.
AnsweredOrRetried(c, then) ==
    /\ \/ /\ pc' = [pc EXCEPT ![c] = then]
          /\ UNCHANGED <<sessionVars, queue, call, pull, news, faults>>
       \/ /\ Fault
          /\ cached' = None
          /\ conn' = None
          /\ pc' = [pc EXCEPT ![c] = "connect"]
          /\ UNCHANGED <<queue, call, pull, news>>
    /\ UNCHANGED <<idle, permit, calls>>

\* The command was executed; its answer arrives, or is lost.
Answered(c, then) ==
    /\ \/ /\ pc' = [pc EXCEPT ![c] = then]
          /\ UNCHANGED <<sessionVars, queue, call, pull, news, faults>>
       \/ Fail(c) /\ Fault
    /\ UNCHANGED <<idle, permit, calls>>

Returned(c) ==
    /\ cached' = [cached EXCEPT !.rested = FALSE]
    /\ Release(c)
    /\ pull' = IF c = Puller THEN Tail(pull) ELSE pull
    /\ UNCHANGED conn

AnsweredLast(c) ==
    /\ \/ Returned(c) /\ UNCHANGED <<news, faults>>
       \/ Fail(c) /\ Fault
    /\ UNCHANGED <<idle, permit, calls>>

At == conn.selected[1]

Named(c) == {m \in box[At] : m.uid = call[c].uid}

ListFolders(c) ==
    /\ Ready(c, "run", {"folders"})
    /\ AnsweredLast(c)
    /\ UNCHANGED mailVars

\* After EXAMINE: what came before it is in the answer.
ListMessages(c) ==
    /\ Ready(c, "run", {"list"})
    /\ \/ /\ Returned(c)
          /\ news' = IF c = Puller /\ At = Inbox THEN "none" ELSE news
          /\ UNCHANGED faults
       \/ Fail(c) /\ Fault
    /\ UNCHANGED <<mailVars, idle, permit, calls>>

\* UID FETCH BODY[] marks the message as read, unless the mailbox was opened
\* with EXAMINE.  A UID that is gone is an error, and drops the session.
FetchMessage(c) ==
    /\ Ready(c, "run", {"fetch"})
    /\ IF Named(c) = {}
       THEN Fail(c) /\ UNCHANGED <<box, idle, permit, calls, faults>>
       ELSE /\ IF conn.selected[2] = "examine"
               THEN UNCHANGED box
               ELSE box' = [box EXCEPT ![At] =
                              (@ \ Named(c)) \cup
                              {[m EXCEPT !.flags = @ \cup {Seen}] :
                                 m \in Named(c)}]
            /\ AnsweredLast(c)
    /\ UNCHANGED <<next, binned>>

\* A UID that is gone is no error of UID STORE, COPY or EXPUNGE.
UpdateFlags(c) ==
    /\ Ready(c, "run", {"flags"})
    /\ box' = [box EXCEPT ![At] =
                 (@ \ Named(c)) \cup
                 {[m EXCEPT !.flags = call[c].flags] : m \in Named(c)}]
    /\ AnsweredLast(c)
    /\ UNCHANGED <<next, binned>>

MoveCopy(c) ==
    /\ Ready(c, "run", {"move"})
    /\ LET t == call[c].target IN
       \/ Named(c) = {} /\ UNCHANGED <<box, next>>
       \/ \E m \in Named(c) :
            /\ box' = [box EXCEPT ![t] = @ \cup {[m EXCEPT !.uid = next[t]]}]
            /\ next' = [next EXCEPT ![t] = @ + 1]
    /\ Answered(c, "mark")
    /\ UNCHANGED binned

\* A deletion is asked for when its message is marked.
MarkDeleted(c) ==
    /\ \/ Ready(c, "mark", {"move"}) /\ UNCHANGED binned
       \/ /\ Ready(c, "run", {"delete"})
          /\ binned' = binned \cup {m.msg : m \in Named(c)}
    /\ box' = [box EXCEPT ![At] =
                 (@ \ Named(c)) \cup
                 {[m EXCEPT !.deleted = TRUE] : m \in Named(c)}]
    /\ Answered(c, "expunge")
    /\ UNCHANGED next

\* Mutant: EXPUNGE, of whatever is marked.
ExpungeAll(c) ==
    /\ Ready(c, "expunge", {"move", "delete"})
    /\ box' = [box EXCEPT ![At] = {m \in @ : ~m.deleted}]
    /\ AnsweredLast(c)
    /\ UNCHANGED <<next, binned>>

\* UID EXPUNGE: of the named message, and only if it is marked.
Expunge(c) ==
    /\ Ready(c, "expunge", {"move", "delete"})
    /\ box' = [box EXCEPT ![At] = @ \ {m \in Named(c) : m.deleted}]
    /\ AnsweredLast(c)
    /\ UNCHANGED <<next, binned>>
----------------------------------------------------------------------------
(***************************************************************************)
(* IDLE: run_one_idle_connection, idle_loop, and the puller it wakes       *)
(***************************************************************************)

sharedVars == <<mailVars, sessionVars, queue, call, pc, calls>>

IdleExamine ==
    /\ idle = "down"
    /\ idle' = "examined"
    /\ UNCHANGED <<sharedVars, pull, permit, news, faults>>

IdleInit ==
    /\ idle = "examined"
    /\ idle' = "armed"
    /\ UNCHANGED <<sharedVars, pull, permit, news, faults>>

\* Mutant: notify_waiters, which keeps no permit for a puller that is busy.
IdleNotifyWaiters ==
    /\ idle = "roused"
    /\ idle' = "examined"
    /\ news' = "told"
    /\ permit' = (pull = <<>>)
    /\ UNCHANGED <<sharedVars, pull, faults>>

\* New data: DONE, notify_one, and around the loop to IDLE again.
IdleNewData ==
    /\ idle = "roused"
    /\ idle' = "examined"
    /\ news' = "told"
    /\ permit' = TRUE
    /\ UNCHANGED <<sharedVars, pull, faults>>

\* The wait ends after 29 minutes: DONE, and around the loop without a wake-up.
\* What the server tells just then is read with the answer to DONE, and dropped.
IdleTimeout ==
    /\ idle \in {"armed", "roused"}
    /\ idle' = "examined"
    /\ UNCHANGED <<sharedVars, pull, permit, news, faults>>

\* An error: the loop connects again after a delay.
IdleLost ==
    /\ idle # "down"
    /\ Fault
    /\ idle' = "down"
    /\ UNCHANGED <<sharedVars, pull, permit, news>>

\* notified() takes the permit.
Wake ==
    /\ pull = <<>>
    /\ permit
    /\ permit' = FALSE
    /\ pull' = PullPlan
    /\ news' = IF news = "told" THEN "taken" ELSE news
    /\ UNCHANGED <<sharedVars, idle, faults>>

\* The ticker: now and then, the model relies on it for nothing.
Tick ==
    /\ pull = <<>>
    /\ pull' = PullPlan
    /\ UNCHANGED <<sharedVars, idleVars, faults>>
----------------------------------------------------------------------------
(***************************************************************************)
(* Time, the server, and other clients                                     *)
(***************************************************************************)

\* Nobody used the session for SESSION_IDLE_PROBE.
Rest ==
    /\ queue = <<>>
    /\ cached # None
    /\ cached' = [cached EXCEPT !.rested = TRUE]
    /\ UNCHANGED <<mailVars, conn, taskVars, idleVars, faults>>

\* The server closes the connection without telling.
Close ==
    /\ conn # None
    /\ conn.alive
    /\ Fault
    /\ conn' = [conn EXCEPT !.alive = FALSE]
    /\ UNCHANGED <<mailVars, cached, taskVars, idleVars>>

Held == {m.msg : m \in UNION {box[f] : f \in Folders}}

Deliver(m) ==
    /\ next[Inbox] <= MaxUid
    /\ m \notin Held \cup binned
    /\ box' = [box EXCEPT ![Inbox] =
                 @ \cup {[uid |-> next[Inbox], msg |-> m, flags |-> {},
                          deleted |-> FALSE]}]
    /\ next' = [next EXCEPT ![Inbox] = @ + 1]
    /\ idle' = IF idle = "armed" THEN "roused" ELSE idle
    /\ UNCHANGED <<binned, sessionVars, taskVars, permit, news, calls, faults>>

\* Another client marks a message as deleted; it may change its mind.
OtherMarks(f) ==
    /\ Fault
    /\ \E m \in box[f] :
         box' = [box EXCEPT ![f] = (@ \ {m}) \cup
                                     {[m EXCEPT !.deleted = TRUE]}]
    /\ UNCHANGED <<next, binned, sessionVars, taskVars, idleVars>>

OtherRemoves(f) ==
    /\ Fault
    /\ \E m \in box[f] :
         /\ box' = [box EXCEPT ![f] = @ \ {m}]
         /\ binned' = binned \cup {m.msg}
    /\ UNCHANGED <<next, sessionVars, taskVars, idleVars>>
----------------------------------------------------------------------------
Command(c) ==
    \/ ListFolders(c) \/ ListMessages(c) \/ FetchMessage(c)
    \/ UpdateFlags(c) \/ MoveCopy(c) \/ MarkDeleted(c) \/ Expunge(c)

Work(c) ==
    \/ Enter(c) \/ Probe(c) \/ Connect(c) \/ ConnectFails(c) \/ Dead(c)
    \/ Reuse(c) \/ Open(c)
    \/ Command(c)

PullStep == PullCall \/ PullSkip

Next ==
    \/ \E c \in Callers : Work(c)
    \/ \E c \in Callers, k \in Calls : ToolCall(c, k)
    \/ PullStep \/ Wake \/ Tick
    \/ IdleExamine \/ IdleInit \/ IdleNewData \/ IdleTimeout \/ IdleLost
    \/ Rest \/ Close
    \/ \E m \in Messages : Deliver(m)
    \/ \E f \in Folders : OtherMarks(f) \/ OtherRemoves(f)

Spec == Init /\ [][Next]_vars

\* Every await returns, and the tasks are scheduled.  Nothing is assumed of
\* the ticker, of the tools, of the server's other clients.
FairSpec ==
    /\ Spec
    /\ \A c \in Callers : WF_vars(Work(c))
    /\ WF_vars(PullStep)
    /\ WF_vars(Wake)
    /\ WF_vars(IdleExamine) /\ WF_vars(IdleInit) /\ WF_vars(IdleNewData)
----------------------------------------------------------------------------
(***************************************************************************)
(* Properties                                                              *)
(***************************************************************************)

Jobs == [kind : {"folders", "list", "fetch"}, folder : Folders]

\* Every variable has its type, and a session that is in a mailbox has counted
\* the switch that took it there.
TypeOK ==
    /\ box \in [Folders -> SUBSET Copy]
    /\ next \in [Folders -> Nat]
    /\ binned \subseteq Messages
    /\ conn \in Connection \cup {None}
    /\ cached \in CachedSession \cup {None}
    /\ cached # None => (cached.switches = 0 <=> cached.current = None)
    /\ queue \in Seq(Callers)
    /\ call \in [Callers -> Calls \cup {NoCall}]
    /\ pc \in [Callers -> Steps]
    /\ pull \in Seq(Jobs)
    /\ idle \in {"down", "examined", "armed", "roused"}
    /\ permit \in BOOLEAN
    /\ news \in {"none", "told", "taken"}
    /\ faults \in 0..MaxFaults
    /\ calls \in 0..MaxCalls

\* What the cache says of the connection is true of it whenever somebody may
\* read it, so a command runs in the folder its caller named, and a command
\* that writes runs where writing is allowed (source/imap.rs, the comments on
\* ensure_positioned and session_guard: "so the cache can't go stale").
Positioned ==
    /\ conn = None <=> cached = None
    /\ cached # None => /\ cached.current = conn.selected
                        /\ cached.switches = conn.opened
    /\ \A c \in Callers :
         /\ pc[c] \notin {"idle", "lock"} => Holds(c)
         /\ pc[c] \in {"run", "mark", "expunge"} /\ call[c].kind # "folders" =>
              /\ conn.selected # None
              /\ At = call[c].folder
              /\ call[c].kind \in {"flags", "move", "delete"} =>
                   conn.selected[2] = "select"

\* The server closes a session that opens more mailboxes than its cap
\* (MAX_MAILBOX_SWITCHES_PER_SESSION and the comment on it): no connection
\* ever opens more than the limit, whoever used it.
UnderCap == conn # None => conn.opened <= MaxSwitches

\* A message leaves the mailbox only if somebody asked for that: a move that
\* is cut off anywhere, by an error or by another client, may leave it twice
\* and never nowhere, and expunging one message takes no other one that a
\* client has marked (source/imap.rs:750, "critical for safety").
NoLoss == [][\A m \in Held \ Held' : m \in binned']_vars

\* A wake-up is answered: once idle_loop has told the puller of mail, the inbox
\* is listed without help of the ticker, even if a pull is running then, for the
\* permit keeps the wake-up (daemon.rs:1341, idle_loop); unless that pull fails.
\* And mail that arrives while IDLE waits leads to a wake-up, unless the wait
\* ends just then: by an error, or by the 29 minutes' timeout.
WakeUpIsAnswered ==
    idle = "roused" \/ news # "none" ~> idle # "roused" /\ news = "none"
----------------------------------------------------------------------------
(***************************************************************************)
(* Refinement                                                              *)
(***************************************************************************)

\* How many commands of its call have taken effect.
Stage(c) ==
    CASE pc[c] = "mark" -> 1
      [] pc[c] = "expunge" -> IF call[c].kind = "move" THEN 2 ELSE 1
      [] OTHER -> 0

Mail == INSTANCE Mailbox WITH stage <- [c \in Callers |-> Stage(c)]

\* What the session does for its callers is what the traits promise: each
\* command takes effect on the message the caller named, in order, at most
\* once, whatever happens to the connection in between.
ImplementsMailbox == Mail!Spec
=============================================================================
