------------------------- MODULE ImapSession_proofs -------------------------
(* Proofs about the IMAP session, for any callers, folders and bounds. *)
EXTENDS ImapSession, TLAPS

-----------------------------------------------------------------------------
(* Type correctness                                                        *)

\* Who is not idle has a call; the puller's is part of a pull.
Busy ==
  /\ \A c \in Callers : pc[c] # "idle" => call[c] # NoCall
  /\ pc[Puller] # "idle" => pull # <<>>

MailTyped ==
  /\ box \in [Folders -> SUBSET Copy]
  /\ next \in [Folders -> Nat]
  /\ binned \subseteq Messages

SessionTyped ==
  /\ conn \in Connection \cup {None}
  /\ cached \in CachedSession \cup {None}
  /\ cached # None => (cached.switches = 0 <=> cached.current = None)

TaskTyped ==
  /\ queue \in Seq(Callers)
  /\ call \in [Callers -> Calls \cup {NoCall}]
  /\ pc \in [Callers -> Steps]
  /\ pull \in Seq(Jobs)

RestTyped ==
  /\ idle \in {"down", "examined", "armed", "roused"}
  /\ permit \in BOOLEAN
  /\ news \in {"none", "told", "taken"}
  /\ faults \in 0..MaxFaults
  /\ calls \in 0..MaxCalls

\* Who is past the lock has a connection, but to connect; and as long as it has
\* not opened a mailbox the connection has one to spare.
Connected ==
  \A c \in Callers :
    /\ pc[c] \in {"probe", "position", "run", "mark", "expunge"} => cached # None
    /\ pc[c] = "connect" => cached = None
    /\ pc[c] \in {"probe", "position"} => cached.switches < MaxSwitches

IInv ==
  /\ MailTyped /\ SessionTyped /\ TaskTyped /\ RestTyped
  /\ Busy /\ Connected /\ Positioned /\ UnderCap

Ends == conn = None <=> cached = None

Agrees ==
  cached # None => cached.current = conn.selected /\ cached.switches = conn.opened

LEMMA IsTypeOK == MailTyped /\ SessionTyped /\ TaskTyped /\ RestTyped => TypeOK
BY DEF MailTyped, SessionTyped, TaskTyped, RestTyped, TypeOK

(* Which actions change what. *)

LEMMA MailFrame ==
  ASSUME [Next]_vars
  PROVE  \/ UNCHANGED mailVars
         \/ \E c \in Callers : \/ FetchMessage(c) \/ UpdateFlags(c) \/ MoveCopy(c)
                               \/ MarkDeleted(c) \/ Expunge(c)
         \/ \E m \in Messages : Deliver(m)
         \/ \E f \in Folders : OtherMarks(f) \/ OtherRemoves(f)
<1> USE DEF mailVars, sharedVars
<1>1. CASE UNCHANGED vars
  BY <1>1 DEF vars
<1>2. ASSUME NEW c \in Callers, Work(c)
      PROVE  \/ UNCHANGED mailVars
             \/ FetchMessage(c) \/ UpdateFlags(c) \/ MoveCopy(c)
             \/ MarkDeleted(c) \/ Expunge(c)
  BY <1>2 DEF Work, Command, Enter, Probe, Connect, ConnectFails, Dead, Reuse, Open,
     ListFolders, ListMessages
<1>3. ASSUME NEW c \in Callers, NEW k \in Calls, ToolCall(c, k)
      PROVE  UNCHANGED mailVars
  BY <1>3 DEF ToolCall, Lock
<1>4. CASE PullStep
  BY <1>4 DEF PullStep, PullCall, PullSkip, Lock
<1>5. CASE Wake \/ Tick \/ IdleExamine \/ IdleInit \/ IdleNewData \/ IdleTimeout \/ IdleLost
  BY <1>5 DEF Wake, Tick, IdleExamine, IdleInit, IdleNewData, IdleTimeout, IdleLost
<1>6. CASE Rest \/ Close
  BY <1>6 DEF Rest, Close
<1> QED
  BY <1>1, <1>2, <1>3, <1>4, <1>5, <1>6 DEF Next

LEMMA SetFlags ==
  ASSUME NEW S \in SUBSET Copy, NEW fl \in SUBSET Flags
  PROVE  /\ {[m EXCEPT !.flags = fl] : m \in S} \in SUBSET Copy
         /\ {[m EXCEPT !.flags = @ \cup fl] : m \in S} \in SUBSET Copy
         /\ {[m EXCEPT !.deleted = TRUE] : m \in S} \in SUBSET Copy
<1>1. ASSUME NEW m \in S
      PROVE  /\ [m EXCEPT !.flags = fl] \in Copy
             /\ [m EXCEPT !.flags = @ \cup fl] \in Copy
             /\ [m EXCEPT !.deleted = TRUE] \in Copy
  <2>1. m \in Copy
    OBVIOUS
  <2> QED
    BY <2>1 DEF Copy
<1> QED
  BY <1>1

LEMMA BoxType ==
  ASSUME MailTyped, NEW f, NEW S, f \in Folders => S \in SUBSET Copy,
         box' = [box EXCEPT ![f] = S]
  PROVE  box' \in [Folders -> SUBSET Copy]
BY DEF MailTyped

\* A command that is under way names a folder that is selected.
LEMMA Selected ==
  ASSUME IInv, NEW c \in Callers, pc[c] \in {"run", "mark", "expunge"},
         call[c].kind # "folders"
  PROVE  /\ call[c] \in Calls
         /\ At = call[c].folder
         /\ At \in Folders
         /\ Named(c) \in SUBSET Copy
         /\ Named(c) \subseteq box[At]
         /\ conn # None /\ cached # None
         /\ Holds(c)
<1>1. call[c] \in Calls
  BY DEF IInv, TaskTyped, Busy
<1>2. At = call[c].folder /\ Holds(c)
  BY DEF IInv, Positioned
<1>3. conn # None /\ cached # None
  BY DEF IInv, Connected, Positioned
<1>4. At \in Folders
  BY <1>1, <1>2 DEF Calls
<1> QED
  BY <1>1, <1>2, <1>3, <1>4 DEF Named, IInv, MailTyped

LEMMA MailType ==
  ASSUME IInv, [Next]_vars
  PROVE  MailTyped'
<1> USE SessionAssumption
<1>0. MailTyped
  BY DEF IInv
<1>1. CASE UNCHANGED mailVars
  BY <1>0, <1>1 DEF mailVars, MailTyped
<1>2. ASSUME NEW c \in Callers, FetchMessage(c)
      PROVE  MailTyped'
  <2>1. CASE UNCHANGED box
    BY <1>0, <1>2, <2>1 DEF FetchMessage, MailTyped
  <2>2. CASE box' = [box EXCEPT ![At] = (@ \ Named(c)) \cup
                       {[m EXCEPT !.flags = @ \cup {Seen}] : m \in Named(c)}]
    <3>1. At \in Folders /\ Named(c) \in SUBSET Copy
      BY <1>2, Selected DEF FetchMessage, Ready
    <3>2. (box[At] \ Named(c)) \cup
             {[m EXCEPT !.flags = @ \cup {Seen}] : m \in Named(c)} \in SUBSET Copy
      BY <1>0, <3>1, SetFlags, {Seen} \in SUBSET Flags DEF MailTyped
    <3> QED
      BY <1>0, <1>2, <2>2, <3>2, BoxType DEF FetchMessage, MailTyped
  <2> QED
    BY <1>2, <2>1, <2>2 DEF FetchMessage
<1>3. ASSUME NEW c \in Callers, UpdateFlags(c)
      PROVE  MailTyped'
  <2>1. /\ At \in Folders /\ Named(c) \in SUBSET Copy
        /\ call[c].flags \in SUBSET Flags
    BY <1>3, Selected DEF UpdateFlags, Ready, Calls
  <2>2. (box[At] \ Named(c)) \cup
           {[m EXCEPT !.flags = call[c].flags] : m \in Named(c)} \in SUBSET Copy
    BY <1>0, <2>1, SetFlags DEF MailTyped
  <2> QED
    BY <1>0, <1>3, <2>2, BoxType DEF UpdateFlags, MailTyped
<1>4. ASSUME NEW c \in Callers, MoveCopy(c)
      PROVE  MailTyped'
  <2>0. /\ At \in Folders /\ Named(c) \in SUBSET Copy
        /\ call[c].target \in Folders
    BY <1>4, Selected DEF MoveCopy, Ready, Calls
  <2>1. CASE UNCHANGED <<box, next>>
    BY <1>0, <1>4, <2>1 DEF MoveCopy, MailTyped
  <2>2. ASSUME NEW m \in Named(c),
               box' = [box EXCEPT ![call[c].target] =
                         @ \cup {[m EXCEPT !.uid = next[call[c].target]]}],
               next' = [next EXCEPT ![call[c].target] = @ + 1]
        PROVE  MailTyped'
    <3>1. [m EXCEPT !.uid = next[call[c].target]] \in Copy
      BY <1>0, <2>0 DEF MailTyped, Copy
    <3>2. box[call[c].target] \cup {[m EXCEPT !.uid = next[call[c].target]]} \in SUBSET Copy
      BY <1>0, <2>0, <3>1 DEF MailTyped
    <3> QED
      BY <1>0, <1>4, <2>0, <2>2, <3>2, BoxType DEF MoveCopy, MailTyped
  <2> QED
    BY <1>4, <2>1, <2>2 DEF MoveCopy
<1>5. ASSUME NEW c \in Callers, MarkDeleted(c)
      PROVE  MailTyped'
  <2>1. At \in Folders /\ Named(c) \in SUBSET Copy
    BY <1>5, Selected DEF MarkDeleted, Ready
  <2>2. (box[At] \ Named(c)) \cup
           {[m EXCEPT !.deleted = TRUE] : m \in Named(c)} \in SUBSET Copy
    BY <1>0, <2>1, SetFlags, {} \in SUBSET Flags DEF MailTyped
  <2>3. binned' \subseteq Messages
    BY <1>0, <1>5, <2>1 DEF MarkDeleted, MailTyped, Copy
  <2> QED
    BY <1>0, <1>5, <2>2, <2>3, BoxType DEF MarkDeleted, MailTyped
<1>6. ASSUME NEW c \in Callers, Expunge(c)
      PROVE  MailTyped'
  BY <1>0, <1>6 DEF Expunge, MailTyped
<1>7. ASSUME NEW m \in Messages, Deliver(m)
      PROVE  MailTyped'
  <2>1. [uid |-> next[Inbox], msg |-> m, flags |-> {}, deleted |-> FALSE] \in Copy
    BY <1>0 DEF MailTyped, Copy
  <2>2. box[Inbox] \cup {[uid |-> next[Inbox], msg |-> m, flags |-> {},
                          deleted |-> FALSE]} \in SUBSET Copy
    BY <1>0, <2>1 DEF MailTyped
  <2> QED
    BY <1>0, <1>7, <2>2, BoxType DEF Deliver, MailTyped
<1>8. ASSUME NEW f \in Folders, OtherMarks(f)
      PROVE  MailTyped'
  <2>1. PICK m \in box[f] : box' = [box EXCEPT ![f] = (@ \ {m}) \cup
                                       {[m EXCEPT !.deleted = TRUE]}]
    BY <1>8 DEF OtherMarks
  <2>2. m \in Copy
    BY <1>0 DEF MailTyped
  <2>3. [m EXCEPT !.deleted = TRUE] \in Copy
    BY <2>2 DEF Copy
  <2>4. (box[f] \ {m}) \cup {[m EXCEPT !.deleted = TRUE]} \in SUBSET Copy
    BY <1>0, <2>3 DEF MailTyped
  <2> QED
    BY <1>0, <1>8, <2>1, <2>4, BoxType DEF OtherMarks, MailTyped
<1>9. ASSUME NEW f \in Folders, OtherRemoves(f)
      PROVE  MailTyped'
  BY <1>0, <1>9 DEF OtherRemoves, MailTyped, Copy
<1> QED
  BY <1>1, <1>2, <1>3, <1>4, <1>5, <1>6, <1>7, <1>8, <1>9, MailFrame

-----------------------------------------------------------------------------
(* The session and its callers                                             *)

Core ==
  /\ SessionTyped /\ TaskTyped /\ RestTyped
  /\ Busy /\ Connected /\ Positioned /\ UnderCap

\* The lock is one caller's.
LEMMA Alone ==
  ASSUME IInv, NEW c \in Callers, pc[c] \notin {"idle", "lock"},
         NEW d \in Callers, d # c
  PROVE  pc[d] \in {"idle", "lock"}
BY DEF IInv, Positioned, Holds

LEMMA HolderIsFirst ==
  ASSUME IInv, NEW c \in Callers, pc[c] \notin {"idle", "lock"}
  PROVE  queue # <<>> /\ Head(queue) = c /\ call[c] \in Calls /\ call[c] # NoCall
BY DEF IInv, Positioned, Holds, TaskTyped, Busy

\* Nobody past the lock: nothing to ask of the connection.
LEMMA NobodyInside ==
  ASSUME \A d \in Callers : pc'[d] \in {"idle", "lock"}, Ends', Agrees'
  PROVE  Connected' /\ Positioned'
BY DEF Connected, Positioned, Ends, Agrees

LEMMA ReleaseCore ==
  ASSUME IInv, NEW c \in Callers, pc[c] \notin {"idle", "lock"}, Release(c),
         SessionTyped', RestTyped', UnderCap', Ends', Agrees',
         pull' \in Seq(Jobs), c # Puller => pull' = pull
  PROVE  Core'
<1>1. /\ queue # <<>> /\ TaskTyped
  BY HolderIsFirst DEF IInv
<1>2. TaskTyped'
  BY <1>1 DEF Release, TaskTyped, Steps
<1>3. \A d \in Callers : pc'[d] \in {"idle", "lock"} /\ (d # c => pc'[d] = pc[d] /\ call'[d] = call[d])
  BY <1>1, Alone DEF Release, TaskTyped
<1>4. pc'[c] = "idle"
  BY <1>1 DEF Release, TaskTyped
<1>5. \A d \in Callers : pc'[d] # "idle" => call'[d] # NoCall
  BY <1>3, <1>4 DEF IInv, Busy
<1>6. pc'[Puller] # "idle" => pull' # <<>>
  BY <1>3, <1>4, SessionAssumption DEF IInv, Busy
<1> QED
  BY <1>2, <1>3, <1>5, <1>6, NobodyInside DEF Core, Busy

LEMMA FailCore ==
  ASSUME IInv, NEW c \in Callers, pc[c] \notin {"idle", "lock"}, Fail(c),
         UNCHANGED <<idle, permit, calls>>, faults' \in 0..MaxFaults
  PROVE  Core'
<1>1. SessionTyped' /\ UnderCap' /\ Ends' /\ Agrees'
  BY DEF Fail, SessionTyped, UnderCap, Ends, Agrees
<1>2. RestTyped' /\ pull' \in Seq(Jobs) /\ (c # Puller => pull' = pull)
  BY DEF Fail, IInv, RestTyped, TaskTyped
<1> QED
  BY <1>1, <1>2, ReleaseCore DEF Fail

LEMMA EnterCore ==
  ASSUME IInv, NEW c \in Callers, Enter(c)
  PROVE  Core'
<1> USE DEF IInv, idleVars, sessionVars
<1>1. /\ pc[c] = "lock" /\ Holds(c)
      /\ \A d \in Callers : d # c => pc[d] \in {"idle", "lock"}
  BY DEF Enter, Positioned, Holds
<1>2. SessionTyped' /\ RestTyped' /\ UnderCap' /\ Ends' /\ Agrees'
  BY DEF Enter, SessionTyped, RestTyped, UnderCap, Ends, Agrees, Positioned
<1>3. pc' \in [Callers -> Steps] /\ (\A d \in Callers : d # c => pc'[d] = pc[d])
  BY DEF Enter, TaskTyped, Steps
<1>4. TaskTyped' /\ Busy'
  BY <1>1, <1>3 DEF Enter, TaskTyped, Busy
<1>5. pc'[c] \in {"connect", "probe", "position"}
  BY DEF Enter, TaskTyped
<1>6. /\ pc'[c] = "connect" => cached' = None
      /\ pc'[c] # "connect" => cached' = cached /\ cached # None /\ ~ShouldRecycle
  BY DEF Enter, TaskTyped
<1>7. pc'[c] # "connect" => cached.switches < MaxSwitches
  BY <1>6, SessionAssumption DEF ShouldRecycle, SessionTyped, CachedSession
<1>8. Connected'
  BY <1>1, <1>3, <1>5, <1>6, <1>7 DEF Connected
<1>9. Positioned'
  BY <1>1, <1>2, <1>3, <1>5 DEF Positioned, Ends, Agrees, Holds, Enter
<1> QED
  BY <1>2, <1>4, <1>8, <1>9 DEF Core

\* Within the lock the caller goes one step on.
LEMMA WithinCore ==
  ASSUME IInv, NEW c \in Callers, pc[c] \notin {"idle", "lock"},
         NEW x \in {"position", "run", "mark", "expunge", "connect"},
         pc' = [pc EXCEPT ![c] = x],
         UNCHANGED <<queue, call, pull>>,
         SessionTyped', RestTyped', UnderCap', Ends', Agrees',
         x # "connect" => cached' # None,
         x = "connect" => cached' = None,
         x = "position" => cached'.switches < MaxSwitches,
         x \in {"run", "mark", "expunge"} /\ call[c].kind # "folders" =>
           /\ conn'.selected # None
           /\ conn'.selected[1] = call[c].folder
           /\ call[c].kind \in {"flags", "move", "delete"} => conn'.selected[2] = "select"
  PROVE  Core'
<1>1. /\ \A d \in Callers : d # c => pc[d] \in {"idle", "lock"} /\ pc'[d] = pc[d]
      /\ pc'[c] = x /\ Holds(c)'
      /\ pc' \in [Callers -> Steps]
  BY Alone DEF IInv, Positioned, TaskTyped, Steps, Holds
<1>2. TaskTyped' /\ Busy'
  BY <1>1 DEF IInv, TaskTyped, Busy
<1>3. Connected'
  BY <1>1 DEF Connected
<1>4. Positioned'
  BY <1>1 DEF Positioned, Ends, Agrees, At
<1> QED
  BY <1>2, <1>3, <1>4 DEF Core

LEMMA ProbeCore ==
  ASSUME IInv, NEW c \in Callers, Probe(c)
  PROVE  Core'
<1> USE DEF IInv, idleVars
<1>0. /\ pc[c] = "probe" /\ cached # None /\ cached \in CachedSession
      /\ cached.switches < MaxSwitches /\ conn # None
  BY DEF Probe, Connected, SessionTyped, Positioned
<1>1. CASE conn.alive
  <2>1. /\ cached' = [current |-> cached.current, switches |-> cached.switches, rested |-> FALSE]
        /\ cached' \in CachedSession
    BY <1>0, <1>1 DEF Probe, CachedSession
  <2>2. SessionTyped' /\ RestTyped' /\ UnderCap' /\ Ends' /\ Agrees'
    BY <1>0, <1>1, <2>1, SessionAssumption DEF Probe, SessionTyped, RestTyped, UnderCap, Ends, Agrees, Positioned
  <2> QED
    BY <1>0, <1>1, <2>1, <2>2, WithinCore, SessionAssumption DEF Probe
<1>2. CASE ~conn.alive
  <2>2. SessionTyped' /\ RestTyped' /\ UnderCap' /\ Ends' /\ Agrees'
    BY <1>0, <1>2 DEF Probe, SessionTyped, RestTyped, UnderCap, Ends, Agrees, Positioned
  <2> QED
    BY <1>0, <1>2, <2>2, WithinCore DEF Probe
<1> QED
  BY <1>1, <1>2

LEMMA ConnectCore ==
  ASSUME IInv, NEW c \in Callers, Connect(c)
  PROVE  Core'
<1>0. pc[c] = "connect"
  BY DEF Connect
<1>1. cached' \in CachedSession /\ conn' \in Connection
  BY DEF Connect, CachedSession, Connection, Positions
<1>2. cached' # None /\ conn' # None
  BY <1>1, SessionAssumption
<1>3. /\ cached'.switches = 0 /\ conn'.opened = 0
      /\ cached'.current = conn'.selected /\ cached'.current = None
  BY DEF Connect
<1>4. SessionTyped' /\ UnderCap' /\ Ends' /\ Agrees' /\ 0 < MaxSwitches
  BY <1>1, <1>2, <1>3, SessionAssumption DEF SessionTyped, UnderCap, Ends, Agrees
<1>5. RestTyped'
  BY DEF Connect, IInv, RestTyped, idleVars
<1> QED
  BY <1>0, <1>2, <1>3, <1>4, <1>5, WithinCore DEF Connect

LEMMA CanSkipFits ==
  ASSUME IInv, NEW c \in Callers, pc[c] = "position", ~MustOpen(c),
         call[c].kind # "folders"
  PROVE  /\ conn.selected # None
         /\ conn.selected[1] = call[c].folder
         /\ call[c].kind \in {"flags", "move", "delete"} => conn.selected[2] = "select"
BY DEF IInv, Connected, Positioned, MustOpen, CanSkip, ModeOf

LEMMA ReuseCore ==
  ASSUME IInv, NEW c \in Callers, Reuse(c)
  PROVE  Core'
<1>1. pc[c] = "position" /\ ~MustOpen(c) /\ cached # None
  BY DEF Reuse, IInv, Connected
<1>2. SessionTyped' /\ RestTyped' /\ UnderCap' /\ Ends' /\ Agrees'
  BY DEF Reuse, IInv, SessionTyped, RestTyped, UnderCap, Ends, Agrees, Positioned,
     sessionVars, idleVars
<1> QED
  BY <1>1, <1>2, CanSkipFits, WithinCore DEF Reuse, sessionVars

LEMMA OpenCore ==
  ASSUME IInv, NEW c \in Callers, Open(c)
  PROVE  Core'
<1> DEFINE at == <<call[c].folder, ModeOf(call[c].kind)>>
<1>1. /\ pc[c] = "position" /\ call[c].kind # "folders"
      /\ call[c] \in Calls
  BY DEF Open, MustOpen, IInv, TaskTyped, Busy
<1>2. at \in Positions /\ at # None
  BY <1>1, SessionAssumption DEF Calls, ModeOf, Modes, Positions
<1>3. /\ cached \in CachedSession /\ conn \in Connection
      /\ cached.switches = conn.opened /\ cached.switches < MaxSwitches
      /\ cached.switches \in Nat
  BY <1>1 DEF IInv, SessionTyped, Connected, Positioned, CachedSession
<1>4. /\ cached' = [cached EXCEPT !.current = at, !.switches = @ + 1]
      /\ conn' = [conn EXCEPT !.selected = at, !.opened = @ + 1]
  BY DEF Open
<1> HIDE DEF at
<1>5. /\ cached' \in CachedSession /\ conn' \in Connection
      /\ cached'.current = at /\ conn'.selected = at
      /\ cached'.switches = conn'.opened /\ conn'.opened <= MaxSwitches
      /\ cached'.switches = cached.switches + 1
  <2>1. /\ cached' = [current |-> at, switches |-> cached.switches + 1,
                      rested |-> cached.rested]
        /\ cached.rested \in BOOLEAN
    BY <1>3, <1>4 DEF CachedSession
  <2>2. /\ conn' = [alive |-> conn.alive, selected |-> at, opened |-> conn.opened + 1]
        /\ conn.alive \in BOOLEAN
    BY <1>3, <1>4 DEF Connection
  <2> QED
    BY <1>2, <1>3, <2>1, <2>2, SessionAssumption DEF CachedSession, Connection
<1>6. cached' # None /\ conn' # None
  BY <1>5, SessionAssumption
<1>7. SessionTyped' /\ UnderCap' /\ Ends' /\ Agrees'
  <2>1. cached'.switches # 0
    BY <1>3, <1>5
  <2> QED
    BY <1>2, <1>5, <1>6, <2>1 DEF SessionTyped, UnderCap, Ends, Agrees
<1>8. RestTyped'
  BY DEF Open, IInv, RestTyped, idleVars
<1>9. at[1] = call[c].folder /\ at[2] = ModeOf(call[c].kind)
  BY DEF at
<1>10. call[c].kind \in {"flags", "move", "delete"} => at[2] = "select"
  BY <1>9 DEF ModeOf
<1> QED
  BY <1>1, <1>2, <1>5, <1>6, <1>7, <1>8, <1>9, <1>10, WithinCore DEF Open

(* Commands. *)

LEMMA ReturnedCore ==
  ASSUME IInv, NEW c \in Callers, pc[c] = "run" \/ pc[c] = "expunge", Returned(c), RestTyped'
  PROVE  Core'
<1>1. /\ cached # None /\ cached \in CachedSession /\ pc[c] \notin {"idle", "lock"}
  BY DEF IInv, Connected, SessionTyped
<1>2. /\ cached' \in CachedSession
      /\ cached'.current = cached.current /\ cached'.switches = cached.switches
      /\ conn' = conn
  BY <1>1 DEF Returned, CachedSession
<1>3. SessionTyped' /\ UnderCap' /\ Ends' /\ Agrees'
  BY <1>1, <1>2, SessionAssumption
  DEF SessionTyped, UnderCap, Ends, Agrees, IInv, Positioned
<1>4. c = Puller => pull # <<>>
  BY <1>1 DEF IInv, Busy
<1>5. pull' \in Seq(Jobs) /\ (c # Puller => pull' = pull)
  BY <1>4 DEF Returned, IInv, TaskTyped
<1> QED
  BY <1>1, <1>3, <1>5, ReleaseCore DEF Returned

LEMMA AnsweredLastCore ==
  ASSUME IInv, NEW c \in Callers, pc[c] = "run" \/ pc[c] = "expunge", AnsweredLast(c)
  PROVE  Core'
<1>1. CASE Returned(c) /\ UNCHANGED <<news, faults>>
  BY <1>1, ReturnedCore DEF AnsweredLast, IInv, RestTyped
<1>2. CASE Fail(c) /\ Fault
  BY <1>2, FailCore, SessionAssumption DEF AnsweredLast, IInv, RestTyped, Fault
<1> QED
  BY <1>1, <1>2 DEF AnsweredLast

LEMMA AnsweredCore ==
  ASSUME IInv, NEW c \in Callers, pc[c] = "run" \/ pc[c] = "mark",
         call[c].kind # "folders",
         NEW then \in {"mark", "expunge"}, Answered(c, then)
  PROVE  Core'
<1>1. CASE pc' = [pc EXCEPT ![c] = then]
           /\ UNCHANGED <<sessionVars, queue, call, pull, news, faults>>
  <2>1. SessionTyped' /\ RestTyped' /\ UnderCap' /\ Ends' /\ Agrees'
    BY <1>1 DEF Answered, IInv, SessionTyped, RestTyped, UnderCap, Ends, Agrees, Positioned,
       sessionVars
  <2>2. /\ cached # None /\ conn' = conn /\ cached' = cached
        /\ conn.selected # None
        /\ conn.selected[1] = call[c].folder
        /\ call[c].kind \in {"flags", "move", "delete"} => conn.selected[2] = "select"
    BY <1>1 DEF IInv, Connected, Positioned, At, sessionVars
  <2> QED
    BY <1>1, <2>1, <2>2, WithinCore
<1>2. CASE Fail(c) /\ Fault
  BY <1>2, FailCore, SessionAssumption DEF Answered, IInv, RestTyped, Fault
<1> QED
  BY <1>1, <1>2 DEF Answered

LEMMA CommandCore ==
  ASSUME IInv, NEW c \in Callers, Command(c)
  PROVE  Core'
<1>1. CASE ListFolders(c)
  BY <1>1, AnsweredLastCore DEF ListFolders, Ready
<1>2. CASE ListMessages(c)
  <2>1. CASE /\ Returned(c)
             /\ news' = IF c = Puller /\ At = Inbox THEN "none" ELSE news
             /\ UNCHANGED faults
    BY <1>2, <2>1, ReturnedCore DEF ListMessages, Ready, IInv, RestTyped
  <2>2. CASE Fail(c) /\ Fault
    BY <1>2, <2>2, FailCore, SessionAssumption DEF ListMessages, Ready, IInv, RestTyped, Fault
  <2> QED
    BY <1>2, <2>1, <2>2 DEF ListMessages
<1>3. CASE FetchMessage(c)
  <2>1. CASE Named(c) = {}
    BY <1>3, <2>1, FailCore DEF FetchMessage, Ready, IInv, RestTyped
  <2>2. CASE Named(c) # {}
    BY <1>3, <2>2, AnsweredLastCore DEF FetchMessage, Ready
  <2> QED
    BY <2>1, <2>2
<1>4. CASE UpdateFlags(c)
  BY <1>4, AnsweredLastCore DEF UpdateFlags, Ready
<1>5. CASE MoveCopy(c)
  BY <1>5, AnsweredCore DEF MoveCopy, Ready
<1>6. CASE MarkDeleted(c)
  BY <1>6, AnsweredCore DEF MarkDeleted, Ready
<1>7. CASE Expunge(c)
  BY <1>7, AnsweredLastCore DEF Expunge, Ready
<1> QED
  BY <1>1, <1>2, <1>3, <1>4, <1>5, <1>6, <1>7 DEF Command

LEMMA WorkCore ==
  ASSUME IInv, NEW c \in Callers, Work(c)
  PROVE  Core'
<1>1. CASE ConnectFails(c)
  BY <1>1, FailCore, SessionAssumption DEF ConnectFails, Fault, IInv, RestTyped
<1>2. CASE Dead(c)
  BY <1>2, FailCore DEF Dead, IInv, RestTyped
<1> QED
  BY <1>1, <1>2, EnterCore, ProbeCore, ConnectCore, ReuseCore, OpenCore, CommandCore
  DEF Work

LEMMA LockCore ==
  ASSUME IInv, NEW c \in Callers, NEW k \in Calls, Lock(c, k),
         c = Puller => pull # <<>>, calls' \in 0..MaxCalls
  PROVE  Core'
<1>1. /\ pc[c] = "idle" /\ pc' = [pc EXCEPT ![c] = "lock"]
      /\ call' = [call EXCEPT ![c] = k] /\ queue' = Append(queue, c)
      /\ UNCHANGED <<conn, cached, pull, idle, permit, news, faults>>
  BY DEF Lock, sessionVars
<1>2. k # NoCall
  BY SessionAssumption DEF Calls
<1>3. TaskTyped' /\ Busy'
  BY <1>1, <1>2 DEF IInv, TaskTyped, Busy, Steps
<1>4. SessionTyped' /\ RestTyped' /\ UnderCap'
  BY <1>1 DEF IInv, SessionTyped, RestTyped, UnderCap
<1>5. /\ pc'[c] = "lock"
      /\ \A d \in Callers : d # c => pc'[d] = pc[d] /\ call'[d] = call[d]
      /\ \A d \in Callers : Holds(d) => Holds(d)'
  BY <1>1 DEF IInv, TaskTyped, Holds
<1>6. Connected' /\ Positioned'
  BY <1>1, <1>5 DEF IInv, Connected, Positioned, At
<1> QED
  BY <1>3, <1>4, <1>6 DEF Core

LEMMA PlanType == PullPlan \in Seq(Jobs) /\ PullPlan # <<>>
<1> DEFINE n == 2 * Len(FolderOrder) + 1
<1>1. Len(FolderOrder) \in Nat /\ n \in Nat /\ n >= 1
  BY SessionAssumption
<1>2. ASSUME NEW i \in 1..n, i # 1
      PROVE  FolderOrder[i \div 2] \in Folders
  <2>1. i \div 2 \in 1..Len(FolderOrder)
    BY <1>1, <1>2
  <2> QED
    BY <2>1, SessionAssumption
<1>3. \A i \in 1..n : PullPlan[i] \in Jobs
  BY <1>2, SessionAssumption DEF PullPlan, Jobs
<1>4. PullPlan = [i \in 1..n |-> PullPlan[i]]
  BY DEF PullPlan
<1>5. \A f \in [1..n -> Jobs] : f \in Seq(Jobs) /\ Len(f) = n
  BY <1>1
<1> HIDE DEF n
<1>6. PullPlan \in [1..n -> Jobs]
  BY <1>3, <1>4
<1> QED
  BY <1>1, <1>5, <1>6

LEMMA PullCallCore == IInv /\ PullCall => Core'
<1> SUFFICES ASSUME IInv, PullCall PROVE Core'
  OBVIOUS
<1>1. pull # <<>> /\ Head(pull) \in Jobs /\ Puller \in Callers
  BY SessionAssumption DEF PullCall, IInv, TaskTyped
<1>2. PICK uid \in 1..MaxUid :
        Lock(Puller, [kind |-> Head(pull).kind, uid |-> uid, flags |-> {},
                      folder |-> Head(pull).folder, target |-> Head(pull).folder])
  BY DEF PullCall
<1>3. [kind |-> Head(pull).kind, uid |-> uid, flags |-> {},
       folder |-> Head(pull).folder, target |-> Head(pull).folder] \in Calls
  BY <1>1 DEF Jobs, Calls, Kinds
<1> QED
  BY <1>1, <1>2, <1>3, LockCore DEF PullCall, IInv, RestTyped

\* Steps of the pull, of IDLE, and of the world outside leave the callers alone.
LEMMA OutsideCore ==
  ASSUME IInv, UNCHANGED <<queue, call, pc>>, SessionTyped', RestTyped',
         pull' \in Seq(Jobs), pc[Puller] # "idle" => pull' = pull,
         Agrees', Ends', UnderCap',
         \/ UNCHANGED <<conn, cached>>
         \/ queue = <<>>
         \/ /\ cached' = cached /\ conn # None
            /\ conn'.selected = conn.selected
  PROVE  Core'
<1>1. TaskTyped' /\ Busy'
  BY DEF IInv, TaskTyped, Busy
<1>2. CASE UNCHANGED <<conn, cached>>
  BY <1>1, <1>2 DEF Core, IInv, Connected, Positioned, Holds, At
<1>3. CASE queue = <<>>
  BY <1>1, <1>3, NobodyInside DEF Core, IInv, Positioned, Holds
<1>4. CASE cached' = cached /\ conn # None /\ conn'.selected = conn.selected
  BY <1>1, <1>4 DEF Core, IInv, Connected, Positioned, Holds, At, Agrees, Ends
<1> QED
  BY <1>2, <1>3, <1>4

LEMMA CoreStep == IInv /\ [Next]_vars => Core'
<1> SUFFICES ASSUME IInv, [Next]_vars PROVE Core'
  OBVIOUS
<1> USE SessionAssumption
<1>0. SessionTyped /\ RestTyped /\ pull \in Seq(Jobs) /\ Agrees /\ Ends /\ UnderCap
  BY DEF IInv, TaskTyped, Positioned, Agrees, Ends
<1>1. CASE UNCHANGED vars
  BY <1>0, <1>1, OutsideCore DEF vars, SessionTyped, RestTyped, Agrees, Ends, UnderCap
<1>2. CASE \E c \in Callers : Work(c)
  BY <1>2, WorkCore
<1>3. ASSUME NEW c \in Callers, NEW k \in Calls, ToolCall(c, k)
      PROVE  Core'
  BY <1>0, <1>3, LockCore DEF ToolCall, RestTyped
<1>4. CASE PullCall
  BY <1>4, PullCallCore
<1>5. CASE PullSkip \/ Wake \/ Tick
  <2>1. /\ UNCHANGED <<queue, call, pc, conn, cached, faults, calls, idle>>
        /\ permit' \in BOOLEAN /\ news' \in {"none", "told", "taken"}
    <3>1. CASE PullSkip
      BY <1>0, <3>1 DEF PullSkip, idleVars, sessionVars, RestTyped
    <3>2. CASE Wake
      BY <1>0, <3>2 DEF Wake, sharedVars, sessionVars, RestTyped
    <3>3. CASE Tick
      BY <1>0, <3>3 DEF Tick, sharedVars, idleVars, sessionVars, RestTyped
    <3> QED
      BY <1>5, <3>1, <3>2, <3>3
  <2>2. pull' \in Seq(Jobs) /\ (pc[Puller] # "idle" => pull' = pull)
    <3>1. CASE PullSkip
      BY <1>0, <3>1 DEF PullSkip
    <3>2. CASE Wake \/ Tick
      <4>1. pull = <<>> /\ pull' = PullPlan
        BY <3>2 DEF Wake, Tick
      <4>2. pc[Puller] = "idle"
        BY <4>1 DEF IInv, Busy
      <4> QED
        BY <4>1, <4>2, PlanType
    <3> QED
      BY <1>5, <3>1, <3>2
  <2> QED
    BY <1>0, <2>1, <2>2, OutsideCore DEF SessionTyped, RestTyped, Agrees, Ends, UnderCap
<1>6. CASE IdleExamine \/ IdleInit \/ IdleNewData \/ IdleTimeout \/ IdleLost
  <2>1. /\ UNCHANGED <<queue, call, pc, conn, cached, calls, pull>>
        /\ idle' \in {"down", "examined", "armed", "roused"} /\ permit' \in BOOLEAN
        /\ news' \in {"none", "told", "taken"} /\ faults' \in 0..MaxFaults
    <3>1. CASE IdleExamine \/ IdleInit \/ IdleTimeout
      BY <1>0, <3>1 DEF IdleExamine, IdleInit, IdleTimeout, sharedVars, sessionVars, RestTyped
    <3>2. CASE IdleNewData
      BY <1>0, <3>2 DEF IdleNewData, sharedVars, sessionVars, RestTyped
    <3>3. CASE IdleLost
      BY <1>0, <3>3 DEF IdleLost, Fault, sharedVars, sessionVars, RestTyped
    <3> QED
      BY <1>6, <3>1, <3>2, <3>3
  <2> QED
    BY <1>0, <2>1, OutsideCore DEF SessionTyped, RestTyped, Agrees, Ends, UnderCap
<1>7. CASE Rest
  <2>1. cached \in CachedSession /\ cached # None
    BY <1>0, <1>7 DEF Rest, SessionTyped
  <2>2. /\ cached' = [current |-> cached.current, switches |-> cached.switches,
                      rested |-> TRUE]
        /\ UNCHANGED conn
    BY <1>7, <2>1 DEF Rest, CachedSession
  <2>3. cached' \in CachedSession
    BY <2>1, <2>2 DEF CachedSession
  <2>4. RestTyped' /\ UNCHANGED <<queue, call, pc, pull>> /\ queue = <<>>
    BY <1>0, <1>7 DEF Rest, RestTyped, taskVars, idleVars
  <2>5. SessionTyped' /\ Agrees' /\ Ends' /\ UnderCap'
    BY <1>0, <2>1, <2>2, <2>3 DEF SessionTyped, Agrees, Ends, UnderCap
  <2> QED
    BY <1>0, <2>4, <2>5, OutsideCore
<1>8. CASE Close
  <2>1. conn \in Connection /\ conn # None
    BY <1>0, <1>8 DEF Close, SessionTyped
  <2>2. /\ conn' = [alive |-> FALSE, selected |-> conn.selected, opened |-> conn.opened]
        /\ UNCHANGED cached
    BY <1>8, <2>1 DEF Close, Connection
  <2>3. conn' \in Connection
    BY <2>1, <2>2 DEF Connection
  <2>4. RestTyped' /\ UNCHANGED <<queue, call, pc, pull>>
    BY <1>0, <1>8 DEF Close, Fault, RestTyped, taskVars, idleVars
  <2>5. SessionTyped' /\ Agrees' /\ Ends' /\ UnderCap'
    BY <1>0, <2>1, <2>2, <2>3 DEF SessionTyped, Agrees, Ends, UnderCap
  <2> QED
    BY <1>0, <2>1, <2>2, <2>4, <2>5, OutsideCore
<1>9. CASE \/ \E m \in Messages : Deliver(m)
           \/ \E f \in Folders : OtherMarks(f) \/ OtherRemoves(f)
  <2>1. /\ UNCHANGED <<queue, call, pc, conn, cached, calls, pull, news, permit>>
        /\ idle' \in {"down", "examined", "armed", "roused"} /\ faults' \in 0..MaxFaults
    BY <1>0, <1>9 DEF Deliver, OtherMarks, OtherRemoves, Fault, sessionVars, taskVars,
       idleVars, RestTyped
  <2> QED
    BY <1>0, <2>1, OutsideCore DEF SessionTyped, RestTyped, Agrees, Ends, UnderCap
<1> QED
  BY <1>1, <1>2, <1>3, <1>4, <1>5, <1>6, <1>7, <1>8, <1>9 DEF Next, PullStep

LEMMA InitIInv == Init => IInv
<1> SUFFICES ASSUME Init PROVE IInv
  OBVIOUS
<1>1. MailTyped
  <2>1. (CHOOSE m \in Messages : TRUE) \in Messages
    BY SessionAssumption
  <2>2. [uid |-> 1, msg |-> CHOOSE m \in Messages : TRUE, flags |-> {},
         deleted |-> FALSE] \in Copy
    BY <2>1 DEF Copy
  <2> QED
    BY <2>2 DEF Init, MailTyped
<1>2. SessionTyped /\ RestTyped
  <2>1. 0 \in 0..MaxFaults /\ 0 \in 0..MaxCalls
    BY SessionAssumption
  <2> QED
    BY <2>1 DEF Init, SessionTyped, RestTyped
<1>4. TaskTyped
  BY DEF Init, TaskTyped, Steps
<1>3. Busy /\ Connected /\ Positioned /\ UnderCap
  BY SessionAssumption DEF Init, Busy, Connected, Positioned, UnderCap
<1> QED
  BY <1>1, <1>2, <1>3, <1>4 DEF IInv

LEMMA NextIInv == IInv /\ [Next]_vars => IInv'
BY MailType, CoreStep DEF Core, IInv

\* Every variable has its type (source/imap.rs).
THEOREM TypeCorrect == Spec => []TypeOK
<1>1. IInv => TypeOK
  BY IsTypeOK DEF IInv
<1> QED
  BY <1>1, InitIInv, NextIInv, PTL DEF Spec

\* Commands run where their callers believe they do, whatever happens to the
\* connection: session_guard and ensure_positioned.
THEOREM StaysPositioned == Spec => []Positioned
<1>1. IInv => Positioned
  BY DEF IInv
<1> QED
  BY <1>1, InitIInv, NextIInv, PTL DEF Spec

\* No connection opens more mailboxes than the server allows: should_recycle.
THEOREM StaysUnderCap == Spec => []UnderCap
<1>1. IInv => UnderCap
  BY DEF IInv
<1> QED
  BY <1>1, InitIInv, NextIInv, PTL DEF Spec

-----------------------------------------------------------------------------
(* Wake-ups                                                                *)

ListInbox == [kind |-> "list", folder |-> Inbox]

\* The call of the puller is the next one of its pull.
AtWork ==
  pc[Puller] # "idle" =>
    call[Puller].kind = Head(pull).kind /\ call[Puller].folder = Head(pull).folder

\* A wake-up is never forgotten: it is in the permit, or in the pull that took
\* the permit and still has to list the inbox.
WakeUpPending ==
  /\ news = "told" => permit
  /\ news = "taken" => \E k \in DOMAIN pull : pull[k] = ListInbox

\* A call that ends takes its job off the pull; one that fails ends the pull.
Answers(c) ==
  \/ news' = "none"
  \/ news' = news /\ pull' = pull
  \/ news' = news /\ news # "taken"
  \/ news' = news /\ pull # <<>> /\ Head(pull) # ListInbox /\ pull' = Tail(pull)

LEMMA WorkAnswers ==
  ASSUME IInv, AtWork, NEW c \in Callers, Work(c)
  PROVE  UNCHANGED <<idle, permit>> /\ Answers(c)
<1> USE DEF Answers
<1>1. ASSUME Fail(c)
      PROVE  Answers(c)
  BY <1>1 DEF Fail
<1>2. ASSUME Returned(c), pc[c] # "idle", call[c].kind # "list", news' = news
      PROVE  Answers(c)
  BY <1>2 DEF Returned, IInv, Busy, AtWork, ListInbox
<1>3. CASE Enter(c) \/ Probe(c) \/ Connect(c) \/ Reuse(c) \/ Open(c)
  BY <1>3 DEF Enter, Probe, Connect, Reuse, Open, idleVars
<1>4. CASE ConnectFails(c) \/ Dead(c)
  BY <1>1, <1>4 DEF ConnectFails, Dead
<1>5. CASE ListFolders(c) \/ UpdateFlags(c) \/ Expunge(c)
  BY <1>1, <1>2, <1>5 DEF ListFolders, UpdateFlags, Expunge, AnsweredLast, Ready
<1>6. CASE FetchMessage(c)
  BY <1>1, <1>2, <1>6 DEF FetchMessage, AnsweredLast, Ready
<1>7. CASE MoveCopy(c) \/ MarkDeleted(c)
  BY <1>1, <1>7 DEF MoveCopy, MarkDeleted, Answered
<1>8. CASE ListMessages(c)
  <2>1. CASE Fail(c)
    BY <1>1, <1>8, <2>1 DEF ListMessages
  <2>2. ASSUME Returned(c), news' = IF c = Puller /\ At = Inbox THEN "none" ELSE news
        PROVE  Answers(c)
    <3>1. pc[c] = "run" /\ call[c].kind = "list"
      BY <1>8 DEF ListMessages, Ready
    <3>2. At = call[c].folder
      BY <3>1 DEF IInv, Positioned
    <3>3. c = Puller /\ At # Inbox => pull # <<>> /\ Head(pull) # ListInbox
      BY <3>1, <3>2 DEF IInv, Busy, AtWork, ListInbox
    <3>4. pull' = IF c = Puller THEN Tail(pull) ELSE pull
      BY <2>2 DEF Returned
    <3>5. CASE c = Puller /\ At = Inbox
      BY <2>2, <3>5
    <3>6. CASE c = Puller /\ At # Inbox
      BY <2>2, <3>3, <3>4, <3>6
    <3>7. CASE c # Puller
      BY <2>2, <3>4, <3>7
    <3> QED
      BY <3>5, <3>6, <3>7
  <2> QED
    BY <1>8, <2>1, <2>2 DEF ListMessages
<1> QED
  BY <1>3, <1>4, <1>5, <1>6, <1>7, <1>8 DEF Work, Command

LEMMA NextAtWork == IInv /\ AtWork /\ [Next]_vars => AtWork'
<1> SUFFICES ASSUME IInv, AtWork, [Next]_vars, pc'[Puller] # "idle"
             PROVE  /\ call'[Puller].kind = Head(pull').kind
                    /\ call'[Puller].folder = Head(pull').folder
  BY DEF AtWork
<1> USE SessionAssumption
<1>0. TaskTyped
  BY DEF IInv
<1>1. CASE pc[Puller] # "idle" /\ UNCHANGED <<call, pull>>
  BY <1>1 DEF AtWork
<1>2. ASSUME NEW c \in Callers, Work(c)
      PROVE  pc[Puller] # "idle" /\ call'[Puller] = call[Puller] /\ pull' = pull
  <2>1. CASE Release(c)
    <3>1. c # Puller /\ pc'[Puller] = pc[Puller] /\ call'[Puller] = call[Puller]
      BY <1>0, <2>1 DEF Release, TaskTyped
    <3>2. pull' = pull
      BY <1>2, <2>1, <3>1 DEF Work, Enter, Probe, Connect, Reuse, Open, ConnectFails,
         Dead, Command, ListFolders, ListMessages, FetchMessage, UpdateFlags, MoveCopy,
         MarkDeleted, Expunge, Answered, AnsweredLast, Returned, Fail
    <3> QED
      BY <3>1, <3>2
  <2>2. CASE ~Release(c)
    <3>1. UNCHANGED <<call, pull>> /\ pc[c] # "idle"
      BY <1>2, <2>2 DEF Work, Enter, Probe, Connect, Reuse, Open, ConnectFails, Dead,
         Command, ListFolders, ListMessages, FetchMessage, UpdateFlags, MoveCopy,
         MarkDeleted, Expunge, Answered, AnsweredLast, Returned, Fail, Ready
    <3>2. c # Puller => pc'[Puller] = pc[Puller]
      BY <1>0, <1>2, <2>2 DEF Work, Enter, Probe, Connect, Reuse, Open, ConnectFails,
         Dead, Command, ListFolders, ListMessages, FetchMessage, UpdateFlags, MoveCopy,
         MarkDeleted, Expunge, Answered, AnsweredLast, Returned, Fail, TaskTyped
    <3> QED
      BY <3>1, <3>2
  <2> QED
    BY <2>1, <2>2
<1>3. ASSUME NEW c \in Callers, NEW k \in Calls, ToolCall(c, k)
      PROVE  pc[Puller] # "idle" /\ call'[Puller] = call[Puller] /\ pull' = pull
  BY <1>0, <1>3 DEF ToolCall, Lock, TaskTyped
<1>4. ASSUME PullCall
      PROVE  /\ call'[Puller].kind = Head(pull').kind
             /\ call'[Puller].folder = Head(pull').folder
  BY <1>0, <1>4 DEF PullCall, Lock, TaskTyped
<1>5. CASE PullSkip \/ Wake \/ Tick
  BY <1>5 DEF PullSkip, Wake, Tick, sharedVars, IInv, Busy
<1>6. CASE IdleExamine \/ IdleInit \/ IdleNewData \/ IdleTimeout \/ IdleLost
  BY <1>1, <1>6 DEF IdleExamine, IdleInit, IdleNewData, IdleTimeout, IdleLost, sharedVars
<1>7. CASE \/ Rest \/ Close \/ \E m \in Messages : Deliver(m)
           \/ \E f \in Folders : OtherMarks(f) \/ OtherRemoves(f)
           \/ UNCHANGED vars
  BY <1>1, <1>7 DEF Rest, Close, Deliver, OtherMarks, OtherRemoves, taskVars, vars
<1> QED
  BY <1>2, <1>3, <1>4, <1>5, <1>6, <1>7 DEF Next, PullStep, AtWork

LEMMA PlanListsInbox ==
  ASSUME NEW j \in DOMAIN FolderOrder, FolderOrder[j] = Inbox
  PROVE  \E k \in DOMAIN PullPlan : PullPlan[k] = ListInbox
<1> DEFINE k == 2 * j
<1>1. j \in 1..Len(FolderOrder) /\ Len(FolderOrder) \in Nat
  BY SessionAssumption
<1>2. k \in 1..(2 * Len(FolderOrder) + 1) /\ k # 1 /\ k % 2 = 0 /\ k \div 2 = j
  BY <1>1
<1> HIDE DEF k
<1>3. k \in DOMAIN PullPlan /\ PullPlan[k] = ListInbox
  BY <1>2 DEF PullPlan, ListInbox
<1> QED
  BY <1>3

LEMMA NextPending ==
  ASSUME IInv, AtWork, WakeUpPending, [Next]_vars,
         \E j \in DOMAIN FolderOrder : FolderOrder[j] = Inbox
  PROVE  WakeUpPending'
<1>0. pull \in Seq(Jobs)
  BY DEF IInv, TaskTyped
<1>1. ASSUME pull # <<>>, Head(pull) # ListInbox, pull' = Tail(pull),
             NEW k \in DOMAIN pull, pull[k] = ListInbox
      PROVE  \E l \in DOMAIN pull' : pull'[l] = ListInbox
  <2>1. k \in 2..Len(pull) /\ Len(Tail(pull)) = Len(pull) - 1
    BY <1>0, <1>1
  <2>2. k - 1 \in DOMAIN Tail(pull) /\ Tail(pull)[k - 1] = pull[k]
    BY <1>0, <1>1, <2>1
  <2> QED
    BY <1>1, <2>2
<1>2. CASE UNCHANGED <<news, idle, permit, pull>>
  BY <1>2 DEF WakeUpPending
<1>3. CASE \E c \in Callers : Work(c)
  BY <1>1, <1>3, WorkAnswers DEF Answers, WakeUpPending
<1>4. CASE PullSkip
  <2>1. /\ pull # <<>> /\ Head(pull) # ListInbox /\ pull' = Tail(pull)
        /\ UNCHANGED <<news, idle, permit>>
    BY <1>4 DEF PullSkip, ListInbox, idleVars
  <2> QED
    BY <1>1, <2>1 DEF WakeUpPending
<1>5. CASE Wake \/ Tick
  <2>1. pull = <<>> /\ pull' = PullPlan /\ idle' = idle
    BY <1>5 DEF Wake, Tick, idleVars
  <2>2. \E k \in DOMAIN pull' : pull'[k] = ListInbox
    BY <2>1, PlanListsInbox
  <2>3. news' # "told" \/ permit'
    BY <1>5 DEF Wake, Tick, idleVars, WakeUpPending
  <2> QED
    BY <2>1, <2>2, <2>3 DEF WakeUpPending
<1>6. CASE IdleExamine \/ IdleInit \/ IdleNewData \/ IdleTimeout \/ IdleLost
  BY <1>6 DEF IdleExamine, IdleInit, IdleNewData, IdleTimeout, IdleLost, WakeUpPending, sharedVars
<1>7. CASE \E m \in Messages : Deliver(m)
  BY <1>7 DEF Deliver, WakeUpPending, taskVars
<1>8. CASE \/ PullCall \/ Rest \/ Close
           \/ \E c \in Callers, k \in Calls : ToolCall(c, k)
           \/ \E f \in Folders : OtherMarks(f) \/ OtherRemoves(f)
           \/ UNCHANGED vars
  BY <1>2, <1>8 DEF PullCall, ToolCall, Lock, Rest, Close, OtherMarks, OtherRemoves,
     taskVars, idleVars, vars
<1> QED
  BY <1>3, <1>4, <1>5, <1>6, <1>7, <1>8 DEF Next, PullStep

\* Once idle_loop has told the puller of mail, that is not forgotten until the
\* inbox has been listed, if the server's list of folders has it: until then it
\* is in the permit that notify_one left, even if a pull is running, or in a
\* pull that will list the inbox.  Only that pull, if it fails, gives it up to
\* the ticker; nothing that befalls the IDLE connection does.  This is the part
\* of WakeUpIsAnswered that is about safety; that the permit is taken and the
\* pull goes on is fairness.
THEOREM NoWakeUpIsLost ==
  (\E j \in DOMAIN FolderOrder : FolderOrder[j] = Inbox) => (Spec => []WakeUpPending)
<1> SUFFICES ASSUME \E j \in DOMAIN FolderOrder : FolderOrder[j] = Inbox
             PROVE  Spec => []WakeUpPending
  OBVIOUS
<1>1. Init => AtWork /\ WakeUpPending
  BY SessionAssumption DEF Init, AtWork, WakeUpPending
<1>2. IInv /\ AtWork /\ WakeUpPending /\ [Next]_vars => WakeUpPending'
  BY NextPending
<1> QED
  BY <1>1, <1>2, InitIInv, NextIInv, NextAtWork, PTL DEF Spec

-----------------------------------------------------------------------------
(* No message is lost                                                      *)

\* A UID is one copy's, and the next one is free.
Below == \A f \in Folders : \A m \in box[f] : m.uid < next[f]
Unique == \A f \in Folders : \A m, n \in box[f] : m.uid = n.uid => m = n

\* A call names a UID that its folder has given out.
GivenOut ==
  \A c \in Callers : pc[c] # "idle" /\ call[c].kind \notin {"folders", "list"} =>
    call[c].uid < next[call[c].folder]

Waiting == \A c \in Callers : pc[c] = "idle" => call[c] = NoCall

Stages ==
  \A c \in Callers : /\ pc[c] = "mark" => call[c].kind = "move"
                     /\ pc[c] = "expunge" => call[c].kind \in {"move", "delete"}

\* What a call is about to expunge is to be deleted, or has a copy elsewhere.
Spared(c, m) ==
  \/ m.msg \in binned
  \/ /\ call[c].kind = "move"
     /\ \E n \in box[call[c].target] :
          /\ n.msg = m.msg
          /\ n.uid # call[c].uid \/ call[c].target # call[c].folder

Kept ==
  \A c \in Callers : pc[c] \in {"mark", "expunge"} =>
    \A m \in box[call[c].folder] : m.uid = call[c].uid => Spared(c, m)

SInv == IInv /\ Below /\ Unique /\ GivenOut /\ Waiting /\ Stages /\ Kept

\* The same copies, but for their flags.
Kin ==
  \A f \in Folders :
    /\ \A m \in box'[f] : \E o \in box[f] : o.uid = m.uid /\ o.msg = m.msg
    /\ \A o \in box[f] : \E m \in box'[f] : o.uid = m.uid /\ o.msg = m.msg

LEMMA HeldBy ==
  ASSUME NEW x
  PROVE  x \in Held <=> \E f \in Folders : \E m \in box[f] : m.msg = x
BY DEF Held

\* In folder f the copies of T take the place of those of S.
Renews(f, S, T) ==
  /\ f \in Folders /\ S \subseteq box[f]
  /\ box' = [box EXCEPT ![f] = (@ \ S) \cup T]
  /\ \A t \in T : \E s \in S : s.uid = t.uid /\ s.msg = t.msg
  /\ \A s \in S : \E t \in T : s.uid = t.uid /\ s.msg = t.msg
  /\ \A t, u \in T : t.uid = u.uid => t = u

LEMMA RenewKin ==
  ASSUME SInv, NEW f, NEW S, NEW T, Renews(f, S, T)
  PROVE  Kin /\ Unique'
<1>0. /\ f \in Folders /\ S \subseteq box[f]
      /\ box' = [box EXCEPT ![f] = (@ \ S) \cup T]
      /\ \A t \in T : \E s \in S : s.uid = t.uid /\ s.msg = t.msg
      /\ \A s \in S : \E t \in T : s.uid = t.uid /\ s.msg = t.msg
      /\ \A t, u \in T : t.uid = u.uid => t = u
  BY DEF Renews
<1>1. \A g \in Folders : box'[g] = IF g = f THEN (box[f] \ S) \cup T ELSE box[g]
  BY <1>0 DEF SInv, IInv, MailTyped
<1>2. Kin
  BY <1>0, <1>1 DEF Kin
<1>3. ASSUME NEW g \in Folders, NEW m \in box'[g], NEW n \in box'[g], m.uid = n.uid
      PROVE  m = n
  <2>1. CASE g # f
    BY <1>1, <1>3, <2>1 DEF SInv, Unique
  <2>2. CASE g = f
    <3>1. m \in (box[f] \ S) \cup T /\ n \in (box[f] \ S) \cup T
      BY <1>1, <2>2
    <3>2. ASSUME NEW t \in T, NEW o \in box[f] \ S, t.uid = o.uid
          PROVE  FALSE
      BY <1>0, <3>2 DEF SInv, Unique
    <3>3. m \in box[f] /\ n \in box[f] => m = n
      BY <1>0, <1>3 DEF SInv, Unique
    <3> QED
      BY <1>0, <1>3, <3>1, <3>2, <3>3
  <2> QED
    BY <2>1, <2>2
<1> QED
  BY <1>2, <1>3 DEF Unique

LEMMA KinHeld ==
  ASSUME Kin
  PROVE  Held \subseteq Held'
<1>1. ASSUME NEW x \in Held
      PROVE  x \in Held'
  <2>1. PICK f \in Folders : \E m \in box[f] : m.msg = x
    BY HeldBy
  <2>2. \E m \in box'[f] : m.msg = x
    BY <2>1 DEF Kin
  <2> QED
    BY <2>2 DEF Held
<1> QED
  BY <1>1

\* A command that touches the named copies only.
LEMMA Changed1 ==
  ASSUME NEW m \in Copy, NEW fl
  PROVE  /\ [m EXCEPT !.flags = fl].uid = m.uid /\ [m EXCEPT !.flags = fl].msg = m.msg
         /\ [m EXCEPT !.deleted = TRUE].uid = m.uid
         /\ [m EXCEPT !.deleted = TRUE].msg = m.msg
BY DEF Copy

\* A command that touches the named copies only.
LEMMA TouchKin ==
  ASSUME SInv, NEW c \in Callers,
         FetchMessage(c) \/ UpdateFlags(c) \/ MarkDeleted(c)
  PROVE  Kin /\ Unique' /\ UNCHANGED next
<1>1. /\ At \in Folders /\ Named(c) \subseteq box[At] /\ Named(c) \in SUBSET Copy
      /\ \A m, n \in Named(c) : m = n
      /\ UNCHANGED next
  BY Selected DEF FetchMessage, UpdateFlags, MarkDeleted, Ready, SInv, Named, Unique
<1>2. CASE UNCHANGED box
  BY <1>1, <1>2 DEF Kin, Unique, SInv
<1>3. CASE FetchMessage(c) /\ box' # box
  <2> DEFINE T == {[m EXCEPT !.flags = @ \cup {Seen}] : m \in Named(c)}
  <2>1. box' = [box EXCEPT ![At] = (@ \ Named(c)) \cup T]
    BY <1>3 DEF FetchMessage
  <2>2. CASE Named(c) = {}
    <3>1. (box[At] \ {}) \cup {} = box[At] /\ T = {}
      BY <2>2
    <3>2. \A g \in Folders : box'[g] = box[g]
      BY <1>1, <2>1, <2>2, <3>1 DEF SInv, IInv, MailTyped
    <3> QED
      BY <1>1, <3>2 DEF Kin, Unique, SInv
  <2>3. CASE Named(c) # {}
    <3>1. PICK s \in Named(c) : Named(c) = {s}
      BY <1>1, <2>3
    <3> DEFINE t == [s EXCEPT !.flags = s.flags \cup {Seen}]
    <3>2. T = {t} /\ s \in Copy
      BY <1>1, <3>1
    <3>3. t.uid = s.uid /\ t.msg = s.msg
      BY <3>2 DEF Copy
    <3> HIDE DEF T, t
    <3>4. Renews(At, {s}, T)
      BY <1>1, <2>1, <3>1, <3>2, <3>3 DEF Renews
    <3> QED
      BY <1>1, <3>4, RenewKin
  <2> QED
    BY <2>2, <2>3
<1>4. CASE UpdateFlags(c)
  <2> DEFINE T == {[m EXCEPT !.flags = call[c].flags] : m \in Named(c)}
  <2>1. box' = [box EXCEPT ![At] = (@ \ Named(c)) \cup T]
    BY <1>4 DEF UpdateFlags
  <2>2. CASE Named(c) = {}
    <3>1. (box[At] \ {}) \cup {} = box[At] /\ T = {}
      BY <2>2
    <3>2. \A g \in Folders : box'[g] = box[g]
      BY <1>1, <2>1, <2>2, <3>1 DEF SInv, IInv, MailTyped
    <3> QED
      BY <1>1, <3>2 DEF Kin, Unique, SInv
  <2>3. CASE Named(c) # {}
    <3>1. PICK s \in Named(c) : Named(c) = {s}
      BY <1>1, <2>3
    <3> DEFINE t == [s EXCEPT !.flags = call[c].flags]
    <3>2. T = {t} /\ s \in Copy
      BY <1>1, <3>1
    <3>3. t.uid = s.uid /\ t.msg = s.msg
      BY <3>2 DEF Copy
    <3> HIDE DEF T, t
    <3>4. Renews(At, {s}, T)
      BY <1>1, <2>1, <3>1, <3>2, <3>3 DEF Renews
    <3> QED
      BY <1>1, <3>4, RenewKin
  <2> QED
    BY <2>2, <2>3
<1>5. CASE MarkDeleted(c)
  <2> DEFINE T == {[m EXCEPT !.deleted = TRUE] : m \in Named(c)}
  <2>1. box' = [box EXCEPT ![At] = (@ \ Named(c)) \cup T]
    BY <1>5 DEF MarkDeleted
  <2>2. CASE Named(c) = {}
    <3>1. (box[At] \ {}) \cup {} = box[At] /\ T = {}
      BY <2>2
    <3>2. \A g \in Folders : box'[g] = box[g]
      BY <1>1, <2>1, <2>2, <3>1 DEF SInv, IInv, MailTyped
    <3> QED
      BY <1>1, <3>2 DEF Kin, Unique, SInv
  <2>3. CASE Named(c) # {}
    <3>1. PICK s \in Named(c) : Named(c) = {s}
      BY <1>1, <2>3
    <3> DEFINE t == [s EXCEPT !.deleted = TRUE]
    <3>2. T = {t} /\ s \in Copy
      BY <1>1, <3>1
    <3>3. t.uid = s.uid /\ t.msg = s.msg
      BY <3>2 DEF Copy
    <3> HIDE DEF T, t
    <3>4. Renews(At, {s}, T)
      BY <1>1, <2>1, <3>1, <3>2, <3>3 DEF Renews
    <3> QED
      BY <1>1, <3>4, RenewKin
  <2> QED
    BY <2>2, <2>3
<1> QED
  BY <1>1, <1>2, <1>3, <1>4, <1>5

LEMMA OtherMarksKin ==
  ASSUME SInv, NEW f \in Folders, OtherMarks(f)
  PROVE  Kin /\ Unique' /\ UNCHANGED <<next, binned>>
<1>1. PICK m \in box[f] : box' = [box EXCEPT ![f] = (@ \ {m}) \cup
                                     {[m EXCEPT !.deleted = TRUE]}]
  BY DEF OtherMarks
<1>2. m \in Copy
  BY DEF SInv, IInv, MailTyped
<1>3. Renews(f, {m}, {[m EXCEPT !.deleted = TRUE]})
  BY <1>1, <1>2, Changed1 DEF Renews
<1> QED
  BY <1>3, RenewKin DEF OtherMarks

\* A copy with the next UID joins folder f.
Joins(f, x) ==
  /\ f \in Folders /\ x.uid = next[f]
  /\ box' = [box EXCEPT ![f] = @ \cup {x}]
  /\ next' = [next EXCEPT ![f] = @ + 1]

LEMMA JoinsFine ==
  ASSUME SInv, NEW f, NEW x, Joins(f, x)
  PROVE  /\ Below' /\ Unique'
         /\ \A g \in Folders : /\ box[g] \subseteq box'[g]
                               /\ \A m \in box'[g] : m \in box[g] \/ (g = f /\ m = x)
                               /\ next[g] \in Nat /\ next[g] <= next'[g]
<1>1. /\ f \in Folders /\ x.uid = next[f]
      /\ \A g \in Folders : /\ box'[g] = IF g = f THEN box[f] \cup {x} ELSE box[g]
                            /\ next'[g] = IF g = f THEN next[f] + 1 ELSE next[g]
                            /\ next[g] \in Nat
      /\ \A g \in Folders : \A m \in box[g] : m.uid \in Nat
  BY DEF Joins, SInv, IInv, MailTyped, Copy
<1>2. \A g \in Folders : \A m \in box[g] : m.uid < next[g]
  BY DEF SInv, Below
<1>3. Below'
  BY <1>1, <1>2 DEF Below
<1>4. \A m \in box[f] : m.uid # x.uid
  BY <1>1, <1>2
<1>5. Unique'
  BY <1>1, <1>4 DEF SInv, Unique
<1> QED
  BY <1>1, <1>3, <1>5

\* Copies leave folder f.
Leaves(f, S) == f \in Folders /\ box' = [box EXCEPT ![f] = @ \ S] /\ UNCHANGED next

LEMMA LeavesFine ==
  ASSUME SInv, NEW f, NEW S, Leaves(f, S)
  PROVE  /\ Below' /\ Unique'
         /\ \A g \in Folders : /\ box'[g] \subseteq box[g]
                               /\ \A m \in box[g] : m \in box'[g] \/ (g = f /\ m \in S)
<1>1. \A g \in Folders : box'[g] = IF g = f THEN box[f] \ S ELSE box[g]
  BY DEF Leaves, SInv, IInv, MailTyped
<1> QED
  BY <1>1 DEF Leaves, SInv, Below, Unique

LEMMA KinBelow ==
  ASSUME SInv, Kin, UNCHANGED next
  PROVE  Below'
<1>1. ASSUME NEW f \in Folders, NEW m \in box'[f]
      PROVE  m.uid < next'[f]
  BY DEF Kin, SInv, Below
<1> QED
  BY <1>1 DEF Below

\* What a step may do to the folders.
Same == Kin /\ Unique' /\ UNCHANGED next /\ binned \subseteq binned'
Copied(c) ==
  /\ MoveCopy(c) /\ UNCHANGED binned
  /\ \E m \in Named(c), x \in Copy : x.msg = m.msg /\ Joins(call[c].target, x)
Arrived == UNCHANGED binned /\ \E x \in Copy : Joins(Inbox, x)
Expunged(c) == Expunge(c) /\ UNCHANGED binned /\ Leaves(At, {m \in Named(c) : m.deleted})
Removed(f) == \E m \in box[f] : Leaves(f, {m}) /\ binned' = binned \cup {m.msg}

LEMMA MoveCopyStep ==
  ASSUME SInv, NEW c \in Callers, MoveCopy(c)
  PROVE  (Named(c) = {} /\ UNCHANGED <<box, next>>) \/ Copied(c)
<1>1. ASSUME NEW m \in Named(c), NEW t, t = call[c].target,
             box' = [box EXCEPT ![t] = @ \cup {[m EXCEPT !.uid = next[t]]}],
             next' = [next EXCEPT ![t] = @ + 1]
      PROVE  Copied(c)
  <2> DEFINE x == [m EXCEPT !.uid = next[t]]
  <2>1. m \in Copy /\ t \in Folders
    BY <1>1, Selected DEF MoveCopy, Ready, SInv, Calls
  <2>2. next[t] \in Nat
    BY <2>1 DEF SInv, IInv, MailTyped
  <2>3. x \in Copy /\ x.uid = next[t] /\ x.msg = m.msg
    BY <2>1, <2>2 DEF Copy
  <2> HIDE DEF x
  <2>4. Joins(t, x)
    BY <1>1, <2>1, <2>3 DEF Joins, x
  <2>5. UNCHANGED binned
    BY DEF MoveCopy
  <2> QED
    BY <1>1, <2>3, <2>4, <2>5 DEF Copied
<1> QED
  BY <1>1 DEF MoveCopy

LEMMA MailStep ==
  ASSUME SInv, [Next]_vars
  PROVE  \/ Same
         \/ \E c \in Callers : Copied(c) \/ Expunged(c)
         \/ Arrived
         \/ \E f \in Folders : Removed(f)
<1> USE SessionAssumption
<1>1. CASE UNCHANGED mailVars
  BY <1>1 DEF mailVars, Same, Kin, SInv, Unique
<1>2. ASSUME NEW c \in Callers, FetchMessage(c) \/ UpdateFlags(c) \/ MarkDeleted(c)
      PROVE  Same
  <2>1. binned \subseteq binned'
    BY <1>2 DEF FetchMessage, UpdateFlags, MarkDeleted
  <2> QED
    BY <1>2, <2>1, TouchKin DEF Same
<1>3. ASSUME NEW c \in Callers, MoveCopy(c)
      PROVE  Same \/ Copied(c)
  BY <1>3, MoveCopyStep DEF MoveCopy, Same, Kin, SInv, Unique
<1>4. ASSUME NEW c \in Callers, Expunge(c)
      PROVE  Expunged(c)
  BY <1>4, Selected DEF Expunge, Ready, Expunged, Leaves, SInv
<1>5. ASSUME NEW m \in Messages, Deliver(m)
      PROVE  Arrived
  <2> DEFINE x == [uid |-> next[Inbox], msg |-> m, flags |-> {}, deleted |-> FALSE]
  <2>1. next[Inbox] \in Nat
    BY DEF SInv, IInv, MailTyped
  <2>2. x \in Copy
    BY <2>1 DEF Copy
  <2>3. x.uid = next[Inbox]
    OBVIOUS
  <2>4. Joins(Inbox, x)
    BY <1>5, <2>3 DEF Joins, Deliver
  <2> QED
    BY <1>5, <2>2, <2>4 DEF Arrived, Deliver
<1>6. ASSUME NEW f \in Folders, OtherMarks(f)
      PROVE  Same
  BY <1>6, OtherMarksKin DEF Same
<1>7. ASSUME NEW f \in Folders, OtherRemoves(f)
      PROVE  Removed(f)
  BY <1>7 DEF OtherRemoves, Removed, Leaves
<1> QED
  BY <1>1, <1>2, <1>3, <1>4, <1>5, <1>6, <1>7, MailFrame

\* What a step may do to the call of c.
Stays(c) == call'[c] = call[c] /\ pc'[c] = pc[c]
Moves(c) == call'[c] = call[c] /\ pc[c] # "idle" /\ pc'[c] \in {"probe", "connect", "position", "run"}
Copies(c) == call'[c] = call[c] /\ pc'[c] = "mark" /\ MoveCopy(c)
Marks(c) == call'[c] = call[c] /\ pc'[c] = "expunge" /\ MarkDeleted(c)
Returns(c) == call'[c] = NoCall /\ pc'[c] = "idle"
Starts(c) ==
  /\ pc'[c] = "lock" /\ UNCHANGED mailVars
  /\ call'[c].kind \notin {"folders", "list"} => call'[c].uid < next[call'[c].folder]

LEMMA WorkTask ==
  ASSUME SInv, NEW d \in Callers, Work(d), NEW c \in Callers
  PROVE  Stays(c) \/ Moves(c) \/ Copies(c) \/ Marks(c) \/ Returns(c)
<1>0. TaskTyped
  BY DEF SInv, IInv
<1>1. CASE Release(d)
  BY <1>0, <1>1 DEF Release, TaskTyped, Returns, Stays
<1>2. CASE Enter(d) \/ Probe(d) \/ Connect(d) \/ Reuse(d) \/ Open(d)
  BY <1>0, <1>2 DEF Enter, Probe, Connect, Reuse, Open, TaskTyped, Moves, Stays
<1>3. CASE MoveCopy(d) /\ ~Release(d)
  <2>1. pc' = [pc EXCEPT ![d] = "mark"] /\ call' = call
    BY <1>3 DEF MoveCopy, Answered, Fail
  <2> QED
    BY <1>0, <1>3, <2>1 DEF TaskTyped, Copies, Stays
<1>4. CASE MarkDeleted(d) /\ ~Release(d)
  <2>1. pc' = [pc EXCEPT ![d] = "expunge"] /\ call' = call
    BY <1>4 DEF MarkDeleted, Answered, Fail
  <2> QED
    BY <1>0, <1>4, <2>1 DEF TaskTyped, Marks, Stays
<1>5. CASE \/ ConnectFails(d) \/ Dead(d) \/ ListFolders(d) \/ ListMessages(d)
           \/ FetchMessage(d) \/ UpdateFlags(d) \/ Expunge(d)
  BY <1>1, <1>5 DEF ConnectFails, Dead, ListFolders, ListMessages, FetchMessage,
     UpdateFlags, Expunge, AnsweredLast, Returned, Fail
<1> QED
  BY <1>1, <1>2, <1>3, <1>4, <1>5 DEF Work, Command

LEMMA TaskStep ==
  ASSUME SInv, [Next]_vars, NEW c \in Callers
  PROVE  Stays(c) \/ Moves(c) \/ Copies(c) \/ Marks(c) \/ Returns(c) \/ Starts(c)
<1> USE SessionAssumption
<1>0. TaskTyped
  BY DEF SInv, IInv
<1>1. CASE \E d \in Callers : Work(d)
  BY <1>1, WorkTask
<1>2. ASSUME NEW d \in Callers, NEW k \in Calls, ToolCall(d, k)
      PROVE  Stays(c) \/ Starts(c)
  BY <1>0, <1>2 DEF ToolCall, Lock, TaskTyped, Stays, Starts
<1>3. CASE PullCall
  <2>1. PICK uid \in 1..MaxUid :
          /\ Head(pull).kind = "fetch" => \E m \in box[Head(pull).folder] : m.uid = uid
          /\ Lock(Puller, [kind |-> Head(pull).kind, uid |-> uid, flags |-> {},
                           folder |-> Head(pull).folder, target |-> Head(pull).folder])
    BY <1>3 DEF PullCall
  <2>2. Head(pull) \in Jobs
    BY <1>0, <1>3 DEF PullCall, TaskTyped
  <2>3. Head(pull).kind = "fetch" => uid < next[Head(pull).folder]
    BY <2>1, <2>2 DEF SInv, Below, Jobs
  <2>4. Head(pull).kind \in {"folders", "list", "fetch"}
    BY <2>2 DEF Jobs
  <2> QED
    BY <1>0, <2>1, <2>3, <2>4 DEF Lock, TaskTyped, Stays, Starts
<1>4. CASE UNCHANGED <<call, pc>>
  BY <1>4 DEF Stays
<1>5. CASE PullSkip \/ Wake \/ Tick \/ IdleExamine \/ IdleInit \/ IdleNewData \/ IdleTimeout \/ IdleLost
  BY <1>4, <1>5 DEF PullSkip, Wake, Tick, IdleExamine, IdleInit, IdleNewData, IdleTimeout, IdleLost,
     sharedVars
<1>6. CASE \/ Rest \/ Close \/ \E m \in Messages : Deliver(m)
           \/ \E f \in Folders : OtherMarks(f) \/ OtherRemoves(f)
  BY <1>4, <1>6 DEF Rest, Close, Deliver, OtherMarks, OtherRemoves, taskVars
<1> QED
  BY <1>1, <1>2, <1>3, <1>4, <1>5, <1>6 DEF Next, PullStep, vars

\* Calls are begun, and folders hand out UIDs upwards.
LEMMA CallsKept ==
  ASSUME SInv, [Next]_vars
  PROVE  Below' /\ Unique' /\ GivenOut' /\ Waiting' /\ Stages'
<1>1. Below' /\ Unique' /\ (\A g \in Folders : next[g] \in Nat /\ next'[g] \in Nat
                                               /\ next[g] <= next'[g])
  <2>0. \A g \in Folders : next[g] \in Nat
    BY DEF SInv, IInv, MailTyped
  <2>1. CASE Same
    BY <2>0, <2>1, KinBelow DEF Same
  <2>2. ASSUME NEW f, NEW x, Joins(f, x)
        PROVE  Below' /\ Unique' /\ (\A g \in Folders : next'[g] \in Nat /\ next[g] <= next'[g])
    <3>1. Below' /\ Unique' /\ \A g \in Folders : next[g] <= next'[g]
      BY <2>2, JoinsFine
    <3>2. \A g \in Folders : next'[g] \in Nat
      BY <2>0, <2>2 DEF Joins, SInv, IInv, MailTyped
    <3> QED
      BY <3>1, <3>2
  <2>3. ASSUME NEW f, NEW S, Leaves(f, S)
        PROVE  Below' /\ Unique' /\ (\A g \in Folders : next'[g] \in Nat /\ next[g] <= next'[g])
    <3>1. UNCHANGED next
      BY <2>3 DEF Leaves
    <3> QED
      BY <2>0, <2>3, <3>1, LeavesFine
  <2> QED
    BY <2>0, <2>1, <2>2, <2>3, MailStep DEF Copied, Arrived, Expunged, Removed
<1>2. ASSUME NEW c \in Callers, pc'[c] # "idle", call'[c].kind \notin {"folders", "list"}
      PROVE  call'[c].uid < next'[call'[c].folder]
  <2>1. IInv'
    BY NextIInv DEF SInv
  <2>2. call'[c] \in Calls
    BY <1>2, <2>1 DEF IInv, TaskTyped, Busy
  <2>3. call'[c].folder \in Folders /\ call'[c].uid \in Nat
    BY <2>2 DEF Calls
  <2>4. CASE Starts(c)
    BY <1>1, <1>2, <2>3, <2>4 DEF Starts
  <2>5. CASE call'[c] = call[c] /\ pc[c] # "idle"
    BY <1>1, <1>2, <2>3, <2>5 DEF SInv, GivenOut
  <2> QED
    BY <1>2, <2>4, <2>5, TaskStep
    DEF Stays, Moves, Copies, Marks, Returns, MoveCopy, MarkDeleted, Ready
<1>3. ASSUME NEW c \in Callers, pc'[c] = "idle"
      PROVE  call'[c] = NoCall
  BY <1>3, TaskStep DEF Stays, Moves, Copies, Marks, Returns, Starts, SInv, Waiting
<1>4. ASSUME NEW c \in Callers
      PROVE  /\ pc'[c] = "mark" => call'[c].kind = "move"
             /\ pc'[c] = "expunge" => call'[c].kind \in {"move", "delete"}
  BY <1>4, TaskStep DEF Stays, Moves, Copies, Marks, Returns, Starts, SInv, Stages,
     MoveCopy, MarkDeleted, Ready
<1> QED
  BY <1>1, <1>2, <1>3, <1>4 DEF GivenOut, Waiting, Stages

\* What made it safe to expunge m stays so.
LEMMA SparedStays ==
  ASSUME SInv, NEW c \in Callers, call'[c] = call[c], call[c] \in Calls,
         binned \subseteq binned', NEW m, Spared(c, m), NEW n, n.msg = m.msg,
         \A o \in box[call[c].target] :
           \/ o.msg \in binned'
           \/ \E u \in box'[call[c].target] : u.uid = o.uid /\ u.msg = o.msg
  PROVE  Spared(c, n)'
<1>1. CASE m.msg \in binned
  BY <1>1 DEF Spared
<1>2. CASE m.msg \notin binned
  <2>1. PICK o \in box[call[c].target] :
          o.msg = m.msg /\ (o.uid # call[c].uid \/ call[c].target # call[c].folder)
    BY <1>2 DEF Spared
  <2> QED
    BY <1>2, <2>1 DEF Spared
<1> QED
  BY <1>1, <1>2

LEMMA KeptStep == SInv /\ [Next]_vars => Kept'
<1> SUFFICES ASSUME SInv, [Next]_vars, NEW c \in Callers, pc'[c] \in {"mark", "expunge"},
                    NEW n \in box'[call'[c].folder], n.uid = call'[c].uid
             PROVE  Spared(c, n)'
  BY DEF Kept
<1> DEFINE f == call[c].folder
           t == call[c].target
<1>0. Stays(c) \/ Copies(c) \/ Marks(c)
  BY TaskStep DEF Moves, Returns, Starts
<1>1. /\ call'[c] = call[c] /\ pc[c] \in {"run", "mark", "expunge"}
      /\ call[c].kind \in {"move", "delete"}
  BY <1>0 DEF Stays, Copies, Marks, MoveCopy, MarkDeleted, Ready, SInv, Stages
<1>2. /\ call[c] \in Calls /\ At = f /\ f \in Folders /\ t \in Folders
      /\ call[c].uid \in Nat /\ call[c].uid < next[f]
  BY <1>1, Selected DEF SInv, GivenOut, Calls
<1>3. CASE Marks(c)
  <2>1. Kin /\ binned \subseteq binned'
    BY <1>3, TouchKin DEF Marks, MarkDeleted
  <2>2. PICK m \in box[f] : m.uid = n.uid /\ m.msg = n.msg
    BY <1>1, <1>2, <2>1 DEF Kin
  <2>3. CASE pc[c] = "run"
    <3>1. m \in Named(c)
      BY <1>1, <1>2, <2>2 DEF Named
    <3>2. n.msg \in binned'
      BY <1>3, <2>2, <2>3, <3>1 DEF Marks, MarkDeleted, Ready
    <3> QED
      BY <3>2 DEF Spared
  <2>4. CASE pc[c] = "mark"
    <3>1. Spared(c, m)
      BY <1>1, <2>2, <2>4 DEF SInv, Kept
    <3>2. \A o \in box[t] : \E u \in box'[t] : u.uid = o.uid /\ u.msg = o.msg
      BY <1>2, <2>1 DEF Kin
    <3> QED
      BY <1>1, <1>2, <2>1, <2>2, <3>1, <3>2, SparedStays
  <2> QED
    BY <1>3, <2>3, <2>4 DEF Marks, MarkDeleted, Ready
<1>4. CASE Copies(c)
  <2>1. Copied(c)
    <3>1. CASE Named(c) = {} /\ UNCHANGED <<box, next>>
      BY <1>1, <1>2, <3>1 DEF Named
    <3> QED
      BY <1>4, <3>1, MoveCopyStep DEF Copies
  <2>2. PICK m \in Named(c), x \in Copy : x.msg = m.msg /\ Joins(t, x)
    BY <2>1 DEF Copied
  <2>3. m \in box[f] /\ m.uid = call[c].uid
    BY <1>2, <2>2 DEF Named
  <2>4. x \in box'[t] /\ x.uid = next[t]
    BY <1>2, <2>2 DEF Joins, SInv, IInv, MailTyped
  <2>5. x.uid # call[c].uid \/ t # f
    BY <1>2, <2>4
  <2>6. n \in box[f] \/ (n = x /\ f = t)
    BY <1>1, <1>2, <2>2, JoinsFine
  <2>7. n = m
    BY <1>1, <1>2, <2>3, <2>5, <2>6 DEF SInv, Unique
  <2>8. call[c].kind = "move"
    BY <1>4 DEF Copies, MoveCopy, Ready
  <2> QED
    BY <1>1, <2>2, <2>4, <2>5, <2>7, <2>8 DEF Spared
<1>5. CASE Stays(c)
  <2>1. pc[c] \in {"mark", "expunge"}
    BY <1>5 DEF Stays
  <2>2. \A m \in box[f] : m.uid = call[c].uid => Spared(c, m)
    BY <2>1 DEF SInv, Kept
  <2>3. CASE Same
    <3>1. PICK m \in box[f] : m.uid = n.uid /\ m.msg = n.msg
      BY <1>1, <1>2, <2>3 DEF Same, Kin
    <3>2. \A o \in box[t] : \E u \in box'[t] : u.uid = o.uid /\ u.msg = o.msg
      BY <1>2, <2>3 DEF Same, Kin
    <3> QED
      BY <1>1, <1>2, <2>2, <2>3, <3>1, <3>2, SparedStays DEF Same
  <2>4. ASSUME NEW d \in Callers, Copied(d) \/ Expunged(d)
        PROVE  FALSE
    <3>1. pc[d] \in {"run", "expunge"}
      BY <2>4 DEF Copied, MoveCopy, Expunged, Expunge, Ready
    <3>2. d = c
      BY <2>1, <3>1, Alone DEF SInv
    <3>3. CASE Copied(c)
      BY <2>1, <3>3 DEF Copied, MoveCopy, Ready
    <3>4. CASE Expunged(c)
      BY <1>5, <2>1, <3>4 DEF Expunged, Expunge, AnsweredLast, Returned, Fail, Release,
         Stays, SInv, IInv, TaskTyped
    <3> QED
      BY <2>4, <3>2, <3>3, <3>4
  <2>5. CASE Arrived
    <3>1. PICK x \in Copy : Joins(Inbox, x) /\ UNCHANGED binned
      BY <2>5 DEF Arrived
    <3>2. x.uid = next[Inbox]
      BY <3>1 DEF Joins
    <3>3. n \in box[f]
      BY <1>1, <1>2, <3>1, <3>2, JoinsFine
    <3>4. \A o \in box[t] : o \in box'[t]
      BY <1>2, <3>1, JoinsFine
    <3> QED
      BY <1>1, <1>2, <2>2, <3>1, <3>3, <3>4, SparedStays
  <2>6. ASSUME NEW g \in Folders, Removed(g)
        PROVE  Spared(c, n)'
    <3>1. PICK m \in box[g] : Leaves(g, {m}) /\ binned' = binned \cup {m.msg}
      BY <2>6 DEF Removed
    <3>2. n \in box[f]
      BY <1>1, <1>2, <3>1, LeavesFine
    <3>3. \A o \in box[t] : o \in box'[t] \/ o.msg \in binned'
      BY <1>2, <3>1, LeavesFine
    <3> QED
      BY <1>1, <1>2, <2>2, <3>1, <3>2, <3>3, SparedStays
  <2> QED
    BY <2>3, <2>4, <2>5, <2>6, MailStep
<1> QED
  BY <1>0, <1>3, <1>4, <1>5

LEMMA InitSInv == Init => SInv
<1> SUFFICES ASSUME Init PROVE SInv
  OBVIOUS
<1> DEFINE first == [uid |-> 1, msg |-> CHOOSE m \in Messages : TRUE,
                     flags |-> {}, deleted |-> FALSE]
<1>0. \A f \in Folders : /\ box[f] = IF f = Inbox THEN {first} ELSE {}
                         /\ next[f] = IF f = Inbox THEN 2 ELSE 1
  BY DEF Init
<1>5. first.uid = 1
  OBVIOUS
<1> HIDE DEF first
<1>1. \A f \in Folders : \A m \in box[f] : /\ m.uid = 1 /\ next[f] = 2
                                          /\ \A n \in box[f] : m = n
  BY <1>0, <1>5
<1>2. Below
  <2>1. ASSUME NEW f \in Folders, NEW m \in box[f]
        PROVE  m.uid < next[f]
    <3>1. m.uid = 1 /\ next[f] = 2
      BY <1>1
    <3> QED
      BY <3>1
  <2> QED
    BY <2>1 DEF Below
<1>4. Unique
  BY <1>1 DEF Unique
<1>3. \A c \in Callers : pc[c] = "idle" /\ call[c] = NoCall
  BY DEF Init
<1> QED
  BY <1>2, <1>3, <1>4, InitIInv DEF SInv, GivenOut, Waiting, Stages, Kept

LEMMA NextSInv == SInv /\ [Next]_vars => SInv'
BY NextIInv, CallsKept, KeptStep DEF SInv

LEMMA LossStep ==
  ASSUME SInv, [Next]_vars
  PROVE  \A x \in Held \ Held' : x \in binned'
<1> SUFFICES ASSUME NEW x \in Held, x \notin Held'
             PROVE  x \in binned'
  OBVIOUS
<1>1. PICK f \in Folders : \E m \in box[f] : m.msg = x
  BY HeldBy
<1>2. PICK m \in box[f] : m.msg = x
  BY <1>1
<1>3. \A g \in Folders : \A n \in box'[g] : n.msg # x
  BY DEF Held
<1>4. ~Same
  BY <1>3, KinHeld DEF Same, Held
<1>5. \A g, y : ~Joins(g, y)
  BY <1>2, <1>3, JoinsFine
<1>6. ASSUME NEW g \in Folders, Removed(g)
      PROVE  x \in binned'
  BY <1>2, <1>3, <1>6, LeavesFine DEF Removed
<1>7. ASSUME NEW c \in Callers, Expunged(c)
      PROVE  x \in binned'
  <2>1. /\ pc[c] = "expunge" /\ call[c].kind \in {"move", "delete"}
        /\ Leaves(At, {n \in Named(c) : n.deleted}) /\ UNCHANGED binned
    BY <1>7 DEF Expunged, Expunge, Ready
  <2>2. call[c] \in Calls /\ At = call[c].folder
    BY <2>1, Selected DEF SInv
  <2>3. f = At /\ m \in Named(c)
    BY <1>2, <1>3, <2>1, LeavesFine
  <2>4. Spared(c, m)
    BY <2>1, <2>2, <2>3 DEF SInv, Kept, Named
  <2>5. CASE m.msg \notin binned
    <3>1. PICK n \in box[call[c].target] :
            n.msg = m.msg /\ (n.uid # call[c].uid \/ call[c].target # call[c].folder)
      BY <2>4, <2>5 DEF Spared
    <3>2. call[c].target \in Folders
      BY <2>2 DEF Calls
    <3>3. n \in box'[call[c].target]
      BY <2>1, <2>2, <3>1, <3>2, LeavesFine DEF Named
    <3> QED
      BY <1>2, <1>3, <3>1, <3>2, <3>3
  <2> QED
    BY <1>2, <2>1, <2>5
<1> QED
  BY <1>4, <1>5, <1>6, <1>7, MailStep DEF Copied, Arrived

\* A message leaves the mailbox only if somebody asked for that: move_message
\* and delete_message, cut off anywhere, and whatever other clients mark.
THEOREM NothingLost == Spec => NoLoss
<1>1. SInv /\ [Next]_vars => \A m \in Held \ Held' : m \in binned'
  BY LossStep
<1> QED
  BY <1>1, InitSInv, NextSInv, PTL DEF Spec, NoLoss

-----------------------------------------------------------------------------
(* The session implements the mailbox of Mailbox.tla: what it does for its *)
(* callers is what they asked for.                                         *)

stages == [c \in Callers |-> Stage(c)]

LEMMA StageIs ==
  ASSUME NEW c \in Callers
  PROVE  /\ pc[c] = "mark" => Stage(c) = 1
         /\ pc[c] = "expunge" => Stage(c) = IF call[c].kind = "move" THEN 2 ELSE 1
         /\ pc[c] \notin {"mark", "expunge"} => Stage(c) = 0
BY DEF Stage

LEMMA StageIsNext ==
  ASSUME NEW c \in Callers
  PROVE  /\ pc'[c] = "mark" => Stage(c)' = 1
         /\ pc'[c] = "expunge" => Stage(c)' = IF call'[c].kind = "move" THEN 2 ELSE 1
         /\ pc'[c] \notin {"mark", "expunge"} => Stage(c)' = 0
BY DEF Stage

\* A step that leaves the other callers alone.
Only(c) ==
  /\ call' = [call EXCEPT ![c] = call'[c]]
  /\ pc' = [pc EXCEPT ![c] = pc'[c]]

LEMMA StagesOnly ==
  ASSUME SInv, NEW c \in Callers, Only(c)
  PROVE  stages' = [stages EXCEPT ![c] = Stage(c)']
<1>1. \A d \in Callers : d # c => call'[d] = call[d] /\ pc'[d] = pc[d]
  BY DEF Only, SInv, IInv, TaskTyped
<1>2. \A d \in Callers : d # c => Stage(d)' = Stage(d)
  BY <1>1 DEF Stage
<1> QED
  BY <1>2 DEF stages

LEMMA Quiet ==
  ASSUME SInv, NEW c \in Callers, Only(c), UNCHANGED <<box, next, call>>,
         pc[c] \notin {"mark", "expunge"}, pc'[c] \notin {"mark", "expunge"}
  PROVE  UNCHANGED Mail!absVars
<1>1. Stage(c)' = Stage(c)
  BY StageIs, StageIsNext
<1>2. stages' = stages
  BY <1>1, StagesOnly DEF stages
<1> QED
  BY <1>2 DEF Mail!absVars, stages

LEMMA InitMaps == Init => Mail!Init
<1> SUFFICES ASSUME Init PROVE Mail!Init
  OBVIOUS
<1>1. \A f \in Folders : \A m \in box[f] : m \in Mail!Copy /\ m.uid < next[f]
  BY InitSInv DEF SInv, IInv, MailTyped, Below, Copy, Mail!Copy
<1>2. [c \in Callers |-> Stage(c)] = [c \in Callers |-> 0]
  BY StageIs DEF Init
<1> QED
  BY <1>1, <1>2 DEF Init, Mail!Init

LEMMA LockBegins ==
  ASSUME SInv, NEW c \in Callers, NEW k \in Calls, Lock(c, k)
  PROVE  Mail!Begin(c)
<1>1. /\ call' = [call EXCEPT ![c] = k] /\ pc' = [pc EXCEPT ![c] = "lock"]
      /\ UNCHANGED <<box, next>> /\ call[c] = NoCall
  BY DEF Lock, mailVars, SInv, Waiting
<1>2. call'[c] = k /\ pc'[c] = "lock"
  BY <1>1 DEF SInv, IInv, TaskTyped
<1>3. Only(c)
  BY <1>1, <1>2 DEF Only
<1>4. stages' = [stages EXCEPT ![c] = 0]
  BY <1>2, <1>3, StagesOnly, StageIsNext
<1>5. Calls \subseteq Mail!Calls
  BY SessionAssumption DEF Calls, Mail!Calls, Kinds, Mail!Kinds
<1>6. call' \in [Callers -> Mail!Calls \cup {NoCall}]
  BY <1>1, <1>5 DEF SInv, IInv, TaskTyped
<1>7. \A d \in Callers \ {c} : call'[d] = call[d]
  BY <1>1 DEF SInv, IInv, TaskTyped
<1> QED
  BY <1>1, <1>4, <1>6, <1>7 DEF Mail!Begin, stages

\* The call of c, which is at a command, is over.
LEMMA Over ==
  ASSUME SInv, NEW c \in Callers, Release(c)
  PROVE  /\ call' = [call EXCEPT ![c] = NoCall]
         /\ stages' = [stages EXCEPT ![c] = 0]
<1>1. call'[c] = NoCall /\ pc'[c] = "idle"
  BY DEF Release, SInv, IInv, TaskTyped
<1>2. Only(c)
  BY <1>1 DEF Release, Only
<1> QED
  BY <1>1, <1>2, StagesOnly, StageIsNext DEF Release

LEMMA ReleaseEnds ==
  ASSUME SInv, NEW c \in Callers, pc[c] # "idle", Release(c), UNCHANGED <<box, next>>
  PROVE  Mail!End(c)
BY Over DEF Mail!End, stages, SInv, IInv, Busy

\* A command took effect, and the call goes on or is over.
LEMMA Effect ==
  ASSUME SInv, NEW c \in Callers, NEW kinds, NEW at \in 0..2,
         pc[c] \in {"run", "mark", "expunge"}, call[c].kind \in kinds, Stage(c) = at,
         \/ Release(c)
         \/ Only(c) /\ UNCHANGED call /\ Stage(c)' = at + 1
  PROVE  Mail!Commanded(c, kinds, at)
<1>1. call[c] # NoCall /\ stages[c] = at
  BY DEF SInv, IInv, Busy, stages
<1>2. CASE Release(c)
  BY <1>1, <1>2, Over DEF Mail!Commanded, Mail!DoesAndEnds, stages
<1>3. CASE Only(c) /\ UNCHANGED call /\ Stage(c)' = at + 1
  <2>1. stages' = [stages EXCEPT ![c] = @ + 1]
    BY <1>1, <1>3, StagesOnly
  <2> QED
    BY <1>1, <1>3, <2>1 DEF Mail!Commanded, Mail!Does, stages
<1> QED
  BY <1>2, <1>3

LEMMA Goes ==
  ASSUME SInv, NEW c \in Callers, NEW then, pc' = [pc EXCEPT ![c] = then], UNCHANGED call
  PROVE  Only(c) /\ pc'[c] = then
BY DEF Only, SInv, IInv, TaskTyped

LEMMA SameNamed ==
  ASSUME SInv, NEW c \in Callers, pc[c] \in {"run", "mark", "expunge"},
         call[c].kind # "folders"
  PROVE  At = call[c].folder /\ Named(c) = Mail!Named(c)
BY Selected DEF SInv, Named, Mail!Named

LEMMA CommandMaps ==
  ASSUME SInv, NEW c \in Callers, Command(c)
  PROVE  Mail!Work(c) \/ Mail!End(c)
<1>1. CASE ListFolders(c) \/ ListMessages(c)
  BY <1>1, ReleaseEnds DEF ListFolders, ListMessages, AnsweredLast, Returned, Fail,
     Ready, mailVars
<1>2. CASE FetchMessage(c)
  <2>1. pc[c] = "run" /\ call[c].kind = "fetch" /\ Release(c) /\ UNCHANGED next
    BY <1>2 DEF FetchMessage, Ready, AnsweredLast, Returned, Fail
  <2>2. CASE UNCHANGED box
    BY <2>1, <2>2, ReleaseEnds
  <2>3. CASE box' # box
    <3>1. Mail!SeenEffect(c)
      BY <1>2, <2>1, <2>3, SameNamed DEF FetchMessage, Mail!SeenEffect
    <3>2. Mail!Commanded(c, {"fetch"}, 0)
      BY <2>1, Effect, StageIs
    <3> QED
      BY <3>1, <3>2 DEF Mail!Work
  <2> QED
    BY <2>2, <2>3
<1>3. CASE UpdateFlags(c)
  <2>1. pc[c] = "run" /\ call[c].kind = "flags" /\ Release(c)
    BY <1>3 DEF UpdateFlags, Ready, AnsweredLast, Returned, Fail
  <2>2. Mail!StoreEffect(c)
    BY <1>3, <2>1, SameNamed DEF UpdateFlags, Mail!StoreEffect
  <2>3. Mail!Commanded(c, {"flags"}, 0)
    BY <2>1, Effect, StageIs
  <2> QED
    BY <2>2, <2>3 DEF Mail!Work
<1>4. CASE MoveCopy(c)
  <2>1. pc[c] = "run" /\ call[c].kind = "move"
    BY <1>4 DEF MoveCopy, Ready
  <2>2. Mail!CopyEffect(c)
    BY <1>4, <2>1, SameNamed DEF MoveCopy, Mail!CopyEffect
  <2>3. Release(c) \/ (Only(c) /\ UNCHANGED call /\ pc'[c] = "mark")
    BY <1>4, Goes DEF MoveCopy, Answered, Fail
  <2>4. Mail!Commanded(c, {"move"}, 0)
    BY <2>1, <2>3, Effect, StageIs, StageIsNext
  <2> QED
    BY <2>2, <2>4 DEF Mail!Work
<1>5. CASE MarkDeleted(c)
  <2>1. \/ pc[c] = "mark" /\ call[c].kind = "move"
        \/ pc[c] = "run" /\ call[c].kind = "delete"
    BY <1>5 DEF MarkDeleted, Ready
  <2>2. Mail!MarkEffect(c)
    BY <1>5, <2>1, SameNamed DEF MarkDeleted, Mail!MarkEffect
  <2>3. Release(c) \/ (Only(c) /\ UNCHANGED call /\ pc'[c] = "expunge")
    BY <1>5, Goes DEF MarkDeleted, Answered, Fail
  <2>4. CASE call[c].kind = "move"
    <3>1. Mail!Commanded(c, {"move"}, 1)
      BY <2>1, <2>3, <2>4, Effect, StageIs, StageIsNext
    <3> QED
      BY <2>2, <3>1 DEF Mail!Work
  <2>5. CASE call[c].kind = "delete"
    <3>1. Mail!Commanded(c, {"delete"}, 0)
      BY <2>1, <2>3, <2>5, Effect, StageIs, StageIsNext
    <3> QED
      BY <2>2, <3>1 DEF Mail!Work
  <2> QED
    BY <2>1, <2>4, <2>5
<1>6. CASE Expunge(c)
  <2>1. pc[c] = "expunge" /\ call[c].kind \in {"move", "delete"} /\ Release(c)
    BY <1>6 DEF Expunge, Ready, AnsweredLast, Returned, Fail
  <2>2. Mail!ExpungeEffect(c)
    BY <1>6, <2>1, SameNamed DEF Expunge, Mail!ExpungeEffect
  <2>3. CASE call[c].kind = "move"
    <3>1. Mail!Commanded(c, {"move"}, 2)
      BY <2>1, <2>3, Effect, StageIs
    <3> QED
      BY <2>2, <3>1 DEF Mail!Work
  <2>4. CASE call[c].kind = "delete"
    <3>1. Mail!Commanded(c, {"delete"}, 1)
      BY <2>1, <2>4, Effect, StageIs
    <3> QED
      BY <2>2, <3>1 DEF Mail!Work
  <2> QED
    BY <2>1, <2>3, <2>4
<1> QED
  BY <1>1, <1>2, <1>3, <1>4, <1>5, <1>6 DEF Command

LEMMA WorkMaps ==
  ASSUME SInv, NEW c \in Callers, Work(c)
  PROVE  Mail!Work(c) \/ Mail!End(c) \/ UNCHANGED Mail!absVars
<1>1. CASE Enter(c) \/ Probe(c) \/ Connect(c) \/ Reuse(c) \/ Open(c)
  <2>1. /\ UNCHANGED <<box, next, call>>
        /\ pc[c] \in {"lock", "probe", "connect", "position"}
        /\ pc' \in {[pc EXCEPT ![c] = s] : s \in {"connect", "probe", "position", "run"}}
    BY <1>1 DEF Enter, Probe, Connect, Reuse, Open, mailVars
  <2>2. Only(c) /\ pc'[c] \in {"connect", "probe", "position", "run"}
    BY <2>1, Goes
  <2> QED
    BY <2>1, <2>2, Quiet
<1>2. CASE ConnectFails(c) \/ Dead(c)
  BY <1>2, ReleaseEnds DEF ConnectFails, Dead, Fail, mailVars
<1> QED
  BY <1>1, <1>2, CommandMaps DEF Work

LEMMA OthersMap ==
  ASSUME SInv, \/ \E m \in Messages : Deliver(m)
               \/ \E f \in Folders : OtherMarks(f) \/ OtherRemoves(f)
  PROVE  Mail!Others
<1>1. UNCHANGED call /\ stages' = stages
  BY DEF Deliver, OtherMarks, OtherRemoves, taskVars, stages, Stage
<1>2. ASSUME NEW m \in Messages, Deliver(m)
      PROVE  Mail!Others
  <2>1. /\ Inbox \in Folders /\ {} \in SUBSET Flags
        /\ box' = [box EXCEPT ![Inbox] =
                     @ \cup {[uid |-> next[Inbox], msg |-> m, flags |-> {},
                              deleted |-> FALSE]}]
        /\ next' = [next EXCEPT ![Inbox] = @ + 1]
    BY <1>2, SessionAssumption DEF Deliver
  <2>2. \E f \in Folders, n \in Messages, fl \in SUBSET Flags :
          /\ box' = [box EXCEPT ![f] =
                       @ \cup {[uid |-> next[f], msg |-> n, flags |-> fl,
                                deleted |-> FALSE]}]
          /\ next' = [next EXCEPT ![f] = @ + 1]
    BY <2>1, Zenon
  <2> QED
    BY <1>1, <2>2 DEF Mail!Others, stages
<1>3. ASSUME NEW f \in Folders, OtherMarks(f)
      PROVE  Mail!Others
  BY <1>1, <1>3 DEF OtherMarks, Mail!Others, stages
<1>4. ASSUME NEW f \in Folders, OtherRemoves(f)
      PROVE  Mail!Others
  BY <1>1, <1>4 DEF OtherRemoves, Mail!Others, stages
<1> QED
  BY <1>2, <1>3, <1>4

LEMMA NextMaps == SInv /\ [Next]_vars => [Mail!Next]_Mail!absVars
<1> SUFFICES ASSUME SInv, [Next]_vars PROVE [Mail!Next]_Mail!absVars
  OBVIOUS
<1>1. ASSUME UNCHANGED <<box, next, call, pc>>
      PROVE  UNCHANGED Mail!absVars
  BY <1>1 DEF Mail!absVars, Stage
<1>2. CASE \E c \in Callers : Work(c)
  BY <1>2, WorkMaps DEF Mail!Next
<1>3. ASSUME NEW c \in Callers, NEW k \in Calls, ToolCall(c, k)
      PROVE  Mail!Next
  BY <1>3, LockBegins DEF ToolCall, Mail!Next
<1>4. CASE PullCall
  <2>1. Head(pull) \in Jobs
    BY <1>4 DEF PullCall, SInv, IInv, TaskTyped
  <2>2. PICK uid \in 1..MaxUid :
          Lock(Puller, [kind |-> Head(pull).kind, uid |-> uid, flags |-> {},
                        folder |-> Head(pull).folder, target |-> Head(pull).folder])
    BY <1>4 DEF PullCall
  <2>3. [kind |-> Head(pull).kind, uid |-> uid, flags |-> {},
         folder |-> Head(pull).folder, target |-> Head(pull).folder] \in Calls
    BY <2>1 DEF Jobs, Calls, Kinds
  <2> QED
    BY <2>2, <2>3, LockBegins, SessionAssumption DEF Mail!Next
<1>5. CASE \/ PullSkip \/ Wake \/ Tick
           \/ IdleExamine \/ IdleInit \/ IdleNewData \/ IdleTimeout \/ IdleLost
  BY <1>1, <1>5 DEF PullSkip, Wake, Tick, IdleExamine, IdleInit, IdleNewData, IdleTimeout, IdleLost,
     sharedVars, mailVars
<1>6. CASE Rest \/ Close
  BY <1>1, <1>6 DEF Rest, Close, mailVars, taskVars
<1>7. CASE \/ \E m \in Messages : Deliver(m)
           \/ \E f \in Folders : OtherMarks(f) \/ OtherRemoves(f)
  BY <1>7, OthersMap DEF Mail!Next
<1>8. CASE UNCHANGED vars
  BY <1>1, <1>8 DEF vars
<1> QED
  BY <1>2, <1>3, <1>4, <1>5, <1>6, <1>7, <1>8 DEF Next, PullStep

\* What the session does for its callers is what they asked for, in order and
\* at most once, whatever becomes of the connection (source/imap.rs): it
\* implements the mailbox.
THEOREM SessionImplementsMailbox == Spec => ImplementsMailbox
BY InitSInv, NextSInv, InitMaps, NextMaps, PTL DEF Spec, ImplementsMailbox, Mail!Spec
=============================================================================
