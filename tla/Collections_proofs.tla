------------------------- MODULE Collections_proofs -------------------------
(* Proofs about the backup of contacts, events and sieve scripts: for any   *)
(* items, kinds of server, requests and bounds.                             *)
EXTENDS Collections, FiniteSetTheorems, SequenceTheorems, TLAPS

-----------------------------------------------------------------------------
(* The inductive invariant behind the type invariant                       *)

\* An operation that writes has something to write.
Sound(op) == op.do \in {"create", "update"} => op.content # None

\* What requests carry out, and what dry runs returned, is sound.
OpsSound ==
  /\ \A r \in Tasks : \A k \in DOMAIN job[r] : Sound(job[r][k])
  /\ \A p \in plans : \A k \in DOMAIN p.ops : Sound(p.ops[k])

Working == Pulling \cup {"api", "audit"}

\* A request at work has an operation in hand, and pull loops only pull.
JobInHand ==
  /\ \A r \in Requests : pc[r] \in Working => job[r] # <<>>
  /\ \A k \in Kinds : pc[k] \in Pulling \cup {"idle"}

\* What a pull is about to write is in what it took from the server.
Writable ==
  \A s \in Tasks :
    /\ pc[s] \in {"apply", "body", "unlink"} =>
         \A i \in todo[s] : listed[s][i] # None
    /\ pc[s] = "body" => at[s] \in Items /\ listed[s][at[s]] # None
    /\ pc[s] = "unlink" => at[s] \in Items

Shape == TypeOK /\ OpsSound /\ JobInHand /\ Writable

LEMMA MarkType ==
  ASSUME NEW i \in Items, NEW v \in Version
  PROVE  Mark(i, v) \in Marks
BY DEF Mark, Marks, Version

\* A commit of files that have their types, under any caller.
LEMMA SnapshotType ==
  ASSUME TypeOK, NEW who \in (Requests \X Items) \cup {None}
  PROVE  /\ Snapshot(who) \in Commit
         /\ Append(log, Snapshot(who)) \in Seq(Commit)
<1>1. Snapshot(who) \in Commit
  BY DEF Snapshot, Commit, TypeOK
<1>2. log \in Seq(Commit)
  BY DEF TypeOK
<1> QED
  BY <1>1, <1>2, AppendProperties

LEMMA InitShape == Init => Shape
<1> SUFFICES ASSUME Init PROVE Shape
  OBVIOUS
<1>1. live \in [Items -> Version \cup {None}] /\ stamp \in Nat
  BY DEF Init, Version
<1>2. /\ body \in [Items -> Contents \cup {None}]
      /\ meta \in [Items -> Marks \cup {None}]
      /\ dirs \subseteq Calendars
  <2>1. \A i \in Backed : live[i] \in Version /\ live[i].content \in Contents
    BY CollectionsAssumption DEF Init, Version
  <2>2. \A i \in Backed : Mark(i, live[i]) \in Marks
    BY <2>1, MarkType, CollectionsAssumption
  <2>3. /\ body = [i \in Items |-> IF i \in Backed THEN live[i].content ELSE None]
        /\ meta = [i \in Items |-> IF i \in Backed THEN Mark(i, live[i]) ELSE None]
        /\ dirs = IF Backed = {} THEN {} ELSE Calendars
    BY DEF Init
  <2> QED
    BY <2>1, <2>2, <2>3
<1>3. log \in Seq(Commit)
  <2>1. Snapshot(None) \in Commit
    BY <1>2 DEF Snapshot, Commit
  <2> QED
    BY <2>1 DEF Init
<1>4. TypeOK
  <2>1. cals = Calendars /\ cache = None
    BY DEF Init
  <2>2. /\ pc \in [Tasks -> Pulling \cup {"idle", "api", "audit", "done", "err"}]
        /\ known \in [Tasks -> SUBSET Calendars]
        /\ listed \in [Tasks -> [Items -> Version \cup {None}]]
        /\ todo \in [Tasks -> SUBSET Items]
        /\ gone \in [Tasks -> SUBSET Items]
        /\ at \in [Tasks -> Items \cup {None}]
    BY DEF Init, Nothing
  <2>3. /\ job \in [Tasks -> Seq(Op)]
        /\ mode \in [Tasks -> {"write", "restore", "bulk"}]
        /\ did \in [Tasks -> SUBSET Deed]
        /\ plans \subseteq Plan
        /\ upsets \in [AllUpsets -> Nat]
        /\ moves \in Nat
        /\ calls \in Nat
    BY DEF Init
  <2> QED
    BY <1>1, <1>2, <1>3, <2>1, <2>2, <2>3 DEF TypeOK
<1>5. OpsSound /\ JobInHand /\ Writable
  BY DEF Init, OpsSound, JobInHand, Writable, Tasks, Working, Pulling, Kinds
<1> QED
  BY <1>4, <1>5 DEF Shape

LEMMA ListCalendarsShape ==
  ASSUME Shape, NEW s \in Tasks, ListCalendars(s)
  PROVE  Shape'
<1>1. TypeOK'
  BY SnapshotType, MarkType DEF Shape, TypeOK, Writable, Pulling, Tasks, Goto, server, files,
     pullVars, jobVars, env, ListCalendars, CalendarPages, OnePage, Seen, Reported
<1>2. OpsSound'
  BY DEF Shape, OpsSound, jobVars, ListCalendars
<1>3. JobInHand'
  BY CollectionsAssumption DEF Shape, TypeOK, JobInHand, Working, Pulling, Tasks,
     Kinds, Kind, Goto, jobVars, ListCalendars
<1>4. Writable'
  BY DEF Shape, TypeOK, Writable, Goto, server, files, pullVars, jobVars, env, ListCalendars, CalendarPages, OnePage, Seen, Reported
<1> QED
  BY <1>1, <1>2, <1>3, <1>4 DEF Shape

LEMMA ListContactsShape ==
  ASSUME Shape, NEW s \in Tasks, ListContacts(s)
  PROVE  Shape'
<1>1. TypeOK'
  BY SnapshotType, MarkType DEF Shape, TypeOK, Writable, Pulling, Tasks, Goto, server, files,
     pullVars, jobVars, env, ListContacts, Take, Of
<1>2. OpsSound'
  BY DEF Shape, OpsSound, jobVars, ListContacts, Take
<1>3. JobInHand'
  BY CollectionsAssumption DEF Shape, TypeOK, JobInHand, Working, Pulling, Tasks,
     Kinds, Kind, Goto, jobVars, ListContacts, Take
<1>4. Writable'
  BY DEF Shape, TypeOK, Writable, Goto, server, files, pullVars, jobVars, env, ListContacts, Take, Of
<1> QED
  BY <1>1, <1>2, <1>3, <1>4 DEF Shape

LEMMA ListEventsShape ==
  ASSUME Shape, NEW s \in Tasks, ListEvents(s)
  PROVE  Shape'
<1>1. TypeOK'
  BY SnapshotType, MarkType DEF Shape, TypeOK, Writable, Pulling, Tasks, Goto, server, files,
     pullVars, jobVars, env, ListEvents, Take, Of, Reported, Seen
<1>2. OpsSound'
  BY DEF Shape, OpsSound, jobVars, ListEvents, Take
<1>3. JobInHand'
  BY CollectionsAssumption DEF Shape, TypeOK, JobInHand, Working, Pulling, Tasks,
     Kinds, Kind, Goto, jobVars, ListEvents, Take
<1>4. Writable'
  BY DEF Shape, TypeOK, Writable, Goto, server, files, pullVars, jobVars, env, ListEvents, Take, Of, Reported, Seen
<1> QED
  BY <1>1, <1>2, <1>3, <1>4 DEF Shape

LEMMA ListScriptsShape ==
  ASSUME Shape, NEW s \in Tasks, ListScripts(s)
  PROVE  Shape'
<1>1. TypeOK'
  BY SnapshotType, MarkType DEF Shape, TypeOK, Writable, Pulling, Tasks, Goto, server, files,
     pullVars, jobVars, env, ListScripts, OnePage, Of
<1>2. OpsSound'
  BY DEF Shape, OpsSound, jobVars, ListScripts
<1>3. JobInHand'
  BY CollectionsAssumption DEF Shape, TypeOK, JobInHand, Working, Pulling, Tasks,
     Kinds, Kind, Goto, jobVars, ListScripts
<1>4. Writable'
  BY DEF Shape, TypeOK, Writable, Goto, server, files, pullVars, jobVars, env, ListScripts, OnePage, Of
<1> QED
  BY <1>1, <1>2, <1>3, <1>4 DEF Shape

LEMMA GetScriptShape ==
  ASSUME Shape, NEW s \in Tasks, GetScript(s)
  PROVE  Shape'
<1> DEFINE Got == \E i \in todo[s] :
                    /\ live[i] # None
                    /\ listed' = [listed EXCEPT ![s][i] = live[i]]
                    /\ todo' = [todo EXCEPT ![s] = @ \ {i}]
<1>1. /\ pc[s] = "get"
      /\ \/ Got /\ pc' = pc
         \/ listed' = listed /\ todo' = todo /\ Goto(s, "diff")
      /\ UNCHANGED <<server, cache, files, log, known, gone, at, jobVars, plans, env>>
  BY DEF GetScript
<1>2. todo' \in [Tasks -> SUBSET Items] /\ listed' \in [Tasks -> [Items -> Version \cup {None}]]
  <2>1. CASE Got
    <3>1. PICK i \in todo[s] : /\ live[i] # None
                              /\ listed' = [listed EXCEPT ![s][i] = live[i]]
                              /\ todo' = [todo EXCEPT ![s] = @ \ {i}]
      BY <2>1
    <3>2. i \in Items /\ live[i] \in Version
      BY <3>1 DEF Shape, TypeOK
    <3> QED
      BY <3>1, <3>2 DEF Shape, TypeOK
  <2> QED
    BY <1>1, <2>1 DEF Shape, TypeOK
<1>3. pc' \in [Tasks -> Pulling \cup {"idle", "api", "audit", "done", "err"}]
  BY <1>1 DEF Shape, TypeOK, Goto, Pulling
<1>4. \A t \in Tasks : pc'[t] = pc[t] \/ (t = s /\ pc'[t] = "diff")
  BY <1>1 DEF Shape, TypeOK, Goto
<1>5. \A t \in Tasks : t # s => todo'[t] = todo[t] /\ listed'[t] = listed[t]
  BY <1>1 DEF Shape, TypeOK
<1>6. TypeOK'
  BY <1>1, <1>2, <1>3 DEF Shape, TypeOK, server, files, jobVars, env
<1>7. OpsSound'
  BY <1>1 DEF Shape, OpsSound, jobVars
<1>8. JobInHand'
  BY <1>1, <1>4, CollectionsAssumption
  DEF Shape, JobInHand, Working, Pulling, Tasks, jobVars
<1>9. Writable'
  BY <1>1, <1>4, <1>5 DEF Shape, Writable
<1> QED
  BY <1>6, <1>7, <1>8, <1>9 DEF Shape

LEMMA DiffShape ==
  ASSUME Shape, NEW s \in Tasks, Diff(s)
  PROVE  Shape'
<1>1. TypeOK'
  BY SnapshotType, MarkType DEF Shape, TypeOK, Writable, Pulling, Tasks, Goto, server, files,
     pullVars, jobVars, env, Diff, Changed, Disappeared, Of, Local
<1>2. OpsSound'
  BY DEF Shape, OpsSound, jobVars, Diff
<1>3. JobInHand'
  BY CollectionsAssumption DEF Shape, TypeOK, JobInHand, Working, Pulling, Tasks,
     Kinds, Kind, Goto, jobVars, Diff
<1>4. Writable'
  BY DEF Shape, TypeOK, Writable, Goto, server, files, pullVars, jobVars, env, Diff, Changed, Disappeared, Of, Local
<1> QED
  BY <1>1, <1>2, <1>3, <1>4 DEF Shape

LEMMA WriteBodyShape ==
  ASSUME Shape, NEW s \in Tasks, WriteBody(s)
  PROVE  Shape'
<1>1. TypeOK'
  <2>1. PICK i \in todo[s] :
               /\ body' = [body EXCEPT ![i] = listed[s][i].content]
               /\ todo' = [todo EXCEPT ![s] = @ \ {i}]
               /\ at' = [at EXCEPT ![s] = i]
    BY DEF WriteBody
  <2>2. i \in Items /\ listed[s][i].content \in Contents
    BY <2>1 DEF WriteBody, Shape, TypeOK, Writable, Version
  <2>3. /\ body' \in [Items -> Contents \cup {None}]
        /\ todo' \in [Tasks -> SUBSET Items]
        /\ at' \in [Tasks -> Items \cup {None}]
    BY <2>1, <2>2 DEF Shape, TypeOK
  <2> QED
    BY <2>3 DEF WriteBody, Shape, TypeOK, Goto, Pulling, server, jobVars, env
<1>2. OpsSound'
  BY DEF Shape, OpsSound, jobVars, WriteBody
<1>3. JobInHand'
  BY CollectionsAssumption DEF Shape, TypeOK, JobInHand, Working, Pulling, Tasks,
     Kinds, Kind, Goto, jobVars, WriteBody
<1>4. Writable'
  BY DEF Shape, TypeOK, Writable, Goto, server, files, pullVars, jobVars, env, WriteBody
<1> QED
  BY <1>1, <1>2, <1>3, <1>4 DEF Shape

LEMMA WriteMetaShape ==
  ASSUME Shape, NEW s \in Tasks, WriteMeta(s)
  PROVE  Shape'
<1>1. TypeOK'
  BY SnapshotType, MarkType DEF Shape, TypeOK, Writable, Pulling, Tasks, Goto, server, files,
     pullVars, jobVars, env, WriteMeta
<1>2. OpsSound'
  BY DEF Shape, OpsSound, jobVars, WriteMeta
<1>3. JobInHand'
  BY CollectionsAssumption DEF Shape, TypeOK, JobInHand, Working, Pulling, Tasks,
     Kinds, Kind, Goto, jobVars, WriteMeta
<1>4. Writable'
  BY DEF Shape, TypeOK, Writable, Goto, server, files, pullVars, jobVars, env, WriteMeta
<1> QED
  BY <1>1, <1>2, <1>3, <1>4 DEF Shape

LEMMA RemoveBodyShape ==
  ASSUME Shape, NEW s \in Tasks, RemoveBody(s)
  PROVE  Shape'
<1>1. TypeOK'
  BY SnapshotType, MarkType DEF Shape, TypeOK, Writable, Pulling, Tasks, Goto, server, files,
     pullVars, jobVars, env, RemoveBody
<1>2. OpsSound'
  BY DEF Shape, OpsSound, jobVars, RemoveBody
<1>3. JobInHand'
  BY CollectionsAssumption DEF Shape, TypeOK, JobInHand, Working, Pulling, Tasks,
     Kinds, Kind, Goto, jobVars, RemoveBody
<1>4. Writable'
  BY DEF Shape, TypeOK, Writable, Goto, server, files, pullVars, jobVars, env, RemoveBody
<1> QED
  BY <1>1, <1>2, <1>3, <1>4 DEF Shape

LEMMA RemoveMetaShape ==
  ASSUME Shape, NEW s \in Tasks, RemoveMeta(s)
  PROVE  Shape'
<1>1. TypeOK'
  BY SnapshotType, MarkType DEF Shape, TypeOK, Writable, Pulling, Tasks, Goto, server, files,
     pullVars, jobVars, env, RemoveMeta
<1>2. OpsSound'
  BY DEF Shape, OpsSound, jobVars, RemoveMeta
<1>3. JobInHand'
  BY CollectionsAssumption DEF Shape, TypeOK, JobInHand, Working, Pulling, Tasks,
     Kinds, Kind, Goto, jobVars, RemoveMeta
<1>4. Writable'
  BY DEF Shape, TypeOK, Writable, Goto, server, files, pullVars, jobVars, env, RemoveMeta
<1> QED
  BY <1>1, <1>2, <1>3, <1>4 DEF Shape

LEMMA CleanupShape ==
  ASSUME Shape, NEW s \in Tasks, Cleanup(s)
  PROVE  Shape'
<1>1. TypeOK'
  BY SnapshotType, MarkType DEF Shape, TypeOK, Writable, Pulling, Tasks, Goto, server, files,
     pullVars, jobVars, env, Cleanup
<1>2. OpsSound'
  BY DEF Shape, OpsSound, jobVars, Cleanup
<1>3. JobInHand'
  BY CollectionsAssumption DEF Shape, TypeOK, JobInHand, Working, Pulling, Tasks,
     Kinds, Kind, Goto, jobVars, Cleanup
<1>4. Writable'
  BY DEF Shape, TypeOK, Writable, Goto, server, files, pullVars, jobVars, env, Cleanup
<1> QED
  BY <1>1, <1>2, <1>3, <1>4 DEF Shape

LEMMA CommitPullShape ==
  ASSUME Shape, NEW s \in Tasks, CommitPull(s)
  PROVE  Shape'
<1>1. TypeOK'
  BY SnapshotType, MarkType DEF Shape, TypeOK, Writable, Pulling, Tasks, Goto, server, files,
     pullVars, jobVars, env, CommitPull, Nothing
<1>2. OpsSound'
  BY DEF Shape, OpsSound, jobVars, CommitPull
<1>3. JobInHand'
  BY CollectionsAssumption DEF Shape, TypeOK, JobInHand, Working, Pulling, Tasks,
     Kinds, Kind, Goto, jobVars, CommitPull
<1>4. Writable'
  BY DEF Shape, TypeOK, Writable, Goto, server, files, pullVars, jobVars, env, CommitPull, Nothing
<1> QED
  BY <1>1, <1>2, <1>3, <1>4 DEF Shape

-----------------------------------------------------------------------------
(* Requests: a job goes on to its next operation, or ends                  *)

\* The types of what a request's job consists of.
JobTypes ==
  /\ pc \in [Tasks -> Pulling \cup {"idle", "api", "audit", "done", "err"}]
  /\ job \in [Tasks -> Seq(Op)]
  /\ mode \in [Tasks -> {"write", "restore", "bulk"}]
  /\ did \in [Tasks -> SUBSET Deed]
  /\ \A r \in Tasks : \A k \in DOMAIN job[r] : Sound(job[r][k])

LEMMA RequestIsTask ==
  ASSUME NEW r \in Requests
  PROVE  r \in Tasks /\ r \notin Kinds
BY CollectionsAssumption DEF Tasks

LEMMA TailSound ==
  ASSUME NEW q \in Seq(Op), q # <<>>, \A k \in DOMAIN q : Sound(q[k])
  PROVE  /\ Tail(q) \in Seq(Op)
         /\ \A k \in DOMAIN Tail(q) : Sound(Tail(q)[k])
<1>1. /\ Tail(q) \in Seq(Op)
      /\ Len(Tail(q)) = Len(q) - 1
      /\ \A k \in 1..Len(Tail(q)) : Tail(q)[k] = q[k + 1]
  BY HeadTailProperties
<1>2. /\ DOMAIN q = 1..Len(q) /\ Len(q) \in Nat
      /\ DOMAIN Tail(q) = 1..Len(Tail(q)) /\ Len(Tail(q)) \in Nat
  BY <1>1, LenProperties
<1>3. \A k \in 1..Len(Tail(q)) : k + 1 \in 1..Len(q)
  BY <1>1, <1>2
<1> QED
  BY <1>1, <1>2, <1>3

LEMMA AdvanceJob ==
  ASSUME Shape, NEW r \in Requests, job[r] # <<>>, Advance(r), did' \in [Tasks -> SUBSET Deed]
  PROVE  /\ JobTypes' /\ JobInHand'
         /\ pc'[r] \in {"api", "done"}
         /\ \A t \in Tasks \ {r} : pc'[t] = pc[t]
<1>1. r \in Tasks /\ r \notin Kinds
  BY RequestIsTask
<1>2. /\ Tail(job[r]) \in Seq(Op)
      /\ \A k \in DOMAIN Tail(job[r]) : Sound(Tail(job[r])[k])
  BY <1>1, TailSound DEF Shape, TypeOK, OpsSound
<1>3. /\ job' = [job EXCEPT ![r] = Tail(job[r])]
      /\ pc' = [pc EXCEPT ![r] = IF Tail(job[r]) = <<>> THEN "done" ELSE "api"]
      /\ mode' = mode
  BY DEF Advance, Goto
<1>4. JobTypes'
  BY <1>1, <1>2, <1>3 DEF JobTypes, Shape, TypeOK, OpsSound
<1>5. JobInHand'
  BY <1>1, <1>3 DEF JobInHand, Shape, TypeOK, Tasks, Working, Pulling
<1> QED
  BY <1>1, <1>3, <1>4, <1>5 DEF Shape, TypeOK

LEMMA OpFailsJob ==
  ASSUME Shape, NEW r \in Requests, job[r] # <<>>, OpFails(r)
  PROVE  /\ JobTypes' /\ JobInHand'
         /\ pc'[r] \in {"api", "done", "err"}
         /\ \A t \in Tasks \ {r} : pc'[t] = pc[t]
<1>1. r \in Tasks /\ r \notin Kinds
  BY RequestIsTask
<1>2. did' \in [Tasks -> SUBSET Deed]
  BY <1>1 DEF OpFails, Undid, Shape, TypeOK
<1>3. CASE mode[r] = "bulk"
  BY <1>2, <1>3, AdvanceJob DEF OpFails
<1>4. CASE mode[r] # "bulk"
  <2>1. /\ job' = [job EXCEPT ![r] = <<>>]
        /\ pc' = [pc EXCEPT ![r] = "err"]
        /\ mode' = mode
    BY <1>4 DEF OpFails, Goto
  <2>2. JobTypes'
    BY <1>1, <1>2, <2>1 DEF JobTypes, Shape, TypeOK, OpsSound
  <2>3. JobInHand'
    BY <1>1, <2>1 DEF JobInHand, Shape, TypeOK, Tasks, Working, Pulling
  <2> QED
    BY <1>1, <2>1, <2>2, <2>3 DEF Shape, TypeOK
<1> QED
  BY <1>3, <1>4

\* A pull that fails, with whatever upset it counts as.
LEMMA PullFailsShape ==
  ASSUME Shape, NEW s \in Tasks, pc[s] \in Pulling, PullFails(s),
         cache' \in (SUBSET Calendars) \cup {None},
         upsets' \in [AllUpsets -> Nat], moves' \in Nat, calls' \in Nat
  PROVE  Shape'
<1>1. /\ known' \in [Tasks -> SUBSET Calendars]
      /\ listed' \in [Tasks -> [Items -> Version \cup {None}]]
      /\ todo' \in [Tasks -> SUBSET Items]
      /\ gone' \in [Tasks -> SUBSET Items]
      /\ at' \in [Tasks -> Items \cup {None}]
      /\ UNCHANGED <<server, files, log, plans>>
  <2>1. Nothing \in [Items -> Version \cup {None}]
    BY DEF Nothing
  <2>2. /\ known' = [known EXCEPT ![s] = {}]
        /\ listed' = [listed EXCEPT ![s] = Nothing]
        /\ todo' = [todo EXCEPT ![s] = {}]
        /\ gone' = [gone EXCEPT ![s] = {}]
        /\ at' = [at EXCEPT ![s] = None]
        /\ UNCHANGED <<server, files, log, plans>>
    BY DEF PullFails, Dropped
  <2>3. /\ known \in [Tasks -> SUBSET Calendars]
        /\ listed \in [Tasks -> [Items -> Version \cup {None}]]
        /\ todo \in [Tasks -> SUBSET Items]
        /\ gone \in [Tasks -> SUBSET Items]
        /\ at \in [Tasks -> Items \cup {None}]
    BY DEF Shape, TypeOK
  <2>4. /\ gone' \in [Tasks -> SUBSET Items]
        /\ at' \in [Tasks -> Items \cup {None}]
    BY <2>2, <2>3
  <2>5. known' \in [Tasks -> SUBSET Calendars] /\ todo' \in [Tasks -> SUBSET Items]
    BY <2>2, <2>3
  <2>6. listed' \in [Tasks -> [Items -> Version \cup {None}]]
    BY <2>1, <2>2, <2>3
  <2> QED
    BY <2>2, <2>4, <2>5, <2>6
<1>2. \A t \in Tasks \ {s} : todo'[t] = todo[t] /\ listed'[t] = listed[t] /\ at'[t] = at[t]
  BY DEF PullFails, Dropped, Shape, TypeOK
<1>3. /\ JobTypes' /\ JobInHand'
      /\ pc'[s] \in {"idle", "api", "audit", "done", "err"}
      /\ \A t \in Tasks \ {s} : pc'[t] = pc[t]
  <2>1. CASE s \in Kinds
    <3>1. s \notin Requests
      BY <2>1, CollectionsAssumption
    <3>2. pc' = [pc EXCEPT ![s] = "idle"] /\ UNCHANGED <<job, mode, did>>
      BY <2>1, <3>1 DEF PullFails, PullUnheeded, Goto, jobVars
    <3>3. pc'[s] = "idle" /\ \A t \in Tasks \ {s} : pc'[t] = pc[t]
      BY <3>2 DEF Shape, TypeOK
    <3>4. JobTypes'
      BY <3>2 DEF JobTypes, Shape, TypeOK, OpsSound
    <3>5. JobInHand'
      BY <3>1, <3>2, <3>3 DEF JobInHand, Shape, Working, Pulling, Tasks
    <3> QED
      BY <3>3, <3>4, <3>5
  <2>2. CASE PullUnheeded(s)
    <3>1. s \in Requests /\ s \notin Kinds
      BY <2>2, RequestIsTask DEF PullUnheeded
    <3>2. pc' = [pc EXCEPT ![s] = "audit"] /\ UNCHANGED <<job, mode, did>>
      BY <2>2, <3>1 DEF PullFails, Goto, jobVars
    <3>3. job[s] # <<>>
      BY <3>1 DEF Shape, JobInHand, Working
    <3> QED
      BY <2>2, <3>1, <3>2, <3>3 DEF JobTypes, JobInHand, Shape, TypeOK, OpsSound, Tasks
  <2>3. CASE s \in Requests /\ ~PullUnheeded(s)
    <3>1. s \notin Kinds
      BY <2>3, RequestIsTask
    <3>2. OpFails(s)
      BY <2>3, <3>1 DEF PullFails
    <3>3. job[s] # <<>>
      BY <2>3 DEF Shape, JobInHand, Working
    <3> QED
      BY <2>3, <3>2, <3>3, OpFailsJob
  <2> QED
    BY <2>1, <2>2, <2>3 DEF Tasks
<1>4. TypeOK'
  BY <1>1, <1>3 DEF JobTypes, Shape, TypeOK, server, files
<1>5. OpsSound'
  BY <1>1, <1>3 DEF JobTypes, Shape, OpsSound
<1>6. Writable'
  <2>1. pc'[s] \notin {"apply", "body", "unlink"}
    BY <1>3
  <2> QED
    BY <1>2, <1>3, <2>1 DEF Shape, Writable
<1> QED
  BY <1>3, <1>4, <1>5, <1>6 DEF Shape

LEMMA SeenType ==
  ASSUME TypeOK
  PROVE  Seen \subseteq Calendars
BY DEF TypeOK, Seen

LEMMA ReportedType ==
  ASSUME TypeOK, NEW W, Reported(W)
  PROVE  cache' \in (SUBSET Calendars) \cup {None}
BY SeenType DEF Reported

LEMMA UpsetType ==
  ASSUME TypeOK, NEW k, Upset(k)
  PROVE  /\ upsets' \in [AllUpsets -> Nat] /\ moves' \in Nat /\ calls' \in Nat
         /\ upsets' = [upsets EXCEPT ![k] = @ + 1]
         /\ k \in AllUpsets
BY CollectionsAssumption DEF TypeOK, Upset, Move

LEMMA BeginPullType ==
  ASSUME TypeOK, NEW s, BeginPull(s)
  PROVE  upsets' \in [AllUpsets -> Nat] /\ moves' \in Nat /\ calls' \in Nat
BY UpsetType DEF BeginPull, env, TypeOK

LEMMA CallType == ASSUME TypeOK, Call
  PROVE  upsets' \in [AllUpsets -> Nat] /\ moves' \in Nat /\ calls' \in Nat
BY DEF TypeOK, Call

LEMMA FailuresShape ==
  ASSUME Shape, NEW s \in Tasks, ScriptGone(s) \/ CalendarGone(s) \/ Abort(s)
  PROVE  Shape'
<1>1. TypeOK
  BY DEF Shape
<1>2. upsets' \in [AllUpsets -> Nat] /\ moves' \in Nat /\ calls' \in Nat
  <2>1. CASE Abort(s)
    BY <1>1, <2>1, UpsetType DEF Abort
  <2>2. CASE ScriptGone(s) \/ CalendarGone(s)
    <3>1. upsets' = [upsets EXCEPT !["abort"] = 1] /\ moves' = moves /\ calls' = calls
      BY <2>2 DEF ScriptGone, CalendarGone
    <3> QED
      BY <1>1, <3>1 DEF TypeOK
  <2> QED
    BY <2>1, <2>2
<1>3. cache' \in (SUBSET Calendars) \cup {None}
  BY <1>1, ReportedType DEF ScriptGone, CalendarGone, Abort, TypeOK
<1>4. pc[s] \in Pulling /\ PullFails(s)
  BY DEF ScriptGone, CalendarGone, Abort, Pulling
<1> QED
  BY <1>2, <1>3, <1>4, PullFailsShape

LEMMA DiskFailsShape ==
  ASSUME Shape, NEW s \in Tasks, DiskFails(s)
  PROVE  Shape'
<1>1. upsets' \in [AllUpsets -> Nat] /\ moves' \in Nat /\ calls' \in Nat
  BY UpsetType DEF DiskFails, Shape
<1>2. cache' \in (SUBSET Calendars) \cup {None}
  BY DEF DiskFails, Shape, TypeOK
<1>3. CASE PullFails(s) /\ pc[s] \in {"apply", "body", "commit"}
  <2>1. pc[s] \in Pulling
    BY <1>3 DEF Pulling
  <2> QED
    BY <1>1, <1>2, <1>3, <2>1, PullFailsShape
<1>4. CASE /\ pc[s] = "audit" /\ OpFails(s)
           /\ UNCHANGED <<server, files, log, pullVars, plans>>
  <2>1. s \in Requests /\ job[s] # <<>>
    BY <1>4 DEF Shape, JobInHand, Working, Pulling, Tasks
  <2>2. /\ JobTypes' /\ JobInHand'
        /\ pc'[s] \in {"api", "done", "err"}
        /\ \A t \in Tasks \ {s} : pc'[t] = pc[t]
    BY <1>4, <2>1, OpFailsJob
  <2>3. TypeOK'
    BY <1>1, <1>2, <1>4, <2>2 DEF JobTypes, Shape, TypeOK, server, files, pullVars
  <2>4. OpsSound'
    BY <1>4, <2>2 DEF JobTypes, Shape, OpsSound
  <2>5. Writable'
    BY <1>4, <2>2 DEF Shape, Writable, pullVars
  <2> QED
    BY <2>2, <2>3, <2>4, <2>5 DEF Shape
<1> QED
  BY <1>3, <1>4 DEF DiskFails

\* A step that touches no pull and nothing that a pull works with.
LEMMA PullsAside ==
  ASSUME Shape, UNCHANGED pullVars,
         \A t \in Tasks : pc'[t] = pc[t] \/ pc'[t] \notin {"apply", "body", "unlink"}
  PROVE  Writable'
BY DEF Shape, Writable, pullVars

LEMMA TickShape ==
  ASSUME Shape, NEW k \in Kinds, Tick(k)
  PROVE  Shape'
<1>1. k \in Tasks /\ k \notin Requests /\ TypeOK
  BY CollectionsAssumption DEF Tasks, Shape
<1>2. upsets' \in [AllUpsets -> Nat] /\ moves' \in Nat /\ calls' \in Nat
  BY <1>1, BeginPullType DEF Tick
<1>3. /\ pc' = [pc EXCEPT ![k] = FirstStep(k)]
      /\ FirstStep(k) \in {"calendars", "list"}
      /\ UNCHANGED <<server, cache, files, log, pullVars, jobVars, plans>>
  BY DEF Tick, Goto, FirstStep
<1>4. TypeOK'
  BY <1>1, <1>2, <1>3 DEF TypeOK, Pulling, server, files, pullVars, jobVars
<1>5. OpsSound'
  BY <1>3 DEF Shape, OpsSound, jobVars
<1>6. JobInHand'
  BY <1>1, <1>3 DEF Shape, JobInHand, TypeOK, Pulling, jobVars, Tasks
<1>7. Writable'
  BY <1>1, <1>3, PullsAside DEF TypeOK
<1> QED
  BY <1>4, <1>5, <1>6, <1>7 DEF Shape

LEMMA ServerShape ==
  ASSUME Shape, \/ \E i \in Items : OtherChanges(i)
                \/ \E c \in Calendars : CalendarChanges(c)
                \/ \E W \in SUBSET Calendars : ListTool(W)
  PROVE  Shape'
<1> USE DEF Shape
<1>1. UNCHANGED <<files, log, pc, pullVars, jobVars, plans>>
  BY DEF OtherChanges, CalendarChanges, ListTool
<1> DEFINE Typed == /\ live' \in [Items -> Version \cup {None}] /\ stamp' \in Nat
                    /\ cals' \subseteq Calendars
                    /\ cache' \in (SUBSET Calendars) \cup {None}
                    /\ upsets' \in [AllUpsets -> Nat] /\ moves' \in Nat /\ calls' \in Nat
<1>2. Typed
  <2>1. ASSUME NEW i \in Items, OtherChanges(i)
        PROVE  Typed
    <3>1. live' \in [Items -> Version \cup {None}] /\ stamp' \in Nat
      <4>1. ASSUME NEW c \in Contents, stamp' = stamp + 1,
                   live' = [live EXCEPT ![i] =
                              IF @ = None THEN New(c)
                              ELSE [@ EXCEPT !.stamp = stamp + 1, !.content = c]]
            PROVE  live' \in [Items -> Version \cup {None}] /\ stamp' \in Nat
        <5>1. New(c) \in Version
          BY DEF New, Version, TypeOK
        <5>2. live[i] # None =>
                [live[i] EXCEPT !.stamp = stamp + 1, !.content = c] \in Version
          <6> SUFFICES ASSUME live[i] \in Version
                       PROVE  [live[i] EXCEPT !.stamp = stamp + 1, !.content = c] \in Version
            BY DEF TypeOK
          <6>1. stamp + 1 \in Nat
            BY DEF TypeOK
          <6> QED
            BY <6>1 DEF Version
        <5> QED
          BY <4>1, <5>1, <5>2 DEF TypeOK
      <4>2. CASE live' = [live EXCEPT ![i] = None] /\ stamp' = stamp
        BY <4>2 DEF TypeOK
      <4> QED
        BY <2>1, <4>1, <4>2 DEF OtherChanges
    <3>2. /\ moves' = moves + 1
          /\ UNCHANGED <<cals, cache, upsets, calls>>
      BY <2>1 DEF OtherChanges, Move
    <3> QED
      BY <3>1, <3>2 DEF TypeOK
  <2>2. ASSUME NEW c \in Calendars, CalendarChanges(c)
        PROVE  Typed
    BY <2>2 DEF CalendarChanges, Move, TypeOK
  <2>3. ASSUME NEW W \in SUBSET Calendars, ListTool(W)
        PROVE  Typed
    BY <2>3, ReportedType DEF ListTool, server, env, TypeOK
  <2> QED
    BY <2>1, <2>2, <2>3
<1>3. TypeOK'
  BY <1>1, <1>2 DEF TypeOK, files, pullVars, jobVars
<1>4. OpsSound' /\ JobInHand'
  BY <1>1 DEF OpsSound, JobInHand, jobVars
<1>5. Writable'
  BY <1>1, PullsAside
<1> QED
  BY <1>3, <1>4, <1>5

LEMMA CrashShape ==
  ASSUME Shape, Crash
  PROVE  Shape'
<1> USE DEF Shape
<1>1. TypeOK'
  BY UpsetType DEF Crash, TypeOK, Nothing, server, files
<1>2. OpsSound' /\ JobInHand' /\ Writable'
  BY DEF Crash, OpsSound, JobInHand, Writable, Working, Pulling, Tasks
<1> QED
  BY <1>1, <1>2
-----------------------------------------------------------------------------
(* Requests: dry runs, calls and commits                                   *)

LEMMA PlanOpType ==
  ASSUME Shape, NEW n \in DOMAIN log, NEW i \in Items, InCommit(n, i)
  PROVE  PlanOp(n, i) \in Op /\ Sound(PlanOp(n, i))
<1>1. log[n].body[i] \in Contents
  <2>1. log[n] \in Commit
    BY LenProperties, ElementOfSeq DEF Shape, TypeOK
  <2> QED
    BY <2>1 DEF Commit, InCommit
<1>2. live[i] \in Version \cup {None} /\ (Found(i) => live[i].id \in Nat)
  BY DEF Shape, TypeOK, Found, Version
<1> QED
  BY <1>1, <1>2, CollectionsAssumption DEF PlanOp, Op, Sound

LEMMA DryRunShape ==
  ASSUME Shape, NEW n \in DOMAIN log, NEW i \in Items, DryRun(n, i)
  PROVE  Shape'
<1> USE DEF Shape
<1> DEFINE plan == [mode |-> "restore", ops |-> <<PlanOp(n, i)>>]
<1>1. PlanOp(n, i) \in Op /\ Sound(PlanOp(n, i))
  BY PlanOpType DEF DryRun
<1>2. plan \in Plan /\ \A k \in DOMAIN plan.ops : Sound(plan.ops[k])
  BY <1>1 DEF Plan
<1>3. plans' = plans \cup {plan}
      /\ UNCHANGED <<server, files, log, pc, pullVars, jobVars>>
  BY DEF DryRun
<1>4. cache' \in (SUBSET Calendars) \cup {None}
  BY ReportedType DEF DryRun, TypeOK
<1>5. TypeOK'
  <2>1. upsets' \in [AllUpsets -> Nat] /\ moves' \in Nat /\ calls' \in Nat
    BY CallType DEF DryRun
  <2> HIDE DEF plan
  <2> QED
    BY <1>2, <1>3, <1>4, <2>1 DEF TypeOK, server, files, pullVars, jobVars
<1>6. OpsSound'
  <2> HIDE DEF plan
  <2> QED
    BY <1>2, <1>3 DEF OpsSound, jobVars
<1>7. JobInHand' /\ Writable'
  BY <1>3, PullsAside DEF JobInHand, jobVars
<1> QED
  BY <1>5, <1>6, <1>7

LEMMA DryRunBulkShape ==
  ASSUME Shape, NEW n \in DOMAIN log, DryRunBulk(n)
  PROVE  Shape'
<1> USE DEF Shape
<1> DEFINE here == {i \in Items : log[n].body[i] # None}
<1> DEFINE plan(q) == [mode |-> "bulk", ops |-> [k \in DOMAIN q |-> PlanOp(n, q[k])]]
<1>1. \A i \in here : PlanOp(n, i) \in Op /\ Sound(PlanOp(n, i))
  BY PlanOpType DEF DryRunBulk
<1>2. PICK q \in SetToSeqs(here) : plans' = plans \cup {plan(q)}
  BY DEF DryRunBulk
<1>3. UNCHANGED <<server, files, log, pc, pullVars, jobVars>>
  BY DEF DryRunBulk
<1>4. Cardinality(here) \in Nat
  BY CollectionsAssumption, FS_Subset, FS_CardinalityType
<1>5. q \in [1..Cardinality(here) -> here]
  BY DEF SetToSeqs
<1>6. plan(q) \in Plan /\ \A k \in DOMAIN plan(q).ops : Sound(plan(q).ops[k])
  <2>1. \A k \in DOMAIN q : PlanOp(n, q[k]) \in Op /\ Sound(PlanOp(n, q[k]))
    BY <1>1, <1>5
  <2>2. plan(q).ops \in Seq(Op)
    <3>1. DOMAIN q = 1..Cardinality(here)
      BY <1>5
    <3> HIDE DEF here
    <3> QED
      BY <1>4, <2>1, <3>1
  <2> QED
    BY <2>1, <2>2 DEF Plan
<1>7. cache' \in (SUBSET Calendars) \cup {None}
  BY ReportedType DEF DryRunBulk, TypeOK
<1>8. TypeOK'
  <2>1. upsets' \in [AllUpsets -> Nat] /\ moves' \in Nat /\ calls' \in Nat
    BY CallType DEF DryRunBulk
  <2> HIDE DEF plan
  <2> QED
    BY <1>2, <1>3, <1>6, <1>7, <2>1 DEF TypeOK, server, files, pullVars, jobVars
<1>9. OpsSound'
  <2> HIDE DEF plan
  <2> QED
    BY <1>2, <1>3, <1>6 DEF OpsSound, jobVars
<1>10. JobInHand' /\ Writable'
  BY <1>3, PullsAside DEF JobInHand, jobVars
<1> QED
  BY <1>8, <1>9, <1>10

\* A request is given operations to carry out.
LEMMA StartJob ==
  ASSUME Shape, NEW r \in Requests, NEW how \in {"write", "restore", "bulk"},
         NEW ops \in Seq(Op), \A k \in DOMAIN ops : Sound(ops[k]),
         Start(r, how, ops)
  PROVE  JobTypes' /\ JobInHand'
         /\ \A t \in Tasks : pc'[t] = pc[t] \/ pc'[t] \in {"api", "done"}
<1> USE DEF Shape
<1>1. r \in Tasks /\ r \notin Kinds
  BY RequestIsTask
<1>2. /\ job' = [job EXCEPT ![r] = ops]
      /\ pc' = [pc EXCEPT ![r] = IF ops = <<>> THEN "done" ELSE "api"]
      /\ mode' = [mode EXCEPT ![r] = how]
      /\ did' = did
  BY DEF Start, Goto
<1>3. JobTypes'
  BY <1>1, <1>2 DEF JobTypes, TypeOK, OpsSound
<1>4. JobInHand'
  BY <1>1, <1>2 DEF JobInHand, TypeOK, Tasks, Working, Pulling
<1> QED
  BY <1>1, <1>2, <1>3, <1>4 DEF TypeOK

LEMMA WriteShape ==
  ASSUME Shape, NEW r \in Requests, NEW i \in Items, Write(r, i)
  PROVE  Shape'
<1> USE DEF Shape
<1>1. PICK op \in Creations(i) \cup IF live[i] = None THEN {} ELSE Edits(i) :
         Start(r, "write", <<op>>)
  BY DEF Write
<1>2. op \in Op /\ Sound(op)
  <2>1. live[i] # None => live[i].id \in Nat /\ live[i].stamp \in Nat
    BY DEF TypeOK, Version
  <2>2. CASE op \in Creations(i)
    BY <2>2, CollectionsAssumption DEF Creations, Op, Sound
  <2>3. CASE live[i] # None /\ op \in Edits(i)
    BY <2>1, <2>3, CollectionsAssumption DEF Edits, Op, Sound
  <2> QED
    BY <1>1, <2>2, <2>3
<1>3. <<op>> \in Seq(Op) /\ \A k \in DOMAIN <<op>> : Sound(<<op>>[k])
  BY <1>2
<1>4. JobTypes' /\ JobInHand'
      /\ \A t \in Tasks : pc'[t] = pc[t] \/ pc'[t] \in {"api", "done"}
  BY <1>1, <1>3, StartJob
<1>5. UNCHANGED <<server, cache, files, log, pullVars, plans>>
  BY DEF Write
<1>6. TypeOK'
  <2>1. upsets' \in [AllUpsets -> Nat] /\ moves' \in Nat /\ calls' \in Nat
    BY CallType DEF Write
  <2> QED
    BY <1>4, <1>5, <2>1 DEF JobTypes, TypeOK, server, files, pullVars
<1>7. OpsSound' /\ Writable'
  BY <1>4, <1>5, PullsAside DEF JobTypes, OpsSound
<1> QED
  BY <1>4, <1>6, <1>7

\* A plan that was edited is a plan still.
LEMMA EditedSound ==
  ASSUME Shape, NEW p \in plans, NEW plan \in Edited(p)
  PROVE  /\ plan.mode \in {"write", "restore", "bulk"} /\ plan.ops \in Seq(Op)
         /\ \A k \in DOMAIN plan.ops : Sound(plan.ops[k])
<1>1. /\ p \in Plan /\ p.mode \in {"restore", "bulk"} /\ p.ops \in Seq(Op)
      /\ \A k \in DOMAIN p.ops : Sound(p.ops[k])
  BY DEF Shape, TypeOK, OpsSound, Plan
<1>2. CASE plan = p
  BY <1>1, <1>2
<1>3. ASSUME NEW k \in DOMAIN p.ops, NEW c \in Contents,
             plan = [p EXCEPT !.ops[k].content = c]
      PROVE  /\ plan.mode \in {"write", "restore", "bulk"} /\ plan.ops \in Seq(Op)
             /\ \A j \in DOMAIN plan.ops : Sound(plan.ops[j])
  <2> DEFINE op == [p.ops[k] EXCEPT !.content = c]
  <2>1. p.ops[k] \in Op
    BY <1>1
  <2>2. op \in Op /\ op.content = c
    BY <2>1 DEF Op
  <2>3. Sound(op)
    BY <2>2, CollectionsAssumption DEF Sound
  <2>4. plan.mode = p.mode /\ plan.ops = [p.ops EXCEPT ![k] = op]
    BY <1>1, <1>3 DEF Plan
  <2> HIDE DEF op
  <2>5. plan.ops \in Seq(Op) /\ DOMAIN plan.ops = DOMAIN p.ops
    BY <1>1, <2>2, <2>4, ExceptSeq
  <2>6. \A j \in DOMAIN p.ops : plan.ops[j] = IF j = k THEN op ELSE p.ops[j]
    BY <2>4
  <2> QED
    BY <1>1, <2>3, <2>4, <2>5, <2>6
<1> QED
  BY <1>2, <1>3 DEF Edited

LEMMA ApplyShape ==
  ASSUME Shape, NEW r \in Requests, NEW p \in plans, NEW plan \in Edited(p),
         Apply(r, plan)
  PROVE  Shape'
<1> USE DEF Shape
<1>1. UNCHANGED <<server, cache, files, log, pullVars, plans>>
  BY DEF Apply
<1>2. /\ JobTypes' /\ JobInHand'
      /\ \A t \in Tasks : pc'[t] = pc[t] \/ pc'[t] \notin {"apply", "body", "unlink"}
  <2>1. CASE Start(r, plan.mode, plan.ops)
    <3>1. /\ plan.mode \in {"write", "restore", "bulk"} /\ plan.ops \in Seq(Op)
          /\ \A k \in DOMAIN plan.ops : Sound(plan.ops[k])
      BY EditedSound
    <3> QED
      BY <2>1, <3>1, StartJob DEF Pulling
  <2>2. CASE Goto(r, "err") /\ UNCHANGED jobVars
    <3>1. pc' = [pc EXCEPT ![r] = "err"] /\ UNCHANGED <<job, mode, did>>
      BY <2>2 DEF Goto, jobVars
    <3> QED
      BY <3>1, RequestIsTask DEF JobTypes, JobInHand, TypeOK, OpsSound, Working, Pulling
  <2> QED
    BY <2>1, <2>2 DEF Apply
<1>3. TypeOK'
  <2>1. upsets' \in [AllUpsets -> Nat] /\ moves' \in Nat /\ calls' \in Nat
    BY CallType DEF Apply
  <2> QED
    BY <1>1, <1>2, <2>1 DEF JobTypes, TypeOK, server, files, pullVars
<1>4. OpsSound' /\ Writable'
  BY <1>1, <1>2, PullsAside DEF JobTypes, OpsSound
<1> QED
  BY <1>2, <1>3, <1>4

\* The operation a request has in hand.
LEMMA HeadOp ==
  ASSUME Shape, NEW r \in Requests, pc[r] \in Working
  PROVE  /\ r \in Tasks /\ r \notin Kinds /\ job[r] # <<>>
         /\ Head(job[r]) \in Op /\ Sound(Head(job[r]))
         /\ Head(job[r]).item \in Items
<1>1. r \in Tasks /\ r \notin Kinds
  BY RequestIsTask
<1>2. job[r] \in Seq(Op) /\ job[r] # <<>>
  BY <1>1 DEF Shape, TypeOK, JobInHand
<1>3. Head(job[r]) \in Op /\ Head(job[r]) = job[r][1] /\ 1 \in DOMAIN job[r]
  BY <1>2
<1>4. Sound(Head(job[r]))
  BY <1>1, <1>3 DEF Shape, OpsSound
<1>5. Head(job[r]).item \in Items
  BY <1>3 DEF Op
<1> QED
  BY <1>1, <1>2, <1>3, <1>4, <1>5

\* What the server makes of an operation that it accepts.
LEMMA ResultType ==
  ASSUME TypeOK, NEW op \in Op, Sound(op), op.do # "noop"
  PROVE  Result(op) \in Version \cup {None}
<1>1. CASE op.do = "delete"
  BY <1>1 DEF Result
<1>2. CASE op.do # "delete"
  <2>1. op.item \in Items /\ op.content \in Contents /\ stamp + 1 \in Nat
    BY <1>2 DEF Op, Sound, TypeOK
  <2>2. CASE live[op.item] = None
    BY <1>2, <2>1, <2>2 DEF Result, New, Version
  <2>3. CASE live[op.item] # None
    <3>1. live[op.item] \in Version
      BY <2>1, <2>3 DEF TypeOK
    <3>2. Result(op) = [live[op.item] EXCEPT !.stamp = stamp + 1, !.content = op.content]
      BY <1>2, <2>3 DEF Result
    <3> QED
      BY <2>1, <3>1, <3>2 DEF Version
  <2> QED
    BY <2>2, <2>3
<1> QED
  BY <1>1, <1>2

LEMMA EffectType ==
  ASSUME TypeOK, NEW op \in Op, Sound(op), Accepts(op), Effect(op)
  PROVE  /\ live' \in [Items -> Version \cup {None}] /\ stamp' \in Nat
         /\ cals' = cals /\ cache' = cache
         /\ op.do # "noop" /\ Result(op) \in Version \cup {None}
<1>1. op.do # "noop"
  BY DEF Accepts, DavAccepts, RestAccepts
<1>2. Result(op) \in Version \cup {None}
  BY <1>1, ResultType
<1>3. stamp + 1 \in Nat /\ op.item \in Items
  BY DEF TypeOK, Op
<1>4. /\ live' = [live EXCEPT ![op.item] = Result(op)] /\ stamp' = stamp + 1
      /\ cals' = cals /\ cache' = cache
  BY DEF Effect
<1> QED
  BY <1>1, <1>2, <1>3, <1>4 DEF TypeOK

LEMMA ApiShape ==
  ASSUME Shape, NEW r \in Requests, Api(r)
  PROVE  Shape'
<1> USE DEF Shape
<1> DEFINE op == Head(job[r])
<1> DEFINE deed == [item |-> op.item, became |-> Result(op),
                    stamp |-> stamp + 1, after |-> Len(log)]
<1>1. /\ r \in Tasks /\ r \notin Kinds /\ job[r] # <<>>
      /\ op \in Op /\ Sound(op) /\ op.item \in Items
  BY HeadOp DEF Api, Working
<1>2. Accepts(op) /\ Effect(op) /\ BeginPull(r)
  BY DEF Api
<1>3. /\ live' \in [Items -> Version \cup {None}] /\ stamp' \in Nat
      /\ cals' = cals /\ cache' = cache
      /\ Result(op) \in Version \cup {None}
  BY <1>1, <1>2, EffectType
<1>4. deed \in Deed
  BY <1>1, <1>3, LenProperties DEF Deed, TypeOK
<1>5. /\ did' = [did EXCEPT ![r] = @ \cup {deed}]
      /\ pc' = [pc EXCEPT ![r] = FirstStep(KindOf[op.item])]
      /\ FirstStep(KindOf[op.item]) \in {"calendars", "list"}
      /\ UNCHANGED <<files, log, pullVars, job, mode, plans>>
  BY DEF Api, Goto, FirstStep
<1>6. TypeOK'
  <2>1. upsets' \in [AllUpsets -> Nat] /\ moves' \in Nat /\ calls' \in Nat
    BY <1>2, BeginPullType
  <2>2. did' \in [Tasks -> SUBSET Deed]
    <3> HIDE DEF deed
    <3> QED
      BY <1>1, <1>4, <1>5 DEF TypeOK
  <2>3. pc' \in [Tasks -> Pulling \cup {"idle", "api", "audit", "done", "err"}]
    BY <1>1, <1>5 DEF TypeOK, Pulling
  <2> QED
    BY <1>3, <1>5, <2>1, <2>2, <2>3 DEF TypeOK, files, pullVars
<1>7. OpsSound'
  BY <1>5 DEF OpsSound
<1>8. JobInHand'
  BY <1>1, <1>5 DEF JobInHand, TypeOK, Working, Pulling, Tasks
<1>9. Writable'
  BY <1>1, <1>5, PullsAside DEF TypeOK
<1> QED
  BY <1>6, <1>7, <1>8, <1>9

LEMMA ApiLostShape ==
  ASSUME Shape, NEW r \in Requests, ApiLost(r)
  PROVE  Shape'
<1> USE DEF Shape
<1>1. /\ r \in Tasks /\ r \notin Kinds /\ job[r] # <<>>
      /\ Head(job[r]) \in Op /\ Sound(Head(job[r]))
  BY HeadOp DEF ApiLost, Working
<1>2. /\ live' \in [Items -> Version \cup {None}] /\ stamp' \in Nat
      /\ cals' = cals /\ cache' = cache
  BY <1>1, EffectType DEF ApiLost
<1>3. upsets' \in [AllUpsets -> Nat] /\ moves' \in Nat /\ calls' \in Nat
  BY UpsetType DEF ApiLost
<1>4. /\ JobTypes' /\ JobInHand'
      /\ pc'[r] \in {"api", "done", "err"}
      /\ \A t \in Tasks \ {r} : pc'[t] = pc[t]
  BY <1>1, OpFailsJob DEF ApiLost
<1>5. UNCHANGED <<files, log, pullVars, plans>>
  BY DEF ApiLost
<1>6. TypeOK'
  BY <1>2, <1>3, <1>4, <1>5 DEF JobTypes, TypeOK, files, pullVars
<1>7. OpsSound' /\ Writable'
  BY <1>4, <1>5, PullsAside DEF JobTypes, OpsSound
<1> QED
  BY <1>4, <1>6, <1>7

\* The other steps of a request leave the server alone.
LEMMA WorkShape ==
  ASSUME Shape, NEW r \in Requests, SkipNoOp(r) \/ Refused(r) \/ Audit(r) \/ Return(r)
  PROVE  Shape'
<1> USE DEF Shape
<1>1. r \in Tasks /\ r \notin Kinds
  BY RequestIsTask
<1>2. /\ UNCHANGED <<server, cache, files, pullVars, plans, env>>
      /\ log' \in Seq(Commit)
      /\ JobTypes' /\ JobInHand'
      /\ \A t \in Tasks : pc'[t] = pc[t] \/ pc'[t] \in {"idle", "api", "done", "err"}
  <2>1. CASE SkipNoOp(r)
    <3>1. job[r] # <<>> /\ Advance(r) /\ did' = did
      BY <2>1, HeadOp DEF SkipNoOp, Working
    <3> QED
      BY <2>1, <3>1, AdvanceJob DEF SkipNoOp, TypeOK
  <2>2. CASE Refused(r)
    <3>1. job[r] # <<>> /\ OpFails(r)
      BY <2>2, HeadOp DEF Refused, Working
    <3> QED
      BY <2>2, <3>1, OpFailsJob DEF Refused, TypeOK
  <2>3. CASE Audit(r)
    <3>1. job[r] # <<>> /\ Advance(r) /\ did' = did /\ Head(job[r]).item \in Items
      BY <2>3, HeadOp DEF Audit, Working
    <3>2. Append(log, Snapshot(<<r, Head(job[r]).item>>)) \in Seq(Commit)
      BY <3>1, SnapshotType
    <3>3. JobTypes' /\ JobInHand'
      /\ pc'[r] \in {"api", "done"} /\ \A t \in Tasks \ {r} : pc'[t] = pc[t]
      BY <3>1, AdvanceJob DEF TypeOK
    <3> QED
      BY <2>3, <3>2, <3>3 DEF Audit
  <2>4. CASE Return(r)
    <3>1. /\ pc' = [pc EXCEPT ![r] = "idle"]
          /\ did' = [did EXCEPT ![r] = {}]
          /\ mode' = [mode EXCEPT ![r] = "write"]
          /\ job' = job
      BY <2>4 DEF Return, Goto
    <3>2. JobTypes'
      BY <1>1, <3>1 DEF JobTypes, TypeOK, OpsSound
    <3>3. JobInHand'
      BY <1>1, <3>1 DEF JobInHand, TypeOK, Tasks, Working, Pulling
    <3> QED
      BY <1>1, <2>4, <3>1, <3>2, <3>3 DEF Return, TypeOK
  <2> QED
    BY <2>1, <2>2, <2>3, <2>4
<1>3. TypeOK'
  BY <1>2 DEF JobTypes, TypeOK, server, files, pullVars, env
<1>4. OpsSound' /\ Writable'
  BY <1>2, PullsAside DEF JobTypes, OpsSound
<1> QED
  BY <1>2, <1>3, <1>4
-----------------------------------------------------------------------------
LEMMA PullShape ==
  ASSUME Shape, NEW s \in Tasks, Pull(s) \/ Abort(s) \/ DiskFails(s)
  PROVE  Shape'
BY ListCalendarsShape, ListContactsShape, ListEventsShape, ListScriptsShape,
   GetScriptShape, DiffShape, WriteBodyShape, WriteMetaShape, RemoveBodyShape,
   RemoveMetaShape, CleanupShape, CommitPullShape, FailuresShape, DiskFailsShape DEF Pull

LEMMA NextShape == Shape /\ [Next]_vars => Shape'
<1> SUFFICES ASSUME Shape, [Next]_vars PROVE Shape'
  OBVIOUS
<1>1. ASSUME NEW s \in Tasks, Pull(s) \/ Abort(s) \/ DiskFails(s)
      PROVE  Shape'
  BY <1>1, PullShape
<1>2. ASSUME NEW k \in Kinds, Tick(k)
      PROVE  Shape'
  BY <1>2, TickShape
<1>3. ASSUME NEW r \in Requests, Ask(r)
      PROVE  Shape'
  BY <1>3, WriteShape, ApplyShape DEF Ask
<1>4. ASSUME NEW r \in Requests, Work(r) \/ ApiLost(r)
      PROVE  Shape'
  BY <1>4, ApiShape, ApiLostShape, WorkShape DEF Work
<1>5. ASSUME NEW n \in DOMAIN log, DryRunBulk(n) \/ \E i \in Items : DryRun(n, i)
      PROVE  Shape'
  BY <1>5, DryRunBulkShape, DryRunShape
<1>6. CASE \/ \E i \in Items : OtherChanges(i)
           \/ \E c \in Calendars : CalendarChanges(c)
           \/ \E W \in SUBSET Calendars : ListTool(W)
  BY <1>6, ServerShape
<1>7. CASE Crash
  BY <1>7, CrashShape
<1>8. CASE UNCHANGED vars
  BY <1>8 DEF vars, Shape, TypeOK, OpsSound, JobInHand, Writable
<1> QED
  BY <1>1, <1>2, <1>3, <1>4, <1>5, <1>6, <1>7, <1>8 DEF Next

LEMMA AlwaysShape == Spec => []Shape
BY InitShape, NextShape, PTL DEF Spec

\* Every variable of the pulls, the writes and the restores has its type.
THEOREM TypeCorrect == Spec => []TypeOK
<1>1. Shape => TypeOK
  BY DEF Shape
<1> QED
  BY <1>1, AlwaysShape, PTL
-----------------------------------------------------------------------------
(* What a step may do with the operations of a request                     *)

Undone(r) == {d \in did[r] : d.item # Head(job[r]).item}

Keeps(r) == /\ job'[r] = job[r] /\ did'[r] = did[r]
            /\ pc[r] \in Pulling \cup {"audit"} => pc'[r] \in Pulling \cup {"audit"}

Starts(r) == pc[r] = "idle" /\ did'[r] = did[r]

Goes(r) == /\ job[r] # <<>> /\ job'[r] = Tail(job[r])
           /\ did'[r] = did[r]
           /\ \/ pc[r] = "api"
              \/ pc[r] = "audit" /\ log' = Append(log, Snapshot(<<r, Head(job[r]).item>>))

Acts(r) == /\ pc[r] = "api" /\ pc'[r] \in Pulling
           /\ Accepts(Head(job[r])) /\ Effect(Head(job[r]))
           /\ job'[r] = job[r]
           /\ did'[r] = did[r] \cup
                {[item |-> Head(job[r]).item, became |-> Result(Head(job[r])),
                  stamp |-> stamp + 1, after |-> Len(log)]}

Fails(r) == /\ job[r] # <<>> /\ job'[r] \in {<<>>, Tail(job[r])}
            /\ did'[r] = Undone(r)

Ends(r) == did'[r] = {}

RequestStep(r) ==
  Keeps(r) \/ Starts(r) \/ Goes(r) \/ Acts(r) \/ Fails(r) \/ Ends(r)

\* Commits stay.
Grows == \/ log' = log
         \/ \E who \in (Requests \X Items) \cup {None} :
              log' = Append(log, Snapshot(who))

LEMMA PullSteps ==
  ASSUME Shape, NEW s \in Tasks, Pull(s) \/ Abort(s) \/ DiskFails(s), NEW r \in Requests
  PROVE  Grows /\ RequestStep(r)
<1> USE DEF Shape
<1>1. r \in Tasks /\ r \notin Kinds
  BY RequestIsTask
<1>2. ASSUME PullFails(s) \/ (s \in Requests /\ OpFails(s)), pc[s] \in Working
      PROVE  RequestStep(r)
  <2>1. CASE UNCHANGED jobVars /\ (Goto(s, "idle") \/ Goto(s, "audit")) /\ (s = r => Goto(s, "audit"))
    BY <1>1, <1>2, <2>1 DEF RequestStep, Keeps, jobVars, Goto, TypeOK
  <2>2. CASE OpFails(s) /\ s \in Requests
    <3>1. job[s] # <<>>
      BY <1>2, <2>2 DEF JobInHand
    <3>2. CASE s = r
      BY <1>1, <2>2, <3>1, <3>2 DEF RequestStep, Fails, OpFails, Undid, Undone, Advance, TypeOK
    <3>3. CASE s # r
      BY <1>1, <2>2, <3>3 DEF RequestStep, Keeps, OpFails, Undid, Advance, Goto, TypeOK
    <3> QED
      BY <3>2, <3>3
  <2> QED
    BY <1>1, <1>2, <2>1, <2>2 DEF PullFails, PullUnheeded, Tasks
<1>3. CASE CalendarGone(s) \/ ScriptGone(s) \/ Abort(s)
  <2>1. PullFails(s) /\ pc[s] \in Working
    BY <1>3 DEF CalendarGone, ScriptGone, Abort, Pulling, Working
  <2>2. log' = log
    BY <2>1 DEF PullFails
  <2> QED
    BY <1>2, <2>1, <2>2 DEF Grows
<1>6. CASE DiskFails(s)
  <2>1. pc[s] \in Working /\ log' = log
    BY <1>6 DEF DiskFails, PullFails, Pulling, Working
  <2>2. PullFails(s) \/ (s \in Requests /\ OpFails(s))
    BY <1>6 DEF DiskFails, JobInHand, Pulling, Tasks
  <2> QED
    BY <1>2, <2>1, <2>2 DEF Grows
<1>4. CASE CommitPull(s)
  <2>1. Grows
    BY <1>4 DEF CommitPull, Grows
  <2>2. Keeps(r)
    BY <1>1, <1>4 DEF CommitPull, Keeps, jobVars, Goto, TypeOK
  <2> QED
    BY <2>1, <2>2 DEF RequestStep
<1>5. CASE \/ ListCalendars(s) \/ ListContacts(s) \/ ListEvents(s)
           \/ ListScripts(s) \/ GetScript(s) \/ Diff(s) \/ WriteBody(s)
           \/ WriteMeta(s) \/ RemoveBody(s) \/ RemoveMeta(s) \/ Cleanup(s)
  <2>1. UNCHANGED <<log, plans, job, mode, did>>
    BY <1>5 DEF ListCalendars, ListContacts, ListEvents, Take, ListScripts, GetScript,
       Diff, WriteBody, WriteMeta, RemoveBody, RemoveMeta, Cleanup, files, jobVars
  <2>2. pc[r] \in Pulling \cup {"audit"} => pc'[r] \in Pulling \cup {"audit"}
    BY <1>1, <1>5 DEF ListCalendars, ListContacts, ListEvents, Take, ListScripts, GetScript,
       Diff, WriteBody, WriteMeta, RemoveBody, RemoveMeta, Cleanup, Goto, Pulling, TypeOK
  <2> QED
    BY <2>1, <2>2 DEF RequestStep, Keeps, Grows
<1> QED
  BY <1>3, <1>4, <1>5, <1>6 DEF Pull

LEMMA RequestSteps ==
  ASSUME Shape, [Next]_vars, NEW r \in Requests
  PROVE  Grows /\ RequestStep(r)
<1> USE DEF Shape
<1>1. r \in Tasks /\ r \notin Kinds
  BY RequestIsTask
<1>2. ASSUME NEW s \in Tasks, Pull(s) \/ Abort(s) \/ DiskFails(s)
      PROVE  Grows /\ RequestStep(r)
  BY <1>2, PullSteps
<1>3. CASE \/ \E k \in Kinds : Tick(k)
           \/ \E n \in DOMAIN log : DryRunBulk(n) \/ \E i \in Items : DryRun(n, i)
           \/ \E W \in SUBSET Calendars : ListTool(W)
           \/ \E i \in Items : OtherChanges(i)
           \/ \E c \in Calendars : CalendarChanges(c)
           \/ UNCHANGED vars
  <2>1. UNCHANGED <<log, job, did>>
    BY <1>3 DEF Tick, DryRunBulk, DryRun, ListTool, OtherChanges, CalendarChanges,
       vars, jobVars
  <2>2. pc'[r] = pc[r]
    BY <1>1, <1>3 DEF Tick, DryRunBulk, DryRun, ListTool, OtherChanges, CalendarChanges,
       vars, Goto, TypeOK
  <2> QED
    BY <2>1, <2>2 DEF Grows, RequestStep, Keeps
<1>4. CASE Crash
  BY <1>1, <1>4 DEF Crash, Grows, RequestStep, Ends
<1>5. ASSUME NEW q \in Requests, Ask(q) \/ Work(q) \/ ApiLost(q)
      PROVE  Grows /\ RequestStep(r)
  <2>1. q \in Tasks /\ (pc[q] \in Working => job[q] # <<>>)
    BY RequestIsTask DEF JobInHand
  <2>2. Grows
    <3>1. CASE Audit(q)
      <4>1. Head(job[q]).item \in Items
        BY <3>1, HeadOp DEF Audit, Working
      <4>2. <<q, Head(job[q]).item>> \in (Requests \X Items) \cup {None}
        BY <4>1
      <4> QED
        BY <3>1, <4>2 DEF Audit, Grows
    <3>2. CASE ~Audit(q)
      BY <1>5, <3>2 DEF Ask, Write, Apply, Work, SkipNoOp, Api, Refused, Return,
         ApiLost, Grows, files
    <3> QED
      BY <3>1, <3>2
  <2>3. CASE q # r
    <3>1. job'[r] = job[r] /\ did'[r] = did[r] /\ pc'[r] = pc[r]
      BY <1>1, <1>5, <2>3 DEF Ask, Write, Apply, Work, SkipNoOp, Api, Refused, Audit,
         Return, ApiLost, Start, OpFails, Undid, Advance, Goto, jobVars, TypeOK
    <3> QED
      BY <2>2, <3>1 DEF RequestStep, Keeps
  <2>4. CASE q = r
    <3> DEFINE Typed == /\ \A t \in Tasks : t \in DOMAIN pc /\ t \in DOMAIN job
                        /\ \A t \in Tasks : t \in DOMAIN mode /\ t \in DOMAIN did
    <3>0. Typed
      BY DEF TypeOK
    <3> HIDE DEF Shape
    <3>1. CASE Ask(r)
      <4>1. ASSUME NEW i \in Items, Write(r, i)
            PROVE  Starts(r)
        <5>1. pc[r] = "idle" /\ \E op \in Creations(i) \cup IF live[i] = None THEN {} ELSE Edits(i) :
                Start(r, "write", <<op>>)
          BY <4>1 DEF Write
        <5> QED
          BY <5>1 DEF Starts, Start
      <4>2. ASSUME NEW plan, Apply(r, plan)
            PROVE  Starts(r)
        BY <4>2 DEF Apply, Start, Starts, jobVars
      <4>3. Starts(r)
        BY <3>1, <4>1, <4>2, Zenon DEF Ask
      <4> QED
        BY <2>2, <4>3 DEF RequestStep
    <3>2. ASSUME SkipNoOp(r) \/ Audit(r)
          PROVE  Goes(r)
      <4>1. /\ job[r] # <<>> /\ mode' = mode /\ did' = did
            /\ job' = [job EXCEPT ![r] = Tail(@)]
            /\ \/ pc[r] = "api"
               \/ pc[r] = "audit" /\ log' = Append(log, Snapshot(<<r, Head(job[r]).item>>))
        BY <2>1, <2>4, <3>2 DEF SkipNoOp, Audit, Advance, Working
      <4>2. job'[r] = Tail(job[r])
        BY <1>1, <3>0, <4>1
      <4> QED
        BY <4>1, <4>2 DEF Goes
    <3>3. ASSUME Api(r)
          PROVE  Acts(r)
      <4> DEFINE deed == [item |-> Head(job[r]).item, became |-> Result(Head(job[r])),
                          stamp |-> stamp + 1, after |-> Len(log)]
      <4>1. /\ pc[r] = "api" /\ UNCHANGED <<job, mode>>
            /\ Accepts(Head(job[r])) /\ Effect(Head(job[r]))
            /\ did' = [did EXCEPT ![r] = @ \cup {deed}]
            /\ pc' = [pc EXCEPT ![r] = FirstStep(KindOf[Head(job[r]).item])]
        BY <3>3 DEF Api, Goto
      <4>2. FirstStep(KindOf[Head(job[r]).item]) \in Pulling
        BY DEF FirstStep, Pulling
      <4>3. did'[r] = did[r] \cup {deed}
        <5> HIDE DEF deed
        <5> QED
          BY <1>1, <3>0, <4>1
      <4> QED
        BY <1>1, <3>0, <4>1, <4>2, <4>3 DEF Acts
    <3>4. ASSUME Refused(r) \/ ApiLost(r)
          PROVE  Fails(r)
      <4>1. OpFails(r) /\ job[r] # <<>>
        BY <2>1, <2>4, <3>4 DEF Refused, ApiLost, Working
      <4>2. /\ mode' = mode
            /\ did' = [did EXCEPT ![r] = {d \in @ : d.item # Head(job[r]).item}]
            /\ job' = [job EXCEPT ![r] = Tail(@)] \/ job' = [job EXCEPT ![r] = <<>>]
        BY <4>1 DEF OpFails, Undid, Advance
      <4> QED
        BY <1>1, <3>0, <4>1, <4>2 DEF Fails, Undone
    <3>5. ASSUME Return(r)
          PROVE  Ends(r)
      <4>1. did' = [did EXCEPT ![r] = {}] /\ mode' = [mode EXCEPT ![r] = "write"]
        BY <3>5 DEF Return
      <4> QED
        BY <1>1, <3>0, <4>1 DEF Ends
    <3> QED
      BY <1>5, <2>2, <2>4, <3>1, <3>2, <3>3, <3>4, <3>5 DEF Work, RequestStep
  <2> QED
    BY <2>2, <2>3, <2>4
<1> QED
  BY <1>2, <1>3, <1>4, <1>5 DEF Next
-----------------------------------------------------------------------------
(* Every operation that is counted as done has its audit commit            *)

Audited(r, d) == \E n \in DOMAIN log : n > d.after /\ log[n].audit = <<r, d.item>>

\* An operation that is not audited yet is the one in hand, and its pull or
\* its audit commit is under way.
Trail ==
  \A r \in Requests : \A d \in did[r] :
    /\ d.after <= Len(log)
    /\ \/ Audited(r, d)
       \/ pc[r] \in Pulling \cup {"audit"} /\ d.item = Head(job[r]).item

LEMMA NextTrail == Shape /\ Trail /\ [Next]_vars => Trail'
<1> SUFFICES ASSUME Shape, Trail, [Next]_vars,
                    NEW r \in Requests, NEW d \in did'[r]
             PROVE  /\ d.after <= Len(log')
                    /\ \/ Audited(r, d)'
                       \/ pc'[r] \in Pulling \cup {"audit"} /\ d.item = Head(job'[r]).item
  BY DEF Trail
<1>1. Grows /\ RequestStep(r)
  BY RequestSteps
<1>2. /\ log \in Seq(Commit) /\ Len(log) \in Nat /\ DOMAIN log = 1..Len(log)
      /\ Len(log') >= Len(log) /\ DOMAIN log \subseteq DOMAIN log'
      /\ \A n \in DOMAIN log : log'[n] = log[n]
  <2>1. log \in Seq(Commit) /\ Len(log) \in Nat /\ DOMAIN log = 1..Len(log)
    BY LenProperties DEF Shape, TypeOK
  <2>2. CASE log' = log
    BY <2>1, <2>2
  <2>3. ASSUME NEW entry \in Commit, log' = Append(log, entry)
        PROVE  /\ Len(log') = Len(log) + 1 /\ DOMAIN log' = 1..(Len(log) + 1)
               /\ \A n \in DOMAIN log : log'[n] = log[n]
    BY <2>1, <2>3, AppendProperties, LenProperties
  <2>4. log' = log \/ \E entry \in Commit : log' = Append(log, entry)
    BY <1>1, SnapshotType DEF Grows, Shape
  <2> QED
    BY <2>1, <2>2, <2>3, <2>4
<1>3. ASSUME d \in did[r]
      PROVE  /\ d.after \in Nat /\ d.after <= Len(log) /\ d.after <= Len(log')
             /\ Audited(r, d) => Audited(r, d)'
  <2>1. d.after \in Nat /\ d.after <= Len(log)
    BY <1>3, RequestIsTask DEF Shape, TypeOK, Deed, Trail
  <2>2. Len(log') \in Nat
    BY <1>2, NextShape, LenProperties DEF Shape, TypeOK
  <2>3. Audited(r, d) => Audited(r, d)'
    BY <1>2 DEF Audited
  <2> QED
    BY <1>2, <2>1, <2>2, <2>3
<1>4. d \in did[r] =>
        \/ Audited(r, d)
        \/ pc[r] \in Pulling \cup {"audit"} /\ d.item = Head(job[r]).item
  BY DEF Trail
<1>5. CASE Keeps(r) \/ Starts(r)
  <2>1. d \in did[r]
    BY <1>5 DEF Keeps, Starts
  <2>2. CASE Keeps(r)
    BY <1>3, <1>4, <2>1, <2>2 DEF Keeps
  <2>3. CASE Starts(r)
    <3>1. pc[r] = "idle"
      BY <2>3 DEF Starts
    <3> QED
      BY <1>3, <1>4, <2>1, <3>1 DEF Pulling
  <2> QED
    BY <1>5, <2>2, <2>3
<1>6. CASE Goes(r)
  <2>1. d \in did[r]
    BY <1>6 DEF Goes
  <2>2. CASE pc[r] = "api"
    BY <1>3, <1>4, <2>1, <2>2 DEF Pulling
  <2>3. CASE pc[r] = "audit"
    <3>1. pc[r] \in Working
      BY <2>3 DEF Working
    <3>2. Head(job[r]).item \in Items
      BY <3>1, HeadOp
    <3> DEFINE entry == Snapshot(<<r, Head(job[r]).item>>)
    <3>3. entry \in Commit /\ log' = Append(log, entry)
      BY <1>6, <2>3, <3>2, SnapshotType DEF Goes, Shape
    <3>4. entry.audit = <<r, Head(job[r]).item>>
      BY DEF Snapshot
    <3> HIDE DEF entry
    <3>5. Len(log) + 1 \in DOMAIN log' /\ log'[Len(log) + 1] = entry
      BY <1>2, <3>3, AppendProperties, LenProperties
    <3>6. d.item = Head(job[r]).item => Audited(r, d)'
      <4>1. Len(log) + 1 > d.after
        BY <1>2, <1>3, <2>1
      <4> QED
        BY <3>4, <3>5, <4>1 DEF Audited
    <3> QED
      BY <1>3, <1>4, <2>1, <3>6
  <2> QED
    BY <1>6, <2>2, <2>3 DEF Goes
<1>7. CASE Acts(r)
  <2>1. CASE d \in did[r]
    <3>1. pc[r] = "api"
      BY <1>7 DEF Acts
    <3> QED
      BY <1>3, <1>4, <2>1, <3>1 DEF Pulling
  <2>2. CASE d \notin did[r]
    <3>1. d.item = Head(job[r]).item /\ d.after = Len(log)
      BY <1>7, <2>2 DEF Acts
    <3>2. pc'[r] \in Pulling /\ job'[r] = job[r]
      BY <1>7 DEF Acts
    <3> QED
      BY <1>2, <3>1, <3>2
  <2> QED
    BY <2>1, <2>2
<1>8. CASE Fails(r)
  <2>1. d \in did[r] /\ d.item # Head(job[r]).item
    BY <1>8 DEF Fails, Undone
  <2> QED
    BY <1>3, <1>4, <2>1
<1>9. CASE Ends(r)
  BY <1>9 DEF Ends
<1> QED
  BY <1>1, <1>5, <1>6, <1>7, <1>8, <1>9 DEF RequestStep

\* When a request reports success, each operation that it counts as done has
\* an audit commit of its own, made after the change on the server, whatever
\* was committed or failed in between: commits are only added, the pull that
\* follows an API call ends in the audit commit or in the failure of the
\* operation, and nothing else moves a request on.
THEOREM SuccessIsAudited == Spec => []OkMeansAudited
<1>1. Init => Trail
  BY RequestIsTask DEF Init, Trail
<1>2. Trail => OkMeansAudited
  BY DEF Trail, Audited, OkMeansAudited, Pulling
<1> QED
  BY <1>1, <1>2, NextTrail, AlwaysShape, PTL DEF Spec
-----------------------------------------------------------------------------
(* What a step may do with the pulls                                       *)

Alone == Never({"overlap", "disk", "crash"})
Calm == Never({"overlap", "abort", "disk", "crash"})

SameAt(t) == /\ known'[t] = known[t] /\ listed'[t] = listed[t]
             /\ todo'[t] = todo[t] /\ gone'[t] = gone[t] /\ at'[t] = at[t]

Stays(t) == pc'[t] = pc[t] /\ job'[t] = job[t] /\ SameAt(t)

Rests(t) == pc[t] \notin Pulling /\ pc'[t] \notin Pulling /\ SameAt(t)

Begins(t) == /\ pc[t] \notin Pulling /\ pc'[t] = FirstStep(Kind(t))
             /\ job'[t] = job[t] /\ SameAt(t)
             /\ Alone' => ~Overlapped(t)
             /\ \A u \in Tasks \ {t} : Stays(u)

Stops(t) == /\ ~Calm' /\ pc'[t] \notin Pulling
            /\ listed'[t] = Nothing /\ todo'[t] = {}
            /\ gone'[t] = {} /\ at'[t] = None
            /\ ~Alone' \/ pc[t] \in {"calendars", "list", "get"}

\* No file is written, and no pull goes on.
Quiet == /\ UNCHANGED files
         /\ \A t \in Tasks : Stays(t) \/ Rests(t) \/ Begins(t) \/ Stops(t)

\* A pull goes on, and everything else stands still.
Advances(s) ==
  \/ ListCalendars(s) \/ ListContacts(s) \/ ListEvents(s) \/ ListScripts(s)
  \/ GetScript(s) \/ Diff(s) \/ WriteBody(s) \/ WriteMeta(s) \/ RemoveBody(s)
  \/ RemoveMeta(s) \/ Cleanup(s) \/ CommitPull(s)

\* An upset is not forgotten.
LEMMA UpsetShows ==
  ASSUME TypeOK, NEW k \in {"overlap", "abort", "disk", "crash"},
         Upset(k) \/ upsets' = [upsets EXCEPT ![k] = 1]
  PROVE  ~Calm' /\ (k # "abort" => ~Alone')
<1>1. k \in AllUpsets /\ upsets[k] \in Nat /\ upsets \in [AllUpsets -> Nat]
  BY DEF AllUpsets, TypeOK
<1>2. upsets'[k] # 0
  BY <1>1 DEF Upset
<1> QED
  BY <1>2 DEF Calm, Alone, Never

LEMMA AdvancesAlone ==
  ASSUME Shape, NEW s \in Tasks, Advances(s)
  PROVE  /\ pc[s] \in Pulling
         /\ UNCHANGED <<live, stamp, cals, job, mode, did, plans, upsets>>
         /\ \A t \in Tasks \ {s} : Stays(t)
<1> USE DEF Shape
<1>1. pc[s] \in Pulling
  BY DEF Advances, ListCalendars, ListContacts, ListEvents, ListScripts,
     GetScript, Diff, WriteBody, WriteMeta, RemoveBody, RemoveMeta, Cleanup,
     CommitPull, Pulling
<1>2. UNCHANGED <<live, stamp, cals, job, mode, did, plans, upsets>>
  BY DEF Advances, ListCalendars, ListContacts, ListEvents, Take, ListScripts,
     GetScript, Diff, WriteBody, WriteMeta, RemoveBody, RemoveMeta, Cleanup,
     CommitPull, server, jobVars, env
<1>3. ASSUME NEW t \in Tasks \ {s}
      PROVE  Stays(t)
  <2> USE <1>3 DEF Stays, SameAt, TypeOK
  <2>1. CASE ListCalendars(s) \/ ListContacts(s) \/ ListEvents(s) \/ ListScripts(s)
    BY <2>1, <1>2 DEF ListCalendars, ListContacts, ListEvents, Take, ListScripts, Goto
  <2>2. CASE GetScript(s)
    <3>1. pc'[t] = pc[t] /\ UNCHANGED <<job, known, gone, at>>
      BY <2>2, <1>2 DEF GetScript, Goto
    <3>2. listed'[t] = listed[t]
      BY <2>2 DEF GetScript
    <3>3. todo'[t] = todo[t]
      BY <2>2 DEF GetScript
    <3> QED
      BY <3>1, <3>2, <3>3
  <2>3. CASE Diff(s) \/ WriteBody(s) \/ WriteMeta(s) \/ RemoveBody(s) \/ RemoveMeta(s)
    BY <2>3, <1>2 DEF Diff, WriteBody, WriteMeta, RemoveBody, RemoveMeta, Goto
  <2>4. CASE Cleanup(s) \/ CommitPull(s)
    BY <2>4, <1>2 DEF Cleanup, CommitPull, Goto, pullVars
  <2> QED
    BY <2>1, <2>2, <2>3, <2>4 DEF Advances
<1> QED
  BY <1>1, <1>2, <1>3

LEMMA StopsQuietly ==
  ASSUME Shape, NEW s \in Tasks, PullFails(s), ~Calm',
         ~Alone' \/ pc[s] \in {"calendars", "list", "get"}
  PROVE  Quiet
<1> USE DEF Shape
<1>3. /\ known' = [known EXCEPT ![s] = {}]
      /\ listed' = [listed EXCEPT ![s] = Nothing]
      /\ todo' = [todo EXCEPT ![s] = {}]
      /\ gone' = [gone EXCEPT ![s] = {}]
      /\ at' = [at EXCEPT ![s] = None]
      /\ UNCHANGED files
  BY DEF PullFails, Dropped
<1>4. /\ pc'[s] \notin Pulling
      /\ \A t \in Tasks \ {s} : pc'[t] = pc[t] /\ job'[t] = job[t]
  <2>1. CASE UNCHANGED jobVars /\ (Goto(s, "idle") \/ Goto(s, "audit"))
    BY <2>1 DEF jobVars, Goto, TypeOK, Pulling
  <2>2. CASE OpFails(s)
    BY <2>2 DEF OpFails, Advance, Goto, TypeOK, Pulling
  <2> QED
    BY <2>1, <2>2 DEF PullFails
<1>5. Stops(s)
  BY <1>3, <1>4 DEF Stops, TypeOK
<1>6. \A t \in Tasks \ {s} : Stays(t)
  BY <1>3, <1>4 DEF Stays, SameAt, TypeOK
<1> QED
  BY <1>3, <1>5, <1>6 DEF Quiet

LEMMA FailsQuietly ==
  ASSUME Shape, NEW s \in Tasks,
         CalendarGone(s) \/ ScriptGone(s) \/ Abort(s) \/ DiskFails(s)
  PROVE  Quiet
<1> USE DEF Shape
<1>1. CASE CalendarGone(s) \/ ScriptGone(s) \/ Abort(s)
  BY <1>1, UpsetShows, StopsQuietly DEF CalendarGone, ScriptGone, Abort
<1>2. CASE DiskFails(s)
  <2>1. ~Calm' /\ ~Alone'
    BY <1>2, UpsetShows DEF DiskFails
  <2>2. CASE PullFails(s)
    BY <2>1, <2>2, StopsQuietly
  <2>3. CASE pc[s] = "audit" /\ OpFails(s) /\ UNCHANGED <<server, files, log, pullVars, plans>>
    <3>1. \A t \in Tasks : SameAt(t)
      BY <2>3 DEF SameAt, pullVars
    <3>2. /\ pc[s] \notin Pulling /\ pc'[s] \notin Pulling
          /\ \A t \in Tasks \ {s} : pc'[t] = pc[t] /\ job'[t] = job[t]
      BY <2>3 DEF OpFails, Advance, Goto, TypeOK, Pulling
    <3> QED
      BY <2>3, <3>1, <3>2 DEF Quiet, Rests, Stays
  <2> QED
    BY <1>2, <2>2, <2>3 DEF DiskFails
<1> QED
  BY <1>1, <1>2

LEMMA BeginsCalmly ==
  ASSUME Shape, NEW t \in Tasks, pc[t] \notin Pulling, BeginPull(t),
         pc' = [pc EXCEPT ![t] = FirstStep(Kind(t))],
         UNCHANGED <<pullVars, job>>
  PROVE  Begins(t) /\ \A u \in Tasks \ {t} : Stays(u)
<1>1. \A u \in Tasks : SameAt(u) /\ job'[u] = job[u]
  BY DEF SameAt, pullVars
<1>2. pc'[t] = FirstStep(Kind(t)) /\ \A u \in Tasks \ {t} : pc'[u] = pc[u]
  BY DEF Shape, TypeOK
<1>3. Alone' => ~Overlapped(t)
  BY UpsetShows DEF BeginPull, Shape
<1> QED
  BY <1>1, <1>2, <1>3 DEF Begins, Stays

LEMMA StepKinds ==
  ASSUME Shape, [Next]_vars
  PROVE  Quiet \/ \E s \in Tasks : Advances(s)
<1> USE DEF Shape
<1>1. ASSUME NEW s \in Tasks, Pull(s) \/ Abort(s) \/ DiskFails(s)
      PROVE  Quiet \/ Advances(s)
  BY <1>1, FailsQuietly DEF Pull, Advances
<1>2. CASE \/ \E n \in DOMAIN log : DryRunBulk(n) \/ \E i \in Items : DryRun(n, i)
           \/ \E W \in SUBSET Calendars : ListTool(W)
           \/ \E i \in Items : OtherChanges(i)
           \/ \E c \in Calendars : CalendarChanges(c)
           \/ UNCHANGED vars
  <2>1. UNCHANGED <<body, meta, dirs, pc, job, known, listed, todo, gone, at>>
    BY <1>2 DEF DryRunBulk, DryRun, ListTool, OtherChanges, CalendarChanges,
       vars, jobVars, pullVars, files
  <2> QED
    BY <2>1 DEF Quiet, Stays, SameAt, files
<1>3. CASE Crash
  <2>1. ~Calm' /\ ~Alone'
    BY <1>3, UpsetShows DEF Crash
  <2> QED
    BY <1>3, <2>1 DEF Crash, Quiet, Stops, Pulling
<1>4. ASSUME NEW k \in Kinds, Tick(k)
      PROVE  Quiet
  <2>1. /\ k \in Tasks /\ Kind(k) = k /\ pc[k] = "idle"
        /\ pc' = [pc EXCEPT ![k] = FirstStep(Kind(k))]
        /\ BeginPull(k) /\ UNCHANGED <<files, pullVars, job>>
    BY <1>4 DEF Tick, Goto, jobVars, Kind, Tasks
  <2>2. pc[k] \notin Pulling
    BY <2>1 DEF Pulling
  <2> QED
    BY <2>1, <2>2, BeginsCalmly DEF Quiet
<1>5. ASSUME NEW r \in Requests, Ask(r) \/ Work(r) \/ ApiLost(r)
      PROVE  Quiet
  <2>1. r \in Tasks /\ r \notin Kinds
    BY RequestIsTask
  <2>2. UNCHANGED <<files, pullVars>>
    BY <1>5 DEF Ask, Write, Apply, Work, SkipNoOp, Api, Refused, Audit, Return, ApiLost
  <2>3. \A t \in Tasks : SameAt(t)
    BY <2>2 DEF SameAt, pullVars
  <2>4. CASE Api(r)
    <3>1. /\ pc[r] \notin Pulling /\ BeginPull(r) /\ job' = job
          /\ pc' = [pc EXCEPT ![r] = FirstStep(Kind(r))]
      BY <2>1, <2>4 DEF Api, Goto, Kind, Pulling
    <3>2. Begins(r) /\ \A u \in Tasks \ {r} : Stays(u)
      BY <2>1, <2>2, <3>1, BeginsCalmly
    <3> QED
      BY <2>2, <3>2 DEF Quiet
  <2>5. CASE ~Api(r)
    <3>1. /\ pc[r] \notin Pulling /\ pc'[r] \notin Pulling
          /\ \A t \in Tasks \ {r} : pc'[t] = pc[t] /\ job'[t] = job[t]
      BY <1>5, <2>1, <2>5 DEF Ask, Write, Apply, Start, Work, SkipNoOp, Refused, Audit,
         Return, ApiLost, OpFails, Advance, Goto, jobVars, Pulling, TypeOK
    <3> QED
      BY <2>2, <2>3, <3>1 DEF Quiet, Rests, Stays
  <2> QED
    BY <2>4, <2>5
<1> QED
  BY <1>1, <1>2, <1>3, <1>4, <1>5 DEF Next
-----------------------------------------------------------------------------
(* What a step may do with the server                                      *)

\* A new version bears a stamp of its own, and an event has its calendar.
Serves(i) ==
  /\ \/ live'[i] = live[i]
     \/ live'[i] = None
     \/ /\ live'[i] \in Version /\ live'[i].stamp = stamp + 1 /\ stamp' = stamp + 1
        /\ Homed(i) /\ cals' = cals
  /\ live'[i] # None /\ Homed(i) => Homed(i)'

LEMMA ResultStamp ==
  ASSUME TypeOK, NEW op \in Op, Sound(op), Accepts(op), Effect(op)
  PROVE  /\ live' = [live EXCEPT ![op.item] = Result(op)]
         /\ stamp' = stamp + 1 /\ cals' = cals
         /\ live'[op.item] = Result(op)
         /\ Result(op) # None => Result(op) \in Version /\ Result(op).stamp = stamp + 1
         /\ Result(op) # None => Homed(op.item) \/ live[op.item] # None
<1>1. /\ op.item \in Items /\ op.do # "noop"
      /\ Result(op) \in Version \cup {None}
      /\ live' = [live EXCEPT ![op.item] = Result(op)]
      /\ stamp' = stamp + 1 /\ cals' = cals
  BY EffectType DEF Op, Effect
<1>2. live'[op.item] = Result(op)
  BY <1>1 DEF TypeOK
<1>3. ASSUME Result(op) # None
      PROVE  Result(op).stamp = stamp + 1
  <2>1. CASE live[op.item] = None
    BY <1>3, <2>1 DEF Result, New
  <2>2. CASE live[op.item] # None
    <3>1. Result(op) = [live[op.item] EXCEPT !.stamp = stamp + 1, !.content = op.content]
      BY <1>3, <2>2 DEF Result
    <3>2. live[op.item] \in Version
      BY <1>1, <2>2 DEF TypeOK
    <3> QED
      BY <3>1, <3>2 DEF Version
  <2> QED
    BY <2>1, <2>2
<1>4. ASSUME Result(op) # None
      PROVE  Homed(op.item) \/ live[op.item] # None
  <2>1. op.do \in {"create", "update"}
    BY <1>1, <1>4 DEF Result, Op
  <2> QED
    BY <2>1 DEF Accepts, DavAccepts, RestAccepts
<1> QED
  BY <1>1, <1>2, <1>3, <1>4

LEMMA ServerSteps ==
  ASSUME Shape, [Next]_vars, NEW i \in Items, live[i] # None => Homed(i)
  PROVE  Serves(i) /\ (stamp' = stamp \/ stamp' = stamp + 1)
<1> USE DEF Shape
<1>1. CASE UNCHANGED <<live, stamp, cals>>
  BY <1>1 DEF Serves, Homed
<1>2. ASSUME NEW r \in Requests, Effect(Head(job[r])), Accepts(Head(job[r])), pc[r] = "api"
      PROVE  Serves(i) /\ stamp' = stamp + 1
  <2> DEFINE op == Head(job[r])
  <2>1. op \in Op /\ Sound(op)
    BY <1>2, HeadOp DEF Working
  <2>2. /\ live' = [live EXCEPT ![op.item] = Result(op)]
        /\ stamp' = stamp + 1 /\ cals' = cals
        /\ live'[op.item] = Result(op)
        /\ Result(op) # None => Result(op) \in Version /\ Result(op).stamp = stamp + 1
        /\ Result(op) # None => Homed(op.item) \/ live[op.item] # None
    BY <1>2, <2>1, ResultStamp
  <2> HIDE DEF op
  <2>3. CASE i = op.item
    BY <2>2, <2>3 DEF Serves, Homed
  <2>4. CASE i # op.item
    BY <2>2, <2>4 DEF Serves, Homed, TypeOK
  <2> QED
    BY <2>2, <2>3, <2>4
<1>3. ASSUME NEW j \in Items, OtherChanges(j)
      PROVE  Serves(i) /\ (stamp' = stamp \/ stamp' = stamp + 1)
  <2>1. Homed(j) /\ cals' = cals
    BY <1>3 DEF OtherChanges
  <2>2. CASE live' = [live EXCEPT ![j] = None] /\ stamp' = stamp
    BY <2>1, <2>2 DEF Serves, Homed, TypeOK
  <2>3. ASSUME NEW c \in Contents, stamp' = stamp + 1,
               live' = [live EXCEPT ![j] =
                          IF @ = None THEN New(c)
                          ELSE [@ EXCEPT !.stamp = stamp + 1, !.content = c]]
        PROVE  Serves(i)
    <3>1. stamp + 1 \in Nat
      BY DEF TypeOK
    <3>2. CASE i # j
      BY <2>1, <2>3, <3>2 DEF Serves, Homed, TypeOK
    <3>3. CASE i = j /\ live[j] = None
      <4>1. live'[i] = New(c)
        BY <2>3, <3>3 DEF TypeOK
      <4> QED
        BY <2>1, <2>3, <3>1, <3>3, <4>1 DEF Serves, Homed, New, Version
    <3>4. CASE i = j /\ live[j] # None
      <4>1. live'[i] = [live[i] EXCEPT !.stamp = stamp + 1, !.content = c]
        BY <2>3, <3>4 DEF TypeOK
      <4>2. live[i] \in Version
        BY <3>4 DEF TypeOK
      <4>3. live'[i] \in Version /\ live'[i].stamp = stamp + 1
        BY <3>1, <4>1, <4>2 DEF Version
      <4> QED
        BY <2>1, <2>3, <3>4, <4>3 DEF Serves, Homed
    <3> QED
      BY <3>2, <3>3, <3>4
  <2> QED
    BY <1>3, <2>2, <2>3 DEF OtherChanges
<1>4. ASSUME NEW c \in Calendars, CalendarChanges(c)
      PROVE  Serves(i) /\ stamp' = stamp
  BY <1>4 DEF CalendarChanges, Serves, Homed
<1>5. ASSUME NEW s \in Tasks, Pull(s) \/ Abort(s) \/ DiskFails(s)
      PROVE  UNCHANGED <<live, stamp, cals>>
  <2>1. CASE Advances(s)
    BY <2>1, AdvancesAlone
  <2>2. CASE CalendarGone(s) \/ ScriptGone(s) \/ Abort(s) \/ DiskFails(s)
    BY <2>2 DEF CalendarGone, ScriptGone, Abort, DiskFails, PullFails, server
  <2> QED
    BY <1>5, <2>1, <2>2 DEF Pull, Advances
<1>6. ASSUME NEW r \in Requests, Ask(r) \/ Work(r) \/ ApiLost(r)
      PROVE  \/ UNCHANGED <<live, stamp, cals>>
             \/ Effect(Head(job[r])) /\ Accepts(Head(job[r])) /\ pc[r] = "api"
  BY <1>6 DEF Ask, Write, Apply, Work, SkipNoOp, Api, Refused, Audit, Return, ApiLost, server
<1>7. CASE \/ \E k \in Kinds : Tick(k)
           \/ \E n \in DOMAIN log : DryRunBulk(n) \/ \E j \in Items : DryRun(n, j)
           \/ \E W \in SUBSET Calendars : ListTool(W)
           \/ Crash
           \/ UNCHANGED vars
  <2>1. UNCHANGED <<live, stamp, cals>>
    BY <1>7 DEF Tick, DryRunBulk, DryRun, ListTool, Crash, vars, server
  <2> QED
    BY <1>1, <2>1
<1> QED
  BY <1>1, <1>2, <1>3, <1>4, <1>5, <1>6, <1>7 DEF Next

\* A pull holds what it held, what is on the server, or nothing.
LEMMA SightSteps ==
  ASSUME Shape, [Next]_vars, NEW t \in Tasks, NEW i \in Items
  PROVE  listed'[t][i] \in {listed[t][i], live[i], None}
<1> USE DEF Shape
<1>1. CASE Quiet
  BY <1>1 DEF Quiet, Stays, Rests, Begins, Stops, SameAt, Nothing
<1>2. ASSUME NEW s \in Tasks, Advances(s)
      PROVE  listed'[t][i] \in {listed[t][i], live[i], None}
  <2>1. CASE t # s
    BY <1>2, <2>1, AdvancesAlone DEF Stays, SameAt
  <2>2. CASE t = s
    <3>1. CASE ListContacts(s) \/ ListEvents(s)
      BY <2>2, <3>1 DEF ListContacts, ListEvents, Take, TypeOK
    <3>2. CASE GetScript(s)
      BY <2>2, <3>2 DEF GetScript, TypeOK
    <3>3. CASE CommitPull(s)
      BY <2>2, <3>3 DEF CommitPull, Nothing, TypeOK
    <3>4. CASE ~(ListContacts(s) \/ ListEvents(s) \/ GetScript(s) \/ CommitPull(s))
      BY <1>2, <2>2, <3>4 DEF Advances, ListCalendars, ListScripts, Diff, WriteBody,
         WriteMeta, RemoveBody, RemoveMeta, Cleanup, pullVars
    <3> QED
      BY <3>1, <3>2, <3>3, <3>4
  <2> QED
    BY <2>1, <2>2
<1> QED
  BY <1>1, <1>2, StepKinds
-----------------------------------------------------------------------------
(* Versions, calendars and deeds, whatever goes wrong                      *)

InSight(i) == ({live[i]} \cup {listed[t][i] : t \in Tasks}) \ {None}

\* The versions of an item that are on the server or in the hands of a pull
\* are told apart by their stamps.
Distinct ==
  \A i \in Items : \A v, w \in InSight(i) :
    v.stamp <= stamp /\ (v.stamp = w.stamp => v = w)

Homes == \A i \in Items : live[i] # None => Homed(i)

\* What a deed made can be recognised later.
DeedsSound ==
  \A r \in Requests : \A d \in did[r] :
    /\ d.stamp <= stamp
    /\ d.became # None => d.became.stamp = d.stamp
    /\ d.became = None /\ stamp = d.stamp => live[d.item] = None

Traced == Distinct /\ Homes /\ DeedsSound

LEMMA InitTraced == Init => Traced
<1> SUFFICES ASSUME Init PROVE Traced
  OBVIOUS
<1>1. Homes
  BY CollectionsAssumption DEF Init, Homes, Homed
<1>2. DeedsSound
  BY RequestIsTask DEF Init, DeedsSound
<1>3. ASSUME NEW i \in Items, NEW v \in InSight(i), NEW w \in InSight(i)
      PROVE  v.stamp <= stamp /\ v = w
  <2>1. \A t \in Tasks : listed[t][i] = None
    BY DEF Init, Nothing
  <2>2. v = live[i] /\ w = live[i] /\ live[i] # None
    BY <1>3, <2>1 DEF InSight
  <2>3. i \in Backed /\ live[i].stamp = 1 /\ stamp = 1
    BY <2>2 DEF Init
  <2> QED
    BY <2>2, <2>3
<1> QED
  BY <1>1, <1>2, <1>3 DEF Traced, Distinct

LEMMA NextTraced == Shape /\ Traced /\ [Next]_vars => Traced'
<1> SUFFICES ASSUME Shape, Traced, [Next]_vars PROVE Traced'
  OBVIOUS
<1>1. \A i \in Items : Serves(i)
  BY ServerSteps DEF Traced, Homes
<1>2. stamp \in Nat /\ \A i \in Items : stamp' = stamp \/ stamp' = stamp + 1
  BY ServerSteps DEF Traced, Homes, Shape, TypeOK
<1>3. Homes'
  BY <1>1 DEF Traced, Homes, Serves
<1>4. Distinct'
  <2> SUFFICES ASSUME NEW i \in Items, NEW v \in InSight(i)', NEW w \in InSight(i)'
               PROVE  v.stamp <= stamp' /\ (v.stamp = w.stamp => v = w)
    BY DEF Distinct
  <2>1. ASSUME NEW u \in InSight(i)'
        PROVE  u \in InSight(i) \/ (u = live'[i] /\ u.stamp = stamp + 1 /\ stamp' = stamp + 1)
    BY <1>1, SightSteps DEF InSight, Serves
  <2>2. ASSUME NEW u \in InSight(i)
        PROVE  u.stamp \in Nat /\ u.stamp <= stamp
    BY DEF Traced, Distinct, InSight, Shape, TypeOK, Version
  <2>3. v \in InSight(i) /\ w \in InSight(i) => (v.stamp = w.stamp => v = w)
    BY DEF Traced, Distinct
  <2> QED
    BY <1>2, <2>1, <2>2, <2>3
<1>5. DeedsSound'
  <2> SUFFICES ASSUME NEW r \in Requests, NEW d \in did'[r]
               PROVE  /\ d.stamp <= stamp'
                      /\ d.became # None => d.became.stamp = d.stamp
                      /\ d.became = None /\ stamp' = d.stamp => live'[d.item] = None
    BY DEF DeedsSound
  <2>1. CASE d \in did[r]
    <3>1. d.stamp \in Nat /\ d.item \in Items
      BY <2>1, RequestIsTask DEF Shape, TypeOK, Deed
    <3>2. /\ d.stamp <= stamp
          /\ d.became # None => d.became.stamp = d.stamp
          /\ d.became = None /\ stamp = d.stamp => live[d.item] = None
      BY <2>1 DEF Traced, DeedsSound
    <3>3. Serves(d.item)
      BY <1>1, <3>1
    <3> QED
      BY <1>2, <3>1, <3>2, <3>3 DEF Serves
  <2>2. CASE d \notin did[r]
    <3>1. Acts(r)
      BY <2>2, RequestSteps DEF RequestStep, Keeps, Starts, Goes, Fails, Undone, Ends
    <3>2. Head(job[r]) \in Op /\ Sound(Head(job[r]))
      BY <3>1, HeadOp DEF Acts, Working
    <3>3. d = [item |-> Head(job[r]).item, became |-> Result(Head(job[r])),
               stamp |-> stamp + 1, after |-> Len(log)]
      BY <2>2, <3>1 DEF Acts
    <3>4. /\ stamp' = stamp + 1 /\ live'[d.item] = d.became
          /\ d.became # None => d.became.stamp = stamp + 1
      BY <3>1, <3>2, <3>3, ResultStamp DEF Acts, Shape
    <3> QED
      BY <1>2, <3>3, <3>4
  <2> QED
    BY <2>1, <2>2
<1> QED
  BY <1>3, <1>4, <1>5 DEF Traced
-----------------------------------------------------------------------------
(* The pulls, one by one                                                   *)

\* A pull has in hand what its place calls for, and only items of its kind.
BlankAt(t) ==
  /\ pc[t] \notin {"get", "diff", "apply", "body", "unlink", "commit"} =>
       listed[t] = Nothing
  /\ pc[t] \notin {"get", "apply", "body", "unlink"} => todo[t] = {}
  /\ pc[t] \notin {"apply", "body", "unlink"} => gone[t] = {}
  /\ pc[t] \notin {"body", "unlink"} => at[t] = None

OfItsKind(t) ==
  /\ todo[t] \subseteq Of(Kind(t)) /\ gone[t] \subseteq Of(Kind(t))
  /\ at[t] # None => at[t] \in Of(Kind(t))
  /\ \A i \in Items : listed[t][i] # None => i \in Of(Kind(t))
  /\ pc[t] \in {"calendars", "commit"} => Kind(t) = "event"
  /\ pc[t] = "get" => Kind(t) = "script"

Tidy == \A t \in Tasks : BlankAt(t) /\ (pc[t] \in Pulling => OfItsKind(t))

\* While none was started beside another, each kind has one pull at most.
Apart ==
  \A s, t \in Tasks :
    pc[s] \in Pulling /\ pc[t] \in Pulling /\ Kind(s) = Kind(t) => s = t

LEMMA AdvanceTidy ==
  ASSUME Shape, Tidy, NEW s \in Tasks, Advances(s)
  PROVE  BlankAt(s)' /\ OfItsKind(s)'
<1> USE DEF Shape
<1>1. job' = job /\ Kind(s)' = Kind(s)
  BY AdvancesAlone DEF Kind
<1>2. BlankAt(s) /\ OfItsKind(s)
  BY AdvancesAlone DEF Tidy
<1>3. CASE ListCalendars(s)
  BY <1>1, <1>2, <1>3 DEF ListCalendars, BlankAt, OfItsKind, Goto, TypeOK
<1>4. CASE ListContacts(s) \/ ListEvents(s)
  <2>1. PICK S \in SUBSET Of(Kind(s)) :
          listed' = [listed EXCEPT ![s] = [i \in Items |-> IF i \in S THEN live[i] ELSE None]]
    BY <1>4 DEF ListContacts, ListEvents, Take
  <2>2. /\ pc[s] = "list" /\ pc'[s] = "diff"
        /\ UNCHANGED <<todo, gone, at>>
    BY <1>4 DEF ListContacts, ListEvents, Take, Goto, TypeOK
  <2>3. \A i \in Items : listed'[s][i] # None => i \in Of(Kind(s))
    BY <2>1 DEF TypeOK
  <2> QED
    BY <1>1, <1>2, <2>2, <2>3 DEF BlankAt, OfItsKind
<1>5. CASE ListScripts(s)
  <2>1. PICK S \in SUBSET Of("script") : todo' = [todo EXCEPT ![s] = S]
    BY <1>5 DEF ListScripts, OnePage, Of
  <2>2. /\ pc[s] = "list" /\ pc'[s] = "get" /\ Kind(s) = "script"
        /\ UNCHANGED <<listed, gone, at>>
    BY <1>5 DEF ListScripts, Goto, TypeOK
  <2> QED
    BY <1>1, <1>2, <2>1, <2>2 DEF BlankAt, OfItsKind, TypeOK
<1>6. CASE GetScript(s)
  <2>1. pc[s] = "get" /\ UNCHANGED <<gone, at>>
    BY <1>6 DEF GetScript
  <2>2. ASSUME NEW i \in todo[s], pc' = pc,
               listed' = [listed EXCEPT ![s][i] = live[i]],
               todo' = [todo EXCEPT ![s] = @ \ {i}]
        PROVE  BlankAt(s)' /\ OfItsKind(s)'
    <3>1. i \in Of(Kind(s)) /\ todo'[s] = todo[s] \ {i}
      BY <1>2, <2>2 DEF OfItsKind, TypeOK
    <3>2. \A j \in Items : listed'[s][j] # None => j \in Of(Kind(s))
      BY <1>2, <2>2, <3>1 DEF OfItsKind, TypeOK
    <3> QED
      BY <1>1, <1>2, <2>1, <2>2, <3>1, <3>2 DEF BlankAt, OfItsKind
  <2>3. CASE pc'[s] = "diff" /\ todo[s] = {} /\ UNCHANGED <<listed, todo>>
    BY <1>1, <1>2, <2>1, <2>3 DEF BlankAt, OfItsKind
  <2> QED
    BY <1>6, <2>2, <2>3 DEF GetScript, Goto, TypeOK
<1>7. CASE Diff(s)
  <2>1. /\ pc[s] = "diff" /\ pc'[s] = "apply" /\ UNCHANGED <<listed, at>>
        /\ todo'[s] = Changed(s) /\ gone'[s] = Disappeared(s)
    BY <1>7 DEF Diff, Goto, TypeOK
  <2>2. Changed(s) \subseteq Of(Kind(s)) /\ Disappeared(s) \subseteq Of(Kind(s))
    BY DEF Changed, Disappeared, Local
  <2> QED
    BY <1>1, <1>2, <2>1, <2>2 DEF BlankAt, OfItsKind
<1>8. CASE WriteBody(s) \/ RemoveBody(s)
  <2>1. /\ pc[s] = "apply" /\ pc'[s] \in {"body", "unlink"} /\ listed' = listed
        /\ todo'[s] \subseteq todo[s] /\ gone'[s] \subseteq gone[s]
        /\ at'[s] \in todo[s] \cup gone[s]
    BY <1>8 DEF WriteBody, RemoveBody, Goto, TypeOK
  <2> QED
    BY <1>1, <1>2, <2>1 DEF BlankAt, OfItsKind
<1>9. CASE WriteMeta(s) \/ RemoveMeta(s)
  <2>1. /\ pc'[s] = "apply" /\ at'[s] = None
        /\ UNCHANGED <<listed, todo, gone>>
    BY <1>9 DEF WriteMeta, RemoveMeta, Goto, TypeOK
  <2> QED
    BY <1>1, <1>2, <2>1 DEF BlankAt, OfItsKind
<1>10. CASE Cleanup(s)
  <2>1. /\ pc[s] = "apply" /\ Kind(s) = "event" /\ pc'[s] = "commit"
        /\ todo[s] = {} /\ gone[s] = {}
        /\ UNCHANGED <<listed, todo, gone, at>>
    BY <1>10 DEF Cleanup, Goto, pullVars, TypeOK
  <2> QED
    BY <1>1, <1>2, <2>1 DEF BlankAt, OfItsKind
<1>11. CASE CommitPull(s)
  <2>1. /\ pc'[s] \in {"idle", "audit"} /\ listed'[s] = Nothing
        /\ todo[s] = {} /\ gone[s] = {} /\ pc[s] \in {"commit", "apply"}
        /\ UNCHANGED <<todo, gone, at>>
    BY <1>11 DEF CommitPull, Goto, TypeOK
  <2> QED
    BY <1>1, <1>2, <2>1 DEF BlankAt, OfItsKind, Nothing
<1> QED
  BY <1>3, <1>4, <1>5, <1>6, <1>7, <1>8, <1>9, <1>10, <1>11 DEF Advances

LEMMA InitTidy == Init => Tidy /\ Apart
<1> SUFFICES ASSUME Init PROVE Tidy /\ Apart
  OBVIOUS
<1>1. \A t \in Tasks : /\ pc[t] = "idle" /\ listed[t] = Nothing /\ todo[t] = {}
                       /\ gone[t] = {} /\ at[t] = None
  BY DEF Init
<1> QED
  BY <1>1 DEF Tidy, BlankAt, Apart, Pulling

LEMMA NextTidy == Shape /\ Tidy /\ [Next]_vars => Tidy'
<1> SUFFICES ASSUME Shape, Tidy, [Next]_vars, NEW t \in Tasks
             PROVE  BlankAt(t)' /\ (pc'[t] \in Pulling => OfItsKind(t)')
  BY DEF Tidy
<1>1. BlankAt(t) /\ (pc[t] \in Pulling => OfItsKind(t))
  BY DEF Tidy
<1>2. CASE Stays(t)
  <2>1. Kind(t)' = Kind(t)
    BY <1>2 DEF Stays, Kind
  <2> QED
    BY <1>1, <1>2, <2>1 DEF Stays, SameAt, BlankAt, OfItsKind
<1>3. CASE Rests(t)
  BY <1>1, <1>3 DEF Rests, SameAt, BlankAt, Pulling
<1>4. CASE Begins(t)
  <2>1. Kind(t)' = Kind(t)
    BY <1>4 DEF Begins, Kind
  <2>2. /\ listed[t] = Nothing /\ todo[t] = {} /\ gone[t] = {} /\ at[t] = None
    BY <1>1, <1>4 DEF Begins, BlankAt, Pulling
  <2>3. /\ listed'[t] = Nothing /\ todo'[t] = {} /\ gone'[t] = {} /\ at'[t] = None
        /\ pc'[t] = "list" \/ (pc'[t] = "calendars" /\ Kind(t) = "event")
    BY <1>4, <2>2 DEF Begins, SameAt, FirstStep
  <2> QED
    BY <2>1, <2>3 DEF BlankAt, OfItsKind, Nothing
<1>5. CASE Stops(t)
  <2>1. gone'[t] = {} /\ at'[t] = None
    BY <1>1, <1>5 DEF Stops, BlankAt
  <2> QED
    BY <1>5, <2>1 DEF Stops, BlankAt, Pulling
<1>6. ASSUME NEW s \in Tasks, Advances(s)
      PROVE  t = s \/ Stays(t)
  BY <1>6, AdvancesAlone
<1> QED
  BY <1>2, <1>3, <1>4, <1>5, <1>6, AdvanceTidy, StepKinds DEF Quiet

LEMMA NextApart == Shape /\ Apart /\ [Next]_vars /\ Alone' => Apart'
<1> SUFFICES ASSUME Shape, Apart, [Next]_vars, Alone',
                    NEW s \in Tasks, NEW t \in Tasks, s # t,
                    pc'[s] \in Pulling, pc'[t] \in Pulling
             PROVE  Kind(s)' # Kind(t)'
  BY DEF Apart
<1>1. ASSUME NEW u \in Tasks, pc'[u] \in Pulling
      PROVE  /\ Kind(u)' = Kind(u)
             /\ pc[u] \in Pulling \/ Begins(u)
  <2>1. CASE Quiet
    BY <1>1, <2>1 DEF Quiet, Stays, Rests, Begins, Stops, Kind
  <2>2. ASSUME NEW v \in Tasks, Advances(v)
        PROVE  job'[u] = job[u] /\ pc[u] \in Pulling
    BY <1>1, <2>2, AdvancesAlone DEF Stays
  <2> QED
    BY <2>1, <2>2, StepKinds DEF Kind
<1>2. CASE pc[s] \in Pulling /\ pc[t] \in Pulling
  BY <1>1, <1>2 DEF Apart
<1>3. CASE Begins(s)
  <2>1. Stays(t) /\ ~Overlapped(s)
    BY <1>3 DEF Begins
  <2> QED
    BY <1>1, <2>1 DEF Stays, Overlapped
<1>4. CASE Begins(t)
  <2>1. Stays(s) /\ ~Overlapped(t)
    BY <1>4 DEF Begins
  <2> QED
    BY <1>1, <2>1 DEF Stays, Overlapped
<1> QED
  BY <1>1, <1>2, <1>3, <1>4
-----------------------------------------------------------------------------
(* Bodies and marks                                                        *)

\* The mark of an item is that of its body, unless a pull is between the two.
AgreeAt(i) ==
  /\ KindOf[i] \in ByEtag /\ meta[i] # None => meta[i] \in Nat /\ meta[i] <= stamp
  /\ (\A t \in Tasks : at[t] # i) =>
       /\ meta[i] = None <=> body[i] = None
       /\ KindOf[i] \notin ByEtag => meta[i] = body[i]
       /\ \A v \in InSight(i) : meta[i] = Mark(i, v) => body[i] = v.content
  /\ \A t \in Tasks : at[t] = i =>
       body[i] = IF pc[t] = "body" THEN listed[t][i].content ELSE None

Agree == \A i \in Items : AgreeAt(i)

LEMMA SightType ==
  ASSUME Shape, Traced, NEW i \in Items, NEW v \in InSight(i)
  PROVE  /\ v \in Version /\ v.stamp \in Nat /\ v.stamp <= stamp /\ v.content # None
         /\ Mark(i, v) # None /\ (KindOf[i] \in ByEtag => Mark(i, v) = v.stamp)
         /\ (KindOf[i] \notin ByEtag => Mark(i, v) = v.content)
<1>1. v \in Version
  BY DEF InSight, Shape, TypeOK
<1>2. v.stamp <= stamp
  BY DEF Traced, Distinct
<1> QED
  BY <1>1, <1>2, CollectionsAssumption DEF Version, Mark

LEMMA SightGrows ==
  ASSUME Shape, Traced, [Next]_vars, NEW i \in Items, NEW u \in InSight(i)'
  PROVE  \/ u \in InSight(i)
         \/ u \in Version /\ u.stamp = stamp + 1
<1>1. Serves(i)
  BY ServerSteps DEF Traced, Homes
<1> QED
  BY <1>1, SightSteps DEF InSight, Serves

\* Nothing happens to the files of an item, nor to a pull that is at it.
LEMMA AgreeAside ==
  ASSUME NEW i \in Items, Shape, Traced, AgreeAt(i), [Next]_vars,
         body'[i] = body[i], meta'[i] = meta[i],
         \A t \in Tasks : /\ at'[t] = i <=> at[t] = i
                          /\ at[t] = i => pc'[t] = pc[t] /\ listed'[t] = listed[t]
  PROVE  AgreeAt(i)'
<1>1. stamp \in Nat /\ (stamp' = stamp \/ stamp' = stamp + 1)
  BY ServerSteps DEF Traced, Homes, Shape, TypeOK
<1>2. ASSUME \A t \in Tasks : at[t] # i, NEW v \in InSight(i)', meta[i] = Mark(i, v)'
      PROVE  body[i] = v.content
  <2>1. Mark(i, v)' = Mark(i, v)
    BY DEF Mark
  <2>2. CASE v \in InSight(i)
    BY <1>2, <2>1, <2>2 DEF AgreeAt
  <2>3. CASE v \in Version /\ v.stamp = stamp + 1
    <3>1. CASE KindOf[i] \in ByEtag
      <4>1. meta[i] = stamp + 1
        BY <1>2, <2>1, <2>3, <3>1 DEF Mark
      <4>2. meta[i] # None
        BY <4>1, <1>1, CollectionsAssumption
      <4> QED
        BY <1>1, <3>1, <4>1, <4>2 DEF AgreeAt
    <3>2. CASE KindOf[i] \notin ByEtag
      BY <1>2, <2>1, <3>2 DEF AgreeAt, Mark
    <3> QED
      BY <3>1, <3>2
  <2> QED
    BY <1>2, <2>2, <2>3, SightGrows
<1>3. KindOf[i] \in ByEtag /\ meta'[i] # None => meta'[i] \in Nat /\ meta'[i] <= stamp'
  BY <1>1 DEF AgreeAt
<1>4. ASSUME \A t \in Tasks : at'[t] # i
      PROVE  /\ meta'[i] = None <=> body'[i] = None
             /\ KindOf[i] \notin ByEtag => meta'[i] = body'[i]
             /\ \A v \in InSight(i)' : meta'[i] = Mark(i, v)' => body'[i] = v.content
  <2>1. \A t \in Tasks : at[t] # i
    BY <1>4
  <2> QED
    BY <1>2, <2>1 DEF AgreeAt
<1>5. \A t \in Tasks : at'[t] = i =>
        body'[i] = IF pc'[t] = "body" THEN listed'[t][i].content ELSE None
  BY DEF AgreeAt
<1> QED
  BY <1>3, <1>4, <1>5 DEF AgreeAt

\* Of the files, a pull changes only those of its kind.
LEMMA FilesAside ==
  ASSUME Shape, Tidy, NEW s \in Tasks, Advances(s), NEW i \in Items, KindOf[i] # Kind(s)
  PROVE  body'[i] = body[i] /\ meta'[i] = meta[i] /\ at[s] # i /\ at'[s] # i
<1>1. i \notin Of(Kind(s)) /\ Kind(s)' = Kind(s) /\ i # None
  BY AdvancesAlone, CollectionsAssumption DEF Of, Kind
<1>2. BlankAt(s) /\ OfItsKind(s) /\ OfItsKind(s)'
  BY AdvancesAlone, AdvanceTidy DEF Tidy
<1>3. at[s] # i /\ at'[s] # i /\ i \notin todo[s] /\ i \notin gone[s]
  BY <1>1, <1>2 DEF OfItsKind, Of
<1>4. CASE WriteBody(s) \/ RemoveBody(s)
  <2>1. \E j \in todo[s] \cup gone[s] : \E v : body' = [body EXCEPT ![j] = v]
    BY <1>4 DEF WriteBody, RemoveBody
  <2>2. meta' = meta
    BY <1>4 DEF WriteBody, RemoveBody
  <2> QED
    BY <1>3, <2>1, <2>2
<1>5. CASE WriteMeta(s) \/ RemoveMeta(s)
  <2>1. body' = body /\ \E v : meta' = [meta EXCEPT ![at[s]] = v]
    BY <1>5 DEF WriteMeta, RemoveMeta
  <2> QED
    BY <1>3, <2>1
<1>6. CASE Cleanup(s)
  <2>1. KindOf[i] # "event"
    BY <1>6 DEF Cleanup
  <2>2. body'[i] = body[i] /\ meta'[i] = meta[i]
    BY <1>6, <2>1 DEF Cleanup
  <2> QED
    BY <1>3, <2>2
<1>7. CASE ~(WriteBody(s) \/ RemoveBody(s) \/ WriteMeta(s) \/ RemoveMeta(s) \/ Cleanup(s))
  <2>1. body' = body /\ meta' = meta
    BY <1>7 DEF Advances, ListCalendars, ListContacts, ListEvents, Take, ListScripts,
       GetScript, Diff, CommitPull, files
  <2> QED
    BY <1>3, <2>1
<1> QED
  BY <1>3, <1>4, <1>5, <1>6, <1>7

LEMMA InitAgree == Init => Agree
<1> SUFFICES ASSUME Init, NEW i \in Items PROVE AgreeAt(i)
  BY DEF Agree
<1>1. /\ \A t \in Tasks : at[t] = None /\ listed[t][i] = None
      /\ i # None
  BY CollectionsAssumption DEF Init, Nothing
<1>2. CASE i \notin Backed
  <2>1. body[i] = None /\ meta[i] = None /\ live[i] = None
    BY <1>2 DEF Init
  <2>2. InSight(i) = {}
    BY <1>1, <2>1 DEF InSight
  <2> QED
    BY <1>1, <2>1, <2>2 DEF AgreeAt
<1>3. CASE i \in Backed
  <2>1. /\ body[i] = live[i].content /\ meta[i] = Mark(i, live[i])
        /\ live[i].content \in Contents /\ live[i].stamp = 1 /\ stamp = 1
    BY <1>3 DEF Init
  <2>2. \A v \in InSight(i) : v = live[i]
    BY <1>1 DEF InSight
  <2>3. meta[i] # None /\ body[i] # None
    BY <2>1, CollectionsAssumption DEF Mark
  <2> QED
    BY <1>1, <2>1, <2>2, <2>3 DEF AgreeAt, Mark
<1> QED
  BY <1>2, <1>3

LEMMA NextAgree ==
  Shape /\ Traced /\ Tidy /\ Apart /\ Agree /\ [Next]_vars /\ Alone' => Agree'
<1> SUFFICES ASSUME Shape, Traced, Tidy, Apart, Agree, [Next]_vars, Alone', NEW i \in Items
             PROVE  AgreeAt(i)'
  BY DEF Agree
<1>1. AgreeAt(i) /\ i # None
  BY CollectionsAssumption DEF Agree
<1>2. CASE Quiet
  <2>1. \A t \in Tasks : at[t] = i => pc[t] \in {"body", "unlink"}
    BY <1>1 DEF Tidy, BlankAt
  <2>2. \A t \in Tasks : /\ at'[t] = i <=> at[t] = i
                         /\ at[t] = i => pc'[t] = pc[t] /\ listed'[t] = listed[t]
    BY <1>1, <1>2, <2>1 DEF Quiet, Stays, Rests, Begins, Stops, SameAt, Pulling
  <2> QED
    BY <1>1, <1>2, <2>2, AgreeAside DEF Quiet, files
<1>3. ASSUME NEW s \in Tasks, Advances(s)
      PROVE  AgreeAt(i)'
  <2>1. \A t \in Tasks \ {s} : Stays(t)
    BY <1>3, AdvancesAlone
  <2>2. /\ BlankAt(s) /\ OfItsKind(s) /\ pc[s] \in Pulling
        /\ BlankAt(s)' /\ Kind(s)' = Kind(s) /\ stamp' = stamp /\ live' = live
    BY <1>3, AdvancesAlone, AdvanceTidy DEF Tidy, Kind
  <2>3. ASSUME body'[i] = body[i], meta'[i] = meta[i], at[s] # i, at'[s] # i
        PROVE  AgreeAt(i)'
    <3>1. \A t \in Tasks : /\ at'[t] = i <=> at[t] = i
                           /\ at[t] = i => pc'[t] = pc[t] /\ listed'[t] = listed[t]
      BY <2>1, <2>3 DEF Stays, SameAt
    <3> QED
      BY <1>1, <2>3, <3>1, AgreeAside
  <2>4. CASE KindOf[i] # Kind(s)
    BY <1>3, <2>3, <2>4, FilesAside
  <2>5. CASE KindOf[i] = Kind(s)
    <3>1. \A t \in Tasks \ {s} : at[t] # i /\ at'[t] # i
      <4> SUFFICES ASSUME NEW t \in Tasks \ {s}, at[t] = i PROVE FALSE
        BY <2>1 DEF Stays, SameAt
      <4>1. pc[t] \in Pulling /\ OfItsKind(t)
        BY <1>1 DEF Tidy, BlankAt, Pulling
      <4>2. Kind(t) = Kind(s)
        BY <1>1, <2>5, <4>1 DEF OfItsKind, Of
      <4> QED
        BY <2>2, <4>1, <4>2 DEF Apart
    <3>2. \A v \in InSight(i)' : v \in InSight(i)
      <4> SUFFICES ASSUME NEW v \in InSight(i)' PROVE v \in InSight(i)
        OBVIOUS
      <4> QED
        BY <2>2, SightSteps DEF InSight
    <3>3. CASE WriteBody(s)
      <4>1. /\ pc[s] = "apply" /\ pc'[s] = "body" /\ UNCHANGED <<meta, listed>>
            /\ at'[s] \in todo[s]
            /\ body' = [body EXCEPT ![at'[s]] = listed[s][at'[s]].content]
        BY <3>3 DEF WriteBody, Goto, Shape, TypeOK
      <4>2. CASE at'[s] = i
        <5>1. body'[i] = listed'[s][i].content
          BY <4>1, <4>2 DEF Shape, TypeOK
        <5> QED
          BY <1>1, <2>2, <3>1, <4>1, <4>2, <5>1 DEF AgreeAt
      <4>3. CASE at'[s] # i
        BY <1>1, <2>2, <2>3, <4>1, <4>3 DEF BlankAt, Shape, TypeOK
      <4> QED
        BY <4>2, <4>3
    <3>4. CASE RemoveBody(s)
      <4>1. /\ pc[s] = "apply" /\ pc'[s] = "unlink" /\ UNCHANGED <<meta, listed>>
            /\ at'[s] \in gone[s]
            /\ body' = [body EXCEPT ![at'[s]] = None]
        BY <3>4 DEF RemoveBody, Goto, Shape, TypeOK
      <4>2. CASE at'[s] = i
        <5>1. body'[i] = None
          BY <4>1, <4>2 DEF Shape, TypeOK
        <5> QED
          BY <1>1, <2>2, <3>1, <4>1, <4>2, <5>1 DEF AgreeAt
      <4>3. CASE at'[s] # i
        BY <1>1, <2>2, <2>3, <4>1, <4>3 DEF BlankAt, Shape, TypeOK
      <4> QED
        BY <4>2, <4>3
    <3>5. CASE WriteMeta(s)
      <4>1. /\ pc[s] = "body" /\ UNCHANGED <<body, listed>>
            /\ at'[s] = None /\ at[s] \in Items
            /\ meta' = [meta EXCEPT ![at[s]] = Mark(at[s], listed[s][at[s]])]
        BY <3>5 DEF WriteMeta, Goto, Shape, Writable, TypeOK
      <4>2. CASE at[s] = i
        <5> DEFINE v == listed[s][i]
        <5>1. v # None
          BY <4>1, <4>2 DEF Shape, Writable
        <5>2. v \in InSight(i)
          BY <5>1 DEF InSight
        <5>3. meta'[i] = Mark(i, v) /\ body'[i] = v.content
          BY <1>1, <4>1, <4>2 DEF AgreeAt, Shape, TypeOK
        <5>4. v.content # None /\ Mark(i, v) # None /\ v.stamp \in Nat /\ v.stamp <= stamp
              /\ (KindOf[i] \in ByEtag => Mark(i, v) = v.stamp)
              /\ (KindOf[i] \notin ByEtag => Mark(i, v) = v.content)
          BY <5>2, SightType
        <5>5. ASSUME NEW u \in InSight(i), meta'[i] = Mark(i, u)
              PROVE  body'[i] = u.content
          <6>1. /\ KindOf[i] \in ByEtag => Mark(i, u) = u.stamp
                /\ KindOf[i] \notin ByEtag => Mark(i, u) = u.content
            BY SightType
          <6>2. v.stamp = u.stamp => v = u
            BY <5>2 DEF Traced, Distinct
          <6> QED
            BY <5>3, <5>4, <5>5, <6>1, <6>2
        <5>6. \A u : Mark(i, u)' = Mark(i, u)
          BY DEF Mark
        <5> HIDE DEF v
        <5> QED
          BY <1>1, <2>2, <3>1, <3>2, <4>1, <5>3, <5>4, <5>5, <5>6 DEF AgreeAt
      <4>3. CASE at[s] # i
        BY <1>1, <2>3, <4>1, <4>3 DEF Shape, TypeOK
      <4> QED
        BY <4>2, <4>3
    <3>6. CASE RemoveMeta(s)
      <4>1. /\ pc[s] = "unlink" /\ UNCHANGED <<body, listed>>
            /\ at'[s] = None /\ at[s] \in Items
            /\ meta' = [meta EXCEPT ![at[s]] = None]
        BY <3>6 DEF RemoveMeta, Goto, Shape, Writable, TypeOK
      <4>2. CASE at[s] = i
        <5>1. meta'[i] = None /\ body'[i] = None
          BY <1>1, <4>1, <4>2 DEF AgreeAt, Shape, TypeOK
        <5>2. \A u \in InSight(i) : Mark(i, u)' # None
          BY SightType DEF Mark
        <5> QED
          BY <1>1, <2>2, <3>1, <3>2, <4>1, <5>1, <5>2 DEF AgreeAt
      <4>3. CASE at[s] # i
        BY <1>1, <2>3, <4>1, <4>3 DEF Shape, TypeOK
      <4> QED
        BY <4>2, <4>3
    <3>7. CASE Cleanup(s)
      <4>1. pc[s] = "apply" /\ UNCHANGED <<listed, at>>
        BY <3>7 DEF Cleanup, pullVars
      <4>2. at[s] # i /\ at'[s] # i
        BY <1>1, <2>2, <4>1 DEF BlankAt
      <4>3. \/ body'[i] = body[i] /\ meta'[i] = meta[i]
            \/ body'[i] = None /\ meta'[i] = None
        BY <3>7 DEF Cleanup
      <4>4. CASE body'[i] = None /\ meta'[i] = None
        <5>1. \A u \in InSight(i) : Mark(i, u)' # None
          BY SightType DEF Mark
        <5> QED
          BY <1>1, <2>2, <3>1, <3>2, <4>2, <4>4, <5>1 DEF AgreeAt
      <4> QED
        BY <2>3, <4>2, <4>3, <4>4
    <3>8. CASE ~(WriteBody(s) \/ RemoveBody(s) \/ WriteMeta(s) \/ RemoveMeta(s) \/ Cleanup(s))
      <4>1. pc[s] \notin {"body", "unlink"} /\ at' = at /\ UNCHANGED <<body, meta>>
        BY <1>3, <3>8 DEF Advances, ListCalendars, ListContacts, ListEvents, Take,
           ListScripts, GetScript, Diff, CommitPull, files
      <4>2. at[s] # i
        BY <1>1, <2>2, <4>1 DEF BlankAt
      <4> QED
        BY <2>3, <4>1, <4>2
    <3> QED
      BY <3>3, <3>4, <3>5, <3>6, <3>7, <3>8
  <2> QED
    BY <2>4, <2>5
<1> QED
  BY <1>2, <1>3, StepKinds
-----------------------------------------------------------------------------
(* What a pull brings                                                      *)

\* Every UID is the stem of its file, and no listing is cut short or out of
\* date: otherwise a pull passes over items that are there.
Whole ==
  /\ Unsafe = {} /\ ~ICloud
  /\ Cardinality(Of("script")) <= Limit
  /\ "event" \notin Dav => IsFiniteSet(Calendars) /\ Cardinality(Calendars) <= Limit

Target(i) == IF live[i] = None THEN None ELSE live[i].content

\* Pull t will leave the body of item i as the server has it.
Brings(t, i) ==
  /\ pc[t] # "calendars" /\ live[i] # None /\ KindOf[i] = "event" =>
       CalendarOf[i] \in known[t]
  /\ pc[t] = "get" =>
       IF i \in todo[t] THEN live[i] # None ELSE listed[t][i] = live[i]
  /\ pc[t] \in {"diff", "apply", "body", "unlink", "commit"} => listed[t][i] = live[i]
  /\ pc[t] \in {"apply", "body", "unlink"} =>
       \/ i \in todo[t] \cup gone[t]
       \/ body[i] = Target(i)
       \/ KindOf[i] = "event" /\ CalendarOf[i] \notin known[t]
  /\ i \in gone[t] => live[i] = None
  /\ pc[t] = "commit" => body[i] = Target(i)

LEMMA WholePage ==
  ASSUME NEW all, IsFiniteSet(all), Cardinality(all) <= Limit, NEW S \in OnePage(all)
  PROVE  S = all
<1>1. S \subseteq all /\ (S = all \/ Cardinality(S) = Limit)
  BY DEF OnePage
<1>2. Cardinality(S) \in Nat /\ Cardinality(all) \in Nat
      /\ Cardinality(S) <= Cardinality(all)
      /\ (Cardinality(S) = Cardinality(all) => S = all)
  BY <1>1, FS_Subset, FS_CardinalityType
<1> QED
  BY <1>1, <1>2, CollectionsAssumption

LEMMA NotHeld ==
  ASSUME Shape, Tidy, Apart, NEW s \in Tasks, pc[s] \in Pulling \ {"body", "unlink"},
         NEW i \in Items, KindOf[i] = Kind(s)
  PROVE  \A t \in Tasks : at[t] # i
<1> SUFFICES ASSUME NEW t \in Tasks, at[t] = i PROVE FALSE
  OBVIOUS
<1>1. i # None
  BY CollectionsAssumption
<1>2. pc[t] \in {"body", "unlink"}
  BY <1>1 DEF Tidy, BlankAt
<1>3. i \in Of(Kind(t))
  BY <1>1, <1>2 DEF Tidy, OfItsKind, Pulling
<1>4. Kind(t) = Kind(s)
  BY <1>3 DEF Of
<1> QED
  BY <1>2, <1>4 DEF Apart, Pulling

LEMMA Lists ==
  ASSUME Whole, Shape, Traced, Tidy, NEW s \in Tasks, NEW i \in Items, KindOf[i] = Kind(s),
         Brings(s, i),
         ListCalendars(s) \/ ListContacts(s) \/ ListEvents(s) \/ ListScripts(s)
  PROVE  Brings(s, i)' /\ body'[i] = body[i]
<1>1. BlankAt(s) /\ i \in Of(Kind(s)) /\ Seen = cals
  BY DEF Tidy, Of, Whole, Seen
<1>2. live[i] # None /\ KindOf[i] = "event" => CalendarOf[i] \in cals
  BY DEF Traced, Homes, Homed
<1>3. live' = live
  BY DEF ListCalendars, ListContacts, ListEvents, Take, ListScripts, server
<1>4. CASE ListCalendars(s)
  <2>1. PICK S \in CalendarPages : known' = [known EXCEPT ![s] = S]
    BY <1>4 DEF ListCalendars
  <2>2. S = cals
    <3>1. CASE "event" \in Dav
      BY <1>1, <2>1, <3>1 DEF CalendarPages
    <3>2. CASE "event" \notin Dav
      <4>1. cals \subseteq Calendars /\ S \in OnePage(cals)
        BY <2>1, <3>2 DEF CalendarPages, Shape, TypeOK
      <4>2. IsFiniteSet(Calendars) /\ Cardinality(Calendars) <= Limit
        BY <3>2 DEF Whole
      <4>3. IsFiniteSet(cals) /\ Cardinality(cals) <= Cardinality(Calendars)
        BY <4>1, <4>2, FS_Subset
      <4>4. Cardinality(cals) <= Limit
        BY <4>2, <4>3, FS_CardinalityType, CollectionsAssumption
      <4> QED
        BY <4>1, <4>3, <4>4, WholePage
    <3> QED
      BY <3>1, <3>2
  <2>3. /\ pc[s] = "calendars" /\ pc'[s] = "list" /\ known'[s] = cals
        /\ UNCHANGED <<body, listed, todo, gone>>
    BY <1>4, <2>1, <2>2 DEF ListCalendars, Goto, Shape, TypeOK
  <2> QED
    BY <1>1, <1>2, <1>3, <2>3 DEF Brings, BlankAt
<1>5. CASE ListContacts(s)
  <2>1. /\ pc[s] = "list" /\ pc'[s] = "diff" /\ KindOf[i] = "contact"
        /\ listed'[s][i] = live[i] /\ UNCHANGED <<body, known, todo, gone>>
    BY <1>1, <1>5 DEF ListContacts, Take, Goto, files, Shape, TypeOK
  <2> QED
    BY <1>1, <1>3, <2>1 DEF Brings, BlankAt
<1>6. CASE ListEvents(s)
  <2>1. /\ pc[s] = "list" /\ pc'[s] = "diff" /\ KindOf[i] = "event"
        /\ listed'[s][i] = IF CalendarOf[i] \in known[s] \cap cals THEN live[i] ELSE None
        /\ UNCHANGED <<body, known, todo, gone>>
    BY <1>1, <1>6 DEF ListEvents, Take, Goto, files, Shape, TypeOK
  <2>2. listed'[s][i] = live[i]
    BY <1>2, <2>1 DEF Brings
  <2> QED
    BY <1>1, <1>3, <2>1, <2>2 DEF Brings, BlankAt
<1>7. CASE ListScripts(s)
  <2> DEFINE all == {j \in Of("script") : live[j] # None}
  <2>1. PICK S \in OnePage(all) : todo' = [todo EXCEPT ![s] = S]
    BY <1>7 DEF ListScripts
  <2>2. S = all
    <3>1. IsFiniteSet(Of("script")) /\ all \subseteq Of("script")
      BY FS_Subset, CollectionsAssumption DEF Of
    <3>2. IsFiniteSet(all) /\ Cardinality(all) <= Cardinality(Of("script"))
      BY <3>1, FS_Subset
    <3>3. Cardinality(all) <= Limit
      BY <3>1, <3>2, FS_CardinalityType, CollectionsAssumption DEF Whole
    <3> QED
      BY <2>1, <3>2, <3>3, WholePage
  <2>3. /\ pc[s] = "list" /\ pc'[s] = "get" /\ Kind(s) = "script" /\ todo'[s] = all
        /\ UNCHANGED <<body, known, listed, gone>>
    BY <1>7, <2>1, <2>2 DEF ListScripts, Goto, files, Shape, TypeOK
  <2>4. listed[s][i] = None
    BY <1>1, <2>3 DEF BlankAt, Nothing
  <2> QED
    BY <1>1, <1>3, <2>3, <2>4 DEF Brings, BlankAt
<1> QED
  BY <1>4, <1>5, <1>6, <1>7

LEMMA Compares ==
  ASSUME Whole, Shape, Traced, Tidy, Apart, Agree, NEW s \in Tasks, NEW i \in Items,
         KindOf[i] = Kind(s), Brings(s, i), GetScript(s) \/ Diff(s)
  PROVE  Brings(s, i)' /\ body'[i] = body[i]
<1>1. CASE GetScript(s)
  <2>1. /\ pc[s] = "get" /\ gone[s] = {} /\ KindOf[i] = "script"
        /\ UNCHANGED <<live, body, known, gone>>
    BY <1>1 DEF GetScript, server, files, Tidy, BlankAt, OfItsKind, Pulling
  <2>2. ASSUME NEW j \in todo[s], live[j] # None, pc' = pc,
               listed' = [listed EXCEPT ![s][j] = live[j]],
               todo' = [todo EXCEPT ![s] = @ \ {j}]
        PROVE  Brings(s, i)'
    <3>1. /\ todo'[s] = todo[s] \ {j}
          /\ listed'[s][i] = IF i = j THEN live[i] ELSE listed[s][i]
      BY <2>2 DEF Shape, TypeOK
    <3> QED
      BY <2>1, <2>2, <3>1 DEF Brings
  <2>3. CASE todo[s] = {} /\ pc'[s] = "diff" /\ UNCHANGED <<listed, todo>>
    BY <2>1, <2>3 DEF Brings
  <2> QED
    BY <1>1, <2>1, <2>2, <2>3 DEF GetScript, Goto, Shape, TypeOK
<1>2. CASE Diff(s)
  <2>1. /\ pc[s] = "diff" /\ pc'[s] = "apply"
        /\ todo'[s] = Changed(s) /\ gone'[s] = Disappeared(s)
        /\ UNCHANGED <<live, body, known, listed>>
    BY <1>2 DEF Diff, Goto, server, files, Shape, TypeOK
  <2>2. listed[s][i] = live[i] /\ i \in Of(Kind(s))
    BY <2>1 DEF Brings, Of
  <2>3. /\ meta[i] = None <=> body[i] = None
        /\ \A v \in InSight(i) : meta[i] = Mark(i, v) => body[i] = v.content
    <3>1. \A t \in Tasks : at[t] # i
      BY <2>1, NotHeld DEF Pulling
    <3> QED
      BY <3>1 DEF Agree, AgreeAt
  <2>4. i \in Disappeared(s) => live[i] = None
    BY <2>2 DEF Disappeared, Whole
  <2>5. \/ i \in Changed(s) \cup Disappeared(s)
        \/ body[i] = Target(i)
        \/ KindOf[i] = "event" /\ CalendarOf[i] \notin known[s]
    <3>1. CASE live[i] = None
      BY <2>2, <2>3, <3>1 DEF Disappeared, Local, Target
    <3>2. CASE live[i] # None
      <4>1. live[i] \in InSight(i)
        BY <3>2 DEF InSight
      <4> QED
        BY <2>2, <2>3, <3>2, <4>1 DEF Changed, Target
    <3> QED
      BY <3>1, <3>2
  <2>6. Target(i)' = Target(i)
    BY <2>1 DEF Target
  <2> QED
    BY <2>1, <2>2, <2>4, <2>5, <2>6 DEF Brings
<1> QED
  BY <1>1, <1>2

LEMMA Writes ==
  ASSUME Whole, Shape, Tidy, NEW s \in Tasks, NEW i \in Items,
         KindOf[i] = Kind(s), Brings(s, i),
         WriteBody(s) \/ WriteMeta(s) \/ RemoveBody(s) \/ RemoveMeta(s) \/ Cleanup(s)
  PROVE  Brings(s, i)' /\ (body[i] = Target(i) => body'[i] = Target(i))
<1>1. UNCHANGED <<live, known, listed>> /\ Target(i)' = Target(i)
  BY DEF WriteBody, WriteMeta, RemoveBody, RemoveMeta, Cleanup, server, pullVars, Target
<1>2. CASE WriteBody(s)
  <2>1. PICK j \in todo[s] : /\ body' = [body EXCEPT ![j] = listed[s][j].content]
                             /\ todo' = [todo EXCEPT ![s] = @ \ {j}]
    BY <1>2 DEF WriteBody
  <2>2. /\ pc[s] = "apply" /\ pc'[s] = "body" /\ gone' = gone /\ todo'[s] = todo[s] \ {j}
        /\ j \in Items
    BY <1>2, <2>1 DEF WriteBody, Goto, Shape, TypeOK
  <2>3. CASE i = j
    <3>1. listed[s][i] # None
      BY <2>2, <2>3 DEF Shape, Writable
    <3>2. body'[i] = Target(i)
      BY <2>1, <2>2, <2>3, <3>1 DEF Brings, Target, Shape, TypeOK
    <3> QED
      BY <1>1, <2>2, <3>2 DEF Brings
  <2>4. CASE i # j
    <3>1. body'[i] = body[i]
      BY <2>1, <2>4
    <3> QED
      BY <1>1, <2>2, <2>4, <3>1 DEF Brings
  <2> QED
    BY <2>3, <2>4
<1>3. CASE RemoveBody(s)
  <2>1. PICK j \in gone[s] : /\ body' = [body EXCEPT ![j] = None]
                             /\ gone' = [gone EXCEPT ![s] = @ \ {j}]
    BY <1>3 DEF RemoveBody
  <2>2. /\ pc[s] = "apply" /\ pc'[s] = "unlink" /\ todo' = todo /\ gone'[s] = gone[s] \ {j}
        /\ j \in Items
    BY <1>3, <2>1 DEF RemoveBody, Goto, Shape, TypeOK
  <2>3. CASE i = j
    <3>1. live[i] = None /\ body'[i] = Target(i)
      BY <2>1, <2>2, <2>3 DEF Brings, Target, Shape, TypeOK
    <3> QED
      BY <1>1, <2>2, <3>1 DEF Brings
  <2>4. CASE i # j
    <3>1. body'[i] = body[i]
      BY <2>1, <2>4
    <3> QED
      BY <1>1, <2>2, <2>4, <3>1 DEF Brings
  <2> QED
    BY <2>3, <2>4
<1>4. CASE WriteMeta(s) \/ RemoveMeta(s)
  <2>1. /\ pc[s] \in {"body", "unlink"} /\ pc'[s] = "apply"
        /\ UNCHANGED <<body, todo, gone>>
    BY <1>4 DEF WriteMeta, RemoveMeta, Goto, Shape, TypeOK
  <2> QED
    BY <1>1, <2>1 DEF Brings
<1>5. CASE Cleanup(s)
  <2>1. /\ pc[s] = "apply" /\ pc'[s] = "commit" /\ KindOf[i] = "event"
        /\ todo[s] = {} /\ gone[s] = {} /\ gone' = gone
    BY <1>5 DEF Cleanup, Goto, pullVars, Shape, TypeOK
  <2>2. body'[i] = IF CalendarOf[i] \in known[s] THEN body[i] ELSE None
    BY <1>5, <2>1 DEF Cleanup
  <2>3. body'[i] = Target(i)
    BY <2>1, <2>2 DEF Brings, Target
  <2> QED
    BY <1>1, <2>1, <2>3 DEF Brings
<1> QED
  BY <1>2, <1>3, <1>4, <1>5

\* A pull goes on to bring what it brings, and at its end has brought it.
LEMMA AdvanceBrings ==
  ASSUME Whole, Shape, Traced, Tidy, Apart, Agree, NEW s \in Tasks, Advances(s),
         NEW i \in Items, KindOf[i] = Kind(s), Brings(s, i)
  PROVE  /\ pc'[s] \in Pulling => Brings(s, i)'
         /\ body[i] = Target(i) => body'[i] = Target(i)
         /\ pc'[s] \notin Pulling => body'[i] = Target(i)
<1>1. CASE CommitPull(s)
  <2>1. /\ pc'[s] \in {"idle", "audit"} /\ body' = body
        /\ todo[s] = {} /\ gone[s] = {}
        /\ pc[s] = "commit" \/ (pc[s] = "apply" /\ KindOf[i] # "event")
    BY <1>1 DEF CommitPull, Goto, files, Shape, TypeOK
  <2> QED
    BY <2>1 DEF Brings, Pulling
<1>2. CASE ~CommitPull(s)
  <2>1. pc'[s] \in Pulling
    BY <1>2 DEF Advances, ListCalendars, ListContacts, ListEvents, Take, ListScripts,
       GetScript, Diff, WriteBody, WriteMeta, RemoveBody, RemoveMeta, Cleanup, Goto,
       Pulling, Shape, TypeOK
  <2> QED
    BY <1>2, <2>1, Lists, Compares, Writes DEF Advances
<1> QED
  BY <1>1, <1>2
-----------------------------------------------------------------------------
(* What a request reports as done is in the backup                         *)

\* The item of a deed is right in its file and in the last commit, or the
\* pull that will see to it is under way; and no pull that runs will undo it.
BackedUp(r, d) ==
  /\ \A t \in Tasks : pc[t] \in Pulling /\ Kind(t) = KindOf[d.item] => Brings(t, d.item)
  /\ \/ body[d.item] = Target(d.item)
     \/ pc[r] \in Pulling /\ d.item = Head(job[r]).item
  /\ \/ log # <<>> /\ Last(log).body[d.item] = Target(d.item)
     \/ pc[r] \in Pulling \cup {"audit"} /\ d.item = Head(job[r]).item

Backups == \A r \in Requests : \A d \in did[r] : Stands(d) => BackedUp(r, d)

LEMMA LastAppended ==
  ASSUME Shape, NEW entry \in Commit, log' = Append(log, entry)
  PROVE  log' # <<>> /\ Last(log') = entry
<1>1. log \in Seq(Commit)
  BY DEF Shape, TypeOK
<1> QED
  BY <1>1, AppendProperties, LenProperties DEF Last

\* What stands now stood before, on the same version.
LEMMA StandsBack ==
  ASSUME Shape, Traced, [Next]_vars, NEW r \in Requests, NEW d \in did[r], Stands(d)'
  PROVE  Stands(d) /\ live'[d.item] = live[d.item]
<1>1. /\ d.item \in Items /\ d.stamp \in Nat /\ stamp \in Nat
      /\ d.became \in Version \cup {None}
  BY RequestIsTask DEF Shape, TypeOK, Deed
<1>2. Serves(d.item) /\ (stamp' = stamp \/ stamp' = stamp + 1)
  BY <1>1, ServerSteps DEF Traced, Homes
<1>3. /\ d.stamp <= stamp
      /\ d.became # None => d.became.stamp = d.stamp
      /\ d.became = None /\ stamp = d.stamp => live[d.item] = None
  BY DEF Traced, DeedsSound
<1>4. live'[d.item] = d.became /\ (d.became = None => stamp' = d.stamp)
  BY DEF Stands
<1>5. d.became = None => stamp = d.stamp
  BY <1>1, <1>2, <1>3, <1>4
<1>6. CASE live'[d.item] = live[d.item]
  BY <1>4, <1>5, <1>6 DEF Stands
<1>7. CASE live'[d.item] = None
  BY <1>3, <1>4, <1>5, <1>7 DEF Stands
<1>8. CASE live'[d.item] \in Version /\ live'[d.item].stamp = stamp + 1
  <2>1. d.became # None
    BY <1>4, <1>8, CollectionsAssumption
  <2> QED
    BY <1>1, <1>3, <1>4, <1>8, <2>1
<1> QED
  BY <1>2, <1>6, <1>7, <1>8 DEF Serves

LEMMA BeginBrings ==
  ASSUME Tidy, NEW t \in Tasks, Begins(t), NEW i \in Items, Kind(t)' = KindOf[i]
  PROVE  Brings(t, i)'
<1>1. /\ todo'[t] = {} /\ gone'[t] = {}
  BY DEF Begins, SameAt, Tidy, BlankAt, Pulling
<1>2. pc'[t] = "list" \/ pc'[t] = "calendars"
  BY DEF Begins, FirstStep
<1>3. pc'[t] = "list" => KindOf[i] # "event"
  BY DEF Begins, FirstStep, Kind
<1> QED
  BY <1>1, <1>2, <1>3 DEF Brings

\* Pulls keep to what they bring, and what is right stays right, while the
\* item is left alone.
LEMMA BringsOn ==
  ASSUME Whole, Shape, Traced, Tidy, Apart, Agree, [Next]_vars, Calm',
         NEW i \in Items, live'[i] = live[i],
         \A t \in Tasks : pc[t] \in Pulling /\ Kind(t) = KindOf[i] => Brings(t, i)
  PROVE  /\ \A t \in Tasks : pc'[t] \in Pulling /\ Kind(t)' = KindOf[i] => Brings(t, i)'
         /\ body[i] = Target(i) => body'[i] = Target(i)
         /\ Target(i)' = Target(i)
         /\ \A t \in Tasks : pc[t] \in Pulling /\ Kind(t) = KindOf[i] /\ pc'[t] \notin Pulling
              => body'[i] = Target(i)
<1>1. Target(i)' = Target(i)
  BY DEF Target
<1>2. CASE Quiet
  <2>1. body' = body
    BY <1>2 DEF Quiet, files
  <2>2. ASSUME NEW t \in Tasks, pc'[t] \in Pulling, Kind(t)' = KindOf[i]
        PROVE  Brings(t, i)'
    <3>1. CASE Stays(t)
      <4>1. Kind(t)' = Kind(t)
        BY <3>1 DEF Stays, Kind
      <4>2. Brings(t, i)
        BY <2>2, <3>1, <4>1 DEF Stays
      <4> QED
        BY <1>1, <2>1, <3>1, <4>2 DEF Stays, SameAt, Brings
    <3>2. CASE Begins(t)
      BY <2>2, <3>2, BeginBrings
    <3> QED
      BY <1>2, <2>2, <3>1, <3>2 DEF Quiet, Rests, Stops
  <2>3. \A t \in Tasks : pc[t] \in Pulling => pc'[t] \in Pulling
    BY <1>2 DEF Quiet, Stays, Rests, Begins, Stops
  <2> QED
    BY <1>1, <2>1, <2>2, <2>3
<1>3. ASSUME NEW s \in Tasks, Advances(s)
      PROVE  /\ \A t \in Tasks : pc'[t] \in Pulling /\ Kind(t)' = KindOf[i] => Brings(t, i)'
             /\ body[i] = Target(i) => body'[i] = Target(i)
             /\ \A t \in Tasks : pc[t] \in Pulling /\ Kind(t) = KindOf[i] /\ pc'[t] \notin Pulling
                  => body'[i] = Target(i)
  <2>1. /\ pc[s] \in Pulling /\ job' = job
        /\ \A t \in Tasks \ {s} : Stays(t)
    BY <1>3, AdvancesAlone
  <2>2. \A t \in Tasks : Kind(t)' = Kind(t)
    BY <2>1 DEF Kind
  <2>3. CASE Kind(s) = KindOf[i]
    <3>1. Brings(s, i)
      BY <2>1, <2>3
    <3>2. /\ pc'[s] \in Pulling => Brings(s, i)'
          /\ body[i] = Target(i) => body'[i] = Target(i)
          /\ pc'[s] \notin Pulling => body'[i] = Target(i)
      BY <1>3, <2>3, <3>1, AdvanceBrings
    <3>3. \A t \in Tasks : pc[t] \in Pulling /\ Kind(t) = KindOf[i] => t = s
      BY <2>1, <2>3 DEF Apart
    <3>4. \A t \in Tasks \ {s} : pc'[t] = pc[t]
      BY <2>1 DEF Stays
    <3> QED
      BY <2>1, <2>2, <3>2, <3>3, <3>4
  <2>4. CASE Kind(s) # KindOf[i]
    <3>1. body'[i] = body[i]
      BY <1>3, <2>4, FilesAside
    <3>2. ASSUME NEW t \in Tasks, Kind(t) = KindOf[i]
          PROVE  /\ pc'[t] = pc[t]
                 /\ pc[t] \in Pulling => Brings(t, i)'
      <4>1. Stays(t)
        BY <2>1, <2>4, <3>2
      <4>2. pc[t] \in Pulling => Brings(t, i)
        BY <3>2
      <4> QED
        BY <1>1, <3>1, <4>1, <4>2 DEF Stays, SameAt, Brings
    <3> QED
      BY <2>2, <3>1, <3>2
  <2> QED
    BY <2>3, <2>4
<1> QED
  BY <1>1, <1>2, <1>3, StepKinds

LEMMA OldDeed ==
  ASSUME Whole, Shape, Traced, Tidy, Apart, Agree, Backups, [Next]_vars, Calm',
         NEW r \in Requests, NEW d \in did[r], d \in did'[r], Stands(d)'
  PROVE  BackedUp(r, d)'
<1> DEFINE i == d.item
<1>1. i \in Items /\ Stands(d) /\ live'[i] = live[i]
  BY StandsBack, RequestIsTask DEF Shape, TypeOK, Deed
<1>2. BackedUp(r, d)
  BY <1>1 DEF Backups
<1>3. Grows /\ RequestStep(r)
  BY RequestSteps
<1>4. /\ \A t \in Tasks : pc'[t] \in Pulling /\ Kind(t)' = KindOf[i] => Brings(t, i)'
      /\ body[i] = Target(i) => body'[i] = Target(i)
      /\ Target(i)' = Target(i)
      /\ \A t \in Tasks : pc[t] \in Pulling /\ Kind(t) = KindOf[i] /\ pc'[t] \notin Pulling
           => body'[i] = Target(i)
  BY <1>1, <1>2, BringsOn DEF BackedUp
<1>5. r \in Tasks /\ r \notin Kinds
  BY RequestIsTask
<1>6. ASSUME pc[r] \in Pulling, i = Head(job[r]).item
      PROVE  Keeps(r) /\ Kind(r) = KindOf[i]
  <2>1. ~Fails(r) /\ ~Ends(r)
    BY <1>6 DEF Fails, Undone, Ends
  <2>2. ~Starts(r) /\ ~Goes(r) /\ ~Acts(r)
    BY <1>6 DEF Starts, Goes, Acts, Pulling
  <2> QED
    BY <1>3, <1>5, <1>6, <2>1, <2>2 DEF RequestStep, Kind
<1>7. \/ body'[i] = Target(i)
      \/ pc'[r] \in Pulling /\ i = Head(job'[r]).item
  <2>1. CASE body[i] = Target(i)
    BY <1>4, <2>1
  <2>2. CASE pc[r] \in Pulling /\ i = Head(job[r]).item
    BY <1>4, <1>5, <1>6, <2>2 DEF Keeps
  <2> QED
    BY <1>2, <2>1, <2>2 DEF BackedUp
<1>8. \/ log' # <<>> /\ Last(log').body[i] = Target(i)
      \/ pc'[r] \in Pulling \cup {"audit"} /\ i = Head(job'[r]).item
  <2>1. ASSUME NEW who \in (Requests \X Items) \cup {None}, log' = Append(log, Snapshot(who)),
               body[i] = Target(i)
        PROVE  log' # <<>> /\ Last(log').body[i] = Target(i)
    <3>1. Snapshot(who) \in Commit /\ Snapshot(who).body = body
      BY SnapshotType DEF Snapshot, Shape
    <3> QED
      BY <2>1, <3>1, LastAppended
  <2>2. CASE pc[r] \in Pulling /\ i = Head(job[r]).item
    BY <1>6, <2>2 DEF Keeps
  <2>3. CASE ~(pc[r] \in Pulling /\ i = Head(job[r]).item)
    <3>1. body[i] = Target(i)
      BY <1>2, <2>3 DEF BackedUp
    <3>2. CASE log # <<>> /\ Last(log).body[i] = Target(i)
      BY <1>3, <2>1, <3>1, <3>2 DEF Grows
    <3>3. CASE pc[r] = "audit" /\ i = Head(job[r]).item
      <4>1. ~Fails(r) /\ ~Ends(r) /\ ~Starts(r) /\ ~Acts(r)
        BY <3>3 DEF Fails, Undone, Ends, Starts, Acts
      <4>2. CASE Keeps(r)
        BY <3>3, <4>2 DEF Keeps
      <4>3. CASE Goes(r)
        <5>1. log' = Append(log, Snapshot(<<r, Head(job[r]).item>>))
          BY <3>3, <4>3 DEF Goes
        <5>2. <<r, Head(job[r]).item>> \in (Requests \X Items) \cup {None}
          BY <1>1, <3>3
        <5> QED
          BY <2>1, <3>1, <5>1, <5>2
      <4> QED
        BY <1>3, <4>1, <4>2, <4>3 DEF RequestStep
    <3> QED
      BY <1>2, <2>3, <3>2, <3>3 DEF BackedUp
  <2> QED
    BY <2>2, <2>3
<1> HIDE DEF i
<1> QED
  BY <1>4, <1>7, <1>8 DEF BackedUp, i

LEMMA NewDeed ==
  ASSUME Shape, Tidy, Apart', [Next]_vars, NEW r \in Requests, Acts(r),
         NEW d, d.item = Head(job[r]).item
  PROVE  BackedUp(r, d)'
<1>1. r \in Tasks /\ r \notin Kinds /\ pc[r] = "api" /\ pc'[r] \in Pulling /\ job'[r] = job[r]
  BY RequestIsTask DEF Acts
<1>2. d.item \in Items
  BY <1>1, HeadOp DEF Working
<1>3. Kind(r)' = KindOf[d.item]
  BY <1>1 DEF Kind
<1>4. Begins(r)
  <2>1. CASE Quiet
    BY <1>1, <2>1 DEF Quiet, Stays, Rests, Stops, Pulling
  <2>2. ASSUME NEW s \in Tasks, Advances(s)
        PROVE  FALSE
    <3>1. pc[s] \in Pulling /\ \A t \in Tasks \ {s} : Stays(t)
      BY <2>2, AdvancesAlone
    <3> QED
      BY <1>1, <3>1 DEF Stays, Pulling
  <2> QED
    BY <2>1, <2>2, StepKinds
<1>5. Brings(r, d.item)'
  BY <1>1, <1>2, <1>3, <1>4, BeginBrings
<1>6. \A t \in Tasks : pc'[t] \in Pulling /\ Kind(t)' = KindOf[d.item] => t = r
  BY <1>1, <1>3 DEF Apart
<1> QED
  BY <1>1, <1>5, <1>6 DEF BackedUp

Careful == /\ Alone => Apart /\ Agree
           /\ Calm /\ Whole => Backups

LEMMA CalmBefore ==
  Shape /\ [Next]_vars => (Calm' => Calm) /\ (Alone' => Alone)
<1> DEFINE Before == (Calm' => Calm) /\ (Alone' => Alone)
<1> SUFFICES ASSUME Shape, [Next]_vars PROVE Before
  OBVIOUS
<1>1. upsets \in [AllUpsets -> Nat]
  BY DEF Shape, TypeOK
<1>2. ASSUME NEW k \in AllUpsets, Upset(k)
      PROVE  Before
  BY <1>1, <1>2 DEF Upset, Calm, Alone, Never, AllUpsets
<1>3. ASSUME upsets' = [upsets EXCEPT !["abort"] = 1]
      PROVE  Before
  BY <1>1, <1>3, UpsetShows DEF Shape, Alone, Never, AllUpsets
<1>4. CASE UNCHANGED upsets
  BY <1>4 DEF Calm, Alone, Never
<1>5. ASSUME NEW s \in Tasks, Pull(s) \/ Abort(s) \/ DiskFails(s)
      PROVE  Before
  <2>1. CASE Advances(s)
    BY <1>4, <2>1, AdvancesAlone
  <2>3. CASE DiskFails(s)
    BY <1>2, <2>3 DEF DiskFails, AllUpsets
  <2>2. CASE CalendarGone(s) \/ ScriptGone(s) \/ Abort(s)
    BY <1>2, <1>3, <2>2 DEF CalendarGone, ScriptGone, Abort, AllUpsets
  <2> QED
    BY <1>5, <2>1, <2>2, <2>3 DEF Pull, Advances
<1>6. ASSUME NEW t \in Tasks, BeginPull(t)
      PROVE  Before
  BY <1>2, <1>4, <1>6 DEF BeginPull, env, AllUpsets
<1>7. ASSUME NEW k \in Kinds, Tick(k)
      PROVE  Before
  BY <1>6, <1>7 DEF Tick, Tasks
<1>8. ASSUME NEW r \in Requests, Ask(r) \/ Work(r) \/ ApiLost(r)
      PROVE  Before
  <2>1. CASE Api(r)
    BY <1>6, <2>1, RequestIsTask DEF Api
  <2>2. CASE ApiLost(r)
    BY <1>2, <2>2 DEF ApiLost, AllUpsets
  <2>3. CASE ~Api(r) /\ ~ApiLost(r)
    BY <1>4, <1>8, <2>3 DEF Ask, Write, Apply, Call, Work, SkipNoOp, Refused, Audit,
       Return, env
  <2> QED
    BY <2>1, <2>2, <2>3
<1>9. CASE \/ \E n \in DOMAIN log : DryRunBulk(n) \/ \E i \in Items : DryRun(n, i)
           \/ \E W \in SUBSET Calendars : ListTool(W)
           \/ \E i \in Items : OtherChanges(i)
           \/ \E c \in Calendars : CalendarChanges(c)
           \/ UNCHANGED vars
  BY <1>4, <1>9 DEF DryRunBulk, DryRun, Call, ListTool, OtherChanges, CalendarChanges,
     env, vars
<1>10. CASE Crash
  BY <1>2, <1>10 DEF Crash, AllUpsets
<1> QED
  BY <1>5, <1>7, <1>8, <1>9, <1>10 DEF Next

LEMMA NextCareful ==
  Shape /\ Traced /\ Tidy /\ Careful /\ [Next]_vars => Careful'
<1> SUFFICES ASSUME Shape, Traced, Tidy, Careful, [Next]_vars
             PROVE  Careful'
  OBVIOUS
<1>1. (Calm' => Calm) /\ (Alone' => Alone) /\ (Calm => Alone) /\ (Calm' => Alone')
  BY CalmBefore DEF Calm, Alone, Never
<1>2. ASSUME Alone'
      PROVE  Apart /\ Agree /\ Apart' /\ Agree'
  BY <1>1, <1>2, NextApart, NextAgree DEF Careful
<1>3. ASSUME Whole, Calm'
      PROVE  Backups'
  <2>1. Backups /\ Apart /\ Agree /\ Apart'
    BY <1>1, <1>2, <1>3 DEF Careful
  <2> SUFFICES ASSUME NEW r \in Requests, NEW d \in did'[r], Stands(d)'
               PROVE  BackedUp(r, d)'
    BY DEF Backups
  <2>2. CASE d \in did[r]
    BY <1>3, <2>1, <2>2, OldDeed
  <2>3. CASE d \notin did[r]
    <3>1. Acts(r)
      BY <2>3, RequestSteps DEF RequestStep, Keeps, Starts, Goes, Fails, Undone, Ends
    <3>2. d.item = Head(job[r]).item
      BY <2>3, <3>1 DEF Acts
    <3> QED
      BY <2>1, <3>1, <3>2, NewDeed
  <2> QED
    BY <2>2, <2>3
<1>4. Whole' <=> Whole
  BY DEF Whole, Of
<1> QED
  BY <1>2, <1>3, <1>4 DEF Careful

LEMMA AlwaysCareful == Spec => [](Shape /\ Traced /\ Tidy /\ Careful)
<1>1. Init => Careful
  <2>1. Init => Backups
    BY RequestIsTask DEF Init, Backups
  <2> QED
    BY <2>1, InitTidy, InitAgree DEF Careful
<1> QED
  BY <1>1, InitShape, InitTraced, InitTidy, NextShape, NextTraced, NextTidy, NextCareful,
     PTL DEF Spec

\* When a request reports success, the last commit has each item as the
\* request left it, unless somebody changed it again; as long as no pull was
\* started beside another of its kind, none failed and the daemon did not
\* die, and as long as the listings are whole.  The pull after an API call
\* has listed what the call made, it leaves the item as it listed it, it ends
\* in a commit, and any later pull lists the same or something newer.
THEOREM SuccessIsBackedUp == Whole => (Spec => []OkMeansBackedUp)
<1>1. Whole /\ Shape /\ Careful => OkMeansBackedUp
  <2> SUFFICES ASSUME Whole, Shape, Careful, Calm, NEW r \in Requests, pc[r] = "done",
                      NEW d \in did[r], Stands(d)
               PROVE  Last(log).body[d.item] =
                        IF d.became = None THEN None ELSE d.became.content
    BY DEF OkMeansBackedUp, Calm
  <2>1. BackedUp(r, d)
    BY DEF Careful, Backups
  <2>2. Last(log).body[d.item] = Target(d.item)
    BY <2>1 DEF BackedUp, Pulling
  <2> QED
    BY <2>2 DEF Stands, Target
<1>2. Whole => []Whole
  BY DEF Whole, Of
<1> QED
  BY <1>1, <1>2, AlwaysCareful, PTL

\* The body of an item is that of its mark whenever no pull runs, if none was
\* ever started beside another of its kind, none was cut off while it wrote and
\* the daemon never died: nothing else (changes by others between listing and
\* writing, failed calls, lost answers) leaves a file that the next pull takes
\* for current and is not.
THEOREM BodiesAreWhole == Spec => []OnlyOverlapsTear
<1>1. Shape /\ Tidy /\ Careful => OnlyOverlapsTear
  <2> SUFFICES ASSUME Shape, Tidy, Careful, Alone, \A s \in Tasks : pc[s] = "idle",
                      NEW i \in Items, live[i] # None, meta[i] = Mark(i, live[i])
               PROVE  body[i] = live[i].content
    BY DEF OnlyOverlapsTear, NoneTorn, Alone
  <2>1. \A t \in Tasks : at[t] # i
    BY CollectionsAssumption DEF Tidy, BlankAt
  <2>2. live[i] \in InSight(i)
    BY DEF InSight
  <2> QED
    BY <2>1, <2>2 DEF Careful, Agree, AgreeAt
<1> QED
  BY <1>1, AlwaysCareful, PTL
-----------------------------------------------------------------------------
(* A pull leaves an exact copy of what rests                               *)

TargetMark(i) == IF live[i] = None THEN None ELSE Mark(i, live[i])

\* Pull t will leave the mark of item i as that of the server's version.
BringsMark(t, i) ==
  /\ pc[t] \in {"apply", "body", "unlink"} =>
       \/ i \in todo[t] \cup gone[t] \/ at[t] = i
       \/ meta[i] = TargetMark(i)
       \/ KindOf[i] = "event" /\ CalendarOf[i] \notin known[t]
  /\ at[t] = i => IF pc[t] = "body" THEN live[i] # None ELSE live[i] = None
  /\ pc[t] = "commit" => meta[i] = TargetMark(i)

Pulls(t, i) == pc[t] \in Pulling /\ Kind(t) = KindOf[i]

Brought(i) == \A t \in Tasks : Pulls(t, i) => Brings(t, i) /\ BringsMark(t, i)

\* The body and the mark of an item are those of the server's version, in the
\* files and in the last commit.
Exact(i) == /\ body[i] = Target(i) /\ meta[i] = TargetMark(i)
            /\ Committed[1][i] = Target(i) /\ Committed[2][i] = TargetMark(i)

\* No pull has read anything yet that may concern the item.
Unread(i) == \A t \in Tasks : Pulls(t, i) => pc[t] = FirstStep(KindOf[i])

\* Nobody changes the item at the server, and nothing goes wrong.
LeftAlone(i) == Calm' /\ live'[i] = live[i]

PullEnds(i) == \E t \in Tasks : Pulls(t, i) /\ pc'[t] \notin Pulling

LEMMA UnreadIsBrought ==
  ASSUME Tidy, NEW i \in Items, Unread(i)
  PROVE  Brought(i)
<1> SUFFICES ASSUME NEW t \in Tasks, Pulls(t, i)
             PROVE  Brings(t, i) /\ BringsMark(t, i)
  BY DEF Brought
<1>1. pc[t] = FirstStep(KindOf[i]) /\ i # None
  BY CollectionsAssumption DEF Unread
<1>2. /\ todo[t] = {} /\ gone[t] = {} /\ at[t] = None
      /\ pc[t] = "list" \/ pc[t] = "calendars"
      /\ pc[t] = "list" => KindOf[i] # "event"
  BY <1>1 DEF FirstStep, Tidy, BlankAt
<1> QED
  BY <1>1, <1>2 DEF Brings, BringsMark

\* The steps of a pull before it compares leave marks alone.
LEMMA ReadsMark ==
  ASSUME Shape, Tidy, NEW s \in Tasks, NEW i \in Items,
         \/ ListCalendars(s) \/ ListContacts(s) \/ ListEvents(s) \/ ListScripts(s)
         \/ GetScript(s)
  PROVE  /\ BringsMark(s, i)'
         /\ meta'[i] = meta[i]
<1>1. pc[s] \in {"calendars", "list", "get"} /\ at' = at /\ meta' = meta
  BY DEF ListCalendars, ListContacts, ListEvents, Take, ListScripts, GetScript, files
<1>2. at[s] = None /\ i # None
  BY <1>1, CollectionsAssumption DEF Tidy, BlankAt
<1>3. pc'[s] \in {"list", "get", "diff"}
  BY DEF ListCalendars, ListContacts, ListEvents, Take, ListScripts, GetScript, Goto,
     Shape, TypeOK
<1> QED
  BY <1>1, <1>2, <1>3 DEF BringsMark

LEMMA MarkOn ==
  ASSUME Shape, Tidy, NEW s \in Tasks, Advances(s), NEW i \in Items,
         KindOf[i] = Kind(s), Brings(s, i), BringsMark(s, i)
  PROVE  /\ pc'[s] \in Pulling => BringsMark(s, i)'
         /\ meta[i] = TargetMark(i) => meta'[i] = TargetMark(i)
         /\ pc'[s] \notin Pulling => meta'[i] = TargetMark(i)
<1>1. live' = live /\ TargetMark(i)' = TargetMark(i)
  BY AdvancesAlone DEF TargetMark, Mark
<1>2. BlankAt(s) /\ i \in Of(Kind(s)) /\ i # None
  BY CollectionsAssumption DEF Tidy, Of
<1>3. CASE \/ ListCalendars(s) \/ ListContacts(s) \/ ListEvents(s) \/ ListScripts(s)
           \/ GetScript(s)
  <2>1. pc'[s] \in Pulling
    BY <1>3 DEF ListCalendars, ListContacts, ListEvents, Take, ListScripts, GetScript,
       Goto, Pulling, Shape, TypeOK
  <2> QED
    BY <1>3, <2>1, ReadsMark
<1>4. CASE Diff(s)
  <2>1. /\ pc[s] = "diff" /\ pc'[s] = "apply"
        /\ todo'[s] = Changed(s) /\ gone'[s] = Disappeared(s)
        /\ UNCHANGED <<meta, known, at>>
    BY <1>4 DEF Diff, Goto, files, Shape, TypeOK
  <2>2. listed[s][i] = live[i] /\ at[s] # i
    BY <1>2, <2>1 DEF Brings, BlankAt
  <2>3. \/ i \in Changed(s) \cup Disappeared(s)
        \/ meta[i] = TargetMark(i)
        \/ KindOf[i] = "event" /\ CalendarOf[i] \notin known[s]
    BY <1>2, <2>2 DEF Changed, Disappeared, Local, TargetMark
  <2> QED
    BY <1>1, <2>1, <2>2, <2>3 DEF BringsMark, Pulling
<1>5. CASE WriteBody(s)
  <2>1. PICK j \in todo[s] : at' = [at EXCEPT ![s] = j] /\ todo' = [todo EXCEPT ![s] = @ \ {j}]
    BY <1>5 DEF WriteBody
  <2>2. /\ pc[s] = "apply" /\ pc'[s] = "body" /\ at'[s] = j /\ at[s] # i
        /\ todo'[s] = todo[s] \ {j} /\ listed[s][j] # None
        /\ UNCHANGED <<meta, known, gone>>
    BY <1>2, <1>5, <2>1 DEF WriteBody, Goto, BlankAt, Shape, TypeOK, Writable
  <2>3. listed[s][i] = live[i]
    BY <2>2 DEF Brings
  <2> QED
    BY <1>1, <2>2, <2>3 DEF BringsMark, Pulling
<1>6. CASE RemoveBody(s)
  <2>1. PICK j \in gone[s] : at' = [at EXCEPT ![s] = j] /\ gone' = [gone EXCEPT ![s] = @ \ {j}]
    BY <1>6 DEF RemoveBody
  <2>2. /\ pc[s] = "apply" /\ pc'[s] = "unlink" /\ at'[s] = j /\ at[s] # i
        /\ gone'[s] = gone[s] \ {j}
        /\ UNCHANGED <<meta, known, todo>>
    BY <1>2, <1>6, <2>1 DEF RemoveBody, Goto, BlankAt, Shape, TypeOK
  <2>3. i \in gone[s] => live[i] = None
    BY DEF Brings
  <2> QED
    BY <1>1, <2>1, <2>2, <2>3 DEF BringsMark, Pulling
<1>7. CASE WriteMeta(s)
  <2>1. /\ pc[s] = "body" /\ pc'[s] = "apply" /\ at'[s] = None
        /\ meta' = [meta EXCEPT ![at[s]] = Mark(at[s], listed[s][at[s]])]
        /\ UNCHANGED <<known, todo, gone>>
    BY <1>7 DEF WriteMeta, Goto, Shape, TypeOK
  <2>2. CASE at[s] = i
    <3>1. live[i] # None /\ listed[s][i] = live[i]
      BY <2>1, <2>2 DEF Brings, BringsMark
    <3>2. meta'[i] = TargetMark(i)
      BY <2>1, <2>2, <3>1 DEF TargetMark, Shape, TypeOK
    <3> QED
      BY <1>1, <1>2, <2>1, <3>2 DEF BringsMark, Pulling
  <2>3. CASE at[s] # i
    <3>1. meta'[i] = meta[i]
      BY <2>1, <2>3
    <3> QED
      BY <1>1, <1>2, <2>1, <2>3, <3>1 DEF BringsMark, Pulling
  <2> QED
    BY <2>2, <2>3
<1>8. CASE RemoveMeta(s)
  <2>1. /\ pc[s] = "unlink" /\ pc'[s] = "apply" /\ at'[s] = None
        /\ meta' = [meta EXCEPT ![at[s]] = None]
        /\ UNCHANGED <<known, todo, gone>>
    BY <1>8 DEF RemoveMeta, Goto, Shape, TypeOK
  <2>2. CASE at[s] = i
    <3>1. meta'[i] = TargetMark(i)
      BY <2>1, <2>2 DEF BringsMark, TargetMark, Shape, TypeOK
    <3> QED
      BY <1>1, <1>2, <2>1, <3>1 DEF BringsMark, Pulling
  <2>3. CASE at[s] # i
    <3>1. meta'[i] = meta[i]
      BY <2>1, <2>3
    <3> QED
      BY <1>1, <1>2, <2>1, <2>3, <3>1 DEF BringsMark, Pulling
  <2> QED
    BY <2>2, <2>3
<1>9. CASE Cleanup(s)
  <2>1. /\ pc[s] = "apply" /\ pc'[s] = "commit" /\ KindOf[i] = "event"
        /\ todo[s] = {} /\ gone[s] = {} /\ at[s] = None /\ at' = at
    BY <1>2, <1>9 DEF Cleanup, Goto, pullVars, BlankAt, Shape, TypeOK
  <2>2. meta'[i] = IF CalendarOf[i] \in known[s] THEN meta[i] ELSE None
    BY <1>9, <2>1 DEF Cleanup
  <2>3. meta'[i] = TargetMark(i)
    BY <1>2, <2>1, <2>2 DEF Brings, BringsMark, TargetMark
  <2> QED
    BY <1>1, <1>2, <2>1, <2>3 DEF BringsMark
<1>10. CASE CommitPull(s)
  <2>1. /\ pc'[s] \in {"idle", "audit"} /\ meta' = meta
        /\ todo[s] = {} /\ gone[s] = {} /\ at[s] # i
        /\ pc[s] = "commit" \/ (pc[s] = "apply" /\ KindOf[i] # "event")
    BY <1>2, <1>10 DEF CommitPull, Goto, files, BlankAt, Shape, TypeOK
  <2> QED
    BY <2>1 DEF BringsMark, Pulling
<1> QED
  BY <1>3, <1>4, <1>5, <1>6, <1>7, <1>8, <1>9, <1>10 DEF Advances

\* Nothing gets into the history but the files as they are.
LEMMA LogGrows ==
  ASSUME Shape, [Next]_vars
  PROVE  \/ log' = log
         \/ files' = files /\ \E who \in (Requests \X Items) \cup {None} :
              log' = Append(log, Snapshot(who))
<1> DEFINE Grown == \/ log' = log
                    \/ files' = files /\ \E who \in (Requests \X Items) \cup {None} :
                         log' = Append(log, Snapshot(who))
<1>1. ASSUME NEW s \in Tasks, Pull(s) \/ Abort(s) \/ DiskFails(s)
      PROVE  Grown
  <2>1. CASE CommitPull(s)
    <3>1. None \in (Requests \X Items) \cup {None}
      OBVIOUS
    <3> QED
      BY <2>1, <3>1 DEF CommitPull
  <2>2. CASE ~CommitPull(s)
    BY <1>1, <2>2 DEF Pull, Abort, DiskFails, ListCalendars, ListContacts, ListEvents, Take,
       ListScripts, GetScript, Diff, WriteBody, WriteMeta, RemoveBody, RemoveMeta,
       Cleanup, CalendarGone, ScriptGone, PullFails
  <2> QED
    BY <2>1, <2>2
<1>2. ASSUME NEW r \in Requests, Ask(r) \/ Work(r) \/ ApiLost(r)
      PROVE  Grown
  <2>1. CASE Audit(r)
    <3>1. Head(job[r]) \in Op /\ Head(job[r]).item \in Items
      BY <2>1, HeadOp DEF Audit, Working
    <3>2. <<r, Head(job[r]).item>> \in (Requests \X Items) \cup {None}
      BY <3>1
    <3> QED
      BY <2>1, <3>2 DEF Audit, files
  <2>2. CASE ~Audit(r)
    BY <1>2, <2>2 DEF Ask, Write, Apply, Work, SkipNoOp, Api, ApiLost, Refused, Return
  <2> QED
    BY <2>1, <2>2
<1>3. CASE \/ \E k \in Kinds : Tick(k)
           \/ \E n \in DOMAIN log : DryRunBulk(n) \/ \E i \in Items : DryRun(n, i)
           \/ \E W \in SUBSET Calendars : ListTool(W)
           \/ \E i \in Items : OtherChanges(i)
           \/ \E c \in Calendars : CalendarChanges(c)
           \/ Crash
           \/ UNCHANGED vars
  BY <1>3 DEF Tick, DryRunBulk, DryRun, ListTool, OtherChanges, CalendarChanges, Crash, vars
<1> QED
  BY <1>1, <1>2, <1>3 DEF Next

\* What a commit has is the files, or what the one before it had.
LEMMA CommittedSteps ==
  ASSUME Shape, [Next]_vars
  PROVE  \/ log' = log /\ Committed' = Committed
         \/ files' = files /\ Committed' = files
<1>1. CASE log' = log
  BY <1>1 DEF Committed, Nothing
<1>2. ASSUME files' = files, NEW who \in (Requests \X Items) \cup {None},
             log' = Append(log, Snapshot(who))
      PROVE  Committed' = files
  <2>1. Snapshot(who) \in Commit
    BY SnapshotType DEF Shape
  <2>2. log' # <<>> /\ Last(log') = Snapshot(who)
    BY <1>2, <2>1, LastAppended
  <2> QED
    BY <2>2 DEF Committed, Snapshot, files
<1> QED
  BY <1>1, <1>2, LogGrows

LEMMA MarksOn ==
  ASSUME Shape, Tidy, Apart, [Next]_vars, NEW i \in Items, LeftAlone(i), Brought(i)
  PROVE  /\ \A t \in Tasks : Pulls(t, i)' => BringsMark(t, i)'
         /\ meta[i] = TargetMark(i) \/ PullEnds(i) => meta'[i] = TargetMark(i)
         /\ TargetMark(i)' = TargetMark(i)
<1>1. TargetMark(i)' = TargetMark(i)
  BY DEF LeftAlone, TargetMark, Mark
<1>2. CASE Quiet
  <2>1. meta' = meta
    BY <1>2 DEF Quiet, files
  <2>2. ASSUME NEW t \in Tasks, Pulls(t, i)'
        PROVE  BringsMark(t, i)'
    <3>1. CASE Stays(t)
      <4>1. Kind(t)' = Kind(t)
        BY <3>1 DEF Stays, Kind
      <4>2. BringsMark(t, i)
        BY <2>2, <3>1, <4>1 DEF Stays, Pulls, Brought
      <4> QED
        BY <1>1, <2>1, <3>1, <4>2 DEF Stays, SameAt, BringsMark, LeftAlone
    <3>2. CASE Begins(t)
      <4>1. at'[t] = None /\ pc'[t] \in {"list", "calendars"} /\ i # None
        BY <3>2, CollectionsAssumption DEF Begins, SameAt, Tidy, BlankAt, Pulling, FirstStep
      <4> QED
        BY <4>1 DEF BringsMark
    <3> QED
      BY <1>2, <2>2, <3>1, <3>2 DEF Quiet, Rests, Stops, Pulls
  <2>3. ~PullEnds(i)
    BY <1>2 DEF Quiet, Stays, Rests, Begins, Stops, PullEnds, Pulls, LeftAlone, Pulling,
       FirstStep
  <2> QED
    BY <1>1, <2>1, <2>2, <2>3
<1>3. ASSUME NEW s \in Tasks, Advances(s)
      PROVE  /\ \A t \in Tasks : Pulls(t, i)' => BringsMark(t, i)'
             /\ meta[i] = TargetMark(i) \/ PullEnds(i) => meta'[i] = TargetMark(i)
  <2>1. /\ pc[s] \in Pulling /\ job' = job
        /\ \A t \in Tasks \ {s} : Stays(t)
    BY <1>3, AdvancesAlone
  <2>2. \A t \in Tasks : Kind(t)' = Kind(t)
    BY <2>1 DEF Kind
  <2>3. ASSUME NEW t \in Tasks \ {s}, meta'[i] = meta[i], Pulls(t, i)'
        PROVE  BringsMark(t, i)'
    <3>1. Stays(t) /\ BringsMark(t, i)
      BY <2>1, <2>2, <2>3 DEF Stays, Pulls, Brought
    <3> QED
      BY <1>1, <2>3, <3>1 DEF Stays, SameAt, BringsMark, LeftAlone
  <2>4. \A t \in Tasks \ {s} : pc'[t] = pc[t]
    BY <2>1 DEF Stays
  <2>5. CASE Kind(s) # KindOf[i]
    <3>1. meta'[i] = meta[i]
      BY <1>3, <2>5, FilesAside
    <3>2. ~Pulls(s, i)' /\ ~PullEnds(i)
      BY <2>2, <2>4, <2>5 DEF Pulls, PullEnds
    <3> QED
      BY <2>3, <3>1, <3>2
  <2>6. CASE Kind(s) = KindOf[i]
    <3>1. Pulls(s, i) /\ Brings(s, i) /\ BringsMark(s, i)
      BY <2>1, <2>6 DEF Pulls, Brought
    <3>2. /\ pc'[s] \in Pulling => BringsMark(s, i)'
          /\ meta[i] = TargetMark(i) => meta'[i] = TargetMark(i)
          /\ pc'[s] \notin Pulling => meta'[i] = TargetMark(i)
      BY <1>3, <2>6, <3>1, MarkOn
    <3>3. \A t \in Tasks \ {s} : ~Pulls(t, i) /\ ~Pulls(t, i)'
      BY <2>1, <2>2, <2>4, <2>6 DEF Apart, Pulls
    <3>4. pc'[s] \in Pulling <=> Pulls(s, i)'
      BY <2>2, <2>6 DEF Pulls
    <3> QED
      BY <3>2, <3>3, <3>4 DEF PullEnds
  <2> QED
    BY <2>5, <2>6
<1> QED
  BY <1>1, <1>2, <1>3, StepKinds

\* While nothing goes wrong a pull ends with its commit.
LEMMA CommitEnds ==
  ASSUME Shape, [Next]_vars, Calm', NEW t \in Tasks, pc[t] \in Pulling, pc'[t] \notin Pulling
  PROVE  CommitPull(t)
<1>1. ~Quiet
  BY DEF Quiet, Stays, Rests, Begins, Stops
<1>2. PICK s \in Tasks : Advances(s)
  BY <1>1, StepKinds
<1>3. s = t
  BY <1>2, AdvancesAlone DEF Stays
<1>4. Advances(t) /\ ~CommitPull(t) => pc'[t] \in Pulling
  BY DEF Advances, ListCalendars, ListContacts, ListEvents, Take, ListScripts,
     GetScript, Diff, WriteBody, WriteMeta, RemoveBody, RemoveMeta, Cleanup, Goto,
     Pulling, Shape, TypeOK
<1> QED
  BY <1>2, <1>3, <1>4

LEMMA NextBrought ==
  ASSUME Whole, Shape, Traced, Tidy, Careful, [Next]_vars, NEW i \in Items,
         LeftAlone(i), Brought(i)
  PROVE  Brought(i)' /\ (Exact(i) \/ PullEnds(i) => Exact(i)')
<1>1. Calm' /\ Apart /\ Agree
  BY CalmBefore DEF LeftAlone, Careful, Calm, Alone, Never
<1>2. \A t \in Tasks : pc[t] \in Pulling /\ Kind(t) = KindOf[i] => Brings(t, i)
  BY DEF Brought, Pulls
<1>3. /\ \A t \in Tasks : pc'[t] \in Pulling /\ Kind(t)' = KindOf[i] => Brings(t, i)'
      /\ body[i] = Target(i) => body'[i] = Target(i)
      /\ Target(i)' = Target(i)
      /\ \A t \in Tasks : pc[t] \in Pulling /\ Kind(t) = KindOf[i] /\ pc'[t] \notin Pulling
           => body'[i] = Target(i)
  BY <1>1, <1>2, BringsOn DEF LeftAlone
<1>4. /\ \A t \in Tasks : Pulls(t, i)' => BringsMark(t, i)'
      /\ meta[i] = TargetMark(i) \/ PullEnds(i) => meta'[i] = TargetMark(i)
      /\ TargetMark(i)' = TargetMark(i)
  BY <1>1, MarksOn
<1>5. Brought(i)'
  BY <1>3, <1>4 DEF Brought, Pulls
<1>6. ASSUME Exact(i) \/ PullEnds(i)
      PROVE  body'[i] = Target(i)' /\ meta'[i] = TargetMark(i)'
  BY <1>3, <1>4, <1>6 DEF Exact, PullEnds, Pulls
<1>7. CASE files' = files /\ Committed' = files
  <2>1. Committed'[1] = body' /\ Committed'[2] = meta'
    BY <1>7 DEF files
  <2> QED
    BY <1>5, <1>6, <2>1 DEF Exact
<1>8. CASE log' = log /\ Committed' = Committed
  <2>1. CASE Exact(i)
    BY <1>3, <1>4, <1>5, <1>6, <1>8, <2>1 DEF Exact
  <2>2. CASE PullEnds(i)
    <3>1. PICK t \in Tasks : Pulls(t, i) /\ pc'[t] \notin Pulling
      BY <2>2 DEF PullEnds
    <3>2. CommitPull(t)
      BY <1>1, <3>1, CommitEnds DEF Pulls
    <3>3. files' = files /\ (log' = log => files = Committed)
      <4>1. Snapshot(None) \in Commit
        BY SnapshotType DEF Shape
      <4>2. log \in Seq(Commit) /\ Append(log, Snapshot(None)) # log
        BY <4>1, AppendProperties DEF Shape, TypeOK
      <4> QED
        BY <3>2, <4>2 DEF CommitPull
    <3>4. Committed'[1] = body' /\ Committed'[2] = meta'
      BY <1>8, <3>3 DEF files
    <3> QED
      BY <1>5, <1>6, <2>2, <3>4 DEF Exact
  <2> QED
    BY <1>5, <2>1, <2>2
<1> QED
  BY <1>7, <1>8, CommittedSteps

\* An item that is left alone at the server from when no pull of its kind has
\* yet read anything, as long as no pull overlaps or fails and the daemon does
\* not die, is exact at the end of the first pull: body and mark, in the files
\* and in a commit, or no file at all if the server has none.  And it stays so,
\* whatever pulls, tools and restores do to other items.  This is the part of
\* BackupConverges that is about safety, of each item by itself, for every
\* kind of server whose listings are whole.
THEOREM PullsBringWhatRests ==
  ASSUME NEW i \in Items, Whole
  PROVE  Spec => [](Unread(i) /\ [][LeftAlone(i)]_vars
                      => [][Exact(i) \/ PullEnds(i) => Exact(i)']_vars)
<1>1. Tidy /\ Unread(i) => Brought(i)
  BY UnreadIsBrought
<1>2. ASSUME Shape, Traced, Tidy, Careful, [Next]_vars, [LeftAlone(i)]_vars, Brought(i)
      PROVE  Brought(i)' /\ [Exact(i) \/ PullEnds(i) => Exact(i)']_vars
  <2>1. CASE LeftAlone(i)
    BY <1>2, <2>1, NextBrought
  <2>2. CASE UNCHANGED vars
    BY <1>2, <2>2 DEF vars, server, files, pullVars, jobVars, env, Brought, Pulls, Kind,
       Brings, BringsMark, Target, TargetMark, Mark
  <2> QED
    BY <1>2, <2>1, <2>2
<1> QED
  BY <1>1, <1>2, AlwaysCareful, PTL DEF Spec
=============================================================================
