-------------------------- MODULE Scheduling_proofs --------------------------
(* Proofs about the scheduling agent, for any events, edits and upsets. *)
EXTENDS Scheduling, WellFoundedInduction, FiniteSetTheorems, TLAPS

-----------------------------------------------------------------------------
(* Sequence numbers                                                        *)

\* A bounded set of naturals has a largest element: the least of its bounds.
LEMMA LargestIsMax ==
  ASSUME NEW S \in SUBSET Nat, S # {}, NEW B \in Nat, \A n \in S : n <= B
  PROVE  Largest(S) \in S /\ \A n \in S : n <= Largest(S)
<1> DEFINE Above == {m \in Nat : \A n \in S : n <= m}
<1>1. PICK m \in Above : \A k \in Above : ~ (<<k, m>> \in OpToRel(<, Nat))
  <2>1. Above \subseteq Nat /\ Above # {}
    OBVIOUS
  <2> QED
    BY <2>1, NatLessThanWellFounded, WFMin
<1>2. \A k \in Above : ~ (k < m)
  BY <1>1 DEF OpToRel
<1>3. m \in S
  <2>1. SUFFICES ASSUME m \notin S PROVE FALSE
    OBVIOUS
  <2>2. PICK n \in S : TRUE
    OBVIOUS
  <2>3. m - 1 \in Above
    BY <2>1, <2>2
  <2> QED
    BY <1>2, <2>3
<1>4. \A n \in S : n <= m
  OBVIOUS
<1> QED
  BY <1>3, <1>4 DEF Largest

\* Everything sent so far has a bounded SEQUENCE.
Bounded == \E B \in Nat : \A i \in DOMAIN sent : sent[i].seq <= B

\* resolve_sequence yields a number above every one the ledger knows of.
LEMMA ResolvedIsNewer ==
  ASSUME TypeOK, Bounded, NEW o \in OutboundType
  PROVE  /\ ResolveSequence(o) \in Nat
         /\ \A i \in Recorded(o.uid) : sent[i].seq < ResolveSequence(o)
<1> DEFINE S == {sent[i].seq : i \in Recorded(o.uid)}
<1>1. o.seq \in Nat
  BY DEF OutboundType
<1>2. CASE Recorded(o.uid) = {}
  BY <1>1, <1>2 DEF ResolveSequence
<1>3. CASE Recorded(o.uid) # {}
  <2>1. \A i \in Recorded(o.uid) : i \in DOMAIN sent /\ sent[i].seq \in Nat
    <3>1. ASSUME NEW i \in DOMAIN sent PROVE sent[i] \in Message
      BY DEF TypeOK
    <3>2. Recorded(o.uid) \subseteq DOMAIN sent
      BY DEF TypeOK, Recorded
    <3> QED
      BY <3>1, <3>2 DEF Message
  <2>2. S \in SUBSET Nat /\ S # {}
    BY <1>3, <2>1
  <2>3. PICK B \in Nat : \A n \in S : n <= B
    BY <2>1 DEF Bounded
  <2>4. Largest(S) \in S /\ \A n \in S : n <= Largest(S)
    BY <2>2, <2>3, LargestIsMax
  <2>5. ResolveSequence(o) = Larger(o.seq, Largest(S) + 1)
    BY <1>3 DEF ResolveSequence
  <2> DEFINE L == Largest(S)
  <2>6. L \in Nat /\ \A i \in Recorded(o.uid) : sent[i].seq <= L
    BY <2>2, <2>4
  <2> HIDE DEF L
  <2>7. Larger(o.seq, L + 1) \in Nat /\ Larger(o.seq, L + 1) > L
    BY <1>1, <2>6 DEF Larger
  <2>8. ResolveSequence(o) = Larger(o.seq, L + 1)
    BY <2>5 DEF L
  <2> QED
    BY <2>1, <2>6, <2>7, <2>8
<1> QED
  BY <1>2, <1>3

-----------------------------------------------------------------------------
(* Type correctness                                                        *)

LEMMA PlannedType ==
  ASSUME NEW old \in [Files -> Events \cup {None}], NEW new \in [Files -> Events \cup {None}]
  PROVE  ChangeFeed(old, new) \subseteq OutboundType
<1>1. ASSUME NEW f \in Files, NEW e \in Events, NEW m \in {"REQUEST", "CANCEL"},
             NEW to \in SUBSET Attendees
      PROVE  Outbound(f, m, to, e) \in OutboundType
  BY EventType, UidType DEF Outbound, OutboundType, Contents
<1>2. ASSUME NEW f \in Files PROVE Plan(f, old[f], new[f]) \subseteq OutboundType
  <2>1. Requests(f, old[f], new[f]) \subseteq OutboundType
    BY <1>1, EventType DEF Requests
  <2>2. Cancels(f, old[f], new[f]) \subseteq OutboundType
    <3>1. old[f] # None => old[f].att \subseteq Attendees
      BY EventType
    <3> QED
      BY <1>1, <3>1 DEF Cancels
  <2> QED
    BY <2>1, <2>2 DEF Plan
<1> QED
  BY <1>2 DEF ChangeFeed

LEMMA CommitType ==
  ASSUME TypeOK, Commit \/ UNCHANGED <<head, born>>
  PROVE  head' \in [Files -> Events \cup {None}] /\ born' \in {"no", "yes"}
  BY DEF TypeOK, Commit

LEMMA FenceType ==
  ASSUME TypeOK, SetFence \/ UNCHANGED <<watermark, touched>>
  PROVE  watermark' \in {"unset", "set"} /\ touched' \subseteq Files
  BY DEF TypeOK, SetFence

\* A message leaves with the SEQUENCE and the content of its Outbound.
LEMMA LeaveType ==
  ASSUME TypeOK, NEW r \in Attendees, Leave(r)
  PROVE  /\ cur \in OutboundType /\ cur' \in OutboundType
         /\ cur' = [cur EXCEPT !.to = @ \ {r}]
         /\ sent' \in Seq(Message) /\ Len(sent') = Len(sent) + 1
         /\ \A i \in 1 .. Len(sent) : sent'[i] = sent[i]
         /\ sent'[Len(sent) + 1] = [cur EXCEPT !.to = r]
         /\ DOMAIN sent' = 1 .. Len(sent) + 1
<1>1. cur \in OutboundType
  BY DEF TypeOK, Leave, NoOutbound
<1>2. cur' \in OutboundType
  BY <1>1 DEF Leave, OutboundType
<1>3. [cur EXCEPT !.to = r] \in Message
  BY <1>1 DEF OutboundType, Message
<1> QED
  BY <1>1, <1>2, <1>3 DEF TypeOK, Leave

LEMMA TypeInit == Init => TypeOK
<1> SUFFICES ASSUME Init PROVE TypeOK
  OBVIOUS
<1>1. Nothing \in [Files -> Events \cup {None}]
  BY DEF Nothing
<1>2. tree \in [Files -> Events \cup {None}]
  BY <1>1 DEF Init
<1> QED
  BY <1>1, <1>2 DEF Init, TypeOK

\* The message being recorded is the last one, and its attendee is done with.
Recording ==
  pc = "recording" =>
    /\ Len(sent) > 0
    /\ sent[Len(sent)].uid = cur.uid
    /\ sent[Len(sent)].to \notin cur.to

LEMMA TypeStep == TypeOK /\ Bounded /\ Recording /\ [Next]_vars => TypeOK'
<1> SUFFICES ASSUME TypeOK, Bounded, Recording, [Next]_vars PROVE TypeOK'
  OBVIOUS
<1> USE DEF repo, files, fence, pull, batch, mail, env
<1>1. CASE UNCHANGED vars
  BY <1>1 DEF vars, TypeOK
<1>2. ASSUME NEW k \in AllKinds, Count(k) PROVE upsets' \in [AllKinds -> Nat]
  BY <1>2 DEF Count, TypeOK
<1>3. Move => moves' \in Nat
  BY DEF Move, TypeOK
<1>4. ASSUME NEW f \in Files, NEW e \in Events \cup {None}, Edit(f, e) PROVE TypeOK'
  <2>1. upsets' \in [AllKinds -> Nat]
    BY <1>2, <1>4 DEF Edit, AllKinds, TypeOK
  <2> QED
    BY <1>3, <1>4, <2>1 DEF Edit, TypeOK
<1>5. ASSUME NEW c \in Contents, TimePasses(c) PROVE TypeOK'
  BY <1>5 DEF TimePasses, TypeOK
<1>6. CASE OtherCommit
  <2>1. upsets' \in [AllKinds -> Nat] /\ moves' \in Nat
    BY <1>2, <1>3, <1>6 DEF OtherCommit, AllKinds, TypeOK
  <2> QED
    BY <1>6, <2>1, CommitType DEF OtherCommit, TypeOK
<1>7. CASE Start
  BY <1>7, CommitType, FenceType DEF Start, TypeOK
<1>8. CASE StartUnfenced
  <2>1. upsets' \in [AllKinds -> Nat] /\ moves' \in Nat
    BY <1>2, <1>3, <1>8 DEF StartUnfenced, Upset, AllKinds
  <2> QED
    BY <1>8, <2>1 DEF StartUnfenced, TypeOK
<1>9. ASSUME NEW p \in Pulls, PullStart(p) \/ PullCompare(p) \/ PullMark(p) PROVE TypeOK'
  <2>1. CASE PullStart(p)
    <3>1. upsets' \in [AllKinds -> Nat] /\ moves' \in Nat
      BY <1>2, <1>3, <2>1 DEF PullStart, Upset, AllKinds, TypeOK
    <3> QED
      BY <2>1, <3>1 DEF PullStart, TypeOK
  <2>2. CASE PullCompare(p)
    BY <2>2 DEF PullCompare, TypeOK
  <2>3. CASE PullMark(p)
    <3>1. half[p] \in Files
      BY <2>3 DEF PullMark, TypeOK
    <3> QED
      BY <2>3, <3>1 DEF PullMark, TypeOK
  <2> QED
    BY <1>9, <2>1, <2>2, <2>3
<1>10. ASSUME NEW p \in Pulls, NEW f \in Files, PullWrite(p, f) PROVE TypeOK'
  BY <1>10 DEF PullWrite, TypeOK
<1>11. ASSUME NEW p \in Pulls, PullAbort(p) PROVE TypeOK'
  <2>1. upsets' \in [AllKinds -> Nat] /\ moves' \in Nat
    BY <1>2, <1>3, <1>11 DEF PullAbort, Upset, AllKinds
  <2> QED
    BY <1>11, <2>1 DEF PullAbort, Leaves, Nothing, TypeOK
<1>12. CASE Crash
  <2>1. upsets' \in [AllKinds -> Nat] /\ moves' \in Nat
    BY <1>2, <1>3, <1>12 DEF Crash, Upset, AllKinds
  <2> QED
    BY <1>12, <2>1 DEF Crash, Nothing, TypeOK
<1>13. ASSUME NEW p \in Pulls, PullCommit(p) PROVE TypeOK'
  <2>1. head' \in [Files -> Events \cup {None}] /\ born' \in {"no", "yes"}
    BY <1>13, CommitType DEF PullCommit
  <2>2. todo' \subseteq OutboundType
    <3>1. todo' = todo \/ todo' = {} \/ todo' = ChangeFeed(head, tree)
      BY <1>13 DEF PullCommit, RunScheduling
    <3> QED
      BY <3>1, PlannedType DEF TypeOK
  <2>3. watermark' \in {"unset", "set"} /\ touched' \subseteq Files
    <3>1. SetFence \/ UNCHANGED <<watermark, touched>>
      BY <1>13 DEF PullCommit, RunScheduling
    <3> QED
      BY <3>1, FenceType
  <2>4. pc' \in {"down", "idle", "sending", "recording"}
    BY <1>13 DEF PullCommit, RunScheduling, TypeOK
  <2>5. /\ at' \in [Pulls -> {"idle", "listed", "files"}]
        /\ remote' \in [Pulls -> [Files -> Events \cup {None}]]
        /\ pending' \in [Pulls -> SUBSET Files]
        /\ half' \in [Pulls -> Files \cup {None}]
    BY <1>13 DEF PullCommit, Leaves, Nothing, TypeOK
  <2> QED
    BY <1>13, <2>1, <2>2, <2>3, <2>4, <2>5 DEF PullCommit, TypeOK
<1>14. ASSUME NEW o \in todo, Begin(o) PROVE TypeOK'
  <2>1. o \in OutboundType
    BY DEF TypeOK
  <2>2. ResolveSequence(o) \in Nat
    BY <2>1, ResolvedIsNewer
  <2>3. cur' \in OutboundType
    BY <1>14, <2>1, <2>2 DEF Begin, OutboundType
  <2> QED
    BY <1>14, <2>3 DEF Begin, TypeOK
<1>15. ASSUME NEW r \in Attendees, Send(r) \/ SendTimeout(r) PROVE TypeOK'
  <2>1. Leave(r)
    BY <1>15 DEF Send, SendTimeout
  <2>2. cur' \in OutboundType /\ sent' \in Seq(Message) /\ ledger \subseteq DOMAIN sent'
    <3>1. Len(sent) \in Nat /\ ledger \subseteq 1 .. Len(sent)
      BY DEF TypeOK
    <3>2. cur' \in OutboundType /\ sent' \in Seq(Message) /\ DOMAIN sent' = 1 .. Len(sent) + 1
      BY <2>1, LeaveType
    <3>3. 1 .. Len(sent) \subseteq 1 .. Len(sent) + 1
      BY <3>1
    <3> QED
      BY <3>1, <3>2, <3>3
  <2>3. upsets' \in [AllKinds -> Nat] /\ moves' \in Nat
    BY <1>2, <1>3, <1>15 DEF Send, SendTimeout, Upset, AllKinds, TypeOK
  <2>4. /\ UNCHANGED <<server, repo, pull, todo, ledger, past>>
        /\ pc' \in {"sending", "recording"}
    BY <1>15 DEF Send, SendTimeout, Leave
  <2> QED
    BY <2>2, <2>3, <2>4 DEF TypeOK
<1>16. ASSUME NEW r \in Attendees, SendRefused(r) PROVE TypeOK'
  <2>1. upsets' \in [AllKinds -> Nat] /\ moves' \in Nat
    BY <1>2, <1>3, <1>16 DEF SendRefused, Upset, AllKinds
  <2>2. cur \in OutboundType
    BY <1>16 DEF SendRefused, TypeOK, NoOutbound
  <2>3. cur' \in OutboundType
    BY <1>16, <2>2 DEF SendRefused, OutboundType
  <2> QED
    BY <1>16, <2>1, <2>3 DEF SendRefused, TypeOK
<1>17. CASE Record
  <2>1. Len(sent) \in DOMAIN sent
    BY <1>17 DEF Record, Recording, TypeOK
  <2> QED
    BY <1>17, <2>1 DEF Record, TypeOK
<1>18. CASE RecordFails \/ FeedFails
  <2>1. upsets' \in [AllKinds -> Nat] /\ moves' \in Nat
    BY <1>2, <1>3, <1>18 DEF RecordFails, FeedFails, Upset, AllKinds
  <2>2. BatchFails
    BY <1>18 DEF RecordFails, FeedFails
  <2> QED
    BY <2>1, <2>2 DEF BatchFails, TypeOK
<1>19. CASE Finish
  BY <1>19, CommitType DEF Finish, TypeOK
<1> QED
  BY <1>1, <1>4, <1>5, <1>6, <1>7, <1>8, <1>9, <1>10, <1>11, <1>12, <1>13, <1>14, <1>15, <1>16,
     <1>17, <1>18, <1>19
  DEF Next, Daemon, Environment

-----------------------------------------------------------------------------
(* The inductive invariant                                                 *)

\* What is being sent is news to everybody it still goes to: a SEQUENCE above
\* and, for a REQUEST, a content other than what the ledger has for him.
Ahead ==
  \A i \in ledger :
    sent[i].uid = cur.uid /\ sent[i].to \in cur.to =>
      /\ sent[i].seq < cur.seq
      /\ sent[i].method = "REQUEST" /\ cur.method = "REQUEST" => sent[i].content # cur.content

\* What is going on when: a batch runs only under a watermark and without a
\* pull of the daemon, an MCP call pulls only while the daemon is up.
Phases ==
  /\ pc \in {"down", "idle"} => todo = {} /\ cur = NoOutbound
  /\ pc \in {"sending", "recording"} => watermark = "set"
  /\ at["daemon"] # "idle" => pc = "idle"
  /\ pc = "down" => at["mcp"] = "idle"
  /\ upsets["refresh"] = 0 => at["mcp"] = "idle"
  /\ watermark = "unset" => sent = <<>>

IInv ==
  /\ TypeOK /\ Bounded /\ Recording /\ Ahead
  /\ SequenceOrder /\ NoDoubleRequest /\ Phases

Threads == Bounded /\ Recording /\ Ahead /\ SequenceOrder /\ NoDoubleRequest

\* Steps that send nothing and begin nothing leave the threads alone.
LEMMA ThreadsFrame ==
  ASSUME IInv, UNCHANGED mail, cur' = cur \/ cur' = NoOutbound,
         pc' = "recording" => pc = "recording" /\ cur' = cur
  PROVE  Threads'
<1> USE DEF IInv, Threads, mail
<1>1. Bounded' /\ SequenceOrder' /\ NoDoubleRequest'
  BY DEF Bounded, SequenceOrder, NoDoubleRequest, SameThread
<1>2. Recording' /\ Ahead'
  BY DEF Recording, Ahead, NoOutbound
<1> QED
  BY <1>1, <1>2

LEMMA ThreadsBegin ==
  ASSUME IInv, NEW o \in todo, Begin(o)
  PROVE  Threads'
<1> USE DEF IInv, Threads, mail
<1>1. o \in OutboundType
  BY DEF TypeOK
<1>2. /\ UNCHANGED <<sent, ledger>> /\ pc' = "sending"
      /\ cur' = [o EXCEPT !.seq = ResolveSequence(o), !.to = {r \in @ : ~AlreadySent(o, r)}]
  BY DEF Begin
<1>3. /\ cur'.uid = o.uid /\ cur'.seq = ResolveSequence(o) /\ cur'.method = o.method
      /\ cur'.content = o.content /\ cur'.to = {r \in o.to : ~AlreadySent(o, r)}
  BY <1>1, <1>2 DEF OutboundType
<1>4. ASSUME NEW i \in ledger, sent[i].uid = o.uid, sent[i].to \in cur'.to
      PROVE  /\ sent[i].seq < cur'.seq
             /\ sent[i].method = "REQUEST" /\ cur'.method = "REQUEST" =>
                  sent[i].content # cur'.content
  <2>1. i \in Recorded(o.uid)
    BY <1>4 DEF Recorded
  <2>2. sent[i].seq < ResolveSequence(o)
    BY <1>1, <2>1, ResolvedIsNewer
  <2>3. ~AlreadySent(o, sent[i].to)
    BY <1>3, <1>4
  <2> QED
    BY <1>3, <1>4, <2>2, <2>3 DEF AlreadySent
<1>5. Ahead'
  BY <1>2, <1>3, <1>4 DEF Ahead
<1>6. Bounded' /\ SequenceOrder' /\ NoDoubleRequest' /\ Recording'
  BY <1>2 DEF Bounded, SequenceOrder, NoDoubleRequest, SameThread, Recording
<1> QED
  BY <1>5, <1>6

\* A message that leaves is news to its attendee, and the last one.
LEMMA ThreadsLeave ==
  ASSUME IInv, NEW r \in Attendees, Leave(r), UNCHANGED ledger, pc = "sending"
  PROVE  Threads'
<1> USE DEF IInv
<1> DEFINE n == Len(sent) + 1
<1>1. /\ cur \in OutboundType
      /\ cur' = [cur EXCEPT !.to = @ \ {r}]
      /\ \A i \in 1 .. Len(sent) : sent'[i] = sent[i]
      /\ sent'[n] = [cur EXCEPT !.to = r]
      /\ DOMAIN sent' = 1 .. n /\ Len(sent') = n
  BY LeaveType
<1>2. Len(sent) \in Nat /\ DOMAIN sent = 1 .. Len(sent) /\ ledger \subseteq 1 .. Len(sent)
  BY DEF TypeOK
<1>3. /\ cur'.uid = cur.uid /\ cur'.seq = cur.seq /\ cur'.method = cur.method
      /\ cur'.content = cur.content /\ cur'.to = cur.to \ {r}
      /\ sent'[n].uid = cur.uid /\ sent'[n].to = r /\ sent'[n].seq = cur.seq
      /\ sent'[n].method = cur.method /\ sent'[n].content = cur.content
  BY <1>1 DEF OutboundType
<1>4. r \in cur.to /\ cur.seq \in Nat
  BY <1>1 DEF Leave, OutboundType
<1>5. Bounded'
  <2>1. PICK B \in Nat : \A i \in DOMAIN sent : sent[i].seq <= B
    BY DEF Bounded
  <2>2. ASSUME NEW i \in 1 .. Len(sent) PROVE sent'[i].seq \in Nat /\ sent'[i].seq <= B
    <3>1. sent[i] \in Message
      BY <1>2 DEF TypeOK
    <3> QED
      BY <1>1, <1>2, <2>1, <3>1 DEF Message
  <2>3. PICK C \in Nat : B <= C /\ cur.seq <= C
    BY <1>4
  <2>4. ASSUME NEW i \in 1 .. n PROVE sent'[i].seq <= C
    <3>1. CASE i \in 1 .. Len(sent)
      BY <2>2, <2>3, <3>1
    <3>2. CASE i = n
      BY <1>3, <2>3, <3>2
    <3> QED
      BY <1>2, <3>1, <3>2
  <2> QED
    BY <1>1, <2>4 DEF Bounded
<1>6. Recording'
  <2>1. Len(sent') = n /\ n > 0
    BY <1>1, <1>2
  <2>2. sent'[Len(sent')].uid = cur'.uid /\ sent'[Len(sent')].to \notin cur'.to
    BY <1>3, <2>1
  <2> QED
    BY <2>1, <2>2 DEF Recording
<1>7. Ahead'
  BY <1>1, <1>2, <1>3 DEF Ahead
<1>8. ASSUME NEW i \in ledger, NEW j \in 1 .. n, i < j, SameThread(i, j)'
      PROVE  /\ sent'[i].seq < sent'[j].seq
             /\ sent'[i].method = "REQUEST" /\ sent'[j].method = "REQUEST" =>
                  sent'[i].content # sent'[j].content
  <2>1. i \in 1 .. Len(sent) /\ sent'[i] = sent[i]
    BY <1>1, <1>2
  <2>2. CASE j = n
    <3>1. sent[i].uid = cur.uid /\ sent[i].to \in cur.to
      BY <1>3, <1>4, <1>8, <2>1, <2>2 DEF SameThread
    <3> QED
      BY <1>3, <2>1, <2>2, <3>1 DEF Ahead
  <2>3. CASE j \in 1 .. Len(sent)
    <3>1. sent'[j] = sent[j] /\ SameThread(i, j)
      BY <1>1, <1>8, <2>1, <2>3 DEF SameThread
    <3> QED
      BY <1>2, <1>8, <2>1, <2>3, <3>1 DEF SequenceOrder, NoDoubleRequest
  <2> QED
    BY <1>2, <2>2, <2>3
<1>9. SequenceOrder' /\ NoDoubleRequest'
  BY <1>1, <1>8 DEF SequenceOrder, NoDoubleRequest
<1> QED
  BY <1>5, <1>6, <1>7, <1>9 DEF Threads

LEMMA ThreadsRecord ==
  ASSUME IInv, Record
  PROVE  Threads'
<1> USE DEF IInv
<1>1. /\ ledger' = ledger \cup {Len(sent)}
      /\ UNCHANGED <<sent, cur>> /\ pc' = "sending"
  BY DEF Record, batch
<1>2. /\ sent[Len(sent)].to \notin cur.to
      /\ DOMAIN sent = 1 .. Len(sent) /\ Len(sent) \in Nat
  BY DEF Record, Recording, TypeOK
<1>3. Ahead'
  BY <1>1, <1>2 DEF Ahead
<1>4. SequenceOrder' /\ NoDoubleRequest'
  BY <1>1, <1>2 DEF SequenceOrder, NoDoubleRequest, SameThread
<1>5. Bounded' /\ Recording'
  BY <1>1 DEF Bounded, Recording
<1> QED
  BY <1>3, <1>4, <1>5 DEF Threads

LEMMA ThreadsStep == IInv /\ [Next]_vars => Threads'
<1> SUFFICES ASSUME IInv, [Next]_vars PROVE Threads'
  OBVIOUS
<1>1. CASE UNCHANGED vars
  BY <1>1, ThreadsFrame DEF vars, batch
<1>2. CASE \E f \in Files, e \in Events \cup {None} : Edit(f, e)
  BY <1>2, ThreadsFrame DEF Edit, batch
<1>3. ASSUME NEW c \in Contents, TimePasses(c) PROVE Threads'
  BY <1>3, ThreadsFrame DEF TimePasses, batch
<1>4. CASE OtherCommit \/ Start \/ StartUnfenced
  BY <1>4, ThreadsFrame DEF OtherCommit, Start, StartUnfenced, batch
<1>5. ASSUME NEW p \in Pulls,
             \/ PullStart(p) \/ PullCompare(p) \/ PullMark(p) \/ PullAbort(p)
             \/ \E f \in Files : PullWrite(p, f)
      PROVE  Threads'
  BY <1>5, ThreadsFrame DEF PullStart, PullCompare, PullMark, PullAbort, PullWrite, batch
<1>6. ASSUME NEW p \in Pulls, PullCommit(p) PROVE Threads'
  BY <1>6, ThreadsFrame DEF PullCommit, RunScheduling
<1>7. CASE Crash \/ Finish \/ RecordFails \/ FeedFails
  BY <1>7, ThreadsFrame DEF Crash, Finish, RecordFails, FeedFails, BatchFails
<1>8. ASSUME NEW o \in todo, Begin(o) PROVE Threads'
  BY <1>8, ThreadsBegin
<1>9. ASSUME NEW r \in Attendees, Send(r) \/ SendTimeout(r) PROVE Threads'
  BY <1>9, ThreadsLeave DEF Send, SendTimeout, Leave
<1>10. ASSUME NEW r \in Attendees, SendRefused(r) PROVE Threads'
  <2>1. /\ cur' = [cur EXCEPT !.to = @ \ {r}]
        /\ UNCHANGED <<sent, ledger>> /\ pc' = "sending" /\ cur \in OutboundType
    BY <1>10 DEF SendRefused, mail, IInv, TypeOK, NoOutbound
  <2>2. /\ cur'.uid = cur.uid /\ cur'.seq = cur.seq /\ cur'.method = cur.method
        /\ cur'.content = cur.content /\ cur'.to \subseteq cur.to
    BY <2>1 DEF OutboundType
  <2>3. Ahead'
    BY <2>1, <2>2 DEF Ahead, IInv
  <2> QED
    BY <2>1, <2>3 DEF IInv, Threads, Bounded, Recording, SequenceOrder, NoDoubleRequest, SameThread
<1>11. CASE Record
  BY <1>11, ThreadsRecord
<1> QED
  BY <1>1, <1>2, <1>3, <1>4, <1>5, <1>6, <1>7, <1>8, <1>9, <1>10, <1>11
  DEF Next, Daemon, Environment

LEMMA PhasesStep == IInv /\ [Next]_vars => Phases'
<1> SUFFICES ASSUME IInv, [Next]_vars PROVE Phases'
  OBVIOUS
<1> USE DEF IInv, Phases, repo, fence, pull, batch, mail, env
<1>0. at \in [Pulls -> {"idle", "listed", "files"}] /\ Pulls = {"daemon", "mcp"}
  BY DEF TypeOK, Pulls
<1>1. CASE UNCHANGED vars
  BY <1>1 DEF vars
<1>2. ASSUME NEW k \in AllKinds, Count(k)
      PROVE  upsets'["refresh"] = 0 => upsets["refresh"] = 0 /\ k # "refresh"
  BY <1>2 DEF Count, AllKinds, TypeOK
<1>3. CASE \E f \in Files, e \in Events \cup {None} : Edit(f, e)
  BY <1>2, <1>3 DEF Edit, AllKinds
<1>4. CASE (\E c \in Contents : TimePasses(c)) \/ OtherCommit
  BY <1>2, <1>4 DEF TimePasses, OtherCommit, AllKinds
<1>5. CASE Start \/ StartUnfenced
  BY <1>2, <1>5 DEF Start, SetFence, StartUnfenced, Upset, AllKinds, TypeOK
<1>6. ASSUME NEW p \in Pulls, PullStart(p) PROVE Phases'
  BY <1>0, <1>2, <1>6 DEF PullStart, Upset, AllKinds
<1>7. ASSUME NEW p \in Pulls, PullCompare(p) PROVE Phases'
  BY <1>0, <1>7 DEF PullCompare
<1>8. ASSUME NEW p \in Pulls, PullMark(p) \/ \E f \in Files : PullWrite(p, f) PROVE Phases'
  BY <1>8 DEF PullMark, PullWrite
<1>9. ASSUME NEW p \in Pulls, PullAbort(p) PROVE Phases'
  BY <1>0, <1>2, <1>9 DEF PullAbort, Leaves, Upset, AllKinds
<1>10. ASSUME NEW p \in Pulls, PullCommit(p) PROVE Phases'
  <2>1. /\ UNCHANGED <<cur, sent, upsets>> /\ at[p] # "idle"
        /\ at' = [at EXCEPT ![p] = "idle"]
    BY <1>10 DEF PullCommit, Leaves
  <2>2. CASE p = "daemon" /\ tree # head
    <3>1. pc = "idle" /\ todo = {} /\ cur = NoOutbound
      BY <2>1, <2>2
    <3>2. \/ watermark' = "set" /\ todo' = {} /\ pc' = "idle"
          \/ watermark # "unset" /\ UNCHANGED watermark /\ pc' = "sending"
      BY <1>10, <2>2 DEF PullCommit, RunScheduling, SetFence
    <3> QED
      BY <1>0, <2>1, <2>2, <3>1, <3>2 DEF TypeOK
  <2>3. CASE ~ (p = "daemon" /\ tree # head)
    BY <1>0, <1>10, <2>1, <2>3 DEF PullCommit
  <2> QED
    BY <2>2, <2>3
<1>11. ASSUME NEW o \in todo, Begin(o) PROVE Phases'
  BY <1>11 DEF Begin
<1>12. ASSUME NEW r \in Attendees, Send(r) \/ SendTimeout(r) \/ SendRefused(r) PROVE Phases'
  BY <1>2, <1>12 DEF Send, SendTimeout, SendRefused, Leave, Upset, AllKinds
<1>13. CASE Record
  BY <1>13 DEF Record
<1>14. CASE RecordFails \/ FeedFails
  BY <1>2, <1>14 DEF RecordFails, FeedFails, BatchFails, Upset, AllKinds
<1>15. CASE Finish
  BY <1>15 DEF Finish
<1>16. CASE Crash
  BY <1>0, <1>2, <1>16 DEF Crash, Upset, AllKinds
<1> QED
  BY <1>1, <1>3, <1>4, <1>5, <1>6, <1>7, <1>8, <1>9, <1>10, <1>11, <1>12, <1>13, <1>14, <1>15, <1>16
  DEF Next, Daemon, Environment

-----------------------------------------------------------------------------
(* The theorems                                                            *)

LEMMA IInvInit == Init => IInv
<1> SUFFICES ASSUME Init PROVE IInv
  OBVIOUS
<1>1. /\ sent = <<>> /\ ledger = {} /\ pc = "down" /\ todo = {} /\ cur = NoOutbound
      /\ at["daemon"] = "idle" /\ at["mcp"] = "idle"
  BY DEF Init, Pulls
<1> QED
  BY <1>1, TypeInit
  DEF IInv, Bounded, Recording, Ahead, SequenceOrder, NoDoubleRequest, Phases

THEOREM Inductive == Spec => []IInv
<1>1. IInv /\ [Next]_vars => IInv'
  BY TypeStep, ThreadsStep, PhasesStep DEF IInv, Threads
<1> QED
  BY IInvInit, <1>1, PTL DEF Spec

\* The variables keep their types, whatever events there are.
THEOREM TypeCorrect == Spec => []TypeOK
<1>1. IInv => TypeOK
  BY DEF IInv
<1> QED
  BY <1>1, Inductive, PTL

\* Whatever clients, transport and other committers do, and wherever the daemon
\* dies: every message supersedes the recorded ones before it.
THEOREM SequencesRise == Spec => []SequenceOrder
<1>1. IInv => SequenceOrder
  BY DEF IInv
<1> QED
  BY <1>1, Inductive, PTL

\* Nobody is sent a REQUEST the ledger already records for him.
THEOREM NoDoubleSend == Spec => []NoDoubleRequest
<1>1. IInv => NoDoubleRequest
  BY DEF IInv
<1> QED
  BY <1>1, Inductive, PTL

-----------------------------------------------------------------------------
(* The audit trail                                                         *)

\* What left and is not in the ledger.
Unrecorded == DOMAIN sent \ ledger

\* The message being recorded is one of them.
Auditing ==
  /\ IsFiniteSet(Unrecorded) /\ LedgerAudit
  /\ pc = "recording" => Len(sent) \in Unrecorded

LEMMA AuditInit == Init => Auditing
<1> SUFFICES ASSUME Init PROVE Auditing
  OBVIOUS
<1>1. Unrecorded = {}
  BY DEF Init, Unrecorded
<1>2. Cardinality(Unrecorded) = 0 /\ IsFiniteSet(Unrecorded)
  BY <1>1, FS_EmptySet
<1>3. upsets["timeout"] = 0 /\ upsets["crash"] = 0 /\ upsets["unrecorded"] = 0
  BY DEF Init, AllKinds
<1> QED
  BY <1>2, <1>3 DEF Init, Auditing, LedgerAudit, Unrecorded

Excuses == upsets["timeout"] + upsets["crash"] + upsets["unrecorded"]

\* Nothing leaves and nothing is recorded: the excuses do not get fewer.
LEMMA AuditFrame ==
  ASSUME IInv, Auditing, UNCHANGED mail,
         \/ UNCHANGED upsets
         \/ \E k \in AllKinds : Count(k),
         pc = "recording" => pc' = "recording" \/ Count("crash") \/ Count("unrecorded"),
         pc' = "recording" => pc = "recording"
  PROVE  Auditing'
<1>1. Unrecorded' = Unrecorded /\ UNCHANGED <<sent, ledger>>
  BY DEF mail, Unrecorded
<1>2. /\ Excuses \in Nat /\ Excuses' \in Nat /\ Excuses' >= Excuses
      /\ Count("crash") \/ Count("unrecorded") => Excuses' = Excuses + 1
  <2>1. /\ upsets \in [AllKinds -> Nat]
        /\ "timeout" \in AllKinds /\ "crash" \in AllKinds /\ "unrecorded" \in AllKinds
    BY DEF IInv, TypeOK, AllKinds
  <2>2. ASSUME NEW k \in AllKinds, Count(k)
        PROVE  \A j \in AllKinds : upsets'[j] = IF j = k THEN upsets[j] + 1 ELSE upsets[j]
    BY <2>1, <2>2 DEF Count
  <2> QED
    BY <2>1, <2>2 DEF Excuses
<1>3. Cardinality(Unrecorded) \in Nat
  BY FS_CardinalityType DEF Auditing
<1>4. LedgerAudit'
  BY <1>1, <1>2, <1>3 DEF Auditing, LedgerAudit, Unrecorded, Excuses
<1> QED
  BY <1>1, <1>4 DEF Auditing

LEMMA AuditLeave ==
  ASSUME IInv, Auditing, NEW r \in Attendees, Send(r) \/ SendTimeout(r)
  PROVE  Auditing'
<1> DEFINE n == Len(sent) + 1
<1>1. /\ pc = "sending" /\ UNCHANGED ledger /\ DOMAIN sent' = 1 .. n /\ Len(sent') = n
      /\ DOMAIN sent = 1 .. Len(sent) /\ Len(sent) \in Nat /\ ledger \subseteq 1 .. Len(sent)
  BY LeaveType DEF Send, SendTimeout, Leave, IInv, TypeOK
<1>2. Unrecorded' = Unrecorded \cup {n} /\ n \notin Unrecorded
  BY <1>1 DEF Unrecorded
<1>3. /\ IsFiniteSet(Unrecorded') /\ Cardinality(Unrecorded') = Cardinality(Unrecorded) + 1
      /\ Cardinality(Unrecorded) \in Nat
  BY <1>2, FS_AddElement, FS_CardinalityType DEF Auditing
<1>4. Excuses \in Nat
  BY DEF IInv, TypeOK, AllKinds, Excuses
<1>5. \/ pc' = "recording" /\ Excuses' = Excuses
      \/ pc' = "sending" /\ Excuses' = Excuses + 1
  BY <1>1 DEF Send, SendTimeout, Upset, Count, env, IInv, TypeOK, AllKinds, Excuses
<1>6. LedgerAudit'
  BY <1>1, <1>3, <1>4, <1>5 DEF Auditing, LedgerAudit, Unrecorded, Excuses
<1> QED
  BY <1>1, <1>2, <1>3, <1>6 DEF Auditing

LEMMA AuditRecord ==
  ASSUME IInv, Auditing, Record
  PROVE  Auditing'
<1>1. /\ pc = "recording" /\ pc' = "sending" /\ ledger' = ledger \cup {Len(sent)}
      /\ UNCHANGED <<sent, upsets>> /\ Len(sent) \in Unrecorded
  BY DEF Record, env, Auditing
<1>2. Unrecorded' = Unrecorded \ {Len(sent)}
  BY <1>1 DEF Unrecorded
<1>3. /\ IsFiniteSet(Unrecorded') /\ Cardinality(Unrecorded') = Cardinality(Unrecorded) - 1
      /\ Cardinality(Unrecorded) \in Nat
  BY <1>1, <1>2, FS_RemoveElement, FS_CardinalityType DEF Auditing
<1>4. Excuses \in Nat /\ Excuses' = Excuses
  BY <1>1 DEF IInv, TypeOK, AllKinds, Excuses
<1>5. LedgerAudit'
  BY <1>1, <1>3, <1>4 DEF Auditing, LedgerAudit, Unrecorded, Excuses
<1> QED
  BY <1>1, <1>3, <1>5 DEF Auditing

LEMMA AuditStep == IInv /\ Auditing /\ [Next]_vars => Auditing'
<1> SUFFICES ASSUME IInv, Auditing, [Next]_vars PROVE Auditing'
  OBVIOUS
<1>1. ASSUME NEW r \in Attendees, Send(r) \/ SendTimeout(r) PROVE Auditing'
  BY <1>1, AuditLeave
<1>2. CASE Record
  BY <1>2, AuditRecord
<1>3. CASE UNCHANGED vars
  BY <1>3, AuditFrame DEF vars, mail, env
<1>4. CASE \E f \in Files, e \in Events \cup {None} : Edit(f, e)
  BY <1>4, AuditFrame DEF Edit, AllKinds
<1>5. CASE (\E c \in Contents : TimePasses(c)) \/ OtherCommit \/ Start \/ Finish
  BY <1>5, AuditFrame DEF TimePasses, OtherCommit, Start, Finish, AllKinds, env
<1>6. CASE StartUnfenced \/ RecordFails \/ FeedFails \/ Crash
  BY <1>6, AuditFrame DEF StartUnfenced, RecordFails, FeedFails, BatchFails, Crash, Upset, AllKinds
<1>7. ASSUME NEW p \in Pulls,
             \/ PullStart(p) \/ PullCompare(p) \/ PullMark(p) \/ PullAbort(p)
             \/ \E f \in Files : PullWrite(p, f)
      PROVE  Auditing'
  BY <1>7, AuditFrame
  DEF PullStart, PullCompare, PullMark, PullAbort, PullWrite, Upset, AllKinds, env
<1>8. ASSUME NEW p \in Pulls, PullCommit(p) PROVE Auditing'
  <2>1. pc = "recording" <=> pc' = "recording"
    BY <1>8 DEF PullCommit, RunScheduling, IInv, Phases
  <2> QED
    BY <1>8, <2>1, AuditFrame DEF PullCommit, env
<1>9. CASE (\E o \in todo : Begin(o)) \/ (\E r \in Attendees : SendRefused(r))
  BY <1>9, AuditFrame DEF Begin, SendRefused, Upset, AllKinds, env
<1> QED
  BY <1>1, <1>2, <1>3, <1>4, <1>5, <1>6, <1>7, <1>8, <1>9 DEF Next, Daemon, Environment

\* A message that left is in the ledger, but for one each time the daemon died,
\* a send was misreported or the ledger could not be written, and the one being
\* recorded.
THEOREM LedgerIsAudit == Spec => []LedgerAudit
<1>1. Init => IInv /\ Auditing
  BY IInvInit, AuditInit
<1>2. (IInv /\ Auditing) /\ [Next]_vars => (IInv /\ Auditing)'
  BY TypeStep, ThreadsStep, PhasesStep, AuditStep DEF IInv, Threads
<1>3. Auditing => LedgerAudit
  BY DEF Auditing
<1> QED
  BY <1>1, <1>2, <1>3, PTL DEF Spec

-----------------------------------------------------------------------------
(* Who was invited knows                                                   *)

\* What disturbs the plain story has not happened.
Disturbing == {"refused", "unrecorded", "exit", "crash", "sweep", "refresh", "reuse"}
Calm == \A k \in Disturbing : upsets[k] = 0

\* REQUEST i invites its attendee to this version.
Tells(i, v) ==
  /\ v # None /\ sent[i].method = "REQUEST"
  /\ v.content = sent[i].content /\ sent[i].to \in v.att

\* What the server has is on its way to head, and a version somebody was
\* invited to has not been left in between.
NoReturn ==
  \A i \in ledger, f \in Files : sent[i].uid = UidOf[f] =>
    /\ Tells(i, server[f]) => Tells(i, tree[f])
    /\ at["daemon"] # "idle" =>
         /\ Tells(i, server[f]) => Tells(i, remote["daemon"][f])
         /\ Tells(i, remote["daemon"][f]) => Tells(i, tree[f])
    /\ Tells(i, tree[f]) => Tells(i, head[f])

\* A recorded REQUEST for the version in head is still what its attendee has.
StillHeld ==
  \A i \in ledger, f \in Files : sent[i].uid = UidOf[f] /\ Tells(i, head[f]) =>
    InvitedTo(UidOf[f], sent[i].to, head[f])

\* Only a pull that is on, or failed, leaves the tree ahead of head.
Bringing == pc \in {"down", "sending", "recording"} => tree = head

\* An Outbound speaks of the version in head.
Planned(o) ==
  /\ o.uid = UidOf[o.file]
  /\ o.method = "REQUEST" => head[o.file] # None /\ o.content = head[o.file].content
  /\ o.method = "CANCEL" /\ head[o.file] # None => o.to \cap head[o.file].att = {}

Batch ==
  /\ \A o \in todo :
       Planned(o) /\ (o.method = "REQUEST" => o.to = head[o.file].att)
  /\ cur # NoOutbound =>
       /\ Planned(cur)
       /\ cur.method = "REQUEST" =>
            /\ cur.to \subseteq head[cur.file].att
            /\ \A r \in head[cur.file].att : r \in cur.to \/ InvitedTo(cur.uid, r, head[cur.file])
  /\ pc = "recording" =>
       \A f \in Files : sent[Len(sent)].uid = UidOf[f] /\ sent[Len(sent)].method = "REQUEST" =>
         Tells(Len(sent), head[f])

\* Somebody is about to be sent a message about the file.
Due(f, method, r) ==
  \E o \in todo \cup {cur} : o.file = f /\ o.method = method /\ r \in o.to

\* Between batches, and in one but for what is due: who holds an invitation is
\* still invited, to the current version.
HoldersInvited ==
  \A f \in Files : UidOf[f] \in SelfOrganized =>
    \A r \in Attendees : Invited(UidOf[f], r) =>
      \/ Due(f, "CANCEL", r)
      \/ /\ head[f] # None /\ r \in head[f].att
         /\ \/ InvitedTo(UidOf[f], r, head[f])
            \/ head[f].content \in past
            \/ Due(f, "REQUEST", r)

\* And if one attendee of an event to come has heard of it, all have.
AllHeard ==
  \A f \in Files :
    /\ UidOf[f] \in SelfOrganized /\ head[f] # None /\ head[f].content \notin past
    /\ \E r \in head[f].att : Latest(UidOf[f], r) # 0
    => \A r \in head[f].att : InvitedTo(UidOf[f], r, head[f]) \/ Due(f, "REQUEST", r)

FiledUnderUid == \A i \in DOMAIN sent : sent[i].uid = UidOf[sent[i].file]

Informed ==
  /\ FiledUnderUid /\ NoReturn /\ StillHeld /\ Bringing /\ Batch
  /\ HoldersInvited /\ AllHeard

CalmInv == OneFilePerUid /\ Calm => Informed

LEMMA CalmBefore ==
  ASSUME IInv, [Next]_vars, Calm'
  PROVE  Calm
<1> USE DEF repo, pull, batch, mail, env
<1>1. \/ UNCHANGED upsets
      \/ \E k \in AllKinds : Count(k)
  BY DEF Next, Daemon, Environment, vars, Edit, TimePasses, OtherCommit, Start, StartUnfenced,
         PullStart, PullCompare, PullWrite, PullMark, PullAbort, PullCommit, Begin, Send,
         SendTimeout, SendRefused, Record, RecordFails, FeedFails, BatchFails, Finish, Crash,
         Upset, AllKinds
<1>2. ASSUME NEW k \in AllKinds, Count(k) PROVE Calm
  BY <1>2 DEF Calm, Disturbing, Count, AllKinds, IInv, TypeOK
<1> QED
  BY <1>1, <1>2 DEF Calm

\* In calm weather none of these happened, and no MCP call pulls.
LEMMA CalmCount ==
  ASSUME IInv, [Next]_vars, Calm'
  PROVE  /\ \A k \in Disturbing : ~Count(k)
         /\ at["mcp"] = "idle"
<1>1. Calm
  BY CalmBefore
<1>2. \A k \in Disturbing : ~Count(k)
  BY <1>1 DEF Calm, Disturbing, Count, AllKinds, IInv, TypeOK
<1>3. at["mcp"] = "idle"
  BY <1>1 DEF Calm, Disturbing, IInv, Phases
<1> QED
  BY <1>2, <1>3

LEMMA InformedInit == Init => Informed
<1> SUFFICES ASSUME Init PROVE Informed
  OBVIOUS
<1>1. sent = <<>> /\ DOMAIN sent = {} /\ ledger = {} /\ pc = "down" /\ todo = {} /\ cur = NoOutbound
  BY DEF Init
<1>2. \A uid, r : Latest(uid, r) = 0
  BY <1>1 DEF Latest
<1> QED
  BY <1>1, <1>2
  DEF Init, Informed, FiledUnderUid, NoReturn, StillHeld, Bringing, Batch, HoldersInvited, AllHeard,
      Invited

-----------------------------------------------------------------------------
(* What was sent last                                                      *)

Thread(uid, r) == {i \in DOMAIN sent : sent[i].uid = uid /\ sent[i].to = r}

\* Latest is the end of the thread.
LEMMA LatestInThread ==
  ASSUME TypeOK, NEW uid, NEW r
  PROVE  /\ Latest(uid, r) \in 0 .. Len(sent)
         /\ Latest(uid, r) = 0 <=> Thread(uid, r) = {}
         /\ Thread(uid, r) # {} => Latest(uid, r) \in Thread(uid, r)
         /\ \A i \in Thread(uid, r) : i <= Latest(uid, r)
<1>1. Thread(uid, r) \in SUBSET (1 .. Len(sent)) /\ Len(sent) \in Nat
  BY DEF Thread, TypeOK
<1>2. CASE Thread(uid, r) = {}
  BY <1>1, <1>2 DEF Latest, Thread
<1>3. CASE Thread(uid, r) # {}
  <2>1. Latest(uid, r) = Largest(Thread(uid, r))
    BY <1>3 DEF Latest, Thread
  <2>2. Thread(uid, r) \in SUBSET Nat /\ \A i \in Thread(uid, r) : i <= Len(sent)
    BY <1>1
  <2>3. /\ Largest(Thread(uid, r)) \in Thread(uid, r)
        /\ \A i \in Thread(uid, r) : i <= Largest(Thread(uid, r))
    BY <1>1, <1>3, <2>2, LargestIsMax
  <2> QED
    BY <1>1, <1>3, <2>1, <2>3
<1> QED
  BY <1>2, <1>3

\* A message that leaves becomes the latest of its thread and of no other.
LEMMA LatestLeave ==
  ASSUME TypeOK, NEW q \in Attendees, Leave(q)
  PROVE  \A uid, r :
           Latest(uid, r)' = IF uid = cur.uid /\ r = q THEN Len(sent) + 1 ELSE Latest(uid, r)
<1> DEFINE n == Len(sent) + 1
<1>1. /\ cur \in OutboundType /\ sent'[n] = [cur EXCEPT !.to = q]
      /\ \A i \in 1 .. Len(sent) : sent'[i] = sent[i]
      /\ DOMAIN sent' = 1 .. n /\ DOMAIN sent = 1 .. Len(sent) /\ Len(sent) \in Nat
  BY LeaveType DEF TypeOK
<1>2. sent'[n].uid = cur.uid /\ sent'[n].to = q
  BY <1>1 DEF OutboundType
<1>3. ASSUME NEW uid, NEW r, uid = cur.uid /\ r = q PROVE Latest(uid, r)' = n
  <2>0. Thread(uid, r)' = {i \in 1 .. n : sent'[i].uid = uid /\ sent'[i].to = r}
    BY <1>1 DEF Thread
  <2>a. n \in 1 .. n /\ n \in Nat
    BY <1>1
  <2>b. sent'[n].uid = uid /\ sent'[n].to = r
    BY <1>2, <1>3
  <2> HIDE DEF n
  <2>1. n \in Thread(uid, r)' /\ Thread(uid, r)' \in SUBSET (1 .. n) /\ n \in Nat
    BY <2>0, <2>a, <2>b
  <2>2. Latest(uid, r)' = Largest(Thread(uid, r)')
    BY <2>1 DEF Latest, Thread
  <2> DEFINE S == Thread(uid, r)'
  <2>3. S \in SUBSET Nat /\ S # {} /\ \A i \in S : i <= n
    BY <2>1
  <2> HIDE DEF S
  <2>4. Largest(S) \in S /\ \A i \in S : i <= Largest(S)
    BY <2>1, <2>3, LargestIsMax
  <2>5. Largest(S) \in 1 .. n /\ n <= Largest(S)
    BY <2>1, <2>4 DEF S
  <2> QED
    BY <2>1, <2>2, <2>5 DEF S
<1>4. ASSUME NEW uid, NEW r, ~(uid = cur.uid /\ r = q) PROVE Latest(uid, r)' = Latest(uid, r)
  <2>0. Thread(uid, r)' = {i \in 1 .. n : sent'[i].uid = uid /\ sent'[i].to = r}
    BY <1>1 DEF Thread
  <2>1. Thread(uid, r)' = Thread(uid, r)
    <3>1. ASSUME NEW i \in 1 .. n
          PROVE  sent'[i].uid = uid /\ sent'[i].to = r <=> i \in Thread(uid, r)
      <4>1. CASE i = n
        BY <1>1, <1>2, <1>4, <4>1 DEF Thread
      <4>2. CASE i \in 1 .. Len(sent)
        BY <1>1, <4>2 DEF Thread
      <4> QED
        BY <1>1, <4>1, <4>2
    <3>2. Thread(uid, r) \subseteq 1 .. n
      BY <1>1 DEF Thread
    <3> QED
      BY <2>0, <3>1, <3>2
  <2> QED
    BY <2>1 DEF Latest, Thread
<1> QED
  BY <1>3, <1>4

-----------------------------------------------------------------------------
(* The steps                                                               *)

\* An Outbound is put aside only when its recipients are through.
KeepsDue == UNCHANGED cur \/ (cur' = NoOutbound /\ cur.to = {})

\* Steps that touch neither mail nor head nor the batch.
LEMMA InformedFrame ==
  ASSUME IInv, Informed, UNCHANGED <<sent, ledger, head, todo>>, past \subseteq past', KeepsDue,
         pc' = "recording" => pc = "recording"
  PROVE  FiledUnderUid' /\ StillHeld' /\ Batch' /\ HoldersInvited' /\ AllHeard'
<1> USE DEF Informed, KeepsDue
<1>1. \A uid, r : Latest(uid, r)' = Latest(uid, r)
  BY DEF Latest
<1>2. \A f, m, r : Due(f, m, r) => Due(f, m, r)'
  BY DEF Due
<1>3. FiledUnderUid' /\ StillHeld'
  BY <1>1 DEF FiledUnderUid, StillHeld, Tells, InvitedTo, Invited
<1>4. Batch'
  BY <1>1 DEF Batch, Planned, Tells, InvitedTo, Invited
<1>5. HoldersInvited'
  BY <1>1, <1>2 DEF HoldersInvited, InvitedTo, Invited
<1>6. AllHeard'
  BY <1>1, <1>2 DEF AllHeard, InvitedTo, Invited
<1> QED
  BY <1>3, <1>4, <1>5, <1>6

LEMMA InformedQuiet ==
  ASSUME IInv, Informed, Calm', [Next]_vars,
         \/ \E f \in Files, e \in Events \cup {None} : Edit(f, e)
         \/ \E c \in Contents : TimePasses(c)
         \/ OtherCommit \/ Start \/ StartUnfenced \/ Finish
  PROVE  Informed'
<1> USE DEF repo, files, pull, batch, mail, env
<1>0. \A k \in Disturbing : ~Count(k)
  BY CalmCount
<1>1. CASE \E f \in Files, e \in Events \cup {None} : Edit(f, e)
  <2> PICK f \in Files, e \in Events \cup {None} : Edit(f, e)
    BY <1>1
  <2>1. UNCHANGED <<sent, ledger, head, tree, at, remote, todo, cur, past, pc>>
    BY DEF Edit
  <2>2. e # None => ~GoesBack(f, e)
    BY <1>0 DEF Edit, Disturbing
  <2>3. ASSUME NEW i \in ledger, sent[i].uid = UidOf[f], Tells(i, e) PROVE Tells(i, server[f])
    BY <2>2, <2>3 DEF Tells, GoesBack
  <2>4. server' = [server EXCEPT ![f] = e] /\ server \in [Files -> Events \cup {None}]
    BY DEF Edit, IInv, TypeOK
  <2>5. NoReturn'
    BY <2>1, <2>3, <2>4 DEF Informed, NoReturn, Tells
  <2>6. FiledUnderUid' /\ StillHeld' /\ Batch' /\ HoldersInvited' /\ AllHeard'
    BY <2>1, InformedFrame DEF KeepsDue
  <2> QED
    BY <2>1, <2>5, <2>6 DEF Informed, Bringing
<1>2. CASE \E c \in Contents : TimePasses(c)
  <2>1. UNCHANGED <<server, sent, ledger, head, tree, at, remote, todo, cur, pc>>
        /\ past \subseteq past'
    BY <1>2 DEF TimePasses
  <2>2. FiledUnderUid' /\ StillHeld' /\ Batch' /\ HoldersInvited' /\ AllHeard'
    BY <2>1, InformedFrame DEF KeepsDue
  <2> QED
    BY <2>1, <2>2 DEF Informed, NoReturn, Bringing, Tells
<1>3. CASE OtherCommit \/ Start \/ StartUnfenced \/ Finish
  <2>1. tree = head
    BY <1>0, <1>3
    DEF OtherCommit, Disturbing, Start, StartUnfenced, Finish, Informed, Bringing
  <2>2. /\ UNCHANGED <<server, sent, ledger, head, tree, at, remote, todo, past>>
        /\ pc' = pc \/ pc' = "idle"
        /\ KeepsDue
    BY <1>3, <2>1 DEF OtherCommit, Start, StartUnfenced, Finish, Commit, KeepsDue
  <2>3. FiledUnderUid' /\ StillHeld' /\ Batch' /\ HoldersInvited' /\ AllHeard'
    BY <2>2, InformedFrame
  <2> QED
    BY <2>1, <2>2, <2>3 DEF Informed, NoReturn, Bringing, Tells
<1> QED
  BY <1>1, <1>2, <1>3

\* A pull, but for its commit: the daemon's, in calm weather.
LEMMA InformedPull ==
  ASSUME IInv, Informed, Calm', [Next]_vars, NEW p \in Pulls,
         \/ PullStart(p) \/ PullCompare(p) \/ PullMark(p) \/ PullAbort(p)
         \/ \E f \in Files : PullWrite(p, f)
  PROVE  Informed'
<1> USE DEF repo, files, pull, batch, mail, env
<1>0. at \in [Pulls -> {"idle", "listed", "files"}] /\ Pulls = {"daemon", "mcp"}
  BY DEF IInv, TypeOK, Pulls
<1>1. p = "daemon" /\ pc = "idle" /\ pc' = "idle"
  <2>1. p = "daemon"
    BY <1>0, CalmCount
    DEF PullStart, PullCompare, PullMark, PullAbort, PullWrite, Upset, Disturbing
  <2>2. PullStart(p) \/ at[p] # "idle"
    BY DEF PullCompare, PullMark, PullAbort, PullWrite
  <2>3. pc = "idle"
    BY <2>1, <2>2 DEF PullStart, IInv, Phases
  <2> QED
    BY <2>1, <2>3 DEF PullStart, PullCompare, PullMark, PullAbort, PullWrite
<1>2. UNCHANGED <<server, sent, ledger, head, todo, cur, past>>
  BY DEF PullStart, PullCompare, PullMark, PullAbort, PullWrite
<1>3. FiledUnderUid' /\ StillHeld' /\ Batch' /\ HoldersInvited' /\ AllHeard'
  BY <1>1, <1>2, InformedFrame DEF KeepsDue
<1>4. Bringing'
  BY <1>1 DEF Bringing
<1>5. NoReturn'
  <2>1. CASE PullStart(p)
    <3>1. tree' = tree /\ remote'["daemon"] = server
      BY <1>1, <2>1 DEF PullStart, IInv, TypeOK
    <3> QED
      BY <1>2, <3>1 DEF Informed, NoReturn, Tells
  <2>2. CASE PullCompare(p) \/ PullMark(p)
    <3>1. UNCHANGED <<tree, remote>> /\ (at'["daemon"] # "idle" => at["daemon"] # "idle")
      BY <1>1, <2>2 DEF PullCompare, PullMark, IInv, TypeOK
    <3> QED
      BY <1>2, <3>1 DEF Informed, NoReturn, Tells
  <2>3. CASE PullAbort(p)
    <3>1. tree' = tree /\ at'["daemon"] = "idle"
      BY <1>1, <2>3 DEF PullAbort, Leaves, IInv, TypeOK
    <3> QED
      BY <1>2, <3>1 DEF Informed, NoReturn, Tells
  <2>4. ASSUME NEW f \in Files, PullWrite(p, f) PROVE NoReturn'
    <3>1. /\ UNCHANGED <<at, remote>> /\ at["daemon"] # "idle"
          /\ \A g \in Files : tree'[g] = IF g = f THEN remote["daemon"][f] ELSE tree[g]
      BY <1>1, <2>4 DEF PullWrite, IInv, TypeOK
    <3> QED
      BY <1>2, <3>1 DEF Informed, NoReturn, Tells
  <2> QED
    BY <2>1, <2>2, <2>3, <2>4
<1> QED
  BY <1>3, <1>4, <1>5 DEF Informed

\* What a change of a file makes due: a CANCEL to whoever is not invited any
\* more, and a REQUEST to all if somebody is new or something has changed.
LEMMA ChangeMakesDue ==
  ASSUME NEW old \in [Files -> Events \cup {None}], NEW new \in [Files -> Events \cup {None}],
         NEW f \in Files, UidOf[f] \in SelfOrganized, old[f] # new[f]
  PROVE  /\ \A r : old[f] # None /\ r \in old[f].att /\ (new[f] # None => r \notin new[f].att) =>
              \E o \in ChangeFeed(old, new) : o.file = f /\ o.method = "CANCEL" /\ r \in o.to
         /\ \/ new[f] = None \/ new[f].content \in past \/ new[f].att = {}
            \/ /\ old[f] # None /\ old[f].content = new[f].content
               /\ new[f].att \subseteq old[f].att
            \/ \E o \in ChangeFeed(old, new) :
                 o.file = f /\ o.method = "REQUEST" /\ o.to = new[f].att
<1>1. Requests(f, old[f], new[f]) \cup Cancels(f, old[f], new[f]) \subseteq ChangeFeed(old, new)
  BY DEF ChangeFeed, Plan
<1>2. ASSUME NEW r, old[f] # None, r \in old[f].att, new[f] # None => r \notin new[f].att
      PROVE  \E o \in ChangeFeed(old, new) : o.file = f /\ o.method = "CANCEL" /\ r \in o.to
  <2>1. \E o \in Cancels(f, old[f], new[f]) : o.file = f /\ o.method = "CANCEL" /\ r \in o.to
    BY <1>2 DEF Cancels, Outbound
  <2> QED
    BY <1>1, <2>1
<1>3. ASSUME new[f] # None, new[f].content \notin past, new[f].att # {},
             old[f] # None => Significant(old[f], new[f]) \/ new[f].att \ old[f].att # {}
      PROVE  \E o \in ChangeFeed(old, new) : o.file = f /\ o.method = "REQUEST" /\ o.to = new[f].att
  <2>1. \E o \in Requests(f, old[f], new[f]) :
          o.file = f /\ o.method = "REQUEST" /\ o.to = new[f].att
    BY <1>3 DEF Requests, Outbound
  <2> QED
    BY <1>1, <2>1
<1> QED
  BY <1>2, <1>3 DEF Significant

\* Whatever is made due speaks of the new version.
LEMMA FeedIsPlanned ==
  ASSUME NEW old \in [Files -> Events \cup {None}], NEW new \in [Files -> Events \cup {None}],
         NEW o \in ChangeFeed(old, new)
  PROVE  /\ o.file \in Files /\ o.uid = UidOf[o.file] /\ old[o.file] # new[o.file]
         /\ o.method = "REQUEST" =>
              new[o.file] # None /\ o.content = new[o.file].content /\ o.to = new[o.file].att
         /\ o.method = "CANCEL" /\ new[o.file] # None => o.to \cap new[o.file].att = {}
<1>1. PICK f \in Files : /\ o \in Requests(f, old[f], new[f]) \cup Cancels(f, old[f], new[f])
                        /\ old[f] # new[f]
  BY DEF ChangeFeed, Plan
<1>2. CASE o \in Requests(f, old[f], new[f])
  BY <1>1, <1>2 DEF Requests, Outbound
<1>3. CASE o \in Cancels(f, old[f], new[f])
  <2>1. PICK e : o = Outbound(f, "CANCEL", IF new[f] = None THEN old[f].att
                                           ELSE old[f].att \ new[f].att, e)
    BY <1>3 DEF Cancels
  <2> QED
    BY <1>1, <2>1 DEF Outbound
<1> QED
  BY <1>1, <1>2, <1>3

LEMMA InformedCommit ==
  ASSUME IInv, Informed, Calm', [Next]_vars, NEW p \in Pulls, PullCommit(p)
  PROVE  Informed'
<1> USE DEF repo, files, fence, pull, batch, mail, env
<1>0. p = "daemon" /\ pc = "idle" /\ todo = {} /\ cur = NoOutbound /\ at[p] # "idle"
  <2>1. p = "daemon" /\ at[p] # "idle"
    BY CalmCount DEF PullCommit, Pulls
  <2> QED
    BY <2>1 DEF IInv, Phases
<1>1. /\ UNCHANGED <<server, tree, cur, sent, ledger, past>> /\ at'["daemon"] = "idle"
      /\ head' = tree /\ pc' \in {"idle", "sending"}
  BY <1>0 DEF PullCommit, Leaves, Commit, RunScheduling, IInv, TypeOK
<1>3. tree \in [Files -> Events \cup {None}] /\ head \in [Files -> Events \cup {None}]
  BY DEF IInv, TypeOK
<1>4. \A uid, r : Latest(uid, r)' = Latest(uid, r)
  BY <1>1 DEF Latest
<1>5. NoReturn' /\ FiledUnderUid' /\ Bringing'
  BY <1>1 DEF Informed, NoReturn, FiledUnderUid, Bringing, Tells
<1>6. CASE tree = head
  <2>1. UNCHANGED <<todo, head>> /\ pc' = "idle"
    BY <1>0, <1>1, <1>6 DEF PullCommit
  <2>2. StillHeld' /\ Batch' /\ HoldersInvited' /\ AllHeard'
    BY <1>1, <2>1, InformedFrame DEF KeepsDue
  <2> QED
    BY <1>5, <2>2 DEF Informed
<1>7. CASE tree # head /\ watermark = "unset"
  <2>1. todo' = {} /\ pc' = "idle"
    BY <1>0, <1>7 DEF PullCommit, RunScheduling
  <2>3. sent = <<>> /\ ledger = {}
    BY <1>7 DEF IInv, Phases, TypeOK
  <2>4. \A uid, r : Latest(uid, r)' = 0
    BY <1>1, <2>3 DEF Latest
  <2>5. StillHeld' /\ Batch' /\ HoldersInvited' /\ AllHeard'
    BY <1>0, <1>1, <2>1, <2>3, <2>4 DEF StillHeld, Batch, HoldersInvited, AllHeard, Invited
  <2> QED
    BY <1>5, <2>5 DEF Informed
<1>8. CASE tree # head /\ watermark # "unset"
  <2>1. todo' = ChangeFeed(head, tree) /\ pc' = "sending"
    BY <1>0, <1>8 DEF PullCommit, RunScheduling
  <2>3. StillHeld'
    <3>1. ASSUME NEW i \in ledger, NEW f \in Files, sent[i].uid = UidOf[f], Tells(i, tree[f])
          PROVE  InvitedTo(UidOf[f], sent[i].to, head[f]) /\ head[f].content = tree[f].content
      BY <1>1, <3>1 DEF Informed, NoReturn, StillHeld, Tells
    <3> QED
      BY <1>1, <1>4, <3>1 DEF StillHeld, InvitedTo, Invited, Tells
  <2>4. Batch'
    <3>1. \A o \in todo' :
            /\ o.uid = UidOf[o.file]
            /\ o.method = "REQUEST" =>
                 /\ tree[o.file] # None /\ o.content = tree[o.file].content
                 /\ o.to = tree[o.file].att
            /\ o.method = "CANCEL" /\ tree[o.file] # None => o.to \cap tree[o.file].att = {}
      BY <1>3, <2>1, FeedIsPlanned
    <3> QED
      BY <1>0, <1>1, <2>1, <3>1 DEF Batch, Planned
  <2>5. \A f, m, r : (\E o \in ChangeFeed(head, tree) : o.file = f /\ o.method = m /\ r \in o.to) =>
                       Due(f, m, r)'
    BY <2>1 DEF Due
  <2>6. \A f, m, r : ~Due(f, m, r)
    BY <1>0 DEF Due, NoOutbound
  <2>7. ASSUME NEW f \in Files, UidOf[f] \in SelfOrganized, NEW r \in Attendees,
               Invited(UidOf[f], r)
        PROVE  \/ Due(f, "CANCEL", r)'
               \/ /\ tree[f] # None /\ r \in tree[f].att
                  /\ \/ sent[Latest(UidOf[f], r)].content = tree[f].content
                     \/ tree[f].content \in past
                     \/ Due(f, "REQUEST", r)'
    <3>1. /\ head[f] # None /\ r \in head[f].att
          /\ \/ sent[Latest(UidOf[f], r)].content = head[f].content
             \/ head[f].content \in past
      BY <2>6, <2>7 DEF Informed, HoldersInvited, InvitedTo
    <3>2. CASE head[f] = tree[f]
      BY <3>1, <3>2
    <3>3. CASE head[f] # tree[f]
      <4>1. tree[f] # None => r \in tree[f].att \/ Due(f, "CANCEL", r)'
        BY <1>3, <2>5, <2>7, <3>1, <3>3, ChangeMakesDue
      <4>2. tree[f] = None => Due(f, "CANCEL", r)'
        BY <1>3, <2>5, <2>7, <3>1, <3>3, ChangeMakesDue
      <4>3. ASSUME tree[f] # None, r \in tree[f].att
            PROVE  \/ tree[f].content \in past
                   \/ head[f].content = tree[f].content
                   \/ Due(f, "REQUEST", r)'
        BY <1>3, <2>5, <2>7, <3>1, <3>3, <4>3, ChangeMakesDue
      <4> QED
        BY <3>1, <4>1, <4>2, <4>3
    <3> QED
      BY <3>2, <3>3
  <2>8. HoldersInvited'
    BY <1>1, <1>4, <2>7 DEF HoldersInvited, InvitedTo, Invited
  <2>9. ASSUME NEW f \in Files, UidOf[f] \in SelfOrganized, tree[f] # None,
               tree[f].content \notin past, NEW q \in tree[f].att, Latest(UidOf[f], q) # 0,
               NEW r \in tree[f].att
        PROVE  \/ Invited(UidOf[f], r) /\ sent[Latest(UidOf[f], r)].content = tree[f].content
               \/ Due(f, "REQUEST", r)'
    <3>1. CASE Due(f, "REQUEST", r)'
      BY <3>1
    <3>2. CASE ~Due(f, "REQUEST", r)'
      <4>1. /\ head[f] # None /\ head[f].content = tree[f].content
            /\ tree[f].att \subseteq head[f].att
        BY <1>3, <2>5, <2>9, <3>2, ChangeMakesDue
      <4>2. InvitedTo(UidOf[f], r, head[f])
        BY <2>6, <2>9, <4>1 DEF Informed, AllHeard
      <4> QED
        BY <4>1, <4>2 DEF InvitedTo
    <3> QED
      BY <3>1, <3>2
  <2>10. AllHeard'
    BY <1>1, <1>4, <2>9 DEF AllHeard, InvitedTo, Invited
  <2> QED
    BY <1>5, <2>3, <2>4, <2>8, <2>10 DEF Informed
<1> QED
  BY <1>6, <1>7, <1>8

LEMMA InformedBegin ==
  ASSUME IInv, Informed, NEW o \in todo, Begin(o)
  PROVE  Informed'
<1> USE DEF repo, files, pull, mail, env
<1>1. /\ UNCHANGED <<server, tree, at, remote, sent, ledger, past, head, pc>>
      /\ pc = "sending" /\ cur.to = {} /\ todo' = todo \ {o} /\ o \in OutboundType
  BY DEF Begin, IInv, TypeOK
<1>2. /\ cur'.file = o.file /\ cur'.uid = o.uid /\ cur'.method = o.method
      /\ cur'.content = o.content /\ cur'.to = {r \in o.to : ~AlreadySent(o, r)}
  BY <1>1 DEF Begin, OutboundType
<1>3. \A uid, r : Latest(uid, r)' = Latest(uid, r)
  BY <1>1 DEF Latest
<1>4. /\ o.file \in Files /\ o.uid = UidOf[o.file] /\ Planned(o)
      /\ o.method = "REQUEST" => o.to = head[o.file].att
  BY <1>1 DEF Informed, Batch, Planned, OutboundType
<1>5. ASSUME NEW r, AlreadySent(o, r)
      PROVE  o.method = "REQUEST"
  <2>1. CASE o.method # "REQUEST"
    <3>1. PICK i \in ledger : sent[i].uid = o.uid /\ sent[i].seq = ResolveSequence(o)
      BY <1>5, <2>1 DEF AlreadySent
    <3>2. i \in Recorded(o.uid) /\ sent[i].seq \in Nat
      <4>1. i \in DOMAIN sent
        BY DEF IInv, TypeOK
      <4>2. sent[i] \in Message
        BY <4>1 DEF IInv, TypeOK
      <4> QED
        BY <3>1, <4>2 DEF Recorded, Message
    <3>3. sent[i].seq < ResolveSequence(o)
      BY <1>1, <3>2, ResolvedIsNewer DEF IInv
    <3> QED
      BY <3>1, <3>2, <3>3
  <2> QED
    BY <2>1
<1>6. ASSUME NEW r \in o.to, AlreadySent(o, r)
      PROVE  InvitedTo(UidOf[o.file], r, head[o.file])
  <2>1. o.method = "REQUEST"
    BY <1>5, <1>6
  <2>2. PICK i \in ledger : /\ sent[i].uid = o.uid /\ sent[i].to = r
                            /\ sent[i].method = "REQUEST" /\ sent[i].content = o.content
    BY <1>6, <2>1 DEF AlreadySent
  <2>3. Tells(i, head[o.file])
    BY <1>4, <2>1, <2>2 DEF Tells, Planned
  <2> QED
    BY <1>4, <2>2, <2>3 DEF Informed, StillHeld
<1>7. ASSUME NEW f, NEW m, NEW r, Due(f, m, r)
      PROVE  \/ Due(f, m, r)'
             \/ /\ f = o.file /\ m = "REQUEST" /\ r \in head[f].att /\ head[f] # None
                /\ InvitedTo(UidOf[f], r, head[f])
  <2>1. PICK p \in todo : p.file = f /\ p.method = m /\ r \in p.to
    BY <1>1, <1>7 DEF Due
  <2>2. CASE p # o
    BY <1>1, <2>1, <2>2 DEF Due
  <2>3. CASE p = o
    <3>1. CASE AlreadySent(o, r)
      BY <1>4, <1>5, <1>6, <2>1, <2>3, <3>1 DEF Planned
    <3>2. CASE ~AlreadySent(o, r)
      BY <1>2, <2>1, <2>3, <3>2 DEF Due
    <3> QED
      BY <3>1, <3>2
  <2> QED
    BY <2>2, <2>3
<1>8. FiledUnderUid' /\ NoReturn' /\ StillHeld' /\ Bringing'
  BY <1>1, <1>3
  DEF Informed, FiledUnderUid, NoReturn, StillHeld, Bringing, Tells, InvitedTo, Invited
<1>9. Batch'
  <2>1. \A p \in todo' : Planned(p)' /\ (p.method = "REQUEST" => p.to = head'[p.file].att)
    BY <1>1 DEF Informed, Batch, Planned
  <2>2. Planned(cur)'
    BY <1>1, <1>2, <1>4 DEF Planned
  <2>3. ASSUME o.method = "REQUEST"
        PROVE  /\ cur'.to \subseteq head[o.file].att
               /\ \A r \in head[o.file].att :
                    \/ r \in cur'.to
                    \/ /\ Invited(o.uid, r)
                       /\ sent[Latest(o.uid, r)].content = head[o.file].content
    BY <1>2, <1>4, <1>6, <2>3 DEF InvitedTo
  <2> QED
    BY <1>1, <1>2, <1>3, <2>1, <2>2, <2>3 DEF Batch, InvitedTo, Invited
<1>10. HoldersInvited'
  BY <1>1, <1>3, <1>7 DEF Informed, HoldersInvited, InvitedTo, Invited
<1>11. AllHeard'
  BY <1>1, <1>3, <1>7 DEF Informed, AllHeard, InvitedTo, Invited
<1> QED
  BY <1>8, <1>9, <1>10, <1>11 DEF Informed

\* The message that leaves tells its attendee of the version in head, or that he
\* is not in it.
LEMMA InformedLeave ==
  ASSUME IInv, Informed, OneFilePerUid, NEW q \in Attendees, Send(q) \/ SendTimeout(q)
  PROVE  Informed'
<1> USE DEF repo, files, pull, env
<1> PICK n \in Nat : n = Len(sent) + 1
  BY DEF IInv, TypeOK
<1>1. /\ UNCHANGED <<server, tree, at, remote, ledger, past, head, todo>>
      /\ pc = "sending" /\ pc' \in {"sending", "recording"} /\ Leave(q) /\ q \in cur.to
  BY DEF Send, SendTimeout, Leave
<1>2. /\ cur \in OutboundType /\ sent'[n] = [cur EXCEPT !.to = q] /\ cur' = [cur EXCEPT !.to = @ \ {q}]
      /\ \A i \in 1 .. Len(sent) : sent'[i] = sent[i]
      /\ DOMAIN sent' = 1 .. n /\ DOMAIN sent = 1 .. Len(sent) /\ Len(sent) \in Nat /\ Len(sent') = n
      /\ ledger \subseteq 1 .. Len(sent)
  BY <1>1, LeaveType DEF IInv, TypeOK
<1>3. /\ sent'[n].file = cur.file /\ sent'[n].uid = cur.uid /\ sent'[n].method = cur.method
      /\ sent'[n].content = cur.content /\ sent'[n].to = q
      /\ cur'.file = cur.file /\ cur'.uid = cur.uid /\ cur'.method = cur.method
      /\ cur'.content = cur.content /\ cur'.to = cur.to \ {q}
      /\ cur.method \in {"REQUEST", "CANCEL"} /\ cur.file \in Files
  BY <1>2 DEF OutboundType
<1>4. PICK f0 \in Files : f0 = cur.file /\ cur.uid = UidOf[f0]
  BY <1>1, <1>3 DEF Informed, Batch, Planned, NoOutbound
<1>5. /\ cur.method = "REQUEST" =>
           /\ head[f0] # None /\ cur.content = head[f0].content /\ cur.to \subseteq head[f0].att
           /\ \A r \in head[f0].att : r \in cur.to \/ InvitedTo(UidOf[f0], r, head[f0])
      /\ cur.method = "CANCEL" /\ head[f0] # None => cur.to \cap head[f0].att = {}
  BY <1>1, <1>4 DEF Informed, Batch, Planned, NoOutbound
<1>6. \A f \in Files : UidOf[f] = cur.uid <=> f = f0
  BY <1>4 DEF OneFilePerUid
<1>7. \A uid, r : /\ Latest(uid, r) \in 0 .. Len(sent)
                  /\ Latest(uid, r)' = IF uid = cur.uid /\ r = q THEN n ELSE Latest(uid, r)
  BY <1>1, LatestLeave, LatestInThread DEF IInv
<1>8. ASSUME NEW f \in Files, NEW r, ~(f = f0 /\ r = q)
      PROVE  /\ Latest(UidOf[f], r)' = Latest(UidOf[f], r)
             /\ Latest(UidOf[f], r) # 0 =>
                  sent'[Latest(UidOf[f], r)] = sent[Latest(UidOf[f], r)]
  BY <1>2, <1>6, <1>7, <1>8
<1>9. Latest(UidOf[f0], q)' = n /\ n # 0
  BY <1>2, <1>4, <1>7
<1>10. FiledUnderUid'
  <2>1. ASSUME NEW i \in 1 .. n PROVE sent'[i].uid = UidOf[sent'[i].file]
    <3>1. CASE i = n
      BY <1>3, <1>4, <3>1
    <3>2. CASE i \in 1 .. Len(sent)
      BY <1>2, <3>2 DEF Informed, FiledUnderUid
    <3> QED
      BY <1>2, <3>1, <3>2
  <2> QED
    BY <1>2, <2>1 DEF FiledUnderUid
<1>11. NoReturn' /\ Bringing'
  <2>1. NoReturn'
    BY <1>1, <1>2 DEF Informed, NoReturn, Tells
  <2> QED
    BY <1>1, <2>1 DEF Informed, Bringing
<1>12. StillHeld'
  <2>1. ASSUME NEW i \in ledger, NEW f \in Files, NEW r, sent[i].to = r, sent[i].uid = UidOf[f],
               Tells(i, head[f])
        PROVE  /\ Latest(UidOf[f], r)' # 0
               /\ sent'[Latest(UidOf[f], r)'].method = "REQUEST"
               /\ sent'[Latest(UidOf[f], r)'].content = head[f].content
    <3>2. InvitedTo(UidOf[f], r, head[f])
      BY <2>1 DEF Informed, StillHeld
    <3>3. CASE f = f0 /\ r = q
      BY <1>1, <1>3, <1>5, <1>9, <2>1, <3>3 DEF Tells
    <3>4. CASE ~(f = f0 /\ r = q)
      BY <1>8, <3>2, <3>4 DEF InvitedTo, Invited
    <3> QED
      BY <3>3, <3>4
  <2> QED
    BY <1>1, <1>2, <2>1 DEF StillHeld, Tells, InvitedTo, Invited
<1>13. Batch'
  <2>1. \A p \in todo' : Planned(p)' /\ (p.method = "REQUEST" => p.to = head'[p.file].att)
    BY <1>1 DEF Informed, Batch, Planned
  <2>2. Planned(cur)'
    BY <1>1, <1>3, <1>4, <1>5 DEF Planned
  <2>3. ASSUME cur.method = "REQUEST", NEW r \in head[f0].att, r \notin cur'.to
        PROVE  /\ Latest(UidOf[f0], r)' # 0
               /\ sent'[Latest(UidOf[f0], r)'].method = "REQUEST"
               /\ sent'[Latest(UidOf[f0], r)'].content = head[f0].content
    <3>1. CASE r = q
      BY <1>3, <1>5, <1>9, <2>3, <3>1
    <3>2. CASE r # q
      <4>1. InvitedTo(UidOf[f0], r, head[f0])
        BY <1>3, <1>5, <2>3, <3>2
      <4> QED
        BY <1>8, <3>2, <4>1 DEF InvitedTo, Invited
    <3> QED
      BY <3>1, <3>2
  <2>4. cur'.method = "REQUEST" =>
          /\ cur'.to \subseteq head'[cur'.file].att
          /\ \A r \in head'[cur'.file].att : r \in cur'.to \/ InvitedTo(cur.uid, r, head[cur.file])'
    BY <1>1, <1>3, <1>4, <1>5, <2>3 DEF InvitedTo, Invited
  <2>5. \A f \in Files : sent'[n].uid = UidOf[f] /\ sent'[n].method = "REQUEST" =>
          Tells(n, head[f])'
    BY <1>1, <1>2, <1>3, <1>5, <1>6 DEF Tells
  <2> QED
    BY <1>2, <2>1, <2>2, <2>4, <2>5 DEF Batch
<1>14. ASSUME NEW f, NEW m, NEW r, Due(f, m, r), ~(f = f0 /\ r = q)
       PROVE  Due(f, m, r)'
  BY <1>1, <1>3, <1>4, <1>14 DEF Due
<1>15. HoldersInvited'
  <2>1. ASSUME NEW f \in Files, UidOf[f] \in SelfOrganized, NEW r \in Attendees, Invited(UidOf[f], r)'
        PROVE  \/ Due(f, "CANCEL", r)'
               \/ /\ head[f] # None /\ r \in head[f].att
                  /\ \/ sent'[Latest(UidOf[f], r)'].content = head[f].content
                     \/ head[f].content \in past
                     \/ Due(f, "REQUEST", r)'
    <3>1. CASE f = f0 /\ r = q
      BY <1>1, <1>3, <1>5, <1>9, <2>1, <3>1 DEF Invited
    <3>2. CASE ~(f = f0 /\ r = q)
      <4>1. Invited(UidOf[f], r)
        BY <1>8, <2>1, <3>2 DEF Invited
      <4> QED
        BY <1>8, <1>14, <2>1, <3>2, <4>1 DEF Informed, HoldersInvited, InvitedTo, Invited
    <3> QED
      BY <3>1, <3>2
  <2> QED
    BY <1>1, <2>1 DEF HoldersInvited, InvitedTo
<1>16. AllHeard'
  <2>1. ASSUME NEW f \in Files, UidOf[f] \in SelfOrganized, head[f] # None,
               head[f].content \notin past, NEW p \in head[f].att, Latest(UidOf[f], p)' # 0,
               NEW r \in head[f].att
        PROVE  \/ /\ Latest(UidOf[f], r)' # 0
                  /\ sent'[Latest(UidOf[f], r)'].method = "REQUEST"
                  /\ sent'[Latest(UidOf[f], r)'].content = head[f].content
               \/ Due(f, "REQUEST", r)'
    <3>1. CASE f = f0 /\ cur.method = "REQUEST"
      <4>1. \/ r \in cur'.to
            \/ InvitedTo(UidOf[f], r, head[f])
            \/ r = q
        BY <1>3, <1>5, <3>1
      <4>2. CASE r \in cur'.to
        BY <1>3, <1>4, <3>1, <4>2 DEF Due
      <4>3. CASE r = q
        BY <1>3, <1>5, <1>9, <3>1, <4>3
      <4>4. CASE r # q /\ InvitedTo(UidOf[f], r, head[f])
        BY <1>8, <4>4 DEF InvitedTo, Invited
      <4> QED
        BY <4>1, <4>2, <4>3, <4>4
    <3>2. CASE ~(f = f0 /\ cur.method = "REQUEST")
      <4>1. ~(f = f0 /\ p = q) /\ ~(f = f0 /\ r = q)
        BY <1>1, <1>3, <1>5, <2>1, <3>2
      <4>2. Latest(UidOf[f], p) # 0
        BY <1>8, <2>1, <4>1
      <4>3. InvitedTo(UidOf[f], r, head[f]) \/ Due(f, "REQUEST", r)
        BY <2>1, <4>2 DEF Informed, AllHeard
      <4> QED
        BY <1>8, <1>14, <4>1, <4>3 DEF InvitedTo, Invited
    <3> QED
      BY <3>1, <3>2
  <2> QED
    BY <1>1, <2>1 DEF AllHeard, InvitedTo, Invited
<1> QED
  BY <1>10, <1>11, <1>12, <1>13, <1>15, <1>16 DEF Informed

LEMMA InformedRecord ==
  ASSUME IInv, Informed, Record
  PROVE  Informed'
<1> USE DEF repo, files, pull, batch, env
<1> PICK n \in Nat : n = Len(sent)
  BY DEF IInv, TypeOK
<1>1. /\ UNCHANGED <<server, tree, at, remote, sent, past, head, todo, cur>>
      /\ pc = "recording" /\ pc' = "sending" /\ ledger' = ledger \cup {n}
  BY DEF Record
<1>2. \A uid, r : Latest(uid, r)' = Latest(uid, r)
  BY <1>1 DEF Latest
<1>3. \A f \in Files : sent[n].uid = UidOf[f] /\ sent[n].method = "REQUEST" => Tells(n, head[f])
  BY <1>1 DEF Informed, Batch
<1>4. ASSUME NEW f \in Files, sent[n].uid = UidOf[f], Tells(n, head[f])
      PROVE  InvitedTo(UidOf[f], sent[n].to, head[f])
  <2>1. n \in DOMAIN sent /\ DOMAIN sent = 1 .. n
    BY <1>1 DEF IInv, TypeOK, Recording
  <2>2. n \in Thread(UidOf[f], sent[n].to)
    BY <1>4, <2>1 DEF Thread
  <2>3. Latest(UidOf[f], sent[n].to) \in 0 .. n /\ n <= Latest(UidOf[f], sent[n].to)
    BY <2>2, LatestInThread DEF IInv
  <2>4. Latest(UidOf[f], sent[n].to) = n /\ n # 0
    BY <2>1, <2>3
  <2> QED
    BY <1>4, <2>4 DEF InvitedTo, Invited, Tells
<1>5. NoReturn'
  <2>1. tree = head /\ at["daemon"] = "idle"
    BY <1>1 DEF Informed, Bringing, IInv, Phases
  <2>2. \A f \in Files : sent[n].uid = UidOf[f] /\ Tells(n, server[f]) => Tells(n, tree[f])
    BY <1>3, <2>1 DEF Tells
  <2> QED
    BY <1>1, <2>1, <2>2 DEF Informed, NoReturn, Tells
<1>6. StillHeld'
  BY <1>1, <1>2, <1>4 DEF Informed, StillHeld, Tells, InvitedTo, Invited
<1>7. Batch'
  BY <1>1, <1>2 DEF Informed, Batch, Planned, InvitedTo, Invited
<1>8. \A f, m, r : Due(f, m, r) <=> Due(f, m, r)'
  BY <1>1 DEF Due
<1>9. HoldersInvited'
  BY <1>1, <1>2, <1>8 DEF Informed, HoldersInvited, InvitedTo, Invited
<1>10. AllHeard'
  BY <1>1, <1>2, <1>8 DEF Informed, AllHeard, InvitedTo, Invited
<1>11. FiledUnderUid' /\ Bringing'
  BY <1>1 DEF Informed, FiledUnderUid, Bringing
<1> QED
  BY <1>5, <1>6, <1>7, <1>9, <1>10, <1>11 DEF Informed

LEMMA InformedStep ==
  ASSUME IInv, Informed, OneFilePerUid, Calm', [Next]_vars
  PROVE  Informed'
<1> USE DEF repo, files, pull, batch, mail, env
<1>1. CASE UNCHANGED vars
  <2>1. FiledUnderUid' /\ StillHeld' /\ Batch' /\ HoldersInvited' /\ AllHeard'
    BY <1>1, InformedFrame DEF vars, KeepsDue
  <2> QED
    BY <1>1, <2>1 DEF vars, Informed, NoReturn, Bringing, Tells
<1>2. CASE \/ \E f \in Files, e \in Events \cup {None} : Edit(f, e)
           \/ \E c \in Contents : TimePasses(c)
           \/ OtherCommit \/ Start \/ StartUnfenced \/ Finish
  BY <1>2, InformedQuiet
<1>3. ASSUME NEW p \in Pulls,
             \/ PullStart(p) \/ PullCompare(p) \/ PullMark(p) \/ PullAbort(p)
             \/ \E f \in Files : PullWrite(p, f)
      PROVE  Informed'
  BY <1>3, InformedPull
<1>4. ASSUME NEW p \in Pulls, PullCommit(p) PROVE Informed'
  BY <1>4, InformedCommit
<1>5. CASE \E o \in todo : Begin(o)
  BY <1>5, InformedBegin
<1>6. CASE \E r \in Attendees : Send(r) \/ SendTimeout(r)
  BY <1>6, InformedLeave
<1>7. CASE Record
  BY <1>7, InformedRecord
<1>8. CASE RecordFails \/ FeedFails \/ Crash \/ \E r \in Attendees : SendRefused(r)
  BY <1>8, CalmCount DEF RecordFails, FeedFails, Crash, SendRefused, Upset, Disturbing
<1> QED
  BY <1>1, <1>2, <1>3, <1>4, <1>5, <1>6, <1>7, <1>8 DEF Next, Daemon, Environment

\* Between batches nothing is due, so those who hold an invitation and those who
\* heard of an event are as they should be.
LEMMA InformedSuffices ==
  ASSUME IInv, Informed
  PROVE  InviteesInformed
<1> SUFFICES ASSUME pc = "idle", NEW uid \in SelfOrganized
             PROVE  /\ \A r \in Attendees : Invited(uid, r) =>
                         \E e \in Live(uid) :
                           r \in e.att /\ (InvitedTo(uid, r, e) \/ e.content \in past)
                    /\ \A e \in Live(uid) :
                         e.content \notin past /\ (\E r \in e.att : Latest(uid, r) # 0) =>
                           \A r \in e.att : InvitedTo(uid, r, e)
  BY DEF InviteesInformed
<1>1. \A f, m, r : ~Due(f, m, r)
  BY DEF IInv, Phases, Due, NoOutbound
<1>2. ASSUME NEW r \in Attendees, Invited(uid, r)
      PROVE  \E e \in Live(uid) : r \in e.att /\ (InvitedTo(uid, r, e) \/ e.content \in past)
  <2>1. Latest(uid, r) \in Thread(uid, r)
    BY <1>2, LatestInThread DEF Invited, IInv
  <2>2. PICK i \in DOMAIN sent : sent[i].uid = uid
    BY <2>1 DEF Thread
  <2>3. PICK f \in Files : UidOf[f] = uid
    <3>1. sent[i] \in Message
      BY DEF IInv, TypeOK
    <3> QED
      BY <2>2, <3>1 DEF Informed, FiledUnderUid, Message
  <2>4. /\ head[f] # None /\ r \in head[f].att
        /\ InvitedTo(uid, r, head[f]) \/ head[f].content \in past
    BY <1>1, <1>2, <2>3 DEF Informed, HoldersInvited
  <2>5. head[f] \in Live(uid)
    BY <2>3, <2>4 DEF Live
  <2> QED
    BY <2>4, <2>5
<1>3. ASSUME NEW e \in Live(uid), e.content \notin past, NEW q \in e.att, Latest(uid, q) # 0,
             NEW r \in e.att
      PROVE  InvitedTo(uid, r, e)
  <2>1. PICK f \in Files : UidOf[f] = uid /\ head[f] = e /\ e # None
    BY DEF Live
  <2> QED
    BY <1>1, <1>3, <2>1 DEF Informed, AllHeard
<1> QED
  BY <1>2, <1>3

\* In calm weather the invitations that people hold agree with the backup
\* between batches, for any number of events, versions, attendees and edits,
\* with lost answers and failed pulls at any point.
THEOREM InvitationsAgree == Spec => []InviteesInformedWhenCalm
<1>1. Init => IInv /\ CalmInv
  BY IInvInit, InformedInit DEF CalmInv
<1>2. (IInv /\ CalmInv) /\ [Next]_vars => (IInv /\ CalmInv)'
  <2> SUFFICES ASSUME IInv, CalmInv, [Next]_vars PROVE IInv' /\ CalmInv'
    OBVIOUS
  <2>1. IInv'
    BY TypeStep, ThreadsStep, PhasesStep DEF IInv, Threads
  <2>2. ASSUME OneFilePerUid, Calm' PROVE Informed'
    BY <2>2, CalmBefore, InformedStep DEF CalmInv
  <2>3. OneFilePerUid' => OneFilePerUid
    BY DEF OneFilePerUid
  <2> QED
    BY <2>1, <2>2, <2>3 DEF CalmInv
<1>3. IInv /\ CalmInv => InviteesInformedWhenCalm
  BY InformedSuffices DEF CalmInv, Calm, Disturbing, InviteesInformedWhenCalm
<1> QED
  BY <1>1, <1>2, <1>3, PTL DEF Spec

-----------------------------------------------------------------------------
(* What the activation fenced off                                          *)

\* An event that is older than the activation and untouched since is the same
\* wherever it is kept, and nothing speaks of it.
Quiet ==
  upsets["refresh"] = 0 /\ watermark = "set" =>
    /\ \A f \in Files \ touched :
         /\ tree[f] = server[f] /\ head[f] = server[f]
         /\ at["daemon"] # "idle" => remote["daemon"][f] = server[f]
    /\ \A o \in todo : o.file \in touched
    /\ cur # NoOutbound => cur.file \in touched
    /\ \A i \in DOMAIN sent : sent[i].file \in touched

\* The fence is set between batches and after the daemon's pull, if at all, and
\* on a HEAD that is the working tree.
LEMMA QuietFence ==
  ASSUME IInv, SetFence, head' = tree, at'["daemon"] = "idle", todo' = {}, cur' = NoOutbound,
         UNCHANGED <<server, tree, sent>>, watermark = "unset"
  PROVE  Quiet'
<1>1. sent = <<>> /\ DOMAIN sent' = {}
  BY DEF IInv, Phases
<1>2. \A f \in Files \ touched' : tree[f] = server[f]
  BY DEF SetFence
<1> QED
  BY <1>1, <1>2 DEF Quiet

LEMMA QuietLeave ==
  ASSUME IInv, Quiet, NEW r \in Attendees, Send(r) \/ SendTimeout(r)
  PROVE  Quiet'
<1> USE DEF IInv, repo, files, fence, pull, mail, env
<1>1. /\ Leave(r) /\ UNCHANGED <<server, tree, head, at, remote, watermark, touched, todo>>
      /\ upsets'["refresh"] = upsets["refresh"] /\ cur # NoOutbound
  BY DEF Send, SendTimeout, Leave, Upset, Count, AllKinds, TypeOK, NoOutbound
<1>2. /\ cur \in OutboundType /\ cur' = [cur EXCEPT !.to = @ \ {r}]
      /\ \A i \in 1 .. Len(sent) : sent'[i] = sent[i]
      /\ sent'[Len(sent) + 1] = [cur EXCEPT !.to = r]
      /\ DOMAIN sent' = 1 .. Len(sent) + 1
  BY <1>1, LeaveType
<1>3. cur'.file = cur.file /\ sent'[Len(sent) + 1].file = cur.file
  BY <1>2 DEF OutboundType
<1>4. Len(sent) \in Nat /\ DOMAIN sent = 1 .. Len(sent)
  BY DEF TypeOK
<1>5. ASSUME cur.file \in touched, \A i \in DOMAIN sent : sent[i].file \in touched,
             NEW i \in 1 .. Len(sent) + 1
      PROVE  sent'[i].file \in touched
  <2>1. CASE i = Len(sent) + 1
    BY <1>3, <1>5, <2>1
  <2>2. CASE i \in 1 .. Len(sent)
    BY <1>2, <1>4, <1>5, <2>2
  <2> QED
    BY <1>4, <2>1, <2>2
<1> QED
  BY <1>1, <1>2, <1>3, <1>5 DEF Quiet

LEMMA QuietPull ==
  ASSUME IInv, Quiet, [Next]_vars, NEW p \in Pulls,
         \/ PullStart(p) \/ PullCompare(p) \/ PullMark(p) \/ PullAbort(p) \/ PullCommit(p)
         \/ \E f \in Files : PullWrite(p, f)
  PROVE  Quiet'
<1> USE DEF IInv, repo, files, fence, pull, batch, mail, env
<1>0. at \in [Pulls -> {"idle", "listed", "files"}] /\ Pulls = {"daemon", "mcp"}
  BY DEF TypeOK, Pulls
<1>1. UNCHANGED <<server, cur, sent>>
  BY DEF PullStart, PullCompare, PullMark, PullAbort, PullCommit, PullWrite
<1>2. \/ UNCHANGED upsets
      \/ Count("abort")
      \/ p = "mcp" /\ Count("refresh")
  BY DEF PullStart, PullCompare, PullMark, PullAbort, PullCommit, PullWrite, Upset
<1>3. SUFFICES ASSUME upsets'["refresh"] = 0 PROVE Quiet'
  BY DEF Quiet
<1>4. upsets["refresh"] = 0 /\ ~Count("refresh")
  BY <1>2, <1>3 DEF Count, AllKinds, TypeOK
<1>5. p = "daemon"
  BY <1>0, <1>4
  DEF Phases, PullStart, PullCompare, PullMark, PullAbort, PullCommit, PullWrite, Upset
<1>6. CASE PullStart(p)
  BY <1>1, <1>4, <1>5, <1>6 DEF PullStart, Quiet, TypeOK
<1>7. CASE PullCompare(p) \/ PullMark(p)
  <2>1. /\ UNCHANGED <<tree, head, remote, watermark, touched, todo>>
        /\ at'["daemon"] # "idle" => at["daemon"] # "idle"
    BY <1>5, <1>7 DEF PullCompare, PullMark, TypeOK
  <2> QED
    BY <1>1, <1>4, <2>1 DEF Quiet
<1>8. CASE PullAbort(p)
  <2>1. UNCHANGED <<tree, head, watermark, touched, todo>> /\ at'["daemon"] = "idle"
    BY <1>5, <1>8 DEF PullAbort, Leaves, TypeOK
  <2> QED
    BY <1>1, <1>4, <2>1 DEF Quiet
<1>9. ASSUME NEW f \in Files, PullWrite(p, f) PROVE Quiet'
  <2>1. /\ UNCHANGED <<head, at, remote, watermark, touched, todo>> /\ at["daemon"] # "idle"
        /\ \A g \in Files : tree'[g] = IF g = f THEN remote["daemon"][f] ELSE tree[g]
    BY <1>5, <1>9 DEF PullWrite, TypeOK
  <2> QED
    BY <1>1, <1>4, <2>1 DEF Quiet
<1>10. CASE PullCommit(p)
  <2>1. /\ tree' = tree /\ head' = tree /\ at'["daemon"] = "idle" /\ pc = "idle"
        /\ todo = {} /\ cur = NoOutbound
    BY <1>5, <1>10 DEF PullCommit, Commit, Leaves, Phases, TypeOK
  <2>2. CASE tree = head
    BY <1>1, <1>4, <1>10, <2>1, <2>2 DEF PullCommit, Quiet
  <2>3. CASE tree # head /\ watermark = "unset"
    BY <1>1, <1>5, <1>10, <2>1, <2>3, QuietFence DEF PullCommit, RunScheduling
  <2>4. CASE tree # head /\ watermark = "set"
    <3>1. UNCHANGED <<watermark, touched>> /\ todo' = ChangeFeed(head, tree)
      BY <1>5, <1>10, <2>4 DEF PullCommit, RunScheduling
    <3>2. \A o \in todo' : o.file \in Files /\ head[o.file] # tree[o.file]
      <4>1. tree \in [Files -> Events \cup {None}] /\ head \in [Files -> Events \cup {None}]
        BY DEF TypeOK
      <4> QED
        BY <3>1, <4>1, FeedIsPlanned
    <3>3. \A o \in todo' : o.file \in touched
      BY <1>4, <2>4, <3>2 DEF Quiet
    <3> QED
      BY <1>1, <1>4, <2>1, <2>4, <3>1, <3>3 DEF Quiet
  <2> QED
    BY <2>2, <2>3, <2>4 DEF TypeOK
<1> QED
  BY <1>6, <1>7, <1>8, <1>9, <1>10

LEMMA QuietStep == IInv /\ Quiet /\ [Next]_vars => Quiet'
<1> SUFFICES ASSUME IInv, Quiet, [Next]_vars PROVE Quiet'
  OBVIOUS
<1> USE DEF IInv, repo, files, fence, pull, batch, mail, env
<1>1. ASSUME UNCHANGED <<server, tree, head, at, remote, watermark, touched, cur, sent>>,
             todo' \subseteq todo, UNCHANGED upsets \/ \E k \in AllKinds : Count(k)
      PROVE  Quiet'
  <2>1. upsets'["refresh"] = 0 => upsets["refresh"] = 0
    BY <1>1 DEF Count, AllKinds, TypeOK
  <2> QED
    BY <1>1, <2>1 DEF Quiet
<1>2. CASE UNCHANGED vars
  BY <1>1, <1>2 DEF vars
<1>3. ASSUME NEW f \in Files, NEW e \in Events \cup {None}, Edit(f, e) PROVE Quiet'
  <2>1. /\ UNCHANGED <<tree, head, at, remote, watermark, todo, cur, sent>>
        /\ touched' = touched \cup {f}
        /\ \A g \in Files \ {f} : server'[g] = server[g]
        /\ UNCHANGED upsets \/ Count("reuse")
    BY <1>3 DEF Edit, TypeOK
  <2>2. upsets'["refresh"] = upsets["refresh"]
    BY <2>1 DEF Count, AllKinds, TypeOK
  <2> QED
    BY <2>1, <2>2 DEF Quiet
<1>4. CASE (\E c \in Contents : TimePasses(c)) \/ StartUnfenced
  BY <1>1, <1>4 DEF TimePasses, StartUnfenced, Upset, AllKinds
<1>5. CASE OtherCommit \/ Finish
  <2>1. /\ UNCHANGED <<server, tree, at, remote, watermark, touched, todo, sent>>
        /\ head' = tree \/ head' = head
        /\ cur' = cur \/ cur' = NoOutbound
        /\ UNCHANGED upsets \/ Count("sweep")
    BY <1>5 DEF OtherCommit, Finish, Commit
  <2>2. upsets'["refresh"] = upsets["refresh"]
    BY <2>1 DEF Count, AllKinds, TypeOK
  <2> QED
    BY <2>1, <2>2 DEF Quiet
<1>6. CASE Start
  <2>1. /\ UNCHANGED <<server, tree, at, remote, todo, cur, sent, upsets>> /\ at["daemon"] = "idle"
        /\ todo = {} /\ cur = NoOutbound
    BY <1>6 DEF Start, Phases
  <2>2. CASE watermark = "unset" /\ born = "yes"
    BY <1>6, <2>1, <2>2, QuietFence DEF Start, Commit
  <2>3. CASE ~ (watermark = "unset" /\ born = "yes")
    BY <1>1, <1>6, <2>1, <2>3 DEF Start
  <2> QED
    BY <2>2, <2>3
<1>7. ASSUME NEW p \in Pulls,
             \/ PullStart(p) \/ PullCompare(p) \/ PullMark(p) \/ PullAbort(p) \/ PullCommit(p)
             \/ \E f \in Files : PullWrite(p, f)
      PROVE  Quiet'
  BY <1>7, QuietPull
<1>8. ASSUME NEW o \in todo, Begin(o) PROVE Quiet'
  <2>1. /\ UNCHANGED <<server, tree, head, at, remote, watermark, touched, sent, upsets>>
        /\ todo' \subseteq todo
    BY <1>8 DEF Begin
  <2>2. o \in OutboundType
    BY DEF TypeOK
  <2>3. cur'.file = o.file
    BY <1>8, <2>2 DEF Begin, OutboundType
  <2> QED
    BY <2>1, <2>3 DEF Quiet
<1>9. ASSUME NEW r \in Attendees, Send(r) \/ SendTimeout(r) PROVE Quiet'
  BY <1>9, QuietLeave
<1>10. ASSUME NEW r \in Attendees, SendRefused(r) PROVE Quiet'
  <2>1. /\ UNCHANGED <<server, tree, head, at, remote, watermark, touched, todo, sent>>
        /\ upsets'["refresh"] = upsets["refresh"]
        /\ cur # NoOutbound /\ cur' = [cur EXCEPT !.to = @ \ {r}]
    BY <1>10 DEF SendRefused, Upset, Count, AllKinds, TypeOK, NoOutbound
  <2>2. cur'.file = cur.file
    BY <2>1 DEF TypeOK, OutboundType
  <2> QED
    BY <2>1, <2>2 DEF Quiet
<1>11. CASE Record
  BY <1>1, <1>11 DEF Record
<1>12. CASE RecordFails \/ FeedFails \/ Crash
  <2>1. /\ UNCHANGED <<server, tree, head, watermark, touched, sent>>
        /\ todo' = {} /\ cur' = NoOutbound
        /\ UNCHANGED <<at, remote>> \/ at'["daemon"] = "idle"
        /\ \E k \in AllKinds : Count(k)
    BY <1>12 DEF RecordFails, FeedFails, BatchFails, Crash, Upset, AllKinds, Pulls
  <2>2. upsets'["refresh"] = 0 => upsets["refresh"] = 0
    BY <2>1 DEF Count, AllKinds, TypeOK
  <2> QED
    BY <2>1, <2>2 DEF Quiet
<1> QED
  BY <1>2, <1>3, <1>4, <1>5, <1>6, <1>7, <1>8, <1>9, <1>10, <1>11, <1>12
  DEF Next, Daemon, Environment

\* Unless MCP calls pull: no message leaves about an event that the activation
\* fenced off and nobody has edited since, for any number of events, whatever
\* fails, whoever commits what and wherever the daemon dies.
THEOREM FencedOff == Spec => []Fenced
<1>1. Init => IInv /\ Quiet
  BY IInvInit DEF Init, Quiet
<1>2. (IInv /\ Quiet) /\ [Next]_vars => (IInv /\ Quiet)'
  BY TypeStep, ThreadsStep, PhasesStep, QuietStep DEF IInv, Threads
<1>3. IInv /\ Quiet => Fenced
  BY DEF IInv, TypeOK, Phases, Quiet, Fenced
<1> QED
  BY <1>1, <1>2, <1>3, PTL DEF Spec
=============================================================================
