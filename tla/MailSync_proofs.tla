--------------------------- MODULE MailSync_proofs ---------------------------
(* Proofs about the mail sync, for any messages, syncers and bounds. *)
EXTENDS MailSync, TLAPS

-----------------------------------------------------------------------------
(* Type correctness                                                        *)

\* Whoever is writing or removing a message knows its name.
Named ==
  \A s \in Syncers : pc[s] \in {"eml", "meta", "index", "unlink"} => got[s].name \in Messages

Typed == TypeOK /\ Named

\* Functions on 1 .. n are sequences, and the other way round.
LEMMA SequenceIsFunction ==
  ASSUME NEW S, NEW n \in Nat, NEW f \in [1 .. n -> S]
  PROVE  f \in Seq(S)
OBVIOUS

LEMMA ConstantTypes ==
  /\ NoFile \in FileType /\ NoFiles \in [Messages -> FileType]
  /\ NoManifest \in ManifestType /\ NoRow \in RowType
  /\ NoGot \in [name : Messages \cup {None}, file : FileType]
BY DEF NoFile, NoFiles, NoManifest, NoRow, NoGot, FileType, ManifestType, RowType

LEMMA TypeInit == Init => Typed
<1> SUFFICES ASSUME Init PROVE Typed
  OBVIOUS
<1>1. mailbox \in Seq(MessageType)
  <2>1. Held \in Seq(HeldMessage) /\ DOMAIN Held = 1 .. Len(Held) /\ Len(Held) \in Nat
    BY HeldType
  <2>2. ASSUME NEW u \in 1 .. Len(Held)
        PROVE  Message(Held[u].name, Held[u].flags, 1) \in MessageType
    <3>1. Held[u] \in HeldMessage
      BY <2>1
    <3> QED
      BY <3>1 DEF HeldMessage, Message, MessageType
  <2> QED
    BY <2>1, <2>2 DEF Init
<1>2. index \in [Messages -> RowType]
  BY ConstantTypes DEF Init
<1> QED
  BY <1>1, <1>2, ConstantTypes DEF Init, Typed, TypeOK, Named

\* Upsets are counted up only.
LEMMA CountType ==
  ASSUME TypeOK, NEW k \in AllKinds, Count(k)
  PROVE  /\ upsets' \in [AllKinds -> Nat]
         /\ upsets'[k] # 0
         /\ \A j \in AllKinds : upsets'[j] = 0 => upsets[j] = 0
BY DEF TypeOK, Count

LEMMA MoveType == TypeOK /\ Move => moves' \in Nat
BY DEF TypeOK, Move

LEMMA IndexCallType ==
  ASSUME TypeOK, NEW c \in Messages, NEW row \in RowType, IndexCall(c, row)
  PROVE  index' \in [Messages -> RowType] /\ upsets' \in [AllKinds -> Nat] /\ moves' \in Nat
<1>1. CASE index' = [index EXCEPT ![c] = row] /\ UNCHANGED env
  BY <1>1 DEF TypeOK, env
<1>2. CASE Move /\ Count("index") /\ UNCHANGED index
  BY <1>2, CountType, MoveType DEF TypeOK, AllKinds
<1> QED
  BY <1>1, <1>2 DEF IndexCall

LEMMA ForgetType ==
  ASSUME TypeOK, NEW S, Forget(S), UNCHANGED <<server, files>>,
         upsets' \in [AllKinds -> Nat], moves' \in Nat
  PROVE  TypeOK'
<1>1. pc' \in [Syncers -> {"idle", "examine", "search", "list", "apply", "eml", "meta",
                            "index", "unlink", "commit"}]
  BY DEF Forget, TypeOK
<1>2. /\ local' \in [Syncers -> [Messages -> FileType]]
      /\ since' \in [Syncers -> ManifestType] /\ seen' \in [Syncers -> ManifestType]
  BY ConstantTypes DEF Forget, TypeOK
<1>3. /\ ids' \in [Syncers -> SUBSET Nat] /\ todo' \in [Syncers -> SUBSET Nat]
      /\ gone' \in [Syncers -> SUBSET Messages]
      /\ got' \in [Syncers -> [name : Messages \cup {None}, file : FileType]]
  BY ConstantTypes DEF Forget, TypeOK
<1> QED
  BY <1>1, <1>2, <1>3 DEF TypeOK, server, files

LEMMA RenumberType ==
  ASSUME TypeOK, Renumber
  PROVE  mailbox' \in Seq(MessageType)
<1>0. PICK n \in 0 .. Len(mailbox) : \E old \in [1 .. n -> Live] :
        mailbox' = [i \in 1 .. n |-> [mailbox[old[i]] EXCEPT !.modseq = highest']]
  BY DEF Renumber
<1>1. PICK old \in [1 .. n -> Live] :
        mailbox' = [i \in 1 .. n |-> [mailbox[old[i]] EXCEPT !.modseq = highest']]
  BY <1>0
<1>2. highest' \in Nat /\ n \in Nat
  BY <1>1 DEF Renumber, TypeOK
<1>3. ASSUME NEW i \in 1 .. n
      PROVE  [mailbox[old[i]] EXCEPT !.modseq = highest'] \in MessageType
  <2>1. old[i] \in DOMAIN mailbox
    BY <1>1 DEF Live
  <2>2. mailbox[old[i]] \in MessageType
    BY <2>1 DEF TypeOK
  <2> QED
    BY <1>2, <2>2 DEF MessageType
<1>4. mailbox' \in [1 .. n -> MessageType]
  BY <1>1, <1>3
<1> QED
  BY <1>2, <1>4, SequenceIsFunction

LEMMA TypeStep == Typed /\ [Next]_vars => Typed'
<1> SUFFICES ASSUME TypeOK, Named, [Next]_vars PROVE TypeOK' /\ Named'
  BY DEF Typed
<1> USE DEF server, files, scratch, env
<1>1. CASE UNCHANGED vars
  BY <1>1 DEF vars, TypeOK, Named
<1>2. ASSUME NEW c \in Messages, NEW fl \in Flags, Deliver(c, fl) PROVE TypeOK' /\ Named'
  <2>1. upsets' \in [AllKinds -> Nat]
    BY <1>2, CountType DEF Deliver, AllKinds, TypeOK
  <2>2. mailbox' \in Seq(MessageType)
    BY <1>2 DEF Deliver, Message, MessageType, TypeOK
  <2> QED
    BY <1>2, <2>1, <2>2, MoveType DEF Deliver, Change, TypeOK, Named
<1>3. ASSUME NEW u \in DOMAIN mailbox, NEW fl \in Flags, SetFlags(u, fl) PROVE TypeOK' /\ Named'
  <2>1. mailbox' \in Seq(MessageType)
    <3>1. mailbox[u] \in MessageType
      BY DEF TypeOK
    <3>2. mailbox'[u] \in MessageType
      <4>1. [mailbox[u] EXCEPT !.flags = fl] \in MessageType
        BY <3>1 DEF MessageType
      <4>2. highest + 1 \in Nat
        BY DEF TypeOK
      <4>3. [[mailbox[u] EXCEPT !.flags = fl] EXCEPT !.modseq = highest + 1] \in MessageType
        BY <4>1, <4>2 DEF MessageType
      <4>4. mailbox'[u] = [[mailbox[u] EXCEPT !.flags = fl] EXCEPT !.modseq = highest + 1]
        BY <1>3 DEF SetFlags, TypeOK
      <4> QED
        BY <4>3, <4>4
    <3>3. mailbox' = [mailbox EXCEPT ![u] = mailbox'[u]]
      BY <1>3 DEF SetFlags, TypeOK
    <3>4. mailbox \in [1 .. Len(mailbox) -> MessageType] /\ Len(mailbox) \in Nat
      BY DEF TypeOK
    <3>5. mailbox' \in [1 .. Len(mailbox) -> MessageType]
      BY <3>2, <3>3, <3>4
    <3> QED
      BY <3>4, <3>5, SequenceIsFunction
  <2> QED
    BY <1>3, <2>1, MoveType DEF SetFlags, Change, TypeOK, Named
<1>4. ASSUME NEW u \in DOMAIN mailbox, Expunge(u) PROVE TypeOK' /\ Named'
  <2>1. mailbox' \in Seq(MessageType)
    <3>1. mailbox[u] \in MessageType
      BY DEF TypeOK
    <3>2. mailbox'[u] \in MessageType
      BY <1>4, <3>1 DEF Expunge, Change, MessageType, TypeOK
    <3>3. mailbox' = [mailbox EXCEPT ![u] = mailbox'[u]]
      BY <1>4 DEF Expunge, TypeOK
    <3>4. mailbox \in [1 .. Len(mailbox) -> MessageType] /\ Len(mailbox) \in Nat
      BY DEF TypeOK
    <3>5. mailbox' \in [1 .. Len(mailbox) -> MessageType]
      BY <3>2, <3>3, <3>4
    <3> QED
      BY <3>4, <3>5, SequenceIsFunction
  <2> QED
    BY <1>4, <2>1, MoveType DEF Expunge, Change, TypeOK, Named
<1>5. CASE Renumber
  <2>1. upsets' \in [AllKinds -> Nat]
    BY <1>5, CountType DEF Renumber, AllKinds
  <2>2. validity' \in Nat /\ highest' \in Nat /\ moves' \in Nat
    BY <1>5, MoveType DEF Renumber, TypeOK
  <2>3. UNCHANGED <<files, pc, scratch>>
    BY <1>5 DEF Renumber
  <2> QED
    BY <1>5, <2>1, <2>2, <2>3, RenumberType DEF TypeOK, Named
<1>6. ASSUME NEW s \in Syncers, Abort(s) PROVE TypeOK' /\ Named'
  <2>1. upsets' \in [AllKinds -> Nat] /\ moves' \in Nat
    BY <1>6, CountType, MoveType DEF Abort, AllKinds
  <2>2. Named'
    BY <1>6 DEF Abort, Forget, Named
  <2> QED
    BY <1>6, <2>1, <2>2, ForgetType DEF Abort
<1>7. CASE Crash
  <2>1. upsets' \in [AllKinds -> Nat] /\ moves' \in Nat
    BY <1>7, CountType, MoveType DEF Crash, AllKinds
  <2>2. Named'
    BY <1>7 DEF Crash, Forget, Named
  <2> QED
    BY <1>7, <2>1, <2>2, ForgetType DEF Crash
<1>8. ASSUME NEW s \in Syncers, Lost(s) PROVE TypeOK' /\ Named'
  <2>1. upsets' \in [AllKinds -> Nat] /\ moves' \in Nat
    BY <1>8 DEF Lost, TypeOK
  <2>2. Named'
    BY <1>8 DEF Lost, Forget, Named
  <2> QED
    BY <1>8, <2>1, <2>2, ForgetType DEF Lost
<1>9. ASSUME NEW s \in Syncers, ReadLocal(s) PROVE TypeOK' /\ Named'
  <2>1. upsets' \in [AllKinds -> Nat] /\ moves' \in Nat
    BY <1>9, CountType, MoveType DEF ReadLocal, AllKinds, TypeOK
  <2> QED
    BY <1>9, <2>1 DEF ReadLocal, Goto, Put, TypeOK, Named
<1>10. ASSUME NEW s \in Syncers, Examine(s) PROVE TypeOK' /\ Named'
  <2>1. /\ seen' \in [Syncers -> ManifestType] /\ gone' \in [Syncers -> SUBSET Messages]
        /\ local' \in [Syncers -> [Messages -> FileType]] /\ since' \in [Syncers -> ManifestType]
    <3>1. [validity |-> validity, modseq |-> highest] \in ManifestType
      BY DEF ManifestType, TypeOK
    <3>2. seen' \in [Syncers -> ManifestType]
      BY <1>10, <3>1 DEF Examine, Put, TypeOK
    <3>3. CASE Live = {}
      <4>1. Removed(s, {}) \in SUBSET Messages
        BY DEF Removed
      <4>2. gone' \in [Syncers -> SUBSET Messages]
        BY <1>10, <3>3, <4>1 DEF Examine, Put, TypeOK
      <4>3. local' \in [Syncers -> [Messages -> FileType]] /\ since' \in [Syncers -> ManifestType]
        BY <1>10, <3>3, ConstantTypes DEF Examine, Put, TypeOK
      <4> QED
        BY <3>2, <4>2, <4>3
    <3>4. CASE Live # {}
      BY <1>10, <3>2, <3>4 DEF Examine, TypeOK
    <3> QED
      BY <3>3, <3>4
  <2> QED
    BY <1>10, <2>1 DEF Examine, Goto, TypeOK, Named
<1>11. ASSUME NEW s \in Syncers, Search(s) PROVE TypeOK' /\ Named'
  <2>1. Live \in SUBSET Nat
    BY DEF Live, TypeOK
  <2> QED
    BY <1>11, <2>1 DEF Search, Goto, Put, TypeOK, Named
<1>12. ASSUME NEW s \in Syncers, List(s) PROVE TypeOK' /\ Named'
  <2>1. \A stem : ToFetch(s, stem) \in SUBSET Nat
    BY DEF ToFetch, Changed, Live, TypeOK
  <2>2. todo' \in [Syncers -> SUBSET Nat] /\ gone' \in [Syncers -> SUBSET Messages]
    BY <1>12, <2>1 DEF List, Put, Removed, TypeOK
  <2> QED
    BY <1>12, <2>2, ConstantTypes DEF List, Goto, Put, TypeOK, Named
<1>13. ASSUME NEW s \in Syncers, NEW u \in todo[s], Fetch(s, u) PROVE TypeOK' /\ Named'
  <2>1. mailbox[u] \in MessageType /\ u \in Nat
    BY <1>13 DEF Fetch, Live, TypeOK
  <2> DEFINE g == [name |-> mailbox[u].name,
                   file |-> [id |-> u, flags |-> mailbox[u].flags, modseq |-> mailbox[u].modseq]]
  <2>2. g \in [name : Messages \cup {None}, file : FileType] /\ g.name \in Messages
    BY <2>1 DEF FileType, MessageType
  <2>5. got' = [got EXCEPT ![s] = g]
    BY <1>13 DEF Fetch, Put
  <2> HIDE DEF g
  <2>6. got' \in [Syncers -> [name : Messages \cup {None}, file : FileType]]
    BY <2>2, <2>5 DEF TypeOK
  <2>3. got'[s].name \in Messages
    BY <2>2, <2>5 DEF TypeOK
  <2>4. Named'
    BY <1>13, <2>3 DEF Fetch, Put, Goto, TypeOK, Named
  <2> QED
    BY <1>13, <2>6, <2>4 DEF Fetch, Put, Goto, TypeOK
<1>14. ASSUME NEW s \in Syncers, WriteEml(s) \/ WriteMeta(s) PROVE TypeOK' /\ Named'
  BY <1>14 DEF WriteEml, WriteMeta, Goto, TypeOK, Named
<1>15. ASSUME NEW s \in Syncers, Upsert(s) PROVE TypeOK' /\ Named'
  <2>1. Row(got[s].file) \in RowType
    BY DEF Row, RowType, FileType, TypeOK
  <2>2. got[s].name \in Messages
    BY <1>15 DEF Upsert, Named
  <2>3. index' \in [Messages -> RowType] /\ upsets' \in [AllKinds -> Nat] /\ moves' \in Nat
    BY <1>15, <2>1, <2>2, IndexCallType DEF Upsert
  <2> QED
    BY <1>15, <2>3, ConstantTypes DEF Upsert, Goto, Put, TypeOK, Named
<1>16. ASSUME NEW s \in Syncers, NEW c \in Messages, Remove(s, c) PROVE TypeOK' /\ Named'
  <2>1. [NoGot EXCEPT !.name = c] \in [name : Messages \cup {None}, file : FileType]
    BY ConstantTypes DEF NoGot
  <2>2. [NoGot EXCEPT !.name = c].name = c
    BY DEF NoGot
  <2>3. index' \in [Messages -> RowType] /\ upsets' \in [AllKinds -> Nat] /\ moves' \in Nat
    BY <1>16, ConstantTypes, IndexCallType DEF Remove
  <2> QED
    BY <1>16, <2>1, <2>2, <2>3, ConstantTypes DEF Remove, Goto, Put, TypeOK, Named
<1>17. ASSUME NEW s \in Syncers, Unlink(s) PROVE TypeOK' /\ Named'
  BY <1>17, ConstantTypes DEF Unlink, Goto, Put, TypeOK, Named
<1>18. ASSUME NEW s \in Syncers, WriteManifest(s) \/ CommitFolder(s) PROVE TypeOK' /\ Named'
  <2>1. CASE WriteManifest(s)
    BY <2>1 DEF WriteManifest, Goto, TypeOK, Named
  <2>2. CASE CommitFolder(s)
    BY <2>2, ConstantTypes DEF CommitFolder, Goto, Put, TypeOK, Named
  <2> QED
    BY <1>18, <2>1, <2>2
<1> QED
  BY <1>1, <1>2, <1>3, <1>4, <1>5, <1>6, <1>7, <1>8, <1>9, <1>10, <1>11, <1>12, <1>13, <1>14,
     <1>15, <1>16, <1>17, <1>18
  DEF Next, Environment, Work

-----------------------------------------------------------------------------
(* Nothing below the watermark lacks a file                                *)

Orderly == Never({"again", "renumber"})

\* The file speaks of a message the server gave that name to.
Known(file, c) == file.id \in DOMAIN mailbox /\ mailbox[file.id].name = c

\* The server had that message and expunged it.
Dead(c) == \E u \in DOMAIN mailbox : mailbox[u].name = c /\ ~mailbox[u].live

Backed(u) == meta[mailbox[u].name].id = u

Distinct == \A u, v \in DOMAIN mailbox : mailbox[u].name = mailbox[v].name => u = v

Ordered ==
  /\ \A u \in DOMAIN mailbox : 1 <= mailbox[u].modseq /\ mailbox[u].modseq <= highest
  /\ manifest.modseq <= highest
  /\ \A s \in Syncers : seen[s].modseq <= highest

MetaKnown == \A c \in Messages : meta[c] # NoFile => Known(meta[c], c)

\* A file that a syncer read is still there unless its message is gone, and
\* the listing that follows shows that message.
LocalKnown ==
  \A s \in Syncers, c \in Messages : local[s][c] # NoFile =>
    /\ Known(local[s][c], c)
    /\ mailbox[local[s][c].id].live =>
         Backed(local[s][c].id) /\ (pc[s] = "list" => local[s][c].id \in ids[s])

GotKnown ==
  \A s \in Syncers :
    /\ pc[s] \in {"eml", "meta", "index"} => Known(got[s].file, got[s].name)
    /\ pc[s] = "unlink" => Dead(got[s].name)

GoneDead == \A s \in Syncers : \A c \in gone[s] : Dead(c)

Listed ==
  \A s \in Syncers : pc[s] = "list" =>
    \A u \in Live : mailbox[u].modseq <= seen[s].modseq => u \in ids[s]

\* What a sync has listed it has fetched, is writing, or has still to fetch.
Covering ==
  \A s \in Syncers : pc[s] \in {"apply", "eml", "meta", "index", "unlink"} =>
    \A u \in Live : mailbox[u].modseq <= seen[s].modseq =>
      \/ u \in todo[s]
      \/ pc[s] \in {"eml", "meta"} /\ got[s].file.id = u
      \/ Backed(u)

Kept == \A u \in Live : mailbox[u].modseq <= manifest.modseq => Backed(u)

Inner ==
  /\ Distinct /\ Ordered /\ MetaKnown /\ LocalKnown
  /\ GotKnown /\ GoneDead /\ Listed /\ Covering /\ Kept

IInv == Typed /\ (Orderly => Inner)

LEMMA InnerInit == Init => Inner
<1> SUFFICES ASSUME Init PROVE Inner
  OBVIOUS
<1>1. \A u \in DOMAIN mailbox : mailbox[u].name = Held[u].name /\ mailbox[u].modseq = 1
  BY DEF Init, Message
<1>2. DOMAIN mailbox = DOMAIN Held
  BY DEF Init
<1>3. Distinct
  BY <1>1, <1>2, HeldType DEF Distinct
<1>4. Ordered
  BY <1>1 DEF Init, Ordered, NoManifest
<1>5. MetaKnown /\ LocalKnown
  BY DEF Init, MetaKnown, LocalKnown, NoFiles
<1>6. GotKnown /\ GoneDead /\ Listed /\ Covering
  BY DEF Init, GotKnown, GoneDead, Listed, Covering
<1>7. Kept
  BY <1>1 DEF Init, Kept, NoManifest, Live
<1> QED
  BY <1>3, <1>4, <1>5, <1>6, <1>7 DEF Inner

\* What a change on the server leaves as it was.
Grown ==
  /\ highest' = highest + 1
  /\ \A u \in DOMAIN mailbox :
       /\ u \in DOMAIN mailbox'
       /\ mailbox'[u].name = mailbox[u].name
       /\ mailbox'[u].live => mailbox[u].live
       /\ mailbox'[u].modseq \in {mailbox[u].modseq, highest + 1}
       /\ mailbox'[u].live => mailbox'[u] = mailbox[u] \/ mailbox'[u].modseq = highest + 1
  /\ \A u \in DOMAIN mailbox' : u \notin DOMAIN mailbox => mailbox'[u].modseq = highest + 1
  /\ UNCHANGED <<files, pc, scratch>>

LEMMA ServerStep ==
  ASSUME Typed, Inner, Grown, Distinct'
  PROVE  Inner'
<1> USE DEF Inner, Grown, files, scratch
<1>1. highest \in Nat /\ highest' \in Nat /\ manifest.modseq \in Nat
      /\ \A s \in Syncers : seen[s].modseq \in Nat
  BY DEF Typed, TypeOK, ManifestType
<1>2. \A u \in DOMAIN mailbox : mailbox[u].modseq \in Nat
  <2>1. \A u \in DOMAIN mailbox : mailbox[u] \in MessageType
    BY DEF Typed, TypeOK
  <2> QED
    BY <2>1 DEF MessageType
\* A message below a watermark is an old one, and was below it before.
<1>3. ASSUME NEW u \in Live', NEW n \in Nat, n <= highest, mailbox'[u].modseq <= n
      PROVE  u \in Live /\ mailbox[u].modseq <= n /\ mailbox'[u].name = mailbox[u].name
  BY <1>1, <1>2, <1>3 DEF Live
<1>4. Ordered'
  <2>1. ASSUME NEW u \in DOMAIN mailbox'
        PROVE  1 <= mailbox'[u].modseq /\ mailbox'[u].modseq <= highest'
    BY <1>1, <1>2 DEF Ordered
  <2> QED
    BY <1>1, <2>1 DEF Ordered
<1>5. \A file, c : Known(file, c) => Known(file, c)'
  BY DEF Known
<1>6. \A c : Dead(c) => Dead(c)'
  BY DEF Dead
<1>7. MetaKnown' /\ GotKnown' /\ GoneDead'
  BY <1>5, <1>6 DEF MetaKnown, GotKnown, GoneDead
<1>8. LocalKnown'
  BY <1>5 DEF LocalKnown, Known, Backed
<1>9. Listed'
  BY <1>1, <1>3 DEF Listed, Ordered
<1>10. Covering'
  <2> SUFFICES ASSUME NEW s \in Syncers, pc[s] \in {"apply", "eml", "meta", "index", "unlink"},
                      NEW u \in Live', mailbox'[u].modseq <= seen[s].modseq
               PROVE  \/ u \in todo[s]
                      \/ pc[s] \in {"eml", "meta"} /\ got[s].file.id = u
                      \/ Backed(u)'
    BY DEF Covering
  <2>1. u \in Live /\ mailbox[u].modseq <= seen[s].modseq /\ mailbox'[u].name = mailbox[u].name
    BY <1>1, <1>3 DEF Ordered
  <2> QED
    BY <2>1 DEF Covering, Backed
<1>11. Kept'
  BY <1>1, <1>3 DEF Kept, Ordered, Backed
<1> QED
  BY <1>4, <1>7, <1>8, <1>9, <1>10, <1>11

\* A step of a syncer that touches neither the server nor meta and manifest:
\* what it means for the other syncers is what it was.
LEMMA ReadStep ==
  ASSUME Typed, Inner, NEW s \in Syncers, ReadLocal(s) \/ Examine(s) \/ Search(s)
  PROVE  Inner'
<1> USE DEF Inner, server, files
<1>1. UNCHANGED <<mailbox, validity, highest, meta, manifest, got, todo>>
  BY DEF ReadLocal, Examine, Search, scratch
<1>2. \A t \in Syncers : t # s => /\ pc'[t] = pc[t] /\ local'[t] = local[t] /\ seen'[t] = seen[t]
                                  /\ ids'[t] = ids[t] /\ gone'[t] = gone[t]
  BY DEF ReadLocal, Examine, Search, Goto, Put, Typed, TypeOK
<1>3. Distinct' /\ MetaKnown' /\ Kept'
  BY <1>1 DEF Distinct, MetaKnown, Kept, Known, Live, Backed
<1>4. CASE ReadLocal(s)
  <2>1. pc'[s] = "examine" /\ local'[s] = meta /\ UNCHANGED <<seen, ids, gone>>
    BY <1>4 DEF ReadLocal, Goto, Put, Typed, TypeOK
  <2>2. Ordered' /\ GoneDead'
    BY <1>1, <2>1 DEF Ordered, GoneDead, Dead
  <2>3. GotKnown' /\ Listed' /\ Covering'
    BY <1>1, <1>2, <2>1 DEF GotKnown, Listed, Covering, Known, Dead, Live, Backed
  <2>4. LocalKnown'
    BY <1>1, <1>2, <2>1 DEF LocalKnown, MetaKnown, Known, Backed
  <2> QED
    BY <1>3, <2>2, <2>3, <2>4
<1>5. CASE Examine(s)
  <2>1. /\ seen'[s] = [validity |-> validity, modseq |-> highest] /\ UNCHANGED ids
        /\ pc'[s] = IF Live = {} THEN "apply" ELSE "search"
        /\ local'[s] = IF Live = {} THEN NoFiles ELSE local[s]
        /\ gone'[s] = IF Live = {} THEN Removed(s, {}) ELSE gone[s]
    BY <1>5 DEF Examine, Goto, Put, Typed, TypeOK
  <2>2. Ordered'
    <3>1. highest <= highest /\ seen'[s].modseq = highest
      BY <2>1 DEF Typed, TypeOK
    <3>2. \A t \in Syncers : seen'[t].modseq <= highest
      BY <1>2, <3>1 DEF Ordered
    <3> QED
      BY <1>1, <3>2 DEF Ordered
  <2>3. GotKnown' /\ Listed'
    BY <1>1, <1>2, <2>1 DEF GotKnown, Listed, Known, Dead, Live
  <2>4. Covering'
    BY <1>1, <1>2, <2>1 DEF Covering, Live, Backed
  <2>5. LocalKnown'
    BY <1>1, <1>2, <2>1 DEF LocalKnown, Known, Backed, NoFiles
  <2>6. ASSUME Live = {}, NEW c \in Removed(s, {}) PROVE Dead(c)
    BY <2>6 DEF Removed, LocalKnown, Known, Dead, Live
  <2>7. GoneDead'
    BY <1>1, <1>2, <2>1, <2>6 DEF GoneDead, Dead
  <2> QED
    BY <1>3, <2>2, <2>3, <2>4, <2>5, <2>7
<1>6. CASE Search(s)
  <2>1. pc'[s] = "list" /\ ids'[s] = Live /\ UNCHANGED <<local, seen, gone>>
    BY <1>6 DEF Search, Goto, Put, Typed, TypeOK
  <2>2. Ordered' /\ GoneDead'
    BY <1>1, <2>1 DEF Ordered, GoneDead, Dead
  <2>3. GotKnown' /\ Listed' /\ Covering'
    BY <1>1, <1>2, <2>1 DEF GotKnown, Listed, Covering, Known, Dead, Live, Backed
  <2>4. LocalKnown'
    BY <1>1, <1>2, <2>1 DEF LocalKnown, Known, Backed, Live
  <2> QED
    BY <1>3, <2>2, <2>3, <2>4
<1> QED
  BY <1>4, <1>5, <1>6

\* The listing: whatever it shows is fetched or has a file, and whatever it
\* does not show is gone for good.
LEMMA ListStep ==
  ASSUME Typed, Inner, NEW s \in Syncers, List(s)
  PROVE  Inner'
<1> USE DEF Inner, server, files
<1>1. UNCHANGED <<mailbox, validity, highest, meta, manifest, got, seen>>
  BY DEF List
<1>2. \A t \in Syncers : t # s => /\ pc'[t] = pc[t] /\ local'[t] = local[t] /\ todo'[t] = todo[t]
                                  /\ ids'[t] = ids[t] /\ gone'[t] = gone[t]
  BY DEF List, Goto, Put, Typed, TypeOK
<1>3. PICK stem \in Stems(s) : todo' = Put(todo, s, ToFetch(s, stem))
  BY DEF List
<1>4. /\ pc[s] = "list" /\ pc'[s] = "apply" /\ local'[s] = NoFiles
      /\ gone'[s] = Removed(s, ids[s]) /\ todo'[s] = ToFetch(s, stem)
  BY <1>3 DEF List, Goto, Put, Typed, TypeOK
<1>5. Distinct' /\ MetaKnown' /\ Kept' /\ Ordered'
  BY <1>1 DEF Distinct, MetaKnown, Kept, Ordered, Known, Live, Backed
<1>6. LocalKnown' /\ Listed' /\ GotKnown'
  BY <1>1, <1>2, <1>4 DEF LocalKnown, Listed, GotKnown, Known, Dead, Backed, NoFiles, Live
<1>7. GoneDead'
  <2>1. ASSUME NEW c \in Removed(s, ids[s]) PROVE Dead(c)
    BY <1>4, <2>1 DEF Removed, LocalKnown, Known, Dead
  <2> QED
    BY <1>1, <1>2, <1>4, <2>1 DEF GoneDead, Dead
<1>8. ASSUME NEW u \in ids[s], u \in Live PROVE u \in todo'[s] \/ Backed(u)
  <2>1. CASE u \in DOMAIN stem
    <3>1. stem[u] \in Messages /\ local[s][stem[u]] # NoFile /\ local[s][stem[u]].id = u
      BY <2>1 DEF Stems
    <3> QED
      BY <1>8, <3>1 DEF LocalKnown, Live
  <2>2. CASE u \notin DOMAIN stem
    BY <1>4, <2>2 DEF ToFetch
  <2> QED
    BY <2>1, <2>2
<1>9. Covering'
  BY <1>1, <1>2, <1>4, <1>8 DEF Covering, Listed, Live, Backed
<1> QED
  BY <1>5, <1>6, <1>7, <1>9

LEMMA FetchStep ==
  ASSUME Typed, Inner, NEW s \in Syncers, NEW u \in todo[s], Fetch(s, u)
  PROVE  Inner'
<1> USE DEF Inner, server, files
<1>1. UNCHANGED <<mailbox, validity, highest, meta, manifest, seen, local, ids, gone>>
  BY DEF Fetch
<1>2. \A t \in Syncers : t # s => pc'[t] = pc[t] /\ todo'[t] = todo[t] /\ got'[t] = got[t]
  BY DEF Fetch, Goto, Put, Typed, TypeOK
<1>3. /\ pc[s] = "apply" /\ pc'[s] = "eml" /\ todo'[s] = todo[s] \ {u} /\ u \in Live
      /\ got'[s].name = mailbox[u].name /\ got'[s].file.id = u
  BY DEF Fetch, Goto, Put, Typed, TypeOK
<1>4. Distinct' /\ MetaKnown' /\ Kept' /\ Ordered' /\ GoneDead'
  BY <1>1 DEF Distinct, MetaKnown, Kept, Ordered, GoneDead, Known, Dead, Live, Backed
<1>5. LocalKnown' /\ Listed'
  BY <1>1, <1>2, <1>3 DEF LocalKnown, Listed, Known, Backed, Live
<1>6. GotKnown'
  BY <1>1, <1>2, <1>3 DEF GotKnown, Known, Dead, Live
<1>7. Covering'
  BY <1>1, <1>2, <1>3 DEF Covering, Live, Backed
<1> QED
  BY <1>4, <1>5, <1>6, <1>7

\* Steps within a sync that leave .meta.json files and `_folder.json` alone.
LEMMA AloneStep ==
  ASSUME Typed, Inner, NEW s \in Syncers,
         \/ WriteEml(s) \/ Upsert(s) \/ CommitFolder(s)
         \/ \E c \in Messages : Remove(s, c)
  PROVE  Inner'
<1> USE DEF Inner, server, scratch
<1>1. UNCHANGED <<mailbox, validity, highest, meta, manifest, local, ids, todo>>
  BY DEF WriteEml, Upsert, CommitFolder, Remove, files
<1>2. \A t \in Syncers : t # s => /\ pc'[t] = pc[t] /\ seen'[t] = seen[t]
                                  /\ gone'[t] = gone[t] /\ got'[t] = got[t]
  BY DEF WriteEml, Upsert, CommitFolder, Remove, Goto, Put, files, Typed, TypeOK
<1>3. Distinct' /\ MetaKnown' /\ Kept'
  BY <1>1 DEF Distinct, MetaKnown, Kept, Known, Live, Backed
<1>4. CASE WriteEml(s)
  <2>1. pc[s] = "eml" /\ pc'[s] = "meta" /\ UNCHANGED <<seen, gone, got>>
    BY <1>4 DEF WriteEml, Goto, Typed, TypeOK
  <2>2. Ordered' /\ GoneDead' /\ LocalKnown' /\ Listed'
    BY <1>1, <1>2, <2>1 DEF Ordered, GoneDead, LocalKnown, Listed, Known, Dead, Backed, Live
  <2>3. GotKnown' /\ Covering'
    BY <1>1, <1>2, <2>1 DEF GotKnown, Covering, Known, Dead, Backed, Live
  <2> QED
    BY <1>3, <2>2, <2>3
<1>5. CASE Upsert(s)
  <2>1. pc[s] = "index" /\ pc'[s] = "apply" /\ UNCHANGED <<seen, gone>>
    BY <1>5 DEF Upsert, Goto, Typed, TypeOK
  <2>2. Ordered' /\ GoneDead' /\ LocalKnown' /\ Listed'
    BY <1>1, <1>2, <2>1 DEF Ordered, GoneDead, LocalKnown, Listed, Known, Dead, Backed, Live
  <2>3. GotKnown' /\ Covering'
    BY <1>1, <1>2, <2>1 DEF GotKnown, Covering, Known, Dead, Backed, Live
  <2> QED
    BY <1>3, <2>2, <2>3
<1>6. CASE CommitFolder(s)
  <2>1. /\ pc[s] = "commit" /\ pc'[s] = "idle" /\ seen'[s] = NoManifest
        /\ UNCHANGED <<gone, got>>
    BY <1>6 DEF CommitFolder, Goto, Put, Typed, TypeOK
  <2>2. Ordered'
    <3>1. highest \in Nat
      BY DEF Typed, TypeOK
    <3> QED
      BY <1>1, <1>2, <2>1, <3>1 DEF Ordered, NoManifest
  <2>3. GoneDead' /\ LocalKnown' /\ Listed'
    BY <1>1, <1>2, <2>1 DEF GoneDead, LocalKnown, Listed, Known, Dead, Backed, Live
  <2>4. GotKnown' /\ Covering'
    BY <1>1, <1>2, <2>1 DEF GotKnown, Covering, Known, Dead, Backed, Live
  <2> QED
    BY <1>3, <2>2, <2>3, <2>4
<1>7. ASSUME NEW c \in Messages, Remove(s, c) PROVE Inner'
  <2>1. /\ pc[s] = "apply" /\ pc'[s] = "unlink" /\ c \in gone[s] /\ UNCHANGED seen
        /\ got'[s].name = c /\ gone'[s] = gone[s] \ {c}
    BY <1>7 DEF Remove, Goto, Put, NoGot, Typed, TypeOK
  <2>2. Ordered' /\ GoneDead' /\ LocalKnown' /\ Listed'
    BY <1>1, <1>2, <2>1 DEF Ordered, GoneDead, LocalKnown, Listed, Known, Dead, Backed, Live
  <2>3. GotKnown' /\ Covering'
    BY <1>1, <1>2, <2>1 DEF GotKnown, GoneDead, Covering, Known, Dead, Backed, Live
  <2> QED
    BY <1>3, <2>2, <2>3
<1> QED
  BY <1>4, <1>5, <1>6, <1>7

\* Writing or removing a .meta.json takes the file from no message that lives.
LEMMA MetaStep ==
  ASSUME Typed, Inner, NEW s \in Syncers, WriteMeta(s) \/ Unlink(s)
  PROVE  Inner'
<1> USE DEF Inner, server, scratch
<1>1. /\ UNCHANGED <<mailbox, validity, highest, manifest, local, seen, ids, todo, gone>>
      /\ got[s].name \in Messages
  BY DEF WriteMeta, Unlink, Typed, Named
<1>2. \A t \in Syncers : t # s => pc'[t] = pc[t] /\ got'[t] = got[t]
  BY DEF WriteMeta, Unlink, Goto, Put, Typed, TypeOK
<1>3. \A c \in Messages : c # got[s].name => meta'[c] = meta[c]
  BY DEF WriteMeta, Unlink, Typed, TypeOK
<1>4. \A u \in Live : mailbox[u].name \in Messages
  <2>1. \A u \in DOMAIN mailbox : mailbox[u] \in MessageType
    BY DEF Typed, TypeOK
  <2> QED
    BY <2>1 DEF MessageType, Live
<1>5. /\ MetaKnown'
      /\ \A u \in Live : Backed(u) => Backed(u)'
      /\ pc[s] = "meta" => Known(got[s].file, got[s].name) /\ Backed(got[s].file.id)'
  <2>1. CASE WriteMeta(s)
    <3>1. Known(got[s].file, got[s].name) /\ meta'[got[s].name] = got[s].file /\ UNCHANGED got
      BY <1>1, <2>1 DEF WriteMeta, GotKnown, Typed, TypeOK
    <3>2. MetaKnown'
      BY <1>1, <1>3, <3>1 DEF MetaKnown, Known
    <3>3. ASSUME NEW u \in Live, Backed(u) PROVE Backed(u)'
      <4>1. CASE mailbox[u].name = got[s].name
        BY <1>1, <3>1, <4>1 DEF Backed, Known, Distinct, Live
      <4>2. CASE mailbox[u].name # got[s].name
        BY <1>1, <1>3, <1>4, <3>3, <4>2 DEF Backed
      <4> QED
        BY <4>1, <4>2
    <3>4. Backed(got[s].file.id)'
      BY <1>1, <3>1 DEF Backed, Known
    <3> QED
      BY <3>1, <3>2, <3>3, <3>4
  <2>2. CASE Unlink(s)
    <3>1. Dead(got[s].name) /\ meta'[got[s].name] = NoFile /\ pc[s] = "unlink"
      BY <1>1, <2>2 DEF Unlink, GotKnown, Typed, TypeOK
    <3>2. MetaKnown'
      BY <1>1, <1>3, <3>1 DEF MetaKnown, Known
    <3>3. ASSUME NEW u \in Live, Backed(u) PROVE Backed(u)'
      <4>1. mailbox[u].name # got[s].name
        BY <3>1 DEF Dead, Distinct, Live
      <4> QED
        BY <1>1, <1>3, <1>4, <3>3, <4>1 DEF Backed
    <3> QED
      BY <3>1, <3>2, <3>3
  <2> QED
    BY <2>1, <2>2
<1>6. /\ pc[s] = "meta" => pc'[s] = "index" /\ got'[s] = got[s]
      /\ pc[s] = "unlink" => pc'[s] = "apply"
      /\ pc[s] \in {"meta", "unlink"}
  BY DEF WriteMeta, Unlink, Goto, Typed, TypeOK
<1>7. Distinct' /\ Ordered' /\ GoneDead'
  BY <1>1 DEF Distinct, Ordered, GoneDead, Dead
<1>8. LocalKnown' /\ Listed' /\ Kept'
  <2>1. LocalKnown'
    BY <1>1, <1>2, <1>5, <1>6 DEF LocalKnown, Known, Live
  <2> QED
    BY <1>1, <1>2, <1>5, <1>6, <2>1 DEF Listed, Kept, Live
<1>9. GotKnown'
  BY <1>1, <1>2, <1>5, <1>6 DEF GotKnown, Known, Dead
<1>10. Covering'
  BY <1>1, <1>2, <1>5, <1>6 DEF Covering, Live
<1> QED
  BY <1>5, <1>7, <1>8, <1>9, <1>10

\* At the end of a sync everything below its watermark has a file.
LEMMA ManifestStep ==
  ASSUME Typed, Inner, NEW s \in Syncers, WriteManifest(s)
  PROVE  Inner'
<1> USE DEF Inner, server, scratch
<1>1. /\ UNCHANGED <<mailbox, validity, highest, meta, local, seen, ids, todo, gone, got>>
      /\ pc[s] = "apply" /\ pc'[s] = "commit" /\ todo[s] = {} /\ manifest' = seen[s]
  BY DEF WriteManifest, Goto, Typed, TypeOK
<1>2. \A t \in Syncers : t # s => pc'[t] = pc[t]
  BY DEF WriteManifest, Goto, Typed, TypeOK
<1>3. Distinct' /\ Ordered' /\ MetaKnown' /\ GoneDead'
  BY <1>1 DEF Distinct, Ordered, MetaKnown, GoneDead, Known, Dead
<1>4. LocalKnown' /\ Listed' /\ GotKnown'
  BY <1>1, <1>2 DEF LocalKnown, Listed, GotKnown, Known, Dead, Backed, Live
<1>5. Covering'
  BY <1>1, <1>2 DEF Covering, Backed, Live
<1>6. Kept'
  BY <1>1 DEF Kept, Covering, Backed, Live
<1> QED
  BY <1>3, <1>4, <1>5, <1>6

\* A sync that ends with an error, or dies, leaves files and watermark.
LEMMA ForgetStep ==
  ASSUME Typed, Inner, NEW S, Forget(S), UNCHANGED <<server, files>>
  PROVE  Inner'
<1> USE DEF Inner, server, files, Forget
<1>1. \A t \in Syncers : \/ /\ pc'[t] = pc[t] /\ local'[t] = local[t] /\ seen'[t] = seen[t]
                            /\ ids'[t] = ids[t] /\ todo'[t] = todo[t] /\ gone'[t] = gone[t]
                            /\ got'[t] = got[t]
                         \/ /\ pc'[t] = "idle" /\ local'[t] = NoFiles /\ seen'[t] = NoManifest
                            /\ gone'[t] = {}
  OBVIOUS
<1>2. UNCHANGED <<mailbox, highest, meta, manifest>>
  OBVIOUS
<1> HIDE DEF Forget
<1>3. Distinct' /\ MetaKnown' /\ Kept'
  BY <1>2 DEF Distinct, MetaKnown, Kept, Known, Live, Backed
<1>4. Ordered'
  <2>1. highest \in Nat
    BY DEF Typed, TypeOK
  <2> QED
    BY <1>1, <1>2, <2>1 DEF Ordered, NoManifest
<1>5. LocalKnown'
  BY <1>1, <1>2 DEF LocalKnown, NoFiles, Known, Backed
<1>6. GotKnown' /\ GoneDead'
  BY <1>1, <1>2 DEF GotKnown, GoneDead, Known, Dead
<1>7. Listed' /\ Covering'
  BY <1>1, <1>2 DEF Listed, Covering, Live, Backed
<1> QED
  BY <1>3, <1>4, <1>5, <1>6, <1>7

\* A new message is no copy, and no old one changes its name.
LEMMA ChangeGrows ==
  ASSUME Typed, Inner, Change,
         \/ /\ \E c \in Messages, fl \in Flags : Deliver(c, fl)
            /\ Orderly'
         \/ \E u \in DOMAIN mailbox, fl \in Flags : SetFlags(u, fl)
         \/ \E u \in DOMAIN mailbox : Expunge(u)
  PROVE  Distinct' /\ Grown
<1>0. /\ highest' = highest + 1 /\ UNCHANGED <<files, pc, scratch>>
      /\ highest \in Nat /\ DOMAIN mailbox = 1 .. Len(mailbox) /\ Len(mailbox) \in Nat
  BY DEF Change, Typed, TypeOK
<1>1. ASSUME NEW c \in Messages, NEW fl \in Flags, Deliver(c, fl), Orderly' PROVE Distinct' /\ Grown
  <2>1. ~\E u \in DOMAIN mailbox : mailbox[u].name = c
    <3>1. SUFFICES ASSUME Count("again") PROVE FALSE
      BY <1>1 DEF Deliver
    <3>2. upsets'["again"] # 0
      BY <3>1, CountType DEF AllKinds, Typed
    <3> QED
      BY <1>1, <3>2 DEF Orderly, Never
  <2>2. mailbox' = Append(mailbox, Message(c, fl, highest + 1)) /\ mailbox \in Seq(MessageType)
    BY <1>1 DEF Deliver, Typed, TypeOK
  <2>3. /\ DOMAIN mailbox' = 1 .. Len(mailbox) + 1
        /\ \A u \in DOMAIN mailbox : mailbox'[u] = mailbox[u]
        /\ mailbox'[Len(mailbox) + 1] = Message(c, fl, highest + 1)
    BY <1>0, <2>2
  <2>4. Distinct'
    BY <1>0, <2>1, <2>3 DEF Inner, Distinct, Message
  <2>5. Grown
    BY <1>0, <2>3 DEF Grown, Message
  <2> QED
    BY <2>4, <2>5
<1>2. ASSUME NEW u \in DOMAIN mailbox, NEW fl \in Flags, SetFlags(u, fl) PROVE Distinct' /\ Grown
  <2> DEFINE m == [[mailbox[u] EXCEPT !.flags = fl] EXCEPT !.modseq = highest + 1]
  <2>1. /\ mailbox' = [mailbox EXCEPT ![u] = m]
        /\ mailbox[u] \in MessageType
        /\ mailbox \in [DOMAIN mailbox -> MessageType]
    <3>1. mailbox' = [mailbox EXCEPT ![u] = m]
      BY <1>2 DEF SetFlags, Typed, TypeOK
    <3>2. mailbox \in [DOMAIN mailbox -> MessageType]
      BY DEF Typed, TypeOK
    <3> QED
      BY <3>1, <3>2
  <2>2. m.name = mailbox[u].name /\ m.live = mailbox[u].live /\ m.modseq = highest + 1
    BY <2>1 DEF MessageType
  <2> HIDE DEF m
  <2>3. /\ DOMAIN mailbox' = DOMAIN mailbox
        /\ \A v \in DOMAIN mailbox : v # u => mailbox'[v] = mailbox[v]
        /\ mailbox'[u] = m
    BY <2>1
  <2>4. mailbox'[u].name = mailbox[u].name /\ mailbox'[u].live = mailbox[u].live
        /\ mailbox'[u].modseq = highest + 1
    BY <2>2, <2>3
  <2>5. Distinct'
    BY <2>3, <2>4 DEF Inner, Distinct
  <2>6. Grown
    BY <1>0, <2>3, <2>4 DEF Grown
  <2> QED
    BY <2>5, <2>6
<1>3. ASSUME NEW u \in DOMAIN mailbox, Expunge(u) PROVE Distinct' /\ Grown
  <2> DEFINE m == [mailbox[u] EXCEPT !.live = FALSE]
  <2>1. /\ mailbox' = [mailbox EXCEPT ![u] = m]
        /\ mailbox[u] \in MessageType
        /\ mailbox \in [DOMAIN mailbox -> MessageType]
    <3>1. mailbox' = [mailbox EXCEPT ![u] = m]
      BY <1>3 DEF Expunge, Typed, TypeOK
    <3>2. mailbox \in [DOMAIN mailbox -> MessageType]
      BY DEF Typed, TypeOK
    <3> QED
      BY <3>1, <3>2
  <2>2. m.name = mailbox[u].name /\ m.live = FALSE /\ m.modseq = mailbox[u].modseq
    BY <2>1 DEF MessageType
  <2> HIDE DEF m
  <2>3. /\ DOMAIN mailbox' = DOMAIN mailbox
        /\ \A v \in DOMAIN mailbox : v # u => mailbox'[v] = mailbox[v]
        /\ mailbox'[u] = m
    BY <2>1
  <2>4. mailbox'[u].name = mailbox[u].name /\ mailbox'[u].live = FALSE
        /\ mailbox'[u].modseq = mailbox[u].modseq
    BY <2>2, <2>3
  <2>5. Distinct'
    BY <2>3, <2>4 DEF Inner, Distinct
  <2>6. Grown
    BY <1>0, <2>3, <2>4 DEF Grown
  <2> QED
    BY <2>5, <2>6
<1> QED
  BY <1>1, <1>2, <1>3

\* An upset that has not happened after a step had not happened before it.
LEMMA OrderlyBefore == Typed /\ [Next]_vars /\ Orderly' => Orderly
<1> SUFFICES ASSUME Typed, [Next]_vars, Orderly' PROVE Orderly
  OBVIOUS
<1>1. \/ UNCHANGED upsets
      \/ \E k \in AllKinds : Count(k)
  BY DEF Next, Environment, Work, Deliver, SetFlags, Expunge, Renumber, ReadLocal, Examine,
         Search, List, Fetch, WriteEml, WriteMeta, Upsert, Remove, Unlink, WriteManifest,
         CommitFolder, Lost, Abort, IndexCall, Crash, vars, env, AllKinds
<1>2. ASSUME NEW k \in AllKinds, Count(k) PROVE Orderly
  BY <1>2, CountType DEF Orderly, Never, AllKinds, Typed
<1> QED
  BY <1>1, <1>2 DEF Orderly, Never

LEMMA InnerStep == IInv /\ [Next]_vars => IInv'
<1> SUFFICES ASSUME Typed, Orderly => Inner, [Next]_vars PROVE Typed' /\ (Orderly' => Inner')
  BY DEF IInv
<1>1. Typed'
  BY TypeStep
<1> SUFFICES ASSUME Orderly' PROVE Inner'
  BY <1>1
<1>2. Inner
  BY OrderlyBefore
<1>3. CASE UNCHANGED vars
  BY <1>2, <1>3
  DEF vars, server, files, scratch, Inner, Distinct, Ordered, MetaKnown, LocalKnown, GotKnown,
      GoneDead, Listed, Covering, Kept, Known, Dead, Backed, Live
<1>4. CASE \/ \E c \in Messages, fl \in Flags : Deliver(c, fl)
           \/ \E u \in DOMAIN mailbox, fl \in Flags : SetFlags(u, fl)
           \/ \E u \in DOMAIN mailbox : Expunge(u)
  <2>1. Change
    BY <1>4 DEF Deliver, SetFlags, Expunge
  <2> QED
    BY <1>2, <1>4, <2>1, ChangeGrows, ServerStep
<1>5. CASE Renumber
  <2>1. Count("renumber")
    BY <1>5 DEF Renumber
  <2>2. upsets'["renumber"] # 0
    BY <2>1, CountType DEF AllKinds, Typed
  <2> QED
    BY <2>2 DEF Orderly, Never
<1>6. CASE Crash \/ \E s \in Syncers : Abort(s) \/ Lost(s)
  <2>1. \E S : Forget(S)
    BY <1>6 DEF Crash, Abort, Lost
  <2>2. UNCHANGED <<server, files>>
    BY <1>6 DEF Crash, Abort, Lost
  <2> QED
    BY <1>2, <2>1, <2>2, ForgetStep
<1>7. ASSUME NEW s \in Syncers, ReadLocal(s) \/ Work(s) PROVE Inner'
  <2>1. CASE ReadLocal(s) \/ Examine(s) \/ Search(s)
    BY <1>2, <2>1, ReadStep
  <2>2. CASE List(s)
    BY <1>2, <2>2, ListStep
  <2>3. CASE \E u \in todo[s] : Fetch(s, u)
    BY <1>2, <2>3, FetchStep
  <2>4. CASE WriteEml(s) \/ Upsert(s) \/ CommitFolder(s) \/ \E c \in Messages : Remove(s, c)
    BY <1>2, <2>4, AloneStep
  <2>5. CASE WriteMeta(s) \/ Unlink(s)
    BY <1>2, <2>5, MetaStep
  <2>6. CASE WriteManifest(s)
    BY <1>2, <2>6, ManifestStep
  <2>7. CASE Lost(s)
    BY <1>6, <2>7
  <2> QED
    BY <1>7, <2>1, <2>2, <2>3, <2>4, <2>5, <2>6, <2>7 DEF Work
<1> QED
  BY <1>3, <1>4, <1>5, <1>6, <1>7 DEF Next, Environment

-----------------------------------------------------------------------------
(* One sync at a time: exact copies                                        *)

\* One sync at a time.
One == \A s, t \in Syncers : pc[s] # "idle" /\ pc[t] # "idle" => s = t

Alone == Never({"overlap", "again", "renumber"})

\* The file shows the flags of the message.
Fresh(u) == Same(meta[mailbox[u].name], mailbox[u])

\* What a sync has read is still what there is, until it begins to write.
Snapshot ==
  \A s \in Syncers : pc[s] \in {"examine", "search", "list"} =>
    local[s] = meta /\ since[s] = manifest

\* The message it is writing has not changed, or is above every watermark.
GotFresh ==
  \A s \in Syncers : pc[s] \in {"eml", "meta"} =>
    \A u \in Live : got[s].file.id = u =>
      \/ Same(got[s].file, mailbox[u])
      \/ mailbox[u].modseq > manifest.modseq /\ mailbox[u].modseq > seen[s].modseq

CoveringFresh ==
  \A s \in Syncers : pc[s] \in {"apply", "eml", "meta", "index", "unlink"} =>
    \A u \in Live : mailbox[u].modseq <= seen[s].modseq =>
      \/ u \in todo[s]
      \/ pc[s] \in {"eml", "meta"} /\ got[s].file.id = u
      \/ Fresh(u)

KeptFresh == \A u \in Live : mailbox[u].modseq <= manifest.modseq => Fresh(u)

AtCommit == \A s \in Syncers : pc[s] = "commit" => manifest = seen[s]

\* The server has not changed since EXAMINE.
Still(s) == seen[s].modseq = highest

StillListed == \A s \in Syncers : pc[s] = "list" /\ Still(s) => ids[s] \subseteq Live

GotLive ==
  \A s \in Syncers : pc[s] \in {"eml", "meta"} /\ Still(s) => got[s].file.id \in Live

\* Each file has its message, or is about to go.
Clearing ==
  \A s \in Syncers :
    pc[s] \in {"apply", "eml", "meta", "index", "unlink", "commit"} /\ Still(s) =>
      \A c \in Messages : meta[c] # NoFile =>
        \/ meta[c].id \in Live
        \/ pc[s] # "commit" /\ c \in gone[s]
        \/ pc[s] = "unlink" /\ got[s].name = c

\* Only a message that is gone has a .meta.json and no .eml.
EmlThere ==
  /\ \A c \in Messages : meta[c] # NoFile => c \in eml \/ Dead(c)
  /\ \A s \in Syncers : pc[s] = "meta" => got[s].name \in eml

Solo ==
  /\ Snapshot /\ GotFresh /\ CoveringFresh /\ KeptFresh /\ AtCommit
  /\ StillListed /\ GotLive /\ Clearing /\ EmlThere

\* Unless the daemon died or a write failed there is an .eml without a
\* .meta.json only while the message is being written.
NoStray ==
  /\ \A c \in eml : meta[c] # NoFile \/ \E s \in Syncers : pc[s] = "meta" /\ got[s].name = c
  /\ \A s \in Syncers : pc[s] = "unlink" => got[s].name \notin eml

\* The index is behind the files only while a message is written or removed.
Indexing ==
  /\ \A s \in Syncers : pc[s] = "index" => meta[got[s].name] = got[s].file
  /\ \A s \in Syncers : pc[s] = "unlink" => index[got[s].name] = NoRow
  /\ \A c \in Messages :
       \/ index[c] = Row(meta[c])
       \/ \E s \in Syncers : pc[s] \in {"index", "unlink"} /\ got[s].name = c

SoloInv ==
  /\ Never({"overlap"}) => One
  /\ Alone => Solo
  /\ Alone /\ Never({"crash", "disk"}) => NoStray
  /\ Never({"overlap", "crash", "index"}) => Indexing

LEMMA SoloInit == Init => SoloInv
<1> SUFFICES ASSUME Init PROVE SoloInv
  OBVIOUS
<1>1. \A s \in Syncers : pc[s] = "idle"
  BY DEF Init
<1>2. \A u \in DOMAIN mailbox : mailbox[u].modseq = 1
  BY DEF Init, Message
<1>3. meta = NoFiles /\ manifest = NoManifest /\ eml = {}
  BY DEF Init
<1>4. KeptFresh
  BY <1>2, <1>3 DEF KeptFresh, NoManifest, Live
<1>5. EmlThere
  BY <1>1, <1>3 DEF EmlThere, NoFiles
<1>6. Solo
  BY <1>1, <1>4, <1>5
  DEF Solo, Snapshot, GotFresh, CoveringFresh, AtCommit, StillListed, GotLive, Clearing
<1>7. \A c \in Messages : index[c] = Row(meta[c])
  BY <1>3 DEF Init, Row, NoFiles, NoFile, NoRow
<1> QED
  BY <1>1, <1>3, <1>6, <1>7 DEF SoloInv, One, NoStray, Indexing

\* An upset that has not happened after a step had not happened before it.
LEMMA NeverBefore ==
  ASSUME Typed, [Next]_vars, NEW K \in SUBSET AllKinds, Never(K)'
  PROVE  Never(K)
<1>1. \/ UNCHANGED upsets
      \/ \E k \in AllKinds : Count(k)
  BY DEF Next, Environment, Work, Deliver, SetFlags, Expunge, Renumber, ReadLocal, Examine,
         Search, List, Fetch, WriteEml, WriteMeta, Upsert, Remove, Unlink, WriteManifest,
         CommitFolder, Lost, Abort, IndexCall, Crash, vars, env, AllKinds
<1>2. ASSUME NEW k \in AllKinds, Count(k) PROVE Never(K)
  BY <1>2, CountType DEF Never, Typed
<1> QED
  BY <1>1, <1>2 DEF Never

\* A step of one syncer leaves the others where they are.
LEMMA WorkOfOne ==
  ASSUME Typed, NEW s \in Syncers, ReadLocal(s) \/ Work(s) \/ Abort(s)
  PROVE  \A t \in Syncers : t # s => pc'[t] = pc[t]
<1>1. CASE ReadLocal(s) \/ Examine(s) \/ Search(s) \/ List(s)
  BY <1>1 DEF ReadLocal, Examine, Search, List, Goto, Typed, TypeOK
<1>2. CASE (\E u \in todo[s] : Fetch(s, u)) \/ WriteEml(s) \/ WriteMeta(s) \/ Upsert(s)
  BY <1>2 DEF Fetch, WriteEml, WriteMeta, Upsert, Goto, Typed, TypeOK
<1>3. CASE (\E c \in Messages : Remove(s, c)) \/ Unlink(s) \/ WriteManifest(s) \/ CommitFolder(s)
  BY <1>3 DEF Remove, Unlink, WriteManifest, CommitFolder, Goto, Typed, TypeOK
<1>4. CASE Lost(s) \/ Abort(s)
  BY <1>4 DEF Lost, Abort, Forget
<1> QED
  BY <1>1, <1>2, <1>3, <1>4 DEF Work

LEMMA WorkIsBusy ==
  ASSUME NEW s \in Syncers, Work(s) \/ Abort(s)
  PROVE  pc[s] # "idle"
BY DEF Work, Examine, Search, List, Fetch, WriteEml, WriteMeta, Upsert, Remove, Unlink,
       WriteManifest, CommitFolder, Lost, Abort, Talking, Writing

\* Whoever works is the only one, before the step and after it.
LEMMA Alone1 ==
  ASSUME Typed, One, Never({"overlap"})', NEW s \in Syncers, ReadLocal(s) \/ Work(s) \/ Abort(s)
  PROVE  \A t \in Syncers : t # s => pc[t] = "idle" /\ pc'[t] = "idle"
<1>1. CASE ReadLocal(s)
  <2>1. ~Count("overlap")
    BY CountType DEF Never, AllKinds, Typed
  <2>2. \A t \in Syncers : pc[t] = "idle"
    BY <1>1, <2>1 DEF ReadLocal
  <2> QED
    BY <1>1, <2>2, WorkOfOne
<1>2. CASE Work(s) \/ Abort(s)
  BY <1>2, WorkIsBusy, WorkOfOne DEF One
<1> QED
  BY <1>1, <1>2

LEMMA OneStep ==
  ASSUME Typed, One, [Next]_vars, Never({"overlap"})'
  PROVE  One'
<1>1. ASSUME NEW s \in Syncers, ReadLocal(s) \/ Work(s) \/ Abort(s) PROVE One'
  BY <1>1, Alone1 DEF One
<1>2. CASE UNCHANGED pc
  BY <1>2 DEF One
<1>3. CASE Crash
  BY <1>3 DEF Crash, Forget, One
<1>4. CASE \/ \E c \in Messages, fl \in Flags : Deliver(c, fl)
           \/ \E u \in DOMAIN mailbox, fl \in Flags : SetFlags(u, fl)
           \/ \E u \in DOMAIN mailbox : Expunge(u)
           \/ Renumber
  BY <1>2, <1>4 DEF Deliver, SetFlags, Expunge, Renumber, Change
<1> QED
  BY <1>1, <1>2, <1>3, <1>4 DEF Next, Environment, vars

-----------------------------------------------------------------------------
(* The steps                                                               *)

LEMMA MailboxType ==
  ASSUME Typed
  PROVE  /\ highest \in Nat /\ manifest.modseq \in Nat
         /\ \A s \in Syncers : seen[s].modseq \in Nat
         /\ \A u \in DOMAIN mailbox : mailbox[u].modseq \in Nat /\ mailbox[u].name \in Messages
<1>1. \A u \in DOMAIN mailbox : mailbox[u] \in MessageType
  BY DEF Typed, TypeOK
<1> QED
  BY <1>1 DEF Typed, TypeOK, MessageType, ManifestType

\* What the server changes is above every watermark.
LEMMA SoloServer ==
  ASSUME Typed, Inner, Solo, Grown
  PROVE  Solo'
<1> USE DEF Grown, files, scratch
<1>1. /\ highest \in Nat /\ manifest.modseq \in Nat
      /\ \A s \in Syncers : seen[s].modseq \in Nat
      /\ \A u \in DOMAIN mailbox : mailbox[u].modseq \in Nat
      /\ highest' = highest + 1 /\ manifest.modseq <= highest
      /\ \A s \in Syncers : seen[s].modseq <= highest
      /\ UNCHANGED <<meta, manifest, eml, pc, local, since, seen, ids, todo, gone, got>>
  BY MailboxType DEF Inner, Ordered
<1>2. ASSUME NEW u \in Live'
      PROVE  \/ u \in Live /\ mailbox'[u] = mailbox[u]
             \/ mailbox'[u].modseq = highest + 1
  BY <1>2 DEF Live
<1>3. KeptFresh'
  BY <1>1, <1>2 DEF Solo, KeptFresh, Fresh
<1>4. GotFresh'
  BY <1>1, <1>2 DEF Solo, GotFresh
<1>5. CoveringFresh'
  BY <1>1, <1>2 DEF Solo, CoveringFresh, Fresh
<1>6. Snapshot' /\ AtCommit'
  BY <1>1 DEF Solo, Snapshot, AtCommit
<1>7. \A s \in Syncers : ~Still(s)'
  BY <1>1 DEF Still
<1>8. StillListed' /\ GotLive' /\ Clearing'
  BY <1>7 DEF StillListed, GotLive, Clearing
<1>9. EmlThere'
  <2>1. \A c : Dead(c) => Dead(c)'
    BY DEF Dead
  <2> QED
    BY <1>1, <2>1 DEF Solo, EmlThere
<1> QED
  BY <1>3, <1>4, <1>5, <1>6, <1>8, <1>9 DEF Solo

\* Only one syncer has anything to say after its step.
OnlyOne(s) == \A t \in Syncers : t # s => pc'[t] = "idle"

LEMMA SoloRead ==
  ASSUME Typed, Inner, Solo, NEW s \in Syncers, OnlyOne(s),
         ReadLocal(s) \/ Examine(s) \/ Search(s)
  PROVE  Solo'
<1> USE DEF server, files, OnlyOne
<1>1. /\ UNCHANGED <<mailbox, highest, meta, manifest, eml, got, todo>>
      /\ pc'[s] \in {"examine", "search", "list", "apply"}
  BY DEF ReadLocal, Examine, Search, scratch, Goto, Typed, TypeOK
<1>2. KeptFresh' /\ EmlThere'
  BY <1>1 DEF Solo, KeptFresh, EmlThere, Fresh, Live, Dead
<1>3. GotFresh' /\ GotLive' /\ AtCommit'
  BY <1>1 DEF GotFresh, GotLive, AtCommit
<1>4. CASE ReadLocal(s)
  <2>1. pc'[s] = "examine" /\ local'[s] = meta /\ since'[s] = manifest
    BY <1>4 DEF ReadLocal, Goto, Put, Typed, TypeOK
  <2>2. Snapshot' /\ CoveringFresh' /\ StillListed' /\ Clearing'
    BY <1>1, <2>1 DEF Snapshot, CoveringFresh, StillListed, Clearing
  <2> QED
    BY <1>2, <1>3, <2>2 DEF Solo
<1>5. CASE Examine(s)
  <2>1. /\ pc[s] = "examine" /\ pc'[s] = IF Live = {} THEN "apply" ELSE "search"
        /\ Live # {} => UNCHANGED <<local, since>>
        /\ Live = {} => gone'[s] = Removed(s, {})
    BY <1>5 DEF Examine, Goto, Put, Typed, TypeOK
  <2>2. Snapshot' /\ StillListed'
    BY <1>1, <2>1 DEF Solo, Snapshot, StillListed
  <2>3. CoveringFresh'
    BY <1>1, <2>1 DEF CoveringFresh, Live
  <2>4. Clearing'
    BY <1>1, <2>1 DEF Solo, Snapshot, Clearing, Removed
  <2> QED
    BY <1>2, <1>3, <2>2, <2>3, <2>4 DEF Solo
<1>6. CASE Search(s)
  <2>1. pc[s] = "search" /\ pc'[s] = "list" /\ ids'[s] = Live /\ UNCHANGED <<local, since>>
    BY <1>6 DEF Search, Goto, Put, Typed, TypeOK
  <2>2. Snapshot' /\ StillListed' /\ CoveringFresh' /\ Clearing'
    BY <1>1, <2>1 DEF Solo, Snapshot, StillListed, CoveringFresh, Clearing, Live
  <2> QED
    BY <1>2, <1>3, <2>2 DEF Solo
<1> QED
  BY <1>4, <1>5, <1>6

\* What the listing leaves alone has a file with its flags: it had one already,
\* or the last watermark vouches for it.
LEMMA SoloList ==
  ASSUME Typed, Inner, Solo, NEW s \in Syncers, OnlyOne(s), List(s)
  PROVE  Solo'
<1> USE DEF server, files, OnlyOne
<1>1. UNCHANGED <<mailbox, highest, meta, manifest, eml, got, seen>>
  BY DEF List
<1>2. PICK stem \in Stems(s) : todo' = Put(todo, s, ToFetch(s, stem))
  BY DEF List
<1>3. /\ pc[s] = "list" /\ pc'[s] = "apply" /\ gone'[s] = Removed(s, ids[s])
      /\ todo'[s] = ToFetch(s, stem)
  BY <1>2 DEF List, Goto, Put, Typed, TypeOK
<1>4. local[s] = meta /\ since[s] = manifest
  BY <1>3 DEF Solo, Snapshot
<1>5. ASSUME NEW u \in Live, mailbox[u].modseq <= seen[s].modseq, u \notin ToFetch(s, stem)
      PROVE  Fresh(u)
  <2>1. u \in ids[s]
    BY <1>3, <1>5 DEF Inner, Listed
  <2>2. u \in DOMAIN stem
    BY <1>5, <2>1 DEF ToFetch
  <2>3. stem[u] \in Messages /\ meta[stem[u]] # NoFile /\ meta[stem[u]].id = u
    BY <1>4, <2>2 DEF Stems
  <2>4. mailbox[u].name = stem[u]
    BY <2>3 DEF Inner, MetaKnown, Known
  <2>5. CASE u \in Changed(s)
    BY <1>4, <1>5, <2>2, <2>4, <2>5 DEF ToFetch, Fresh
  <2>6. CASE u \notin Changed(s)
    <3>1. mailbox[u].modseq <= manifest.modseq
      BY <1>4, <2>6, MailboxType DEF Changed, Live
    <3> QED
      BY <3>1 DEF Solo, KeptFresh
  <2> QED
    BY <2>5, <2>6
<1>6. CoveringFresh'
  BY <1>1, <1>3, <1>5 DEF CoveringFresh, Fresh, Live
<1>7. Clearing'
  <2>1. ASSUME Still(s), NEW c \in Messages, meta[c] # NoFile, meta[c].id \notin Live
        PROVE  c \in Removed(s, ids[s])
    BY <1>3, <1>4, <2>1 DEF Solo, StillListed, Removed
  <2> QED
    BY <1>1, <1>3, <2>1 DEF Clearing, Still, Live
<1>8. KeptFresh' /\ EmlThere'
  BY <1>1, <1>3 DEF Solo, KeptFresh, EmlThere, Fresh, Live, Dead
<1>9. Snapshot' /\ GotFresh' /\ GotLive' /\ AtCommit' /\ StillListed'
  BY <1>3 DEF Snapshot, GotFresh, GotLive, AtCommit, StillListed
<1> QED
  BY <1>6, <1>7, <1>8, <1>9 DEF Solo

LEMMA SoloFetch ==
  ASSUME Typed, Inner, Solo, NEW s \in Syncers, OnlyOne(s), NEW u \in todo[s], Fetch(s, u)
  PROVE  Solo'
<1> USE DEF server, files, OnlyOne
<1>1. UNCHANGED <<mailbox, highest, meta, manifest, eml, seen, local, since, ids, gone>>
  BY DEF Fetch
<1>2. /\ pc[s] = "apply" /\ pc'[s] = "eml" /\ todo'[s] = todo[s] \ {u} /\ u \in Live
      /\ got'[s].file = [id |-> u, flags |-> mailbox[u].flags, modseq |-> mailbox[u].modseq]
  BY DEF Fetch, Goto, Put, Typed, TypeOK
<1>3. GotFresh' /\ GotLive'
  BY <1>1, <1>2 DEF GotFresh, GotLive, Same, Live
<1>4. CoveringFresh'
  BY <1>1, <1>2 DEF Solo, CoveringFresh, Fresh, Live
<1>5. Clearing'
  BY <1>1, <1>2 DEF Solo, Clearing, Still, Live
<1>6. KeptFresh' /\ EmlThere'
  BY <1>1, <1>2 DEF Solo, KeptFresh, EmlThere, Fresh, Live, Dead
<1>7. Snapshot' /\ AtCommit' /\ StillListed'
  BY <1>2 DEF Snapshot, AtCommit, StillListed
<1> QED
  BY <1>3, <1>4, <1>5, <1>6, <1>7 DEF Solo

LEMMA SoloEml ==
  ASSUME Typed, Inner, Solo, NEW s \in Syncers, OnlyOne(s), WriteEml(s)
  PROVE  Solo'
<1> USE DEF server, scratch, OnlyOne
<1>1. /\ UNCHANGED <<mailbox, highest, meta, manifest, local, since, seen, ids, todo, gone, got>>
      /\ eml' = eml \cup {got[s].name}
  BY DEF WriteEml
<1>2. pc[s] = "eml" /\ pc'[s] = "meta"
  BY DEF WriteEml, Goto, Typed, TypeOK
<1>3. GotFresh' /\ GotLive'
  BY <1>1, <1>2 DEF Solo, GotFresh, GotLive, Still, Live
<1>4. CoveringFresh'
  BY <1>1, <1>2 DEF Solo, CoveringFresh, Fresh, Live
<1>5. Clearing'
  BY <1>1, <1>2 DEF Solo, Clearing, Still, Live
<1>6. KeptFresh' /\ EmlThere'
  BY <1>1, <1>2 DEF Solo, KeptFresh, EmlThere, Fresh, Live, Dead
<1>7. Snapshot' /\ AtCommit' /\ StillListed'
  BY <1>2 DEF Snapshot, AtCommit, StillListed
<1> QED
  BY <1>3, <1>4, <1>5, <1>6, <1>7 DEF Solo

LEMMA SoloMeta ==
  ASSUME Typed, Inner, Solo, NEW s \in Syncers, OnlyOne(s), WriteMeta(s)
  PROVE  Solo'
<1> USE DEF server, scratch, OnlyOne
<1> DEFINE file == got[s].file
           name == got[s].name
<1>1. /\ UNCHANGED <<mailbox, highest, manifest, eml, local, since, seen, ids, todo, gone, got>>
      /\ pc[s] = "meta" /\ pc'[s] = "index" /\ name \in Messages
      /\ \A c \in Messages : meta'[c] = IF c = name THEN file ELSE meta[c]
  BY DEF WriteMeta, Goto, Named, Typed, TypeOK
<1>2. Known(file, name)
  BY <1>1 DEF Inner, GotKnown
<1> HIDE DEF file, name
<1>3. ASSUME NEW u \in Live, mailbox[u].name = name
      PROVE  /\ u = file.id
             /\ Same(file, mailbox[u]) \/ (mailbox[u].modseq > manifest.modseq
                                            /\ mailbox[u].modseq > seen[s].modseq)
  BY <1>1, <1>2, <1>3 DEF Inner, Distinct, Known, Live, Solo, GotFresh, file
<1>4. ASSUME NEW u \in Live,
             mailbox[u].modseq <= manifest.modseq \/ mailbox[u].modseq <= seen[s].modseq,
             Fresh(u) \/ mailbox[u].name = name
      PROVE  Fresh(u)'
  <2>1. mailbox[u].name \in Messages /\ mailbox'[u] = mailbox[u]
    BY <1>1, MailboxType DEF Live
  <2>2. CASE mailbox[u].name = name
    <3>1. Same(file, mailbox[u])
      BY <1>3, <1>4, <2>2, MailboxType DEF Live
    <3> QED
      BY <1>1, <2>1, <2>2, <3>1 DEF Fresh, Same
  <2>3. CASE mailbox[u].name # name
    BY <1>1, <1>4, <2>1, <2>3 DEF Fresh, Same
  <2> QED
    BY <2>2, <2>3
<1>5. KeptFresh'
  BY <1>1, <1>4 DEF Solo, KeptFresh, Live
<1>6. CoveringFresh'
  <2>1. \A u \in Live : got[s].file.id = u => mailbox[u].name = name
    BY <1>2 DEF Known, file
  <2> QED
    BY <1>1, <1>4, <2>1 DEF Solo, CoveringFresh, Live
<1>7. Clearing'
  <2>1. Still(s) => file.id \in Live
    BY <1>1 DEF Solo, GotLive, file
  <2> QED
    BY <1>1, <2>1 DEF Solo, Clearing, Still, Live
<1>8. EmlThere'
  <2>1. name \in eml
    BY <1>1 DEF Solo, EmlThere, name
  <2>2. \A c \in Messages : meta'[c] # NoFile => c \in eml' \/ Dead(c)'
    BY <1>1, <2>1 DEF Solo, EmlThere, Dead
  <2> QED
    BY <1>1, <2>2 DEF EmlThere
<1>9. Snapshot' /\ AtCommit' /\ StillListed' /\ GotFresh' /\ GotLive'
  BY <1>1 DEF Snapshot, AtCommit, StillListed, GotFresh, GotLive
<1> QED
  BY <1>5, <1>6, <1>7, <1>8, <1>9 DEF Solo

LEMMA SoloUpsert ==
  ASSUME Typed, Inner, Solo, NEW s \in Syncers, OnlyOne(s), Upsert(s)
  PROVE  Solo'
<1> USE DEF server, OnlyOne
<1>1. /\ UNCHANGED <<mailbox, highest, meta, manifest, eml, local, since, seen, ids, todo, gone>>
      /\ pc[s] = "index" /\ pc'[s] = "apply"
  BY DEF Upsert, Goto, Typed, TypeOK
<1>2. CoveringFresh'
  BY <1>1 DEF Solo, CoveringFresh, Fresh, Live
<1>3. Clearing'
  BY <1>1 DEF Solo, Clearing, Still, Live
<1>4. KeptFresh' /\ EmlThere'
  BY <1>1 DEF Solo, KeptFresh, EmlThere, Fresh, Live, Dead
<1>5. Snapshot' /\ AtCommit' /\ StillListed' /\ GotFresh' /\ GotLive'
  BY <1>1 DEF Snapshot, AtCommit, StillListed, GotFresh, GotLive
<1> QED
  BY <1>2, <1>3, <1>4, <1>5 DEF Solo

LEMMA SoloRemove ==
  ASSUME Typed, Inner, Solo, NEW s \in Syncers, OnlyOne(s), NEW c \in Messages, Remove(s, c)
  PROVE  Solo'
<1> USE DEF server, OnlyOne
<1>1. /\ UNCHANGED <<mailbox, highest, meta, manifest, local, since, seen, ids, todo>>
      /\ pc[s] = "apply" /\ pc'[s] = "unlink" /\ c \in gone[s] /\ eml' = eml \ {c}
      /\ gone'[s] = gone[s] \ {c} /\ got'[s].name = c
  BY DEF Remove, Goto, Put, NoGot, Typed, TypeOK
<1>2. Dead(c)
  BY <1>1 DEF Inner, GoneDead
<1>3. CoveringFresh'
  BY <1>1 DEF Solo, CoveringFresh, Fresh, Live
<1>4. Clearing'
  BY <1>1 DEF Solo, Clearing, Still, Live
<1>5. KeptFresh'
  BY <1>1 DEF Solo, KeptFresh, Fresh, Live
<1>6. EmlThere'
  BY <1>1, <1>2 DEF Solo, EmlThere, Dead
<1>7. Snapshot' /\ AtCommit' /\ StillListed' /\ GotFresh' /\ GotLive'
  BY <1>1 DEF Snapshot, AtCommit, StillListed, GotFresh, GotLive
<1> QED
  BY <1>3, <1>4, <1>5, <1>6, <1>7 DEF Solo

LEMMA SoloUnlink ==
  ASSUME Typed, Inner, Solo, NEW s \in Syncers, OnlyOne(s), Unlink(s)
  PROVE  Solo'
<1> USE DEF server, OnlyOne
<1> DEFINE name == got[s].name
<1>1. /\ UNCHANGED <<mailbox, highest, manifest, eml, local, since, seen, ids, todo, gone>>
      /\ pc[s] = "unlink" /\ pc'[s] = "apply" /\ name \in Messages
      /\ \A c \in Messages : meta'[c] = IF c = name THEN NoFile ELSE meta[c]
  BY DEF Unlink, Goto, Put, Named, Typed, TypeOK
<1>2. Dead(name)
  BY <1>1 DEF Inner, GotKnown
<1>3. ASSUME NEW u \in Live, Fresh(u) PROVE Fresh(u)'
  <2>1. mailbox[u].name # name /\ mailbox[u].name \in Messages
    BY <1>2, MailboxType DEF Dead, Inner, Distinct, Live
  <2> QED
    BY <1>1, <1>3, <2>1 DEF Fresh, Same
<1>4. CoveringFresh'
  BY <1>1, <1>3 DEF Solo, CoveringFresh, Live
<1>5. Clearing'
  BY <1>1 DEF Solo, Clearing, Still, Live
<1>6. KeptFresh'
  BY <1>1, <1>3 DEF Solo, KeptFresh, Live
<1>7. EmlThere'
  BY <1>1 DEF Solo, EmlThere, Dead
<1>8. Snapshot' /\ AtCommit' /\ StillListed' /\ GotFresh' /\ GotLive'
  BY <1>1 DEF Snapshot, AtCommit, StillListed, GotFresh, GotLive
<1> QED
  BY <1>4, <1>5, <1>6, <1>7, <1>8 DEF Solo

\* The watermark moves when everything below it is fetched.
LEMMA SoloManifest ==
  ASSUME Typed, Inner, Solo, NEW s \in Syncers, OnlyOne(s), WriteManifest(s) \/ CommitFolder(s)
  PROVE  Solo'
<1> USE DEF server, OnlyOne
<1>1. UNCHANGED <<mailbox, highest, meta, eml, gone>>
  BY DEF WriteManifest, CommitFolder, files, scratch
<1>2. EmlThere'
  BY <1>1 DEF WriteManifest, CommitFolder, Goto, Solo, EmlThere, Dead, Typed, TypeOK
<1>3. CASE WriteManifest(s)
  <2>1. /\ pc[s] = "apply" /\ pc'[s] = "commit" /\ manifest' = seen[s] /\ todo[s] = {}
        /\ gone[s] = {} /\ UNCHANGED seen
    BY <1>3 DEF WriteManifest, Goto, scratch, Typed, TypeOK
  <2>2. KeptFresh'
    BY <1>1, <2>1 DEF Solo, CoveringFresh, KeptFresh, Fresh, Live
  <2>3. Clearing'
    BY <1>1, <2>1 DEF Solo, Clearing, Still, Live
  <2>4. /\ Snapshot' /\ AtCommit' /\ StillListed' /\ GotFresh' /\ GotLive' /\ CoveringFresh'
    BY <2>1 DEF Snapshot, AtCommit, StillListed, GotFresh, GotLive, CoveringFresh
  <2> QED
    BY <1>2, <2>2, <2>3, <2>4 DEF Solo
<1>4. CASE CommitFolder(s)
  <2>1. pc'[s] = "idle" /\ UNCHANGED manifest
    BY <1>4 DEF CommitFolder, Goto, files, Typed, TypeOK
  <2>2. KeptFresh'
    BY <1>1, <2>1 DEF Solo, KeptFresh, Fresh, Live
  <2>3. /\ Snapshot' /\ AtCommit' /\ StillListed' /\ GotFresh' /\ GotLive' /\ CoveringFresh'
        /\ Clearing'
    BY <2>1 DEF Snapshot, AtCommit, StillListed, GotFresh, GotLive, CoveringFresh, Clearing
  <2> QED
    BY <1>2, <2>2, <2>3 DEF Solo
<1> QED
  BY <1>3, <1>4

\* Where a sync ends no one is left.
LEMMA SoloForget ==
  ASSUME Typed, Inner, Solo, \A t \in Syncers : pc'[t] = "idle", UNCHANGED <<server, files>>
  PROVE  Solo'
<1>1. UNCHANGED <<mailbox, highest, meta, manifest, eml>>
  BY DEF server, files
<1>2. KeptFresh' /\ EmlThere'
  BY <1>1 DEF Solo, KeptFresh, EmlThere, Fresh, Live, Dead
<1>3. /\ Snapshot' /\ AtCommit' /\ StillListed' /\ GotFresh' /\ GotLive' /\ CoveringFresh'
      /\ Clearing'
  BY DEF Snapshot, AtCommit, StillListed, GotFresh, GotLive, CoveringFresh, Clearing
<1> QED
  BY <1>2, <1>3 DEF Solo

\* Alone, the syncer that works starts from an exact account of what it read.
LEMMA SoloStep ==
  ASSUME Typed, Inner, One, Solo, [Next]_vars, Alone'
  PROVE  Solo'
<1>1. Never({"overlap"})'
  BY DEF Alone, Never
<1>2. ASSUME NEW s \in Syncers, ReadLocal(s) \/ Work(s) \/ Abort(s) PROVE OnlyOne(s)
  BY <1>1, <1>2, Alone1 DEF OnlyOne
<1>3. CASE UNCHANGED vars
  BY <1>3
  DEF vars, server, files, scratch, Solo, Snapshot, GotFresh, CoveringFresh, KeptFresh, AtCommit,
      StillListed, GotLive, Clearing, EmlThere, Fresh, Still, Dead, Live
<1>4. CASE \/ \E c \in Messages, fl \in Flags : Deliver(c, fl)
           \/ \E u \in DOMAIN mailbox, fl \in Flags : SetFlags(u, fl)
           \/ \E u \in DOMAIN mailbox : Expunge(u)
  <2>1. Change /\ Orderly'
    BY <1>4 DEF Deliver, SetFlags, Expunge, Alone, Orderly, Never
  <2> QED
    BY <1>4, <2>1, ChangeGrows, SoloServer
<1>5. ~Renumber
  BY CountType DEF Renumber, Alone, Never, AllKinds, Typed
<1>6. ASSUME NEW s \in Syncers, Lost(s) \/ Abort(s) PROVE Solo'
  <2>1. \A t \in Syncers : pc'[t] = "idle"
    BY <1>2, <1>6 DEF OnlyOne, Lost, Abort, Forget, Work
  <2> QED
    BY <1>6, <2>1, SoloForget DEF Lost, Abort
<1>7. CASE Crash
  BY <1>7, SoloForget DEF Crash, Forget
<1>8. ASSUME NEW s \in Syncers, ReadLocal(s) \/ Work(s) PROVE Solo'
  BY <1>2, <1>6, <1>8, SoloRead, SoloList, SoloFetch, SoloEml, SoloMeta, SoloUpsert, SoloRemove,
     SoloUnlink, SoloManifest DEF Work
<1> QED
  BY <1>3, <1>4, <1>5, <1>6, <1>7, <1>8 DEF Next, Environment

-----------------------------------------------------------------------------
(* What the sync writes beside the .meta.json: the .eml and the index row  *)

\* A sync does not end between a .meta.json and its row, and between an .eml
\* and its .meta.json only if a write fails.
LEMMA NoMiddle ==
  ASSUME Typed, NEW s \in Syncers, Lost(s) \/ Abort(s)
  PROVE  /\ pc[s] \notin {"index", "unlink"}
         /\ pc[s] = "meta" => upsets'["disk"] # 0
<1>1. CASE Lost(s)
  BY <1>1 DEF Lost
<1>2. CASE Talking(s) /\ Abort(s)
  BY <1>2 DEF Talking
<1>3. CASE Writing(s) /\ Count("disk")
  BY <1>3, CountType DEF Writing, AllKinds, Typed
<1> QED
  BY <1>1, <1>2, <1>3 DEF Abort

\* Any step but a write or a removal.
LEMMA NoStrayFrame ==
  ASSUME Typed, NoStray, UNCHANGED <<eml, meta>>,
         \A t \in Syncers : pc[t] = "meta" => pc'[t] = "meta" /\ got'[t] = got[t],
         \A t \in Syncers : pc'[t] = "unlink" => pc[t] = "unlink" /\ got'[t] = got[t]
  PROVE  NoStray'
BY DEF NoStray

LEMMA NoStrayStep ==
  ASSUME Typed, Inner, Inner', One, NoStray, [Next]_vars, (Alone /\ Never({"crash", "disk"}))'
  PROVE  NoStray'
<1> USE DEF server
<1>1. Never({"overlap"})'
  BY DEF Alone, Never
<1>2. ASSUME NEW s \in Syncers, ReadLocal(s) \/ Work(s) \/ Abort(s)
      PROVE  \A t \in Syncers : t # s => pc[t] = "idle" /\ pc'[t] = "idle"
  BY <1>1, <1>2, Alone1
<1>3. CASE UNCHANGED <<files, pc, scratch>>
  BY <1>3, NoStrayFrame DEF files, scratch
<1>4. ~Renumber /\ ~Crash
  BY CountType DEF Renumber, Crash, Alone, Never, AllKinds, Typed
<1>5. ASSUME NEW s \in Syncers, Lost(s) \/ Abort(s) PROVE NoStray'
  <2>1. pc[s] \notin {"meta", "unlink"} /\ pc'[s] = "idle" /\ UNCHANGED <<eml, meta>>
    BY <1>5, NoMiddle DEF Lost, Abort, Forget, Never, files
  <2> QED
    BY <1>2, <1>5, <2>1, NoStrayFrame DEF Work
<1>6. ASSUME NEW s \in Syncers,
             ReadLocal(s) \/ Examine(s) \/ Search(s) \/ List(s) \/ Upsert(s) \/ WriteManifest(s)
               \/ CommitFolder(s) \/ \E u \in todo[s] : Fetch(s, u)
      PROVE  NoStray'
  <2>1. /\ UNCHANGED <<eml, meta>> /\ pc[s] \notin {"meta", "unlink"}
        /\ pc'[s] \notin {"meta", "unlink"}
    BY <1>6 DEF ReadLocal, Examine, Search, List, Fetch, Upsert, WriteManifest, CommitFolder,
                Goto, files, Typed, TypeOK
  <2> QED
    BY <1>2, <1>6, <2>1, NoStrayFrame DEF Work
<1>7. ASSUME NEW s \in Syncers, WriteEml(s) PROVE NoStray'
  <2>1. /\ eml' = eml \cup {got[s].name} /\ UNCHANGED <<meta, got>>
        /\ pc[s] = "eml" /\ pc'[s] = "meta"
    BY <1>7 DEF WriteEml, Goto, scratch, Typed, TypeOK
  <2> QED
    BY <1>2, <1>7, <2>1 DEF NoStray, Work
<1>8. ASSUME NEW s \in Syncers, WriteMeta(s) PROVE NoStray'
  <2>1. /\ UNCHANGED <<eml, got>> /\ pc[s] = "meta" /\ pc'[s] = "index" /\ got[s].name \in Messages
        /\ meta'[got[s].name] = got[s].file
        /\ \A c \in Messages : c # got[s].name => meta'[c] = meta[c]
    BY <1>8 DEF WriteMeta, Goto, scratch, Named, Typed, TypeOK
  <2>2. got[s].file # NoFile
    <3>1. got[s].file.id \in DOMAIN mailbox
      BY <2>1 DEF Inner, GotKnown, Known
    <3>2. 0 \notin DOMAIN mailbox
      BY DEF Typed, TypeOK
    <3> QED
      BY <3>1, <3>2 DEF NoFile
  <2>3. eml \subseteq Messages
    BY DEF Typed, TypeOK
  <2> QED
    BY <1>2, <1>8, <2>1, <2>2, <2>3 DEF NoStray, Work
<1>9. ASSUME NEW s \in Syncers, NEW c \in Messages, Remove(s, c) PROVE NoStray'
  <2>1. /\ UNCHANGED meta /\ eml' = eml \ {c} /\ pc[s] = "apply" /\ pc'[s] = "unlink"
        /\ got'[s].name = c
    BY <1>9 DEF Remove, Goto, Put, NoGot, Typed, TypeOK
  <2> QED
    BY <1>2, <1>9, <2>1 DEF NoStray, Work
<1>10. ASSUME NEW s \in Syncers, Unlink(s) PROVE NoStray'
  <2>1. /\ UNCHANGED eml /\ pc[s] = "unlink" /\ pc'[s] = "apply"
        /\ \A c \in Messages : c # got[s].name => meta'[c] = meta[c]
        /\ got[s].name \notin eml /\ eml \subseteq Messages
    BY <1>10 DEF Unlink, Goto, NoStray, Typed, TypeOK
  <2> QED
    BY <1>2, <1>10, <2>1 DEF NoStray, Work
<1> QED
  BY <1>3, <1>4, <1>5, <1>6, <1>7, <1>8, <1>9, <1>10
  DEF Next, Environment, Work, Deliver, SetFlags, Expunge, Change, vars

LEMMA IndexingFrame ==
  ASSUME Typed, Indexing, UNCHANGED <<index, meta>>,
         \A t \in Syncers : pc[t] \in {"index", "unlink"} \/ pc'[t] \in {"index", "unlink"} =>
           pc'[t] = pc[t] /\ got'[t] = got[t]
  PROVE  Indexing'
BY DEF Indexing, Row

\* With nothing half written the rows are those of the files.
LEMMA IndexingSettled ==
  ASSUME \A t \in Syncers : pc[t] \notin {"index", "unlink"}
  PROVE  Indexing <=> \A c \in Messages : index[c] = Row(meta[c])
BY DEF Indexing

\* Copies and new UIDs do not matter here, only that no two syncs overlap, that
\* none dies between file and row and that no call to the index fails.
LEMMA IndexingStep ==
  ASSUME Typed, Typed', One, Indexing, [Next]_vars,
         Never({"overlap", "crash", "index"})'
  PROVE  Indexing'
<1> USE DEF server
<1>1. Never({"overlap"})'
  BY DEF Never
<1>2. ASSUME NEW s \in Syncers, ReadLocal(s) \/ Work(s) \/ Abort(s)
      PROVE  \A t \in Syncers : t # s => pc[t] = "idle" /\ pc'[t] = "idle"
  BY <1>1, <1>2, Alone1
<1>3. CASE UNCHANGED <<files, pc, scratch>>
  BY <1>3, IndexingFrame DEF files, scratch
<1>4. ~Crash
  BY CountType DEF Crash, Never, AllKinds, Typed
<1>0. ~Count("index")
  BY CountType DEF Never, AllKinds, Typed
<1>5. ASSUME NEW s \in Syncers, Lost(s) \/ Abort(s) PROVE Indexing'
  <2>1. pc[s] \notin {"index", "unlink"} /\ pc'[s] = "idle" /\ UNCHANGED <<index, meta>>
    BY <1>5, NoMiddle DEF Lost, Abort, Forget, files
  <2> QED
    BY <1>2, <1>5, <2>1, IndexingFrame DEF Work
<1>6. ASSUME NEW s \in Syncers,
             ReadLocal(s) \/ Examine(s) \/ Search(s) \/ List(s) \/ WriteEml(s) \/ WriteManifest(s)
               \/ CommitFolder(s) \/ \E u \in todo[s] : Fetch(s, u)
      PROVE  Indexing'
  <2>1. /\ UNCHANGED <<index, meta>>
        /\ pc[s] \notin {"index", "unlink"} /\ pc'[s] \notin {"index", "unlink"}
    BY <1>6 DEF ReadLocal, Examine, Search, List, Fetch, WriteEml, WriteManifest, CommitFolder,
                Goto, files, Typed, TypeOK
  <2> QED
    BY <1>2, <1>6, <2>1, IndexingFrame DEF Work
<1>7. ASSUME NEW s \in Syncers, WriteMeta(s) PROVE Indexing'
  <2>1. /\ UNCHANGED <<index, got>> /\ pc[s] = "meta" /\ pc'[s] = "index"
        /\ got[s].name \in Messages /\ meta'[got[s].name] = got[s].file
        /\ \A c \in Messages : c # got[s].name => meta'[c] = meta[c]
    BY <1>7 DEF WriteMeta, Goto, scratch, Named, Typed, TypeOK
  <2>2. \A c \in Messages : index[c] = Row(meta[c])
    BY <1>2, <1>7, <2>1, IndexingSettled DEF Work
  <2> QED
    BY <1>2, <1>7, <2>1, <2>2 DEF Indexing, Row, Work
<1>8. ASSUME NEW s \in Syncers, Upsert(s) PROVE Indexing'
  <2>1. /\ UNCHANGED meta /\ pc[s] = "index" /\ pc'[s] = "apply" /\ got[s].name \in Messages
        /\ \A c \in Messages :
             index'[c] = IF c = got[s].name THEN Row(got[s].file) ELSE index[c]
    BY <1>0, <1>8 DEF Upsert, IndexCall, Goto, Named, Typed, TypeOK
  <2>2. meta[got[s].name] = got[s].file
    BY <2>1 DEF Indexing
  <2>3. ASSUME NEW c \in Messages, c # got[s].name PROVE index[c] = Row(meta[c])
    BY <1>2, <1>8, <2>1, <2>3 DEF Indexing, Work
  <2>4. \A c \in Messages : index'[c] = Row(meta'[c])
    BY <2>1, <2>2, <2>3 DEF Row
  <2>5. \A t \in Syncers : pc'[t] \notin {"index", "unlink"}
    BY <1>2, <1>8, <2>1 DEF Work
  <2> QED
    BY <2>4, <2>5 DEF Indexing, Row
<1>9. ASSUME NEW s \in Syncers, NEW c \in Messages, Remove(s, c) PROVE Indexing'
  <2>1. /\ UNCHANGED meta /\ pc[s] = "apply" /\ pc'[s] = "unlink" /\ got'[s].name = c
        /\ \A d \in Messages : index'[d] = IF d = c THEN NoRow ELSE index[d]
    BY <1>0, <1>9 DEF Remove, IndexCall, Goto, Put, NoGot, Typed, TypeOK
  <2>2. \A d \in Messages : index[d] = Row(meta[d])
    BY <1>2, <1>9, <2>1, IndexingSettled DEF Work
  <2> QED
    BY <1>2, <1>9, <2>1, <2>2 DEF Indexing, Row, Work
<1>10. ASSUME NEW s \in Syncers, Unlink(s) PROVE Indexing'
  <2>1. /\ UNCHANGED index /\ pc[s] = "unlink" /\ pc'[s] = "apply"
        /\ \A c \in Messages : meta'[c] = IF c = got[s].name THEN NoFile ELSE meta[c]
    BY <1>10 DEF Unlink, Goto, Typed, TypeOK
  <2>2. Row(NoFile) = NoRow
    BY DEF Row, NoFile, NoRow
  <2>3. index[got[s].name] = NoRow
    BY <2>1 DEF Indexing
  <2>4. ASSUME NEW c \in Messages, c # got[s].name PROVE index[c] = Row(meta[c])
    BY <1>2, <1>10, <2>1, <2>4 DEF Indexing, Work
  <2>5. ASSUME NEW c \in Messages PROVE index'[c] = Row(meta'[c])
    <3>1. CASE c = got[s].name
      BY <2>1, <2>2, <2>3, <3>1
    <3>2. CASE c # got[s].name
      <4>1. meta'[c] = meta[c] /\ index'[c] = index[c]
        BY <2>1, <3>2
      <4> QED
        BY <2>4, <3>2, <4>1
    <3> QED
      BY <3>1, <3>2
  <2>6. \A t \in Syncers : pc'[t] \notin {"index", "unlink"}
    BY <1>2, <1>10, <2>1 DEF Work
  <2> QED
    BY <2>5, <2>6 DEF Indexing, Row
<1> QED
  BY <1>3, <1>4, <1>5, <1>6, <1>7, <1>8, <1>9, <1>10
  DEF Next, Environment, Work, Deliver, SetFlags, Expunge, Renumber, Change, vars

LEMMA SoloInvStep ==
  ASSUME IInv, SoloInv, [Next]_vars
  PROVE  SoloInv'
<1>1. Typed /\ Typed' /\ (Orderly => Inner) /\ (Orderly' => Inner')
  BY InnerStep DEF IInv
<1>2. ASSUME NEW K \in SUBSET AllKinds, Never(K)' PROVE Never(K)
  BY <1>1, <1>2, NeverBefore
<1>3. ASSUME Never({"overlap"})' PROVE One /\ One'
  <2>1. One
    BY <1>2, <1>3 DEF SoloInv, AllKinds
  <2> QED
    BY <1>1, <1>3, <2>1, OneStep
<1>4. ASSUME Alone' PROVE One /\ Solo /\ Solo' /\ Inner /\ Inner'
  <2>1. Never({"overlap"})' /\ Orderly'
    BY <1>4 DEF Alone, Never, Orderly
  <2>2. Alone /\ Orderly
    BY <1>2, <1>4, <2>1 DEF Alone, Orderly, AllKinds
  <2>3. One /\ Solo /\ Inner /\ Inner'
    BY <1>1, <1>3, <2>1, <2>2 DEF SoloInv
  <2> QED
    BY <1>1, <1>4, <2>3, SoloStep
<1>5. ASSUME (Alone /\ Never({"crash", "disk"}))' PROVE NoStray'
  <2>1. Alone /\ Never({"crash", "disk"})
    BY <1>2, <1>5 DEF Alone, AllKinds
  <2> QED
    BY <1>1, <1>4, <1>5, <2>1, NoStrayStep DEF SoloInv
<1>6. ASSUME Never({"overlap", "crash", "index"})' PROVE Indexing'
  <2>1. Never({"overlap", "crash", "index"}) /\ Never({"overlap"})'
    BY <1>2, <1>6 DEF Never, AllKinds
  <2> QED
    BY <1>1, <1>3, <1>6, <2>1, IndexingStep DEF SoloInv
<1> QED
  BY <1>3, <1>4, <1>5, <1>6 DEF SoloInv

\* A sync that ends well over a server that stood still: its watermark covers
\* every message, so each file is the message's.
LEMMA SoloExact ==
  ASSUME Typed, Inner, Solo, One, Never({"crash", "disk"}) => NoStray,
         NEW s \in Syncers, pc[s] = "commit",
         seen[s] = [validity |-> validity, modseq |-> highest]
  PROVE  Mirrored
<1>1. manifest.modseq = highest /\ Still(s)
  BY DEF Solo, AtCommit, Still
<1>2. ASSUME NEW u \in Live PROVE Backed(u) /\ Fresh(u)
  BY <1>1 DEF Inner, Ordered, Kept, Solo, KeptFresh, Live
<1>3. ASSUME NEW c \in Messages, meta[c] # NoFile
      PROVE  meta[c].id \in Live /\ mailbox[meta[c].id].name = c
  BY <1>1, <1>3 DEF Solo, Clearing, Inner, MetaKnown, Known
<1>4. ASSUME NEW c \in Messages PROVE meta[c] = FileOf(c)
  <2>1. CASE \E u \in Live : mailbox[u].name = c
    <3>1. PICK u \in Live : mailbox[u].name = c
      BY <2>1
    <3>2. u = CHOOSE v \in Live : mailbox[v].name = c
      BY <3>1 DEF Inner, Distinct, Live
    <3>3. FileOf(c) = [id |-> u, flags |-> mailbox[u].flags, modseq |-> mailbox[u].modseq]
      BY <2>1, <3>2 DEF FileOf
    <3>4. /\ meta[c].id = u /\ meta[c].flags = mailbox[u].flags
          /\ meta[c].modseq = mailbox[u].modseq
      BY <1>2, <3>1 DEF Backed, Fresh, Same
    <3>5. meta[c] \in FileType
      BY DEF Typed, TypeOK
    <3> QED
      BY <3>3, <3>4, <3>5 DEF FileType
  <2>2. CASE ~\E u \in Live : mailbox[u].name = c
    BY <1>3, <2>2 DEF FileOf
  <2> QED
    BY <2>1, <2>2
<1>5. ASSUME NEW c \in Messages, meta[c] # NoFile PROVE c \in eml
  <2>1. ~Dead(c)
    BY <1>3, <1>5 DEF Dead, Inner, Distinct, Live
  <2> QED
    BY <1>5, <2>1 DEF Solo, EmlThere
<1>6. ASSUME Never({"crash", "disk"}), NEW c \in eml PROVE meta[c] # NoFile
  BY <1>6 DEF NoStray, One
<1>7. eml \subseteq Messages
  BY DEF Typed, TypeOK
<1> QED
  BY <1>4, <1>5, <1>6, <1>7 DEF Mirrored

-----------------------------------------------------------------------------
(* The theorems                                                            *)

\* Every variable keeps its type, and a syncer that writes or removes a
\* message knows which one.
THEOREM TypeCorrect == Spec => []TypeOK
<1>1. Init => Typed
  BY TypeInit
<1>2. Typed /\ [Next]_vars => Typed'
  BY TypeStep
<1>3. Typed => TypeOK
  BY DEF Typed
<1> QED
  BY <1>1, <1>2, <1>3, PTL DEF Spec

\* The invariant the next theorem rests on, at every step of every syncer.
THEOREM Inductive == Spec => []IInv
<1>1. Init => IInv
  BY TypeInit, InnerInit DEF IInv
<1>2. IInv /\ [Next]_vars => IInv'
  BY InnerStep
<1> QED
  BY <1>1, <1>2, PTL DEF Spec

\* However syncs overlap, fail or die, the watermark in `_folder.json` never
\* passes a message that has no file, for any syncers, messages and bounds.
THEOREM NothingStranded == Spec => []NoneStranded
<1>1. IInv => NoneStranded
  <2> SUFFICES ASSUME Typed, Orderly => Inner PROVE NoneStranded
    BY DEF IInv
  <2> QED
    BY DEF NoneStranded, Orderly, Inner, Kept, Backed, MetaKnown, Live, NoFile
<1> QED
  BY <1>1, Inductive, PTL

\* With one sync at a time and no copies or new UIDs: the invariant that the
\* next theorems rest on.
THEOREM SoloInductive == Spec => [](IInv /\ SoloInv)
<1>1. Init => IInv /\ SoloInv
  BY TypeInit, InnerInit, SoloInit DEF IInv
<1>2. IInv /\ SoloInv /\ [Next]_vars => IInv' /\ SoloInv'
  BY InnerStep, SoloInvStep
<1> QED
  BY <1>1, <1>2, PTL DEF Spec

\* As long as one sync runs at a time, the watermark never passes a change of
\* flags that the file does not show, whatever calls fail and wherever the
\* daemon dies.
THEOREM NothingStale == Spec => []NoneStale
<1>1. IInv /\ SoloInv => NoneStale
  BY DEF NoneStale, SoloInv, Alone, Solo, KeptFresh, Fresh
<1> QED
  BY <1>1, SoloInductive, PTL

\* A sync that reaches its commit over a server that stood still since EXAMINE
\* has made an exact copy, for any number of messages and earlier changes.
THEOREM CopiesAreExact == Spec => []ExactCopyWhenCalm
<1>1. IInv /\ SoloInv => ExactCopyWhenCalm
  <2> SUFFICES ASSUME IInv, SoloInv, Never({"overlap", "again", "renumber"}),
                      NEW s \in Syncers, pc[s] = "commit",
                      seen[s] = [validity |-> validity, modseq |-> highest]
               PROVE  Mirrored
    BY DEF ExactCopyWhenCalm, ExactCopy
  <2>1. Typed /\ Inner
    BY DEF IInv, Orderly, Never
  <2>2. One /\ Solo
    BY DEF SoloInv, Alone, Never
  <2>3. Never({"crash", "disk"}) => NoStray
    BY DEF SoloInv, Alone, Never
  <2> QED
    BY <2>1, <2>2, <2>3, SoloExact
<1> QED
  BY <1>1, SoloInductive, PTL

\* Between syncs the search index agrees with the files, whatever the server
\* does, copies of a message and new UIDs included, and whatever calls to it
\* and local writes fail: unless syncs overlapped, the daemon died or a call to
\* the index itself failed.
THEOREM IndexAgreesBetweenSyncs == Spec => []IndexAgrees
<1>1. SoloInv => IndexAgrees
  BY IndexingSettled DEF IndexAgrees, SoloInv
<1> QED
  BY <1>1, SoloInductive, PTL

=============================================================================
