---------------------------- MODULE Tools_proofs ----------------------------
(* Proofs about the tools of the MCP server, for any account, any number of *)
(* sessions and every policy.                                               *)
EXTENDS Tools, TLAPS

-----------------------------------------------------------------------------
(* The permission matrix                                                   *)

\* A place that may be read or written is part of what makes a tool listed.
LEMMA ScopedIsAny ==
  ASSUME NEW p, NEW res, NEW at
  PROVE  /\ MayRead(p, res, at) => HasAnyRead(p, res)
         /\ MayWrite(p, res, at) => HasAnyWrite(p, res)
BY DEF MayRead, MayWrite, GetScoped, HasAnyRead, HasAnyWrite

LEMMA WriteNeedsListing ==
  ASSUME NEW p, NEW t \in Tools, NEW at, NEW to, Allows(p, t, at, to)
  PROVE  Listed(p, t)
<1> USE DEF Reads, Writes, EmailReads, EmailWrites, CalendarReads, CalendarWrites,
        ContactsReads, ContactsWrites, SieveReads, SieveWrites
<1>1. t \in Reads \cup {"restore_path_dry_run"} => (Listed(p, t) <=> HasAnyRead(p, ResourceOf(t)))
  BY DEF Listed
<1>2. t \in Writes \cup {"restore_path_apply"} => (Listed(p, t) <=> HasAnyWrite(p, ResourceOf(t)))
  BY DEF Listed
<1>3. CASE t \in ItemRestores
  <2>1. AllowsItemRestore(p, t, at)
    BY <1>3 DEF Allows, Restores, MailRestores, DraftTools, ItemRestores, BulkTools
  <2>2. CASE t \in Writes
    BY <1>2, <2>1, <2>2, ScopedIsAny DEF AllowsItemRestore
  <2>3. CASE t = "restore_calendar_event_dry_run"
    <3>1. MayRead(p, "calendar", at) /\ ResourceOf(t) = "calendar"
      BY <2>1, <2>3 DEF AllowsItemRestore, ResourceOf
    <3> QED
      BY <1>1, <2>3, <3>1, ScopedIsAny
  <2>4. CASE t \in {"restore_contact_dry_run", "restore_sieve_dry_run"}
    <3>1. MayRead(p, ResourceOf(t), NoPlace)
      BY <2>1, <2>4 DEF AllowsItemRestore
    <3> QED
      BY <1>1, <2>4, <3>1, ScopedIsAny
  <2> QED
    BY <1>3, <2>2, <2>3, <2>4 DEF ItemRestores
<1>4. CASE t \in {"restore_mail_dry_run", "restore_mail_apply"}
  <2>1. AllowsMailRestore(p, t, at, to) /\ ResourceOf(t) = "email"
    BY <1>4 DEF Allows, Restores, MailRestores, DraftTools, ItemRestores, BulkTools,
       ResourceOf
  <2>2. CASE t = "restore_mail_dry_run"
    <3>1. MayRead(p, "email", at)
      BY <2>1, <2>2 DEF AllowsMailRestore
    <3> QED
      BY <1>1, <2>1, <2>2, <3>1, ScopedIsAny
  <2>3. CASE t = "restore_mail_apply"
    <3>1. MayWrite(p, "email", at)
      BY <2>1, <2>3 DEF AllowsMailRestore
    <3> QED
      BY <1>2, <2>1, <2>3, <3>1, ScopedIsAny
  <2> QED
    BY <1>4, <2>2, <2>3
<1>5. CASE t \in BulkTools
  <2>1. AllowsBulkRestore(p) /\ ResourceOf(t) = "contacts"
    BY <1>5 DEF Allows, Restores, MailRestores, DraftTools, ItemRestores, ResourceOf, BulkTools
  <2>2. MayWrite(p, "contacts", NoPlace) /\ MayRead(p, "contacts", NoPlace)
    BY <2>1 DEF AllowsBulkRestore, MayWrite, MayRead, CanRead, CanWrite
  <2> QED
    BY <1>1, <1>2, <1>5, <2>1, <2>2, ScopedIsAny DEF BulkTools
<1>6. CASE t \in {"search_email", "get_email", "list_folders"}
  <2>1. AllowsMailRead(p, t, at) /\ ResourceOf(t) = "email"
    BY <1>6 DEF Allows, Restores, MailRestores, DraftTools, ItemRestores, BulkTools, ResourceOf
  <2> QED
    BY <1>1, <1>6, <2>1, ScopedIsAny DEF AllowsMailRead
<1>7. CASE t \in {"list_calendars", "list_events"}
  <2>1. AllowsCalendarRead(p, t, at) /\ ResourceOf(t) = "calendar"
    BY <1>7 DEF Allows, Restores, MailRestores, DraftTools, ItemRestores, BulkTools, ResourceOf
  <2> QED
    BY <1>1, <1>7, <2>1, ScopedIsAny DEF AllowsCalendarRead
<1>8. CASE t \in {"list_contacts", "list_sieve_rules"}
  <2>1. AllowsListing(p, t)
    BY <1>8 DEF Allows, Restores, MailRestores, DraftTools, ItemRestores, BulkTools
  <2> QED
    BY <1>1, <1>8, <2>1, ScopedIsAny DEF AllowsListing
<1>9. CASE t \in {"create_draft", "create_reply_draft"}
  <2>1. AllowsDraft(p) /\ ResourceOf(t) = "email"
    BY <1>9 DEF Allows, Restores, MailRestores, DraftTools, ItemRestores, BulkTools, ResourceOf
  <2> QED
    BY <1>2, <1>9, <2>1, ScopedIsAny DEF AllowsDraft
<1>10. CASE t \in {"update_email_flags", "move_email", "delete_email"}
  <2>1. AllowsMailWrite(p, t, at, to) /\ ResourceOf(t) = "email"
    BY <1>10 DEF Allows, Restores, MailRestores, DraftTools, ItemRestores, BulkTools, ResourceOf
  <2> QED
    BY <1>2, <1>10, <2>1, ScopedIsAny DEF AllowsMailWrite
<1>11. CASE t \in {"create_event", "update_event", "delete_event"}
  <2>1. /\ AllowsCreateEvent(p, to) \/ AllowsEventChange(p, t, to)
        /\ ResourceOf(t) = "calendar"
    BY <1>11 DEF Allows, Restores, MailRestores, DraftTools, ItemRestores, BulkTools, ResourceOf
  <2> QED
    BY <1>2, <1>11, <2>1, ScopedIsAny DEF AllowsCreateEvent, AllowsEventChange
<1>12. CASE t \in {"create_contact", "update_contact", "delete_contact",
                   "add_sieve_rule", "remove_sieve_rule"}
  <2>1. AllowsFlatWrite(p, t)
    BY <1>12 DEF Allows, Restores, MailRestores, DraftTools, ItemRestores, BulkTools
  <2> QED
    BY <1>2, <1>12, <2>1, ScopedIsAny DEF AllowsFlatWrite
<1>13. CASE t = "send_email" \/ t \in Always
  BY <1>13 DEF Allows, Restores, MailRestores, DraftTools, ItemRestores, BulkTools, Always, AllowsSend, Listed
<1> QED
  BY <1>3, <1>4, <1>5, <1>6, <1>7, <1>8, <1>9, <1>10, <1>11, <1>12, <1>13
  DEF Tools, ItemRestores, BulkTools
-----------------------------------------------------------------------------
(* Type correctness                                                        *)

\* The calls that are under way are what CallTool let through.
Fits(c, p) ==
  /\ c \in CallType
  /\ ResourceOf(c.tool) = KindOf[c.item]
  /\ Allows(p, c.tool, c.at, c.to)
  /\ c.tool \in MailTools \cup {"restore_mail_apply"} => c.at \in Folders
  /\ c.tool = "restore_mail_apply" => c.to = c.at /\ c.how # "write"
  /\ c.tool = "move_email" => c.to \in Folders
  /\ c.tool \in DraftTools => c.to = Drafts
  /\ c.tool = "send_email" => c.to = Sent
  /\ KindOf[c.item] = "email" => c.at \in Folders \cup {NoPlace} /\ c.to \in Folders \cup {NoPlace}
  /\ c.tool = "create_event" => c.to \in Calendars
  /\ c.tool = "update_event" => c.to \in Calendars \cup {NoPlace}
  /\ KindOf[c.item] \in {"contacts", "sieve"} => c.to = NoPlace
  /\ c.how # "write" => c.tool = "restore_mail_apply"

\* What is audited was carried out, whatever the tool has still to do.
Audited(r) ==
  /\ pc[r] \in {"refresh", "audit"} => call[r].n \in accepted
  /\ pc[r] \in {"refresh", "audit"} => call[r].how # "nothing"
  /\ pc[r] = "done" /\ call[r].tool # "create_reply_draft" /\ call[r].how # "nothing" =>
       call[r].n \in audited

IInv ==
  /\ TypeOK
  /\ \A r \in Sessions : pc[r] # "idle" => Fits(call[r], granted[r]) /\ Audited(r)
  /\ audited \subseteq accepted

LEMMA InitIInv == Init => IInv
<1> SUFFICES ASSUME Init PROVE IInv
  OBVIOUS
<1>1. provider \in Providers /\ imap \in BOOLEAN
  BY DEF Init, OverImap
<1>2. Typed
  BY <1>1 DEF Init, Typed
<1>3. Located /\ \A r \in Sessions : Refreshing(r)
  BY DEF Init, Located, Refreshing, AtHome, Fitting
<1> QED
  BY <1>2, <1>3 DEF Init, IInv, TypeOK

\* The resources that the tools are about.
LEMMA ToolsOfMail ==
  ASSUME NEW c, NEW p, Fits(c, p)
  PROVE  /\ c.item \in Items /\ KindOf[c.item] \in Resources /\ c.tool \in WriteTools
         /\ KindOf[c.item] = "email" =>
              c.tool \in MailTools \cup DraftTools \cup {"restore_mail_apply", "send_email"}
         /\ KindOf[c.item] = "calendar" =>
              c.tool \in {"create_event", "update_event", "delete_event"}
<1>1. c.item \in Items /\ c.tool \in WriteTools /\ KindOf[c.item] \in Resources
  BY ToolsAssumption DEF Fits, CallType
<1> QED
  BY <1>1 DEF Fits, WriteTools, EmailWrites, MailTools, DraftTools, ResourceOf, EmailReads,
     CalendarReads, CalendarWrites, SieveReads, SieveWrites

\* A step of a session leaves the calls of the others as they are.
LEMMA OneSession ==
  ASSUME IInv, NEW r \in Sessions, Typed', Located', UNCHANGED granted,
         accepted \subseteq accepted', audited \subseteq audited', audited' \subseteq accepted',
         \A d \in Sessions \ {r} :
           pc'[d] = pc[d] /\ call'[d] = call[d] /\ left'[d] = left[d] /\ listed'[d] = listed[d],
         pc'[r] # "idle" => Fits(call'[r], granted[r]) /\ Audited(r)',
         Refreshing(r)'
  PROVE  IInv'
<1>1. ASSUME NEW d \in Sessions, d # r
      PROVE  /\ pc'[d] # "idle" => Fits(call'[d], granted'[d]) /\ Audited(d)'
             /\ Refreshing(d)'
  <2>1. /\ pc'[d] = pc[d] /\ call'[d] = call[d] /\ left'[d] = left[d] /\ listed'[d] = listed[d]
        /\ granted' = granted /\ d \in Sessions
    BY <1>1
  <2>2. pc[d] # "idle" => Fits(call[d], granted[d]) /\ Audited(d)
    BY <2>1 DEF IInv
  <2>3. Refreshing(d)
    BY <2>1 DEF IInv, TypeOK
  <2>4. Refreshing(d)'
    BY <2>1, <2>3 DEF Refreshing, Fitting, AtHome, Homes
  <2>5. pc'[d] # "idle" => Fits(call'[d], granted'[d])
    BY <2>1, <2>2
  <2>6. pc'[d] # "idle" => Audited(d)'
    BY <2>1, <2>2 DEF Audited
  <2> QED
    BY <2>4, <2>5, <2>6
<1>2. \A d \in Sessions : Refreshing(d)'
  BY <1>1
<1>3. \A d \in Sessions : pc'[d] # "idle" => Fits(call'[d], granted'[d]) /\ Audited(d)'
  BY <1>1
<1> QED
  BY <1>2, <1>3 DEF IInv, TypeOK

\* The place and the resource that the tool was allowed.
LEMMA CallFits ==
  ASSUME IInv, NEW r \in Sessions, CallTool(r)
  PROVE  /\ call'[r] \in CallType /\ Fits(call'[r], granted[r])
         /\ pc'[r] = "api"
         /\ \A d \in Sessions \ {r} : pc'[d] = pc[d] /\ call'[d] = call[d]
<1>0. PICK i \in Items, t \in WriteTools :
        /\ ResourceOf(t) = KindOf[i]
        /\ \E at \in Scopes, to \in Scopes :
             /\ Addressed(i, t, at, to)
             /\ Allows(granted[r], t, at, to)
             /\ \E how \in Plans(i, t, to) :
                  call' = [call EXCEPT ![r] = [tool |-> t, item |-> i, at |-> at,
                                               to |-> to, how |-> how, n |-> calls]]
  BY DEF CallTool
<1>a. PICK at \in Scopes, to \in Scopes :
        /\ Addressed(i, t, at, to)
        /\ Allows(granted[r], t, at, to)
        /\ \E how \in Plans(i, t, to) :
             call' = [call EXCEPT ![r] = [tool |-> t, item |-> i, at |-> at,
                                          to |-> to, how |-> how, n |-> calls]]
  BY <1>0
<1>b. PICK how \in Plans(i, t, to) :
        call' = [call EXCEPT ![r] = [tool |-> t, item |-> i, at |-> at,
                                     to |-> to, how |-> how, n |-> calls]]
  BY <1>a
<1>1. /\ how \in Plans(i, t, to)
      /\ Addressed(i, t, at, to)
      /\ Allows(granted[r], t, at, to)
      /\ call' = [call EXCEPT ![r] = [tool |-> t, item |-> i, at |-> at,
                                       to |-> to, how |-> how, n |-> calls]]
  BY <1>a, <1>b
<1> DEFINE c == [tool |-> t, item |-> i, at |-> at, to |-> to, how |-> how, n |-> calls]
<1>2. c.tool = t /\ c.item = i /\ c.at = at /\ c.to = to /\ c.how = how /\ c.n = calls
  OBVIOUS
<1>3. how \in {"write", "append", "move", "flags", "nothing"}
  BY <1>1 DEF Plans
<1>4. how # "write" <=> t = "restore_mail_apply"
  BY <1>1 DEF Plans
<1>5. c \in CallType
  BY <1>0, <1>1, <1>3 DEF CallType, IInv, TypeOK, Typed
<1>6. KindOf[i] = "email" => t \in MailTools \cup DraftTools \cup {"restore_mail_apply", "send_email"}
  BY <1>0 DEF WriteTools, EmailWrites, MailTools, DraftTools, ResourceOf, EmailReads,
     CalendarReads, CalendarWrites, SieveReads, SieveWrites
<1>7. KindOf[i] \in {"contacts", "sieve"} =>
        t \in {"create_contact", "update_contact", "delete_contact", "add_sieve_rule",
               "remove_sieve_rule"}
  BY <1>0 DEF WriteTools, ResourceOf, EmailReads, EmailWrites, CalendarReads,
     CalendarWrites, SieveReads, SieveWrites
<1>8. t \in MailTools => at \in Folders
  <2>1. t \in MailTools => \E f \in tree[i] : f.at = at
    BY <1>1 DEF MailTools, Addressed
  <2>2. t \in MailTools => KindOf[i] = "email"
    BY <1>0 DEF MailTools, EmailWrites, EmailReads, ResourceOf, CalendarReads,
       CalendarWrites, SieveReads, SieveWrites
  <2>3. KindOf[i] = "email" => \A f \in tree[i] : f.at \in Homes(i)
    BY <1>1 DEF IInv, TypeOK, Located, AtHome
  <2>4. KindOf[i] = "email" => Homes(i) = Folders
    BY PermissionsAssumption, ToolsAssumption DEF Homes, PlacesIn, PlacesOf
  <2> QED
    BY <2>1, <2>2, <2>3, <2>4
<1>9. /\ t = "restore_mail_apply" => at \in Folders /\ to = at
      /\ t = "move_email" => to \in Folders
      /\ t \in DraftTools => to = Drafts /\ at = NoPlace
      /\ t = "send_email" => to = Sent /\ at = NoPlace
      /\ t = "create_event" => to \in Calendars
      /\ t = "update_event" => to \in Calendars \cup {NoPlace}
      /\ t \in {"update_email_flags", "delete_email"} => to = NoPlace
      /\ t \in {"create_contact", "update_contact", "delete_contact", "add_sieve_rule",
                "remove_sieve_rule"} => to = NoPlace
  BY <1>1 DEF Addressed, DraftTools
<1>10. KindOf[i] = "email" => at \in Folders \cup {NoPlace} /\ to \in Folders \cup {NoPlace}
  BY <1>6, <1>8, <1>9, PermissionsAssumption, ToolsAssumption DEF MailTools
<1> HIDE DEF c
<1>11. Fits(c, granted[r])
  BY <1>0, <1>1, <1>2, <1>4, <1>5, <1>7, <1>8, <1>9, <1>10 DEF Fits
<1>12. call' = [call EXCEPT ![r] = c] /\ pc' = [pc EXCEPT ![r] = "api"]
  BY <1>1 DEF c, CallTool, Goto
<1> QED
  BY <1>5, <1>11, <1>12 DEF IInv, TypeOK, Typed

LEMMA CallKeeps ==
  ASSUME IInv, NEW r \in Sessions, CallTool(r)
  PROVE  IInv'
<1>1. /\ UNCHANGED <<provider, imap, main, granted, server, stamp, tree, pulled, left, listed,
                     intact, accepted, audited, moves>>
      /\ calls' = calls + 1 /\ pc' = [pc EXCEPT ![r] = "api"]
      /\ pc[r] = "idle"
      /\ \E c : call' = [call EXCEPT ![r] = c]
  BY DEF CallTool, Goto, config, account, history, refreshing
<1>2. Typed'
  <2>1. call' \in [Sessions -> CallType \cup {None}]
    BY <1>1, CallFits DEF IInv, TypeOK, Typed
  <2> QED
    BY <1>1, <2>1 DEF IInv, TypeOK, Typed
<1>3. Located'
  BY <1>1 DEF IInv, TypeOK, Located, AtHome, Fitting
<1>4. Audited(r)'
  BY CallFits DEF Audited
<1>5. Refreshing(r)'
  BY <1>1, CallFits DEF IInv, TypeOK, Refreshing
<1> QED
  BY <1>1, <1>2, <1>3, <1>4, <1>5, CallFits, OneSession DEF IInv

\* A step that ends a stage of the call of r.
LEMMA StageKeeps ==
  ASSUME IInv, NEW r \in Sessions, NEW label, Goto(r, label), UNCHANGED call,
         pc[r] # "idle", Typed', Located', UNCHANGED granted,
         accepted \subseteq accepted', audited \subseteq audited', audited' \subseteq accepted',
         \A d \in Sessions \ {r} : left'[d] = left[d] /\ listed'[d] = listed[d],
         Refreshing(r)',
         label \in {"refresh", "audit"} => call[r].n \in accepted' /\ call[r].how # "nothing",
         label = "done" /\ call[r].tool # "create_reply_draft" /\ call[r].how # "nothing" =>
           call[r].n \in audited'
  PROVE  IInv'
<1>1. pc'[r] = label /\ \A d \in Sessions \ {r} : pc'[d] = pc[d]
  BY DEF Goto, IInv, TypeOK, Typed
<1>2. Fits(call[r], granted[r])
  BY DEF IInv
<1>3. Audited(r)'
  BY <1>1 DEF Audited
<1> QED
  BY <1>1, <1>2, <1>3, OneSession

\* A call always touches a place, one where the item may be.
LEMMA TouchedHome ==
  ASSUME NEW c, NEW p, Fits(c, p)
  PROVE  Touched(c) # {} /\ Touched(c) \subseteq Homes(c.item) /\ Touched(c) \in SUBSET Scopes
<1>1. Homes(c.item) # {} /\ Homes(c.item) \in SUBSET Scopes
  BY DEF Homes, PlacesIn, PlacesOf, Scopes, Places
<1>2. CASE KindOf[c.item] # "email"
  BY <1>1, <1>2 DEF Touched
<1>3. CASE KindOf[c.item] = "email"
  <2>1. Touched(c) = {c.at, c.to} \ {NoPlace}
    BY <1>3 DEF Touched
  <2>2. Homes(c.item) = Folders /\ NoPlace \notin Folders
    BY <1>3, PermissionsAssumption, ToolsAssumption DEF Homes, PlacesIn, PlacesOf
  <2>3. c.at \in Folders \cup {NoPlace} /\ c.to \in Folders \cup {NoPlace}
    BY <1>3 DEF Fits
  <2>4. c.at \in Folders \/ c.to \in Folders
    BY <1>3, ToolsOfMail, PermissionsAssumption, ToolsAssumption DEF Fits
  <2> QED
    BY <1>1, <2>1, <2>2, <2>3, <2>4
<1> QED
  BY <1>2, <1>3

LEMMA AcceptKeeps ==
  ASSUME IInv, NEW r \in Sessions, pc[r] = "api", call[r].how # "nothing", Accept(r),
         server' \in [Items -> Version \cup {None}], stamp' \in Nat,
         intact' \in [Sessions -> BOOLEAN],
         \A i \in Items : AtHome(i, {server'[i]} \ {None})
  PROVE  IInv'
<1>1. /\ UNCHANGED <<provider, imap, main, granted, tree, pulled, call, listed, audited>>
      /\ accepted' = accepted \cup {call[r].n}
      /\ \/ Goto(r, "refresh") /\ left' = [left EXCEPT ![r] = Touched(call[r])]
         \/ Goto(r, "err") /\ UNCHANGED left
  BY DEF Accept, config
<1>2. moves' \in Nat /\ calls' \in Nat
  BY DEF Accept, env, Move, IInv, TypeOK, Typed
<1>3. Fits(call[r], granted[r]) /\ call[r].n \in Nat
  BY DEF IInv, Fits, CallType
<1>4. pc' \in [Sessions -> {"idle", "api", "refresh", "audit", "done", "err"}]
  BY <1>1 DEF Goto, IInv, TypeOK, Typed
<1>5. left' \in [Sessions -> SUBSET Scopes]
  BY <1>1, <1>3, TouchedHome DEF IInv, TypeOK, Typed
<1>6. Typed'
  BY <1>1, <1>2, <1>3, <1>4, <1>5 DEF IInv, TypeOK, Typed
<1>7. Located'
  BY <1>1 DEF IInv, TypeOK, Located, AtHome, Fitting
<1>8. listed[r] = None
  BY DEF IInv, TypeOK, Refreshing
<1>9. Refreshing(r)'
  BY <1>1, <1>3, <1>8, TouchedHome DEF Refreshing, Goto, IInv, TypeOK, Typed
<1>10. \A d \in Sessions \ {r} : left'[d] = left[d] /\ listed'[d] = listed[d]
  BY <1>1 DEF IInv, TypeOK, Typed
<1>11. accepted \subseteq accepted' /\ audited \subseteq audited' /\ audited' \subseteq accepted'
  BY <1>1 DEF IInv
<1> QED
  BY <1>1, <1>6, <1>7, <1>9, <1>10, <1>11, StageKeeps

\* What each kind of tool leaves is in a place of the item's kind.
LEMMA OutcomeLocated ==
  ASSUME IInv, NEW c, NEW p, Fits(c, p), Applies(c), c.tool # "send_email", c.how # "nothing",
         Outcome(c) # None
  PROVE  Outcome(c).at \in Homes(c.item)
<1>1. /\ \A place : New(place).at = place
      /\ c.item \in Items /\ KindOf[c.item] \in Resources
      /\ server[c.item] # None => server[c.item].at \in Homes(c.item)
      /\ c.how \in {"write", "append", "move", "flags"}
  BY ToolsOfMail DEF New, IInv, TypeOK, Located, AtHome, Fits, CallType
<1>2. CASE KindOf[c.item] = "email"
  <2>1. Homes(c.item) = Folders
    BY <1>2, PermissionsAssumption, ToolsAssumption DEF Homes, PlacesIn, PlacesOf
  <2>2. c.tool \in MailTools \cup DraftTools \cup {"restore_mail_apply"}
    BY <1>2, ToolsOfMail
  <2>3. CASE c.tool \in DraftTools
    <3>1. Outcome(c) = New(Drafts)
      BY <2>3 DEF Outcome, Creating, Deleting, DraftTools, Fits
    <3> QED
      BY <1>1, <2>1, <3>1, PermissionsAssumption
  <2>4. CASE c.tool = "restore_mail_apply"
    <3>1. c.to \in Folders
      BY <2>4 DEF Fits
    <3>2. c.how # "flags" => Outcome(c) = New(c.to)
      BY <1>1, <2>4 DEF Outcome, Creating, Deleting, Fits
    <3>3. c.how = "flags" => Outcome(c) = New(server[c.item].at) /\ server[c.item] # None
      BY <2>4 DEF Outcome, Creating, Deleting, Applies, Found
    <3> QED
      BY <1>1, <2>1, <3>1, <3>2, <3>3
  <2>5. CASE c.tool \in MailTools
    <3>1. c.how = "write"
      BY <2>5 DEF Fits, MailTools
    <3>2. c.tool = "move_email" => Outcome(c) = New(c.to) /\ c.to \in Folders
      BY <3>1 DEF Outcome, Creating, Deleting, Fits
    <3>3. c.tool = "delete_email" => Outcome(c) = None
      BY <3>1 DEF Outcome, Creating, Deleting
    <3>4. c.tool = "update_email_flags" =>
            Outcome(c) = New(server[c.item].at) /\ server[c.item] # None
      BY <3>1 DEF Outcome, Creating, Deleting, Applies, Found
    <3> QED
      BY <1>1, <2>1, <2>5, <3>2, <3>3, <3>4 DEF MailTools
  <2> QED
    BY <2>2, <2>3, <2>4, <2>5
<1>3. CASE KindOf[c.item] = "calendar"
  <2>1. c.tool \in {"create_event", "update_event", "delete_event"} /\ c.how = "write"
    BY <1>3, ToolsOfMail DEF Fits
  <2>2. \A place \in Calendars : place \in Homes(c.item)
    BY <1>3 DEF Homes, PlacesIn, PlacesOf
  <2>3. CASE c.tool = "create_event"
    BY <1>1, <2>2, <2>3 DEF Outcome, Creating, Fits
  <2>4. CASE c.tool = "update_event"
    BY <1>1, <2>1, <2>2, <2>4 DEF Outcome, Creating, Deleting, Fits, Applies, Found
  <2>5. c.tool # "delete_event"
    BY <2>1 DEF Outcome, Creating, Deleting
  <2> QED
    BY <2>1, <2>3, <2>4, <2>5
<1>4. CASE KindOf[c.item] \in {"contacts", "sieve"}
  <2>1. Homes(c.item) = {NoPlace} /\ c.to = NoPlace
    BY <1>4 DEF Homes, PlacesIn, PlacesOf, Fits
  <2>2. c.tool # "update_event" /\ c.tool # "move_email"
    BY <1>4 DEF Fits, ResourceOf, EmailWrites, EmailReads, CalendarReads, CalendarWrites,
       SieveReads, SieveWrites
  <2> QED
    BY <1>1, <2>1, <2>2 DEF Outcome, Applies, Found
<1> QED
  BY <1>1, <1>2, <1>3, <1>4 DEF Resources

LEMMA HomesType == \A i \in Items : Homes(i) \in SUBSET Scopes
BY DEF Homes, PlacesIn, PlacesOf, Scopes, Places

\* A version in a home of the item takes its place.
LEMMA PutAtHome ==
  ASSUME IInv, NEW i \in Items, NEW v, v # None => v.at \in Homes(i),
         v = None \/ \E place : v = New(place),
         server' = [server EXCEPT ![i] = v]
  PROVE  /\ server' \in [Items -> Version \cup {None}]
         /\ \A j \in Items : AtHome(j, {server'[j]} \ {None})
<1>1. v \in Version \cup {None}
  BY HomesType DEF New, Version, IInv, TypeOK, Typed
<1>2. \A j \in Items : server'[j] = IF j = i THEN v ELSE server[j]
  BY DEF IInv, TypeOK, Typed
<1>3. server' \in [Items -> Version \cup {None}]
  BY <1>1 DEF IInv, TypeOK, Typed
<1>4. \A j \in Items : AtHome(j, {server'[j]} \ {None})
  BY <1>2 DEF IInv, TypeOK, Located, AtHome
<1> QED
  BY <1>3, <1>4

LEMMA NotedType ==
  ASSUME IInv, NEW i, NEW r \in Sessions, NEW c
  PROVE  /\ Changed(i) \in [Sessions -> BOOLEAN]
         /\ Noted(r, c) \in [Sessions -> BOOLEAN]
<1>1. \A s \in Sessions : (intact[s] /\ call[s].item # i) \in BOOLEAN
  OBVIOUS
<1>2. Changed(i) \in [Sessions -> BOOLEAN]
  BY <1>1 DEF Changed
<1>3. (InTree(c.item) /\ Looked(c)) \in BOOLEAN
  BY DEF InTree, Looked
<1>4. Changed(c.item) \in [Sessions -> BOOLEAN]
  BY DEF Changed
<1> QED
  BY <1>2, <1>3, <1>4 DEF Noted

LEMMA ApiKeeps ==
  ASSUME IInv, NEW r \in Sessions, Api(r)
  PROVE  IInv'
<1>1. PICK c : c = call[r]
  OBVIOUS
<1>2. PICK v : v = Outcome(c)
  OBVIOUS
<1>3. /\ pc[r] = "api" /\ c.tool # "send_email" /\ c.how # "nothing" /\ Applies(c) /\ Accept(r)
      /\ Fits(c, granted[r]) /\ c.item \in Items
      /\ server' = [server EXCEPT ![c.item] = v] /\ stamp' = stamp + 1
      /\ intact' = Noted(r, c)
  BY <1>1, <1>2 DEF Api, Calling, IInv, Fits, CallType
<1>4. v # None => v.at \in Homes(c.item)
  BY <1>2, <1>3, OutcomeLocated
<1>5. v = None \/ \E place : v = New(place)
  BY <1>2 DEF Outcome
<1>6. stamp' \in Nat
  BY <1>3 DEF IInv, TypeOK, Typed
<1>7. intact' \in [Sessions -> BOOLEAN]
  BY <1>3, NotedType
<1>8. /\ server' \in [Items -> Version \cup {None}]
      /\ \A i \in Items : AtHome(i, {server'[i]} \ {None})
  BY <1>3, <1>4, <1>5, PutAtHome
<1> QED
  BY <1>1, <1>3, <1>6, <1>7, <1>8, AcceptKeeps

\* A call that leaves the account as it is.
LEMMA AnsweredKeeps ==
  ASSUME IInv, NEW r \in Sessions, pc[r] = "api", call[r].how # "nothing", Accept(r),
         UNCHANGED <<server, stamp, intact>>
  PROVE  IInv'
<1>1. /\ server' \in [Items -> Version \cup {None}] /\ stamp' \in Nat
      /\ intact' \in [Sessions -> BOOLEAN]
  BY DEF IInv, TypeOK, Typed
<1>2. \A i \in Items : AtHome(i, {server'[i]} \ {None})
  BY DEF IInv, TypeOK, Located, AtHome
<1> QED
  BY <1>1, <1>2, AcceptKeeps

\* What a sent message is filed as.
LEMMA SentLocated ==
  ASSUME IInv, NEW c, NEW p, Fits(c, p), c.tool = "send_email"
  PROVE  /\ c.item \in Items /\ KindOf[c.item] = "email" /\ c.how = "write"
         /\ Sent \in Homes(c.item) /\ Sent \in Touched(c)
<1>1. c.item \in Items /\ KindOf[c.item] = "email" /\ c.to = Sent /\ c.how = "write"
  BY DEF Fits, CallType, ResourceOf, CalendarReads, CalendarWrites, EmailReads, EmailWrites,
     SieveReads, SieveWrites
<1>2. Homes(c.item) = Folders /\ NoPlace # Sent /\ Sent \in Folders
  BY <1>1, PermissionsAssumption, ToolsAssumption DEF Homes, PlacesIn, PlacesOf
<1> QED
  BY <1>1, <1>2 DEF Touched

LEMMA SendKeeps ==
  ASSUME IInv, NEW r \in Sessions, Send(r)
  PROVE  IInv'
<1>1. PICK c : c = call[r]
  OBVIOUS
<1>2. /\ pc[r] = "api" /\ c.tool = "send_email" /\ Accept(r) /\ Fits(c, granted[r])
  BY <1>1 DEF Send, IInv
<1>3. c.item \in Items /\ c.how = "write" /\ Sent \in Homes(c.item)
  BY <1>2, SentLocated
<1>4. CASE UNCHANGED <<server, stamp, intact>>
  BY <1>1, <1>2, <1>3, <1>4, AnsweredKeeps
<1>5. CASE ~UNCHANGED <<server, stamp, intact>>
  <2>1. /\ server' = [server EXCEPT ![c.item] = New(Sent)] /\ stamp' = stamp + 1
        /\ intact' = Noted(r, c)
    BY <1>1, <1>5 DEF Send, SendByApi, SendBySmtp, account
  <2>2. New(Sent).at = Sent
    BY DEF New
  <2>3. /\ server' \in [Items -> Version \cup {None}]
        /\ \A i \in Items : AtHome(i, {server'[i]} \ {None})
    BY <1>3, <2>1, <2>2, PutAtHome
  <2>4. stamp' \in Nat
    BY <2>1 DEF IInv, TypeOK, Typed
  <2>5. intact' \in [Sessions -> BOOLEAN]
    BY <2>1, NotedType
  <2> QED
    BY <1>1, <1>2, <1>3, <2>3, <2>4, <2>5, AcceptKeeps
<1> QED
  BY <1>4, <1>5

LEMMA NoSuchUidKeeps ==
  ASSUME IInv, NEW r \in Sessions, NoSuchUid(r)
  PROVE  IInv'
BY AnsweredKeeps DEF NoSuchUid, Calling, account

LEMMA NothingKeeps ==
  ASSUME IInv, NEW r \in Sessions, NothingToDo(r)
  PROVE  IInv'
<1>1. /\ pc[r] = "api" /\ call[r].how = "nothing" /\ Goto(r, "done")
      /\ UNCHANGED <<provider, imap, main, granted, server, stamp, tree, pulled, call, left,
                     listed, intact, accepted, audited, moves, calls>>
  BY DEF NothingToDo, config, account, refreshing, history, env
<1>2. Typed' /\ Located'
  BY <1>1 DEF IInv, TypeOK, Typed, Located, AtHome, Fitting, Goto
<1>3. Refreshing(r)'
  BY <1>1 DEF IInv, TypeOK, Typed, Refreshing, Goto
<1> QED
  BY <1>1, <1>2, <1>3, StageKeeps DEF IInv

\* Steps that neither the account nor the backup tree knows of.
LEMMA FailureKeeps ==
  ASSUME IInv, NEW r \in Sessions, Refused(r) \/ RefreshFails(r) \/ Audit(r)
  PROVE  IInv'
<1>1. /\ pc[r] \in {"api", "refresh", "audit"} /\ Fits(call[r], granted[r]) /\ Audited(r)
      /\ left' = [left EXCEPT ![r] = {}] /\ listed' = [listed EXCEPT ![r] = None]
      /\ UNCHANGED <<provider, imap, main, granted, server, stamp, tree, pulled, call, intact,
                     accepted>>
  BY DEF Refused, RefreshFails, Audit, IInv, Ended, config, history, account
<1>2. moves' \in Nat /\ calls' \in Nat
  BY DEF Refused, RefreshFails, Audit, Move, env, IInv, TypeOK, Typed
<1>3. call[r].n \in Nat
  BY <1>1 DEF Fits, CallType
<1>4. PICK label \in {"done", "err"} : Goto(r, label)
  BY DEF Refused, RefreshFails, Audit, Ended
<1>5. audited' = audited \/ (pc[r] = "audit" /\ audited' = audited \cup {call[r].n})
  BY DEF Refused, RefreshFails, Audit
<1>6. Typed'
  BY <1>1, <1>2, <1>3, <1>4, <1>5 DEF IInv, TypeOK, Typed, Goto
<1>7. Located'
  BY <1>1 DEF IInv, TypeOK, Located, AtHome, Fitting
<1>8. audited \subseteq audited' /\ audited' \subseteq accepted'
  BY <1>1, <1>5 DEF IInv, Audited
<1>9. pc'[r] = label
  BY <1>4 DEF Goto, IInv, TypeOK, Typed
<1>10. label = "done" /\ call[r].tool # "create_reply_draft" => call[r].n \in audited'
  BY <1>9 DEF Refused, RefreshFails, Audit, Ended, Goto, IInv, TypeOK, Typed
<1>11. Refreshing(r)' /\ \A d \in Sessions \ {r} : left'[d] = left[d] /\ listed'[d] = listed[d]
  BY <1>1, <1>9 DEF Refreshing, IInv, TypeOK, Typed
<1> QED
  BY <1>1, <1>4, <1>6, <1>7, <1>8, <1>10, <1>11, StageKeeps

LEMMA ListingFits ==
  ASSUME IInv, NEW res \in Resources, NEW place \in PlacesIn(res)
  PROVE  /\ Listing(res, place) \in ListingType
         /\ Fitting(Listing(res, place), res)
         /\ Listing(res, place).place = place
         /\ \A i \in Items : KindOf[i] = res => Accurate(Listing(res, place), i)
<1> DEFINE has == [i \in Items |-> IF KindOf[i] = res THEN There(i, place) ELSE {}]
           l == Listing(res, place)
<1>1. l.place = place /\ l.has = has /\ l = [place |-> place, has |-> has]
  BY DEF Listing
<1>2. \A i \in Items : There(i, place) \in SUBSET Version /\ There(i, place) \subseteq {server[i]} \ {None}
  BY DEF There, IInv, TypeOK, Typed
<1>3. has \in [Items -> SUBSET Version]
  BY <1>2
<1>4. place \in Scopes
  BY DEF PlacesIn, PlacesOf, Scopes, Places
<1>5. \A i \in Items : has[i] = IF KindOf[i] = res THEN There(i, place) ELSE {}
  OBVIOUS
<1> HIDE DEF has, l
<1>6. l \in ListingType
  BY <1>1, <1>3, <1>4 DEF ListingType
<1>7. \A i \in Items : AtHome(i, has[i])
  BY <1>2, <1>5 DEF AtHome, IInv, TypeOK, Located
<1>8. Fitting(l, res)
  BY <1>1, <1>7 DEF Fitting
<1>9. \A i \in Items : KindOf[i] = res => Accurate(l, i)
  BY <1>1, <1>5 DEF Accurate
<1> QED
  BY <1>1, <1>6, <1>8, <1>9 DEF l

LEMMA RefreshListsKeeps ==
  ASSUME IInv, NEW r \in Sessions, RefreshLists(r)
  PROVE  IInv'
<1>1. /\ pc[r] = "refresh" /\ Fits(call[r], granted[r]) /\ Audited(r)
      /\ UNCHANGED <<provider, imap, main, granted, server, stamp, tree, pulled, pc, call, left,
                     intact, accepted, audited, moves, calls>>
  BY DEF RefreshLists, IInv, config, account, history, env
<1>2. KindOf[call[r].item] \in Resources
  BY <1>1, ToolsOfMail
<1>3. PICK res \in Resources : res = KindOf[call[r].item]
  BY <1>2
<1>4. PICK place \in left[r] : listed' = [listed EXCEPT ![r] = Listing(res, place)]
  BY <1>3 DEF RefreshLists
<1>5. left[r] # {} /\ left[r] \subseteq PlacesIn(res)
  BY <1>1, <1>3 DEF IInv, TypeOK, Refreshing, Homes
<1>6. /\ Listing(res, place) \in ListingType /\ Fitting(Listing(res, place), res)
      /\ Listing(res, place).place = place
  BY <1>4, <1>5, ListingFits
<1>7. PICK l : l = Listing(res, place)
  OBVIOUS
<1>8. listed' = [listed EXCEPT ![r] = l] /\ l \in ListingType /\ Fitting(l, res) /\ l.place = place
  BY <1>4, <1>6, <1>7
<1>9. Typed'
  BY <1>1, <1>8 DEF IInv, TypeOK, Typed
<1>10. Located'
  BY <1>1 DEF IInv, TypeOK, Located, AtHome, Fitting
<1>11. listed'[r] = l /\ \A d \in Sessions \ {r} : listed'[d] = listed[d]
  BY <1>8 DEF IInv, TypeOK, Typed
<1>12. Refreshing(r)'
  BY <1>1, <1>3, <1>4, <1>5, <1>8, <1>11 DEF Refreshing, Homes, Fitting, AtHome
<1>13. Audited(r)'
  BY <1>1 DEF Audited
<1> QED
  BY <1>1, <1>9, <1>10, <1>11, <1>12, <1>13, OneSession DEF IInv

\* The files that a pull leaves are in homes of their items.
LEMMA FileKeeps ==
  ASSUME IInv, NEW res, NEW l \in ListingType, Fitting(l, res), l # None, File(res, l)
  PROVE  /\ tree' \in [Items -> SUBSET Version]
         /\ \A i \in Items : AtHome(i, tree'[i])
         /\ intact' \in [Sessions -> BOOLEAN]
<1>1. \A i \in Items : Synced(i, l) \in SUBSET Version /\ Synced(i, l) \subseteq tree[i] \cup l.has[i]
  BY DEF Synced, ListingType, IInv, TypeOK, Typed
<1>2. tree' = [i \in Items |-> IF KindOf[i] = res THEN Synced(i, l) ELSE tree[i]]
  BY DEF File
<1>3. tree' \in [Items -> SUBSET Version]
  BY <1>1, <1>2 DEF IInv, TypeOK, Typed
<1>4. \A i \in Items : tree'[i] \subseteq tree[i] \cup l.has[i]
  BY <1>1, <1>2
<1>5. \A i \in Items : AtHome(i, l.has[i]) /\ AtHome(i, tree[i])
  BY DEF Fitting, IInv, TypeOK, Located
<1>6. \A i \in Items : AtHome(i, tree'[i])
  BY <1>4, <1>5 DEF AtHome
<1>7. \A d \in Sessions :
        (intact[d] /\ (KindOf[call[d].item] = res => Accurate(l, call[d].item))) \in BOOLEAN
  OBVIOUS
<1>8. intact' \in [Sessions -> BOOLEAN]
  BY <1>7 DEF File
<1> QED
  BY <1>3, <1>6, <1>8

LEMMA RefreshWritesKeeps ==
  ASSUME IInv, NEW r \in Sessions, RefreshWrites(r)
  PROVE  IInv'
<1>1. PICK l : l = listed[r]
  OBVIOUS
<1>2. PICK res : res = KindOf[call[r].item]
  OBVIOUS
<1>3. /\ pc[r] = "refresh" /\ Fits(call[r], granted[r]) /\ Audited(r) /\ l # None
      /\ left' = [left EXCEPT ![r] = @ \ {l.place}] /\ listed' = [listed EXCEPT ![r] = None]
      /\ File(res, l)
      /\ UNCHANGED <<provider, imap, main, granted, server, stamp, pulled, call,
                     accepted, audited, moves, calls>>
  BY <1>1, <1>2 DEF RefreshWrites, IInv, config, account, env
<1>4. PICK label : label = IF left'[r] = {} THEN "audit" ELSE "refresh"
  OBVIOUS
<1>5. Goto(r, label) /\ label \in {"audit", "refresh"}
  BY <1>4 DEF RefreshWrites
<1>6. l \in ListingType /\ Fitting(l, res)
  BY <1>1, <1>2, <1>3 DEF IInv, TypeOK, Typed, Refreshing
<1>7. /\ tree' \in [Items -> SUBSET Version]
      /\ \A i \in Items : AtHome(i, tree'[i])
      /\ intact' \in [Sessions -> BOOLEAN]
  BY <1>3, <1>6, FileKeeps
<1>8. Typed'
  <2>1. left' \in [Sessions -> SUBSET Scopes] /\ listed' \in [Sessions -> ListingType \cup {None}]
    BY <1>3 DEF IInv, TypeOK, Typed
  <2>2. pc' \in [Sessions -> {"idle", "api", "refresh", "audit", "done", "err"}]
    BY <1>5 DEF Goto, IInv, TypeOK, Typed
  <2> QED
    BY <1>3, <1>7, <2>1, <2>2 DEF IInv, TypeOK, Typed
<1>9. Located'
  BY <1>3, <1>7 DEF IInv, TypeOK, Located, Fitting, AtHome
<1>10. /\ left'[r] = left[r] \ {l.place} /\ listed'[r] = None /\ pc'[r] = label
       /\ \A d \in Sessions \ {r} : left'[d] = left[d] /\ listed'[d] = listed[d]
  BY <1>3, <1>5 DEF Goto, IInv, TypeOK, Typed
<1>11. left[r] \subseteq Homes(call[r].item)
  BY <1>3 DEF IInv, TypeOK, Refreshing
<1>12. Refreshing(r)'
  BY <1>3, <1>4, <1>10, <1>11 DEF Refreshing, Homes
<1> QED
  BY <1>3, <1>5, <1>8, <1>9, <1>10, <1>12, StageKeeps DEF IInv, Audited

LEMMA ReturnKeeps ==
  ASSUME IInv, NEW r \in Sessions, Return(r)
  PROVE  IInv'
<1>1. /\ UNCHANGED <<provider, imap, main, granted, server, stamp, tree, pulled, left, listed,
                     accepted, audited, moves, calls>>
      /\ pc[r] \in {"done", "err"} /\ pc' = [pc EXCEPT ![r] = "idle"]
      /\ call' = [call EXCEPT ![r] = None] /\ intact' = [intact EXCEPT ![r] = FALSE]
  BY DEF Return, Goto, config, account, env, refreshing
<1>2. Typed'
  BY <1>1 DEF IInv, TypeOK, Typed
<1>3. Located'
  BY <1>1 DEF IInv, TypeOK, Located, AtHome, Fitting
<1>4. pc'[r] = "idle" /\ \A d \in Sessions \ {r} : pc'[d] = pc[d] /\ call'[d] = call[d]
  BY <1>1 DEF IInv, TypeOK, Typed
<1>5. Refreshing(r)'
  BY <1>1, <1>4 DEF IInv, TypeOK, Refreshing
<1> QED
  BY <1>1, <1>2, <1>3, <1>4, <1>5, OneSession DEF IInv

\* Pulls and other clients leave the sessions alone.
LEMMA OutsideKeeps ==
  ASSUME IInv, UNCHANGED <<granted, pc, call, left, listed, accepted, audited>>, Typed', Located'
  PROVE  IInv'
<1>1. \A r \in Sessions : Refreshing(r)'
  BY DEF IInv, TypeOK, Refreshing, Fitting, AtHome, Homes
<1>2. \A r \in Sessions : pc'[r] # "idle" => Fits(call'[r], granted'[r]) /\ Audited(r)'
  BY DEF IInv, Audited
<1> QED
  BY <1>1, <1>2 DEF IInv, TypeOK

LEMMA PullListsKeeps ==
  ASSUME IInv, NEW res \in Resources, PullLists(res)
  PROVE  IInv'
<1>1. UNCHANGED <<provider, imap, main, granted, server, stamp, tree, pc, call, left, listed,
                  intact, accepted, audited, moves, calls>>
  BY DEF PullLists, config, account, history, refreshing, env
<1>2. PICK l : pulled' = [pulled EXCEPT ![res] = l] /\ l \in ListingType /\ Fitting(l, res)
  BY ListingFits DEF PullLists
<1>3. Typed'
  BY <1>1, <1>2 DEF IInv, TypeOK, Typed
<1>4. \A q \in Resources : pulled'[q] = IF q = res THEN l ELSE pulled[q]
  BY <1>2 DEF IInv, TypeOK, Typed
<1>5. Located'
  BY <1>1, <1>2, <1>4 DEF IInv, TypeOK, Located, Fitting, AtHome
<1> QED
  BY <1>1, <1>3, <1>5, OutsideKeeps

LEMMA PullWritesKeeps ==
  ASSUME IInv, NEW res \in Resources, PullWrites(res)
  PROVE  IInv'
<1>1. /\ UNCHANGED <<provider, imap, main, granted, server, stamp, pc, call, left, listed,
                     accepted, audited, moves, calls>>
      /\ pulled' = [pulled EXCEPT ![res] = None] /\ pulled[res] # None
  BY DEF PullWrites, config, account, refreshing, env
<1>2. PICK l : l = pulled[res]
  OBVIOUS
<1>3. l \in ListingType /\ Fitting(l, res) /\ l # None
  BY <1>1, <1>2 DEF IInv, TypeOK, Typed, Located
<1>4. File(res, l) \/ UNCHANGED <<tree, intact>>
  BY <1>2 DEF PullWrites
<1>5. /\ tree' \in [Items -> SUBSET Version]
      /\ \A i \in Items : AtHome(i, tree'[i])
      /\ intact' \in [Sessions -> BOOLEAN]
  BY <1>3, <1>4, FileKeeps DEF IInv, TypeOK, Typed, Located
<1>6. Typed'
  BY <1>1, <1>5 DEF IInv, TypeOK, Typed
<1>7. \A q \in Resources : pulled'[q] = IF q = res THEN None ELSE pulled[q]
  BY <1>1 DEF IInv, TypeOK, Typed
<1>8. Located'
  BY <1>1, <1>5, <1>7 DEF IInv, TypeOK, Located, Fitting, AtHome
<1> QED
  BY <1>1, <1>6, <1>8, OutsideKeeps

LEMMA OtherKeeps ==
  ASSUME IInv, NEW i \in Items, OtherChanges(i)
  PROVE  IInv'
<1>1. /\ UNCHANGED <<provider, imap, main, granted, tree, pulled, pc, call, left, listed,
                     accepted, audited>>
      /\ moves' \in Nat /\ calls' \in Nat /\ stamp' \in Nat
      /\ intact' = Changed(i)
  BY DEF OtherChanges, Move, config, refreshing, IInv, TypeOK, Typed
<1>2. PICK v \in {New(place) : place \in Homes(i)} \cup {None} :
        server' = [server EXCEPT ![i] = v]
  BY DEF OtherChanges
<1>3. v # None => v.at \in Homes(i)
  BY <1>2 DEF New
<1>4. /\ server' \in [Items -> Version \cup {None}]
      /\ \A j \in Items : AtHome(j, {server'[j]} \ {None})
  BY <1>2, <1>3, PutAtHome
<1>5. intact' \in [Sessions -> BOOLEAN]
  BY <1>1 DEF Changed
<1>6. Typed'
  BY <1>1, <1>4, <1>5 DEF IInv, TypeOK, Typed
<1>7. Located'
  BY <1>1, <1>4 DEF IInv, TypeOK, Located, Fitting, AtHome
<1> QED
  BY <1>1, <1>6, <1>7, OutsideKeeps

LEMMA CrashKeeps == IInv /\ Crash => IInv'
<1> SUFFICES ASSUME IInv, Crash PROVE IInv'
  OBVIOUS
<1>1. /\ UNCHANGED <<provider, imap, main, granted, server, stamp, tree, accepted, audited>>
      /\ moves' \in Nat /\ calls' \in Nat
      /\ pulled' = [res \in Resources |-> None]
      /\ pc' = [r \in Sessions |-> "idle"] /\ call' = [r \in Sessions |-> None]
      /\ left' = [r \in Sessions |-> {}] /\ listed' = [r \in Sessions |-> None]
      /\ intact' = [r \in Sessions |-> FALSE]
  BY DEF Crash, Move, config, account, IInv, TypeOK, Typed
<1>2. Typed'
  BY <1>1 DEF IInv, TypeOK, Typed
<1>3. Located' /\ \A r \in Sessions : Refreshing(r)'
  BY <1>1 DEF IInv, TypeOK, Located, Fitting, AtHome, Refreshing
<1> QED
  BY <1>1, <1>2, <1>3 DEF IInv, TypeOK

LEMMA NextIInv == IInv /\ [Next]_vars => IInv'
<1> SUFFICES ASSUME IInv, [Next]_vars PROVE IInv'
  OBVIOUS
<1>1. CASE UNCHANGED vars
  <2>1. Typed' /\ Located'
    BY <1>1 DEF vars, IInv, TypeOK, Typed, Located, Fitting, AtHome
  <2> QED
    BY <1>1, <2>1, OutsideKeeps DEF vars
<1>2. ASSUME NEW r \in Sessions, Serve(r)
      PROVE  IInv'
  BY <1>2, CallKeeps, ApiKeeps, SendKeeps, NoSuchUidKeeps, NothingKeeps, FailureKeeps,
     RefreshListsKeeps, RefreshWritesKeeps, ReturnKeeps DEF Serve
<1> QED
  BY <1>1, <1>2, PullListsKeeps, PullWritesKeeps, OtherKeeps, CrashKeeps DEF Next

\* Every variable has its type (mcp/server.rs).
THEOREM TypeCorrect == Spec => []TypeOK
<1>1. IInv => TypeOK
  BY DEF IInv
<1> QED
  BY <1>1, InitIInv, NextIInv, PTL DEF Spec

\* A tool that its handler would let do something is listed, for every policy:
\* TOOL_REQS and the checks of the handlers agree.
THEOREM ToolsAreListed == Spec => []AllowedIsListed
<1>1. IInv => AllowedIsListed
  BY WriteNeedsListing DEF AllowedIsListed
<1> QED
  BY <1>1, InitIInv, NextIInv, PTL DEF Spec

\* The audit trail is the calls that were carried out, whatever is lost, fails
\* or crashes: a commit follows the answer, and success the commit.  A restore
\* that found nothing to do has made no call and has none.
THEOREM TrailIsTrue == Spec => []AuditIsTrue
<1>1. IInv => AuditIsTrue
  BY DEF IInv, AuditIsTrue, Audited
<1> QED
  BY <1>1, InitIInv, NextIInv, PTL DEF Spec

\* What the tools of mail ask of the folders of a call.
LEMMA MailAllows ==
  ASSUME NEW p, NEW t, NEW at, NEW to, Allows(p, t, at, to)
  PROVE  /\ t \in DraftTools => MayWrite(p, "email", Drafts)
         /\ t \in MailTools \cup {"restore_mail_apply"} => MayWrite(p, "email", at)
         /\ t = "move_email" => MayWrite(p, "email", to)
<1> USE DEF Allows, Restores, ItemRestores, MailRestores, DraftTools, BulkTools, EmailReads,
        EmailWrites, CalendarReads, ContactsWrites, SieveWrites, MailTools
<1>1. CASE t \in DraftTools
  BY <1>1 DEF AllowsDraft
<1>2. CASE t \in MailTools
  <2>1. AllowsMailWrite(p, t, at, to)
    BY <1>2
  <2> QED
    BY <1>2, <2>1 DEF AllowsMailWrite
<1>3. CASE t = "restore_mail_apply"
  <2>1. AllowsMailRestore(p, t, at, to)
    BY <1>3
  <2> QED
    BY <1>3, <2>1 DEF AllowsMailRestore
<1> QED
  BY <1>1, <1>2, <1>3

\* Who may write in a folder is not shut out of it.
LEMMA WritableIsOpen ==
  ASSUME NEW p, NEW f \in Folders, MayWrite(p, "email", f)
  PROVE  ~Closed(p, f)
BY PermissionsAssumption DEF MayWrite, CanWrite, GetScoped, Closed, PlacesOf

\* The rules of a profile, folder by folder, hold of every write: what it puts
\* into a folder, always, and what it takes from one or changes there, when the
\* message is where the call was told (resolve_email_folder and the checks on it).
THEOREM RulesAreHonoured == Spec => RulesHonoured
<1> DEFINE Kept(r) ==
      Api(r) /\ KindOf[call[r].item] = "email" =>
        LET c == call[r]
            old == server[c.item]
            new == server'[c.item]
        IN /\ new # None /\ Closed(granted[r], new.at) =>
                  old # None /\ old.at = new.at /\ Elsewhere(c)
           /\ old # None /\ Closed(granted[r], old.at) /\ c.how # "move" => Elsewhere(c)
<1>1. ASSUME IInv, NEW r \in Sessions
      PROVE  Kept(r)
  <2>1. PICK c : c = call[r]
    OBVIOUS
  <2>2. PICK p : p = granted[r]
    OBVIOUS
  <2>3. PICK old : old = server[c.item]
    OBVIOUS
  <2>4. PICK new : new = server'[c.item]
    OBVIOUS
  <2>5. SUFFICES ASSUME Api(r), KindOf[c.item] = "email"
                 PROVE  /\ new # None /\ Closed(p, new.at) =>
                               old # None /\ old.at = new.at /\ Elsewhere(c)
                        /\ old # None /\ Closed(p, old.at) /\ c.how # "move" => Elsewhere(c)
    BY <2>1, <2>2, <2>3, <2>4
  <2>6. /\ c.tool # "send_email" /\ c.how # "nothing" /\ Applies(c) /\ Fits(c, p)
        /\ c.item \in Items /\ new = Outcome(c)
    BY <1>1, <2>1, <2>2, <2>4, <2>5 DEF Api, Calling, IInv, Fits, CallType, TypeOK, Typed
  <2>7. /\ c.tool \in MailTools \cup DraftTools \cup {"restore_mail_apply"}
        /\ c.how \in {"write", "append", "move", "flags"}
    BY <2>5, <2>6, ToolsOfMail DEF Fits, CallType
  <2>8. Homes(c.item) = Folders
    BY <2>5, PermissionsAssumption, ToolsAssumption DEF Homes, PlacesIn, PlacesOf
  <2>9. /\ old # None => old.at \in Folders
        /\ new # None => new.at \in Folders
    BY <1>1, <2>3, <2>6, <2>8, OutcomeLocated DEF IInv, TypeOK, Located, AtHome
  <2>10. /\ old # None /\ Closed(p, old.at) => ~MayWrite(p, "email", old.at)
         /\ new # None /\ Closed(p, new.at) => ~MayWrite(p, "email", new.at)
    BY <2>9, WritableIsOpen
  <2>11. \A place : New(place).at = place
    BY DEF New
  <2>12. CASE c.tool \in DraftTools
    <3>1. old = None /\ new.at = Drafts
      BY <2>3, <2>6, <2>11, <2>12 DEF Applies, Outcome, Fits, Creating, Deleting, DraftTools
    <3>2. MayWrite(p, "email", Drafts)
      BY <2>6, <2>12, MailAllows DEF Fits
    <3> QED
      BY <2>10, <3>1, <3>2
  <2>13. CASE c.tool \in MailTools \cup {"restore_mail_apply"}
    <3>1. MayWrite(p, "email", c.at) /\ (c.tool = "move_email" => MayWrite(p, "email", c.to))
      BY <2>6, <2>13, MailAllows DEF Fits, MailTools
    <3>2. old # None /\ Closed(p, old.at) => Elsewhere(c)
      BY <2>3, <2>10, <3>1 DEF Elsewhere
    <3>3. \/ new = None
          \/ c.tool = "move_email" /\ new = New(c.to)
          \/ c.tool = "restore_mail_apply" /\ new = New(c.at)
          \/ old # None /\ new = New(old.at)
      <4>1. c.tool \notin Creating
        BY <2>13 DEF MailTools, Creating
      <4>2. CASE c.tool = "restore_mail_apply"
        BY <2>3, <2>6, <2>7, <4>2 DEF Outcome, Applies, Found, Creating, Deleting, Fits
      <4>3. CASE c.tool \in MailTools
        <5>1. c.how = "write"
          BY <2>6, <4>3 DEF Fits, MailTools
        <5> QED
          BY <2>3, <2>6, <4>1, <4>3, <5>1 DEF Outcome, Applies, Found, Deleting, MailTools
      <4> QED
        BY <2>13, <4>2, <4>3
    <3>4. new # None /\ Closed(p, new.at) => old # None /\ old.at = new.at
      BY <2>10, <2>11, <3>1, <3>3
    <3> QED
      BY <3>2, <3>4
  <2> QED
    BY <2>7, <2>12, <2>13
<1>2. IInv /\ [Next]_vars => \A r \in Sessions : Kept(r)
  BY <1>1
<1> QED
  BY <1>2, InitIInv, NextIInv, PTL DEF Spec, RulesHonoured
-----------------------------------------------------------------------------
(* What success says of the backup tree                                    *)

\* The files of the item are right but for these places, which a pull puts right.
Mending(i, places) ==
  /\ \A f \in tree[i] : f.at \in places \/ f \in {server[i]} \ {None}
  /\ server[i] # None => server[i].at \in places \/ server[i] \in tree[i]

\* How far a call has come whose item nobody else has changed.
Seen(r) ==
  intact[r] =>
    /\ pc[r] \notin {"idle", "api"}
    /\ listed[r] # None => Accurate(listed[r], call[r].item)
    /\ call[r].how # "move" =>
         /\ pc[r] = "refresh" => Mending(call[r].item, left[r])
         /\ pc[r] = "audit" => InTree(call[r].item)
         /\ pc[r] = "done" /\ call[r].tool # "create_reply_draft" =>
              InTree(call[r].item)

SInv == IInv /\ \A r \in Sessions : Seen(r)

LEMMA InitSInv == Init => SInv
<1> SUFFICES ASSUME Init PROVE SInv
  OBVIOUS
<1>1. \A r \in Sessions : ~intact[r]
  BY DEF Init
<1> QED
  BY <1>1, InitIInv DEF SInv, Seen

\* A pull that lists what the server has spoils nothing, and puts its place right.
LEMMA PullMends ==
  ASSUME NEW i, NEW places, NEW l, UNCHANGED server, Accurate(l, i),
         tree'[i] = Synced(i, l)
  PROVE  /\ Mending(i, places) => Mending(i, places)'
         /\ Mending(i, places) => Mending(i, places \ {l.place})'
         /\ InTree(i) => InTree(i)'
<1>1. l.has[i] = {v \in {server[i]} \ {None} : v.at = l.place}
  BY DEF Accurate, There
<1>2. tree'[i] = {f \in tree[i] : f.at # l.place} \cup {v \in {server[i]} \ {None} : v.at = l.place}
  BY <1>1 DEF Synced
<1>3. \A f : f \in tree'[i] <=> \/ f \in tree[i] /\ f.at # l.place
                                \/ f = server[i] /\ f # None /\ f.at = l.place
  BY <1>2
<1>4. Mending(i, places) => Mending(i, places)'
  BY <1>3 DEF Mending
<1>5. Mending(i, places) => Mending(i, places \ {l.place})'
  BY <1>3 DEF Mending
<1>6. InTree(i) => InTree(i)'
  <2>1. SUFFICES ASSUME InTree(i) PROVE tree'[i] = {server[i]} \ {None}
    BY DEF InTree
  <2>2. \A f : f \in tree[i] <=> f = server[i] /\ f # None
    BY <2>1 DEF InTree
  <2> QED
    BY <1>3, <2>2
<1> QED
  BY <1>4, <1>5, <1>6

LEMMA NothingToMend ==
  ASSUME NEW i, Mending(i, {})
  PROVE  InTree(i)
BY DEF Mending, InTree

\* A session that the step does not concern has seen what it has seen, if
\* nobody has changed its item and no pull has written what does not hold.
LEMMA SeenAlike ==
  ASSUME NEW d, Seen(d), pc'[d] = pc[d], call'[d] = call[d], left'[d] = left[d],
         listed'[d] = listed[d],
         intact'[d] =>
           /\ intact[d]
           /\ LET i == call[d].item IN
              \/ server'[i] = server[i] /\ UNCHANGED tree
              \/ /\ UNCHANGED server
                 /\ \/ tree'[i] = tree[i]
                    \/ \E l : tree'[i] = Synced(i, l) /\ Accurate(l, i)
  PROVE  Seen(d)'
<1>1. PICK c : c = call[d]
  OBVIOUS
<1>2. PICK places : places = left[d]
  OBVIOUS
<1>3. SUFFICES ASSUME intact'[d]
               PROVE  /\ pc[d] \notin {"idle", "api"}
                      /\ listed[d] # None => Accurate(listed[d], c.item)'
                      /\ c.how # "move" =>
                           /\ pc[d] = "refresh" => Mending(c.item, places)'
                           /\ pc[d] = "audit" => InTree(c.item)'
                           /\ pc[d] = "done" /\ c.tool # "create_reply_draft" =>
                                InTree(c.item)'
  BY <1>1, <1>2 DEF Seen, Mending, InTree, Accurate, There
<1>4. server'[c.item] = server[c.item]
  BY <1>1, <1>3
<1>5. listed[d] # None => Accurate(listed[d], c.item)'
  BY <1>1, <1>3, <1>4 DEF Seen, Accurate, There
<1>6. /\ Mending(c.item, places) => Mending(c.item, places)'
      /\ InTree(c.item) => InTree(c.item)'
  <2>1. CASE tree'[c.item] = tree[c.item]
    BY <1>4, <2>1 DEF Mending, InTree
  <2>2. CASE UNCHANGED server /\ \E l : tree'[c.item] = Synced(c.item, l) /\ Accurate(l, c.item)
    BY <2>2, PullMends
  <2> QED
    BY <1>1, <1>3, <2>1, <2>2
<1> QED
  BY <1>1, <1>2, <1>3, <1>5, <1>6 DEF Seen

\* A pull that writes: whose calls are still intact it told the truth about.
LEMMA FileSees ==
  ASSUME SInv, NEW res, NEW l, File(res, l), UNCHANGED server, NEW d \in Sessions,
         pc'[d] = pc[d], call'[d] = call[d], left'[d] = left[d], listed'[d] = listed[d]
  PROVE  Seen(d)'
<1>1. intact'[d] => intact[d] /\ (KindOf[call[d].item] = res => Accurate(l, call[d].item))
  BY DEF File
<1>2. intact[d] => call[d].item \in Items
  BY DEF SInv, IInv, Seen, Fits, CallType
<1>3. \A i \in Items : tree'[i] = IF KindOf[i] = res THEN Synced(i, l) ELSE tree[i]
  BY DEF File
<1>4. intact'[d] => LET i == call[d].item IN
        tree'[i] = tree[i] \/ \E k : tree'[i] = Synced(i, k) /\ Accurate(k, i)
  BY <1>1, <1>2, <1>3
<1> QED
  BY <1>1, <1>4, SeenAlike DEF SInv

\* A step of one session, of which the others know nothing.
LEMMA OneSees ==
  ASSUME SInv, NEW r \in Sessions, IInv', Seen(r)',
         \A d \in Sessions \ {r} : Seen(d)'
  PROVE  SInv'
BY DEF SInv

LEMMA CallSees ==
  ASSUME SInv, NEW r \in Sessions, CallTool(r)
  PROVE  SInv'
<1>1. UNCHANGED <<server, tree, intact, left, listed>> /\ pc[r] = "idle"
  BY DEF CallTool, account, history, refreshing
<1>2. \A d \in Sessions \ {r} : Seen(d)'
  BY <1>1, CallFits, SeenAlike DEF SInv
<1>3. Seen(r)'
  BY <1>1 DEF SInv, Seen
<1> QED
  BY <1>2, <1>3, CallKeeps, OneSees DEF SInv

\* What each kind of tool leaves is in a place that the tool refreshes.
LEMMA OutcomeTouched ==
  ASSUME IInv, NEW c, NEW p, Fits(c, p), Applies(c), c.tool # "send_email",
         c.how # "nothing", Looked(c), c.how # "move"
  PROVE  /\ Outcome(c) # None => Outcome(c).at \in Touched(c)
         /\ server[c.item] # None => server[c.item].at \in Touched(c)
<1>1. /\ c.item \in Items /\ c.how \in {"write", "append", "flags"}
      /\ \A place : New(place).at = place
  BY ToolsOfMail DEF Fits, CallType, New
<1>2. CASE KindOf[c.item] # "email"
  BY <1>1, <1>2, OutcomeLocated DEF Touched, IInv, TypeOK, Located, AtHome
<1>3. CASE KindOf[c.item] = "email"
  <2>1. Touched(c) = {c.at, c.to} \ {NoPlace} /\ NoPlace \notin Folders
    BY <1>3, PermissionsAssumption DEF Touched
  <2>2. c.tool \in MailTools \cup DraftTools \cup {"restore_mail_apply"}
    BY <1>3, ToolsOfMail
  <2>3. CASE c.tool \in DraftTools
    <3>1. server[c.item] = None /\ Outcome(c) = New(Drafts) /\ c.to = Drafts
      BY <2>3 DEF Applies, Outcome, Fits, Creating, Deleting, DraftTools
    <3> QED
      BY <1>1, <2>1, <3>1, PermissionsAssumption
  <2>4. CASE c.tool \in MailTools
    <3>1. /\ server[c.item] # None /\ server[c.item].at = c.at
          /\ c.at \in Folders /\ c.how = "write"
      BY <2>4 DEF Applies, Found, Looked, Fits, MailTools, Creating
    <3>2. c.tool = "move_email" => Outcome(c) = New(c.to) /\ c.to \in Folders
      BY <3>1 DEF Outcome, Creating, Deleting, Fits
    <3>3. c.tool = "delete_email" => Outcome(c) = None
      BY <3>1 DEF Outcome, Creating, Deleting
    <3>4. c.tool = "update_email_flags" => Outcome(c) = New(c.at)
      BY <3>1 DEF Outcome, Creating, Deleting
    <3> QED
      BY <1>1, <2>1, <2>4, <3>1, <3>2, <3>3, <3>4 DEF MailTools
  <2>5. CASE c.tool = "restore_mail_apply"
    <3>1. c.at \in Folders /\ c.to = c.at /\ c.how \in {"append", "flags"}
      BY <1>1, <2>5 DEF Fits
    <3>2. CASE c.how = "append"
      <4>1. server[c.item] = None /\ Outcome(c) = New(c.to)
        BY <2>5, <3>2 DEF Applies, Outcome, Creating, Deleting
      <4> QED
        BY <1>1, <2>1, <3>1, <4>1
    <3>3. CASE c.how = "flags"
      <4>1. server[c.item].at = c.at /\ Outcome(c) = New(c.at)
        BY <2>5, <3>3 DEF Looked, Outcome, Creating, Deleting
      <4> QED
        BY <1>1, <2>1, <3>1, <4>1
    <3> QED
      BY <3>1, <3>2, <3>3
  <2> QED
    BY <2>2, <2>3, <2>4, <2>5
<1> QED
  BY <1>2, <1>3

\* The server's answer: the others hear of it if it is their item.
LEMMA NotedSees ==
  ASSUME SInv, NEW r \in Sessions, NEW c, c = call[r], NEW v, pc[r] = "api", Accept(r),
         server' = [server EXCEPT ![c.item] = v], intact' = Noted(r, c), IInv',
         Looked(c) /\ c.how # "move" =>
           /\ v # None => v.at \in Touched(c)
           /\ server[c.item] # None => server[c.item].at \in Touched(c)
  PROVE  SInv'
<1>1. /\ UNCHANGED <<tree, call, listed>>
      /\ \/ Goto(r, "refresh") /\ left' = [left EXCEPT ![r] = Touched(c)]
         \/ Goto(r, "err") /\ UNCHANGED left
      /\ c.item \in Items
  BY DEF Accept, SInv, IInv, Fits, CallType
<1>2. /\ pc'[r] \in {"refresh", "err"} /\ \A d \in Sessions \ {r} : pc'[d] = pc[d]
      /\ \A j \in Items : server'[j] = IF j = c.item THEN v ELSE server[j]
      /\ pc'[r] = "refresh" => left'[r] = Touched(c)
      /\ \A d \in Sessions \ {r} : left'[d] = left[d]
  BY <1>1 DEF Goto, SInv, IInv, TypeOK, Typed
<1>3. ASSUME NEW d \in Sessions, d # r
      PROVE  Seen(d)'
  <2>1. intact'[d] => intact[d] /\ call[d].item # c.item
    BY <1>3 DEF Noted, Changed
  <2>2. pc[d] # "idle" => call[d].item \in Items
    BY DEF SInv, IInv, Fits, CallType
  <2>3. intact[d] => pc[d] # "idle"
    BY DEF SInv, Seen
  <2>4. intact'[d] => server'[call[d].item] = server[call[d].item]
    BY <1>2, <2>1, <2>2, <2>3
  <2> QED
    BY <1>1, <1>2, <1>3, <2>1, <2>4, SeenAlike DEF SInv
<1>4. intact'[r] => InTree(c.item) /\ Looked(c)
  BY DEF Noted, Changed
<1>5. InTree(c.item) /\ Looked(c) /\ c.how # "move" =>
        \A places : places = Touched(c) => Mending(c.item, places)'
  BY <1>1, <1>2 DEF InTree, Mending
<1>6. listed[r] = None
  BY DEF SInv, IInv, TypeOK, Refreshing
<1>7. Seen(r)'
  BY <1>1, <1>2, <1>4, <1>5, <1>6 DEF Seen, Mending
<1> QED
  BY <1>1, <1>2, <1>3, <1>7, OneSees

LEMMA ApiSees ==
  ASSUME SInv, NEW r \in Sessions, Api(r)
  PROVE  SInv'
<1>1. PICK c : c = call[r]
  OBVIOUS
<1>2. /\ pc[r] = "api" /\ c.tool # "send_email" /\ c.how # "nothing" /\ Applies(c) /\ Accept(r)
      /\ Fits(c, granted[r]) /\ c.item \in Items
      /\ server' = [server EXCEPT ![c.item] = Outcome(c)] /\ intact' = Noted(r, c)
  BY <1>1 DEF Api, Calling, SInv, IInv, Fits, CallType
<1>3. PICK v : v = Outcome(c)
  OBVIOUS
<1>4. Looked(c) /\ c.how # "move" =>
        /\ v # None => v.at \in Touched(c)
        /\ server[c.item] # None => server[c.item].at \in Touched(c)
  BY <1>2, <1>3, OutcomeTouched DEF SInv
<1>5. IInv'
  BY ApiKeeps DEF SInv
<1> QED
  BY <1>1, <1>2, <1>3, <1>4, <1>5, NotedSees

LEMMA AnsweredSees ==
  ASSUME SInv, NEW r \in Sessions, pc[r] = "api", Accept(r), UNCHANGED <<server, intact>>, IInv'
  PROVE  SInv'
<1>1. /\ UNCHANGED <<server, tree, call, intact, listed>>
      /\ Goto(r, "refresh") \/ Goto(r, "err")
      /\ left' = [left EXCEPT ![r] = Touched(call[r])] \/ UNCHANGED left
  BY DEF Accept
<1>2. Seen(r)'
  BY <1>1 DEF SInv, Seen
<1>3. \A d \in Sessions \ {r} : pc'[d] = pc[d] /\ left'[d] = left[d]
  BY <1>1 DEF Goto, SInv, IInv, TypeOK, Typed
<1>4. \A d \in Sessions \ {r} : Seen(d)'
  BY <1>1, <1>3, SeenAlike DEF SInv
<1> QED
  BY <1>2, <1>4, OneSees

LEMMA SendSees ==
  ASSUME SInv, NEW r \in Sessions, Send(r)
  PROVE  SInv'
<1>1. PICK c : c = call[r]
  OBVIOUS
<1>2. /\ pc[r] = "api" /\ c.tool = "send_email" /\ Accept(r) /\ IInv' /\ Fits(c, granted[r])
  BY <1>1, SendKeeps DEF Send, SInv, IInv
<1>3. CASE UNCHANGED <<account, intact>>
  BY <1>2, <1>3, AnsweredSees DEF account
<1>4. CASE ~UNCHANGED <<account, intact>>
  <2>1. /\ server[c.item] = None /\ server' = [server EXCEPT ![c.item] = New(Sent)]
        /\ intact' = Noted(r, c)
    BY <1>1, <1>4 DEF Send, SendByApi, SendBySmtp
  <2>2. Sent \in Touched(c)
    BY <1>2, SentLocated DEF SInv
  <2>3. PICK v : v = New(Sent)
    OBVIOUS
  <2>4. v.at = Sent
    BY <2>3 DEF New
  <2> QED
    BY <1>1, <1>2, <2>1, <2>2, <2>3, <2>4, NotedSees
<1> QED
  BY <1>3, <1>4

\* A step of one session that leaves account, files and history alone.
LEMMA StageSees ==
  ASSUME SInv, NEW r \in Sessions, IInv', UNCHANGED <<server, tree, call, intact>>,
         \A d \in Sessions \ {r} :
           pc'[d] = pc[d] /\ left'[d] = left[d] /\ listed'[d] = listed[d],
         Seen(r)'
  PROVE  SInv'
<1>1. \A d \in Sessions \ {r} : Seen(d)'
  BY SeenAlike DEF SInv
<1> QED
  BY <1>1, OneSees

LEMMA FailureSees ==
  ASSUME SInv, NEW r \in Sessions, Refused(r) \/ RefreshFails(r) \/ Audit(r)
  PROVE  SInv'
<1>1. /\ UNCHANGED <<server, tree, call, intact>>
      /\ left' = [left EXCEPT ![r] = {}] /\ listed' = [listed EXCEPT ![r] = None]
  BY DEF Refused, RefreshFails, Audit, Ended, account, history
<1>2. PICK label \in {"done", "err"} : Goto(r, label)
  BY DEF Refused, RefreshFails, Audit, Ended
<1>3. /\ pc'[r] = label /\ listed'[r] = None
      /\ \A d \in Sessions \ {r} :
           pc'[d] = pc[d] /\ left'[d] = left[d] /\ listed'[d] = listed[d]
  BY <1>1, <1>2 DEF Goto, SInv, IInv, TypeOK, Typed
<1>4. label = "done" => pc[r] = "audit" \/ call[r].tool = "create_reply_draft"
  BY <1>3 DEF Refused, RefreshFails, Audit, Ended, Goto, SInv, IInv, TypeOK, Typed
<1>5. Seen(r)
  BY DEF SInv
<1>6. Seen(r)'
  BY <1>1, <1>3, <1>4, <1>5 DEF Seen, InTree
<1> QED
  BY <1>1, <1>3, <1>6, FailureKeeps, StageSees DEF SInv

LEMMA NothingSees ==
  ASSUME SInv, NEW r \in Sessions, NothingToDo(r)
  PROVE  SInv'
<1>1. /\ pc[r] = "api" /\ Goto(r, "done") /\ UNCHANGED <<server, tree, call, intact, left, listed>>
  BY DEF NothingToDo, account, history, refreshing
<1>2. ~intact[r]
  BY <1>1 DEF SInv, Seen
<1>3. Seen(r)'
  BY <1>1, <1>2 DEF Seen
<1>4. \A d \in Sessions \ {r} : pc'[d] = pc[d]
  BY <1>1 DEF Goto, SInv, IInv, TypeOK, Typed
<1> QED
  BY <1>1, <1>3, <1>4, NothingKeeps, StageSees DEF SInv

LEMMA RefreshListsSees ==
  ASSUME SInv, NEW r \in Sessions, RefreshLists(r)
  PROVE  SInv'
<1>1. /\ UNCHANGED <<server, tree, pc, call, left, intact>> /\ pc[r] = "refresh"
      /\ Fits(call[r], granted[r])
  BY DEF RefreshLists, account, history, SInv, IInv
<1>2. PICK i \in Items : i = call[r].item
  BY <1>1, ToolsOfMail
<1>3. KindOf[i] \in Resources /\ left[r] \subseteq PlacesIn(KindOf[i])
  BY <1>1, <1>2, ToolsOfMail DEF SInv, IInv, TypeOK, Refreshing, Homes
<1>4. PICK l : listed' = [listed EXCEPT ![r] = l] /\ Accurate(l, i)
  <2>1. PICK place \in left[r] : listed' = [listed EXCEPT ![r] = Listing(KindOf[i], place)]
    BY <1>2 DEF RefreshLists
  <2>2. Accurate(Listing(KindOf[i], place), i)
    BY <1>3, <2>1, ListingFits DEF SInv
  <2> QED
    BY <2>1, <2>2
<1>5. listed'[r] = l /\ \A d \in Sessions \ {r} : listed'[d] = listed[d]
  BY <1>4 DEF SInv, IInv, TypeOK, Typed
<1>6. Seen(r)
  BY DEF SInv
<1>7. Accurate(l, i)'
  BY <1>1, <1>4 DEF Accurate, There
<1>8. Seen(r)'
  BY <1>1, <1>2, <1>5, <1>6, <1>7 DEF Seen, Mending, InTree, Accurate, There
<1> QED
  BY <1>1, <1>5, <1>8, RefreshListsKeeps, StageSees DEF SInv

LEMMA RefreshWritesSees ==
  ASSUME SInv, NEW r \in Sessions, RefreshWrites(r)
  PROVE  SInv'
<1>1. PICK c : c = call[r]
  OBVIOUS
<1>2. PICK l : l = listed[r]
  OBVIOUS
<1>3. PICK res : res = KindOf[c.item]
  OBVIOUS
<1>4. PICK label : label = IF left'[r] = {} THEN "audit" ELSE "refresh"
  OBVIOUS
<1>5. /\ pc[r] = "refresh" /\ l # None /\ File(res, l) /\ Goto(r, label)
      /\ left' = [left EXCEPT ![r] = @ \ {l.place}] /\ listed' = [listed EXCEPT ![r] = None]
      /\ UNCHANGED <<server, call>> /\ Fits(c, granted[r])
  BY <1>1, <1>2, <1>3, <1>4 DEF RefreshWrites, account, SInv, IInv
<1>6. /\ pc'[r] = label /\ listed'[r] = None /\ left'[r] = left[r] \ {l.place}
      /\ \A d \in Sessions \ {r} :
           pc'[d] = pc[d] /\ left'[d] = left[d] /\ listed'[d] = listed[d]
  BY <1>5 DEF Goto, SInv, IInv, TypeOK, Typed
<1>7. \A d \in Sessions \ {r} : Seen(d)'
  BY <1>5, <1>6, FileSees
<1>8. c.item \in Items /\ tree'[c.item] = Synced(c.item, l)
  BY <1>3, <1>5, ToolsOfMail DEF File
<1>9. intact'[r] => intact[r] /\ Accurate(l, c.item)
  BY <1>1, <1>3, <1>5 DEF File
<1>10. intact[r] /\ c.how # "move" => Mending(c.item, left[r])
  BY <1>1, <1>5 DEF SInv, Seen
<1>11. PICK places : places = left[r] \ {l.place}
  OBVIOUS
<1>12. intact'[r] /\ c.how # "move" => Mending(c.item, places)'
  BY <1>5, <1>8, <1>9, <1>10, <1>11, PullMends
<1>13. label = "audit" => places = {}
  BY <1>4, <1>6, <1>11
<1>14. Mending(c.item, {})' => InTree(c.item)'
  BY DEF Mending, InTree
<1>15. label \in {"audit", "refresh"} /\ (label = "refresh" => left'[r] = places)
  BY <1>4, <1>6, <1>11
<1>16. label = "audit" /\ intact'[r] /\ c.how # "move" => InTree(c.item)'
  BY <1>12, <1>13, <1>14
<1>17. Seen(r)'
  BY <1>1, <1>5, <1>6, <1>12, <1>15, <1>16 DEF Seen, Mending, InTree
<1> QED
  BY <1>7, <1>17, RefreshWritesKeeps, OneSees DEF SInv

LEMMA ReturnSees ==
  ASSUME SInv, NEW r \in Sessions, Return(r)
  PROVE  SInv'
<1>1. /\ UNCHANGED <<server, tree, left, listed>> /\ pc' = [pc EXCEPT ![r] = "idle"]
      /\ call' = [call EXCEPT ![r] = None] /\ intact' = [intact EXCEPT ![r] = FALSE]
  BY DEF Return, Goto, account, refreshing
<1>2. /\ ~intact'[r]
      /\ \A d \in Sessions \ {r} : pc'[d] = pc[d] /\ call'[d] = call[d] /\ intact'[d] = intact[d]
  BY <1>1 DEF SInv, IInv, TypeOK, Typed
<1>3. Seen(r)'
  BY <1>2 DEF Seen
<1>4. \A d \in Sessions \ {r} : Seen(d)'
  BY <1>1, <1>2, SeenAlike DEF SInv
<1> QED
  BY <1>3, <1>4, ReturnKeeps, OneSees DEF SInv

LEMMA PullSees ==
  ASSUME SInv, NEW res \in Resources, PullLists(res) \/ PullWrites(res)
  PROVE  SInv'
<1>1. UNCHANGED <<server, pc, call, left, listed>>
  BY DEF PullLists, PullWrites, account, refreshing
<1>2. UNCHANGED <<tree, intact>> \/ File(res, pulled[res])
  BY DEF PullLists, PullWrites, history
<1>3. CASE UNCHANGED <<tree, intact>>
  BY <1>1, <1>3, SeenAlike, PullListsKeeps, PullWritesKeeps DEF SInv
<1>4. CASE File(res, pulled[res])
  BY <1>1, <1>4, FileSees, PullListsKeeps, PullWritesKeeps DEF SInv
<1> QED
  BY <1>2, <1>3, <1>4

LEMMA OtherSees ==
  ASSUME SInv, NEW i \in Items, OtherChanges(i)
  PROVE  SInv'
<1>1. UNCHANGED <<tree, pc, call, left, listed>> /\ intact' = Changed(i)
  BY DEF OtherChanges, refreshing
<1>2. PICK v : server' = [server EXCEPT ![i] = v]
  BY DEF OtherChanges
<1>3. \A j \in Items : server'[j] = IF j = i THEN v ELSE server[j]
  BY <1>2 DEF SInv, IInv, TypeOK, Typed
<1>4. ASSUME NEW d \in Sessions
      PROVE  Seen(d)'
  <2>1. intact'[d] => intact[d] /\ call[d].item # i
    BY <1>1 DEF Changed
  <2>2. intact[d] => call[d].item \in Items
    BY DEF SInv, IInv, Seen, Fits, CallType
  <2>3. intact'[d] => server'[call[d].item] = server[call[d].item]
    BY <1>3, <2>1, <2>2
  <2> QED
    BY <1>1, <2>1, <2>3, SeenAlike DEF SInv
<1> QED
  BY <1>4, OtherKeeps DEF SInv

LEMMA CrashSees == SInv /\ Crash => SInv'
<1> SUFFICES ASSUME SInv, Crash PROVE SInv'
  OBVIOUS
<1>1. \A d \in Sessions : ~intact'[d]
  BY DEF Crash
<1> QED
  BY <1>1, CrashKeeps DEF SInv, Seen

LEMMA NextSInv == SInv /\ [Next]_vars => SInv'
<1> SUFFICES ASSUME SInv, [Next]_vars PROVE SInv'
  OBVIOUS
<1>1. CASE UNCHANGED vars
  <2>1. UNCHANGED <<server, tree, pc, call, left, listed, intact>>
    BY <1>1 DEF vars
  <2>2. \A d \in Sessions : Seen(d)'
    BY <2>1, SeenAlike DEF SInv
  <2> QED
    BY <1>1, <2>2, NextIInv DEF SInv
<1>2. ASSUME NEW r \in Sessions, Serve(r)
      PROVE  SInv'
  <2>1. NoSuchUid(r) => SInv'
    BY AnsweredSees, NoSuchUidKeeps DEF NoSuchUid, Calling, SInv, account
  <2> QED
    BY <1>2, <2>1, CallSees, ApiSees, SendSees, NothingSees, FailureSees, RefreshListsSees,
       RefreshWritesSees, ReturnSees DEF Serve
<1> QED
  BY <1>1, <1>2, PullSees, OtherSees, CrashSees DEF Next

\* A write that reports success has left its item in the backup tree as the
\* server has it, for every account, any sessions and any provider: what a tool
\* refreshes is enough (write/), unless a pull that had listed the item before
\* the write has put the older version back.
THEOREM SuccessIsSeen == Spec => []OkMeansSeen
<1>1. SInv => OkMeansSeen
  BY DEF SInv, Seen, OkMeansSeen
<1> QED
  BY <1>1, InitSInv, NextSInv, PTL DEF Spec
=============================================================================
