------------------------------- MODULE Tools -------------------------------
(***************************************************************************)
(* The MCP server of a running daemon (mcp/server.rs, daemon.rs, write/):  *)
(* the daemon checks its configuration, starts the pull loops that the     *)
(* permissions ask for, and serves sessions with permissions of their own  *)
(* (profiles).  A writing tool looks up where its item is in the backup    *)
(* tree, checks that place, calls the server, refreshes what it touched    *)
(* and makes the audit commit.                                             *)
(*                                                                         *)
(* A pull, by a loop or by the refresh of a tool, lists a place and writes *)
(* what it has listed in a later step; MailSync and Collections have the   *)
(* steps between.                                                          *)
(***************************************************************************)
EXTENDS Permissions, Naturals, Sequences

CONSTANTS Items, KindOf,    \* what is in the account, and its resource
          Sent,             \* the folder of sent mail
          Policies,         \* the permissions that a configuration gives
          Configs,          \* which of the blocks have credentials
          Sessions,
          Crashes,          \* whether the daemon may die
          MaxMoves,         \* bound: changes by others, failures and crashes
          MaxCalls,         \* bound: calls of tools
          None

ASSUME ToolsAssumption ==
    /\ KindOf \in [Items -> Resources]
    /\ Sent \in Folders
    /\ Policies \subseteq Policy
    /\ Configs \subseteq SUBSET Blocks
    /\ Crashes \in BOOLEAN
    /\ MaxMoves \in Nat
    /\ MaxCalls \in Nat

VARIABLES
    provider,
    imap,       \* the mail writer is IMAP: it takes a folder and a UID
    main,       \* [permissions] of the configuration
    granted,    \* granted[r]: the permissions of session r
    server,     \* server[i]: where item i is and its version, or None
    stamp,      \* the last version the server gave out
    tree,       \* tree[i]: the files of item i in the backup tree
    pulled,     \* what the pull of each resource has listed, or None
    pc, call,   \* where each session is, and the tool it has called
    left,       \* the places that its refresh has still to pull
    listed,     \* what its refresh has listed, or None
    intact,     \* history: the backup tree was right about the item when the
                \* call changed it, and since then nobody else has changed it
                \* and no pull has written what it had listed before
    accepted,   \* history: the calls that the server has carried out
    audited,    \* the calls with an audit commit
    moves, calls

account == <<server, stamp>>
config == <<provider, imap, main, granted>>
refreshing == <<left, listed>>
history == <<intact, accepted>>
env == <<moves, calls>>
vars == <<provider, imap, main, granted, server, stamp, tree, pulled, pc, call,
          left, listed, intact, accepted, audited, moves, calls>>

Scopes == Places \cup {NoPlace}

MailTools == {"update_email_flags", "move_email", "delete_email"}
Creating == {"create_draft", "create_reply_draft", "create_event",
             "create_contact"}
Deleting == {"delete_email", "delete_event", "delete_contact"}
WriteTools == EmailWrites \cup {"send_email", "create_event", "update_event",
    "delete_event", "create_contact", "update_contact", "delete_contact",
    "add_sieve_rule", "remove_sieve_rule"}

\* how: what the plan of a restore says, "write" for the other tools.
CallType == [tool : WriteTools, item : Items, at : Scopes,
             to : Scopes, how : {"write", "append", "move",
             "flags", "nothing"}, n : Nat]

Version == [at : Scopes, ver : Nat]
ListingType == [place : Scopes, has : [Items -> SUBSET Version]]

\* Where the items of a resource are.
PlacesIn(res) == IF PlacesOf(res) = {} THEN {NoPlace} ELSE PlacesOf(res)
Homes(i) == PlacesIn(KindOf[i])

\* validate_against_capabilities is for the main permissions only.
Init ==
    /\ provider \in {p \in Providers : \E blocks \in Configs : Active(blocks, p)}
    /\ imap \in OverImap(provider)
    /\ main \in {p \in Policies : Validated(p, provider)}
    /\ granted \in [Sessions -> Policies]
    /\ server = [i \in Items |-> None]
    /\ stamp = 0
    /\ tree = [i \in Items |-> {}]
    /\ pulled = [res \in Resources |-> None]
    /\ pc = [r \in Sessions |-> "idle"]
    /\ call = [r \in Sessions |-> None]
    /\ left = [r \in Sessions |-> {}]
    /\ listed = [r \in Sessions |-> None]
    /\ intact = [r \in Sessions |-> FALSE]
    /\ accepted = {}
    /\ audited = {}
    /\ moves = 0
    /\ calls = 0

Goto(r, label) == pc' = [pc EXCEPT ![r] = label]
Move == moves < MaxMoves /\ moves' = moves + 1 /\ UNCHANGED calls

New(place) == [at |-> place, ver |-> stamp + 1]

\* What is left of the history when item i changes.
Changed(i) == [r \in Sessions |-> intact[r] /\ call[r].item # i]
----------------------------------------------------------------------------
(***************************************************************************)
(* Other clients, and the pull loops                                       *)
(***************************************************************************)

OtherChanges(i) ==
    /\ Move
    /\ stamp' = stamp + 1
    /\ \E v \in {New(place) : place \in Homes(i)} \cup {None} :
         server' = [server EXCEPT ![i] = v]
    /\ intact' = Changed(i)
    /\ UNCHANGED <<config, tree, pulled, pc, call, refreshing, accepted, audited>>

\* What the server has of an item in a place, and what a listing of the place
\* has of the items of a resource.
There(i, place) == {v \in {server[i]} \ {None} : v.at = place}
Listing(res, place) ==
    [place |-> place,
     has |-> [i \in Items |-> IF KindOf[i] = res THEN There(i, place) ELSE {}]]

\* The files after a pull of one place.
Synced(i, l) == {f \in tree[i] : f.at # l.place} \cup l.has[i]

Accurate(l, i) == l.has[i] = There(i, l.place)

\* A listing is written; what it says of an item may not hold any more.
File(res, l) ==
    /\ tree' = [i \in Items |-> IF KindOf[i] = res THEN Synced(i, l) ELSE tree[i]]
    /\ intact' = [r \in Sessions |-> intact[r] /\
                    (KindOf[call[r].item] = res => Accurate(l, call[r].item))]

\* A resource has a pull loop if the default of the main permissions lets it
\* be read.
Puller(res) == MayRead(main, res, NoPlace) /\ res \in Capabilities(provider)

PullLists(res) ==
    /\ Puller(res)
    /\ pulled[res] = None
    /\ \E i \in Items : KindOf[i] = res
    /\ \E place \in PlacesIn(res) :
         pulled' = [pulled EXCEPT ![res] = Listing(res, place)]
    /\ UNCHANGED <<config, account, tree, pc, call, refreshing, history, audited, env>>

\* It writes, or fails and will list again.
PullWrites(res) ==
    /\ pulled[res] # None
    /\ File(res, pulled[res]) \/ UNCHANGED <<tree, intact>>
    /\ pulled' = [pulled EXCEPT ![res] = None]
    /\ UNCHANGED <<config, account, pc, call, refreshing, accepted, audited, env>>
----------------------------------------------------------------------------
(***************************************************************************)
(* A call of a writing tool                                                *)
(***************************************************************************)

\* The places that a call of each tool has.  lookup_message_meta finds some
\* file of the message.
Addressed(i, t, at, to) ==
    CASE t = "move_email" -> (\E f \in tree[i] : f.at = at) /\ to \in Folders
      [] t \in {"update_email_flags", "delete_email"} ->
           (\E f \in tree[i] : f.at = at) /\ to = NoPlace
      [] t \in {"create_draft", "create_reply_draft"} ->
           at = NoPlace /\ to = Drafts
      [] t = "send_email" -> at = NoPlace /\ to = Sent
      [] t = "restore_mail_apply" -> at \in Folders /\ to = at
      [] t = "create_event" -> at = NoPlace /\ to \in Calendars
      [] t = "update_event" -> at \in Calendars /\ to \in Calendars \cup {NoPlace}
      [] t = "delete_event" -> at \in Calendars /\ to = NoPlace
      [] OTHER -> at = NoPlace /\ to = NoPlace

\* plan_mail, at the dry run: the flags may be as they were.
Plans(i, t, to) ==
    IF t # "restore_mail_apply" THEN {"write"}
    ELSE IF server[i] = None THEN {"append"}
    ELSE IF server[i].at # to THEN {"move"}
    ELSE {"flags", "nothing"}

\* call_tool, the checks of the handler, and the handles it asks for.
CallTool(r) ==
    /\ pc[r] = "idle"
    /\ calls < MaxCalls
    /\ calls' = calls + 1
    /\ \E i \in Items, t \in WriteTools :
         /\ ResourceOf(t) = KindOf[i]
         /\ Listed(granted[r], t)
         /\ \E at \in Scopes, to \in Scopes :
              /\ Addressed(i, t, at, to)
              /\ Allows(granted[r], t, at, to)
              /\ Served(provider, t, to)
              /\ \E how \in Plans(i, t, to) :
                   call' = [call EXCEPT ![r] = [tool |-> t, item |-> i, at |-> at,
                                to |-> to, how |-> how, n |-> calls]]
    /\ Goto(r, "api")
    /\ UNCHANGED <<config, account, tree, pulled, refreshing, history, audited,
                   moves>>

\* IMAP finds the message by the folder and a UID, and the calendar server
\* of iCloud the event by its calendar; elsewhere an id is enough.
ByPlace(c) ==
    \/ imap /\ c.tool \in MailTools \cup {"restore_mail_apply"}
    \/ provider = "icloud" /\ c.tool \in {"update_event", "delete_event"}

Found(c) ==
    /\ server[c.item] # None
    /\ ByPlace(c) => server[c.item].at = c.at

\* The item as the call leaves it.
Outcome(c) ==
    CASE c.tool \in Creating \/ c.how = "append" -> New(c.to)
      [] c.tool \in Deleting -> None
      [] c.tool = "add_sieve_rule" -> New(NoPlace)
      [] c.tool = "move_email" \/ c.how = "move"
           \/ (c.tool = "update_event" /\ c.to # NoPlace) -> New(c.to)
      [] OTHER -> New(server[c.item].at)

\* An item that is not there is an error, but to IMAP a UID that is not there
\* is none.  A second copy of a message is another message.
Applies(c) ==
    CASE c.tool \in Creating \/ c.how = "append" -> server[c.item] = None
      [] c.tool = "add_sieve_rule" -> TRUE
      [] OTHER -> Found(c)

InTree(i) == tree[i] = {server[i]} \ {None}
Looked(c) ==
    c.tool \in MailTools \/ c.how = "flags" => server[c.item].at = c.at
Noted(r, c) == [Changed(c.item) EXCEPT ![r] = InTree(c.item) /\ Looked(c)]

Silent(c) ==
    \/ imap /\ c.tool \in MailTools \cup {"restore_mail_apply"}
    \/ c.how = "append"

\* Mutant: the folder a message is moved from is not refreshed.
OnlyTarget(c) ==
    IF KindOf[c.item] # "email" THEN Homes(c.item)
    ELSE IF c.to # NoPlace THEN {c.to} ELSE {c.at}

\* Mutant: a folder that the call does not name is refreshed as well.
AnyName(c) ==
    IF KindOf[c.item] = "email" THEN {c.at, c.to} ELSE Homes(c.item)

\* sync_folders of the folders of the call; the other pulls are whole.  The
\* plan of a restore names one folder, where the message was.
Touched(c) ==
    IF KindOf[c.item] = "email" THEN {c.at, c.to} \ {NoPlace}
    ELSE Homes(c.item)

\* The server has done it; its answer may be lost.
Accept(r) ==
    /\ accepted' = accepted \cup {call[r].n}
    /\ \/ /\ Goto(r, "refresh")
          /\ left' = [left EXCEPT ![r] = Touched(call[r])]
          /\ UNCHANGED env
       \/ Goto(r, "err") /\ Move /\ UNCHANGED left
    /\ UNCHANGED <<config, tree, pulled, call, listed, audited>>

\* apply_mail has nothing to restore: no call of the server, no commit.
NothingToDo(r) ==
    /\ pc[r] = "api"
    /\ call[r].how = "nothing"
    /\ Goto(r, "done")
    /\ UNCHANGED <<config, account, tree, pulled, call, refreshing, history, audited,
                   env>>

Calling(r) ==
    /\ pc[r] = "api"
    /\ call[r].tool # "send_email"
    /\ call[r].how # "nothing"

Api(r) ==
    /\ Calling(r)
    /\ Applies(call[r])
    /\ server' = [server EXCEPT ![call[r].item] = Outcome(call[r])]
    /\ stamp' = stamp + 1
    /\ intact' = Noted(r, call[r])
    /\ Accept(r)

\* forwardemail puts a copy in the folder of sent mail; a second copy of a
\* message is another message.
SendByApi(r) ==
    /\ "client" \in Handles(provider)
    /\ IF server[call[r].item] = None
       THEN /\ server' = [server EXCEPT ![call[r].item] = New(Sent)]
            /\ stamp' = stamp + 1
            /\ intact' = Noted(r, call[r])
       ELSE UNCHANGED <<account, intact>>

\* Submission over SMTP leaves none.
SendBySmtp(r) ==
    /\ "smtp_sender" \in Handles(provider)
    /\ UNCHANGED <<account, intact>>

Send(r) ==
    /\ pc[r] = "api"
    /\ call[r].tool = "send_email"
    /\ SendByApi(r) \/ SendBySmtp(r)
    /\ Accept(r)

NoSuchUid(r) ==
    /\ Calling(r)
    /\ ~Applies(call[r])
    /\ Silent(call[r])
    /\ UNCHANGED <<account, intact>>
    /\ Accept(r)

\* A tool goes on to its next step, and gives up what it had begun.
Ended(r, label) ==
    /\ Goto(r, label)
    /\ left' = [left EXCEPT ![r] = {}]
    /\ listed' = [listed EXCEPT ![r] = None]
    /\ UNCHANGED <<config, account, tree, pulled, call, history>>

Refused(r) ==
    /\ pc[r] = "api"
    /\ call[r].how # "nothing"
    /\ \/ /\ call[r].tool # "send_email" /\ ~Applies(call[r])
          /\ ~Silent(call[r])
          /\ UNCHANGED env
       \/ Move
    /\ Ended(r, "err")
    /\ UNCHANGED audited

RefreshLists(r) ==
    /\ pc[r] = "refresh"
    /\ listed[r] = None
    /\ \E place \in left[r] :
         listed' = [listed EXCEPT ![r] = Listing(KindOf[call[r].item], place)]
    /\ UNCHANGED <<config, account, tree, pulled, pc, call, left, history, audited, env>>

RefreshWrites(r) ==
    /\ pc[r] = "refresh"
    /\ listed[r] # None
    /\ File(KindOf[call[r].item], listed[r])
    /\ left' = [left EXCEPT ![r] = @ \ {listed[r].place}]
    /\ listed' = [listed EXCEPT ![r] = None]
    /\ Goto(r, IF left'[r] = {} THEN "audit" ELSE "refresh")
    /\ UNCHANGED <<config, account, pulled, call, accepted, audited, env>>

\* Mutant: no tool looks at the result of its refresh.
RefreshIgnored(r) ==
    /\ pc[r] \in {"refresh", "audit"}
    /\ Move
    /\ Ended(r, "done")
    /\ UNCHANGED audited

\* A pull or the audit commit fails.  The reply draft does not look at the
\* result of its refresh.
RefreshFails(r) ==
    /\ pc[r] \in {"refresh", "audit"}
    /\ Move
    /\ Ended(r, IF call[r].tool = "create_reply_draft" THEN "done" ELSE "err")
    /\ UNCHANGED audited

Audit(r) ==
    /\ pc[r] = "audit"
    /\ audited' = audited \cup {call[r].n}
    /\ Ended(r, "done")
    /\ UNCHANGED env

Return(r) ==
    /\ pc[r] \in {"done", "err"}
    /\ Goto(r, "idle")
    /\ call' = [call EXCEPT ![r] = None]
    /\ intact' = [intact EXCEPT ![r] = FALSE]
    /\ UNCHANGED <<config, account, tree, pulled, refreshing, accepted, audited, env>>

Crash ==
    /\ Crashes
    /\ Move
    /\ \E r \in Sessions : pc[r] # "idle"
    /\ pulled' = [res \in Resources |-> None]
    /\ pc' = [r \in Sessions |-> "idle"]
    /\ call' = [r \in Sessions |-> None]
    /\ left' = [r \in Sessions |-> {}]
    /\ listed' = [r \in Sessions |-> None]
    /\ intact' = [r \in Sessions |-> FALSE]
    /\ UNCHANGED <<config, account, tree, accepted, audited>>
----------------------------------------------------------------------------
Serve(r) ==
    \/ CallTool(r)
    \/ Api(r) \/ Send(r) \/ NoSuchUid(r) \/ Refused(r) \/ NothingToDo(r)
    \/ RefreshLists(r) \/ RefreshWrites(r) \/ RefreshFails(r)
    \/ Audit(r) \/ Return(r)

Next ==
    \/ \E r \in Sessions : Serve(r)
    \/ \E res \in Resources : PullLists(res) \/ PullWrites(res)
    \/ \E i \in Items : OtherChanges(i)
    \/ Crash

Spec == Init /\ [][Next]_vars
----------------------------------------------------------------------------
(***************************************************************************)
(* Properties                                                              *)
(***************************************************************************)

Typed ==
    /\ provider \in Providers
    /\ imap \in BOOLEAN
    /\ main \in Policies
    /\ granted \in [Sessions -> Policies]
    /\ server \in [Items -> Version \cup {None}]
    /\ stamp \in Nat
    /\ tree \in [Items -> SUBSET Version]
    /\ pulled \in [Resources -> ListingType \cup {None}]
    /\ pc \in [Sessions -> {"idle", "api", "refresh", "audit", "done", "err"}]
    /\ call \in [Sessions -> CallType \cup {None}]
    /\ left \in [Sessions -> SUBSET Scopes]
    /\ listed \in [Sessions -> ListingType \cup {None}]
    /\ intact \in [Sessions -> BOOLEAN]
    /\ accepted \subseteq Nat
    /\ audited \subseteq Nat
    /\ moves \in Nat
    /\ calls \in Nat

\* Items, their files and their listings are in places of their resource.
AtHome(i, versions) == \A v \in versions : v.at \in Homes(i)
Fitting(l, res) ==
    l # None => /\ l.place \in PlacesIn(res)
                /\ \A i \in Items : AtHome(i, l.has[i])
Located ==
    /\ \A i \in Items : AtHome(i, {server[i]} \ {None}) /\ AtHome(i, tree[i])
    /\ \A res \in Resources : Fitting(pulled[res], res)

\* A refresh has places left, all of which may have the item of the call.
Refreshing(r) ==
    /\ pc[r] = "refresh" =>
         left[r] # {} /\ left[r] \subseteq Homes(call[r].item)
    /\ listed[r] # None =>
         /\ pc[r] = "refresh"
         /\ listed[r].place \in left[r]
         /\ Fitting(listed[r], KindOf[call[r].item])

\* Every variable has its type.
TypeOK == Typed /\ Located /\ \A r \in Sessions : Refreshing(r)

\* A tool that its handler would let do something is listed: TOOL_REQS and the
\* checks of the handlers are kept apart, and a call of an unlisted tool is
\* answered as if there were no such tool.  What a session is granted never
\* changes; one look, before the first call, will do.
AllowedIsListed ==
    calls = 0 /\ moves = 0 =>
      \A r \in Sessions, t \in Tools :
        Listed(granted[r], t) \/
          ~ \E at \in Scopes, to \in Scopes : Allows(granted[r], t, at, to)

\* The audit trail is the calls that were carried out: none without the
\* server's answer, and none missing that was reported as done.  Two tools
\* report what has no commit: the reply draft may, and the restore of a message
\* that is as it was has made no call.
AuditIsTrue ==
    /\ audited \subseteq accepted
    /\ \A r \in Sessions :
         /\ pc[r] = "done"
         /\ call[r].tool # "create_reply_draft"
         /\ call[r].how # "nothing"
         => call[r].n \in audited

\* When a write reports success the backup tree has the item where and as the
\* call left it, and nowhere else: refreshing only the folders of the call is
\* enough.  Unless the tree was behind at the time of the call, or since then
\* somebody changed the item or a pull wrote what it had listed before.  The
\* restore that moves a message back names the folder it goes to twice, and not
\* the one it came from.
OkMeansSeen ==
    \A r \in Sessions :
      /\ pc[r] = "done"
      /\ call[r].tool # "create_reply_draft"
      /\ call[r].how # "move"
      /\ intact[r]
      => InTree(call[r].item)

\* A folder that a profile does not let be written, by its own rule or for
\* want of one.
Closed(p, f) ==
    \/ p.rule[f] \in {"none", "read"}
    \/ p.rule[f] = Unset /\ p.default["email"] # "read_write"

\* The tools that look a message up judge it by the folder that the backup tree
\* has, and the message may be in another by now.
Elsewhere(c) == server[c.item] # None /\ server[c.item].at # c.at

\* The rules of a profile ("Trash=none (or any other per-folder rule) is
\* actually honoured", server.rs): no call puts a message into a closed folder,
\* and none takes a message from one, or changes it there, unless the message is
\* not where the call was told.  It never is when a restore moves a message
\* back, where the code asks for the folder it goes to alone: that restore
\* takes messages out of closed folders.
RulesHonoured ==
    [][\A r \in Sessions :
         Api(r) /\ KindOf[call[r].item] = "email" =>
           LET c == call[r]
               old == server[c.item]
               new == server'[c.item]
           IN /\ new # None /\ Closed(granted[r], new.at) =>
                     old # None /\ old.at = new.at /\ Elsewhere(c)
              /\ old # None /\ Closed(granted[r], old.at) /\ c.how # "move" =>
                     Elsewhere(c)]_vars
=============================================================================
