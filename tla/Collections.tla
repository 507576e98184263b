---------------------------- MODULE Collections ----------------------------
(***************************************************************************)
(* Contacts, calendar events and sieve scripts: their pulls (pull/         *)
(* contacts.rs, calendar.rs, sieve.rs), the writes of the MCP tools        *)
(* (write/contacts.rs, calendar.rs, sieve.rs) and the restores (restore/), *)
(* which are a plan with a token, then the API calls, each followed by a   *)
(* pull and an audit commit.                                               *)
(*                                                                         *)
(* An item has two files: the body, and the meta file with the mark by     *)
(* which the next pull tells whether it changed.  Every task may run       *)
(* beside every other one; the server is changed by others too.            *)
(***************************************************************************)
EXTENDS Naturals, Sequences, FiniteSets, SequencesExt

CONSTANTS
    Items, KindOf,  \* what may be backed up, and its kind
    Order,          \* the items as `git ls-tree` and apply_bulk order them
    Unsafe,         \* items whose UID is not the stem of its file
    Contents,
    ByEtag,         \* kinds whose mark is the etag; else it is a hash
    Dav,            \* kinds served over CalDAV or CardDAV, not REST
    ICloud,         \* events are on iCloud: its source remembers the list of
                    \* calendars, and its writer always sends an etag
    Calendars, CalendarOf,  \* the calendars there may be, and each event's
    Limit,          \* the `?limit=` of the listings that have one page
    Backed,         \* items on the server and in the backup at the start
    Pullers,        \* kinds with a pull loop in the daemon
    Requests,       \* MCP requests
    UpsetKinds,     \* the upsets that may happen
    MaxMoves,       \* bound: changes by others, and upsets
    MaxCalls,       \* bound: requests
    None

Kinds == {"contact", "event", "script"}
Tasks == Kinds \cup Requests    \* the puller of a kind bears its name

\* overlap: a pull runs beside another; abort: a call to the server fails;
\* lost: it succeeds and its answer does not arrive; disk: a file or a commit
\* cannot be written; crash: the daemon dies.
AllUpsets == {"overlap", "abort", "lost", "disk", "crash"}

Version == [id : Nat, stamp : Nat, content : Contents]

\* match: the etag to send, or 0.
Op == [item : Items, do : {"create", "update", "delete", "noop"},
       content : Contents \cup {None}, id : Nat, match : Nat]

ASSUME CollectionsAssumption ==
    /\ IsFiniteSet(Items)
    /\ KindOf \in [Items -> Kinds]
    /\ Order \in Seq(Items)
    /\ Unsafe \subseteq Items
    /\ ByEtag \subseteq Kinds
    /\ Dav \subseteq Kinds
    /\ ICloud \in BOOLEAN
    /\ ICloud => "event" \in Dav
    /\ CalendarOf \in [{i \in Items : KindOf[i] = "event"} -> Calendars]
    /\ Limit \in Nat
    /\ Backed \subseteq Items
    /\ Pullers \subseteq Kinds
    /\ Kinds \cap Requests = {}
    /\ UpsetKinds \subseteq AllUpsets
    /\ MaxMoves \in Nat
    /\ MaxCalls \in Nat
    /\ None \notin Items
    /\ None \notin Version
    /\ None \notin Contents
    /\ None \notin Nat

VARIABLES
    live,       \* live[i]: the server's version of item i, or None
    stamp,      \* the last id or etag the server gave out
    cals,       \* the server's calendars
    cache,      \* IcloudCalendarSource.discovered, or None
    body, meta, \* the files of each item: content and mark, or None
    dirs,       \* the calendars with a directory and a _calendar.json
    log,        \* the commits: all the files, and the audit entry
    pc,         \* where each task is
    known,      \* the calendars it listed
    listed,     \* what it took from the server
    todo, gone, \* the items it has to write and to remove
    at,         \* the one it is in the middle of
    job,        \* the operations a request has left
    mode,       \* how it got them: "write", "restore" or "bulk"
    did,        \* history: what its operations made of their items
    plans,      \* history: the plans returned by a dry run
    upsets, moves, calls

server == <<live, stamp, cals>>
files == <<body, meta, dirs>>
pullVars == <<known, listed, todo, gone, at>>
jobVars == <<job, mode, did>>
env == <<upsets, moves, calls>>
vars == <<live, stamp, cals, cache, body, meta, dirs, log, pc, known, listed,
          todo, gone, at, job, mode, did, plans, upsets, moves, calls>>

Nothing == [i \in Items |-> None]
Of(k) == {i \in Items : KindOf[i] = k}

Mark(i, v) == IF KindOf[i] \in ByEtag THEN v.stamp ELSE v.content

Snapshot(who) == [body |-> body, meta |-> meta, dirs |-> dirs, audit |-> who]

\* The daemon starts with a new repository, or where a pull left one.
Init ==
    /\ stamp = IF Backed = {} THEN 0 ELSE 1
    /\ \E first \in [Backed -> Contents] :
         live = [i \in Items |->
                   IF i \in Backed
                   THEN [id |-> 1, stamp |-> 1, content |-> first[i]]
                   ELSE None]
    /\ cals = Calendars
    /\ cache = None
    /\ body = [i \in Items |-> IF i \in Backed THEN live[i].content ELSE None]
    /\ meta = [i \in Items |-> IF i \in Backed THEN Mark(i, live[i]) ELSE None]
    /\ dirs = IF Backed = {} THEN {} ELSE Calendars
    /\ log = IF Backed = {} THEN <<>> ELSE <<Snapshot(None)>>
    /\ pc = [s \in Tasks |-> "idle"]
    /\ known = [s \in Tasks |-> {}]
    /\ listed = [s \in Tasks |-> Nothing]
    /\ todo = [s \in Tasks |-> {}]
    /\ gone = [s \in Tasks |-> {}]
    /\ at = [s \in Tasks |-> None]
    /\ job = [s \in Tasks |-> <<>>]
    /\ mode = [s \in Tasks |-> "write"]
    /\ did = [s \in Tasks |-> {}]
    /\ plans = {}
    /\ upsets = [k \in AllUpsets |-> 0]
    /\ moves = 0
    /\ calls = 0

Goto(s, label) == pc' = [pc EXCEPT ![s] = label]
Move == moves < MaxMoves /\ moves' = moves + 1
Upset(k) ==
    /\ k \in UpsetKinds
    /\ Move
    /\ upsets' = [upsets EXCEPT ![k] = @ + 1]
    /\ UNCHANGED calls
----------------------------------------------------------------------------
(***************************************************************************)
(* The server, changed by other clients                                    *)
(***************************************************************************)

New(c) == [id |-> stamp + 1, stamp |-> stamp + 1, content |-> c]

\* The calendar of an event must be there.
Homed(i) == KindOf[i] = "event" => CalendarOf[i] \in cals

OtherChanges(i) ==
    /\ Move
    /\ Homed(i)
    /\ \/ \E c \in Contents :
            /\ live' = [live EXCEPT ![i] =
                          IF @ = None THEN New(c)
                          ELSE [@ EXCEPT !.stamp = stamp + 1, !.content = c]]
            /\ stamp' = stamp + 1
       \/ /\ live[i] # None
          /\ live' = [live EXCEPT ![i] = None]
          /\ UNCHANGED stamp
    /\ UNCHANGED <<cals, cache, files, log, pc, pullVars, jobVars, plans,
                   upsets, calls>>

\* A calendar is removed with its events, or made.
CalendarChanges(c) ==
    /\ Move
    /\ \/ /\ c \in cals
          /\ cals' = cals \ {c}
          /\ live' = [i \in Items |->
                        IF KindOf[i] = "event" /\ CalendarOf[i] = c THEN None
                        ELSE live[i]]
       \/ /\ c \notin cals
          /\ cals' = cals \cup {c}
          /\ UNCHANGED live
    /\ UNCHANGED <<stamp, cache, files, log, pc, pullVars, jobVars, plans,
                   upsets, calls>>
----------------------------------------------------------------------------
(***************************************************************************)
(* The calendars that a source goes through.  iCloud's discovers them once *)
(* and keeps the list until a REPORT for one of them gets a 4xx.           *)
(***************************************************************************)

Seen == IF ICloud /\ cache # None THEN cache ELSE cals

\* A REPORT for each of the calendars W that it has seen succeeds.
Reached(W) == W \cap Seen \subseteq cals

\* Mutant: the list is kept whatever the answers.
ReportedKept(W) == cache' = IF ICloud THEN Seen ELSE None

Reported(W) == cache' = IF ICloud /\ Reached(W) THEN Seen ELSE None

\* The tools list_calendars (no REPORT) and list_events.
ListTool(W) ==
    /\ ICloud
    /\ Reported(W)
    /\ UNCHANGED <<server, files, log, pc, pullVars, jobVars, plans, env>>
----------------------------------------------------------------------------
(***************************************************************************)
(* pull_contacts, pull_calendar, pull_sieve                                *)
(***************************************************************************)

Kind(s) == IF s \in Kinds THEN s ELSE KindOf[Head(job[s]).item]

Pulling == {"calendars", "list", "get", "diff", "apply", "body", "unlink",
            "commit"}

FirstStep(k) == IF k = "event" THEN "calendars" ELSE "list"

\* Other pulls of this kind are running.
Overlapped(s) ==
    \E t \in Tasks \ {s} : pc[t] \in Pulling /\ Kind(t) = Kind(s)

BeginPull(s) == IF Overlapped(s) THEN Upset("overlap") ELSE UNCHANGED env

Tick(k) ==
    /\ k \in Pullers
    /\ pc[k] = "idle"
    /\ BeginPull(k)
    /\ Goto(k, FirstStep(k))
    /\ UNCHANGED <<server, cache, files, log, pullVars, jobVars, plans>>

\* What one page shows of a listing.
OnePage(all) == {S \in SUBSET all : \/ S = all /\ Cardinality(S) <= Limit
                                    \/ Cardinality(S) = Limit}

\* REST has one page of calendars.
CalendarPages == IF "event" \in Dav THEN {Seen} ELSE OnePage(cals)

ListCalendars(s) ==
    /\ pc[s] = "calendars"
    /\ \E S \in CalendarPages :
         /\ known' = [known EXCEPT ![s] = S]
         /\ dirs' = dirs \cup S
    /\ Reported({})
    /\ Goto(s, "list")
    /\ UNCHANGED <<server, body, meta, log, listed, todo, gone, at, jobVars,
                   plans, env>>

Take(s, S) ==
    /\ listed' = [listed EXCEPT ![s] =
                     [i \in Items |-> IF i \in S THEN live[i] ELSE None]]
    /\ Goto(s, "diff")
    /\ UNCHANGED <<server, files, log, known, todo, gone, at, jobVars, plans,
                   env>>

\* Contacts are read to the last page, or from every address book.
ListContacts(s) ==
    /\ pc[s] = "list" /\ Kind(s) = "contact"
    /\ Take(s, Of("contact"))
    /\ UNCHANGED cache

\* All events, of which the puller takes those of the calendars it listed.
ListEvents(s) ==
    /\ pc[s] = "list" /\ Kind(s) = "event"
    /\ Reached(Calendars)
    /\ Take(s, {i \in Of("event") : CalendarOf[i] \in known[s] \cap Seen})
    /\ Reported(Calendars)

\* The listing of the scripts, one page, does not have their content.
ListScripts(s) ==
    /\ pc[s] = "list" /\ Kind(s) = "script"
    /\ \E S \in OnePage({i \in Of("script") : live[i] # None}) :
         todo' = [todo EXCEPT ![s] = S]
    /\ Goto(s, "get")
    /\ UNCHANGED <<server, cache, files, log, known, listed, gone, at, jobVars,
                   plans, env>>

GetScript(s) ==
    /\ pc[s] = "get"
    /\ \/ /\ \E i \in todo[s] :
               /\ live[i] # None
               /\ listed' = [listed EXCEPT ![s][i] = live[i]]
               /\ todo' = [todo EXCEPT ![s] = @ \ {i}]
          /\ UNCHANGED pc
       \/ /\ todo[s] = {}
          /\ Goto(s, "diff")
          /\ UNCHANGED <<listed, todo>>
    /\ UNCHANGED <<server, cache, files, log, known, gone, at, jobVars, plans,
                   env>>

\* The items with a local meta file; of events, in the calendars listed.
Local(s) ==
    {i \in Of(Kind(s)) : /\ meta[i] # None
                         /\ Kind(s) = "event" => CalendarOf[i] \in known[s]}

\* Files of items that are not in the listing.  pull_contacts looks for the
\* stem of the file among the UIDs.
Disappeared(s) ==
    {i \in Local(s) : \/ listed[s][i] = None
                      \/ Kind(s) = "contact" /\ i \in Unsafe}

Changed(s) ==
    {i \in Of(Kind(s)) : /\ listed[s][i] # None
                         /\ meta[i] # Mark(i, listed[s][i])}

\* The local meta files are read, and compared with the listing.
Diff(s) ==
    /\ pc[s] = "diff"
    /\ todo' = [todo EXCEPT ![s] = Changed(s)]
    /\ gone' = [gone EXCEPT ![s] = Disappeared(s)]
    /\ Goto(s, "apply")
    /\ UNCHANGED <<server, cache, files, log, known, listed, at, jobVars,
                   plans, env>>

WriteBody(s) ==
    /\ pc[s] = "apply"
    /\ \E i \in todo[s] :
         /\ body' = [body EXCEPT ![i] = listed[s][i].content]
         /\ todo' = [todo EXCEPT ![s] = @ \ {i}]
         /\ at' = [at EXCEPT ![s] = i]
    /\ Goto(s, "body")
    /\ UNCHANGED <<server, cache, meta, dirs, log, known, listed, gone, jobVars,
                   plans, env>>

WriteMeta(s) ==
    /\ pc[s] = "body"
    /\ meta' = [meta EXCEPT ![at[s]] = Mark(at[s], listed[s][at[s]])]
    /\ at' = [at EXCEPT ![s] = None]
    /\ Goto(s, "apply")
    /\ UNCHANGED <<server, cache, body, dirs, log, known, listed, todo, gone,
                   jobVars, plans, env>>

RemoveBody(s) ==
    /\ pc[s] = "apply"
    /\ todo[s] = {}
    /\ \E i \in gone[s] :
         /\ body' = [body EXCEPT ![i] = None]
         /\ gone' = [gone EXCEPT ![s] = @ \ {i}]
         /\ at' = [at EXCEPT ![s] = i]
    /\ Goto(s, "unlink")
    /\ UNCHANGED <<server, cache, meta, dirs, log, known, listed, todo, jobVars,
                   plans, env>>

\* Mutant: the mark of an item that is gone stays.
RemoveBodyOnly(s) ==
    /\ pc[s] = "unlink"
    /\ at' = [at EXCEPT ![s] = None]
    /\ Goto(s, "apply")
    /\ UNCHANGED <<server, cache, files, log, known, listed, todo, gone,
                   jobVars, plans, env>>

RemoveMeta(s) ==
    /\ pc[s] = "unlink"
    /\ meta' = [meta EXCEPT ![at[s]] = None]
    /\ at' = [at EXCEPT ![s] = None]
    /\ Goto(s, "apply")
    /\ UNCHANGED <<server, cache, body, dirs, log, known, listed, todo, gone,
                   jobVars, plans, env>>

\* The directories of calendars that were not listed.
Cleanup(s) ==
    /\ pc[s] = "apply" /\ Kind(s) = "event"
    /\ todo[s] = {} /\ gone[s] = {}
    /\ LET kept(i) == KindOf[i] = "event" => CalendarOf[i] \in known[s] IN
       /\ body' = [i \in Items |-> IF kept(i) THEN body[i] ELSE None]
       /\ meta' = [i \in Items |-> IF kept(i) THEN meta[i] ELSE None]
    /\ dirs' = dirs \cap known[s]
    /\ Goto(s, "commit")
    /\ UNCHANGED <<server, cache, log, pullVars, jobVars, plans, env>>

Committed == IF log = <<>> THEN <<Nothing, Nothing, {}>>
             ELSE <<Last(log).body, Last(log).meta, Last(log).dirs>>

\* commit_all (GitStore): a commit if anything changed, whoever wrote it.
CommitPull(s) ==
    /\ \/ pc[s] = "commit"
       \/ pc[s] = "apply" /\ Kind(s) # "event"
    /\ todo[s] = {} /\ gone[s] = {}
    /\ log' = IF files = Committed THEN log ELSE Append(log, Snapshot(None))
    /\ listed' = [listed EXCEPT ![s] = Nothing]
    /\ known' = [known EXCEPT ![s] = {}]
    /\ Goto(s, IF s \in Kinds THEN "idle" ELSE "audit")
    /\ UNCHANGED <<server, cache, files, todo, gone, at, jobVars, plans, env>>
----------------------------------------------------------------------------
(***************************************************************************)
(* Dry runs: plan_contact, plan_sieve, plan_calendar, plan_bulk            *)
(***************************************************************************)

Call == calls < MaxCalls /\ calls' = calls + 1 /\ UNCHANGED <<upsets, moves>>

\* Mutant: an item that was not backed up at that commit is planned as well.
InAnyCommit(n, i) == TRUE

\* Both files of a contact are read from the commit, the body of the others.
InCommit(n, i) ==
    /\ log[n].body[i] # None
    /\ KindOf[i] = "contact" => log[n].meta[i] # None

HomeOf(i) == IF KindOf[i] = "event" THEN {CalendarOf[i]} ELSE {}

\* The item is looked up by the stem of its file; an event, in the list of
\* its calendar, if the source has seen that.
Found(i) == live[i] # None /\ i \notin Unsafe /\ HomeOf(i) \subseteq Seen

\* CalDAV has a listing only of a calendar that is there, or, on iCloud, an
\* empty one of a calendar that was not discovered.
Plannable(i) ==
    KindOf[i] \in Dav => IF ICloud THEN Reached(HomeOf(i))
                         ELSE HomeOf(i) \subseteq cals

PlanOp(n, i) ==
    LET was == log[n].body[i] IN
    [item |-> i, content |-> was, match |-> 0,
     id |-> IF Found(i) THEN live[i].id ELSE 0,
     do |-> CASE ~Found(i) -> "create"
              [] Found(i) /\ live[i].content = was -> "noop"
              [] OTHER -> "update"]

DryRun(n, i) ==
    /\ Call
    /\ InCommit(n, i)
    /\ Plannable(i)
    /\ plans' = plans \cup {[mode |-> "restore", ops |-> <<PlanOp(n, i)>>]}
    /\ IF KindOf[i] = "event" THEN Reported(HomeOf(i)) ELSE UNCHANGED cache
    /\ UNCHANGED <<server, files, log, pc, pullVars, jobVars>>

\* The items of q come as `git ls-tree` has them.
Sorted(q) ==
    \A j, k \in DOMAIN q : j < k =>
        \E a, b \in DOMAIN Order :
            a < b /\ Order[a] = q[j] /\ Order[b] = q[k]

\* Every body under the prefix; one that cannot be planned fails them all.
DryRunBulk(n) ==
    LET here == {i \in Items : log[n].body[i] # None} IN
    /\ Call
    /\ \A i \in here : InCommit(n, i) /\ Plannable(i)
    /\ \E q \in SetToSeqs(here) :
         /\ Sorted(q)
         /\ plans' = plans \cup
              {[mode |-> "bulk", ops |-> [k \in DOMAIN q |-> PlanOp(n, q[k])]]}
    /\ IF \E i \in here : KindOf[i] = "event"
       THEN Reported(UNION {HomeOf(i) : i \in here})
       ELSE UNCHANGED cache
    /\ UNCHANGED <<server, files, log, pc, pullVars, jobVars>>
----------------------------------------------------------------------------
(***************************************************************************)
(* Requests: the tools that write, and the applying of a plan              *)
(***************************************************************************)

Start(r, how, ops) ==
    /\ job' = [job EXCEPT ![r] = ops]
    /\ mode' = [mode EXCEPT ![r] = how]
    /\ Goto(r, IF ops = <<>> THEN "done" ELSE "api")
    /\ UNCHANGED did

\* A caller knows the id and the etag from an earlier listing.  The filter
\* tools edit a script and delete none; put_script lists the scripts to know
\* whether it has to update one.
Edits(i) ==
    LET v == live[i]
        etags == IF KindOf[i] = "script" THEN {0} ELSE {0, v.stamp} IN
    [item : {i}, do : {"update"}, content : Contents, id : {v.id}, match : etags]
    \cup IF KindOf[i] = "script" THEN {}
         ELSE [item : {i}, do : {"delete"}, content : {None}, id : {v.id},
               match : etags]

Creations(i) ==
    [item : {i}, do : {"create"}, content : Contents, id : {0}, match : {0}]

Write(r, i) ==
    /\ pc[r] = "idle"
    /\ Call
    /\ \E op \in Creations(i) \cup IF live[i] = None THEN {} ELSE Edits(i) :
         Start(r, "write", <<op>>)
    /\ UNCHANGED <<server, cache, files, log, pullVars, plans>>

\* The caller hands back a plan, as it was or edited.  The token is a hash of
\* the plan without a key, so that one can be made for any plan; where it does
\* not fit, nothing is done.
Apply(r, plan) ==
    /\ pc[r] = "idle"
    /\ Call
    /\ \/ Start(r, plan.mode, plan.ops)
       \/ Goto(r, "err") /\ UNCHANGED jobVars
    /\ UNCHANGED <<server, cache, files, log, pullVars, plans>>

Edited(plan) ==
    {plan} \cup {[plan EXCEPT !.ops[k].content = c] :
                    k \in DOMAIN plan.ops, c \in Contents}

\* On to the next operation.  apply_bulk counts an operation that failed as
\* an error and goes on.
Advance(r) ==
    /\ job' = [job EXCEPT ![r] = Tail(@)]
    /\ Goto(r, IF Tail(job[r]) = <<>> THEN "done" ELSE "api")
    /\ UNCHANGED mode

Undid(r) == did' = [did EXCEPT ![r] = {d \in @ : d.item # Head(job[r]).item}]

OpFails(r) ==
    /\ Undid(r)
    /\ IF mode[r] = "bulk" THEN Advance(r)
       ELSE /\ Goto(r, "err")
            /\ job' = [job EXCEPT ![r] = <<>>]
            /\ UNCHANGED mode

\* A contact is updated under the etag that the caller gave, if any.
ContactFits(op) ==
    op.do = "update" => op.match \in {0, live[op.item].stamp}

\* REST goes by the id; events and scripts know no etags there.
RestAccepts(op) ==
    CASE op.do = "create" -> live[op.item] = None /\ Homed(op.item)
      [] op.do \in {"update", "delete"} ->
           /\ live[op.item] # None
           /\ live[op.item].id = op.id
           /\ KindOf[op.item] = "contact" => ContactFits(op)
      [] OTHER -> FALSE

\* Without an etag there is no precondition, except from a writer that sends
\* the empty one.
Unconditional(op) ==
    op.match = 0 /\ ~(ICloud /\ KindOf[op.item] = "event")

\* DAV: a PUT without a precondition writes what is not there, and deleting
\* what is gone succeeds.
DavAccepts(op) ==
    LET fits == live[op.item] # None /\ live[op.item].stamp = op.match IN
    CASE op.do = "create" -> live[op.item] = None /\ Homed(op.item)
      [] op.do = "update" ->
           Homed(op.item) /\ (Unconditional(op) \/ fits)
      [] op.do = "delete" ->
           live[op.item] = None \/ Unconditional(op) \/ fits
      [] OTHER -> FALSE

Accepts(op) ==
    IF KindOf[op.item] \in Dav THEN DavAccepts(op) ELSE RestAccepts(op)

Result(op) ==
    IF op.do = "delete" THEN None
    ELSE IF live[op.item] = None THEN New(op.content)
    ELSE [live[op.item] EXCEPT !.stamp = stamp + 1, !.content = op.content]

Effect(op) ==
    /\ live' = [live EXCEPT ![op.item] = Result(op)]
    /\ stamp' = stamp + 1
    /\ UNCHANGED <<cals, cache>>

SkipNoOp(r) ==
    /\ pc[r] = "api"
    /\ Head(job[r]).do = "noop"
    /\ Advance(r)
    /\ UNCHANGED <<server, cache, files, log, pullVars, did, plans, env>>

\* Mutant: the audit commit is made without a pull before it.
ApiUnpulled(r) ==
    LET op == Head(job[r]) IN
    /\ pc[r] = "api"
    /\ Accepts(op)
    /\ Effect(op)
    /\ did' = [did EXCEPT ![r] = @ \cup {[item |-> op.item, became |-> Result(op),
                                          stamp |-> stamp + 1, after |-> Len(log)]}]
    /\ Goto(r, "audit")
    /\ UNCHANGED <<files, log, pullVars, job, mode, plans, env>>

\* The API call, and on to pull what it changed.
Api(r) ==
    LET op == Head(job[r]) IN
    /\ pc[r] = "api"
    /\ Accepts(op)
    /\ Effect(op)
    /\ did' = [did EXCEPT ![r] = @ \cup {[item |-> op.item, became |-> Result(op),
                                          stamp |-> stamp + 1, after |-> Len(log)]}]
    /\ BeginPull(r)
    /\ Goto(r, FirstStep(KindOf[op.item]))
    /\ UNCHANGED <<files, log, pullVars, job, mode, plans>>

ApiLost(r) ==
    /\ pc[r] = "api"
    /\ Accepts(Head(job[r]))
    /\ Effect(Head(job[r]))
    /\ Upset("lost")
    /\ OpFails(r)
    /\ UNCHANGED <<files, log, pullVars, plans>>

Refused(r) ==
    /\ pc[r] = "api"
    /\ Head(job[r]).do # "noop"
    /\ ~Accepts(Head(job[r]))
    /\ OpFails(r)
    /\ UNCHANGED <<server, cache, files, log, pullVars, plans, env>>

\* Mutant: no audit commit when the pull has made one.
AuditUnlessClean(r) ==
    /\ pc[r] = "audit"
    /\ log' = IF files = Committed THEN log
              ELSE Append(log, Snapshot(<<r, Head(job[r]).item>>))
    /\ Advance(r)
    /\ UNCHANGED <<server, cache, files, pullVars, did, plans, env>>

\* commit_all, else empty_commit.
Audit(r) ==
    /\ pc[r] = "audit"
    /\ log' = Append(log, Snapshot(<<r, Head(job[r]).item>>))
    /\ Advance(r)
    /\ UNCHANGED <<server, cache, files, pullVars, did, plans, env>>

Return(r) ==
    /\ pc[r] \in {"done", "err"}
    /\ Goto(r, "idle")
    /\ did' = [did EXCEPT ![r] = {}]
    /\ mode' = [mode EXCEPT ![r] = "write"]
    /\ UNCHANGED <<server, cache, files, log, pullVars, job, plans, env>>
----------------------------------------------------------------------------
(***************************************************************************)
(* Failures                                                                *)
(***************************************************************************)

Dropped(s) ==
    /\ known' = [known EXCEPT ![s] = {}]
    /\ listed' = [listed EXCEPT ![s] = Nothing]
    /\ todo' = [todo EXCEPT ![s] = {}]
    /\ gone' = [gone EXCEPT ![s] = {}]
    /\ at' = [at EXCEPT ![s] = None]

\* apply_sieve does not look at what its pull returned.
PullUnheeded(s) ==
    s \in Requests /\ Kind(s) = "script" /\ mode[s] # "write"

\* A pull fails.
PullFails(s) ==
    /\ Dropped(s)
    /\ CASE s \in Kinds -> Goto(s, "idle") /\ UNCHANGED jobVars
         [] PullUnheeded(s) -> Goto(s, "audit") /\ UNCHANGED jobVars
         [] OTHER -> OpFails(s)
    /\ UNCHANGED <<server, files, log, plans>>

\* A script that was listed is gone when it is fetched.
ScriptGone(s) ==
    /\ pc[s] = "get"
    /\ \E i \in todo[s] : live[i] = None
    /\ PullFails(s)
    /\ upsets' = [upsets EXCEPT !["abort"] = 1]
    /\ UNCHANGED <<cache, moves, calls>>

\* A calendar that was discovered is gone when it is read.
CalendarGone(s) ==
    /\ pc[s] = "list" /\ Kind(s) = "event"
    /\ ~Reached(Calendars)
    /\ Reported(Calendars)
    /\ PullFails(s)
    /\ upsets' = [upsets EXCEPT !["abort"] = 1]
    /\ UNCHANGED <<moves, calls>>

Abort(s) ==
    /\ pc[s] \in {"calendars", "list", "get"}
    /\ Upset("abort")
    /\ PullFails(s)
    /\ UNCHANGED cache

\* A body, a meta file or a commit is not written.
DiskFails(s) ==
    /\ Upset("disk")
    /\ \/ /\ pc[s] \in {"apply", "body", "commit"}
          /\ pc[s] = "apply" => todo[s] # {} \/ gone[s] = {}
          /\ PullFails(s)
       \/ /\ pc[s] = "audit"
          /\ OpFails(s)
          /\ UNCHANGED <<server, files, log, pullVars, plans>>
    /\ UNCHANGED cache

Crash ==
    /\ \E s \in Tasks : pc[s] # "idle"
    /\ Upset("crash")
    /\ pc' = [s \in Tasks |-> "idle"]
    /\ cache' = None
    /\ known' = [s \in Tasks |-> {}]
    /\ listed' = [s \in Tasks |-> Nothing]
    /\ todo' = [s \in Tasks |-> {}]
    /\ gone' = [s \in Tasks |-> {}]
    /\ at' = [s \in Tasks |-> None]
    /\ job' = [s \in Tasks |-> <<>>]
    /\ mode' = [s \in Tasks |-> "write"]
    /\ did' = [s \in Tasks |-> {}]
    /\ UNCHANGED <<server, files, log, plans>>
----------------------------------------------------------------------------
Pull(s) ==
    \/ ListCalendars(s) \/ ListContacts(s) \/ ListEvents(s) \/ CalendarGone(s)
    \/ ListScripts(s) \/ GetScript(s) \/ ScriptGone(s)
    \/ Diff(s) \/ WriteBody(s) \/ WriteMeta(s) \/ RemoveBody(s) \/ RemoveMeta(s)
    \/ Cleanup(s) \/ CommitPull(s)

Work(r) == SkipNoOp(r) \/ Api(r) \/ Refused(r) \/ Audit(r) \/ Return(r)

Ask(r) ==
    \/ \E i \in Items : Write(r, i)
    \/ \E p \in plans : \E plan \in Edited(p) : Apply(r, plan)

Next ==
    \/ \E s \in Tasks : Pull(s) \/ Abort(s) \/ DiskFails(s)
    \/ \E k \in Kinds : Tick(k)
    \/ \E r \in Requests : Ask(r) \/ Work(r) \/ ApiLost(r)
    \/ \E n \in DOMAIN log : DryRunBulk(n) \/ \E i \in Items : DryRun(n, i)
    \/ \E W \in SUBSET Calendars : ListTool(W)
    \/ \E i \in Items : OtherChanges(i)
    \/ \E c \in Calendars : CalendarChanges(c)
    \/ Crash

Spec == Init /\ [][Next]_vars

\* The tickers go on, and what was begun is carried on.
FairSpec ==
    /\ Spec
    /\ \A s \in Tasks : WF_vars(Pull(s))
    /\ \A k \in Kinds : WF_vars(Tick(k))
    /\ \A r \in Requests : WF_vars(Work(r))
----------------------------------------------------------------------------
(***************************************************************************)
(* Properties                                                              *)
(***************************************************************************)

Plan == [mode : {"restore", "bulk"}, ops : Seq(Op)]
Marks == Nat \cup Contents
Commit == [body : [Items -> Contents \cup {None}],
           meta : [Items -> Marks \cup {None}],
           dirs : SUBSET Calendars,
           audit : (Requests \X Items) \cup {None}]
Deed == [item : Items, became : Version \cup {None}, stamp : Nat, after : Nat]

\* Every variable has its type.
TypeOK ==
    /\ live \in [Items -> Version \cup {None}]
    /\ stamp \in Nat
    /\ cals \subseteq Calendars
    /\ cache \in (SUBSET Calendars) \cup {None}
    /\ body \in [Items -> Contents \cup {None}]
    /\ meta \in [Items -> Marks \cup {None}]
    /\ dirs \subseteq Calendars
    /\ log \in Seq(Commit)
    /\ pc \in [Tasks -> Pulling \cup {"idle", "api", "audit", "done", "err"}]
    /\ known \in [Tasks -> SUBSET Calendars]
    /\ listed \in [Tasks -> [Items -> Version \cup {None}]]
    /\ todo \in [Tasks -> SUBSET Items]
    /\ gone \in [Tasks -> SUBSET Items]
    /\ at \in [Tasks -> Items \cup {None}]
    /\ job \in [Tasks -> Seq(Op)]
    /\ mode \in [Tasks -> {"write", "restore", "bulk"}]
    /\ did \in [Tasks -> SUBSET Deed]
    /\ plans \subseteq Plan
    /\ upsets \in [AllUpsets -> Nat]
    /\ moves \in Nat
    /\ calls \in Nat

Never(K) == \A k \in K : upsets[k] = 0

\* What the item was made to be is still there.
Stands(d) == /\ live[d.item] = d.became
             /\ d.became = None => stamp = d.stamp

\* When a request reports success, the last commit has each item as the
\* request left it, unless somebody changed it again: the pull after the API
\* call is done before the answer, and no plain pull before or after it
\* brings back an older version.
OkMeansBackedUp ==
    Never({"overlap", "abort", "disk", "crash"}) =>
        \A r \in Requests : pc[r] = "done" =>
            \A d \in did[r] : Stands(d) =>
                Last(log).body[d.item] =
                    IF d.became = None THEN None ELSE d.became.content

\* And each operation that it counts as done has an audit commit of its own,
\* made after the change, whatever failed in between.
OkMeansAudited ==
    \A r \in Requests : pc[r] = "done" =>
        \A d \in did[r] : \E n \in DOMAIN log :
            n > d.after /\ log[n].audit = <<r, d.item>>

Mirrors(i) ==
    KindOf[i] \in Pullers =>
    IF live[i] = None THEN body[i] = None /\ meta[i] = None
    ELSE body[i] = live[i].content /\ meta[i] = Mark(i, live[i])

\* No calendar was made after the source made its list, which then stays out
\* of the backup until the daemon is restarted.
Discovered == cache = None \/ cals \subseteq cache

\* When the server rests the pulls bring every body and mark up to date, and
\* into a commit, after failed calls and lost answers, edits and deletions
\* between listing and writing; and a calendar that is gone leaves the backup
\* although the source remembers it.
BackupConverges ==
    <>[](Never({"overlap", "disk", "crash"}) /\ Discovered =>
           /\ "event" \in Pullers => dirs = cals
           /\ \A i \in Items : Mirrors(i)
           /\ log # <<>> => Last(log).body = body /\ Last(log).dirs = dirs)

\* A body that the next pull will take for current is current: "the git tree
\* is consistent with forwardemail even if an unrelated mutation happened
\* between our write and the commit" (write/contacts.rs).
NoneTorn ==
    (\A s \in Tasks : pc[s] = "idle") =>
        \A i \in Items :
            live[i] # None /\ meta[i] = Mark(i, live[i]) =>
                body[i] = live[i].content

\* Only a pull that runs beside another, and a pull that stops between a body
\* and its mark, leave such a body: not calls that fail, nor edits and
\* deletions by others, tools and restores between listing and writing.
OnlyOverlapsTear == Never({"overlap", "disk", "crash"}) => NoneTorn
=============================================================================
