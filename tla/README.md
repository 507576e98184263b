# TLA+ models of pimsteward

pimsteward copies somebody's mail, calendar, contacts and mail filters from
their servers into a git repository, lets AI clients write back through a
permission-gated MCP server, and sends calendar invitations when the backup
shows that an event changed. These modules model the parts of it whose
correctness depends on what happens *between* steps: several tasks over one git
working tree, a server that changes while it is read, messages that cannot be
called back, one IMAP connection with many users, and a daemon that may die
anywhere.

Paths below are relative to `crates/pimsteward/src/`.

## Inventory

| component | state it keeps | operations | what is hard | modules |
|---|---|---|---|---|
| Git store, `store/mod.rs` | working tree, git index, HEAD, `commit_lock` | `write_file`, `commit_all`, `empty_commit`, `gc` | several `git` processes per call, several callers, two kinds of handle | `GitStore` |
| Calendar puller, `pull/calendar.rs` | event and meta files, `_calendar.json` | list calendars, list events, compare, write, delete, clean up, commit | server and tree change meanwhile; a remembered list of calendars | `Collections`, `Scheduling` |
| Contacts and sieve pullers, `pull/` | the same two files per item | list, fetch, compare, write, delete, commit | overlapping pulls, two writes per item | `Collections` |
| Scheduling agent, `scheduling/` | watermark, ledger `sent.jsonl` | fence, diff, plan, number, dedup, send, record | messages leave for good; crash, refused and lost sends | `Scheduling` |
| Mail sync, `pull/mail.rs` | `.eml`, `.meta.json`, `_folder.json`, index rows | EXAMINE, SEARCH, FETCH, write, delete, manifest, folder cleanup | CONDSTORE watermark, UIDVALIDITY, overlapping syncs, crashes | `MailSync`, `MailIndex` |
| Search index, `index/` | SQLite rows | upsert, delete, rebuild, orphan sweep, drift check | one row per message, many writers, no transaction with the files | `MailIndex` |
| IMAP session and IDLE, `source/imap.rs` | cached session, its folder and mode, a `Notify` | reuse, recycle, probe, every mail command, wait | limits, dropped connections, lost answers, lost wake-ups | `ImapSession`, `Mailbox` |
| Write path, `write/` | none of its own | API call, refresh, audit commit | crash between them, race with pullers | `Collections`, `Tools`, `GitStore` |
| Restore, `restore/` | plan and token | plan, check token, apply, bulk | the server moves between plan and apply | `Collections`, `Tools` |
| Permissions, `permission.rs` | none | decide read, write, send | scoped rules and their precedence | `Permissions` |
| MCP server, `mcp/server.rs`, `daemon.rs` | profiles, one `Repo` handle per request | list tools, check, dispatch | order of lookup, check, write, refresh, commit | `Tools`, `Permissions` |
| Sieve editing, `write/sieve.rs` | active script (on the server) | read, edit, put, activate | lost update, scripts that do not run | `SieveRules` |
| Providers, clients, `provider/`, `forwardemail/`, `icloud/`, `source/*dav*`, `smtp.rs` | connections, iCloud's list of calendars | HTTP, DAV, SMTP | preconditions, pages, what an error leaves | as the environment of the others |
| Configuration, `config.rs` | none after start | parse, validate | which provider is active | `Permissions` (that part) |
| `safety.rs`, `pimsteward-ical`, `ics-feedbuilder` | none | guards of tests, parse, render | text | |

They interact in four ways. Everything that changes the repository ends in
`commit_all`, which commits the *whole* tree, whoever wrote it. The calendar
puller calls the scheduling agent with the commit it just made. An MCP write
refreshes the backup itself, with the same pull code the daemon's pullers run,
in a task that shares the directory and not the mutex: the MCP service is
stateless and opens a `Repo` per request (`daemon.rs:226`). And the mail puller
and the mail tools share one IMAP session behind a mutex that is taken per
call.

`hazards` in `PROJECT.json` lists, for every line where something hard can go
wrong, the properties that would notice, or why none does.

## Modules

| module | models | state and actions |
|---|---|---|
| `GitStore` | `store/mod.rs` under its callers | `tree`, `index`, `head`, `log`, `.git/index.lock`, one `lock` per handle, the repack that a gc has detached; one action per git process start and end |
| `Scheduling` | `pull/calendar.rs` as a source, `scheduling/`, the calendar task of `daemon.rs` | server, bodies, marks, HEAD, watermark, `sent`, `ledger`; the pulls of the daemon and of an MCP call, the fence, the plan, the send loop with its error exits, and the upsets of the environment |
| `MailSync` | `sync_one_folder` over `source/imap.rs` | the IMAP folder, the four kinds of files, and for each syncer what it read; one action per call to the server and per file |
| `ImapSession` | the cached session of `source/imap.rs`, its callers, the IDLE connection | both ends of the connection, the queue of the mutex, the call of each caller; one action per command |
| `Mailbox` | what the traits `MailSource` and `MailWriter` promise | folders, and how far the call of each caller is; one action per effect |
| `Collections` | `pull/contacts.rs`, `calendar.rs`, `sieve.rs`, `write/contacts.rs`, `calendar.rs`, `restore/` | the server's items and calendars, iCloud's cache, files and marks, commits; one action per listing, file, API call and commit |
| `Permissions` | `permission.rs`, `TOOL_REQS` and the checks of every handler | no state: policies as records, operators over them |
| `Tools` | the MCP server, `write/`, the daemon's choice of pullers | account, tree, audit trail, each session's call; one action per API call, listing, writing of a listing, audit commit |
| `SieveRules` | `write/sieve.rs` over both backends | scripts and the active one; one action per request |
| `MailIndex` | `index/`, `maybe_rebuild_index_on_startup`, the loop over folders and `cleanup_removed_folders` | folders, the two files of a message, rows, clock; one action per file and per row, in the puller, in the refresh of a tool and in the rebuild |
| `MC*` | values of the constants for TLC | |
| `*_proofs` | theorems | |

**GitStore.** A task's handle is a constant function `LockOf`, so one module
covers the daemon (pullers and gc timer share a handle) and the MCP requests
(each its own). `git` is external; what the model takes from it is that `add`
and `commit` die when `index.lock` exists, that `status` takes it when it can,
that `commit` refuses when nothing is staged, and that `gc --auto` may end and
leave its repack running (`gc.autoDetach`), outside every mutex. Taking the mutex and starting the
process it guards are one step: acquiring it earlier is visible to nobody. A
sha is a position in `log`.

**Scheduling.** The content of an event is one value standing for its
significant fields; attendees and the client's SEQUENCE are kept apart because
the plan and the numbering read them separately. A pull lists, then compares
the marks of the meta files, then writes body and mark one after the other; the
one that an MCP call makes runs beside the daemon's. The fence is set at start
from any HEAD, mail commits included. Upsets (refused send, a send that is
reported as failed and arrives, a change feed that cannot be read, a
record that cannot be written after its message has left, crash, another
puller's commit, an MCP refresh, a client going back to an earlier version, a
failed pull) are counted by kind in `upsets`, so that a property can say
precisely what it survives. A message is recorded in the ledger in a step of
its own; a crash fits between.

**MailSync.** Files are named by canonical id (the Message-ID), the server's
messages by UID, and that is where the difficulty lies: a file's `id` ties the
two. One server change raises HIGHESTMODSEQ by one. A sync reads the directory
and `_folder.json`, then EXAMINE, SEARCH, FETCH, each a step, then message by
message `.eml`, `.meta.json`, index row, then deletions, then the manifest. A
UIDVALIDITY change may renumber in any order and may or may not reset
modification sequences. A call to the index may fail and is passed over; a call
to the server or a write that fails ends the sync.

**ImapSession and Mailbox.** `conn` is the server's end, with the folder it
really has selected; `cached` is what the client believes. Commands act on the
former. A command may fail before or after it took effect, a connect may be
refused, the server may close an idle connection, another client may mark or
remove the same message. The mutex is held for a whole call, so a call is a
sequence of steps between which only the environment and the IDLE connection
move. `Notify` keeps one permit. The wait of IDLE ends with new data, with an
error, or after 29 minutes, and then without a wake-up. `Mailbox` knows no connection, no folder that
is selected and no UID that could be misread: a call begins, has its effects
one by one, and ends anywhere. `ImapSession` implements it with
`stage <- Stage`, computed from where the caller is.

**Collections.** An item has two files, the body and the meta file with the
mark that the next pull compares (the etag, or a hash). A pull lists, then
compares, then writes body and meta one by one, then removes what was not
listed. The calendar puller lists calendars first and events second; on iCloud
both go through a list that is discovered once and dropped after a 4xx, and the
tools use the same list. A restore is a plan handed out with a token, then operations, each followed by
a pull and an audit commit. The token is a SHA-256 of the plan without a key,
which a caller can compute for any plan: `Apply` takes what a dry run returned,
as it was or edited. The REPORTs of several calendars, and the pages of one listing, are one
step; the instances have one calendar.

**Permissions and Tools.** A policy gives a default per resource and rules per
place; globs are the set of places they match. `Allows(p, t, at, to)` is what
the handler of tool `t` checks when the item is at `at` and goes to `to`;
`Listed` is `TOOL_REQS`. Every handler is transcribed. `Tools` runs the writing
ones: look up where the item is *in the backup*, check that place, call the
server, refresh the folders that the tool names, commit. A pull, the daemon's
or a tool's, lists one place in one step and writes it in another; MailSync and
Collections have the steps between.

**SieveRules.** A script is the set of extensions it requires and the sequence
of its blocks (the pieces between blank lines), because that is what the tools
parse and rewrite. Whether the server compiles a script before storing it
differs between the backends and is the constant `Checked`.

**MailIndex.** One table serves all folders and has one row per canonical id,
which does not change when a message moves. The puller syncs folder after
folder in the order of LIST and writes `.eml`, `.meta.json`, row; the refresh
after a tool's write does the same beside it for the folders the tool names;
`index rebuild` is a process of its own, and the daemon's start may rebuild too.
A rebuild notes a file before it looks at it, and then skips it as current,
counts it as an error (no meta file, too large, unreadable), or makes its row.

## Runs

Bounds are in the `.cfg`. All pass but those marked.

| run | what it shows |
|---|---|
| `daemon` | Two pullers and the gc timer on the daemon's handle, an MCP writer on its own: `HandleExclusion`, `ShaIsOwnCommit`, `OkMeansCaptured`, `AuditRecorded`. |
| `upsets` | All upsets together: sequence numbers rise (`SequenceOrder`), no REQUEST twice (`NoDoubleRequest`), the ledger misses no more messages than there were crashes, lost answers and failed records (`LedgerAudit`), what the activation fenced off stays quiet (`Fenced`), invitees agree with the backup in calm weather (`InviteesInformedWhenCalm`). |
| `crash` (violation) | The daemon dies before the batch ends and nothing resumes it: an attendee stays uninformed. |
| `sync` | Server changes, overlapping syncs, copies, new UIDs, failed calls and writes, a failing index and crashes: the watermark passes no message without a file (`NoneStranded`) and, if syncs do not overlap, no unseen change of flags (`NoneStale`); a clean sync is an exact copy (`ExactCopyWhenCalm`); index and files agree as long as index calls succeed (`IndexAgrees`); the backup converges (`Converges`). |
| `session` | The puller and a tool on one cached session: commands run where their caller thinks they do (`Positioned`), the server's cap on mailbox switches is kept (`UnderCap`), no interrupted move loses a message (`NoLoss`), every call has the effects of its specification in order and at most once (`ImplementsMailbox`), new mail that `idle_loop` has told of is fetched without the ticker (`WakeUpIsAnswered`). |
| `collections` | Writes, dry runs, restores and bulk restores of a contact and a script, both backed up, beside the script puller, with every upset: only overlaps, failed writes and crashes leave a body under the mark of another version (`OnlyOverlapsTear`); what is reported as done is in the last commit (`OkMeansBackedUp`) and has an audit commit of its own (`OkMeansAudited`). |
| `converge` | Events on iCloud with a tool that writes and reads, calendars that go and come back, failed calls and lost answers: the backup converges, directories included (`BackupConverges`). |
| `torn` (violation) | Two overlapping pulls of contacts leave the body of one version under the mark of the next, and no later pull repairs it. |
| `tools` | Every combination of credentials, two profiles, two sessions, every writing tool, items moved by others, crashes: handlers never allow what is not listed (`AllowedIsListed`), the audit trail is the calls that were carried out (`AuditIsTrue`), a reported success is in the tree (`OkMeansSeen`), no call puts a message into a closed folder, and none but the restore that moves a message back takes one from there that is where the call was told (`RulesHonoured`). |
| `sieve` | Two sessions, another client and failing requests: the active script always runs (`FiltersRun`), a reported edit is in force (`OkMeansInForce`). |
| `index` | Syncs of the puller and of a tool, moves, short lists of folders, cleanup, rebuilds by command and at start, files that cannot be read or written, an index that cannot be written, crashes: between syncs rows stand for files (`RowsHaveFiles`), and an undisturbed rebuild leaves rows only for messages with an `.eml`, and a row for every `.eml` that it does not count as an error (`RebuildCovers`). |
| `moved` (violation) | A message moved to a folder that is synced before its old one loses its row in the same pull. |

**Conditions.** Several properties hold only without some upsets, and say so:
`Never(K)` in MailSync and Collections, the antecedents of
`InviteesInformedWhenCalm` and `Fenced`, `alone` in SieveRules and MailIndex,
`inStep` in MailIndex, `Discovered` in `BackupConverges`, `Tame` for
`FiltersRun`, `intact` and `Elsewhere` in Tools. Every excluded upset really
breaks the property; the violation runs, or
[Divergences](#where-code-and-words-part), show how.

**Bounds.** `GitStore`: one file, two versions, two commits before the last
calls start, three callers of one handle and one of another: enough for a file
to be swept up, taken back and rewritten while another waits, with a gc and an
empty commit in progress. `Scheduling`: one file, two attendees, four versions
(people and time both change, a SEQUENCE that jumps), three edits and upsets:
create, change, and one upset at any step of the pulls, the fence and the sends. `MailSync`: two canonical
ids, two UIDs under each UIDVALIDITY, two sets of flags, three changes and
upsets, with one message there from the start. `ImapSession`: two folders, two
messages, two UIDs per folder, a cap of two switches, one fault, one call of a
tool; the puller's calls are not bounded, so sessions are recycled and faults
hit every command. `Collections`: two contents, one request. `collections` starts
with a contact and a script that a pull left in the backup (`Backed`), so that
two calls (a write or a dry run, then another or an apply) and one change or
upset reach the bulk restore of both, the restore of a script and a script that
goes while it is fetched; the scripts have a pull loop, the contact is pulled by
the requests. `converge` starts with nothing and has three changes and one call (a calendar goes, comes back, and an event is edited).
`Tools`: one item per resource, two folders and a calendar, one change by
others or failure, two calls, so that two sessions meet; `Bounded` in `MCTools`
keeps to one resource in a state, which share nothing but the sessions, gives
the sessions different profiles, and lets every pull loop run. `SieveRules`: three rules (one
declares what is no extension, two share an extension, and one of these files
into a folder that is not there), two scripts, a text of another client with a rule that has
no name and one that has the name of a rule to remove, two changes or failures, three calls.
`MailIndex`: one message, two folders of which one is below the other by name,
four changes, calls and upsets, two values of the clock; `Bounded` in
`MCMailIndex` leaves out the puller, a tool and a rebuild all at once, and has
any two of them. Pulls, syncs, ticks and
rebuilds are never bounded.

**Deadlock** is checked except in `daemon`, `tools`, `sieve`, `index` and
`moved`, whose actors stop when their calls are used up or the daemon has died.

**Fairness.** `MailSync!FairSpec` has weak fairness of the steps of each sync that
began and of the *puller's* next sync; an MCP refresh need never come again.
`ImapSession!FairSpec` has it of every caller's next command (tokio's mutex is
fair, every command has an answer or an error), of the puller's loop and of the
IDLE loop, which reconnects after every error; it does not have it of the
ticker, so `WakeUpIsAnswered` is not the ticker's merit.
`Collections!FairSpec` has it of each pull and request that began and of the
tickers. Nothing is assumed of the environment: upsets are bounded, and the
liveness properties say what holds once they are over.

## Proofs

`tlapm` checks every theorem for all tasks, files, handles, messages, folders,
policies and bounds, from the named assumptions on constants only.

* `GitStore_proofs`: `TypeCorrect`, `Exclusion`, `OwnSha`, `NothingLost`,
  `Audited`. The inductive invariant ties each `commit_lock` to the one task
  that is between `.lock()` and the drop of its guard (`Guarded`); from it
  follow exclusion and that the last commit of a handle is still the caller's
  when it runs `rev-parse`. `OkMeansCaptured` needs two facts more: what is in
  `head` is captured, and what a task wrote is captured, still in the tree, or
  overwritten.
* `Scheduling_proofs`: `TypeCorrect`, `SequencesRise`, `NoDoubleSend`,
  `FencedOff`, `LedgerIsAudit`,
  `InvitationsAgree`. The key is the message being sent: its SEQUENCE
  is above every recorded one of the event, its recipients have no recorded
  REQUEST of that content, and what has been recorded keeps its place in
  `sent`. For `LedgerIsAudit` the messages without a record are counted: a send
  adds one, which is the message being recorded, and only that record, a failed
  record, a crash or a lost answer ends its waiting. `InvitationsAgree` states during a batch
  what `InviteesInformed` says between batches, but for what is due
  (`HoldersInvited`, `AllHeard`). Two facts carry it: an Outbound speaks of the
  version in `head` (`Batch`), and what dedup skips as already sent is what the
  attendee still holds (`StillHeld`), because a version that somebody was
  invited to is never left and come back to on its way from server to `head`
  (`NoReturn`). `FencedOff` follows an event from the server through a listing
  and the tree to `head`: what differs anywhere from what the fence saw has been
  edited since.
* `MailSync_proofs`: `TypeCorrect`, `NothingStranded`, `NothingStale`,
  `CopiesAreExact`, `IndexAgreesBetweenSyncs`. `NoneStranded` speaks of
  the manifest only; a sync in progress is covered by what it has listed: at
  every point each live message at or below the watermark it took is still to
  fetch, being written, or has a file (`Covering`), and deletions touch only
  messages that are gone (`GoneDead`). Overlap needs no case of its own because
  each part is stated of every syncer and no step of another one disturbs it.
  The other three are about one sync at a time and rest on a second invariant
  (`SoloInv`): what a sync has read is still what there is until it begins to
  write (`Snapshot`), so what it leaves alone has the flags of the message
  (`CoveringFresh`), and while the server stands still every file has its
  message or is on the list of those to go (`Clearing`). File and row part only
  between the two writes of one message (`Indexing`).
* `ImapSession_proofs`: `TypeCorrect`, `StaysPositioned`, `StaysUnderCap`,
  `NoWakeUpIsLost`, `NothingLost`, `SessionImplementsMailbox`. `Positioned` and `UnderCap` are inductive together with where
  callers may be (`Busy`, `Connected`): only the head of the queue is past the
  lock, and a connection about to open a mailbox has a switch to spare. For
  `NoLoss` the invariant `SInv` follows a move: UIDs are unique and below the
  next one (`Below`, `Unique`), and between COPY and EXPUNGE either the target
  holds the message or somebody asked for its removal (`Waiting`, `Stages`,
  `Kept`). `SessionImplementsMailbox`: the initial states map
  to initial states and each action to an effect of `Mailbox`, to the beginning
  or end of a call, or to a stutter; everything that concerns the connection
  only is one lemma (`Quiet`).
* `Tools_proofs`: `TypeCorrect`, `ToolsAreListed`, `TrailIsTrue`,
  `RulesAreHonoured`, `SuccessIsSeen`. `ToolsAreListed` goes through `TOOL_REQS` handler by
  handler: each one asks for a place under a resource, and a place that may be
  read or written makes the resource readable or writable. `TrailIsTrue` rests
  on what a session past its API call carries (`Fits`, `Audited`);
  `RulesAreHonoured` on what the handlers check of the places of a call.
  `SuccessIsSeen` follows an item that nobody else has changed: after the
  server's answer every file of it lies in a place that the tool is about to
  refresh or is right already (`Mending`), which any pull leaves so, and after
  the refresh the files are right (`Seen`).
* `Collections_proofs`: `TypeCorrect`, `SuccessIsAudited`,
  `SuccessIsBackedUp`, `BodiesAreWhole`, `PullsBringWhatRests`. The first two
  hold for every backend and every upset: a request past its API call reaches
  its audit commit or the failure of that operation (`Trail`).
  `SuccessIsBackedUp` needs `Whole`, which is about constants: the listings fit a page, UIDs are safe as file
  names, and no list of calendars is remembered; without each of these the code
  does pass over items (see below). Its invariant (`Careful`) says of every pull
  what it has listed, brought and still to bring, against what the server had
  when it began. `BodiesAreWhole` is the converse of the run `torn`: as long
  as no pull overlapped, no write failed and the daemon did not die, `NoneTorn`
  holds, because a mark is written after its body by the only pull of its kind.
* `MailIndex_proofs`: `TypeCorrect`, `RebuildsCover`, `RowsStand`. While a
  rebuild is undisturbed every file is noted or in a folder still to walk
  (`Noted`), and what is noted has a file, and a row or an error (`Rowed`): a file
  is skipped only if its row was there at the beginning. For `RowsHaveFiles` the
  invariant `Steady` exempts the one message between its files and its row,
  says that one sync or one rebuild is at work at a time (`Single`), and counts a
  forced rebuild in progress as in step, since it makes every row anew.
* `SieveRules_proofs`: `TypeCorrect`, `FiltersStayInOrder`, `SuccessIsInForce`.
  The active script runs because every script does, active or not, and every
  text a tool is about to store (`Running`). On a server that refuses what does
  not run, no more is needed than that other clients' texts run; where it stores
  any text, rules must be one block each and declare what they use (`Tame`),
  because a removal takes one block away, and every edit keeps only the
  declarations that are known extensions. `SuccessIsInForce` needs no such
  condition: what a tool knows of the active script is so while nobody else
  touches it (`Undisturbed`).

**Safety halves of liveness.** Two properties of the form "in the end" rest on
fairness, which the prover does not handle; but each says also that what is in
progress leads to the right end, and that is proved.

* `PullsBringWhatRests` (Collections): an item of any kind that clients leave
  alone since no pull of its kind had read anything is as on the server, body
  and mark, in the files and in the last commit, when a pull ends, and stays so,
  as long as pulls neither overlap nor fail and listings are whole (`Whole`).
  The invariant says of a pull of its kind what it will leave of the body
  (`Brings`) and of the mark (`BringsMark`). It is nested,
  `[](P /\ [][LeftAlone]_vars => [][...]_vars)`: it speaks of any time from
  which on the item is left alone.
* `NoWakeUpIsLost` (ImapSession): mail that `idle_loop` has told the puller of is
  in the permit or in a pull that still lists the inbox (`WakeUpPending`), if
  the server's list of folders has the inbox.

What TLC adds in `BackupConverges` and `WakeUpIsAnswered` is that a pull begins
and ends.

Five things in the models were changed by these proofs: `Collections!Result`
had two arms that overlapped, so that `CASE` left open which one a delete of an
item that is gone took; orders of folders and files are now sets of sequences
(`Sorted`, `InOrder`), because the prover has no facts about `SelectSeq`; and
the history of `Tools` compared what a call had made with what the server has,
which an item that is deleted, made by another client and removed again passes
though a pull in between filed it. It now records the change itself (`intact`).
And `InviteesInformedWhenCalm` says now that no UID has two files: in an
instance with an event in two calendars TLC refutes it, as an attendee of one
file need not be one of the other. A text in `SieveRules` was a sequence to be
filtered and counted, which is induction over data; it is now the sequence of
the blocks the tools and the server look at, without those that are comments
alone, counted as a set of positions.

Every invariant and every action property of a passing run, and the refinement,
is stated by a theorem. Model-checked only are the liveness properties
(`BackupConverges`, `Converges`, `WakeUpIsAnswered`), which need fairness
and so `ENABLED`; and that the three violations happen.

## Where code and words part

Three disagreements have a run (`crash`, `torn`, `moved`; `findings` in
`PROJECT.json` quotes the words). Others, met while reading, are built into the
models or excluded from a property:

*Git and scheduling.* The comment on `Repo::gc` (`store/mod.rs:222`) makes gc
and commits mutually exclusive; the mutex does so for the process `git gc
--auto` and the callers of one handle, but git detaches the repack itself, and
MCP requests have handles of their own. A call
can fail although git works: `has_changes` takes `index.lock` outside the
mutex. Another task's commit may take the calendar files, and the hook is
skipped; dedup by content mistakes a re-invitation for a repeat. An event in two
calendars is planned for file by file and recorded under one UID, so that
removing one of the files cancels people the other still invites. The fence is
set from any HEAD: over a tree that has mail commits and no calendar yet, the
first calendar pull announces events that were there long before
(`scheduling/watermark.rs:1` says that they never trigger invites). A batch that
ends with an error, because the change feed cannot be read or the ledger cannot
be written, is logged, and its remaining messages are never sent. Two overlapping
pulls, or a failed write, can tear an event as they tear a contact. An event
that an MCP call's slower pull puts back is announced when the next pull undoes
that.

*Mail.* After UIDVALIDITY changes, files are still matched by their old UID. Two
copies of one Message-ID in a folder are fetched again by every pull. A fetch
that finds its folder already selected for writing marks the message as seen
(`source/imap.rs:91`). `delete_folder` deletes the rows of folders whose name
begins with the one removed (`pull/mail.rs:376`). The index has one row per
message, where its comment says one per `.eml`. An incremental rebuild keeps a
row that names another folder if it met the message and the file is not newer;
a sync beside a rebuild or another sync can leave rows without files, and only a
forced rebuild mends them; a file written in the second of the last indexing is
skipped. A sync that fails or dies between `.meta.json` and row leaves the old
row for good, as does an index that fails: the next sync takes the message for
fetched. An `.eml` without meta file, which a death between the two leaves, is
fetched again by the next sync, and until then a rebuild counts it as an error
and sweeps no row of it; one that is over 50 MB is indexed by the pull and loses
its row to a forced rebuild. Mail that arrives just as the 29 minutes of an IDLE
end, or between DONE and the next IDLE, waits for the ticker, where the comment
says "nothing changed" (`source/imap.rs:966`).

*Calendars, contacts, filters.* A calendar made on iCloud after the daemon
started is in no backup until a restart or a 4xx on another calendar. Restoring
an event on iCloud passes `UID.ics` where the writer appends `.ics` again, and
sends an empty `If-Match`: the model's `Unconditional` refuses it. On
forwardemail, calendars and scripts are listed with `?limit=50` and no second
page. A contact whose UID is not safe as a file name is deleted and written
again by every pull (`pull/contacts.rs:84`). `pull_sieve` does not notice a
change of `is_active`. forwardemail stores a script that does not compile and
reports an error. Two sessions that edit filters at once lose one of the edits,
and a rule with a blank line in it is removed in part (`write/sieve.rs:173`).
The daemon's comment that ManageSieve has no GETSCRIPT is out of date.

*Tools and restore.* "The token binding means the AI can't dry-run a small plan
and then apply a different, larger one" (`restore/mod.rs:19`): the token is a
SHA-256 without a key, and whoever edits the plan can compute it.
`restore_mail_apply` checks the folder a message goes back to and not the one it
is in, and so takes messages out of closed folders; when there is nothing to
restore it reports "restore applied" with no call and no commit. A pull that
listed before a tool's write and writes after its refresh puts the old version
back into the tree, until the next pull. `apply_bulk` says it stops at the first failure and goes
on (`restore/bulk.rs:149`). Moving a message back refreshes only the folder it
goes to. `restore_mail` calls a message "unrestorable" that the code appends.
`create_reply_draft` ignores what its refresh and audit return. `update_event`
and `delete_event` without a calendar check the calendar default alone. A
message sent over SMTP has no copy in Sent. A scoped grant with the default
`none` gives tools and no puller. The plan's token does not cover the state of
the server, as `restore/mod.rs` says itself.

## Not modelled

* Attachments, files in pre-canonical naming and the REST mail source in
  `MailSync`; folders without CONDSTORE.
* Moving an event from one calendar to another; several calendars at once.
* The ledger's rewrite is one step: what a torn write leaves is up to the file
  system. Nor can it fail to be read there: the code takes one that it cannot
  read for empty (`scheduling/ledger.rs:42`), and the next record overwrites it.
  Sequence numbers do not overflow.
* A torn `.meta.json`, for the same reason; files that cannot be removed, which
  the code passes over.
* A listing that is short for a moment; nothing in the calendar puller guards
  against it, and the guards of the mail puller are in `MailIndex`.
* Tools that read, except where they use iCloud's list of calendars; full-text
  search; `index verify`, which with `--clean` deletes rows without files and
  rebuilds; the variables of the environment that skip or force the rebuild at
  start; the arguments and answers of tools.
* Moving away and back within one folder is in `MailSync` and not in
  `MailIndex`, which finds at once what differs between server and files.
* HTTP, DAV, SMTP, IMAP and ManageSieve as protocols, iCalendar and RFC 822 as
  texts, the configuration file, subcommands other than `index rebuild`, signal
  handling. `safety.rs` guards the test suite; the daemon does not call it.

For later: an abstract mirror that `MailSync` and `Collections` implement, and
an outbox that `Scheduling` implements.
