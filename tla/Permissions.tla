---------------------------- MODULE Permissions ----------------------------
(***************************************************************************)
(* The permission matrix (permission.rs), what each provider can serve     *)
(* (provider/), and what the MCP server makes of the two for each tool     *)
(* (mcp/server.rs): whether the tool is listed, and whether its handler    *)
(* goes on to do its work.                                                 *)
(***************************************************************************)
CONSTANTS Folders, Calendars,   \* the places a rule can name
          Drafts,               \* the folder of the two draft tools
          Unset,                \* a place without a rule of its own
          NoPlace               \* the scope of a check that names no place

ASSUME PermissionsAssumption ==
    /\ Folders \cap Calendars = {}
    /\ Drafts \in Folders
    /\ NoPlace \notin Folders \cup Calendars
    /\ Unset \notin {"none", "read", "read_write"}

Access == {"none", "read", "read_write"}
Resources == {"email", "calendar", "contacts", "sieve"}
Places == Folders \cup Calendars

PlacesOf(res) == CASE res = "email" -> Folders
                   [] res = "calendar" -> Calendars
                   [] OTHER -> {}

\* A flat permission is a scoped one without rules.
Policy == [default : [Resources -> Access],
           rule : [Places -> Access \cup {Unset}],
           send : BOOLEAN]

CanRead(access) == access \in {"read", "read_write"}
CanWrite(access) == access = "read_write"

\* A rule for the place wins over the default.
GetScoped(p, res, place) ==
    IF place \in PlacesOf(res) /\ p.rule[place] # Unset
    THEN p.rule[place]
    ELSE p.default[res]

MayRead(p, res, place) == CanRead(GetScoped(p, res, place))
MayWrite(p, res, place) == CanWrite(GetScoped(p, res, place))

\* Mutant: only the default counts.
DefaultWrite(p, res) == CanWrite(p.default[res])

HasAnyRead(p, res) ==
    \/ CanRead(p.default[res])
    \/ \E place \in PlacesOf(res) : CanRead(p.rule[place])

HasAnyWrite(p, res) ==
    \/ CanWrite(p.default[res])
    \/ \E place \in PlacesOf(res) : CanWrite(p.rule[place])

GrantsAnything(p, res) ==
    \/ p.default[res] # "none"
    \/ \E place \in PlacesOf(res) : p.rule[place] \notin {Unset, "none"}
----------------------------------------------------------------------------
(***************************************************************************)
(* Providers                                                               *)
(***************************************************************************)

Providers == {"forwardemail", "stalwart", "icloud"}

Capabilities(provider) ==
    IF provider = "icloud" THEN {"calendar"}
    ELSE {"email", "email_send", "calendar", "contacts", "sieve"}

\* Where the credentials of a configuration can stand: in the block of a
\* provider, or in the old block of forwardemail.
Blocks == Providers \cup {"legacy"}

\* active_provider_kind: one block has them, and no other.
Active(blocks, provider) ==
    \/ blocks = {provider}
    \/ blocks = {"legacy"} /\ provider = "forwardemail"

\* What a provider can build, besides the source and the writer of events
\* that each of them has.
Built(provider) ==
    IF provider = "icloud" THEN {}
    ELSE {"mail_source", "mail_writer", "contacts_source"}

\* Whether its mail goes over IMAP; forwardemail has both.
OverImap(provider) ==
    CASE provider = "stalwart" -> {TRUE}
      [] provider = "icloud" -> {FALSE}
      [] OTHER -> BOOLEAN

\* The handles that a session of the MCP server is given.
Handles(provider) ==
    Built(provider) \cup
      CASE provider = "forwardemail" -> {"client", "sieve_backend"}
        [] provider = "stalwart" -> {"smtp_sender", "sieve_backend"}
        [] OTHER -> {}

Validated(p, provider) ==
    /\ \A res \in Resources :
         GrantsAnything(p, res) => res \in Capabilities(provider)
    /\ p.send => "email_send" \in Capabilities(provider)
----------------------------------------------------------------------------
(***************************************************************************)
(* Tools                                                                   *)
(***************************************************************************)

EmailReads == {"search_email", "get_email", "list_folders",
               "restore_mail_dry_run"}
EmailWrites == {"create_draft", "create_reply_draft", "update_email_flags",
                "move_email", "delete_email", "restore_mail_apply"}
CalendarReads == {"list_calendars", "list_events",
                  "restore_calendar_event_dry_run"}
CalendarWrites == {"create_event", "update_event", "delete_event",
                   "restore_calendar_event_apply"}
ContactsReads == {"list_contacts", "restore_contact_dry_run"}
ContactsWrites == {"create_contact", "update_contact", "delete_contact",
                   "restore_contact_apply"}
SieveReads == {"list_sieve_rules", "restore_sieve_dry_run"}
SieveWrites == {"add_sieve_rule", "remove_sieve_rule", "restore_sieve_apply"}
BulkTools == {"restore_path_dry_run", "restore_path_apply"}
Always == {"get_permissions", "history"}

Reads == EmailReads \cup CalendarReads \cup ContactsReads \cup SieveReads
Writes == EmailWrites \cup CalendarWrites \cup ContactsWrites \cup SieveWrites
Tools == Reads \cup Writes \cup BulkTools \cup Always \cup {"send_email"}

ResourceOf(t) ==
    CASE t \in EmailReads \cup EmailWrites \cup {"send_email"} -> "email"
      [] t \in CalendarReads \cup CalendarWrites -> "calendar"
      [] t \in SieveReads \cup SieveWrites -> "sieve"
      [] OTHER -> "contacts"

\* TOOL_REQS.  The bulk restore is listed by what it needs of the contacts.
Listed(p, t) ==
    CASE t \in Reads \cup {"restore_path_dry_run"} ->
           HasAnyRead(p, ResourceOf(t))
      [] t \in Writes \cup {"restore_path_apply"} ->
           HasAnyWrite(p, ResourceOf(t))
      [] t = "send_email" -> p.send
      [] OTHER -> t \in Always

\* What each handler checks before it does its work.  at: the folder that the
\* meta file of the message records, or the folder or calendar that the caller
\* names; to: the place the item goes to.
AllowsMailRead(p, t, at) ==
    MayRead(p, "email", IF t = "list_folders" THEN NoPlace ELSE at)

\* The listing of all calendars' events takes a rule for any of them.
AllowsCalendarRead(p, t, at) ==
    IF t = "list_events" /\ at = NoPlace THEN HasAnyRead(p, "calendar")
    ELSE MayRead(p, "calendar", IF t = "list_calendars" THEN NoPlace ELSE at)

AllowsListing(p, t) == MayRead(p, ResourceOf(t), NoPlace)

\* Contacts and sieve scripts have no places.
AllowsFlatWrite(p, t) == MayWrite(p, ResourceOf(t), NoPlace)

AllowsDraft(p) == MayWrite(p, "email", Drafts)

AllowsSend(p) == p.send

\* Mutant: the folder that a message is moved to is not looked up.
AllowsFrom(p, t, at, to) == MayWrite(p, "email", at)

AllowsMailWrite(p, t, at, to) ==
    /\ MayWrite(p, "email", at)
    /\ t = "move_email" => MayWrite(p, "email", to)

AllowsCreateEvent(p, to) == MayWrite(p, "calendar", to)

\* Only the calendar an event is moved to is looked up.
AllowsEventChange(p, t, to) ==
    MayWrite(p, "calendar", IF t = "update_event" THEN to ELSE NoPlace)

AllowsItemRestore(p, t, at) ==
    CASE t \in Writes -> MayWrite(p, ResourceOf(t), NoPlace)
      [] t = "restore_calendar_event_dry_run" -> MayRead(p, "calendar", at)
      [] OTHER -> MayRead(p, ResourceOf(t), NoPlace)

AllowsMailRestore(p, t, at, to) ==
    IF t = "restore_mail_dry_run" THEN MayRead(p, "email", at)
    ELSE MayWrite(p, "email", at) /\ MayWrite(p, "email", to)

\* The dry run asks as much as the restore itself.
AllowsBulkRestore(p) ==
    \A res \in {"contacts", "sieve", "calendar"} : MayWrite(p, res, NoPlace)

DraftTools == {"create_draft", "create_reply_draft"}
MailRestores == {"restore_mail_dry_run", "restore_mail_apply"}
ItemRestores ==
    {"restore_contact_dry_run", "restore_contact_apply", "restore_sieve_dry_run",
     "restore_sieve_apply", "restore_calendar_event_dry_run",
     "restore_calendar_event_apply"}

Restores == ItemRestores \cup MailRestores

Allows(p, t, at, to) ==
    CASE t \in ItemRestores -> AllowsItemRestore(p, t, at)
      [] t \in MailRestores -> AllowsMailRestore(p, t, at, to)
      [] t \in BulkTools -> AllowsBulkRestore(p)
      [] t \in EmailReads \ Restores -> AllowsMailRead(p, t, at)
      [] t \in CalendarReads \ Restores -> AllowsCalendarRead(p, t, at)
      [] t \in {"list_contacts", "list_sieve_rules"} -> AllowsListing(p, t)
      [] t \in DraftTools -> AllowsDraft(p)
      [] t \in EmailWrites \ (Restores \cup DraftTools) ->
           AllowsMailWrite(p, t, at, to)
      [] t = "create_event" -> AllowsCreateEvent(p, to)
      [] t \in {"update_event", "delete_event"} -> AllowsEventChange(p, t, to)
      [] t \in (ContactsWrites \cup SieveWrites) \ Restores ->
           AllowsFlatWrite(p, t)
      [] t = "send_email" -> AllowsSend(p)
      [] OTHER -> TRUE

\* The handles that it asks for.
Requires(t, to) ==
    CASE t \in ContactsWrites \cup BulkTools
              \cup {"restore_contact_dry_run", "restore_sieve_dry_run",
                    "restore_sieve_apply", "restore_mail_dry_run"} -> {"client"}
      [] t \in {"create_draft", "create_reply_draft"} ->
           {"client", "mail_source"}
      [] t = "restore_mail_apply" -> {"client", "mail_source", "mail_writer"}
      [] t \in {"update_email_flags", "move_email", "delete_email"} ->
           {"mail_source", "mail_writer"}
      [] t \in {"list_folders", "send_email"} -> {"mail_source"}
      [] t = "list_contacts" -> {"contacts_source"}
      [] t \in {"list_sieve_rules", "remove_sieve_rule"} -> {"sieve_backend"}
      [] t = "add_sieve_rule" -> {"sieve_backend", "mail_source"}
      [] t = "update_event" /\ to # NoPlace -> {"client"}
      [] OTHER -> {}

Served(provider, t, to) ==
    /\ Requires(t, to) \subseteq Handles(provider)
    /\ t = "send_email" =>
         Handles(provider) \cap {"smtp_sender", "client"} # {}
=============================================================================
