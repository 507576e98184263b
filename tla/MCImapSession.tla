--------------------------- MODULE MCImapSession ---------------------------
(***************************************************************************)
(* Two folders, the puller and one MCP tool.                               *)
(***************************************************************************)
EXTENDS ImapSession

CONSTANTS Archive, Tool

MCFolders == {Inbox, Archive}
MCOrder == <<Inbox>>
MCCallers == {Puller, Tool}
=============================================================================
