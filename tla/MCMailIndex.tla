---------------------------- MODULE MCMailIndex ----------------------------
(***************************************************************************)
(* Two folders, one with a name below the other's, for the checks of       *)
(* MailIndex.                                                              *)
(***************************************************************************)
EXTENDS MailIndex

CONSTANTS parent, child

MCList == <<parent, child>>
MCNames == <<child, parent>>
MCUnder == [f \in Folders |-> IF f = parent THEN Folders ELSE {f}]

\* Both syncs and a rebuild at once are left out: the states would be too many.
Bounded == rpc # "idle" => \E s \in Syncers : ~Busy(s)

NoUpsets == {}
=============================================================================
