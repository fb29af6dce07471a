--------------------------- MODULE MCImapPoller ---------------------------
(***************************************************************************)
(* ImapPoller on a few messages.  Each configuration picks the messages it *)
(* needs; what a message is follows from its name.                         *)
(***************************************************************************)
EXTENDS ImapPoller

\* Every name the configurations use.
KindOf ==
  [m \in Messages |->
     CASE m \in {"command", "command2"} -> "owner"
       [] m = "yes" -> "reply"
       [] m \in {"stranger", "stranger2"} -> "untrusted"
       [] m \in {"broken", "broken2"} -> "malformed"
       [] m = "friend" -> "trusted"
       [] m = "digest" -> "newsletter"
       [] m = "spam" -> "blocked"]
=============================================================================
