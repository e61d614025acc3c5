------------------------------ MODULE MCFeishuBots -----------------------------
(***************************************************************************)
(* Instances of FeishuBots: two projects that may share an app id, and two *)
(* requests at a time, of one project or of two.                           *)
(***************************************************************************)
EXTENDS FeishuBots

CONSTANTS a1, a2, s1, s2

\* The secret of one app id may be mistyped or renewed; a bot that exists may move
\* to another app id, and keeps its secret when none is given.
MCForms == [app : {a1}, secret : {s1, s2}] \cup [app : {a2}, secret : {"kept"}]

=============================================================================
