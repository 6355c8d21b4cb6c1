------------------------------ MODULE Handlers ------------------------------
(***************************************************************************)
(* What each handler of src/bot/handlers is, as far as its control goes;   *)
(* module Updates runs them.  A command is                                 *)
(*   who       who may use it: "anyone", "admin" or "owner",               *)
(*   reads     does it await something that may raise before it acts,      *)
(*   acts      does it change anything when it succeeds,                   *)
(*   refuses   can it answer without acting: missing or bad arguments, an  *)
(*             unknown user, a dependency that is not there,               *)
(*   anywhere  does it answer through effective_message?  The others use   *)
(*             update.message, which an edited message does not have.      *)
(* What the answers say is left out.                                       *)
(***************************************************************************)

Report(who, reads) ==
  [who |-> who, reads |-> reads, acts |-> FALSE, refuses |-> FALSE, anywhere |-> FALSE]
Change(who) ==
  [who |-> who, reads |-> TRUE, acts |-> TRUE, refuses |-> TRUE, anywhere |-> FALSE]
Anywhere(command) == [command EXCEPT !.anywhere = TRUE]

-----------------------------------------------------------------------------
(* command.py *)

\* Welcomes who is known; redeems a token, or says that it is no good.
cmd_start == Change("anyone")
\* The list depends on the role, which is read first.
cmd_help == Anywhere(Report("anyone", TRUE))
cmd_about == Report("anyone", FALSE)
cmd_ping == Report("anyone", FALSE)
cmd_new == Anywhere(Change("anyone"))
\* health_check catches what the database raises.
cmd_status == Anywhere(Report("anyone", FALSE))
\* The manager's state if it is up, else the local ngrok's; its errors are caught.
cmd_ssh == Report("anyone", FALSE)
cmd_history == Report("anyone", TRUE)
cmd_cwd == Report("anyone", FALSE)

\* What it may do is rationed besides: see Updates!Act.
cmd_invite == Change("admin")
cmd_users == Report("admin", TRUE)
cmd_promote == Change("admin")
cmd_demote == Change("admin")
\* An unknown token is revoked all the same.
cmd_revoke == Change("admin")
cmd_stats == Report("admin", FALSE)
cmd_sessions == Report("admin", FALSE)
\* Any other word than on and off shows the state.
cmd_alerts == [Change("admin") EXCEPT !.reads = FALSE]
\* Every one of its host commands has a timeout and a catch of its own.
cmd_remote == Report("admin", FALSE)
\* Without arguments it lists the caps.
cmd_limit == Change("admin")
\* It answers before it runs its script: see Updates!EpicAnnounced.
cmd_epic == [Change("admin") EXCEPT !.reads = FALSE, !.refuses = FALSE]

(* autonomy.py *)

\* Every word but "durum" and "alan:" is a task.
cmd_auto == [Change("owner") EXCEPT !.reads = FALSE]
cmd_ack == [Change("owner") EXCEPT !.reads = FALSE, !.refuses = FALSE]
cmd_jarvis == [Change("owner") EXCEPT !.reads = FALSE]
handle_approval == cmd_ack

Command ==
  [start |-> cmd_start, help |-> cmd_help, about |-> cmd_about, ping |-> cmd_ping,
   new |-> cmd_new, status |-> cmd_status, ssh |-> cmd_ssh, history |-> cmd_history,
   cwd |-> cmd_cwd, invite |-> cmd_invite, users |-> cmd_users, promote |-> cmd_promote,
   demote |-> cmd_demote, revoke |-> cmd_revoke, stats |-> cmd_stats,
   sessions |-> cmd_sessions, remote |-> cmd_remote, epic |-> cmd_epic,
   alerts |-> cmd_alerts, limit |-> cmd_limit,
   add |-> cmd_auto, runs |-> cmd_auto, ack |-> cmd_ack, relay |-> cmd_jarvis,
   approve |-> handle_approval, reject |-> handle_approval]

\* The commands that hand the work to another program: to auto, to jarvis, or
\* to the Epic script.
CliCommands == {"add", "runs", "ack", "relay", "approve", "reject", "epic"}
Approvals == {"approve", "reject"}

\* What a button does once it is let through.
ButtonActions == {"new", "status", "help", "unknownButton"} \cup Approvals

-----------------------------------------------------------------------------
(* The handlers that prompt Claude: is there a file to download first, and  *)
(* is one refused that is too large?                                        *)

handle_message == [file |-> FALSE, sized |-> FALSE]
handle_photo == [file |-> TRUE, sized |-> FALSE]
handle_document == [file |-> TRUE, sized |-> TRUE]
handle_media == [file |-> TRUE, sized |-> TRUE]

Prompt == [text |-> handle_message, photo |-> handle_photo,
           document |-> handle_document, media |-> handle_media]
Prompts == DOMAIN Prompt

\* Texts that the middleware does not let through.
Malformed == {"nullByte", "tooLong"}

\* The handler a message reaches: an edited /j matches no command and goes to
\* Claude as a text, as every unknown command does.
HandlerOf(kind, via) ==
  IF kind \in Malformed \/ (kind = "relay" /\ via = "edited") THEN "text" ELSE kind
=============================================================================
