------------------------------ MODULE Updates ------------------------------
(***************************************************************************)
(* One update after another through src/bot/core.py: the three middlewares *)
(* of src/bot/middleware, then the handler the update reaches, with the    *)
(* rate limiter, the programs of /auto, /ack, /j and /epic, Claude, the    *)
(* database and Telegram, any of which may fail at any await.              *)
(*                                                                         *)
(* python-telegram-bot runs the handler groups -3, -2, -1 and 0 in turn.   *)
(* ApplicationHandlerStop ends the update; what any other exception ends   *)
(* is its group: _on_error is called and the next group is run.            *)
(***************************************************************************)
EXTENDS Handlers, RateLimiter, Autonomy, Sequences

CONSTANTS
  Owner,       \* settings.admin_telegram_id
  Admins,      \* the others with role admin
  Registered,  \* everybody with an active row
  Sent,        \* the kinds of updates that are sent
  Vias,        \* how: "message", "edited", "button", or "orphan", a button
               \* whose message is gone
  MaxChunks,   \* messages a long answer takes
  MaxFaults    \* bound on the failures and the times the clock is set back

ASSUME PeopleAssumption ==
  Owner \in Registered /\ Admins \subseteq Registered /\ Registered \subseteq Users
ASSUME ViasAssumption == Vias \subseteq {"message", "edited", "button", "orphan"}
ASSUME UpdatesBoundsAssumption == MaxChunks \in Nat /\ MaxFaults \in Nat

VARIABLES
  cur,     \* the update being handled, or the last one
  faults,  \* counter of the bound
  said,    \* history: the last word the user had about each update
  acted    \* history: the updates whose handler changed something itself

pipeVars == <<cur, faults, said, acted>>
vars == <<rateVars, cliVars, pipeVars>>

Groups == {"security", "auth", "rate", "handle"}
Waits == {"act", "launch", "cli", "alert", "verdict", "answerQuery", "announce",
          "download", "status", "run", "edit", "delete", "log", "send", "plain", "reply"}
Words == {"nothing", "error", "again", "answer", "done", "denied", "refused",
          "comeBack", "failed", "unsure", "seeButton"}

\* back: the group that follows the error handler; refused: did a middleware
\* refuse it; troubles: how often its handling failed; chunks: how many
\* messages Claude's answer takes; at: the one to send; got: those that arrived.
NoUpdate ==
  [n |-> 0, user |-> Owner, kind |-> "none", via |-> "message", pc |-> "over",
   back |-> "over", word |-> "nothing", refused |-> FALSE, troubles |-> 0,
   typing |-> FALSE, glass |-> FALSE, chunks |-> 0, at |-> 1, got |-> <<>>]

TypeOK ==
  /\ RateTypeOK
  /\ CliTypeOK
  /\ cur \in [n : 0..MaxUpdates, user : Users, kind : Sent \cup {"none"},
              via : Vias \cup {"message"},
              pc : Groups \cup Waits \cup {"callback", "error", "over"},
              back : Groups \cup {"over"}, word : Words,
              refused : BOOLEAN, troubles : 0..MaxFaults + 1, typing : BOOLEAN,
              glass : BOOLEAN, chunks : 0..MaxChunks, at : 1..MaxChunks + 1, got : Seq(1..MaxChunks)]
  /\ faults \in 0..MaxFaults
  /\ said \in [Numbers -> Words]
  /\ acted \subseteq Numbers

Init ==
  /\ RateInit
  /\ CliInit
  /\ cur = NoUpdate
  /\ faults = 0
  /\ said = [n \in Numbers |-> "nothing"]
  /\ acted = {}

N == cur.n
Handler == HandlerOf(cur.kind, cur.via)
IsAdmin == cur.user \in Admins \cup {Owner}

-----------------------------------------------------------------------------
(* Steps of a handler. *)

Goto(pc) == cur' = [cur EXCEPT !.pc = pc]
Say(word) == said' = [said EXCEPT ![N] = word]
\* The reply that comes next.
Answer(word) == cur' = [cur EXCEPT !.pc = "reply", !.word = word]

\* An exception nobody in the handler catches.  Its finally clauses run.
Raise(back) ==
  cur' = [cur EXCEPT !.pc = "error", !.back = back, !.troubles = @ + 1, !.typing = FALSE]

\* Something outside the program fails.
Fault ==
  /\ faults < MaxFaults
  /\ faults' = faults + 1

\* _on_error: its reply may fail too, and an update without a message gets none.
OnError ==
  /\ cur.pc = "error"
  /\ \/ /\ cur.via # "orphan"
        /\ Say("error")
        /\ Goto(cur.back)
        /\ UNCHANGED faults
     \/ /\ cur.via = "orphan"
        /\ Goto(cur.back)
        /\ UNCHANGED <<said, faults>>
     \/ /\ Fault
        /\ cur' = [cur EXCEPT !.pc = cur.back, !.troubles = @ + 1]
        /\ UNCHANGED said
  /\ UNCHANGED <<rateVars, cliVars, acted>>

-----------------------------------------------------------------------------
(* The middlewares. *)

\* A handler that is not called stops the update, once the reply is sent: if
\* the reply fails there is no stop, and the next group runs.
Refuse(word, next) ==
  \/ /\ cur' = [cur EXCEPT !.pc = "over", !.refused = TRUE]
     /\ Say(word)
     /\ UNCHANGED faults
  \/ /\ Fault
     /\ cur' = [cur EXCEPT !.pc = "error", !.back = next, !.refused = TRUE, !.troubles = @ + 1]
     /\ UNCHANGED said

\* A callback query passes no MessageHandler, so none of the middlewares.
Receive(u, kind, via) ==
  /\ cur.pc = "over"
  /\ cur.n < MaxUpdates
  /\ cur' = [NoUpdate EXCEPT !.n = cur.n + 1, !.user = u, !.kind = kind, !.via = via,
               !.pc = IF via \in {"button", "orphan"} THEN "callback" ELSE "security"]
  /\ UNCHANGED <<rateVars, cliVars, faults, said, acted>>

security_middleware ==
  /\ cur.pc = "security"
  /\ \/ /\ cur.kind = "nullByte"
        /\ cur' = [cur EXCEPT !.pc = "over", !.refused = TRUE]
        /\ UNCHANGED <<faults, said>>
     \/ cur.kind = "tooLong" /\ Refuse("refused", "auth")
     \/ cur.kind \notin Malformed /\ Goto("auth") /\ UNCHANGED <<faults, said>>
  /\ UNCHANGED <<rateVars, cliVars, acted>>

auth_middleware ==
  /\ cur.pc = "auth"
  /\ \/ /\ cur.user \in Registered \/ cur.kind = "start"
        /\ Goto("rate")
        /\ UNCHANGED <<faults, said>>
     \/ cur.user \notin Registered /\ cur.kind # "start" /\ Refuse("denied", "rate")
     \/ Fault /\ Raise("rate") /\ UNCHANGED said
  /\ UNCHANGED <<rateVars, cliVars, acted>>

rate_limit_middleware ==
  /\ cur.pc = "rate"
  /\ Check(<<"commands", cur.user>>)
  /\ IF Allowed(<<"commands", cur.user>>)
     THEN Goto("handle") /\ UNCHANGED <<faults, said>>
     ELSE Refuse("comeBack", "handle")
  /\ UNCHANGED <<cliVars, acted>>

-----------------------------------------------------------------------------
(* Commands. *)

\* The owner is known by id, another admin by a look into the database.
Enter ==
  /\ cur.pc = "handle"
  /\ Handler \in DOMAIN Command
  /\ Command[Handler].who # "owner"
  /\ \/ /\ Command[Handler].who = "admin" /\ cur.user # Owner
        /\ Fault
        /\ Raise("over")
     \/ /\ IF Command[Handler].who = "admin" /\ ~IsAdmin
           THEN Answer("denied")
           ELSE Goto(IF Handler = "epic" THEN "announce" ELSE "act")
        /\ UNCHANGED faults
  /\ UNCHANGED <<rateVars, cliVars, said, acted>>

\* (mutant) autonomy.py forgets that an edited message has no update.message.
EnterOwnerEdited ==
  /\ cur.pc = "handle"
  /\ Handler \in DOMAIN Command
  /\ Command[Handler].who = "owner"
  /\ IF cur.user # Owner THEN Answer("denied") ELSE Goto("act")
  /\ UNCHANGED <<rateVars, cliVars, faults, said, acted>>

\* The owner's commands return at once for an edited message.
EnterOwner ==
  /\ cur.pc = "handle"
  /\ Handler \in DOMAIN Command
  /\ Command[Handler].who = "owner"
  /\ IF cur.via # "message" THEN Goto("over")
     ELSE IF cur.user # Owner THEN Answer("denied") ELSE Goto("act")
  /\ UNCHANGED <<rateVars, cliVars, faults, said, acted>>

\* /start changes nothing for the owner, who needs no invite.
Changes ==
  /\ Command[Handler].acts
  /\ Handler \notin CliCommands
  /\ ~(Handler = "start" /\ cur.user = Owner)

\* (mutant) the change is made before the arguments are looked at.
ActFirst ==
  /\ cur.pc = "act"
  /\ Handler # "invite"
  /\ IF Handler \in CliCommands THEN Goto("launch") ELSE Answer("refused")
  /\ acted' = acted \cup {N}
  /\ UNCHANGED <<rateVars, cliVars, faults, said>>

\* What the command does, between its checks and its answer.
Act ==
  /\ cur.pc = "act"
  /\ Handler # "invite"
  /\ \/ /\ Changes
        /\ Answer("done")
        /\ acted' = acted \cup {N}
        /\ UNCHANGED faults
     \/ /\ ~Changes
        /\ IF Handler \in CliCommands THEN Goto("launch") ELSE Answer("answer")
        /\ UNCHANGED <<acted, faults>>
     \/ /\ Command[Handler].refuses
        /\ Answer("refused")
        /\ UNCHANGED <<acted, faults>>
     \/ /\ Command[Handler].reads
        /\ Fault
        /\ Raise("over")
        /\ UNCHANGED acted
  /\ UNCHANGED <<rateVars, cliVars, said>>

\* /invite, rationed by a bucket of its own.
ActInvite ==
  /\ cur.pc = "act"
  /\ Handler = "invite"
  /\ Check(<<"invites", cur.user>>)
  /\ IF Allowed(<<"invites", cur.user>>)
     THEN \/ Answer("done") /\ acted' = acted \cup {N} /\ UNCHANGED faults
          \/ Fault /\ Raise("over") /\ UNCHANGED acted
     ELSE Answer("comeBack") /\ UNCHANGED <<acted, faults>>
  /\ UNCHANGED <<cliVars, said>>

\* update.message of an edited message or of a button's is None.
HasReply ==
  \/ cur.via = "message"
  \/ Handler \in Prompts
  \/ Handler \in DOMAIN Command /\ Command[Handler].anywhere
  \/ Handler = "unknownButton" /\ cur.via = "button"

Reply ==
  /\ cur.pc = "reply"
  /\ \/ /\ HasReply
        /\ Say(IF cur.via = "orphan" THEN "again" ELSE cur.word)
        /\ Goto("over")
        /\ UNCHANGED faults
     \/ /\ ~HasReply
        /\ Raise("over")
        /\ UNCHANGED <<said, faults>>
     \/ /\ HasReply
        /\ Fault
        /\ IF Handler = "epic" /\ cur.word \in {"done", "failed"}
           THEN cur' = [cur EXCEPT !.word = "error", !.troubles = @ + 1]
           ELSE Raise("over")
        /\ UNCHANGED said
  /\ UNCHANGED <<rateVars, cliVars, acted>>

-----------------------------------------------------------------------------
(* The commands that start another program. *)

\* /epic answers first.
EpicAnnounced ==
  /\ cur.pc = "announce"
  /\ \/ cur.via = "message" /\ Goto("launch") /\ UNCHANGED faults
     \/ cur.via # "message" /\ Raise("over") /\ UNCHANGED faults
     \/ cur.via = "message" /\ Fault /\ Raise("over")
  /\ UNCHANGED <<rateVars, cliVars, said, acted>>

\* The program may not start; /auto does not catch that.
Launch ==
  /\ cur.pc = "launch"
  /\ \/ /\ RunAuto(N, Handler)
        /\ Goto("cli")
        /\ UNCHANGED faults
     \/ /\ Fault
        /\ CASE Handler \in {"add", "runs"} -> Raise("over")
             [] Handler \in {"ack", "relay"} -> Answer("failed")
             [] Handler = "epic" -> Answer("error")
             [] Handler \in Approvals -> cur' = [cur EXCEPT !.pc = "alert", !.word = "failed"]
        /\ UNCHANGED cliVars
  /\ UNCHANGED <<rateVars, said, acted>>

\* The exit code decides what the user is told.  The Epic script may have told
\* them itself.
CliAnswered ==
  /\ cur.pc = "cli"
  /\ Ended(N)
  /\ Unlink(N)
  /\ UNCHANGED late
  /\ IF Handler \in Approvals THEN Goto("verdict") /\ UNCHANGED said
     ELSE \/ Answer(IF proc[N].pc = "zero" THEN "done" ELSE "failed") /\ UNCHANGED said
          \/ Handler = "epic" /\ proc[N].pc = "zero" /\ Goto("over") /\ Say("done")
  /\ UNCHANGED <<rateVars, faults, acted>>

\* (mutant) a timeout is reported as a failure.
CliTimeoutFails ==
  /\ cur.pc = "cli"
  /\ ~Ended(N)
  /\ Unlink(N)
  /\ late' = late \cup {N}
  /\ IF Handler \in Approvals THEN cur' = [cur EXCEPT !.pc = "alert", !.word = "failed"]
     ELSE Answer("failed")
  /\ UNCHANGED <<rateVars, faults, said, acted>>

\* wait_for gives up, and leaves the program to itself.  A command is said not to
\* have ended in time; of an approval it is said that jarvis did not run, the word
\* it has for an OSError as well.
CliTimeout ==
  /\ cur.pc = "cli"
  /\ ~Ended(N)
  /\ Unlink(N)
  /\ late' = late \cup {N}
  /\ IF Handler \in Approvals THEN cur' = [cur EXCEPT !.pc = "alert", !.word = "failed"]
     ELSE Answer("unsure")
  /\ UNCHANGED <<rateVars, faults, said, acted>>

-----------------------------------------------------------------------------
(* Buttons. *)

\* (mutant) every registered user may decide a request.
CallbackOfAnybody ==
  /\ cur.pc = "callback"
  /\ IF cur.user \in Registered /\ cur.kind \in Approvals
     THEN Goto("launch") ELSE Goto("answerQuery")
  /\ UNCHANGED <<rateVars, cliVars, faults, said, acted>>

\* handle_callback checks for itself who presses; a stranger gets an empty
\* answer.  Approvals answer with their verdict.
handle_callback ==
  /\ cur.pc = "callback"
  /\ \/ /\ cur.user \in Registered
        /\ CASE cur.kind \notin Approvals -> Goto("answerQuery")
             [] cur.kind \in Approvals /\ cur.user = Owner -> Goto("launch")
             [] OTHER -> cur' = [cur EXCEPT !.pc = "alert", !.word = "denied"]
        /\ UNCHANGED faults
     \/ cur.user \notin Registered /\ Goto("answerQuery") /\ UNCHANGED faults
     \/ Fault /\ Raise("over")
  /\ UNCHANGED <<rateVars, cliVars, said, acted>>

\* query.answer(): Telegram refuses it when the query is too old, and then
\* nothing else is done.
AnswerQuery ==
  /\ cur.pc = "answerQuery"
  /\ \/ /\ IF cur.user \notin Registered THEN Goto("over")
           ELSE IF cur.kind = "unknownButton" THEN Answer("refused")
           ELSE Goto("handle")
        /\ UNCHANGED faults
     \/ Fault /\ Raise("over")
  /\ UNCHANGED <<rateVars, cliVars, said, acted>>

Alert ==
  /\ cur.pc = "alert"
  /\ \/ Goto("over") /\ Say(cur.word) /\ UNCHANGED faults
     \/ Fault /\ Raise("over") /\ UNCHANGED said
  /\ UNCHANGED <<rateVars, cliVars, acted>>

\* The verdict goes into the answer and under the message; neither is missed
\* when it fails.
Verdict ==
  /\ cur.pc = "verdict"
  /\ \E answered, edited \in BOOLEAN :
       /\ ~answered \/ (cur.via = "button" /\ ~edited) => Fault
       /\ answered /\ (cur.via = "orphan" \/ edited) => UNCHANGED faults
       /\ cur.via = "orphan" => ~edited
       /\ mark' = IF edited THEN MarkOf(N) ELSE mark
       /\ said' = [said EXCEPT ![N] =
            IF answered \/ edited THEN IF proc[N].pc = "zero" THEN "done" ELSE "failed"
            ELSE @]
       /\ cur' = [cur EXCEPT !.pc = "over",
            !.troubles = @ + IF answered \/ edited THEN 0 ELSE 2]
  /\ UNCHANGED <<rateVars, proc, late, jobFile, decision, acted>>

-----------------------------------------------------------------------------
(* The handlers that prompt Claude. *)

Oversized ==
  /\ cur.pc = "handle"
  /\ Handler \in Prompts
  /\ Prompt[Handler].sized
  /\ Answer("refused")
  /\ UNCHANGED <<rateVars, cliVars, faults, said, acted>>

\* The bucket, then two looks into the database.
Ration ==
  /\ cur.pc = "handle"
  /\ Handler \in Prompts
  /\ Check(<<"claude", cur.user>>)
  /\ IF Allowed(<<"claude", cur.user>>)
     THEN \/ Goto(IF Prompt[Handler].file THEN "download" ELSE "status") /\ UNCHANGED faults
          \/ Fault /\ Raise("over")
     ELSE Answer("comeBack") /\ UNCHANGED faults
  /\ UNCHANGED <<cliVars, said, acted>>

\* (mutant) a download that fails is only logged.
DownloadSilent ==
  /\ cur.pc = "download"
  /\ \/ Goto("status") /\ UNCHANGED faults
     \/ cur' = [cur EXCEPT !.pc = "over", !.troubles = @ + 1] /\ Fault
  /\ UNCHANGED <<rateVars, cliVars, said, acted>>

Download ==
  /\ cur.pc = "download"
  /\ \/ Goto("status") /\ UNCHANGED faults
     \/ Fault /\ Answer("failed")
  /\ UNCHANGED <<rateVars, cliVars, said, acted>>

\* The status message; _keep_typing is started after it.
Status ==
  /\ cur.pc = "status"
  /\ \/ /\ cur' = [cur EXCEPT !.pc = "run", !.typing = TRUE, !.glass = TRUE]
        /\ UNCHANGED faults
     \/ Fault /\ Raise("over")
  /\ UNCHANGED <<rateVars, cliVars, said, acted>>

\* (mutant) typing is stopped only when Claude answers.
RunNoFinally ==
  /\ cur.pc = "run"
  /\ \/ /\ \E c \in 1..MaxChunks :
             cur' = [cur EXCEPT !.pc = "delete", !.typing = FALSE, !.chunks = c]
        /\ acted' = acted \cup {N}
        /\ UNCHANGED faults
     \/ /\ cur' = [cur EXCEPT !.pc = "edit"]
        /\ UNCHANGED <<faults, acted>>
  /\ UNCHANGED <<rateVars, cliVars, said>>

\* claude.execute() answers, times out or fails as Claude does, or raises
\* something else.  The finally stops the typing in every case.
Run ==
  /\ cur.pc = "run"
  /\ \/ /\ \E c \in 1..MaxChunks :
             cur' = [cur EXCEPT !.pc = "delete", !.typing = FALSE, !.chunks = c]
        /\ acted' = acted \cup {N}
        /\ UNCHANGED faults
     \/ /\ cur' = [cur EXCEPT !.pc = "edit", !.typing = FALSE]
        /\ UNCHANGED <<faults, acted>>
     \/ /\ Fault
        /\ Raise("over")
        /\ UNCHANGED acted
  /\ UNCHANGED <<rateVars, cliVars, said>>

\* The status message becomes the error.
EditStatus ==
  /\ cur.pc = "edit"
  /\ \/ /\ cur' = [cur EXCEPT !.pc = "over", !.glass = FALSE]
        /\ Say("failed")
        /\ UNCHANGED faults
     \/ Fault /\ Raise("over") /\ UNCHANGED said
  /\ UNCHANGED <<rateVars, cliVars, acted>>

\* The status message goes, unless Telegram fails, which is passed over.
DeleteStatus ==
  /\ cur.pc = "delete"
  /\ \/ cur' = [cur EXCEPT !.pc = "log", !.glass = FALSE] /\ UNCHANGED faults
     \/ cur' = [cur EXCEPT !.pc = "log", !.troubles = @ + 1] /\ Fault
  /\ UNCHANGED <<rateVars, cliVars, said, acted>>

\* The answer is at hand; if it cannot be logged it is not sent.
LogCommand ==
  /\ cur.pc = "log"
  /\ \/ Goto("send") /\ UNCHANGED faults
     \/ Fault /\ Raise("over")
  /\ UNCHANGED <<rateVars, cliVars, said, acted>>

\* (mutant) one message too many.
ArriveOneMore ==
  /\ cur' = [cur EXCEPT !.got = Append(@, cur.at), !.at = @ + 1,
               !.pc = IF cur.at > cur.chunks THEN "over" ELSE "send"]
  /\ IF cur.at > cur.chunks THEN Say("answer") ELSE UNCHANGED said

\* The next chunk arrives.
Arrive ==
  /\ cur' = [cur EXCEPT !.got = Append(@, cur.at), !.at = @ + 1,
               !.pc = IF cur.at = cur.chunks THEN "over" ELSE "send"]
  /\ IF cur.at = cur.chunks THEN Say("answer") ELSE UNCHANGED said

\* A send that raises: the chunk may have arrived all the same.
RaiseUnsure ==
  /\ Fault
  /\ \E arrived \in BOOLEAN :
       cur' = [cur EXCEPT !.pc = "error", !.back = "over", !.troubles = @ + 1,
                 !.got = IF arrived THEN Append(@, cur.at) ELSE @]
  /\ UNCHANGED said

\* (mutant) whatever a send raises, the chunk is sent again as plain text.
SendChunkAgain ==
  /\ cur.pc = "send"
  /\ \/ Arrive /\ UNCHANGED faults
     \/ /\ Fault
        /\ \E arrived \in BOOLEAN :
             cur' = [cur EXCEPT !.pc = "plain",
                       !.got = IF arrived THEN Append(@, cur.at) ELSE @]
        /\ UNCHANGED said
  /\ UNCHANGED <<rateVars, cliVars, acted>>

\* (mutant) a chunk that fails is logged and skipped.
SendChunkOrSkip ==
  /\ cur.pc = "send"
  /\ \/ Arrive /\ UNCHANGED faults
     \/ /\ Fault
        /\ cur' = [cur EXCEPT !.at = @ + 1, !.troubles = @ + 1,
                     !.pc = IF cur.at = cur.chunks THEN "over" ELSE "send"]
        /\ UNCHANGED said
  /\ UNCHANGED <<rateVars, cliVars, acted>>

\* send_claude_reply: "Only a parse rejection earns the plain-text retry."
SendChunk ==
  /\ cur.pc = "send"
  /\ \/ Arrive /\ UNCHANGED faults
     \/ Goto("plain") /\ UNCHANGED <<faults, said>>
     \/ RaiseUnsure
  /\ UNCHANGED <<rateVars, cliVars, acted>>

SendPlain ==
  /\ cur.pc = "plain"
  /\ \/ Arrive /\ UNCHANGED faults
     \/ RaiseUnsure
  /\ UNCHANGED <<rateVars, cliVars, acted>>

-----------------------------------------------------------------------------

\* Time is let pass between two updates: no update looks at a bucket twice, and
\* before the first there is none.
Time ==
  /\ cur.pc = "over" /\ N > 0
  /\ \/ Pass /\ UNCHANGED faults
     \/ StepBack /\ Fault
  /\ UNCHANGED <<cliVars, cur, said, acted>>

\* A button has the kinds of a keyboard, a message the others.
Sendable(kind, via) ==
  IF via \in {"button", "orphan"} THEN kind \in ButtonActions
  ELSE kind \notin Approvals \cup {"unknownButton"}

Handle ==
  \/ OnError \/ security_middleware \/ auth_middleware \/ rate_limit_middleware
  \/ Enter \/ EnterOwner \/ Act \/ ActInvite \/ Reply
  \/ EpicAnnounced \/ Launch \/ CliAnswered \/ CliTimeout
  \/ handle_callback \/ AnswerQuery \/ Alert \/ Verdict
  \/ Oversized \/ Ration \/ Download \/ Status \/ Run \/ EditStatus
  \/ DeleteStatus \/ LogCommand \/ SendChunk \/ SendPlain

Next ==
  \/ \E u \in Users, kind \in Sent, via \in Vias :
       Sendable(kind, via) /\ Receive(u, kind, via)
  \/ Handle
  \/ Cli /\ UNCHANGED <<rateVars, pipeVars>>
  \/ Time

Spec == Init /\ [][Next]_vars

-----------------------------------------------------------------------------
(* Properties. *)

\* _on_error: one failure, wherever it comes, does not leave a user without a
\* word.  By design a null byte, an edited message to the owner's commands and
\* a stranger's button get none; a button whose message is gone has no place
\* for one.
Silent ==
  \/ cur.kind = "nullByte"
  \/ cur.via = "orphan"
  \/ cur.via = "button" /\ cur.user \notin Registered
  \/ /\ cur.via = "edited"
     /\ Handler \in DOMAIN Command
     /\ Command[Handler].who = "owner"

OneFailureIsTold ==
  cur.pc = "over" /\ N > 0 /\ cur.troubles <= 1 => said[N] # "nothing" \/ Silent

\* Who was told that it is done has had it done; who was told that it was
\* denied, refused, rationed or failed has not, nor does it happen later, when
\* a program that outlived its timeout gets to it.  The one exception: an approval
\* that takes too long is reported as "jarvis çalışmadı", did not run
\* (autonomy.py:213), and may be decided all the same.  And a request marked as
\* approved or rejected was decided so, whatever was pressed meanwhile.
LateApproval(n) == proc[n].verb \in Approvals /\ n \in late

ToldIsTrue ==
  /\ \A n \in Numbers :
       /\ said[n] = "done" => n \in acted \/ Did(n)
       /\ said[n] \in {"denied", "refused", "comeBack", "failed"} =>
            n \notin acted /\ (~Did(n) \/ (said[n] = "failed" /\ LateApproval(n)))
  /\ mark \in Approvals => decision = mark

\* "owner only, not promoted admins" (autonomy.py:1), by message or by button;
\* only admins change what is for admins; and "editing an old /j would relay it
\* to Jarvis again" (orchestrator.py:117): no edit starts a program, by whatever
\* handler it arrives.
EntitledOnly ==
  /\ N > 0 /\ Handler \in DOMAIN Command /\ (N \in acted \/ proc[N] # NoProc) =>
       CASE Command[Handler].who = "owner" -> cur.user = Owner
         [] Command[Handler].who = "admin" -> IsAdmin
         [] OTHER -> TRUE
  /\ N > 0 /\ cur.via = "edited" => proc[N] = NoProc

\* However a handler ends, it types no more, its status message is gone unless
\* something failed, and no job file stays behind.
NothingLeftBehind ==
  /\ cur.pc = "over" => ~cur.typing /\ (cur.glass => cur.troubles > 0)
  /\ \A n \in Numbers : jobFile[n] => n = N /\ cur.pc = "cli"

\* "resending would duplicate it" (formatting.py:163): the chunks of an answer
\* arrive in order, and none twice; and an answer that Claude was paid for
\* arrives whole, or its user is told that something failed, unless that fails
\* as well.
AnswersAreWhole ==
  /\ \A k \in DOMAIN cur.got : cur.got[k] = k
  /\ cur.pc = "over" /\ Handler \in Prompts /\ N \in acted =>
       Len(cur.got) = cur.chunks \/ said[N] = "error" \/ cur.troubles > 1

\* "drop update" (rate_limit.py:36): what a middleware refuses reaches no handler.
RefusedIsDropped == cur.refused => cur.pc # "handle"
=============================================================================
