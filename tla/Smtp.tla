-------------------------------- MODULE Smtp --------------------------------
(***************************************************************************)
(* send_task of smtplib: one mail, from the addresses of its host to the    *)
(* result.  The server answers each command with any of the answers SMTP    *)
(* has for it, in one or several lines, or closes, or stays silent.         *)
(***************************************************************************)
EXTENDS Integers, SequencesExt

CONSTANTS Addrs,        \* addresses the resolver may find: their number
          receivers     \* the receivers' number, at least 1

VARIABLES try_addrs,    \* addresses not tried yet
          link,         \* the client: none, connecting, up, closed by the server
          sm_state, rcpt_index, need_auth,
          command,      \* the command the server has to answer, or "none"
          answers,      \* lines of the server that have not been handled
          accepted,     \* what of the mail the server agreed to, in order: history
          sm_result,    \* values of res_promise
          task_map      \* the task is in task_map
smtp_vars == <<try_addrs, link, sm_state, rcpt_index, need_auth, command, answers, accepted,
               sm_result, task_map>>

\* send_mail() up to start(): the result of the resolver is known
Init ==
    /\ try_addrs \in Addrs /\ link = "none"
    /\ sm_state = "INIT" /\ rcpt_index = 0 /\ need_auth = FALSE
    /\ command = "none" /\ answers = <<>> /\ accepted = <<>>
    /\ sm_result = <<>> /\ task_map = TRUE

set_result(ok) == sm_result' = Append(sm_result, ok) /\ task_map' = FALSE

\* start(): the next address; called by send_mail() and by the timeout handler
Start ==
    /\ task_map /\ link \in {"none", "connecting"} /\ UNCHANGED <<sm_state, rcpt_index, need_auth>>
    /\ IF try_addrs = 0
       THEN set_result(FALSE) /\ link' = "none" /\ UNCHANGED try_addrs
       ELSE link' = "connecting" /\ try_addrs' = try_addrs - 1 /\ UNCHANGED <<sm_result, task_map>>
    /\ UNCHANGED <<command, answers, accepted>>

\* the client connects (client.cc); the server greets
Connected ==
    /\ task_map /\ link = "connecting" /\ link' = "up" /\ command' = "greeting"
    /\ UNCHANGED <<try_addrs, sm_state, rcpt_index, need_auth, answers, accepted, sm_result, task_map>>

(***************************************************************************)
(* The server (external): lines, as the answer to a command                 *)
(***************************************************************************)
Good(c) == CASE c = "greeting" -> "220" [] c = "AUTH" -> "334 username:"
             [] c = "user" -> "334 password:" [] c = "password" -> "235" [] c = "DATA" -> "354" [] c = "QUIT" -> "221"
             [] OTHER -> "250"
Replies(c) ==
    {<<[code |-> Good(c), more |-> FALSE]>>, <<[code |-> "5xx", more |-> FALSE]>>}
    \cup IF c = "EHLO" THEN {<<[code |-> k, more |-> TRUE], [code |-> "250", more |-> FALSE]>> :
                             k \in {"250", "AUTH"}}
         ELSE IF c = "AUTH" THEN {<<[code |-> "334 other", more |-> FALSE]>>} ELSE {}
ServerReplies(lines) ==
    /\ link = "up" /\ command # "none" /\ lines \in Replies(command)
    /\ answers' = answers \o lines
    /\ accepted' = IF lines[1].code # "5xx" /\ command \in {"MAIL", "RCPT", "DATA", "text"}
                   THEN Append(accepted, command) ELSE accepted
    /\ command' = "none"
    /\ UNCHANGED <<try_addrs, link, sm_state, rcpt_index, need_auth, sm_result, task_map>>
ServerCloses ==     \* what it sent before is read first
    /\ link = "up" /\ answers = <<>> /\ link' = "closed"
    /\ UNCHANGED <<try_addrs, sm_state, rcpt_index, need_auth, command, answers, accepted,
                   sm_result, task_map>>

(***************************************************************************)
(* send_mail(): a line of the server, in each state                         *)
(***************************************************************************)
Say(c, state) == command' = c /\ sm_state' = state

rcpt_one ==     \* mutant: the state advances with the first receiver
    /\ command' = "RCPT" /\ sm_state' = "RCPT" /\ rcpt_index' = 0
rcpt ==
    /\ command' = "RCPT"
    /\ IF rcpt_index + 1 >= receivers THEN rcpt_index' = 0 /\ sm_state' = "RCPT"
       ELSE rcpt_index' = rcpt_index + 1 /\ UNCHANGED sm_state

Expect(code) == Head(answers).code = code /\ ~Head(answers).more

Line ==
    /\ task_map /\ link = "up" /\ answers # <<>> /\ answers' = Tail(answers)
    /\ UNCHANGED <<try_addrs, link, accepted>>
NoResult == UNCHANGED <<sm_result, task_map>>
Step(state, code, next) ==
    /\ Line /\ sm_state = state /\ Expect(code) /\ NoResult /\ UNCHANGED need_auth
    /\ next

ehlo == Say("EHLO", "EHLO") /\ UNCHANGED rcpt_index
auth == Say("AUTH", "AUTH") /\ UNCHANGED rcpt_index
mail == Say("MAIL", "MAIL") /\ UNCHANGED rcpt_index
data == Say("DATA", "DATA") /\ UNCHANGED rcpt_index
do_data == Say("text", "QUIT") /\ UNCHANGED rcpt_index
quit == Say("QUIT", "CLOSE") /\ UNCHANGED rcpt_index

\* do_auth(): the username or the password, as the server asks; nothing if it
\* asks for neither
do_auth(arg) ==
    /\ command' = CASE arg = "username:" -> "user" [] arg = "password:" -> "password" [] OTHER -> "none"
    /\ UNCHANGED <<sm_state, rcpt_index>>

EhloMore ==
    /\ Line /\ sm_state = "EHLO" /\ Head(answers).more /\ NoResult
    /\ need_auth' = (need_auth \/ Head(answers).code = "AUTH")
    /\ UNCHANGED <<sm_state, rcpt_index, command>>

Finish ==
    /\ Line /\ sm_state = "CLOSE" /\ Expect("221") /\ set_result(TRUE)
    /\ UNCHANGED <<sm_state, rcpt_index, need_auth, command>>

\* any other line: the result is an error
Expected == \/ sm_state = "INIT" /\ Expect("220")
            \/ sm_state = "EHLO" /\ (Expect("250") \/ Head(answers).more)
            \/ /\ sm_state = "AUTH"
               /\ \E code \in {"334 username:", "334 password:", "334 other", "235"} : Expect(code)
            \/ sm_state \in {"MAIL", "RCPT", "QUIT"} /\ Expect("250")
            \/ sm_state = "DATA" /\ Expect("354")
            \/ sm_state = "CLOSE" /\ Expect("221")
Error ==
    /\ Line /\ ~Expected /\ set_result(FALSE)
    /\ UNCHANGED <<sm_state, rcpt_index, need_auth, command>>

Next ==
    \/ Start \/ Connected \/ ServerCloses
    \/ \E c \in {"greeting", "EHLO", "AUTH", "user", "password", "MAIL", "RCPT", "DATA", "text", "QUIT"} :
          command = c /\ \E lines \in Replies(c) : ServerReplies(lines)
    \/ Step("INIT", "220", ehlo) \/ EhloMore
    \/ Step("EHLO", "250", IF need_auth THEN auth ELSE mail)
    \/ Step("AUTH", "334 username:", do_auth("username:")) \/ Step("AUTH", "334 password:", do_auth("password:"))
    \/ Step("AUTH", "334 other", do_auth("other")) \/ Step("AUTH", "235", mail)
    \/ Step("MAIL", "250", rcpt) \/ Step("RCPT", "250", data)
    \/ Step("DATA", "354", do_data) \/ Step("QUIT", "250", quit)
    \/ Finish \/ Error
Spec == Init /\ [][Next]_smtp_vars

\* The caller is told of success only for a mail whose sender, each of whose
\* receivers and whose text the server accepted, in this order, and it gets one
\* result, after which the task is gone.
OkMeansAccepted ==
    /\ sm_result = <<TRUE>> =>
          accepted = <<"MAIL">> \o [i \in 1..receivers |-> "RCPT"] \o <<"DATA", "text">>
    /\ Len(sm_result) <= 1 /\ (sm_result = <<>>) = task_map
=============================================================================
