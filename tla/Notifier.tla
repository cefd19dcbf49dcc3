------------------------------ MODULE Notifier ------------------------------
(***************************************************************************)
(* notifier/telegram_bot.py: send_alert chooses a chat by the level of the *)
(* alert, sends one message and writes one row to notification_log, while  *)
(* Telegram, the database or the process may fail.                         *)
(***************************************************************************)
EXTENDS FiniteSets

CONSTANT Alerts \* the calls of send_alert

VARIABLES alert, \* the calls
          chats, \* the messages in each chat
          log    \* notification_log

notifierVars == <<alert, chats, log>>

Levels == {"infra_critical", "data_warning", "info"}

Chats == {"admin", "mgmt", "info"}

(* A call: its stage, its level, which of the notifier's settings its process has, *)
(* and what it knows of the delivery.                                              *)
Call == [stage : {"new", "opened", "sent", "returned", "raised"},
         level : Levels, configured : SUBSET (Chats \union {"token"}),
         outcome : {"unknown", "delivered", "error"}]

LogRow == [alert : Alerts, channel : Chats \union {"admin_fallback"}, delivered : BOOLEAN]

NotifierTypeOK ==
  /\ alert \in [Alerts -> Call]
  /\ chats \in [Chats -> SUBSET Alerts]
  /\ log \subseteq LogRow

NotifierInit ==
  /\ alert = [a \in Alerts |-> [stage |-> "new", level |-> "info", configured |-> {}, outcome |-> "unknown"]]
  /\ chats = [c \in Chats |-> {}]
  /\ log = {}

-----------------------------------------------------------------------------
(* _resolve_target: the channel that is logged and the chat that is written to. *)
Channel(a) ==
  CASE alert[a].level = "infra_critical" -> "admin"
    [] alert[a].level = "data_warning" -> "mgmt"
    [] alert[a].level = "info" /\ "info" \in alert[a].configured -> "info"
    [] OTHER -> "admin_fallback"

ChatOf(channel) == IF channel = "admin_fallback" THEN "admin" ELSE channel

Chat(a) == ChatOf(Channel(a))

Sendable(a) == {"token", Chat(a)} \subseteq alert[a].configured

Now(a, stage, outcome) ==
  alert' = [alert EXCEPT ![a].stage = stage, ![a].outcome = outcome]

(* init_db comes first: without a database nothing is sent. *)
OpenAlert(a) ==
  /\ alert[a].stage = "new"
  /\ \E stage \in {"opened", "raised"}, level \in Levels, settings \in SUBSET (Chats \union {"token"}) :
       alert' = [alert EXCEPT ![a] =
         [stage |-> stage, level |-> level, configured |-> settings, outcome |-> "unknown"]]
  /\ UNCHANGED <<chats, log>>

(* A missing token or chat is an error like any other. *)
NotSendable(a) ==
  /\ alert[a].stage = "opened"
  /\ ~Sendable(a)
  /\ Now(a, "sent", "error")
  /\ UNCHANGED <<chats, log>>

(* Telegram takes the message; its answer may arrive, or time out, or be no JSON. *)
Accepted(a) ==
  /\ alert[a].stage = "opened"
  /\ Sendable(a)
  /\ chats' = [chats EXCEPT ![Chat(a)] = @ \union {a}]
  /\ \E outcome \in {"delivered", "error"} : Now(a, "sent", outcome)
  /\ UNCHANGED log

(* Mutant: the answer's ok flag is not looked at. *)
RejectedUnseen(a) ==
  /\ alert[a].stage = "opened"
  /\ Sendable(a)
  /\ Now(a, "sent", "delivered")
  /\ UNCHANGED <<chats, log>>

(* Telegram is out of reach or answers that it rejects the message. *)
Rejected(a) ==
  /\ alert[a].stage = "opened"
  /\ Sendable(a)
  /\ Now(a, "sent", "error")
  /\ UNCHANGED <<chats, log>>

LogAttempt(a) ==
  /\ alert[a].stage = "sent"
  /\ log' = log \union {[alert |-> a, channel |-> Channel(a),
                         delivered |-> alert[a].outcome = "delivered"]}
  /\ Now(a, "returned", alert[a].outcome)
  /\ UNCHANGED chats

(* The row cannot be written, or the process dies: what was sent leaves no row. *)
LogFails(a) ==
  /\ alert[a].stage \in {"opened", "sent"}
  /\ Now(a, "raised", alert[a].outcome)
  /\ UNCHANGED <<chats, log>>

NotifierNext ==
  \E a \in Alerts :
    \/ OpenAlert(a)
    \/ NotSendable(a)
    \/ Accepted(a)
    \/ Rejected(a)
    \/ LogAttempt(a)
    \/ LogFails(a)

NotifierSpec == NotifierInit /\ [][NotifierNext]_notifierVars

-----------------------------------------------------------------------------
LogRows(a) == {row \in log : row.alert = a}

(* The log and the chats agree as far as they can.  A call that returns has left *)
(* exactly one row; a row that says delivered stands for a message in the chat   *)
(* of its channel, and no message is ever without a row unless the call raised.  *)
(* A row that says not delivered proves nothing: the answer may have been lost.  *)
LogMatchesChats ==
  /\ \A a \in Alerts : alert[a].stage = "returned" => Cardinality(LogRows(a)) = 1
  /\ \A row \in log : row.delivered => row.alert \in chats[ChatOf(row.channel)]
  /\ \A c \in Chats : \A a \in chats[c] :
       /\ ChatOf(Channel(a)) = c
       /\ LogRows(a) # {} \/ alert[a].stage \in {"sent", "raised"}
=============================================================================
