-------------------------- MODULE TelegramCommands --------------------------
(***************************************************************************)
(* The Telegram poller (src/python/telegram_commands.py) with the sender   *)
(* of TelegramNotify.  The poller reads the configured accounts, asks      *)
(* Telegram for the updates of a bot from an offset on, executes the       *)
(* commands one after the other, replies to each, and then keeps the new   *)
(* offset, in memory only.  Telegram forgets an update when it is asked    *)
(* for later ones.  One bot; an update is a trade command from a chat.     *)
(* That is how src/ uses the bot API, which is modelled from that use.     *)
(***************************************************************************)
EXTENDS TelegramNotify

CONSTANTS
  Accounts,
  Strangers,  \* chats that write to the bot and are configured for no account
  MaxUpdates, \* bound: commands that users send
  MaxRestarts \* bound: restarts of the server

ASSUME CommandsAssumption ==
  /\ Strangers \cap (Chats \cup {None}) = {}
  /\ {MaxUpdates, MaxRestarts} \subseteq Nat

VARIABLES
  config,   \* the chat of each account in account_settings
  updates,  \* external: the chat of each update; the identifier is its place
  forgotten,\* external: Telegram has forgotten the updates up to this one
  offset,   \* _offsets of the bot, less one: updates up to it are done
  poll,     \* the local state of the poller
  tried,    \* history: how often each update was sent to a terminal
  answered, \* history: updates the poller has gone through
  changed,  \* history: an account got another chat during the round
  restarts

pollVars == <<config, updates, forgotten, offset, poll, tried, answered, changed, restarts>>
vars == <<notifyVars, pollVars>>

\* pc: asleep between rounds, in getUpdates, among the updates, waiting for an
\* order or for the reply.  configs: as read at the start of the round; next:
\* the update it comes to; last: the end of the batch.
PollStates == [pc : {"asleep", "ask", "batch", "order", "reply"},
               configs : [Accounts -> Chats \cup {None}],
               next : 1 .. MaxUpdates + 1, last : 0 .. MaxUpdates]
Asleep == [pc |-> "asleep", configs |-> [a \in Accounts |-> None], next |-> 1, last |-> 0]

Init ==
  /\ NotifyInit
  /\ config \in [Accounts -> Chats \cup {None}]
  /\ updates = <<>>
  /\ forgotten = 0
  /\ offset = 0
  /\ poll = Asleep
  /\ tried = [u \in 1 .. MaxUpdates |-> 0]
  /\ answered = {}
  /\ changed = FALSE
  /\ restarts = 0

-----------------------------------------------------------------------------
(* The users *)

Command(c) ==
  /\ Len(updates) < MaxUpdates
  /\ updates' = Append(updates, c)
  /\ UNCHANGED <<notifyVars, config, forgotten, offset, poll, tried, answered, changed, restarts>>

\* set_telegram, whose keyboard message is a WebSend.
SetTelegram(a, c) ==
  /\ config[a] # c
  /\ config' = [config EXCEPT ![a] = c]
  /\ changed' = (changed \/ poll.pc # "asleep")
  /\ UNCHANGED <<notifyVars, updates, forgotten, offset, poll, tried, answered, restarts>>

DeleteTelegram(a) ==
  /\ config[a] # None
  /\ config' = [config EXCEPT ![a] = None]
  /\ changed' = (changed \/ poll.pc # "asleep")
  /\ UNCHANGED <<notifyVars, updates, forgotten, offset, poll, tried, answered, restarts>>

-----------------------------------------------------------------------------
(* run_poller and _poll_bot *)

\* A round begins: without a configured account there is no bot to ask.
Round ==
  /\ poll.pc = "asleep"
  /\ \E a \in Accounts : config[a] # None
  /\ poll' = [Asleep EXCEPT !.pc = "ask", !.configs = config]
  /\ changed' = FALSE
  /\ UNCHANGED <<notifyVars, config, updates, forgotten, offset, tried, answered, restarts>>

\* Telegram forgets what is done and returns what it has.
Answered ==
  LET from == IF offset > forgotten THEN offset ELSE forgotten IN
  /\ poll.pc = "ask"
  /\ forgotten' = from
  /\ poll' = [poll EXCEPT !.pc = "batch", !.next = from + 1, !.last = Len(updates)]
  /\ UNCHANGED <<notifyVars, config, updates, offset, tried, answered, changed, restarts>>

\* No answer; or it is lost after Telegram forgot what is done.
AskFails ==
  /\ poll.pc = "ask"
  /\ forgotten' \in {forgotten, IF offset > forgotten THEN offset ELSE forgotten}
  /\ poll' = Asleep
  /\ UNCHANGED <<notifyVars, config, updates, offset, tried, answered, changed, restarts>>

\* mutant: the first account of the bot is meant.
MatchesAny(c) == {CHOOSE a \in Accounts : poll.configs[a] # None}

\* _accounts_for_message
Matches(c) == {a \in Accounts : poll.configs[a] = c}

\* A chat of no account: the update is passed by.
NoAccount ==
  /\ poll.pc = "batch"
  /\ poll.next <= poll.last
  /\ Matches(updates[poll.next]) = {}
  /\ answered' = answered \cup {poll.next}
  /\ poll' = [poll EXCEPT !.next = @ + 1]
  /\ UNCHANGED <<notifyVars, config, updates, forgotten, offset, tried, changed, restarts>>

Reply(c) ==
  sender' = [sender EXCEPT ![Poller] = [Quiet EXCEPT !.pc = "lock", !.chat = c]]

\* A chat of several accounts gets a refusal.
Ambiguous ==
  /\ poll.pc = "batch"
  /\ poll.next <= poll.last
  /\ \E a, b \in Matches(updates[poll.next]) : a # b
  /\ poll' = [poll EXCEPT !.pc = "reply"]
  /\ Reply(updates[poll.next])
  /\ UNCHANGED <<notes, queue, lock, recent, config, updates, forgotten, offset, tried, answered,
                 changed, restarts>>

\* _handle_command sends an order or a close to the terminal of the account.
Execute(a) ==
  /\ poll.pc = "batch"
  /\ poll.next <= poll.last
  /\ Matches(updates[poll.next]) = {a}
  /\ tried' = [tried EXCEPT ![poll.next] = @ + 1]
  /\ poll' = [poll EXCEPT !.pc = "order"]
  /\ UNCHANGED <<notifyVars, config, updates, forgotten, offset, answered, changed, restarts>>

\* The result, good or bad, is the reply.
Executed ==
  /\ poll.pc = "order"
  /\ poll' = [poll EXCEPT !.pc = "reply"]
  /\ Reply(updates[poll.next])
  /\ UNCHANGED <<notes, queue, lock, recent, config, updates, forgotten, offset, tried, answered,
                 changed, restarts>>

\* An error while the command is executed: it is logged, and there is no reply.
ExecuteRaises ==
  /\ poll.pc = "order"
  /\ answered' = answered \cup {poll.next}
  /\ poll' = [poll EXCEPT !.pc = "batch", !.next = @ + 1]
  /\ UNCHANGED <<notifyVars, config, updates, forgotten, offset, tried, changed, restarts>>

\* The reply is sent or has failed.
Replied ==
  /\ poll.pc = "reply"
  /\ sender[Poller].pc = "idle"
  /\ answered' = answered \cup {poll.next}
  /\ poll' = [poll EXCEPT !.pc = "batch", !.next = @ + 1]
  /\ UNCHANGED <<notifyVars, config, updates, forgotten, offset, tried, changed, restarts>>

\* mutant: the offset is not kept.
BatchEndsForgetful ==
  /\ poll.pc = "batch"
  /\ poll.next > poll.last
  /\ poll' = Asleep
  /\ UNCHANGED <<notifyVars, config, updates, forgotten, offset, tried, answered, changed, restarts>>

\* mutant: the offset is one too far.
BatchEndsBeyond ==
  /\ poll.pc = "batch"
  /\ poll.next > poll.last
  /\ offset' = IF poll.last > offset THEN poll.last + 1 ELSE offset
  /\ poll' = Asleep
  /\ UNCHANGED <<notifyVars, config, updates, forgotten, tried, answered, changed, restarts>>

\* The offset is kept when the whole batch is done.
BatchEnds ==
  /\ poll.pc = "batch"
  /\ poll.next > poll.last
  /\ offset' = IF poll.last > offset THEN poll.last ELSE offset
  /\ poll' = Asleep
  /\ UNCHANGED <<notifyVars, config, updates, forgotten, tried, answered, changed, restarts>>

-----------------------------------------------------------------------------
\* The server restarts: the offset, the queue and the senders are lost, and with them
\* when a chat was last sent to.
Restart ==
  /\ restarts < MaxRestarts
  /\ restarts' = restarts + 1
  /\ offset' = 0
  /\ poll' = Asleep
  /\ queue' = <<>>
  /\ lock' = None
  /\ recent' = {}
  /\ sender' = [s \in Senders |-> Quiet]
  /\ UNCHANGED <<notes, config, updates, forgotten, tried, answered, changed>>

Next ==
  \/ NotifyNext /\ UNCHANGED pollVars
  \/ \E c \in Chats \cup Strangers : Command(c)
  \/ \E a \in Accounts : (\E c \in Chats : SetTelegram(a, c)) \/ DeleteTelegram(a) \/ Execute(a)
  \/ Round \/ Answered \/ AskFails
  \/ NoAccount \/ Ambiguous \/ Executed \/ ExecuteRaises \/ Replied \/ BatchEnds
  \/ Restart

Spec == Init /\ [][Next]_vars

-----------------------------------------------------------------------------
TypeOK ==
  /\ NotifyTypeOK
  /\ config \in [Accounts -> Chats \cup {None}]
  /\ updates \in Seq(Chats \cup Strangers) /\ Len(updates) <= MaxUpdates
  /\ forgotten \in 0 .. MaxUpdates
  /\ offset \in 0 .. MaxUpdates
  /\ poll \in PollStates
  /\ tried \in [1 .. MaxUpdates -> Nat]
  /\ answered \subseteq 1 .. MaxUpdates
  /\ changed \in BOOLEAN
  /\ restarts \in 0 .. MaxRestarts

\* Telegram forgets no command before the poller has gone through it, whatever fails
\* and whenever the server restarts.
NoCommandIsLost == \A u \in 1 .. forgotten : u \in answered

\* A command is executed again only after a restart, once for each: what a restart
\* finds unforgotten is executed anew.
RepeatedOnlyByRestart == \A u \in 1 .. MaxUpdates : tried[u] <= 1 + restarts

\* A command trades on the account that has its chat alone, or had it when the round
\* began and was configured anew during the long poll.
TradesForItsChat ==
  [][\A a \in Accounts : Execute(a) =>
        \/ {b \in Accounts : config[b] = updates[poll.next]} = {a}
        \/ changed]_vars
=============================================================================
