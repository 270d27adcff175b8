--------------------------- MODULE TelegramNotify ---------------------------
(***************************************************************************)
(* Outgoing Telegram messages (src/python/telegram_notify.py).  notify     *)
(* puts a message into a bounded queue and returns; one worker sends the   *)
(* queue.  Replies to commands and the keyboard messages of the dashboard  *)
(* are sent by their own tasks.  All of them go through _deliver, whose    *)
(* lock is held over the throttle and the send, and not over the wait      *)
(* after a refusal.                                                        *)
(***************************************************************************)
EXTENDS Integers, Sequences

CONSTANTS
  Senders,   \* tasks that call _deliver: the ones below, and web handlers
  Worker,    \* _notify_worker
  Poller,    \* the reply of telegram_commands
  Chats,
  QueueMax,  \* _QUEUE_MAX
  MaxRetry,  \* _MAX_RETRY
  MaxNotes,  \* bound: calls of notify
  None

ASSUME NotifyAssumption ==
  /\ {Worker, Poller} \subseteq Senders
  /\ Worker # Poller
  /\ QueueMax \in Nat \ {0}
  /\ MaxRetry \in Nat
  /\ MaxNotes \in Nat
  /\ None \notin Senders \cup Chats

VARIABLES
  notes,   \* the calls of notify so far; a message is the number of its call
  queue,   \* _notify_queue
  lock,    \* the sender that holds _send_lock
  recent,  \* chats whose last send is less than the interval ago
  sender   \* the local state of each sender

notifyVars == <<notes, queue, lock, recent, sender>>

\* pc: waiting for the lock, asleep in _throttle, its sleep over, in the thread
\* that sends, or backing off after a 429.
SenderStates == [pc : {"idle", "lock", "asleep", "awake", "send", "backoff"},
                 chat : Chats \cup {None}, attempt : 0 .. MaxRetry]
Quiet == [pc |-> "idle", chat |-> None, attempt |-> 0]

NotifyInit ==
  /\ notes = 0
  /\ queue = <<>>
  /\ lock = None
  /\ recent = {}
  /\ sender = [s \in Senders |-> Quiet]

\* When the queue is full the oldest message goes.
Enqueue(q, m) == Append(IF Len(q) = QueueMax THEN Tail(q) ELSE q, m)

Notify ==
  /\ notes < MaxNotes
  /\ notes' = notes + 1
  /\ \E c \in Chats : queue' = Enqueue(queue, [note |-> notes + 1, chat |-> c])
  /\ UNCHANGED <<lock, recent, sender>>

\* The worker takes the next message.
Take ==
  /\ sender[Worker].pc = "idle"
  /\ queue # <<>>
  /\ queue' = Tail(queue)
  /\ sender' = [sender EXCEPT ![Worker] = [Quiet EXCEPT !.pc = "lock", !.chat = Head(queue).chat]]
  /\ UNCHANGED <<notes, lock, recent>>

\* A handler of the dashboard sends a keyboard or the test message.
WebSend(s) ==
  /\ s \notin {Worker, Poller}
  /\ sender[s].pc = "idle"
  /\ \E c \in Chats :
       sender' = [sender EXCEPT ![s] = [Quiet EXCEPT !.pc = "lock", !.chat = c]]
  /\ UNCHANGED <<notes, queue, lock, recent>>

\* mutant: the lock is not taken.
AcquireUnlocked(s) ==
  /\ sender[s].pc = "lock"
  /\ sender' = [sender EXCEPT ![s].pc = IF sender[s].chat \in recent THEN "asleep" ELSE "send"]
  /\ recent' = recent \cup {sender[s].chat}
  /\ lock' = s
  /\ UNCHANGED <<notes, queue>>

\* The lock is free: a chat that got a message lately makes the sender sleep.
Acquire(s) ==
  /\ sender[s].pc = "lock"
  /\ lock = None
  /\ lock' = s
  /\ sender' = [sender EXCEPT ![s].pc = IF sender[s].chat \in recent THEN "asleep" ELSE "send"]
  /\ recent' = recent \cup {sender[s].chat}
  /\ UNCHANGED <<notes, queue>>

\* Time passes: the interval of a chat is over, and so are the sleeps for it.
Pass(c) ==
  /\ c \in recent
  /\ recent' = recent \ {c}
  /\ sender' = [s \in Senders |->
                  IF sender[s].pc = "asleep" /\ sender[s].chat = c
                  THEN [sender[s] EXCEPT !.pc = "awake"] ELSE sender[s]]
  /\ UNCHANGED <<notes, queue, lock>>

\* After its sleep the sender does not look at the clock of the chat again.
Resume(s) ==
  /\ sender[s].pc = "awake"
  /\ sender' = [sender EXCEPT ![s].pc = "send"]
  /\ recent' = recent \cup {sender[s].chat}
  /\ UNCHANGED <<notes, queue, lock>>

\* Sent, or given up: a refusal that is no 429, or one too many.
Sent(s) ==
  /\ sender[s].pc = "send"
  /\ sender' = [sender EXCEPT ![s] = Quiet]
  /\ lock' = None
  /\ UNCHANGED <<notes, queue, recent>>

\* A 429 makes the sender wait without the lock, and send again.
TooMany(s) ==
  /\ sender[s].pc = "send"
  /\ sender[s].attempt < MaxRetry
  /\ sender' = [sender EXCEPT ![s].pc = "backoff", ![s].attempt = @ + 1]
  /\ lock' = None
  /\ UNCHANGED <<notes, queue, recent>>

Again(s) ==
  /\ sender[s].pc = "backoff"
  /\ sender' = [sender EXCEPT ![s].pc = "lock"]
  /\ UNCHANGED <<notes, queue, lock, recent>>

NotifyNext ==
  \/ Notify \/ Take
  \/ \E s \in Senders :
       WebSend(s) \/ Acquire(s) \/ Resume(s) \/ Sent(s) \/ TooMany(s) \/ Again(s)
  \/ \E c \in Chats : Pass(c)

-----------------------------------------------------------------------------
NotifyTypeOK ==
  /\ notes \in 0 .. MaxNotes
  /\ Len(queue) <= QueueMax
  /\ \A i \in DOMAIN queue : queue[i] \in [note : 1 .. MaxNotes, chat : Chats]
  /\ lock \in Senders \cup {None}
  /\ recent \subseteq Chats
  /\ sender \in [Senders -> SenderStates]

\* No message is sent to a chat before the interval since the last one is over,
\* whichever tasks send them, and whatever they waited for.  (A start of the server
\* forgets the sends before it, so the first send after one is not looked at; the
\* spacing between sends to different chats is left out.)
ThrottleIsKept ==
  [][\A s \in Senders : sender[s].pc # "send" /\ sender'[s].pc = "send"
        => sender[s].chat \notin recent]_notifyVars
=============================================================================
