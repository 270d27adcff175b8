---------------------- MODULE TelegramCommandsProofs ----------------------
(***************************************************************************)
(* Proofs about TelegramCommands, for any senders, chats and accounts.     *)
(* That no chat gets messages too fast needs who holds the lock; that no   *)
(* command is lost or repeated without a restart, what the poller has gone *)
(* through and tried up to its place in the batch; that a command trades   *)
(* for its chat, that the accounts the poller knows are as configured      *)
(* unless one changed during the round.                                    *)
(***************************************************************************)
EXTENDS TelegramCommands, SequenceTheorems, TLAPS

TelegramAssumption == NotifyAssumption /\ CommandsAssumption

\* Who is in the throttle or sends has the lock; a chat it slept for is free when its
\* sleep is over.
Messages == [note : 1 .. MaxNotes, chat : Chats]
SendersRight ==
  /\ \A s \in Senders : sender[s].pc # "idle" => sender[s].chat \in Chats
  /\ \A s \in Senders : sender[s].pc \in {"asleep", "awake", "send"} => lock = s
  /\ \A s \in Senders : sender[s].pc = "awake" => sender[s].chat \notin recent
SendInv == NotifyTypeOK /\ queue \in Seq(Messages) /\ SendersRight

\* Sender s gets the local state x.
LEMMA SenderMoves ==
  ASSUME SendInv, NEW s \in Senders, NEW x \in SenderStates,
         sender' = [sender EXCEPT ![s] = x],
         x.pc # "idle" => x.chat \in Chats,
         x.pc \in {"asleep", "awake", "send"} => lock' = s,
         x.pc = "awake" => x.chat \notin recent',
         \A u \in Senders \ {s} : lock = u => lock' = u,
         recent' \subseteq Chats,
         recent' \subseteq recent \/ \A u \in Senders \ {s} : lock # u
  PROVE  SendersRight' /\ sender' \in [Senders -> SenderStates]
<1>1. sender \in [Senders -> SenderStates]
  BY DEF SendInv, NotifyTypeOK
<1>2. sender'[s] = x /\ \A u \in Senders \ {s} : sender'[u] = sender[u]
  BY <1>1
<1>3. \A u \in Senders \ {s} : sender[u].pc = "awake" => sender[u].chat \notin recent'
  BY DEF SendInv, SendersRight
<1> QED
  BY <1>1, <1>2, <1>3 DEF SendInv, SendersRight

LEMMA SendJoin ==
  ASSUME notes' \in 0 .. MaxNotes, queue' \in Seq(Messages), Len(queue') <= QueueMax,
         lock' \in Senders \cup {None}, recent' \subseteq Chats,
         SendersRight' /\ sender' \in [Senders -> SenderStates]
  PROVE  SendInv'
<1>1. \A i \in DOMAIN queue' : queue'[i] \in Messages
  OBVIOUS
<1> QED
  BY <1>1 DEF SendInv, NotifyTypeOK, Messages

LEMMA NotifySends ==
  ASSUME TelegramAssumption, SendInv, Notify
  PROVE  SendInv'
<1>1. /\ notes \in 0 .. MaxNotes /\ notes < MaxNotes /\ notes' = notes + 1 /\ MaxNotes \in Nat
      /\ queue \in Seq(Messages) /\ Len(queue) <= QueueMax /\ QueueMax \in Nat \ {0}
      /\ UNCHANGED <<lock, recent, sender>>
  BY DEF SendInv, NotifyTypeOK, Notify, TelegramAssumption, NotifyAssumption
<1>2. PICK c \in Chats : queue' = Enqueue(queue, [note |-> notes + 1, chat |-> c])
  BY DEF Notify
<1>3. PICK m \in Messages : m = [note |-> notes + 1, chat |-> c]
  <2>1. notes + 1 \in 1 .. MaxNotes
    BY <1>1
  <2> QED
    BY <2>1 DEF Messages
<1>4. PICK q \in Seq(Messages) : q = (IF Len(queue) = QueueMax THEN Tail(queue) ELSE queue)
                                 /\ Len(q) < QueueMax
  <2>1. CASE Len(queue) = QueueMax
    <3>1. queue # <<>>
      BY <1>1, <2>1
    <3>2. Tail(queue) \in Seq(Messages) /\ Len(Tail(queue)) = Len(queue) - 1
      BY <1>1, <3>1
    <3>3. Len(Tail(queue)) < QueueMax
      BY <1>1, <2>1, <3>2
    <3> QED
      BY <2>1, <3>2, <3>3
  <2>2. CASE Len(queue) # QueueMax
    BY <1>1, <2>2
  <2> QED
    BY <2>1, <2>2
<1>5. queue' = Append(q, m)
  BY <1>2, <1>3, <1>4 DEF Enqueue
<1>6. queue' \in Seq(Messages) /\ Len(queue') <= QueueMax
  BY <1>1, <1>4, <1>5
<1>7. notes' \in 0 .. MaxNotes
  BY <1>1
<1>8. SendersRight' /\ sender' \in [Senders -> SenderStates] /\ lock' \in Senders \cup {None}
      /\ recent' \subseteq Chats
  BY <1>1 DEF SendInv, SendersRight, NotifyTypeOK
<1> QED
  BY <1>6, <1>7, <1>8, SendJoin

LEMMA QuietState ==
  ASSUME TelegramAssumption
  PROVE  Quiet \in SenderStates /\ Quiet.pc = "idle"
  BY DEF Quiet, SenderStates, TelegramAssumption, NotifyAssumption

\* A sender that is quiet, or the poller, starts to send to a chat.
LEMMA SendStarts ==
  ASSUME TelegramAssumption, SendInv, NEW s \in Senders, NEW c \in Chats,
         sender' = [sender EXCEPT ![s] = [Quiet EXCEPT !.pc = "lock", !.chat = c]],
         UNCHANGED <<notes, lock, recent>>, queue' \in Seq(Messages), Len(queue') <= QueueMax
  PROVE  SendInv'
<1>1. PICK x : x = [Quiet EXCEPT !.pc = "lock", !.chat = c]
  OBVIOUS
<1>2. x \in SenderStates /\ x.pc = "lock" /\ x.chat = c
  BY <1>1, QuietState DEF SenderStates
<1>3. /\ notes' \in 0 .. MaxNotes /\ lock' \in Senders \cup {None} /\ recent' \subseteq Chats
  BY DEF SendInv, NotifyTypeOK
<1>4. SendersRight' /\ sender' \in [Senders -> SenderStates]
  BY <1>1, <1>2, <1>3, SenderMoves
<1> QED
  BY <1>3, <1>4, SendJoin

LEMMA TakeSends ==
  ASSUME TelegramAssumption, SendInv, Take
  PROVE  SendInv'
<1>1. /\ queue \in Seq(Messages) /\ queue # <<>> /\ Len(queue) <= QueueMax /\ queue' = Tail(queue)
      /\ QueueMax \in Nat /\ Worker \in Senders /\ UNCHANGED <<notes, lock, recent>>
  BY DEF SendInv, NotifyTypeOK, Take, TelegramAssumption, NotifyAssumption
<1>2. queue' \in Seq(Messages) /\ Len(queue') <= QueueMax /\ Head(queue) \in Messages
  BY <1>1
<1>3. PICK c \in Chats : c = Head(queue).chat
  BY <1>2 DEF Messages
<1> QED
  BY <1>1, <1>2, <1>3, SendStarts DEF Take

\* One sender moves on.
LEMMA SenderSteps ==
  ASSUME TelegramAssumption, SendInv, NEW s \in Senders,
         Acquire(s) \/ Resume(s) \/ Sent(s) \/ TooMany(s) \/ Again(s)
  PROVE  SendInv'
<1>1. /\ sender \in [Senders -> SenderStates] /\ sender[s] \in SenderStates
      /\ notes' \in 0 .. MaxNotes /\ queue' \in Seq(Messages) /\ Len(queue') <= QueueMax
      /\ lock \in Senders \cup {None} /\ recent \subseteq Chats /\ None \notin Senders
  BY DEF SendInv, NotifyTypeOK, Acquire, Resume, Sent, TooMany, Again,
         TelegramAssumption, NotifyAssumption
<1>2. sender[s].pc # "idle" => sender[s].chat \in Chats
  BY DEF SendInv, SendersRight
<1>3. CASE Acquire(s)
  <2>1. PICK x : x = [sender[s] EXCEPT !.pc = IF sender[s].chat \in recent THEN "asleep" ELSE "send"]
    OBVIOUS
  <2>2. x \in SenderStates /\ x.pc \in {"asleep", "send"} /\ x.chat = sender[s].chat
    BY <1>1, <2>1 DEF SenderStates
  <2>3. /\ sender' = [sender EXCEPT ![s] = x] /\ lock = None /\ lock' = s
        /\ sender[s].chat \in Chats /\ recent' = recent \cup {sender[s].chat}
    BY <1>1, <1>2, <1>3, <2>1 DEF Acquire
  <2>4. SendersRight' /\ sender' \in [Senders -> SenderStates]
    BY <1>1, <2>2, <2>3, SenderMoves
  <2> QED
    BY <1>1, <2>3, <2>4, SendJoin
<1>4. CASE Resume(s)
  <2>1. PICK x : x = [sender[s] EXCEPT !.pc = "send"]
    OBVIOUS
  <2>2. x \in SenderStates /\ x.pc = "send" /\ x.chat = sender[s].chat
    BY <1>1, <2>1 DEF SenderStates
  <2>3. /\ sender' = [sender EXCEPT ![s] = x] /\ lock = s /\ UNCHANGED lock
        /\ sender[s].chat \in Chats /\ recent' = recent \cup {sender[s].chat}
    BY <1>1, <1>2, <1>4, <2>1 DEF Resume, SendInv, SendersRight
  <2>4. SendersRight' /\ sender' \in [Senders -> SenderStates]
    BY <1>1, <2>2, <2>3, SenderMoves
  <2> QED
    BY <1>1, <2>3, <2>4, SendJoin
<1>5. CASE Sent(s) \/ TooMany(s) \/ Again(s)
  <2>1. PICK x \in SenderStates :
          /\ sender' = [sender EXCEPT ![s] = x]
          /\ x.pc = "idle" \/ (x.pc \in {"backoff", "lock"} /\ x.chat = sender[s].chat)
    <3>1. CASE Sent(s)
      BY <3>1, QuietState DEF Sent
    <3>2. CASE TooMany(s)
      <4>1. PICK n \in Nat : n = sender[s].attempt /\ n < MaxRetry
        BY <1>1, <3>2 DEF TooMany, SenderStates
      <4>2. n + 1 \in 0 .. MaxRetry
        BY <4>1 DEF TelegramAssumption, NotifyAssumption
      <4>3. PICK x : x = [sender[s] EXCEPT !.pc = "backoff", !.attempt = n + 1]
        OBVIOUS
      <4>4. x \in SenderStates /\ x.pc = "backoff" /\ x.chat = sender[s].chat
        BY <1>1, <4>2, <4>3 DEF SenderStates
      <4>5. sender' = [sender EXCEPT ![s] = x]
        BY <1>1, <3>2, <4>1, <4>3 DEF TooMany, SenderStates
      <4> QED
        BY <4>4, <4>5
    <3>3. CASE Again(s)
      <4>1. PICK x : x = [sender[s] EXCEPT !.pc = "lock"]
        OBVIOUS
      <4>2. x \in SenderStates /\ x.pc = "lock" /\ x.chat = sender[s].chat
        BY <1>1, <4>1 DEF SenderStates
      <4>3. sender' = [sender EXCEPT ![s] = x]
        BY <1>1, <3>3, <4>1 DEF Again
      <4> QED
        BY <4>2, <4>3
    <3> QED
      BY <1>5, <3>1, <3>2, <3>3
  <2>2. /\ recent' = recent /\ lock' \in {lock, None} /\ sender[s].pc # "idle"
        /\ \A u \in Senders \ {s} : lock = u => lock' = u
    <3>1. sender[s].pc = "send" => lock = s
      BY DEF SendInv, SendersRight
    <3> QED
      BY <1>1, <1>5, <3>1 DEF Sent, TooMany, Again
  <2>3. SendersRight' /\ sender' \in [Senders -> SenderStates]
    BY <1>1, <1>2, <2>1, <2>2, SenderMoves
  <2>4. lock' \in Senders \cup {None} /\ recent' \subseteq Chats
    BY <1>1, <2>2
  <2> QED
    BY <1>1, <2>3, <2>4, SendJoin
<1> QED
  BY <1>3, <1>4, <1>5

LEMMA PassSends ==
  ASSUME TelegramAssumption, SendInv, NEW c \in Chats, Pass(c)
  PROVE  SendInv'
<1>1. /\ sender \in [Senders -> SenderStates] /\ SendersRight
      /\ recent' = recent \ {c} /\ UNCHANGED <<notes, queue, lock>>
      /\ sender' = [s \in Senders |-> IF sender[s].pc = "asleep" /\ sender[s].chat = c
                                      THEN [sender[s] EXCEPT !.pc = "awake"] ELSE sender[s]]
  BY DEF SendInv, NotifyTypeOK, Pass
<1>2. ASSUME NEW s \in Senders
      PROVE  /\ sender'[s] \in SenderStates /\ sender'[s].chat = sender[s].chat
             /\ \/ sender'[s] = sender[s]
                \/ sender[s].pc = "asleep" /\ sender[s].chat = c /\ sender'[s].pc = "awake"
  <2>1. sender[s] \in SenderStates
    BY <1>1
  <2>2. PICK x : x = [sender[s] EXCEPT !.pc = "awake"]
    OBVIOUS
  <2>3. x \in SenderStates /\ x.pc = "awake" /\ x.chat = sender[s].chat
    BY <2>1, <2>2 DEF SenderStates
  <2>4. sender'[s] = IF sender[s].pc = "asleep" /\ sender[s].chat = c THEN x ELSE sender[s]
    BY <1>1, <2>2
  <2> QED
    BY <2>1, <2>3, <2>4
<1>3. SendersRight'
  BY <1>1, <1>2 DEF SendersRight
<1>4. sender' \in [Senders -> SenderStates]
  BY <1>1, <1>2
<1> QED
  BY <1>1, <1>3, <1>4, SendJoin DEF SendInv, NotifyTypeOK

LEMMA SenderLoop ==
  ASSUME TelegramAssumption, SendInv, NotifyNext
  PROVE  SendInv'
<1>1. CASE \E s \in Senders : WebSend(s)
  <2>1. PICK s \in Senders, c \in Chats :
          /\ sender' = [sender EXCEPT ![s] = [Quiet EXCEPT !.pc = "lock", !.chat = c]]
          /\ UNCHANGED <<notes, queue, lock, recent>>
    BY <1>1 DEF WebSend
  <2> QED
    BY <2>1, SendStarts DEF SendInv, NotifyTypeOK
<1>2. CASE \E s \in Senders : Acquire(s) \/ Resume(s) \/ Sent(s) \/ TooMany(s) \/ Again(s)
  BY <1>2, SenderSteps
<1>3. CASE \E c \in Chats : Pass(c)
  BY <1>3, PassSends
<1> QED
  BY <1>1, <1>2, <1>3, NotifySends, TakeSends DEF NotifyNext

\* Where the poller is in its batch: the offsets and the batch end among the updates;
\* what it carries out comes from a configured chat; what it knows of the accounts is
\* stale only if one changed.
PollTypes ==
  /\ config \in [Accounts -> Chats \cup {None}]
  /\ updates \in Seq(Chats \cup Strangers) /\ Len(updates) <= MaxUpdates
  /\ forgotten \in 0 .. MaxUpdates /\ offset \in 0 .. MaxUpdates /\ poll \in PollStates
  /\ tried \in [1 .. MaxUpdates -> Nat] /\ answered \subseteq 1 .. MaxUpdates
  /\ changed \in BOOLEAN /\ restarts \in 0 .. MaxRestarts
InBatch == poll.pc \in {"batch", "order", "reply"}
PollRight ==
  /\ offset <= Len(updates) /\ forgotten <= Len(updates) /\ poll.last <= Len(updates)
  /\ InBatch => poll.next <= poll.last + 1
  /\ poll.pc \in {"order", "reply"} => poll.next <= poll.last /\ updates[poll.next] \in Chats
  /\ poll.pc # "asleep" /\ ~changed => poll.configs = config

\* What is done, forgotten or before the poller's place was gone through.
GoneThrough ==
  \A u \in 1 .. MaxUpdates :
    u <= offset \/ u <= forgotten \/ (InBatch /\ u < poll.next) => u \in answered

\* What lies ahead was tried only before restarts.
Ahead(u) ==
  \/ poll.pc \in {"asleep", "ask"} /\ u > offset /\ u > forgotten
  \/ poll.pc = "batch" /\ u >= poll.next
  \/ poll.pc \in {"order", "reply"} /\ u > poll.next
TriesRight ==
  \A u \in 1 .. MaxUpdates : tried[u] <= 1 + restarts /\ (Ahead(u) => tried[u] <= restarts)

PollInv == PollTypes /\ PollRight /\ GoneThrough /\ TriesRight

LEMMA PollNumbers ==
  ASSUME TelegramAssumption, PollInv
  PROVE  /\ MaxUpdates \in Nat /\ MaxRestarts \in Nat /\ restarts \in Nat
         /\ offset \in Nat /\ forgotten \in Nat /\ Len(updates) \in Nat /\ Len(updates) <= MaxUpdates
         /\ poll \in PollStates /\ poll.next \in Nat /\ poll.next \in 1 .. MaxUpdates + 1
         /\ poll.last \in Nat /\ poll.last \in 0 .. MaxUpdates /\ poll.last <= Len(updates)
         /\ \A u \in 1 .. MaxUpdates : u \in Nat /\ tried[u] \in Nat
<1>1. MaxUpdates \in Nat /\ MaxRestarts \in Nat
  BY DEF TelegramAssumption, CommandsAssumption
<1>2. poll.next \in 1 .. MaxUpdates + 1 /\ poll.last \in 0 .. MaxUpdates /\ poll \in PollStates
  BY DEF PollInv, PollTypes, PollStates
<1>3. /\ updates \in Seq(Chats \cup Strangers) /\ Len(updates) <= MaxUpdates
      /\ forgotten \in 0 .. MaxUpdates /\ offset \in 0 .. MaxUpdates
      /\ tried \in [1 .. MaxUpdates -> Nat] /\ restarts \in 0 .. MaxRestarts
  BY DEF PollInv, PollTypes
<1>4. Len(updates) \in Nat
  BY <1>3
<1>5. poll.last <= Len(updates)
  BY DEF PollInv, PollRight
<1>6. restarts \in Nat /\ offset \in Nat /\ forgotten \in Nat /\ poll.next \in Nat /\ poll.last \in Nat
  BY <1>1, <1>2, <1>3
<1>7. \A u \in 1 .. MaxUpdates : u \in Nat /\ tried[u] \in Nat
  BY <1>1, <1>3
<1> QED
  BY <1>1, <1>2, <1>3, <1>4, <1>5, <1>6, <1>7

LEMMA AsleepState ==
  ASSUME TelegramAssumption
  PROVE  Asleep \in PollStates /\ Asleep.pc = "asleep" /\ Asleep.last = 0 /\ Asleep.next = 1
<1>1. MaxUpdates \in Nat
  BY DEF TelegramAssumption, CommandsAssumption
<1>2. 1 \in 1 .. MaxUpdates + 1 /\ 0 \in 0 .. MaxUpdates
  BY <1>1
<1> QED
  BY <1>2 DEF Asleep, PollStates

\* Only users and their settings move.
LEMMA CommandPolls ==
  ASSUME TelegramAssumption, PollInv, NEW c \in Chats \cup Strangers, Command(c)
  PROVE  PollInv'
<1>1. /\ updates \in Seq(Chats \cup Strangers) /\ Len(updates) < MaxUpdates
      /\ updates' = Append(updates, c)
      /\ UNCHANGED <<config, forgotten, offset, poll, tried, answered, changed, restarts>>
  BY DEF PollInv, PollTypes, Command
<1>2. /\ updates' \in Seq(Chats \cup Strangers) /\ Len(updates') = Len(updates) + 1
      /\ \A i \in 1 .. Len(updates) : updates'[i] = updates[i]
  BY <1>1
<1>3. PollTypes'
  <2>1. Len(updates') <= MaxUpdates
    BY <1>1, <1>2, PollNumbers
  <2> QED
    BY <1>1, <1>2, <2>1 DEF PollInv, PollTypes
<1>4. PollRight'
  <2>1. offset <= Len(updates') /\ forgotten <= Len(updates') /\ poll.last <= Len(updates')
    BY <1>2, PollNumbers DEF PollInv, PollRight
  <2>2. poll.pc \in {"order", "reply"} => updates'[poll.next] \in Chats
    <3>1. poll.pc \in {"order", "reply"} => poll.next \in 1 .. Len(updates)
      BY PollNumbers DEF PollInv, PollRight
    <3> QED
      BY <1>2, <3>1 DEF PollInv, PollRight
  <2> QED
    BY <1>1, <2>1, <2>2 DEF PollInv, PollRight, InBatch
<1>5. GoneThrough' /\ TriesRight'
  BY <1>1 DEF PollInv, GoneThrough, TriesRight, InBatch, Ahead
<1> QED
  BY <1>3, <1>4, <1>5 DEF PollInv

LEMMA SettingsPoll ==
  ASSUME TelegramAssumption, PollInv, NEW a \in Accounts,
         (\E c \in Chats : SetTelegram(a, c)) \/ DeleteTelegram(a)
  PROVE  PollInv'
<1>1. /\ UNCHANGED <<updates, forgotten, offset, poll, tried, answered, restarts>>
      /\ changed' = (changed \/ poll.pc # "asleep")
      /\ \E c \in Chats \cup {None} : config' = [config EXCEPT ![a] = c]
  BY DEF SetTelegram, DeleteTelegram
<1>2. PollTypes'
  BY <1>1 DEF PollInv, PollTypes
<1>3. poll'.pc # "asleep" => changed'
  BY <1>1
<1>4. PollRight'
  BY <1>1, <1>3 DEF PollInv, PollRight, InBatch
<1>5. GoneThrough' /\ TriesRight'
  BY <1>1 DEF PollInv, GoneThrough, TriesRight, InBatch, Ahead
<1> QED
  BY <1>2, <1>4, <1>5 DEF PollInv

LEMMA RoundPolls ==
  ASSUME TelegramAssumption, PollInv, Round
  PROVE  PollInv'
<1>1. /\ poll.pc = "asleep" /\ changed' = FALSE
      /\ poll' = [Asleep EXCEPT !.pc = "ask", !.configs = config]
      /\ UNCHANGED <<config, updates, forgotten, offset, tried, answered, restarts>>
      /\ config \in [Accounts -> Chats \cup {None}]
  BY DEF Round, PollInv, PollTypes
<1>2. poll' \in PollStates /\ poll'.pc = "ask" /\ poll'.configs = config /\ poll'.last = 0
  BY <1>1, AsleepState DEF PollStates
<1>3. PollTypes'
  BY <1>1, <1>2 DEF PollInv, PollTypes
<1>4. PollRight'
  BY <1>1, <1>2, PollNumbers DEF PollInv, PollRight, InBatch
<1>5. GoneThrough' /\ TriesRight'
  BY <1>1, <1>2 DEF PollInv, GoneThrough, TriesRight, InBatch, Ahead
<1> QED
  BY <1>3, <1>4, <1>5 DEF PollInv

LEMMA AnsweredPolls ==
  ASSUME TelegramAssumption, PollInv, Answered
  PROVE  PollInv'
<1>1. PICK from \in Nat : from = IF offset > forgotten THEN offset ELSE forgotten
  BY PollNumbers
<1>2. /\ poll.pc = "ask" /\ forgotten' = from
      /\ poll' = [poll EXCEPT !.pc = "batch", !.next = from + 1, !.last = Len(updates)]
      /\ UNCHANGED <<config, updates, offset, tried, answered, changed, restarts>>
  BY <1>1 DEF Answered
<1>3. from <= Len(updates) /\ offset <= from /\ forgotten <= from
  BY <1>1, PollNumbers DEF PollInv, PollRight
<1>4. from \in 0 .. MaxUpdates /\ from + 1 \in 1 .. MaxUpdates + 1 /\ Len(updates) \in 0 .. MaxUpdates
  BY <1>1, <1>3, PollNumbers
<1>5. /\ poll' \in PollStates /\ poll'.pc = "batch" /\ poll'.next = from + 1
      /\ poll'.last = Len(updates) /\ poll'.configs = poll.configs
  BY <1>2, <1>4, PollNumbers DEF PollStates
<1>6. PollTypes'
  BY <1>2, <1>4, <1>5 DEF PollInv, PollTypes
<1>7. PollRight'
  <2>1. from + 1 <= Len(updates) + 1 /\ Len(updates) <= Len(updates)
    BY <1>1, <1>3, PollNumbers
  <2> QED
    BY <1>2, <1>3, <1>5, <2>1 DEF PollInv, PollRight, InBatch
<1>8. GoneThrough'
  <2>1. ASSUME NEW u \in 1 .. MaxUpdates, u <= offset \/ u <= from \/ u < from + 1
        PROVE  u <= offset \/ u <= forgotten
    BY <1>1, <2>1, PollNumbers
  <2> QED
    BY <1>2, <1>5, <2>1 DEF PollInv, GoneThrough, InBatch
<1>9. TriesRight'
  <2>1. ASSUME NEW u \in 1 .. MaxUpdates, u >= from + 1 PROVE u > offset /\ u > forgotten
    BY <1>1, <2>1, PollNumbers
  <2> QED
    BY <1>2, <1>5, <2>1 DEF PollInv, TriesRight, Ahead
<1> QED
  BY <1>6, <1>7, <1>8, <1>9 DEF PollInv

LEMMA AskFailsPolls ==
  ASSUME TelegramAssumption, PollInv, AskFails
  PROVE  PollInv'
<1>1. /\ poll.pc = "ask" /\ poll' = Asleep
      /\ forgotten' \in {forgotten, IF offset > forgotten THEN offset ELSE forgotten}
      /\ UNCHANGED <<config, updates, offset, tried, answered, changed, restarts>>
  BY DEF AskFails
<1>2. /\ forgotten' \in Nat /\ forgotten <= forgotten' /\ forgotten' \in {forgotten, offset}
      /\ forgotten' <= Len(updates) /\ forgotten' \in 0 .. MaxUpdates
  BY <1>1, PollNumbers DEF PollInv, PollRight
<1>3. poll' \in PollStates /\ poll'.pc = "asleep" /\ poll'.last = 0
  BY <1>1, AsleepState
<1>4. PollTypes'
  BY <1>1, <1>2, <1>3 DEF PollInv, PollTypes
<1>5. PollRight'
  BY <1>1, <1>2, <1>3, PollNumbers DEF PollInv, PollRight, InBatch
<1>6. GoneThrough'
  BY <1>1, <1>2, <1>3 DEF PollInv, GoneThrough, InBatch
<1>7. TriesRight'
  <2>1. ASSUME NEW u \in 1 .. MaxUpdates, u > forgotten' PROVE u > forgotten
    BY <1>2, <2>1, PollNumbers
  <2> QED
    BY <1>1, <1>3, <2>1 DEF PollInv, TriesRight, Ahead
<1> QED
  BY <1>4, <1>5, <1>6, <1>7 DEF PollInv

\* The poller has gone through an update.
LEMMA PollAdvances ==
  ASSUME TelegramAssumption, PollInv, InBatch, poll.next <= poll.last,
         poll' = [poll EXCEPT !.pc = "batch", !.next = poll.next + 1],
         answered' = answered \cup {poll.next},
         UNCHANGED <<config, updates, forgotten, offset, tried, changed, restarts>>
  PROVE  PollInv'
<1>1. PICK n \in Nat : n = poll.next /\ n \in 1 .. MaxUpdates /\ n + 1 \in 1 .. MaxUpdates + 1
  BY PollNumbers
<1>2. /\ poll' \in PollStates /\ poll'.pc = "batch" /\ poll'.next = n + 1
      /\ poll'.last = poll.last /\ poll'.configs = poll.configs
  BY <1>1, PollNumbers DEF PollStates
<1>3. PollTypes'
  BY <1>1, <1>2 DEF PollInv, PollTypes
<1>4. PollRight'
  <2>1. n + 1 <= poll.last + 1
    BY <1>1, PollNumbers
  <2> QED
    BY <1>2, <2>1 DEF PollInv, PollRight, InBatch
<1>5. GoneThrough'
  <2>1. \A u \in 1 .. MaxUpdates : u < n + 1 => u < n \/ u = n
    BY <1>1, PollNumbers
  <2> QED
    BY <1>1, <1>2, <2>1 DEF PollInv, GoneThrough, InBatch
<1>6. TriesRight'
  <2>1. \A u \in 1 .. MaxUpdates : u >= n + 1 => u >= n /\ u > n
    BY <1>1, PollNumbers
  <2> QED
    BY <1>1, <1>2, <2>1 DEF PollInv, TriesRight, Ahead, InBatch
<1> QED
  BY <1>3, <1>4, <1>5, <1>6 DEF PollInv

\* The poller awaits an order, or its reply, for the update it is at.
LEMMA PollAwaits ==
  ASSUME TelegramAssumption, PollInv, NEW pc \in {"order", "reply"}, InBatch, poll.next <= poll.last,
         updates[poll.next] \in Chats, poll' = [poll EXCEPT !.pc = pc],
         \/ UNCHANGED tried
         \/ poll.pc = "batch" /\ tried' = [tried EXCEPT ![poll.next] = tried[poll.next] + 1],
         UNCHANGED <<config, updates, forgotten, offset, answered, changed, restarts>>
  PROVE  PollInv'
<1>1. PICK n \in Nat : n = poll.next /\ n \in 1 .. MaxUpdates
  BY PollNumbers
<1>2. /\ poll' \in PollStates /\ poll'.pc = pc /\ poll'.next = n
      /\ poll'.last = poll.last /\ poll'.configs = poll.configs
  BY <1>1, PollNumbers DEF PollStates
<1>3. tried \in [1 .. MaxUpdates -> Nat] /\ restarts \in Nat
  BY PollNumbers DEF PollInv, PollTypes
<1>4. /\ tried' \in [1 .. MaxUpdates -> Nat] /\ \A u \in 1 .. MaxUpdates \ {n} : tried'[u] = tried[u]
      /\ UNCHANGED tried \/ (poll.pc = "batch" /\ tried'[n] = tried[n] + 1)
  <2>1. CASE UNCHANGED tried
    BY <1>3, <2>1
  <2>2. CASE poll.pc = "batch" /\ tried' = [tried EXCEPT ![poll.next] = tried[poll.next] + 1]
    <3>1. PICK k \in Nat : k = tried[n] + 1
      BY <1>1, <1>3
    <3>2. tried' = [tried EXCEPT ![n] = k] /\ poll.pc = "batch"
      BY <1>1, <2>2, <3>1
    <3> QED
      BY <1>1, <1>3, <3>1, <3>2
  <2> QED
    BY <2>1, <2>2
<1>5. PollTypes'
  BY <1>2, <1>4 DEF PollInv, PollTypes
<1>6. PollRight'
  BY <1>1, <1>2 DEF PollInv, PollRight, InBatch
<1>7. GoneThrough'
  BY <1>1, <1>2 DEF PollInv, GoneThrough, InBatch
<1>8. TriesRight'
  <2>1. ASSUME NEW u \in 1 .. MaxUpdates
        PROVE  tried'[u] <= 1 + restarts /\ (u > n => tried'[u] <= restarts)
    <3>1. CASE u = n
      <4>1. n >= n /\ ~(n > n)
        BY <1>1
      <4>2. tried[n] <= 1 + restarts /\ (poll.pc = "batch" => tried[n] <= restarts)
        BY <1>1, <4>1 DEF PollInv, TriesRight, Ahead
      <4> QED
        BY <1>1, <1>3, <1>4, <3>1, <4>1, <4>2
    <3>2. CASE u # n
      <4>1. u > n => u >= n
        BY <1>1, PollNumbers
      <4>2. u > n => Ahead(u)
        BY <1>1, <4>1 DEF Ahead, InBatch
      <4> QED
        BY <1>4, <3>2, <4>2 DEF PollInv, TriesRight
    <3> QED
      BY <3>1, <3>2
  <2> QED
    BY <1>2, <2>1 DEF TriesRight, Ahead
<1> QED
  BY <1>5, <1>6, <1>7, <1>8 DEF PollInv

LEMMA BatchEndsPolls ==
  ASSUME TelegramAssumption, PollInv, BatchEnds
  PROVE  PollInv'
<1>1. /\ poll.pc = "batch" /\ poll.next > poll.last /\ poll' = Asleep
      /\ offset' = IF poll.last > offset THEN poll.last ELSE offset
      /\ UNCHANGED <<config, updates, forgotten, tried, answered, changed, restarts>>
  BY DEF BatchEnds
<1>2. poll' \in PollStates /\ poll'.pc = "asleep" /\ poll'.last = 0
  BY <1>1, AsleepState
<1>3. poll.next = poll.last + 1
  BY <1>1, PollNumbers DEF PollInv, PollRight, InBatch
<1>4. /\ offset' \in Nat /\ offset' <= Len(updates) /\ offset' \in 0 .. MaxUpdates
      /\ poll.last <= offset' /\ offset' \in {offset, poll.last}
  BY <1>1, PollNumbers DEF PollInv, PollRight
<1>5. PollTypes'
  BY <1>1, <1>2, <1>4 DEF PollInv, PollTypes
<1>6. PollRight'
  BY <1>1, <1>2, <1>4, PollNumbers DEF PollInv, PollRight, InBatch
<1>7. GoneThrough'
  <2>1. \A u \in 1 .. MaxUpdates : u <= offset' => u <= offset \/ u < poll.next
    BY <1>3, <1>4, PollNumbers
  <2> QED
    BY <1>1, <1>2, <2>1 DEF PollInv, GoneThrough, InBatch
<1>8. TriesRight'
  <2>1. \A u \in 1 .. MaxUpdates : u > offset' => u >= poll.next
    BY <1>3, <1>4, PollNumbers
  <2> QED
    BY <1>1, <1>2, <2>1 DEF PollInv, TriesRight, Ahead
<1> QED
  BY <1>5, <1>6, <1>7, <1>8 DEF PollInv

\* A restart forgets the offset, and everything may be tried once more.
LEMMA RestartPolls ==
  ASSUME TelegramAssumption, PollInv, Restart
  PROVE  PollInv'
<1>1. /\ restarts < MaxRestarts /\ restarts' = restarts + 1 /\ offset' = 0 /\ poll' = Asleep
      /\ UNCHANGED <<config, updates, forgotten, tried, answered, changed>>
  BY DEF Restart
<1>2. poll' \in PollStates /\ poll'.pc = "asleep" /\ poll'.last = 0
  BY <1>1, AsleepState
<1>3. restarts' \in 0 .. MaxRestarts /\ 0 \in 0 .. MaxUpdates /\ 0 <= Len(updates)
  BY <1>1, PollNumbers
<1>4. PollTypes'
  BY <1>1, <1>2, <1>3 DEF PollInv, PollTypes
<1>5. PollRight'
  BY <1>1, <1>2, <1>3 DEF PollInv, PollRight, InBatch
<1>6. GoneThrough'
  <2>1. \A u \in 1 .. MaxUpdates : ~(u <= 0)
    BY PollNumbers
  <2> QED
    BY <1>1, <1>2, <2>1 DEF PollInv, GoneThrough, InBatch
<1>7. \A u \in 1 .. MaxUpdates : tried[u] <= restarts' /\ tried[u] <= 1 + restarts'
  <2> SUFFICES ASSUME NEW u \in 1 .. MaxUpdates
               PROVE  tried[u] <= restarts' /\ tried[u] <= 1 + restarts'
    OBVIOUS
  <2>1. tried[u] <= 1 + restarts /\ tried[u] \in Nat /\ restarts \in Nat
    BY PollNumbers DEF PollInv, TriesRight
  <2> QED
    BY <1>1, <2>1
<1>8. TriesRight'
  BY <1>1, <1>7 DEF TriesRight
<1> QED
  BY <1>4, <1>5, <1>6, <1>8 DEF PollInv

\* A chat that has an account is a configured one.
LEMMA MatchedChat ==
  ASSUME TelegramAssumption, PollInv, poll.pc = "batch", poll.next <= poll.last,
         NEW a \in Matches(updates[poll.next])
  PROVE  updates[poll.next] \in Chats
<1>1. poll.next \in 1 .. Len(updates)
  BY PollNumbers
<1>2. updates[poll.next] \in Chats \cup Strangers
  BY <1>1 DEF PollInv, PollTypes
<1>3. updates[poll.next] \in Chats \cup {None}
  BY PollNumbers DEF Matches, PollStates
<1> QED
  BY <1>2, <1>3 DEF TelegramAssumption, CommandsAssumption

LEMMA BatchPolls ==
  ASSUME TelegramAssumption, PollInv,
         \/ NoAccount \/ Ambiguous \/ Executed \/ ExecuteRaises \/ Replied
         \/ \E a \in Accounts : Execute(a)
  PROVE  PollInv'
<1>1. CASE NoAccount
  <2>1. poll' = [poll EXCEPT !.pc = "batch", !.next = poll.next + 1]
    BY <1>1, PollNumbers DEF NoAccount, PollStates
  <2> QED
    BY <1>1, <2>1, PollAdvances DEF NoAccount, InBatch
<1>2. CASE ExecuteRaises \/ Replied
  <2>1. poll.pc \in {"order", "reply"} /\ poll.next <= poll.last
    BY <1>2 DEF ExecuteRaises, Replied, PollInv, PollRight
  <2> QED
    BY <1>2, <2>1, PollAdvances DEF ExecuteRaises, Replied, InBatch
<1>3. CASE Ambiguous
  <2>1. updates[poll.next] \in Chats
    BY <1>3, MatchedChat DEF Ambiguous
  <2>2. poll' = [poll EXCEPT !.pc = "reply"] /\ poll.pc = "batch" /\ poll.next <= poll.last
        /\ UNCHANGED <<config, updates, forgotten, offset, tried, answered, changed, restarts>>
    BY <1>3 DEF Ambiguous
  <2> QED
    BY <2>1, <2>2, PollAwaits DEF InBatch
<1>4. CASE Executed
  <2>1. poll.pc = "order" /\ poll.next <= poll.last /\ updates[poll.next] \in Chats
    BY <1>4 DEF Executed, PollInv, PollRight
  <2>2. poll' = [poll EXCEPT !.pc = "reply"]
        /\ UNCHANGED <<config, updates, forgotten, offset, tried, answered, changed, restarts>>
    BY <1>4 DEF Executed
  <2> QED
    BY <2>1, <2>2, PollAwaits DEF InBatch
<1>5. CASE \E a \in Accounts : Execute(a)
  <2>1. updates[poll.next] \in Chats
    BY <1>5, MatchedChat DEF Execute
  <2>2. poll' = [poll EXCEPT !.pc = "order"] /\ poll.pc = "batch" /\ poll.next <= poll.last
        /\ tried' = [tried EXCEPT ![poll.next] = tried[poll.next] + 1]
        /\ UNCHANGED <<config, updates, forgotten, offset, answered, changed, restarts>>
    BY <1>5 DEF Execute
  <2> QED
    BY <2>1, <2>2, PollAwaits DEF InBatch
<1> QED
  BY <1>1, <1>2, <1>3, <1>4, <1>5

LEMMA PollStep ==
  ASSUME TelegramAssumption, PollInv, [Next]_vars
  PROVE  PollInv'
<1>1. CASE UNCHANGED pollVars
  BY <1>1 DEF pollVars, PollInv, PollTypes, PollRight, GoneThrough, TriesRight, InBatch, Ahead
<1>2. CASE \E c \in Chats \cup Strangers : Command(c)
  BY <1>2, CommandPolls
<1>3. CASE \E a \in Accounts : (\E c \in Chats : SetTelegram(a, c)) \/ DeleteTelegram(a)
  BY <1>3, SettingsPoll
<1>4. CASE Round \/ Answered \/ AskFails
  BY <1>4, RoundPolls, AnsweredPolls, AskFailsPolls
<1>5. CASE \/ NoAccount \/ Ambiguous \/ Executed \/ ExecuteRaises \/ Replied
           \/ \E a \in Accounts : Execute(a)
  BY <1>5, BatchPolls
<1>6. CASE BatchEnds \/ Restart
  BY <1>6, BatchEndsPolls, RestartPolls
<1> QED
  BY <1>1, <1>2, <1>3, <1>4, <1>5, <1>6 DEF Next, vars

\* What is not the sender's leaves it alone, or has the poller reply.
LEMMA SendStep ==
  ASSUME TelegramAssumption, SendInv, PollInv, [Next]_vars
  PROVE  SendInv'
<1>1. CASE UNCHANGED notifyVars
  BY <1>1 DEF notifyVars, SendInv, NotifyTypeOK, SendersRight
<1>2. CASE NotifyNext
  BY <1>2, SenderLoop
<1>3. CASE Ambiguous \/ Executed
  <2>1. PICK c \in Chats : c = updates[poll.next]
    BY <1>3, MatchedChat DEF Ambiguous, Executed, PollInv, PollRight
  <2>2. /\ sender' = [sender EXCEPT ![Poller] = [Quiet EXCEPT !.pc = "lock", !.chat = c]]
        /\ UNCHANGED <<notes, queue, lock, recent>>
    BY <1>3, <2>1 DEF Ambiguous, Executed, Reply
  <2>3. Poller \in Senders /\ queue' \in Seq(Messages) /\ Len(queue') <= QueueMax
    BY <2>2 DEF TelegramAssumption, NotifyAssumption, SendInv, NotifyTypeOK
  <2> QED
    BY <2>1, <2>2, <2>3, SendStarts
<1>4. CASE Restart
  <2>1. /\ queue' = <<>> /\ lock' = None /\ recent' = {} /\ notes' = notes
        /\ sender' = [s \in Senders |-> Quiet]
    BY <1>4 DEF Restart
  <2>2. queue' \in Seq(Messages) /\ Len(queue') <= QueueMax
    <3>1. QueueMax \in Nat
      BY DEF TelegramAssumption, NotifyAssumption
    <3> QED
      BY <2>1, <3>1
  <2>3. SendersRight' /\ sender' \in [Senders -> SenderStates]
    BY <2>1, QuietState DEF SendersRight
  <2>4. notes' \in 0 .. MaxNotes /\ lock' \in Senders \cup {None} /\ recent' \subseteq Chats
    BY <2>1 DEF SendInv, NotifyTypeOK
  <2> QED
    BY <2>2, <2>3, <2>4, SendJoin
<1>5. Next \/ UNCHANGED notifyVars
  BY DEF vars
<1>6. CASE Next
  <2>1. CASE \E c \in Chats \cup Strangers : Command(c)
    BY <1>1, <2>1 DEF Command
  <2>2. CASE \E a \in Accounts : (\E c \in Chats : SetTelegram(a, c)) \/ DeleteTelegram(a)
                                 \/ Execute(a)
    BY <1>1, <2>2 DEF SetTelegram, DeleteTelegram, Execute
  <2>3. CASE Round \/ Answered \/ AskFails \/ NoAccount \/ ExecuteRaises \/ Replied
             \/ BatchEnds
    BY <1>1, <2>3 DEF Round, Answered, AskFails, NoAccount, ExecuteRaises, Replied,
                      BatchEnds
  <2> QED
    BY <1>2, <1>3, <1>4, <1>6, <2>1, <2>2, <2>3 DEF Next
<1> QED
  BY <1>1, <1>5, <1>6

LEMMA TelegramStarts ==
  ASSUME TelegramAssumption, Init
  PROVE  SendInv /\ PollInv
<1>1. QueueMax \in Nat /\ MaxUpdates \in Nat /\ MaxRestarts \in Nat /\ MaxNotes \in Nat
  BY DEF TelegramAssumption, NotifyAssumption, CommandsAssumption
<1>2. SendInv
  <2>1. /\ notes = 0 /\ queue = <<>> /\ lock = None /\ recent = {}
        /\ sender = [s \in Senders |-> Quiet]
    BY DEF Init, NotifyInit
  <2>2. queue \in Seq(Messages) /\ Len(queue) <= QueueMax /\ notes \in 0 .. MaxNotes
        /\ DOMAIN queue = {}
    BY <1>1, <2>1
  <2>3. SendersRight /\ sender \in [Senders -> SenderStates]
    BY <2>1, QuietState DEF SendersRight
  <2> QED
    BY <2>1, <2>2, <2>3 DEF SendInv, NotifyTypeOK
<1>3. PollInv
  <2>1. /\ config \in [Accounts -> Chats \cup {None}] /\ updates = <<>> /\ forgotten = 0
        /\ offset = 0 /\ poll = Asleep /\ tried = [u \in 1 .. MaxUpdates |-> 0]
        /\ answered = {} /\ changed = FALSE /\ restarts = 0
    BY DEF Init
  <2>2. updates \in Seq(Chats \cup Strangers) /\ Len(updates) = 0
    BY <2>1
  <2>3. PollTypes
    <3>1. 0 \in 0 .. MaxUpdates /\ 0 \in 0 .. MaxRestarts /\ Len(updates) <= MaxUpdates
      BY <1>1, <2>2
    <3>2. tried \in [1 .. MaxUpdates -> Nat]
      BY <2>1
    <3> QED
      BY <2>1, <2>2, <3>1, <3>2, AsleepState DEF PollTypes
  <2>4. PollRight
    BY <1>1, <2>1, <2>2, AsleepState DEF PollRight, InBatch
  <2>5. GoneThrough
    BY <1>1, <2>1, AsleepState DEF GoneThrough, InBatch
  <2>6. TriesRight
    BY <1>1, <2>1 DEF TriesRight
  <2> QED
    BY <2>3, <2>4, <2>5, <2>6 DEF PollInv
<1> QED
  BY <1>2, <1>3

\* The senders and the poller keep their books in every behaviour.
THEOREM TelegramInvariant == Spec => [](SendInv /\ PollInv)
<1> USE NotifyAssumption, CommandsAssumption DEF TelegramAssumption
<1>1. Init => SendInv /\ PollInv
  BY TelegramStarts
<1>2. SendInv /\ PollInv /\ [Next]_vars => (SendInv /\ PollInv)'
  BY SendStep, PollStep
<1> QED
  BY <1>1, <1>2, PTL DEF Spec

\* The queue of messages never holds more than its bound, and every variable of the
\* senders and of the poller has its type (_enqueue, _deliver, run_poller).
THEOREM TelegramTypes == Spec => []TypeOK
<1> USE NotifyAssumption, CommandsAssumption DEF TelegramAssumption
<1>1. SendInv /\ PollInv => TypeOK
  BY DEF SendInv, PollInv, PollTypes, TypeOK
<1> QED
  BY <1>1, TelegramInvariant, PTL

\* Telegram forgets no command before the poller has gone through it: _poll_bot keeps
\* the offset of a batch only when the whole batch is done.
THEOREM CommandsAreSeen == Spec => []NoCommandIsLost
<1> USE NotifyAssumption, CommandsAssumption DEF TelegramAssumption
<1>1. SendInv /\ PollInv => NoCommandIsLost
  <2> SUFFICES ASSUME PollInv, NEW u \in 1 .. forgotten PROVE u \in answered
    BY DEF NoCommandIsLost
  <2>1. u \in 1 .. MaxUpdates /\ u <= forgotten
    <3>1. forgotten \in Nat /\ forgotten <= MaxUpdates /\ MaxUpdates \in Nat
      BY DEF PollInv, PollTypes, TelegramAssumption, CommandsAssumption
    <3> QED
      BY <3>1
  <2> QED
    BY <2>1 DEF PollInv, GoneThrough
<1> QED
  BY <1>1, TelegramInvariant, PTL

\* A command is sent to a terminal at most once for each life of the server: what lies
\* ahead of the poller was tried only before restarts.
THEOREM RepeatsAreRestarts == Spec => []RepeatedOnlyByRestart
<1> USE NotifyAssumption, CommandsAssumption DEF TelegramAssumption
<1>1. SendInv /\ PollInv => RepeatedOnlyByRestart
  BY DEF PollInv, TriesRight, RepeatedOnlyByRestart
<1> QED
  BY <1>1, TelegramInvariant, PTL

\* No message goes to a chat before its interval is over: _throttle looks and marks
\* under the lock, and only the holder of the lock sends.
THEOREM ThrottleHolds == Spec => ThrottleIsKept
<1> USE NotifyAssumption, CommandsAssumption DEF TelegramAssumption
<1> DEFINE Kept == \A s \in Senders : sender[s].pc # "send" /\ sender'[s].pc = "send"
                                        => sender[s].chat \notin recent
<1>1. SendInv /\ PollInv /\ [Next]_vars => [Kept]_notifyVars
  <2> SUFFICES ASSUME SendInv, Next, NEW s \in Senders,
                      sender[s].pc # "send", sender'[s].pc = "send", sender' # sender
               PROVE  sender[s].chat \notin recent
    BY DEF vars, notifyVars
  <2>1. sender \in [Senders -> SenderStates] /\ Quiet.pc = "idle"
    BY DEF SendInv, NotifyTypeOK, Quiet
  <2>2. CASE NotifyNext
    <3>1. CASE \E u \in Senders : Acquire(u) \/ Resume(u)
      <4>1. PICK u \in Senders : Acquire(u) \/ Resume(u)
        BY <3>1
      <4>2. u = s
        BY <2>1, <4>1 DEF Acquire, Resume
      <4>3. CASE Acquire(s)
        BY <2>1, <4>3 DEF Acquire, SenderStates
      <4>4. CASE Resume(s)
        BY <4>4 DEF Resume, SendInv, SendersRight
      <4> QED
        BY <4>1, <4>2, <4>3, <4>4
    <3>2. CASE \E u \in Senders : WebSend(u) \/ Sent(u) \/ TooMany(u) \/ Again(u)
      <4>1. PICK u \in Senders : WebSend(u) \/ Sent(u) \/ TooMany(u) \/ Again(u)
        BY <3>2
      <4>2. u # s => sender'[s] = sender[s]
        BY <2>1, <4>1 DEF WebSend, Sent, TooMany, Again
      <4>3. sender'[u].pc # "send"
        BY <2>1, <4>1 DEF WebSend, Sent, TooMany, Again, Quiet, SenderStates
      <4> QED
        BY <4>2, <4>3
    <3>3. CASE Notify \/ Take
      <4>1. \A u \in Senders : sender'[u] = sender[u] \/ sender'[u].pc = "lock"
        BY <2>1, <3>3 DEF Notify, Take, Quiet
      <4> QED
        BY <4>1
    <3>4. CASE \E c \in Chats : Pass(c)
      <4>1. sender'[s] = sender[s] \/ sender'[s].pc = "awake"
        BY <2>1, <3>4 DEF Pass, SenderStates
      <4> QED
        BY <4>1
    <3> QED
      BY <2>2, <3>1, <3>2, <3>3, <3>4 DEF NotifyNext
  <2>3. CASE Ambiguous \/ Executed
    <3>1. sender'[s] = sender[s] \/ sender'[s].pc = "lock"
      BY <2>1, <2>3 DEF Ambiguous, Executed, Reply, Quiet
    <3> QED
      BY <3>1
  <2>4. CASE Restart
    BY <2>1, <2>4 DEF Restart
  <2>5. CASE \E c \in Chats \cup Strangers : Command(c)
    BY <2>5 DEF Command, notifyVars
  <2>6. CASE \E a \in Accounts : (\E c \in Chats : SetTelegram(a, c)) \/ DeleteTelegram(a)
                                 \/ Execute(a)
    BY <2>6 DEF SetTelegram, DeleteTelegram, Execute, notifyVars
  <2>7. CASE Round \/ Answered \/ AskFails \/ NoAccount \/ ExecuteRaises \/ Replied
             \/ BatchEnds
    BY <2>7 DEF Round, Answered, AskFails, NoAccount, ExecuteRaises, Replied,
                BatchEnds, notifyVars
  <2> QED
    BY <2>2, <2>3, <2>4, <2>5, <2>6, <2>7 DEF Next
<1>2. [][Kept]_notifyVars => ThrottleIsKept
  BY DEF ThrottleIsKept
<1> HIDE DEF Kept
<1> QED
  BY <1>1, <1>2, TelegramInvariant, PTL DEF Spec

\* A command trades on the account that has its chat alone: the poller goes by what it
\* read when the round began, and that is stale only if an account was configured since
\* (_accounts_for_message).
THEOREM CommandsFindTheirAccount == Spec => TradesForItsChat
<1> USE NotifyAssumption, CommandsAssumption DEF TelegramAssumption
<1> DEFINE Its == \A a \in Accounts : Execute(a) =>
                    \/ {b \in Accounts : config[b] = updates[poll.next]} = {a}
                    \/ changed
<1>1. SendInv /\ PollInv /\ [Next]_vars => [Its]_vars
  <2> SUFFICES ASSUME PollInv, NEW a \in Accounts, Execute(a), ~changed
               PROVE  {b \in Accounts : config[b] = updates[poll.next]} = {a}
    OBVIOUS
  <2>1. poll.pc = "batch" /\ {b \in Accounts : poll.configs[b] = updates[poll.next]} = {a}
    BY DEF Execute, Matches
  <2>2. poll.configs = config
    BY <2>1 DEF PollInv, PollRight
  <2> QED
    BY <2>1, <2>2
<1>2. [][Its]_vars => TradesForItsChat
  BY DEF TradesForItsChat
<1> HIDE DEF Its
<1> QED
  BY <1>1, <1>2, TelegramInvariant, PTL DEF Spec
=============================================================================
