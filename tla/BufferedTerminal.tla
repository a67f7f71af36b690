-------------------------- MODULE BufferedTerminal --------------------------
(***************************************************************************)
(* network::BufferedProtobufTerminal: the queue in front of every module   *)
(* (and of AccessPanel).  Messages are received by the main thread and     *)
(* handled later, once per cycle, by some thread of the conveyor; messages *)
(* with a timestamp in the future wait in a second vector, sorted by       *)
(* descending timestamp, until their time comes.  The barriers of the      *)
(* conveyor keep receiving and handling apart.  handleBufferedMessages()   *)
(* is modelled message by message.                                         *)
(***************************************************************************)
EXTENDS Integers, Sequences, Functions

CONSTANTS
    MessagesBound,  \* bound of the model on the messages received
    NowBound,       \* bound of the model on the in-game time
    QueueLimit      \* delayedQueueLimit

ASSUME BufferedTerminalAssumption ==
    /\ MessagesBound \in Nat
    /\ NowBound \in Nat
    /\ QueueLimit \in Nat

VARIABLES
    now,        \* GlobalClock::now()
    messages,   \* m_messages
    delayed,    \* m_delayedMessages
    step,       \* where handleBufferedMessages() is
    pos,        \* the element of m_messages that its loop is at
    received,   \* how many messages were received; messages are numbered
    handled,    \* the messages handleMessage() was called with
    again,      \* those it was called with more than once
    overflow    \* m_delayedMessages has been full when a message was to be added

terminalVars == <<now, messages, delayed, step, pos, received, handled, again, overflow>>

Times == 0 .. NowBound
Numbers == 1 .. MessagesBound
Messages == [id : Numbers \cup {0}, timestamp : Times]

(* What std::move leaves behind: an empty message, with timestamp 0 *)
MovedFrom == [id |-> 0, timestamp |-> 0]

TerminalInit ==
    /\ now = 0
    /\ messages = <<>>
    /\ delayed = <<>>
    /\ step = "idle"
    /\ pos = 1
    /\ received = 0
    /\ handled = {}
    /\ again = {}
    /\ overflow = FALSE

-----------------------------------------------------------------------------
(* onMessageReceived *)
BufferMessage(timestamp) ==
    /\ step = "idle"
    /\ received < MessagesBound
    /\ received' = received + 1
    /\ messages' = Append(messages, [id |-> received + 1, timestamp |-> timestamp])
    /\ UNCHANGED <<now, delayed, step, pos, handled, again, overflow>>

(* In-game time passes between two cycles of the conveyor. *)
ClockTick ==
    /\ step = "idle"
    /\ now < NowBound
    /\ now' = now + 1
    /\ UNCHANGED <<messages, delayed, step, pos, received, handled, again, overflow>>

(* handleMessage(); modules ignore an empty message *)
HandleMessage(message) ==
    /\ handled' = handled \cup ({message.id} \ {0})
    /\ again' = again \cup ({message.id} \cap handled)

(* drawnDelayedMessage: the new message moves towards the front past all those
   with an earlier timestamp, and stays behind those with the same one *)
DrawnDelayedMessage(message) ==
    LET later(k) == \A i \in 1 .. k : delayed[i].timestamp >= message.timestamp
        k == CHOOSE k \in 0 .. Len(delayed) :
                /\ later(k)
                /\ \A i \in k + 1 .. Len(delayed) : delayed[i].timestamp < message.timestamp
    IN  SubSeq(delayed, 1, k) \o <<message>> \o SubSeq(delayed, k + 1, Len(delayed))

(* mutant: nothing to do when there are no new messages *)
HandleNewMessagesOnly ==
    /\ step = "idle"
    /\ step' = IF messages = <<>> THEN "idle" ELSE "loop"
    /\ pos' = 1
    /\ UNCHANGED <<now, messages, delayed, received, handled, again, overflow>>

(* handleBufferedMessages, the start and the loop over m_messages *)
HandleBufferedMessages ==
    /\ step = "idle"
    /\ step' = "loop"
    /\ pos' = 1
    /\ UNCHANGED <<now, messages, delayed, received, handled, again, overflow>>

HandleImmediately ==
    /\ step = "loop" /\ pos <= Len(messages)
    /\ now >= messages[pos].timestamp
    /\ HandleMessage(messages[pos])
    /\ pos' = pos + 1
    /\ UNCHANGED <<now, messages, delayed, step, received, overflow>>

Delay ==
    /\ step = "loop" /\ pos <= Len(messages)
    /\ now < messages[pos].timestamp
    /\ Len(delayed) # QueueLimit
    /\ delayed' = DrawnDelayedMessage(messages[pos])
    /\ messages' = [messages EXCEPT ![pos] = MovedFrom]
    /\ pos' = pos + 1
    /\ UNCHANGED <<now, step, received, handled, again, overflow>>

(* "Drop the message :(", by leaving the function *)
DropTheMessage ==
    /\ step = "loop" /\ pos <= Len(messages)
    /\ now < messages[pos].timestamp
    /\ Len(delayed) = QueueLimit
    /\ step' = "idle"
    /\ overflow' = TRUE
    /\ UNCHANGED <<now, messages, delayed, pos, received, handled, again>>

(* mutant: m_messages is not cleared *)
KeepMessages ==
    /\ step = "loop" /\ pos > Len(messages)
    /\ step' = "drain"
    /\ UNCHANGED <<now, messages, delayed, pos, received, handled, again, overflow>>

ClearMessages ==
    /\ step = "loop" /\ pos > Len(messages)
    /\ messages' = <<>>
    /\ step' = "drain"
    /\ UNCHANGED <<now, delayed, pos, received, handled, again, overflow>>

(* ... and the loop over m_delayedMessages, from the back *)
HandleDelayed ==
    /\ step = "drain" /\ delayed # <<>>
    /\ delayed[Len(delayed)].timestamp <= now
    /\ HandleMessage(delayed[Len(delayed)])
    /\ delayed' = SubSeq(delayed, 1, Len(delayed) - 1)
    /\ UNCHANGED <<now, messages, step, pos, received, overflow>>

Return ==
    /\ step = "drain"
    /\ delayed # <<>> => delayed[Len(delayed)].timestamp > now
    /\ step' = "idle"
    /\ UNCHANGED <<now, messages, delayed, pos, received, handled, again, overflow>>

(* What handleBufferedMessages() goes on with once it was called *)
HandlingStep ==
    \/ HandleImmediately \/ Delay \/ DropTheMessage
    \/ ClearMessages \/ HandleDelayed \/ Return

TerminalNext ==
    \/ \E timestamp \in Times : BufferMessage(timestamp)
    \/ ClockTick
    \/ HandleBufferedMessages
    \/ HandlingStep

TerminalSpec == TerminalInit /\ [][TerminalNext]_terminalVars

-----------------------------------------------------------------------------
(* Properties *)

TerminalTypeOK ==
    /\ now \in Times
    /\ messages \in Seq(Messages)
    /\ delayed \in Seq(Messages)
    /\ step \in {"idle", "loop", "drain"}
    /\ pos \in 1 .. MessagesBound + 1
    /\ received \in 0 .. MessagesBound
    /\ handled \subseteq Numbers
    /\ again \subseteq Numbers
    /\ overflow \in BOOLEAN

NumbersOf(s) == {s[i].id : i \in DOMAIN s} \ {0}

(* Nothing is lost: a message received is in one of the two queues or has been
   handled, even after the queue of delayed messages was full. *)
NothingLost ==
    handled \cup NumbersOf(messages) \cup NumbersOf(delayed) = 1 .. received

(* As long as the queue of delayed messages was never full when it was needed,
   no message is handled twice, and none that is still queued was handled. *)
HandledOnce ==
    ~overflow =>
        /\ again = {}
        /\ handled \cap NumbersOf(delayed) = {}
        /\ step = "idle" => handled \cap NumbersOf(messages) = {}

(* No message is handled before its timestamp. *)
NeverTooSoon ==
    [][\A queue \in {messages, delayed} : \A i \in DOMAIN queue :
          queue[i].id \in handled' \ handled => queue[i].timestamp <= now]_terminalVars

(* drawnDelayedMessage keeps what it assumes, that m_delayedMessages is sorted
   by descending timestamp: when a cycle stops at a message that has to wait,
   all those left behind it have to wait as well. *)
NoOverdueLeft ==
    [][step = "drain" /\ step' = "idle" =>
          \A i \in DOMAIN delayed : delayed[i].timestamp > now]_terminalVars

(* The two queues lose, repeat, hurry and hold up no message. *)
QueuesAreExact ==
    [](TerminalTypeOK /\ NothingLost /\ HandledOnce) /\ NeverTooSoon /\ NoOverdueLeft

(* Every message is handled in the end, also when the queue was full. *)
EveryMessageHandled ==
    \A id \in Numbers : received >= id ~> id \in handled

(* "Drop the message :(" (the comment where the queue is full): one message is
   dropped, and the others are handled as usual, that is, once. *)
OnlyOneIsDropped == again = {}
=============================================================================
