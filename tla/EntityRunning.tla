--------------------------- MODULE EntityRunning ---------------------------
(***************************************************************************)
(* The task of one entity: start_entity and the handlers it calls          *)
(* (src/src/entity/entity_running.rs).  The task takes one message at a    *)
(* time from its two queues; send_to_channels awaits once per iteration of *)
(* its loop, so other tasks run between two iterations, and an iteration   *)
(* is an action of its own.                                                *)
(*                                                                         *)
(* pc = "select"   at the top of the loop, waiting for a message or a timer*)
(*      "send"     inside the loop of send_to_channels                     *)
(*      "resend"   inside the while-let loop of re_send!                   *)
(*      "connect"  a Connect is taken, TEMP_SAVE.write() not yet acquired  *)
(*      "closing"  Terminate sent to the channels, in the sleep before the *)
(*                 last report                                             *)
(*      "stopped"  start_entity returned                                   *)
(*                                                                         *)
(* A definition whose name ends in _X and a word is the one below it with  *)
(* a plausible mistake.  No action uses it: it shows that the properties   *)
(* notice the mistake (README, "Mutants").                                 *)
(***************************************************************************)
EXTENDS GatewayBase, Functions

VARIABLES
    sending,          \* the message send_to_channels is placing
    left,             \* iterations its loop has left
    to_resend,        \* re_sends: popped from wait_receipt_map, not sent again yet
    connecting,       \* the channel of the Connect being handled
    index,            \* round-robin index
    wait_receipt_map, \* sequence number -> sent message waiting for its answer
    is_buff_full,
    last_state        \* the last state published on the state-change topic

VARIABLES             \* what the business side has been told, for the properties
    answered,         \* <<message, part>> whose answer was published with its id
    unmatched,        \* sequence numbers of answers published without one
    timed_out,        \* sequence numbers re_send! or the 4-day clearing dropped
    forwarded         \* inbound messages published

entityVars == <<sending, left, to_resend, connecting, index, wait_receipt_map,
                is_buff_full, last_state, answered, unmatched, timed_out, forwarded>>
published == <<answered, unmatched, timed_out, forwarded>>
channelQueues == <<priority, common, phase>>

States == {"DISCONNECT", "BUFF_FULL", "CONNECT"}

(* send_entity_state!: what is published. *)
StateOf(full, n) ==
    IF n = 0 THEN "DISCONNECT" ELSE IF full THEN "BUFF_FULL" ELSE "CONNECT"

(* Age of an entry: 0 younger than 30 s, 1 older, 2 older than four days. *)
Entries == [item : SentItems, part : Nat, need : BOOLEAN, age : 0..2]

InitEntity ==
    /\ pc = "select"
    /\ sending = Terminate /\ left = 0 /\ to_resend = {} /\ connecting = NONE
    /\ index = 0
    /\ wait_receipt_map = [k \in {} |-> NONE]
    /\ is_buff_full = FALSE /\ last_state = "DISCONNECT"
    /\ answered = {} /\ unmatched = {} /\ timed_out = {} /\ forwarded = {}
---------------------------------------------------------------------------
(* send_to_channels *)

StartSend_XInclusive(item) ==
    pc' = "send" /\ sending' = item /\ left' = Len(send_channels) + 1
StartSend(item) ==
    /\ pc' = "send"
    /\ sending' = item
    /\ left' = Len(send_channels)

(* Where the task goes on when send_to_channels returns. *)
Return ==
    /\ pc' = IF to_resend = {} THEN "select" ELSE "resend"
    /\ sending' = Terminate
    /\ left' = 0

(* Forget a handle; now_conn_num.swap(send_channels.len() as u8). *)
Detach(c) ==
    /\ send_channels' = Without(send_channels, c)
    /\ now_conn_num' = AsU8(Len(send_channels'))

NextIndex == (index + 1) % IndexCycle
Selected == send_channels[(NextIndex % Len(send_channels)) + 1]

(* The report a full buffer causes, before the message is queued.          *)
BufferFills(c) ==
    /\ EntityType = "Server" /\ SendBuffCap # 0
    /\ Occupancy(c) > SendBuffCap
    /\ ~is_buff_full

CheckBuffer_XSilent(c) ==
    /\ is_buff_full' = (is_buff_full \/ BufferFills(c))
    /\ UNCHANGED last_state
CheckBuffer(c) ==
    IF BufferFills(c)
    THEN is_buff_full' = TRUE /\ last_state' = StateOf(TRUE, now_conn_num)
    ELSE UNCHANGED <<is_buff_full, last_state>>

Enqueue(c, item) ==
    IF item.m \in IsPriority
    THEN priority' = [priority EXCEPT ![c] = Append(@, item)] /\ UNCHANGED common
    ELSE common' = [common EXCEPT ![c] = Append(@, item)] /\ UNCHANGED priority

SkipReadOnly ==
    /\ Selected \in ReadOnly
    /\ left' = left - 1
    /\ UNCHANGED <<pc, sending, priority, common, send_channels, now_conn_num,
                   is_buff_full, last_state>>

SendToOpen_XNoReturn ==
    /\ Selected \notin ReadOnly /\ ReceiverOpen(Selected)
    /\ CheckBuffer(Selected)
    /\ Enqueue(Selected, sending)
    /\ left' = left - 1
    /\ UNCHANGED <<pc, sending, send_channels, now_conn_num>>
SendToOpen ==
    /\ Selected \notin ReadOnly /\ ReceiverOpen(Selected)
    /\ CheckBuffer(Selected)
    /\ Enqueue(Selected, sending)
    /\ Return
    /\ UNCHANGED <<send_channels, now_conn_num>>

SendToClosed ==
    /\ Selected \notin ReadOnly /\ ~ReceiverOpen(Selected)
    /\ CheckBuffer(Selected)
    /\ Detach(Selected)
    /\ left' = left - 1
    /\ UNCHANGED <<pc, sending, priority, common>>

(* One iteration of the loop over `size`. *)
TryChannel ==
    /\ pc = "send" /\ left > 0
    /\ index' = NextIndex
    /\ SkipReadOnly \/ SendToOpen \/ SendToClosed
    /\ UNCHANGED <<from_manager, from_channel, parked, phase, failed, to_resend,
                   connecting, wait_receipt_map, published>>

(* The loop ended without a channel taking the message. *)
NoChannelTook ==
    /\ pc = "send" /\ left = 0
    /\ failed' = failed \cup {sending.m}
    /\ last_state' = StateOf(is_buff_full, now_conn_num)
    /\ Return
    /\ UNCHANGED <<from_manager, from_channel, channelQueues, parked, send_channels,
                   now_conn_num, to_resend, connecting, index, wait_receipt_map,
                   is_buff_full, published>>
---------------------------------------------------------------------------
(* Timers of the loop.  Time itself passes in AnswersAge and DaysPass. *)

Overdue == {k \in DOMAIN wait_receipt_map :
                wait_receipt_map[k].need /\ wait_receipt_map[k].age > 0}

ReSend_XForgets ==
    /\ pc = "select" /\ Overdue # {}
    /\ wait_receipt_map' = Restrict(wait_receipt_map, DOMAIN wait_receipt_map \ Overdue)
    /\ timed_out' = timed_out \cup Overdue
    /\ UNCHANGED <<baseVars, sending, left, to_resend, connecting, index,
                   is_buff_full, last_state, answered, unmatched, forwarded>>

(* re_send!: take out what is overdue and marked for sending again ... *)
ReSend ==
    /\ pc = "select" /\ Overdue # {}
    /\ to_resend' = {wait_receipt_map[k].item : k \in Overdue}
    /\ wait_receipt_map' = Restrict(wait_receipt_map, DOMAIN wait_receipt_map \ Overdue)
    /\ timed_out' = timed_out \cup Overdue
    /\ pc' = "resend"
    /\ UNCHANGED <<from_manager, from_channel, channelQueues, parked, send_channels,
                   now_conn_num, failed, sending, left, connecting, index,
                   is_buff_full, last_state, answered, unmatched, forwarded>>

(* ... and send the copies, one after the other. *)
PopResend ==
    /\ pc = "resend"
    /\ \E item \in to_resend :
        /\ to_resend' = to_resend \ {item}
        /\ StartSend(item)
    /\ UNCHANGED <<from_manager, from_channel, channelQueues, parked, send_channels,
                   now_conn_num, failed, connecting, index, wait_receipt_map,
                   is_buff_full, last_state, published>>

(* clear_send_sms_cache: drop what has waited four days. *)
ClearSendSmsCache ==
    LET old == {k \in DOMAIN wait_receipt_map : wait_receipt_map[k].age = 2}
    IN  /\ pc = "select" /\ old # {}
        /\ wait_receipt_map' = Restrict(wait_receipt_map, DOMAIN wait_receipt_map \ old)
        /\ timed_out' = timed_out \cup old
        /\ UNCHANGED <<baseVars, sending, left, to_resend, connecting, index,
                       is_buff_full, last_state, answered, unmatched, forwarded>>
---------------------------------------------------------------------------
(* handle_from_channel_rx *)

TakeFromChannel(type) ==
    /\ pc = "select" /\ from_channel # <<>>
    /\ Head(from_channel).type = type
    /\ from_channel' = Tail(from_channel)

Forget(k) == wait_receipt_map' = Restrict(wait_receipt_map, DOMAIN wait_receipt_map \ {k})

AnswerLimited_XKeepsEntry ==
    /\ TakeFromChannel("Resp")
    /\ LET msg == Head(from_channel)
       IN  /\ msg.limited /\ msg.seq \in DOMAIN wait_receipt_map
           /\ StartSend(wait_receipt_map[msg.seq].item)
    /\ UNCHANGED <<from_manager, channelQueues, parked, send_channels, now_conn_num, failed,
                   to_resend, connecting, index, wait_receipt_map, is_buff_full, last_state,
                   published>>

(* The peer is over its limit: the cached message is sent again.           *)
AnswerLimited ==
    /\ TakeFromChannel("Resp")
    /\ LET msg == Head(from_channel)
       IN  /\ msg.limited /\ msg.seq \in DOMAIN wait_receipt_map
           /\ Forget(msg.seq)
           /\ StartSend(wait_receipt_map[msg.seq].item)
    /\ UNCHANGED <<from_manager, channelQueues, parked, send_channels, now_conn_num,
                   failed, to_resend, connecting, index, is_buff_full, last_state, published>>

(* After an answer: a full buffer is over once one channel has room again. *)
RecheckBuffer ==
    IF is_buff_full /\ \E c \in Attached : Occupancy(c) <= WriteLimit
    THEN is_buff_full' = FALSE /\ last_state' = StateOf(FALSE, now_conn_num)
    ELSE UNCHANGED <<is_buff_full, last_state>>

AnswerMatched ==
    /\ TakeFromChannel("Resp")
    /\ LET msg == Head(from_channel)
       IN  /\ ~msg.limited /\ msg.seq \in DOMAIN wait_receipt_map
           /\ Forget(msg.seq)
           /\ answered' = answered \cup
                  {<<wait_receipt_map[msg.seq].item.m, wait_receipt_map[msg.seq].part>>}
           /\ IF MsgType[msg.seq[1]] = "Submit" THEN RecheckBuffer
              ELSE UNCHANGED <<is_buff_full, last_state>>
    /\ UNCHANGED <<pc, from_manager, channelQueues, parked, send_channels, now_conn_num,
                   failed, sending, left, to_resend, connecting, index, unmatched,
                   timed_out, forwarded>>

(* No entry under this number: published all the same. *)
AnswerUnmatched ==
    /\ TakeFromChannel("Resp")
    /\ LET msg == Head(from_channel)
       IN  /\ msg.seq \notin DOMAIN wait_receipt_map
           /\ unmatched' = unmatched \cup {msg.seq}
    /\ UNCHANGED <<pc, from_manager, channelQueues, parked, send_channels, now_conn_num,
                   failed, sending, left, to_resend, connecting, index, wait_receipt_map,
                   is_buff_full, last_state, answered, timed_out, forwarded>>

Insert_XFirstOnly(item) ==
    wait_receipt_map' =
        [k \in DOMAIN wait_receipt_map \cup {item.seqs[1]} |->
            IF k = item.seqs[1] THEN [item |-> item, part |-> 1, need |-> TRUE, age |-> 0]
            ELSE wait_receipt_map[k]]

(* insert_into_wait_receipt for a Submit: one entry per frame that has a   *)
(* msg_id, only the first to be sent again.  A Deliver or Report gets one  *)
(* entry under its first number, with no mark (the default is to resend).  *)
Insert(item) ==
    LET count == IF MsgType[item.m] # "Submit" THEN 1
                 ELSE IF Len(item.seqs) <= MsgIds[item.m] THEN Len(item.seqs)
                 ELSE MsgIds[item.m]
        keys == {item.seqs[i] : i \in 1..count}
        part(k) == CHOOSE i \in 1..count : item.seqs[i] = k
    IN  wait_receipt_map' =
            [k \in DOMAIN wait_receipt_map \cup keys |->
                IF k \in keys
                THEN [item |-> item, part |-> part(k), need |-> part(k) = 1, age |-> 0]
                ELSE wait_receipt_map[k]]

(* A sent message comes back to wait for its answer.  A message that was   *)
(* sent before and now bounced comes back with WAIT_RECEIPT still set and  *)
(* takes this branch too.                                                  *)
CacheSent ==
    /\ TakeFromChannel("Out")
    /\ Head(from_channel).item.wait
    /\ Insert(Head(from_channel).item)
    /\ UNCHANGED <<pc, from_manager, channelQueues, parked, send_channels, now_conn_num,
                   failed, sending, left, to_resend, connecting, index,
                   is_buff_full, last_state, published>>

(* A message the channel bounced on its first try is sent again.  Only a   *)
(* Submit has a MSG_IDS before it was ever encoded, so nothing else gets   *)
(* here.                                                                   *)
PushBack ==
    /\ TakeFromChannel("Out")
    /\ ~Head(from_channel).item.wait
    /\ Head(from_channel).item.m \in Outs
    /\ MsgType[Head(from_channel).item.m] = "Submit"
    /\ StartSend(Head(from_channel).item)
    /\ UNCHANGED <<from_manager, channelQueues, parked, send_channels, now_conn_num,
                   failed, to_resend, connecting, index, wait_receipt_map,
                   is_buff_full, last_state, published>>

PublishInbound_XNeedsReceipt ==
    /\ TakeFromChannel("In")
    /\ forwarded' = forwarded \cup ({Head(from_channel).i} \ NoReceipt)
    /\ UNCHANGED <<pc, from_manager, channelQueues, parked, send_channels, now_conn_num,
                   failed, sending, left, to_resend, connecting, index, wait_receipt_map,
                   is_buff_full, last_state, answered, unmatched, timed_out>>

(* An inbound message of one frame goes to its topic. *)
PublishInbound ==
    /\ TakeFromChannel("In")
    /\ forwarded' = forwarded \cup {Head(from_channel).i}
    /\ UNCHANGED <<pc, from_manager, channelQueues, parked, send_channels, now_conn_num,
                   failed, sending, left, to_resend, connecting, index, wait_receipt_map,
                   is_buff_full, last_state, answered, unmatched, timed_out>>

IgnoreOther ==
    /\ TakeFromChannel("Other")
    /\ UNCHANGED <<pc, from_manager, channelQueues, parked, send_channels, now_conn_num,
                   failed, entityVars>>

ChannelTerminated_XSilent ==
    /\ TakeFromChannel("Terminate")
    /\ Detach(Head(from_channel).c)
    /\ UNCHANGED <<pc, from_manager, channelQueues, parked, failed, entityVars>>
ChannelTerminated_XKeepsHandle ==
    /\ TakeFromChannel("Terminate")
    /\ UNCHANGED <<pc, from_manager, channelQueues, parked, failed, entityVars,
                   send_channels, now_conn_num>>
(* A channel ended, or its peer said so. *)
ChannelTerminated ==
    /\ TakeFromChannel("Terminate")
    /\ Detach(Head(from_channel).c)
    /\ last_state' = IF send_channels' = <<>>
                     THEN StateOf(is_buff_full, now_conn_num') ELSE last_state
    /\ UNCHANGED <<pc, from_manager, channelQueues, parked, failed, sending, left, to_resend,
                   connecting, index, wait_receipt_map, is_buff_full, published>>

(* A Connect: wait for TEMP_SAVE ... *)
TakeConnect ==
    /\ TakeFromChannel("Connect")
    /\ connecting' = Head(from_channel).c
    /\ pc' = "connect"
    /\ UNCHANGED <<from_manager, channelQueues, parked, send_channels, now_conn_num, failed,
                   sending, left, to_resend, index, wait_receipt_map, is_buff_full,
                   last_state, published>>

ChannelConnected_XOldCount ==
    /\ pc = "connect" /\ ~TempSaveLocked
    /\ parked' = parked \ {connecting}
    /\ send_channels' = Append(send_channels, connecting)
    /\ now_conn_num' = AsU8(Len(send_channels'))
    /\ last_state' = IF now_conn_num = 1
                     THEN StateOf(is_buff_full, now_conn_num') ELSE last_state
    /\ pc' = "select" /\ connecting' = NONE
    /\ UNCHANGED <<from_manager, from_channel, channelQueues, failed, sending, left,
                   to_resend, index, wait_receipt_map, is_buff_full, published>>
ChannelConnected_XKeepsParked ==
    /\ pc = "connect" /\ ~TempSaveLocked
    /\ send_channels' = Append(send_channels, connecting)
    /\ now_conn_num' = AsU8(Len(send_channels'))
    /\ last_state' = IF now_conn_num' = 1
                     THEN StateOf(is_buff_full, now_conn_num') ELSE last_state
    /\ pc' = "select" /\ connecting' = NONE
    /\ UNCHANGED <<from_manager, from_channel, channelQueues, failed, sending, left, parked,
                   to_resend, index, wait_receipt_map, is_buff_full, published>>
(* ... take the parked handles and tell the business side of the first one.*)
ChannelConnected ==
    /\ pc = "connect" /\ ~TempSaveLocked
    /\ connecting \in parked
    /\ parked' = parked \ {connecting}
    /\ send_channels' = Append(send_channels, connecting)
    /\ now_conn_num' = AsU8(Len(send_channels'))
    /\ last_state' = IF now_conn_num' = 1
                     THEN StateOf(is_buff_full, now_conn_num') ELSE last_state
    /\ pc' = "select" /\ connecting' = NONE
    /\ UNCHANGED <<from_manager, from_channel, channelQueues, failed, sending, left,
                   to_resend, index, wait_receipt_map, is_buff_full, published>>
---------------------------------------------------------------------------
(* handle_from_manager_rx *)

TakeFromManager(type) ==
    /\ pc = "select" /\ from_manager # <<>>
    /\ Head(from_manager).type = type
    /\ from_manager' = Tail(from_manager)

SendMessage ==
    /\ TakeFromManager("send")
    /\ StartSend(NewItem(Head(from_manager).m))
    /\ UNCHANGED <<from_channel, channelQueues, parked, send_channels, now_conn_num,
                   failed, to_resend, connecting, index, wait_receipt_map,
                   is_buff_full, last_state, published>>

RequestState ==
    /\ TakeFromManager("passage.request.state")
    /\ last_state' = StateOf(is_buff_full, now_conn_num)
    /\ UNCHANGED <<pc, from_channel, channelQueues, parked, send_channels, now_conn_num,
                   failed, sending, left, to_resend, connecting, index,
                   wait_receipt_map, is_buff_full, published>>

(* "close": a Terminate for every channel, before anything else it has ... *)
Close ==
    /\ TakeFromManager("close")
    /\ priority' = [c \in Channels |->
                       IF c \in Attached /\ ReceiverOpen(c)
                       THEN Append(priority[c], Terminate) ELSE priority[c]]
    /\ pc' = "closing"
    /\ UNCHANGED <<from_channel, common, phase, parked, send_channels, now_conn_num,
                   failed, entityVars>>

(* ... then, after the sleep, the last report; the task returns and drops  *)
(* its queues and send handles.                                            *)
Stop ==
    /\ pc = "closing"
    /\ last_state' = StateOf(is_buff_full, now_conn_num)
    /\ pc' = "stopped"
    /\ send_channels' = <<>>
    /\ from_channel' = <<>> /\ from_manager' = <<>>
    /\ wait_receipt_map' = [k \in {} |-> NONE]
    /\ UNCHANGED <<channelQueues, parked, now_conn_num, failed, sending, left, to_resend,
                   connecting, index, is_buff_full, published>>
---------------------------------------------------------------------------
(* Time. *)

(* 30 seconds go by: everything that waits is overdue. *)
AnswersAge ==
    /\ ~EntityGone
    /\ \E k \in DOMAIN wait_receipt_map : wait_receipt_map[k].age = 0
    /\ wait_receipt_map' = [k \in DOMAIN wait_receipt_map |->
           [wait_receipt_map[k] EXCEPT !.age = IF @ = 0 THEN 1 ELSE @]]
    /\ UNCHANGED <<baseVars, sending, left, to_resend, connecting, index,
                   is_buff_full, last_state, published>>

(* Four days go by.  re_send! runs every ten seconds, so nothing is left   *)
(* that it would have taken.                                               *)
DaysPass ==
    /\ pc = "select"
    /\ DOMAIN wait_receipt_map # {}
    /\ \A k \in DOMAIN wait_receipt_map : ~wait_receipt_map[k].need
    /\ wait_receipt_map' = [k \in DOMAIN wait_receipt_map |->
           [wait_receipt_map[k] EXCEPT !.age = 2]]
    /\ UNCHANGED <<baseVars, sending, left, to_resend, connecting, index,
                   is_buff_full, last_state, published>>

EntityStep ==
    \/ TryChannel \/ NoChannelTook
    \/ ReSend \/ PopResend \/ ClearSendSmsCache
    \/ AnswerLimited \/ AnswerMatched \/ AnswerUnmatched
    \/ CacheSent \/ PushBack \/ PublishInbound \/ IgnoreOther
    \/ ChannelTerminated \/ TakeConnect \/ ChannelConnected
    \/ SendMessage \/ RequestState \/ Close \/ Stop
===========================================================================
