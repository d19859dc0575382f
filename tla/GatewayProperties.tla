------------------------- MODULE GatewayProperties -------------------------
(***************************************************************************)
(* What one entity and its connections promise.                            *)
(***************************************************************************)
EXTENDS Gateway

QueuesTyped ==
    /\ from_manager \in Seq(ManagerMsgs)
    /\ from_channel \in Seq(ChannelMsgs)
    /\ priority \in [Channels -> Seq(Items)]
    /\ common \in [Channels -> Seq(Items)]
    /\ parked \subseteq Channels
    /\ send_channels \in Seq(Channels)
    /\ now_conn_num \in 0..255
    /\ phase \in [Channels -> Phases]
    /\ failed \subseteq Outs

EntityTyped ==
    /\ pc \in {"select", "send", "resend", "connect", "closing", "stopped"}
    /\ sending \in Items /\ (pc = "send" => sending.m \in Outs)
    /\ left \in Nat
    /\ to_resend \subseteq SentItems
    /\ connecting \in Channels \cup {NONE}
    /\ index \in 0..(IndexCycle - 1)
    /\ DOMAIN wait_receipt_map \subseteq Seqs
    /\ \A k \in DOMAIN wait_receipt_map : wait_receipt_map[k] \in Entries
    /\ is_buff_full \in BOOLEAN
    /\ last_state \in States
    /\ answered \subseteq Outs \X Nat
    /\ unmatched \subseteq Seqs /\ timed_out \subseteq Seqs
    /\ forwarded \subseteq Ins

ChannelsTyped ==
    /\ hand \in [Channels -> ChannelMsgs \cup {NONE}]
    /\ curr_tx \in [Channels -> 0..WriteLimit]
    /\ curr_rx \in [Channels -> 0..(ReadLimit + 1)]
    /\ wait_active_resp \in [Channels -> BOOLEAN]
    /\ wire \in [Channels -> SUBSET Seqs]
    /\ tries \in [Outs -> Nat]
    /\ unsent_in \subseteq Ins

(* Every variable has its type (the structs and queues of entity_running.rs *)
(* and channel.rs); the window counters never pass their limits, and only a *)
(* message that was encoded waits for an answer.                            *)
TypeOK ==
    /\ QueuesTyped /\ EntityTyped /\ ChannelsTyped
    /\ registered \in BOOLEAN
    /\ unsent \subseteq Outs
---------------------------------------------------------------------------
(* Between two messages, what the business side was last told of the       *)
(* entity agrees with the handles the entity really has and with           *)
(* is_buff_full: no order of connects, terminates, failed sends, full      *)
(* buffers and answers leaves it with an outdated state (the               *)
(* send_entity_state! calls of entity_running.rs).                         *)
ReportedIsCurrent ==
    pc \in {"select", "connect"} =>
        last_state = StateOf(is_buff_full, Len(send_channels))

(* now_conn_num, which the login check and the reconnect loop read, is the *)
(* number of handles whenever the entity's task lets go of the processor.  *)
CountIsExact == pc # "stopped" => now_conn_num = Len(send_channels)

(* The loop of send_to_channels runs at most once per handle that is left, *)
(* so `index % send_channels.len()` never divides by zero even though the  *)
(* loop removes handles while it runs (entity_running.rs:569-622).         *)
LoopBound == pc = "send" => left <= Len(send_channels)

(* A handle whose channel has ended is not kept for ever: the Terminate of *)
(* Drop::drop is on its way to the entity (channel.rs:519-537).            *)
StaleHandleIsAnnounced ==
    ~EntityGone =>
        \A c \in Attached :
            ~ReceiverOpen(c) =>
                \/ phase[c] = "drop"
                \/ \E i \in DOMAIN from_channel : from_channel[i] = TerminateMsg(c)

(* While the entity lives, handles in TEMP_SAVE belong to a Connect that   *)
(* is being queued, is queued or is being handled, and are in no list yet: *)
(* nothing leaks in the global table and no handle is attached twice.      *)
ParkedIsAnnounced ==
    ~EntityGone =>
        \A c \in parked :
            /\ c \notin Attached
            /\ \/ phase[c] = "login"
               \/ \E i \in DOMAIN from_channel : from_channel[i] = ConnectMsg(c)
               \/ pc = "connect" /\ connecting = c
---------------------------------------------------------------------------
(* An answer is published without its message's id only if the entry was   *)
(* given up before, or never made: frames beyond the msg_ids given, and    *)
(* the further frames of a Deliver, have none.  The echo of a sent message *)
(* always overtakes its answer (channel.rs:249-254, entity_running.rs:231).*)
UnmatchedOnlyAfterTimeout ==
    \A k \in unmatched :
        \/ k \in timed_out
        \/ k[3] > (IF MsgType[k[1]] = "Submit" THEN MsgIds[k[1]] ELSE 1)

(* Where a whole message can be: a queue of the gateway, a task's hand,    *)
(* or about to be sent again.                                              *)
InQueue(queue, m) == \E i \in DOMAIN queue : queue[i].m = m
Travels(msg, m) == msg # NONE /\ msg.type = "Out" /\ msg.item.m = m
HeldWhole(m) ==
    \/ \E i \in DOMAIN from_manager :
           from_manager[i].type = "send" /\ from_manager[i].m = m
    \/ pc = "send" /\ sending.m = m
    \/ \E item \in to_resend : item.m = m
    \/ \E c \in Channels : InQueue(priority[c], m) \/ InQueue(common[c], m)
                           \/ Travels(hand[c], m)
    \/ \E i \in DOMAIN from_channel : Travels(from_channel[i], m)

(* No part of a message taken from Kafka disappears while the entity       *)
(* lives: it was answered, or the message was published as failed, or it   *)
(* is held somewhere or waits for its answer.  This covers every handover  *)
(* between the entity, its channels and the resend of timed-out messages.  *)
PartCustody ==
    ~EntityGone /\ pc # "closing" =>
        \A m \in Outs \ unsent : \A i \in 1..Frames[m] :
            \/ m \in failed \/ <<m, i>> \in answered
            \/ HeldWhole(m)
            \/ \E k \in DOMAIN wait_receipt_map :
                   wait_receipt_map[k].item.m = m /\ wait_receipt_map[k].part = i

(* Where the gateway holds m or waits for its answer: a container, and a   *)
(* slot of it.  The entries of one copy hold the same item.                *)
Containers ==
    ({"manager", "sending", "resend", "entries", "queue"} \X {NONE})
    \cup ({"priority", "common", "hand"} \X Channels)
Slots(x, m) ==
    CASE x[1] = "manager" -> {i \in DOMAIN from_manager :
                                 from_manager[i].type = "send" /\ from_manager[i].m = m}
      [] x[1] = "sending" -> {i \in {1} : pc = "send" /\ sending.m = m}
      [] x[1] = "resend" -> {item \in to_resend : item.m = m}
      [] x[1] = "entries" -> {item \in {wait_receipt_map[k].item : k \in DOMAIN wait_receipt_map} :
                                 item.m = m}
      [] x[1] = "queue" -> {i \in DOMAIN from_channel : Travels(from_channel[i], m)}
      [] x[1] = "priority" -> {i \in DOMAIN priority[x[2]] : priority[x[2]][i].m = m}
      [] x[1] = "common" -> {i \in DOMAIN common[x[2]] : common[x[2]][i].m = m}
      [] x[1] = "hand" -> {i \in {1} : Travels(hand[x[2]], m)}

(* A message of one frame is never duplicated: until its answer times out, *)
(* at most one copy of it is in the gateway, whatever bounces, speed-limit *)
(* answers and closed channels it meets.                                   *)
SingleCopy ==
    \A m \in Outs :
        Frames[m] = 1 /\ (\A k \in timed_out : k[1] # m) =>
            \A x \in Containers : \A s \in Slots(x, m) :
                \A y \in Containers : \A t \in Slots(y, m) : x = y /\ s = t

(* An inbound message the peer got an answer for is published, or is on    *)
(* its way to the entity (channel.rs:333-345).                             *)
InboundCustody ==
    ~EntityGone =>
        \A i \in Ins \ (unsent_in \cup forwarded) :
            \/ \E c \in Channels : hand[c] = InMsg(i)
            \/ \E n \in DOMAIN from_channel : from_channel[n] = InMsg(i)
---------------------------------------------------------------------------
(* What the tasks do under a scheduler that runs every ready task.  A task *)
(* that waits for room in the queue gets it in its turn (tokio's semaphore *)
(* is first come, first served), hence strong fairness for PushHand,       *)
(* Announce and DropSend; peers answer what they got, and time passes.     *)
Fairness ==
    /\ WF_vars(EntityStep /\ UNCHANGED <<channelVars, registered, unsent>>)
    /\ WF_vars(AnswersTimeOut /\ UNCHANGED <<channelVars, registered, unsent>>)
    /\ WF_vars(DaysTimeOut /\ UNCHANGED <<channelVars, registered, unsent>>)
    /\ \A c \in Channels :
        /\ WF_vars(ChannelStep(c) /\ EntityIdle)
        /\ SF_vars((PushHand(c) \/ Announce(c) \/ DropSend(c)) /\ EntityIdle)
        /\ WF_vars(PeerReply(c) /\ EntityIdle)

FairSpec == Spec /\ Fairness

(* Only the first part of a message is marked to be sent again             *)
(* (NEED_RE_SEND, entity_running.rs:415): when the answer to a further one *)
(* does not come, its entry is dropped after four days, and nobody is told *)
(* (clear_send_sms_cache).                                                 *)
GivenUp(m, i) == i > 1 /\ \E k \in timed_out : k[1] = m /\ k[3] = i

(* The gateway is done with m: nothing of it is queued, about to be sent   *)
(* or waiting for its answer, and it was published as failed, or its first *)
(* part was answered and each further part was answered or given up.       *)
Settled(m) ==
    /\ ~HeldWhole(m) /\ \A k \in DOMAIN wait_receipt_map : wait_receipt_map[k].item.m # m
    /\ \/ m \in failed
       \/ \A i \in 1..Frames[m] : <<m, i>> \in answered \/ GivenUp(m, i)

(* Every message taken from Kafka is settled in the end.                   *)
EverySendSettles == \A m \in Outs : (m \notin unsent) ~> Settled(m)

(* A handle whose channel is gone does not stay in the list.               *)
DeadHandleGoes ==
    \A c \in Channels : (c \in Attached /\ phase[c] = "dead") ~> (c \notin Attached)
---------------------------------------------------------------------------
(* What the repository says, and the code does not do. *)

(* "Keep connecting while the connections are not full" (as_server.rs:123): *)
(* a login that found a free place comes to an end.                        *)
EveryLoginWorks ==
    \A c \in Channels : (phase[c] = "checked") ~> (phase[c] \notin {"checked", "login"})

(* "Several entries for a long message.  Skip the surplus ones when sending *)
(* again" (entity_running.rs:408): a message of several frames is never    *)
(* on its way to the peer twice.                                           *)
LongSentAgainOnce ==
    \A m \in Outs : Frames[m] > 1 =>
        \A c, d \in Channels :
            \A i \in DOMAIN common[c], j \in DOMAIN common[d] :
                common[c][i].m = m /\ common[d][j].m = m => c = d /\ i = j

(* "Decoding failed, skip the current message" (channel.rs:364): a frame    *)
(* that cannot be decoded costs no message the gateway was given to send.  *)
BadFrameCostsNoMessage ==
    ~EntityGone =>
        \A m \in Outs \ (unsent \cup failed) :
            \/ \E i \in 1..Frames[m] : <<m, i>> \in answered
            \/ HeldWhole(m)
            \/ \E k \in DOMAIN wait_receipt_map : wait_receipt_map[k].item.m = m

(* "When the buffer is full: once it can take messages again, say so"      *)
(* (entity_running.rs:238): the full state ends once nothing is queued.    *)
BufferFullEnds ==
    [](is_buff_full /\ Attached # {} /\ (\A c \in Channels : Occupancy(c) = 0)
         => <>(~is_buff_full \/ Attached = {} \/ \E c \in Channels : Occupancy(c) > 0))
===========================================================================
