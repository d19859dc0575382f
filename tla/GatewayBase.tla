---------------------------- MODULE GatewayBase ----------------------------
(***************************************************************************)
(* What the tasks of one entity share: the queues between them, the send   *)
(* handles parked in TEMP_SAVE, the list of send handles the entity holds, *)
(* and the counter now_conn_num that the login check reads.                *)
(*                                                                         *)
(* One entity is modelled: the Kafka side (EntityManager) as the           *)
(* environment, the entity's task (module EntityRunning) and the tasks of  *)
(* its connections (module Channel).  A channel id stands for one          *)
(* connection attempt: get_sequence_id gives every connection a new one.   *)
(***************************************************************************)
EXTENDS Integers, Sequences, FiniteSets

CONSTANTS
    Channels,      \* connection attempts (the ids of login_attach)
    Outs,          \* messages the business side sends: send.submit/.deliver/.report
    Ins,           \* messages the peers send
    NONE           \* no message, no channel

CONSTANTS
    EntityType,    \* "Server": we log in to an operator; "Custom": clients log in
    MsgType,       \* Outs -> {"Submit", "Deliver", "Report"}
    MsgIds,        \* Outs -> Nat: how many msg_ids the business side gave
    Frames,        \* Outs -> Nat \ {0}: frames the encoder cuts the content into
    IsPriority,    \* the Outs with is_priority = true
    Unencodable,   \* the Outs (and perhaps "Terminate") encode_message refuses
    InType,        \* Ins -> {"Submit", "Deliver", "Report"}
    NoReceipt,     \* the Ins for which encode_receipt has no answer frame
    ReadOnly       \* the Channels whose login said can_write = false

CONSTANTS
    ReadLimit,     \* read_limit: frames accepted per window, capacity of a Server's queue
    WriteLimit,    \* write_limit: parts sent per window
    SendBuffCap,   \* max_buff_cap; 0 when the configuration has none
    MaxChannels,   \* max_channel_number (+ server_connect_number)
    IndexCycle     \* index is kept modulo this; usize::MAX in the code

ASSUME ChannelsAssumption == NONE \notin Channels
ASSUME OutsAssumption ==
    /\ "Terminate" \notin Outs /\ NONE \notin Outs
    /\ MsgType \in [Outs -> {"Submit", "Deliver", "Report"}]
    /\ MsgIds \in [Outs -> Nat] /\ Frames \in [Outs -> Nat \ {0}]
    /\ IsPriority \subseteq Outs
ASSUME InsAssumption ==
    InType \in [Ins -> {"Submit", "Deliver", "Report"}] /\ NoReceipt \subseteq Ins
ASSUME LimitsAssumption ==
    /\ EntityType \in {"Server", "Custom"}
    /\ {ReadLimit, WriteLimit} \subseteq Nat \ {0}
    /\ {SendBuffCap, MaxChannels} \subseteq Nat /\ IndexCycle \in Nat \ {0}

VARIABLES
    pc,            \* where the entity's task is
    from_manager,  \* manager -> entity queue
    from_channel,  \* channels -> entity queue (channel_to_entity)
    priority,      \* entity -> channel queue, priority
    common,        \* entity -> channel queue, ordinary
    parked,        \* channels whose send handles wait in TEMP_SAVE
    send_channels, \* the entity's list of send handles
    now_conn_num,  \* AtomicU8 shared by the entity's task and the login check
    phase,         \* where each channel's task is
    failed         \* Outs published on sms.send.failure

baseVars == <<pc, from_manager, from_channel, priority, common, parked,
              send_channels, now_conn_num, phase, failed>>
---------------------------------------------------------------------------
(* Messages.  Only an outgoing message comes back over the queue to the    *)
(* entity with its own type: wait (WAIT_RECEIPT) tells the echo of a sent  *)
(* message from one the channel bounced, and seqs are its SEQ_IDS.         *)
Seqs == Outs \X Nat \X Nat          \* <<message, attempt, part>>: unique per frame
Items == {item \in [m : Outs \cup {"Terminate"}, wait : BOOLEAN, seqs : Seq(Seqs)] :
             item.wait => item.m \in Outs /\ item.seqs # <<>>}
SentItems == {item \in Items : item.wait}

NewItem(m) == [m |-> m, wait |-> FALSE, seqs |-> <<>>]
Terminate == NewItem("Terminate")

ManagerMsgs == [type : {"send"}, m : Outs] \cup [type : {"passage.request.state", "close"}]

OutMsg(item) == [type |-> "Out", item |-> item]
RespMsg(k, limited) == [type |-> "Resp", seq |-> k, limited |-> limited]
InMsg(i) == [type |-> "In", i |-> i]
ConnectMsg(c) == [type |-> "Connect", c |-> c]
TerminateMsg(c) == [type |-> "Terminate", c |-> c]
OtherMsg == [type |-> "Other"]      \* heartbeat frames: the entity ignores them

ChannelMsgs ==
    [type : {"Out"}, item : Items]
    \cup [type : {"Resp"}, seq : Seqs, limited : BOOLEAN]
    \cup [type : {"In"}, i : Ins]
    \cup [type : {"Connect", "Terminate"}, c : Channels]
    \cup {OtherMsg}
ASSUME NoneAssumption == NONE \notin ChannelMsgs
---------------------------------------------------------------------------
(* mpsc::channel(read_limit) for a Server; 0xffffffff, no bound, otherwise. *)
HasRoom == EntityType = "Server" => Len(from_channel) < ReadLimit

(* The from_channel receiver exists until start_entity returns. *)
EntityGone == pc = "stopped"

Attached == {send_channels[i] : i \in DOMAIN send_channels}

(* recv() of a channel yields None once no send handle of it is left. *)
SendersGone(c) == c \notin parked /\ c \notin Attached

(* send() to a channel fails once its receivers are closed or dropped. *)
ReceiverOpen(c) == phase[c] \in {"login", "work"}

(* TEMP_SAVE.write() is held by a login until its Connect is queued. *)
TempSaveLocked == \E c \in Channels : phase[c] = "login"

(* 2 * CHANNEL_BUFF_NUM minus the two capacities. *)
Occupancy(c) == Len(priority[c]) + Len(common[c])

(* MSG_IDS.len(): given by the business side for a Submit; the encoder    *)
(* adds it to a Deliver; a Report has none.                               *)
MsgNum(item) ==
    IF item.m = "Terminate" THEN 0
    ELSE CASE MsgType[item.m] = "Submit" -> MsgIds[item.m]
           [] MsgType[item.m] = "Deliver" -> Len(item.seqs)
           [] MsgType[item.m] = "Report" -> 0

AsU8(n) == n % 256

(* Vec::retain(|item| item.id != c); an id is in the list at most once. *)
Without(s, c) ==
    IF \E i \in DOMAIN s : s[i] = c
    THEN LET p == CHOOSE i \in DOMAIN s : s[i] = c
         IN  [j \in 1..(Len(s) - 1) |-> IF j < p THEN s[j] ELSE s[j + 1]]
    ELSE s
===========================================================================
