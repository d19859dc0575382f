------------------------------ MODULE Channel ------------------------------
(***************************************************************************)
(* The tasks of an entity's connections (src/src/entity/channel.rs) and    *)
(* the login that attaches them to the entity (login_attach in             *)
(* src/src/entity/as_server.rs and as_custom.rs).                          *)
(*                                                                         *)
(* phase[c] = "off"      no connection yet, or the login was refused       *)
(*            "checked"  login_attach saw a free place, waits for TEMP_SAVE*)
(*            "login"    handles parked, TEMP_SAVE held, Connect not queued*)
(*            "work"     in the loop of start_work                         *)
(*            "drop"     the Channel is dropped; the task spawned by       *)
(*                       Drop::drop has not queued the Terminate yet       *)
(*            "dead"     gone                                              *)
(*                                                                         *)
(* hand[c] is the message the task is sending to the entity: it awaits     *)
(* that send before it does anything else.                                 *)
(*                                                                         *)
(* Names that end in _X and a word: mistakes, as in EntityRunning.         *)
(***************************************************************************)
EXTENDS GatewayBase

CONSTANTS
    Faults,        \* which of the faults below the environment has
    MaxTries       \* bound: encodings of each message the environment provokes

FaultKinds == {"peer_close", "peer_terminate", "abort", "write_error", "limited", "silence"}
ASSUME FaultsAssumption == Faults \subseteq FaultKinds /\ MaxTries \in [Outs -> Nat]

Phases == {"off", "checked", "login", "work", "drop", "dead"}

VARIABLES
    hand,             \* the message being sent to the entity, or NONE
    curr_tx,          \* parts sent in this one-second window
    curr_rx,          \* Submits received in this window
    wait_active_resp, \* a heartbeat is out and nothing has come back
    wire,             \* sequence numbers the peer has and has not answered
    tries,            \* how often each message was encoded: makes numbers unique
    unsent_in         \* inbound messages no peer has got an answer for

channelVars == <<hand, curr_tx, curr_rx, wait_active_resp, wire, tries, unsent_in>>
entityShared == <<pc, from_manager, send_channels, now_conn_num>>

InitChannel ==
    /\ phase = [c \in Channels |-> "off"]
    /\ hand = [c \in Channels |-> NONE]
    /\ curr_tx = [c \in Channels |-> 0] /\ curr_rx = [c \in Channels |-> 0]
    /\ wait_active_resp = [c \in Channels |-> FALSE]
    /\ wire = [c \in Channels |-> {}]
    /\ tries = [m \in Outs |-> 0]
    /\ unsent_in = Ins

QueueForEntity(msg) == HasRoom /\ ~EntityGone /\ from_channel' = Append(from_channel, msg)

MoveTo(c, ph) == phase' = [phase EXCEPT ![c] = ph]
---------------------------------------------------------------------------
(* login_attach *)

(* The check of the channel number; a refused login leaves nothing behind. *)
(* The registry entry the login found is gone once the entity is closed,   *)
(* see CloseEntity in Gateway.                                             *)
LoginCheck(c) ==
    /\ phase[c] = "off"
    /\ now_conn_num < MaxChannels
    /\ MoveTo(c, "checked")
    /\ UNCHANGED <<entityShared, from_channel, priority, common, parked, failed, channelVars>>

(* TEMP_SAVE.write(), insert. *)
Park(c) ==
    /\ phase[c] = "checked" /\ ~TempSaveLocked
    /\ parked' = parked \cup {c}
    /\ MoveTo(c, "login")
    /\ UNCHANGED <<entityShared, from_channel, priority, common, failed, channelVars>>

Announce_XTrySend(c) ==
    /\ phase[c] = "login"
    /\ QueueForEntity(ConnectMsg(c)) \/ (~HasRoom /\ UNCHANGED from_channel)
    /\ MoveTo(c, "work")
    /\ UNCHANGED <<entityShared, priority, common, parked, failed, channelVars>>

(* Connect is queued, TEMP_SAVE released, the connection starts to work. *)
Announce(c) ==
    /\ phase[c] = "login"
    /\ QueueForEntity(ConnectMsg(c))
    /\ MoveTo(c, "work")
    /\ UNCHANGED <<entityShared, priority, common, parked, failed, channelVars>>
---------------------------------------------------------------------------
(* start_work *)

(* At the select: nothing in hand. *)
Ready(c) == phase[c] = "work" /\ hand[c] = NONE

Leave_XNoTerminate(c) ==
    /\ MoveTo(c, "dead")
    /\ priority' = [priority EXCEPT ![c] = <<>>]
    /\ common' = [common EXCEPT ![c] = <<>>]
    /\ wire' = [wire EXCEPT ![c] = {}]
    /\ hand' = [hand EXCEPT ![c] = NONE]

(* The channel ends: Drop::drop, receivers dropped with what is in them.   *)
Leave(c) ==
    /\ MoveTo(c, "drop")
    /\ priority' = [priority EXCEPT ![c] = <<>>]
    /\ common' = [common EXCEPT ![c] = <<>>]
    /\ wire' = [wire EXCEPT ![c] = {}]
    /\ hand' = [hand EXCEPT ![c] = NONE]

(* clear(): what is still queued is published on sms.send.failure. *)
QueuedFor_XPriorityOnly(c) == {priority[c][i].m : i \in DOMAIN priority[c]}
QueuedFor(c) == {priority[c][i].m : i \in DOMAIN priority[c]}
                \cup {common[c][i].m : i \in DOMAIN common[c]}
ClearAndLeave(c) ==
    /\ failed' = failed \cup (QueuedFor(c) \cap Outs)
    /\ Leave(c)

(* The frames of one encoding, each with a number of its own. *)
NewSeqs(m) == [i \in 1..Frames[m] |-> <<m, tries[m] + 1, i>>]

Dequeue(c, isPriority) ==
    IF isPriority
    THEN priority' = [priority EXCEPT ![c] = Tail(@)] /\ UNCHANGED common
    ELSE common' = [common EXCEPT ![c] = Tail(@)] /\ UNCHANGED priority

Bounce_XCounts(c, item) ==
    /\ MsgNum(item) + curr_tx[c] > WriteLimit
    /\ curr_tx' = [curr_tx EXCEPT ![c] = @ + MsgNum(item)]
    /\ hand' = [hand EXCEPT ![c] = OutMsg(item)]
    /\ UNCHANGED <<wire, tries, failed>>

(* The window has no room for all parts: back to the entity. *)
Bounce(c, item) ==
    /\ MsgNum(item) + curr_tx[c] > WriteLimit
    /\ curr_tx' = [curr_tx EXCEPT ![c] = WriteLimit]
    /\ hand' = [hand EXCEPT ![c] = OutMsg(item)]
    /\ UNCHANGED <<wire, tries, failed>>

(* encode_message fails: nobody is told. *)
EncodeFails(c, item) ==
    /\ MsgNum(item) + curr_tx[c] <= WriteLimit
    /\ item.m \in Unencodable
    /\ UNCHANGED <<curr_tx, hand, wire, tries, failed>>

(* framed.send fails: told for a priority message, not for a common one. *)
WriteFails(c, item, isPriority) ==
    /\ "write_error" \in Faults
    /\ MsgNum(item) + curr_tx[c] <= WriteLimit
    /\ item.m \in Outs \ Unencodable
    /\ failed' = IF isPriority THEN failed \cup {item.m} ELSE failed
    /\ UNCHANGED <<curr_tx, hand, wire, tries>>

Write_XNoEcho(c, item) ==
    /\ MsgNum(item) + curr_tx[c] <= WriteLimit
    /\ item.m \in Outs \ Unencodable
    /\ LET seqs == NewSeqs(item.m)
       IN  /\ curr_tx' = [curr_tx EXCEPT ![c] = @ + MsgNum(item)]
           /\ tries' = [tries EXCEPT ![item.m] = @ + 1]
           /\ wire' = [wire EXCEPT ![c] = @ \cup {seqs[i] : i \in DOMAIN seqs}]
    /\ UNCHANGED <<failed, hand>>

(* Written: counted, and echoed to the entity to wait for its answer. *)
Write(c, item) ==
    /\ MsgNum(item) + curr_tx[c] <= WriteLimit
    /\ item.m \in Outs \ Unencodable
    /\ LET seqs == NewSeqs(item.m)
       IN  /\ curr_tx' = [curr_tx EXCEPT ![c] = @ + MsgNum(item)]
           /\ tries' = [tries EXCEPT ![item.m] = @ + 1]
           /\ wire' = [wire EXCEPT ![c] = @ \cup {seqs[i] : i \in DOMAIN seqs}]
           /\ hand' = [hand EXCEPT ![c] = OutMsg([m |-> item.m, wait |-> TRUE, seqs |-> seqs])]
    /\ UNCHANGED failed

(* The Terminate of a closing entity: its echo is a message without an id, *)
(* which the entity ignores.                                               *)
WriteTerminate(c, item) ==
    /\ item.m = "Terminate" /\ "Terminate" \notin Unencodable
    /\ hand' = [hand EXCEPT ![c] = OutMsg(item)]
    /\ UNCHANGED <<curr_tx, wire, tries, failed>>

Take(c, item, isPriority) ==
    /\ Dequeue(c, isPriority)
    /\ \/ Bounce(c, item)
       \/ EncodeFails(c, item)
       \/ WriteFails(c, item, isPriority)
       \/ Write(c, item)
       \/ WriteTerminate(c, item)
    /\ UNCHANGED <<entityShared, from_channel, parked, phase, curr_rx,
                   wait_active_resp, unsent_in>>

CanTake(c) == Ready(c) /\ curr_tx[c] < WriteLimit

TakePriority(c) ==
    /\ CanTake(c) /\ priority[c] # <<>>
    /\ Take(c, Head(priority[c]), TRUE)

(* The select is biased: the common queue when the priority queue is empty.*)
TakeCommon(c) ==
    /\ CanTake(c) /\ priority[c] = <<>> /\ common[c] # <<>>
    /\ ~SendersGone(c)
    /\ Take(c, Head(common[c]), FALSE)

(* recv() yields None: no send handle is left and the queue is empty. *)
SendersLeft(c) ==
    /\ CanTake(c) /\ priority[c] = <<>> /\ SendersGone(c)
    /\ ClearAndLeave(c)
    /\ UNCHANGED <<entityShared, from_channel, parked, curr_tx, curr_rx,
                   wait_active_resp, tries, unsent_in>>

(* channel_to_entity_tx.send(..).await *)
PushHand(c) ==
    /\ phase[c] = "work" /\ hand[c] # NONE
    /\ QueueForEntity(hand[c])
    /\ hand' = [hand EXCEPT ![c] = NONE]
    /\ UNCHANGED <<entityShared, priority, common, parked, phase, failed, curr_tx, curr_rx,
                   wait_active_resp, wire, tries, unsent_in>>

(* The entity is gone.  An outgoing message that cannot be handed back     *)
(* ends the task, without clear(); an inbound one is only logged.          *)
PushHandFails(c) ==
    /\ phase[c] = "work" /\ hand[c] # NONE /\ EntityGone
    /\ \/ /\ hand[c].type = "Out"
          /\ Leave(c)
       \/ /\ hand[c].type # "Out"
          /\ hand' = [hand EXCEPT ![c] = NONE]
          /\ UNCHANGED <<phase, priority, common, wire>>
    /\ UNCHANGED <<entityShared, from_channel, parked, failed, curr_tx, curr_rx,
                   wait_active_resp, tries, unsent_in>>

(* More than a second since the window began. *)
NewWindow(c) ==
    /\ Ready(c) /\ curr_tx[c] + curr_rx[c] > 0
    /\ curr_tx' = [curr_tx EXCEPT ![c] = 0]
    /\ curr_rx' = [curr_rx EXCEPT ![c] = 0]
    /\ UNCHANGED <<entityShared, from_channel, priority, common, parked, phase, failed,
                   hand, wait_active_resp, wire, tries, unsent_in>>
---------------------------------------------------------------------------
(* framed.next(): polled when neither queue has anything to take. *)
Reads_XBusy(c) == phase[c] = "work" /\ (priority[c] = <<>> /\ common[c] = <<>>)
Reads(c) == Ready(c) /\ ~(curr_tx[c] < WriteLimit /\
                          (priority[c] # <<>> \/ common[c] # <<>> \/ SendersGone(c)))

(* Bound: at most one message like this one waits for the entity; the      *)
(* queue of a Custom entity has no capacity that would bound repetitions.  *)
NoneWaiting(msg) == \A i \in DOMAIN from_channel : from_channel[i] # msg

Receive(c, msg) ==
    /\ Reads(c)
    /\ wait_active_resp' = [wait_active_resp EXCEPT ![c] = FALSE]
    /\ hand' = [hand EXCEPT ![c] = msg]
    /\ UNCHANGED <<entityShared, from_channel, priority, common, parked, phase, failed,
                   curr_tx, tries>>

(* An answer to a frame; a Submit may be refused for speed. *)
PeerReply(c) ==
    /\ \E k \in wire[c], limited \in BOOLEAN :
        /\ limited => /\ "limited" \in Faults /\ tries[k[1]] < MaxTries[k[1]]
                      /\ MsgType[k[1]] = "Submit"
        /\ Receive(c, RespMsg(k, limited))
        /\ wire' = [wire EXCEPT ![c] = @ \ {k}]
    /\ UNCHANGED <<curr_rx, unsent_in>>

(* An inbound message within the limit, or one that is not a Submit, is    *)
(* answered and handed on.                                                 *)
PeerSends(c) ==
    /\ \E i \in unsent_in :
        /\ InType[i] = "Submit" => curr_rx[c] < ReadLimit
        /\ curr_rx' = [curr_rx EXCEPT ![c] = IF InType[i] = "Submit" THEN @ + 1 ELSE @]
        /\ Receive(c, InMsg(i))
        /\ unsent_in' = unsent_in \ {i}
    /\ UNCHANGED wire

(* A Submit beyond the limit is refused (TrafficRestrictions), and the     *)
(* peer keeps it; without an answer frame it is handed on all the same.    *)
(* curr_rx saturates one above the limit, where all values act alike.      *)
PeerSendsTooMuch(c) ==
    /\ \E i \in unsent_in :
        /\ InType[i] = "Submit" /\ curr_rx[c] >= ReadLimit
        /\ curr_rx' = [curr_rx EXCEPT ![c] = ReadLimit + 1]
        /\ IF i \in NoReceipt
           THEN Receive(c, InMsg(i)) /\ unsent_in' = unsent_in \ {i}
           ELSE Receive(c, NONE) /\ UNCHANGED unsent_in
    /\ UNCHANGED wire

(* The answer to an inbound message cannot be written: not handed on. *)
ReceiptFails(c) ==
    /\ "write_error" \in Faults
    /\ \E i \in unsent_in \ NoReceipt :
        /\ InType[i] = "Submit" => curr_rx[c] < ReadLimit
        /\ curr_rx' = [curr_rx EXCEPT ![c] = IF InType[i] = "Submit" THEN @ + 1 ELSE @]
        /\ Receive(c, NONE)
    /\ UNCHANGED <<wire, unsent_in>>

(* At the top of the loop: a heartbeat goes out when the channel has been  *)
(* idle.  Unanswered until the next one is due, it ends the task without   *)
(* clear(), whatever was queued since it was idle.                         *)
Heartbeat(c) ==
    /\ "silence" \in Faults
    /\ Ready(c)
    /\ \/ /\ ~wait_active_resp[c]
          /\ wait_active_resp' = [wait_active_resp EXCEPT ![c] = TRUE]
          /\ UNCHANGED <<phase, priority, common, wire, hand>>
       \/ /\ wait_active_resp[c]
          /\ Leave(c)
          /\ UNCHANGED wait_active_resp
    /\ UNCHANGED <<entityShared, from_channel, parked, failed, curr_tx, curr_rx,
                   tries, unsent_in>>

HeartbeatAnswered(c) ==
    /\ wait_active_resp[c] /\ NoneWaiting(OtherMsg)
    /\ Receive(c, OtherMsg)
    /\ UNCHANGED <<curr_rx, unsent_in, wire>>

(* The peer says Terminate: handed on with this channel's id.  The channel *)
(* works on until the entity drops its handles or the peer closes.         *)
PeerTerminates(c) ==
    /\ "peer_terminate" \in Faults /\ NoneWaiting(TerminateMsg(c))
    /\ Receive(c, TerminateMsg(c))
    /\ UNCHANGED <<curr_rx, unsent_in, wire>>

(* The connection ends. *)
PeerCloses(c) ==
    /\ "peer_close" \in Faults
    /\ Reads(c)
    /\ ClearAndLeave(c)
    /\ UNCHANGED <<entityShared, from_channel, parked, curr_tx, curr_rx,
                   wait_active_resp, tries, unsent_in>>

(* A frame that cannot be decoded, or a login answer that cannot be        *)
(* written: the task ends without clear().                                 *)
Abort(c) ==
    /\ "abort" \in Faults
    /\ Reads(c)
    /\ Leave(c)
    /\ UNCHANGED <<entityShared, from_channel, parked, failed, curr_tx, curr_rx,
                   wait_active_resp, tries, unsent_in>>

DropSend_XTrySend(c) ==
    /\ phase[c] = "drop"
    /\ QueueForEntity(TerminateMsg(c)) \/ ((EntityGone \/ ~HasRoom) /\ UNCHANGED from_channel)
    /\ MoveTo(c, "dead")
    /\ UNCHANGED <<entityShared, priority, common, parked, failed, channelVars>>

(* The task spawned by Drop::drop: Terminate with this channel's id. *)
DropSend(c) ==
    /\ phase[c] = "drop"
    /\ QueueForEntity(TerminateMsg(c)) \/ (EntityGone /\ UNCHANGED from_channel)
    /\ MoveTo(c, "dead")
    /\ UNCHANGED <<entityShared, priority, common, parked, failed, channelVars>>

(* What the task does by itself, and what its peer makes it do. *)
ChannelStep(c) ==
    \/ Park(c) \/ Announce(c)
    \/ TakePriority(c) \/ TakeCommon(c) \/ SendersLeft(c)
    \/ PushHand(c) \/ PushHandFails(c) \/ NewWindow(c) \/ DropSend(c)
PeerStep(c) ==
    \/ PeerReply(c) \/ PeerSends(c) \/ PeerSendsTooMuch(c) \/ ReceiptFails(c)
    \/ Heartbeat(c) \/ HeartbeatAnswered(c)
    \/ PeerTerminates(c) \/ PeerCloses(c) \/ Abort(c)
===========================================================================
