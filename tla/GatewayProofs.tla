--------------------------- MODULE GatewayProofs ---------------------------
(***************************************************************************)
(* The gateway of one entity, for every value of the constants: type       *)
(* correctness, and what the entity reports of itself.                     *)
(***************************************************************************)
EXTENDS GatewayProperties, SequenceTheorems, TLAPS

(* Vec::retain(|item| item.id != c) on a list that has c at most once.     *)
LEMMA WithoutType ==
    ASSUME NEW S, NEW s \in Seq(S), NEW c
    PROVE  /\ Without(s, c) \in Seq(S)
           /\ Len(Without(s, c)) \in {Len(s), Len(s) - 1}
           /\ Len(Without(s, c)) \in Nat
<1>1. CASE ~\E i \in DOMAIN s : s[i] = c
  BY <1>1, LenProperties DEF Without
<1>2. CASE \E i \in DOMAIN s : s[i] = c
  <2> DEFINE p == CHOOSE i \in DOMAIN s : s[i] = c
             t == [j \in 1..(Len(s) - 1) |-> IF j < p THEN s[j] ELSE s[j + 1]]
  <2>1. p \in 1..Len(s) /\ Len(s) \in Nat \ {0}
    BY <1>2, LenProperties
  <2>2. t \in [1..(Len(s) - 1) -> S]
    BY <2>1, ElementOfSeq
  <2>3. t \in Seq(S) /\ Len(t) = Len(s) - 1
    BY <2>1, <2>2, SMT
  <2> QED BY <1>2, <2>1, <2>3 DEF Without
<1> QED BY <1>1, <1>2
---------------------------------------------------------------------------
LEMMA ItemTypes ==
    /\ Terminate \in Items
    /\ \A m \in Outs : NewItem(m) \in Items
    /\ SentItems \subseteq Items
    /\ \A item \in SentItems : item.m \in Outs
BY DEF Terminate, NewItem, Items, SentItems

LEMMA InitTyped == Init => TypeOK
<1> SUFFICES ASSUME Init PROVE TypeOK
  OBVIOUS
<1>1. QueuesTyped
  BY DEF Init, InitChannel, QueuesTyped, Phases
<1>2. EntityTyped
  <2>1. index \in 0..(IndexCycle - 1)
    BY LimitsAssumption DEF Init, InitEntity
  <2>2. DOMAIN wait_receipt_map = {}
    BY DEF Init, InitEntity
  <2> QED BY ItemTypes, <2>1, <2>2 DEF Init, InitEntity, EntityTyped, States
<1>3. ChannelsTyped
  BY LimitsAssumption DEF Init, InitChannel, ChannelsTyped
<1> QED BY <1>1, <1>2, <1>3 DEF Init, TypeOK
---------------------------------------------------------------------------
(* The shape of a message the entity takes from its queues.                *)
LEMMA Taken ==
    ASSUME QueuesTyped, NEW type, TakeFromChannel(type)
    PROVE  /\ from_channel' \in Seq(ChannelMsgs)
           /\ Head(from_channel) \in ChannelMsgs
           /\ Head(from_channel).type = type
           /\ pc = "select"
BY DEF QueuesTyped, TakeFromChannel

LEMMA MsgShapes ==
    ASSUME NEW msg \in ChannelMsgs
    PROVE  /\ msg.type = "Out" => msg.item \in Items
           /\ msg.type = "Resp" => msg.seq \in Seqs
           /\ msg.type = "In" => msg.i \in Ins
           /\ msg.type \in {"Connect", "Terminate"} => msg.c \in Channels
BY DEF ChannelMsgs, OtherMsg

LEMMA StartSendTyped ==
    ASSUME QueuesTyped, NEW item \in Items, item.m \in Outs, StartSend(item)
    PROVE  pc' = "send" /\ sending' \in Items /\ sending'.m \in Outs /\ left' \in Nat
BY DEF QueuesTyped, StartSend

LEMMA ReturnTyped ==
    ASSUME Return
    PROVE  pc' \in {"select", "resend"} /\ sending' \in Items /\ left' \in Nat
BY ItemTypes DEF Return

(* Entries taken out of wait_receipt_map leave the others as they are.     *)
MapTyped ==
    /\ DOMAIN wait_receipt_map \subseteq Seqs
    /\ \A k \in DOMAIN wait_receipt_map : wait_receipt_map[k] \in Entries

LEMMA RestrictTyped ==
    ASSUME MapTyped, NEW S,
           wait_receipt_map' = Restrict(wait_receipt_map, DOMAIN wait_receipt_map \ S)
    PROVE  MapTyped'
BY DEF MapTyped, Restrict

LEMMA EntryItems ==
    ASSUME MapTyped, NEW k \in DOMAIN wait_receipt_map
    PROVE  /\ wait_receipt_map[k].item \in SentItems
           /\ wait_receipt_map[k].item \in Items
           /\ wait_receipt_map[k].item.m \in Outs
           /\ wait_receipt_map[k].part \in Nat
BY ItemTypes DEF MapTyped, Entries

LEMMA StateTyped == \A full, n : StateOf(full, n) \in States
BY DEF StateOf, States
---------------------------------------------------------------------------
(* The timers. *)
LEMMA TimersTyped ==
    ASSUME TypeOK, ReSend \/ PopResend \/ ClearSendSmsCache
    PROVE  QueuesTyped' /\ EntityTyped'
<1>0. QueuesTyped /\ EntityTyped /\ MapTyped
  BY DEF TypeOK, EntityTyped, MapTyped
<1>1. CASE ReSend
  <2>1. MapTyped'
    BY <1>0, <1>1, RestrictTyped DEF ReSend
  <2>2. to_resend' \subseteq SentItems /\ timed_out' \subseteq Seqs
    BY <1>0, <1>1, EntryItems DEF ReSend, Overdue, EntityTyped
  <2>3. QueuesTyped'
    BY <1>0, <1>1 DEF ReSend, QueuesTyped, channelQueues
  <2>4. EntityTyped'
    BY <1>0, <1>1, <2>1, <2>2 DEF ReSend, EntityTyped, MapTyped
  <2> QED BY <2>3, <2>4
<1>2. CASE PopResend
  <2>1. PICK item \in to_resend : to_resend' = to_resend \ {item} /\ StartSend(item)
    BY <1>2 DEF PopResend
  <2>2. item \in Items /\ item.m \in Outs
    BY <1>0, <2>1, ItemTypes DEF EntityTyped
  <2>3. pc' = "send" /\ sending' \in Items /\ sending'.m \in Outs /\ left' \in Nat
    BY <1>0, <2>1, <2>2, StartSendTyped
  <2>4. QueuesTyped'
    BY <1>0, <1>2 DEF PopResend, QueuesTyped, channelQueues
  <2>5. EntityTyped'
    BY <1>0, <1>2, <2>1, <2>3 DEF PopResend, EntityTyped, published
  <2> QED BY <2>4, <2>5
<1>3. CASE ClearSendSmsCache
  <2>1. MapTyped'
    BY <1>0, <1>3, RestrictTyped DEF ClearSendSmsCache
  <2>2. timed_out' \subseteq Seqs
    BY <1>0, <1>3 DEF ClearSendSmsCache, EntityTyped
  <2>3. QueuesTyped'
    BY <1>0, <1>3 DEF ClearSendSmsCache, QueuesTyped, baseVars
  <2>4. EntityTyped'
    BY <1>0, <1>3, <2>1, <2>2 DEF ClearSendSmsCache, EntityTyped, MapTyped, baseVars
  <2> QED BY <2>3, <2>4
<1> QED BY <1>1, <1>2, <1>3
---------------------------------------------------------------------------
(* send_to_channels. *)
LEMMA DetachTyped ==
    ASSUME QueuesTyped, NEW c, Detach(c)
    PROVE  send_channels' \in Seq(Channels) /\ now_conn_num' \in 0..255
<1>1. send_channels' \in Seq(Channels) /\ Len(send_channels') \in Nat
  BY WithoutType DEF QueuesTyped, Detach
<1>2. \A n \in Nat : AsU8(n) \in 0..255
  BY DEF AsU8
<1> QED BY <1>1, <1>2 DEF Detach

LEMMA CheckBufferTyped ==
    ASSUME EntityTyped, NEW c, CheckBuffer(c)
    PROVE  is_buff_full' \in BOOLEAN /\ last_state' \in States
BY StateTyped DEF EntityTyped, CheckBuffer

LEMMA EnqueueTyped ==
    ASSUME QueuesTyped, NEW c, NEW item \in Items, Enqueue(c, item)
    PROVE  priority' \in [Channels -> Seq(Items)] /\ common' \in [Channels -> Seq(Items)]
<1>1. \A q \in [Channels -> Seq(Items)] :
          [q EXCEPT ![c] = Append(@, item)] \in [Channels -> Seq(Items)]
  <2> TAKE q \in [Channels -> Seq(Items)]
  <2>1. c \in Channels => Append(q[c], item) \in Seq(Items)
    BY AppendProperties
  <2> QED BY <2>1
<1> QED BY <1>1 DEF QueuesTyped, Enqueue

LEMMA SendTyped ==
    ASSUME TypeOK, TryChannel \/ NoChannelTook
    PROVE  QueuesTyped' /\ EntityTyped'
<1>0. QueuesTyped /\ EntityTyped
  BY DEF TypeOK
<1>1. CASE TryChannel
  <2>1. index' \in 0..(IndexCycle - 1)
    BY <1>0, <1>1, LimitsAssumption DEF TryChannel, NextIndex, EntityTyped
  <2>2. pc = "send" /\ left \in Nat /\ left > 0 /\ left - 1 \in Nat
        /\ sending \in Items /\ sending.m \in Outs
    BY <1>0, <1>1 DEF TryChannel, EntityTyped
  <2>3. CASE SkipReadOnly
    <3>1. QueuesTyped'
      BY <1>0, <1>1, <2>3 DEF TryChannel, SkipReadOnly, QueuesTyped
    <3>2. EntityTyped'
      BY <1>0, <1>1, <2>1, <2>2, <2>3 DEF TryChannel, SkipReadOnly, EntityTyped, published
    <3> QED BY <3>1, <3>2
  <2>4. CASE SendToOpen
    <3>1. /\ priority' \in [Channels -> Seq(Items)]
          /\ common' \in [Channels -> Seq(Items)]
      BY <1>0, <2>2, <2>4, EnqueueTyped DEF SendToOpen
    <3>2. is_buff_full' \in BOOLEAN /\ last_state' \in States
      BY <1>0, <2>4, CheckBufferTyped DEF SendToOpen
    <3>3. pc' \in {"select", "resend"} /\ sending' \in Items /\ left' \in Nat
      BY <2>4, ReturnTyped DEF SendToOpen
    <3>4. QueuesTyped'
      BY <1>0, <1>1, <2>4, <3>1 DEF TryChannel, SendToOpen, QueuesTyped
    <3>5. EntityTyped'
      BY <1>0, <1>1, <2>1, <3>2, <3>3 DEF TryChannel, EntityTyped, published
    <3> QED BY <3>4, <3>5
  <2>5. CASE SendToClosed
    <3>1. send_channels' \in Seq(Channels) /\ now_conn_num' \in 0..255
      BY <1>0, <2>5, DetachTyped DEF SendToClosed
    <3>2. is_buff_full' \in BOOLEAN /\ last_state' \in States
      BY <1>0, <2>5, CheckBufferTyped DEF SendToClosed
    <3>3. QueuesTyped'
      BY <1>0, <1>1, <2>5, <3>1 DEF TryChannel, SendToClosed, QueuesTyped
    <3>4. EntityTyped'
      BY <1>0, <1>1, <2>1, <2>2, <2>5, <3>2
      DEF TryChannel, SendToClosed, EntityTyped, published
    <3> QED BY <3>3, <3>4
  <2> QED BY <1>1, <2>3, <2>4, <2>5 DEF TryChannel
<1>2. CASE NoChannelTook
  <2>1. pc' \in {"select", "resend"} /\ sending' \in Items /\ left' \in Nat
    BY <1>2, ReturnTyped DEF NoChannelTook
  <2>2. last_state' \in States
    BY <1>2, StateTyped DEF NoChannelTook
  <2>3. failed' \subseteq Outs
    BY <1>0, <1>2 DEF NoChannelTook, QueuesTyped, EntityTyped
  <2>4. QueuesTyped'
    BY <1>0, <1>2, <2>3 DEF NoChannelTook, QueuesTyped, channelQueues
  <2>5. EntityTyped'
    BY <1>0, <1>2, <2>1, <2>2 DEF NoChannelTook, EntityTyped, published
  <2> QED BY <2>4, <2>5
<1> QED BY <1>1, <1>2
---------------------------------------------------------------------------
(* handle_from_channel_rx: the answers of the peers. *)
LEMMA AnswersTyped ==
    ASSUME TypeOK, AnswerLimited \/ AnswerMatched \/ AnswerUnmatched
    PROVE  QueuesTyped' /\ EntityTyped'
<1> DEFINE msg == Head(from_channel)
<1>0. QueuesTyped /\ EntityTyped /\ MapTyped
  BY DEF TypeOK, EntityTyped, MapTyped
<1>T. from_channel' \in Seq(ChannelMsgs) /\ msg.seq \in Seqs /\ pc = "select"
  <2>1. TakeFromChannel("Resp")
    BY DEF AnswerLimited, AnswerMatched, AnswerUnmatched
  <2> QED BY <1>0, <2>1, Taken, MsgShapes
<1>1. CASE AnswerLimited
  <2> DEFINE item == wait_receipt_map[msg.seq].item
  <2>1. item \in Items /\ item.m \in Outs
    BY <1>0, <1>1, EntryItems DEF AnswerLimited
  <2>2. pc' = "send" /\ sending' \in Items /\ sending'.m \in Outs /\ left' \in Nat
    BY <1>0, <1>1, <2>1, StartSendTyped DEF AnswerLimited
  <2>3. MapTyped'
    BY <1>0, <1>1, RestrictTyped DEF AnswerLimited, Forget
  <2>4. QueuesTyped'
    BY <1>0, <1>1, <1>T DEF AnswerLimited, QueuesTyped, channelQueues
  <2>5. EntityTyped'
    BY <1>0, <1>1, <2>2, <2>3 DEF AnswerLimited, EntityTyped, MapTyped, published
  <2> QED BY <2>4, <2>5
<1>2. CASE AnswerMatched
  <2>1. MapTyped'
    BY <1>0, <1>2, RestrictTyped DEF AnswerMatched, Forget
  <2>2. answered' \subseteq Outs \X Nat
    BY <1>0, <1>2, EntryItems DEF AnswerMatched, EntityTyped
  <2>3. is_buff_full' \in BOOLEAN /\ last_state' \in States
    BY <1>0, <1>2, StateTyped DEF AnswerMatched, RecheckBuffer, EntityTyped
  <2>4. QueuesTyped'
    BY <1>0, <1>2, <1>T DEF AnswerMatched, QueuesTyped, channelQueues
  <2>5. EntityTyped'
    BY <1>0, <1>2, <2>1, <2>2, <2>3 DEF AnswerMatched, EntityTyped, MapTyped
  <2> QED BY <2>4, <2>5
<1>3. CASE AnswerUnmatched
  <2>1. unmatched' \subseteq Seqs
    BY <1>0, <1>3, <1>T DEF AnswerUnmatched, EntityTyped
  <2>2. QueuesTyped'
    BY <1>0, <1>3, <1>T DEF AnswerUnmatched, QueuesTyped, channelQueues
  <2>3. EntityTyped'
    BY <1>0, <1>3, <2>1 DEF AnswerUnmatched, EntityTyped
  <2> QED BY <2>2, <2>3
<1> QED BY <1>1, <1>2, <1>3
---------------------------------------------------------------------------
(* handle_from_channel_rx: everything else.                                *)
LEMMA InsertTyped ==
    ASSUME MapTyped, NEW item \in SentItems, Insert(item)
    PROVE  MapTyped'
<1> DEFINE count == IF MsgType[item.m] # "Submit" THEN 1
                    ELSE IF Len(item.seqs) <= MsgIds[item.m] THEN Len(item.seqs)
                    ELSE MsgIds[item.m]
           keys == {item.seqs[i] : i \in 1..count}
           part(k) == CHOOSE i \in 1..count : item.seqs[i] = k
<1>1. item.m \in Outs /\ item.seqs \in Seq(Seqs) /\ Len(item.seqs) \in Nat \ {0}
  BY DEF SentItems, Items
<1>2. count \in Nat /\ count <= Len(item.seqs)
  BY <1>1, OutsAssumption
<1>3. \A i \in 1..count : item.seqs[i] \in Seqs
  BY <1>1, <1>2, ElementOfSeq
<1> HIDE DEF count
<1>4. \A k \in keys : part(k) \in Nat
  <2> TAKE k \in keys
  <2>1. part(k) \in 1..count
    OBVIOUS
  <2> QED BY <1>2, <2>1
<1>5. \A k \in keys : [item |-> item, part |-> part(k), need |-> part(k) = 1, age |-> 0] \in Entries
  BY <1>4 DEF Entries
<1>6. wait_receipt_map' =
        [k \in DOMAIN wait_receipt_map \cup keys |->
            IF k \in keys
            THEN [item |-> item, part |-> part(k), need |-> part(k) = 1, age |-> 0]
            ELSE wait_receipt_map[k]]
  BY DEF Insert, count
<1> HIDE DEF part
<1> QED BY <1>3, <1>5, <1>6 DEF MapTyped

LEMMA OutgoingTyped ==
    ASSUME TypeOK, CacheSent \/ PushBack
    PROVE  QueuesTyped' /\ EntityTyped'
<1> DEFINE item == Head(from_channel).item
<1>0. QueuesTyped /\ EntityTyped /\ MapTyped
  BY DEF TypeOK, EntityTyped, MapTyped
<1>T. from_channel' \in Seq(ChannelMsgs) /\ item \in Items /\ pc = "select"
  <2>1. TakeFromChannel("Out")
    BY DEF CacheSent, PushBack
  <2> QED BY <1>0, <2>1, Taken, MsgShapes
<1>1. CASE CacheSent
  <2>1. item \in SentItems /\ Insert(item)
    BY <1>1, <1>T DEF CacheSent, SentItems
  <2>2. MapTyped'
    BY <1>0, <2>1, InsertTyped
  <2>3. QueuesTyped'
    BY <1>0, <1>1, <1>T DEF CacheSent, QueuesTyped, channelQueues
  <2>4. EntityTyped'
    BY <1>0, <1>1, <2>2 DEF CacheSent, EntityTyped, MapTyped, published
  <2> QED BY <2>3, <2>4
<1>2. CASE PushBack
  <2>1. StartSend(item) /\ item.m \in Outs
    BY <1>2 DEF PushBack
  <2>2. pc' = "send" /\ sending' \in Items /\ sending'.m \in Outs /\ left' \in Nat
    BY <1>0, <1>T, <2>1, StartSendTyped
  <2>3. QueuesTyped'
    BY <1>0, <1>2, <1>T DEF PushBack, QueuesTyped, channelQueues
  <2>4. EntityTyped'
    BY <1>0, <1>2, <2>2 DEF PushBack, EntityTyped, published
  <2> QED BY <2>3, <2>4
<1> QED BY <1>1, <1>2

LEMMA ArrivalsTyped ==
    ASSUME TypeOK,
           \/ PublishInbound \/ IgnoreOther
           \/ ChannelTerminated \/ TakeConnect \/ ChannelConnected
    PROVE  QueuesTyped' /\ EntityTyped'
<1>0. QueuesTyped /\ EntityTyped
  BY DEF TypeOK
<1>1. CASE PublishInbound
  <2>1. TakeFromChannel("In")
    BY <1>1 DEF PublishInbound
  <2>2. from_channel' \in Seq(ChannelMsgs) /\ Head(from_channel).i \in Ins
    BY <1>0, <2>1, Taken, MsgShapes
  <2>3. QueuesTyped'
    BY <1>0, <1>1, <2>2 DEF PublishInbound, QueuesTyped, channelQueues
  <2>4. EntityTyped'
    BY <1>0, <1>1, <2>2 DEF PublishInbound, EntityTyped
  <2> QED BY <2>3, <2>4
<1>2. CASE IgnoreOther
  <2>1. TakeFromChannel("Other")
    BY <1>2 DEF IgnoreOther
  <2>2. from_channel' \in Seq(ChannelMsgs)
    BY <1>0, <2>1, Taken
  <2>3. QueuesTyped'
    BY <1>0, <1>2, <2>2 DEF IgnoreOther, QueuesTyped, channelQueues
  <2>4. EntityTyped'
    BY <1>0, <1>2 DEF IgnoreOther, EntityTyped, entityVars
  <2> QED BY <2>3, <2>4
<1>3. CASE ChannelTerminated
  <2>1. TakeFromChannel("Terminate")
    BY <1>3 DEF ChannelTerminated
  <2>2. from_channel' \in Seq(ChannelMsgs)
    BY <1>0, <2>1, Taken
  <2>3. send_channels' \in Seq(Channels) /\ now_conn_num' \in 0..255
    BY <1>0, <1>3, DetachTyped DEF ChannelTerminated
  <2>4. last_state' \in States
    BY <1>0, <1>3, StateTyped DEF ChannelTerminated, EntityTyped
  <2>5. QueuesTyped'
    BY <1>0, <1>3, <2>2, <2>3 DEF ChannelTerminated, QueuesTyped, channelQueues
  <2>6. EntityTyped'
    BY <1>0, <1>3, <2>4 DEF ChannelTerminated, EntityTyped, published
  <2> QED BY <2>5, <2>6
<1>4. CASE TakeConnect
  <2>1. TakeFromChannel("Connect")
    BY <1>4 DEF TakeConnect
  <2>2. from_channel' \in Seq(ChannelMsgs) /\ Head(from_channel).c \in Channels
    BY <1>0, <2>1, Taken, MsgShapes
  <2>3. QueuesTyped'
    BY <1>0, <1>4, <2>2 DEF TakeConnect, QueuesTyped, channelQueues
  <2>4. EntityTyped'
    BY <1>0, <1>4, <2>2 DEF TakeConnect, EntityTyped, published
  <2> QED BY <2>3, <2>4
<1>5. CASE ChannelConnected
  <2>1. connecting \in Channels
    BY <1>0, <1>5 DEF ChannelConnected, QueuesTyped
  <2>2. send_channels' \in Seq(Channels) /\ Len(send_channels') \in Nat
    BY <1>0, <1>5, <2>1 DEF ChannelConnected, QueuesTyped
  <2>3. \A n \in Nat : AsU8(n) \in 0..255
    BY DEF AsU8
  <2>4. now_conn_num' \in 0..255
    BY <1>5, <2>2, <2>3 DEF ChannelConnected
  <2>5. last_state' \in States
    BY <1>0, <1>5, StateTyped DEF ChannelConnected, EntityTyped
  <2>6. QueuesTyped'
    BY <1>0, <1>5, <2>2, <2>4 DEF ChannelConnected, QueuesTyped, channelQueues
  <2>7. EntityTyped'
    BY <1>0, <1>5, <2>5 DEF ChannelConnected, EntityTyped, published
  <2> QED BY <2>6, <2>7
<1> QED BY <1>1, <1>2, <1>3, <1>4, <1>5
---------------------------------------------------------------------------
(* handle_from_manager_rx. *)
LEMMA ManagerMessagesTyped ==
    ASSUME TypeOK, SendMessage \/ RequestState \/ Close \/ Stop
    PROVE  QueuesTyped' /\ EntityTyped'
<1>0. QueuesTyped /\ EntityTyped
  BY DEF TypeOK
<1>1. CASE SendMessage
  <2> DEFINE msg == Head(from_manager)
  <2>1. from_manager' \in Seq(ManagerMsgs) /\ msg \in ManagerMsgs /\ msg.type = "send"
    BY <1>0, <1>1 DEF SendMessage, TakeFromManager, QueuesTyped
  <2>2. msg.m \in Outs
    BY <2>1 DEF ManagerMsgs
  <2>3. NewItem(msg.m) \in Items /\ NewItem(msg.m).m \in Outs
    BY <2>2, ItemTypes DEF NewItem
  <2>4. pc' = "send" /\ sending' \in Items /\ sending'.m \in Outs /\ left' \in Nat
    BY <1>0, <1>1, <2>3, StartSendTyped DEF SendMessage
  <2>5. QueuesTyped'
    BY <1>0, <1>1, <2>1 DEF SendMessage, QueuesTyped, channelQueues
  <2>6. EntityTyped'
    BY <1>0, <1>1, <2>4 DEF SendMessage, EntityTyped, published
  <2> QED BY <2>5, <2>6
<1>2. CASE RequestState
  <2>1. from_manager' \in Seq(ManagerMsgs)
    BY <1>0, <1>2 DEF RequestState, TakeFromManager, QueuesTyped
  <2>2. last_state' \in States
    BY <1>2, StateTyped DEF RequestState
  <2>3. QueuesTyped'
    BY <1>0, <1>2, <2>1 DEF RequestState, QueuesTyped, channelQueues
  <2>4. EntityTyped'
    BY <1>0, <1>2, <2>2 DEF RequestState, EntityTyped, published
  <2> QED BY <2>3, <2>4
<1>3. CASE Close
  <2>1. from_manager' \in Seq(ManagerMsgs)
    BY <1>0, <1>3 DEF Close, TakeFromManager, QueuesTyped
  <2>2. priority' \in [Channels -> Seq(Items)]
    <3>1. \A c \in Channels : priority[c] \in Seq(Items) /\ Append(priority[c], Terminate) \in Seq(Items)
      BY <1>0, ItemTypes, AppendProperties DEF QueuesTyped
    <3> QED BY <1>3, <3>1 DEF Close
  <2>3. QueuesTyped'
    BY <1>0, <1>3, <2>1, <2>2 DEF Close, QueuesTyped
  <2>4. EntityTyped'
    BY <1>0, <1>3 DEF Close, EntityTyped, entityVars
  <2> QED BY <2>3, <2>4
<1>4. CASE Stop
  <2>1. last_state' \in States
    BY <1>4, StateTyped DEF Stop
  <2>2. QueuesTyped'
    BY <1>0, <1>4 DEF Stop, QueuesTyped, channelQueues
  <2>3. EntityTyped'
    BY <1>0, <1>4, <2>1 DEF Stop, EntityTyped, published
  <2> QED BY <2>2, <2>3
<1> QED BY <1>1, <1>2, <1>3, <1>4
---------------------------------------------------------------------------
(* Every step of the entity, and the passing of time. *)
LEMMA EntityStepTyped ==
    ASSUME TypeOK, EntityStep
    PROVE  QueuesTyped' /\ EntityTyped'
BY TimersTyped, SendTyped, AnswersTyped, OutgoingTyped, ArrivalsTyped, ManagerMessagesTyped
DEF EntityStep

LEMMA TimeTyped ==
    ASSUME TypeOK, AnswersAge \/ DaysPass
    PROVE  QueuesTyped' /\ EntityTyped'
<1>0. QueuesTyped /\ EntityTyped /\ MapTyped
  BY DEF TypeOK, EntityTyped, MapTyped
<1>1. ASSUME NEW f, f \in [DOMAIN wait_receipt_map -> 0..2],
             wait_receipt_map' = [k \in DOMAIN wait_receipt_map |->
                                    [wait_receipt_map[k] EXCEPT !.age = f[k]]]
      PROVE  MapTyped'
  <2>1. \A k \in DOMAIN wait_receipt_map :
            [wait_receipt_map[k] EXCEPT !.age = f[k]] \in Entries
    BY <1>0, <1>1 DEF MapTyped, Entries
  <2>2. \A k \in DOMAIN wait_receipt_map' : wait_receipt_map'[k] \in Entries
    BY <1>1, <2>1
  <2>3. DOMAIN wait_receipt_map' = DOMAIN wait_receipt_map
    BY <1>1
  <2> QED BY <1>0, <2>2, <2>3 DEF MapTyped
<1>2. CASE AnswersAge
  <2> DEFINE older == [k \in DOMAIN wait_receipt_map |->
                         IF wait_receipt_map[k].age = 0 THEN 1 ELSE wait_receipt_map[k].age]
  <2>1. older \in [DOMAIN wait_receipt_map -> 0..2]
    BY <1>0 DEF MapTyped, Entries
  <2>2. MapTyped'
    <3>1. wait_receipt_map' = [k \in DOMAIN wait_receipt_map |->
                                 [wait_receipt_map[k] EXCEPT !.age = older[k]]]
      BY <1>2 DEF AnswersAge
    <3> HIDE DEF older
    <3> QED BY <1>1, <2>1, <3>1
  <2>3. QueuesTyped'
    BY <1>0, <1>2 DEF AnswersAge, QueuesTyped, baseVars
  <2>4. EntityTyped'
    BY <1>0, <1>2, <2>2 DEF AnswersAge, EntityTyped, MapTyped, baseVars, published
  <2> QED BY <2>3, <2>4
<1>3. CASE DaysPass
  <2> DEFINE oldest == [k \in DOMAIN wait_receipt_map |-> 2]
  <2>1. MapTyped'
    <3>1. oldest \in [DOMAIN wait_receipt_map -> 0..2]
      OBVIOUS
    <3>2. wait_receipt_map' = [k \in DOMAIN wait_receipt_map |->
                                 [wait_receipt_map[k] EXCEPT !.age = oldest[k]]]
      BY <1>3 DEF DaysPass
    <3> HIDE DEF oldest
    <3> QED BY <1>1, <3>1, <3>2
  <2>2. QueuesTyped'
    BY <1>0, <1>3 DEF DaysPass, QueuesTyped, baseVars
  <2>3. EntityTyped'
    BY <1>0, <1>3, <2>1 DEF DaysPass, EntityTyped, MapTyped, baseVars, published
  <2> QED BY <2>2, <2>3
<1> QED BY <1>2, <1>3
---------------------------------------------------------------------------
(* The channels: what their steps are made of. *)
LEMMA MsgTypes ==
    /\ \A item \in Items : OutMsg(item) \in ChannelMsgs
    /\ \A k \in Seqs, limited \in BOOLEAN : RespMsg(k, limited) \in ChannelMsgs
    /\ \A i \in Ins : InMsg(i) \in ChannelMsgs
    /\ \A c \in Channels : ConnectMsg(c) \in ChannelMsgs /\ TerminateMsg(c) \in ChannelMsgs
    /\ OtherMsg \in ChannelMsgs
BY DEF ChannelMsgs, OutMsg, RespMsg, InMsg, ConnectMsg, TerminateMsg

LEMMA QueueForEntityTyped ==
    ASSUME QueuesTyped, NEW msg \in ChannelMsgs, QueueForEntity(msg)
    PROVE  from_channel' \in Seq(ChannelMsgs)
BY AppendProperties DEF QueuesTyped, QueueForEntity

LEMMA MoveToTyped ==
    ASSUME QueuesTyped, NEW c, NEW ph \in Phases, MoveTo(c, ph)
    PROVE  phase' \in [Channels -> Phases]
BY DEF QueuesTyped, MoveTo

LEMMA LeaveTyped ==
    ASSUME QueuesTyped, ChannelsTyped, NEW c, Leave(c)
    PROVE  /\ phase' \in [Channels -> Phases]
           /\ priority' \in [Channels -> Seq(Items)]
           /\ common' \in [Channels -> Seq(Items)]
           /\ wire' \in [Channels -> SUBSET Seqs]
           /\ hand' \in [Channels -> ChannelMsgs \cup {NONE}]
<1>1. phase' \in [Channels -> Phases]
  BY MoveToTyped DEF Leave, Phases
<1>2. priority' \in [Channels -> Seq(Items)] /\ common' \in [Channels -> Seq(Items)]
  BY EmptySeq DEF Leave, QueuesTyped
<1> QED BY <1>1, <1>2 DEF Leave, ChannelsTyped

LEMMA ClearAndLeaveTyped ==
    ASSUME QueuesTyped, NEW c, ClearAndLeave(c)
    PROVE  failed' \subseteq Outs /\ Leave(c)
BY DEF QueuesTyped, ClearAndLeave

LEMMA ReceiveTyped ==
    ASSUME ChannelsTyped, NEW c, NEW msg \in ChannelMsgs \cup {NONE}, Receive(c, msg)
    PROVE  /\ hand' \in [Channels -> ChannelMsgs \cup {NONE}]
           /\ wait_active_resp' \in [Channels -> BOOLEAN]
BY DEF ChannelsTyped, Receive

LEMMA MsgNumTyped == \A item \in Items : MsgNum(item) \in Nat
<1> TAKE item \in Items
<1>1. CASE item.m = "Terminate"
  BY <1>1 DEF MsgNum
<1>2. CASE item.m # "Terminate"
  <2>1. item.m \in Outs /\ Len(item.seqs) \in Nat
    BY <1>2 DEF Items
  <2>2. MsgType[item.m] \in {"Submit", "Deliver", "Report"} /\ MsgIds[item.m] \in Nat
    BY <2>1, OutsAssumption
  <2> QED BY <1>2, <2>1, <2>2 DEF MsgNum
<1> QED BY <1>1, <1>2

LEMMA NewSeqsTyped ==
    ASSUME ChannelsTyped, NEW m \in Outs
    PROVE  /\ NewSeqs(m) \in Seq(Seqs) /\ NewSeqs(m) # <<>>
           /\ [m |-> m, wait |-> TRUE, seqs |-> NewSeqs(m)] \in Items
<1>1. Frames[m] \in Nat \ {0} /\ tries[m] + 1 \in Nat
  BY OutsAssumption DEF ChannelsTyped
<1>2. NewSeqs(m) \in [1..Frames[m] -> Seqs]
  BY <1>1 DEF NewSeqs, Seqs
<1>3. NewSeqs(m) \in Seq(Seqs) /\ Len(NewSeqs(m)) = Frames[m]
  BY <1>1, <1>2
<1>4. NewSeqs(m) # <<>>
  BY <1>1, <1>3
<1> QED BY <1>3, <1>4 DEF Items
---------------------------------------------------------------------------
(* start_work: a message taken from the priority or the common queue. *)
LEMMA TakeTyped ==
    ASSUME TypeOK, NEW c \in Channels, TakePriority(c) \/ TakeCommon(c)
    PROVE  QueuesTyped' /\ ChannelsTyped'
<1>0. QueuesTyped /\ ChannelsTyped
  BY DEF TypeOK
<1>1. PICK q \in BOOLEAN, item \in Items : CanTake(c) /\ Take(c, item, q)
  <2>1. CASE TakePriority(c)
    <3>1. Head(priority[c]) \in Items
      BY <1>0, <2>1 DEF TakePriority, QueuesTyped
    <3> QED BY <2>1, <3>1 DEF TakePriority
  <2>2. CASE TakeCommon(c)
    <3>1. Head(common[c]) \in Items
      BY <1>0, <2>2 DEF TakeCommon, QueuesTyped
    <3> QED BY <2>2, <3>1 DEF TakeCommon
  <2> QED BY <2>1, <2>2
<1>2. priority' \in [Channels -> Seq(Items)] /\ common' \in [Channels -> Seq(Items)]
  <2>1. priority[c] # <<>> => Tail(priority[c]) \in Seq(Items)
    BY <1>0 DEF QueuesTyped
  <2>2. common[c] # <<>> => Tail(common[c]) \in Seq(Items)
    BY <1>0 DEF QueuesTyped
  <2>3. CASE TakePriority(c)
    BY <1>0, <2>1, <2>3 DEF TakePriority, Take, Dequeue, QueuesTyped
  <2>4. CASE TakeCommon(c)
    BY <1>0, <2>2, <2>4 DEF TakeCommon, Take, Dequeue, QueuesTyped
  <2> QED BY <2>3, <2>4
<1>3. MsgNum(item) \in Nat /\ OutMsg(item) \in ChannelMsgs /\ WriteLimit \in Nat
      /\ curr_tx[c] \in Nat
  BY <1>0, MsgNumTyped, MsgTypes, LimitsAssumption DEF ChannelsTyped
<1>4. /\ failed' \subseteq Outs
      /\ hand' \in [Channels -> ChannelMsgs \cup {NONE}]
      /\ curr_tx' \in [Channels -> 0..WriteLimit]
      /\ wire' \in [Channels -> SUBSET Seqs]
      /\ tries' \in [Outs -> Nat]
  <2>1. CASE Bounce(c, item)
    BY <1>0, <1>3, <2>1 DEF Bounce, QueuesTyped, ChannelsTyped
  <2>2. CASE EncodeFails(c, item)
    BY <1>0, <2>2 DEF EncodeFails, QueuesTyped, ChannelsTyped
  <2>3. CASE WriteFails(c, item, q)
    BY <1>0, <2>3 DEF WriteFails, QueuesTyped, ChannelsTyped
  <2>4. CASE Write(c, item)
    <3> DEFINE seqs == NewSeqs(item.m)
               sent == [m |-> item.m, wait |-> TRUE, seqs |-> seqs]
    <3>1. item.m \in Outs
      BY <2>4 DEF Write
    <3>2. OutMsg(sent) \in ChannelMsgs /\ {seqs[i] : i \in DOMAIN seqs} \subseteq Seqs
      BY <1>0, <3>1, NewSeqsTyped, MsgTypes, ElementOfSeq
    <3>3. curr_tx' \in [Channels -> 0..WriteLimit]
      BY <1>0, <1>3, <2>4 DEF Write, ChannelsTyped
    <3>4. tries' \in [Outs -> Nat]
      BY <1>0, <2>4 DEF Write, ChannelsTyped
    <3>5. /\ hand' = [hand EXCEPT ![c] = OutMsg(sent)]
          /\ wire' = [wire EXCEPT ![c] = @ \cup {seqs[i] : i \in DOMAIN seqs}]
          /\ failed' = failed
      BY <2>4 DEF Write
    <3> HIDE DEF seqs, sent
    <3>6. /\ hand' \in [Channels -> ChannelMsgs \cup {NONE}]
          /\ wire' \in [Channels -> SUBSET Seqs]
      BY <1>0, <3>2, <3>5 DEF ChannelsTyped
    <3> QED BY <1>0, <3>3, <3>4, <3>5, <3>6 DEF QueuesTyped
  <2>5. CASE WriteTerminate(c, item)
    BY <1>0, <1>3, <2>5 DEF WriteTerminate, QueuesTyped, ChannelsTyped
  <2> QED BY <1>1, <2>1, <2>2, <2>3, <2>4, <2>5 DEF Take
<1>5. QueuesTyped'
  BY <1>0, <1>1, <1>2, <1>4 DEF Take, QueuesTyped, entityShared
<1>6. ChannelsTyped'
  BY <1>0, <1>1, <1>4 DEF Take, ChannelsTyped
<1> QED BY <1>5, <1>6
---------------------------------------------------------------------------
(* The other steps of a channel. *)
LEMMA LoginTyped ==
    ASSUME TypeOK, NEW c \in Channels, LoginCheck(c) \/ Park(c) \/ Announce(c) \/ DropSend(c)
    PROVE  QueuesTyped' /\ ChannelsTyped'
<1>0. QueuesTyped /\ ChannelsTyped
  BY DEF TypeOK
<1>1. phase' \in [Channels -> Phases]
  <2>1. \E ph \in Phases : MoveTo(c, ph)
    BY DEF LoginCheck, Park, Announce, DropSend, Phases
  <2> QED BY <1>0, <2>1, MoveToTyped
<1>2. parked' \subseteq Channels
  BY <1>0 DEF LoginCheck, Park, Announce, DropSend, QueuesTyped
<1>3. from_channel' \in Seq(ChannelMsgs)
  <2>1. CASE Announce(c)
    BY <1>0, <2>1, QueueForEntityTyped, MsgTypes DEF Announce
  <2>2. CASE DropSend(c)
    <3>1. CASE QueueForEntity(TerminateMsg(c))
      BY <1>0, <3>1, QueueForEntityTyped, MsgTypes
    <3> QED BY <1>0, <2>2, <3>1 DEF DropSend, QueuesTyped
  <2>3. CASE LoginCheck(c) \/ Park(c)
    BY <1>0, <2>3 DEF LoginCheck, Park, QueuesTyped
  <2> QED BY <2>1, <2>2, <2>3
<1>4. UNCHANGED <<from_manager, priority, common, send_channels, now_conn_num, failed, channelVars>>
  BY DEF LoginCheck, Park, Announce, DropSend, entityShared
<1>5. QueuesTyped'
  BY <1>0, <1>1, <1>2, <1>3, <1>4 DEF QueuesTyped
<1>6. ChannelsTyped'
  BY <1>0, <1>4 DEF ChannelsTyped, channelVars
<1> QED BY <1>5, <1>6

LEMMA WorkTyped ==
    ASSUME TypeOK, NEW c \in Channels,
           SendersLeft(c) \/ PushHand(c) \/ PushHandFails(c) \/ NewWindow(c)
    PROVE  QueuesTyped' /\ ChannelsTyped'
<1>0. QueuesTyped /\ ChannelsTyped
  BY DEF TypeOK
<1>1. CASE SendersLeft(c)
  <2>1. failed' \subseteq Outs /\ Leave(c)
    BY <1>0, <1>1, ClearAndLeaveTyped DEF SendersLeft
  <2>2. QueuesTyped'
    BY <1>0, <1>1, <2>1, LeaveTyped DEF SendersLeft, QueuesTyped, entityShared
  <2>3. ChannelsTyped'
    BY <1>0, <1>1, <2>1, LeaveTyped DEF SendersLeft, ChannelsTyped
  <2> QED BY <2>2, <2>3
<1>2. CASE PushHand(c)
  <2>1. hand[c] \in ChannelMsgs
    BY <1>0, <1>2 DEF PushHand, ChannelsTyped
  <2>2. from_channel' \in Seq(ChannelMsgs)
    BY <1>0, <1>2, <2>1, QueueForEntityTyped DEF PushHand
  <2>3. QueuesTyped'
    BY <1>0, <1>2, <2>2 DEF PushHand, QueuesTyped, entityShared
  <2>4. ChannelsTyped'
    BY <1>0, <1>2 DEF PushHand, ChannelsTyped
  <2> QED BY <2>3, <2>4
<1>3. CASE PushHandFails(c)
  <2>1. CASE Leave(c)
    <3>1. QueuesTyped'
      BY <1>0, <1>3, <2>1, LeaveTyped DEF PushHandFails, QueuesTyped, entityShared
    <3>2. ChannelsTyped'
      BY <1>0, <1>3, <2>1, LeaveTyped DEF PushHandFails, ChannelsTyped
    <3> QED BY <3>1, <3>2
  <2>2. CASE /\ hand' = [hand EXCEPT ![c] = NONE]
             /\ UNCHANGED <<phase, priority, common, wire>>
    <3>1. QueuesTyped'
      BY <1>0, <1>3, <2>2 DEF PushHandFails, QueuesTyped, entityShared
    <3>2. ChannelsTyped'
      BY <1>0, <1>3, <2>2 DEF PushHandFails, ChannelsTyped
    <3> QED BY <3>1, <3>2
  <2> QED BY <1>3, <2>1, <2>2 DEF PushHandFails
<1>4. CASE NewWindow(c)
  <2>1. 0 \in 0..WriteLimit /\ 0 \in 0..(ReadLimit + 1)
    BY LimitsAssumption
  <2>2. QueuesTyped'
    BY <1>0, <1>4 DEF NewWindow, QueuesTyped, entityShared
  <2>3. ChannelsTyped'
    BY <1>0, <1>4, <2>1 DEF NewWindow, ChannelsTyped
  <2> QED BY <2>2, <2>3
<1> QED BY <1>1, <1>2, <1>3, <1>4

LEMMA ChannelStepTyped ==
    ASSUME TypeOK, NEW c \in Channels, LoginCheck(c) \/ ChannelStep(c)
    PROVE  QueuesTyped' /\ ChannelsTyped'
BY LoginTyped, TakeTyped, WorkTyped DEF ChannelStep
---------------------------------------------------------------------------
(* framed.next(). *)
LEMMA FramesTyped ==
    ASSUME TypeOK, NEW c \in Channels,
           \/ PeerReply(c) \/ PeerSends(c) \/ PeerSendsTooMuch(c) \/ ReceiptFails(c)
           \/ HeartbeatAnswered(c) \/ PeerTerminates(c)
    PROVE  QueuesTyped' /\ ChannelsTyped'
<1>0. QueuesTyped /\ ChannelsTyped
  BY DEF TypeOK
<1>1. PICK msg \in ChannelMsgs \cup {NONE} : Receive(c, msg)
  <2>1. CASE PeerReply(c)
    <3>1. wire[c] \subseteq Seqs
      BY <1>0 DEF ChannelsTyped
    <3>2. PICK k \in wire[c], limited \in BOOLEAN : Receive(c, RespMsg(k, limited))
      BY <2>1 DEF PeerReply
    <3> QED BY <3>1, <3>2, MsgTypes
  <2>2. CASE PeerSends(c) \/ PeerSendsTooMuch(c)
    <3>1. unsent_in \subseteq Ins
      BY <1>0 DEF ChannelsTyped
    <3>2. \E i \in unsent_in : Receive(c, InMsg(i)) \/ Receive(c, NONE)
      BY <2>2 DEF PeerSends, PeerSendsTooMuch
    <3> QED BY <3>1, <3>2, MsgTypes
  <2>3. CASE ReceiptFails(c)
    BY <2>3 DEF ReceiptFails
  <2>4. CASE HeartbeatAnswered(c) \/ PeerTerminates(c)
    BY <2>4, MsgTypes DEF HeartbeatAnswered, PeerTerminates
  <2> QED BY <2>1, <2>2, <2>3, <2>4
<1>2. QueuesTyped'
  BY <1>0, <1>1 DEF Receive, QueuesTyped, entityShared
<1>3. curr_rx' \in [Channels -> 0..(ReadLimit + 1)]
  <2>1. ReadLimit \in Nat \ {0} /\ curr_rx[c] \in 0..(ReadLimit + 1)
    BY <1>0, LimitsAssumption DEF ChannelsTyped
  <2>2. CASE PeerSends(c) \/ ReceiptFails(c)
    <3>1. PICK i \in Ins :
            /\ InType[i] = "Submit" => curr_rx[c] < ReadLimit
            /\ curr_rx' = [curr_rx EXCEPT ![c] = IF InType[i] = "Submit" THEN @ + 1 ELSE @]
      BY <1>0, <2>2 DEF PeerSends, ReceiptFails, ChannelsTyped
    <3>2. (IF InType[i] = "Submit" THEN curr_rx[c] + 1 ELSE curr_rx[c]) \in 0..(ReadLimit + 1)
      BY <2>1, <3>1
    <3> QED BY <1>0, <3>1, <3>2 DEF ChannelsTyped
  <2>3. CASE PeerSendsTooMuch(c)
    <3>1. ReadLimit + 1 \in 0..(ReadLimit + 1)
      BY <2>1
    <3> QED BY <1>0, <2>3, <3>1 DEF PeerSendsTooMuch, ChannelsTyped
  <2>4. CASE PeerReply(c) \/ HeartbeatAnswered(c) \/ PeerTerminates(c)
    BY <1>0, <2>4 DEF PeerReply, HeartbeatAnswered, PeerTerminates, ChannelsTyped
  <2> QED BY <2>2, <2>3, <2>4
<1>4. wire' \in [Channels -> SUBSET Seqs]
  <2>1. CASE PeerReply(c)
    <3>1. PICK k \in wire[c] : wire' = [wire EXCEPT ![c] = @ \ {k}]
      BY <2>1 DEF PeerReply
    <3> QED BY <1>0, <3>1 DEF ChannelsTyped
  <2>2. CASE ~PeerReply(c)
    BY <1>0, <2>2
    DEF PeerSends, PeerSendsTooMuch, ReceiptFails, HeartbeatAnswered, PeerTerminates, ChannelsTyped
  <2> QED BY <2>1, <2>2
<1>5. unsent_in' \subseteq Ins
  BY <1>0 DEF PeerReply, PeerSends, PeerSendsTooMuch, ReceiptFails, HeartbeatAnswered,
              PeerTerminates, ChannelsTyped
<1>6. ChannelsTyped'
  <2>1. /\ hand' \in [Channels -> ChannelMsgs \cup {NONE}]
        /\ wait_active_resp' \in [Channels -> BOOLEAN]
    BY <1>0, <1>1, ReceiveTyped
  <2> QED BY <1>0, <1>1, <1>3, <1>4, <1>5, <2>1 DEF Receive, ChannelsTyped
<1> QED BY <1>2, <1>6

LEMMA EndsTyped ==
    ASSUME TypeOK, NEW c \in Channels, Heartbeat(c) \/ PeerCloses(c) \/ Abort(c)
    PROVE  QueuesTyped' /\ ChannelsTyped'
<1>0. QueuesTyped /\ ChannelsTyped
  BY DEF TypeOK
<1>1. CASE Heartbeat(c)
  <2>1. CASE Leave(c) /\ UNCHANGED wait_active_resp
    <3>1. QueuesTyped'
      BY <1>0, <1>1, <2>1, LeaveTyped DEF Heartbeat, QueuesTyped, entityShared
    <3>2. ChannelsTyped'
      BY <1>0, <1>1, <2>1, LeaveTyped DEF Heartbeat, ChannelsTyped
    <3> QED BY <3>1, <3>2
  <2>2. CASE /\ wait_active_resp' = [wait_active_resp EXCEPT ![c] = TRUE]
             /\ UNCHANGED <<phase, priority, common, wire, hand>>
    <3>1. QueuesTyped'
      BY <1>0, <1>1, <2>2 DEF Heartbeat, QueuesTyped, entityShared
    <3>2. ChannelsTyped'
      BY <1>0, <1>1, <2>2 DEF Heartbeat, ChannelsTyped
    <3> QED BY <3>1, <3>2
  <2> QED BY <1>1, <2>1, <2>2 DEF Heartbeat
<1>2. CASE PeerCloses(c)
  <2>1. failed' \subseteq Outs /\ Leave(c)
    BY <1>0, <1>2, ClearAndLeaveTyped DEF PeerCloses
  <2>2. QueuesTyped'
    BY <1>0, <1>2, <2>1, LeaveTyped DEF PeerCloses, QueuesTyped, entityShared
  <2>3. ChannelsTyped'
    BY <1>0, <1>2, <2>1, LeaveTyped DEF PeerCloses, ChannelsTyped
  <2> QED BY <2>2, <2>3
<1>3. CASE Abort(c)
  <2>1. QueuesTyped'
    BY <1>0, <1>3, LeaveTyped DEF Abort, QueuesTyped, entityShared
  <2>2. ChannelsTyped'
    BY <1>0, <1>3, LeaveTyped DEF Abort, ChannelsTyped
  <2> QED BY <2>1, <2>2
<1> QED BY <1>1, <1>2, <1>3
---------------------------------------------------------------------------
(* The Kafka side. *)
LEMMA ManagerTyped ==
    ASSUME TypeOK, ManagerStep
    PROVE  TypeOK'
<1>0. QueuesTyped /\ EntityTyped /\ ChannelsTyped /\ registered \in BOOLEAN /\ unsent \subseteq Outs
  BY DEF TypeOK
<1>1. PICK msg \in ManagerMsgs : ToEntity(msg)
  BY <1>0 DEF ManagerStep, Send, AskState, CloseEntity, ManagerMsgs
<1>2. from_manager' \in Seq(ManagerMsgs)
  BY <1>0, <1>1, AppendProperties DEF ToEntity, QueuesTyped
<1>3. QueuesTyped'
  BY <1>0, <1>1, <1>2 DEF ToEntity, QueuesTyped
<1>4. EntityTyped'
  BY <1>0, <1>1 DEF ToEntity, EntityTyped, entityVars
<1>5. ChannelsTyped'
  BY <1>0, <1>1 DEF ToEntity, ChannelsTyped, channelVars
<1>6. registered' \in BOOLEAN /\ unsent' \subseteq Outs
  BY <1>0 DEF ManagerStep, Send, AskState, CloseEntity
<1> QED BY <1>3, <1>4, <1>5, <1>6 DEF TypeOK
---------------------------------------------------------------------------
LEMMA StepTyped ==
    ASSUME TypeOK, [Next]_vars
    PROVE  TypeOK'
<1>0. QueuesTyped /\ EntityTyped /\ ChannelsTyped /\ registered \in BOOLEAN /\ unsent \subseteq Outs
  BY DEF TypeOK
<1>1. CASE ManagerStep
  BY <1>1, ManagerTyped
<1>2. CASE /\ EntityStep \/ AnswersTimeOut \/ DaysTimeOut
           /\ UNCHANGED <<channelVars, registered, unsent>>
  <2>1. QueuesTyped' /\ EntityTyped'
    BY <1>2, EntityStepTyped, TimeTyped DEF AnswersTimeOut, DaysTimeOut
  <2>2. ChannelsTyped'
    BY <1>0, <1>2 DEF ChannelsTyped, channelVars
  <2> QED BY <1>0, <1>2, <2>1, <2>2 DEF TypeOK
<1>3. CASE \E c \in Channels : (Login(c) \/ ChannelStep(c) \/ PeerStep(c)) /\ EntityIdle
  <2>1. PICK c \in Channels : (Login(c) \/ ChannelStep(c) \/ PeerStep(c)) /\ EntityIdle
    BY <1>3
  <2>2. QueuesTyped' /\ ChannelsTyped'
    BY <2>1, ChannelStepTyped, FramesTyped, EndsTyped DEF Login, PeerStep
  <2>3. pc' = pc
    BY <2>1 DEF Login, LoginCheck, ChannelStep, PeerStep, Park, Announce, TakePriority, TakeCommon,
                Take, SendersLeft, PushHand, PushHandFails, NewWindow, DropSend, PeerReply,
                PeerSends, PeerSendsTooMuch, ReceiptFails, HeartbeatAnswered, PeerTerminates,
                Receive, Heartbeat, PeerCloses, Abort, entityShared
  <2>4. EntityTyped'
    BY <1>0, <2>1, <2>3 DEF EntityIdle, EntityTyped, entityVars
  <2> QED BY <1>0, <2>1, <2>2, <2>4 DEF TypeOK, EntityIdle
<1>4. CASE UNCHANGED vars
  BY <1>0, <1>4 DEF vars, baseVars, entityVars, channelVars, TypeOK, QueuesTyped, EntityTyped,
                    ChannelsTyped
<1> QED BY <1>1, <1>2, <1>3, <1>4 DEF Next

(* Every variable of the gateway has its type in every state, the window   *)
(* counters stay within their limits and only encoded messages wait for an *)
(* answer, whatever the numbers of channels and messages and the limits.   *)
THEOREM TypeCorrect == Spec => []TypeOK
<1>1. Init => TypeOK
  BY InitTyped
<1>2. TypeOK /\ [Next]_vars => TypeOK'
  BY StepTyped
<1> QED BY <1>1, <1>2, PTL DEF Spec

(***************************************************************************)
(* What the entity reports of itself agrees with the handles it holds, and *)
(* the loop of send_to_channels never divides by zero.                     *)
(*                                                                         *)
(* ReportedIsCurrent is not inductive: between two messages the report is  *)
(* right because of what holds inside the loops, where handles disappear   *)
(* without a report as long as the loop goes on.  RInv says what holds     *)
(* there.  now_conn_num is a u8, so the report needs fewer than 256        *)
(* handles at a time.                                                      *)
(***************************************************************************)

FewHandles == Len(send_channels) < 256

Current == last_state = StateOf(is_buff_full, Len(send_channels))

RInv ==
    /\ CountIsExact
    /\ LoopBound
    /\ pc \in {"select", "connect", "resend"} => Current
    /\ pc = "send" => Len(send_channels) = 0 \/ Current

reportVars == <<pc, send_channels, now_conn_num, left, is_buff_full, last_state>>

LEMMA SameState ==
    ASSUME NEW full, NEW n \in Nat, NEW k \in Nat, n > 0, k > 0
    PROVE  StateOf(full, n) = StateOf(full, k)
BY DEF StateOf

LEMMA NoWrap == \A n \in Nat : n < 256 => AsU8(n) = n
BY DEF AsU8

(* Only the entity's own steps touch what the report depends on.           *)
LEMMA OthersKeepReport ==
    ASSUME [Next]_vars, ~EntityStep
    PROVE  UNCHANGED reportVars
<1>1. CASE ManagerStep
  BY <1>1 DEF ManagerStep, Send, AskState, CloseEntity, ToEntity, entityVars, reportVars
<1>2. CASE AnswersTimeOut \/ DaysTimeOut
  BY <1>2 DEF AnswersTimeOut, DaysTimeOut, AnswersAge, DaysPass, baseVars, reportVars
<1>3. CASE \E c \in Channels : (Login(c) \/ ChannelStep(c) \/ PeerStep(c)) /\ EntityIdle
  <2>1. PICK c \in Channels : (Login(c) \/ ChannelStep(c) \/ PeerStep(c)) /\ EntityIdle
    BY <1>3
  <2>2. UNCHANGED entityShared
    BY <2>1 DEF Login, LoginCheck, ChannelStep, PeerStep, Park, Announce, TakePriority, TakeCommon,
                Take, SendersLeft, PushHand, PushHandFails, NewWindow, DropSend, PeerReply,
                PeerSends, PeerSendsTooMuch, ReceiptFails, HeartbeatAnswered, PeerTerminates,
                Receive, Heartbeat, PeerCloses, Abort
  <2> QED BY <2>1, <2>2 DEF EntityIdle, entityShared, entityVars, reportVars
<1>4. CASE UNCHANGED vars
  BY <1>4 DEF vars, baseVars, entityVars, reportVars
<1> QED BY <1>1, <1>2, <1>3, <1>4 DEF Next

(* One iteration of the loop, or its end without a channel. *)
LEMMA SendKeeps ==
    ASSUME TypeOK, RInv, FewHandles, FewHandles', TryChannel \/ NoChannelTook
    PROVE  RInv'
<1>0. /\ send_channels \in Seq(Channels) /\ Len(send_channels) \in Nat /\ left \in Nat
      /\ pc = "send" /\ now_conn_num = Len(send_channels) /\ left <= Len(send_channels)
  BY DEF TypeOK, QueuesTyped, EntityTyped, RInv, CountIsExact, LoopBound, TryChannel, NoChannelTook
<1>1. CASE TryChannel
  <2>1. Len(send_channels) > 0 /\ Current /\ left - 1 \in Nat
    BY <1>0, <1>1 DEF TryChannel, RInv
  <2>2. CASE SkipReadOnly
    BY <1>0, <2>1, <2>2 DEF SkipReadOnly, RInv, CountIsExact, LoopBound, Current
  <2>3. ASSUME CheckBuffer(Selected)
        PROVE  last_state' = StateOf(is_buff_full', Len(send_channels))
    BY <1>0, <2>1, <2>3 DEF CheckBuffer, Current
  <2>4. CASE SendToOpen
    <3>1. pc' \in {"select", "resend"} /\ send_channels' = send_channels
          /\ now_conn_num' = now_conn_num
      BY <2>4 DEF SendToOpen, Return
    <3>2. Current'
      BY <2>3, <2>4, <3>1 DEF SendToOpen, Current
    <3> QED BY <1>0, <3>1, <3>2 DEF RInv, CountIsExact, LoopBound
  <2>5. CASE SendToClosed
    <3>1. /\ send_channels' = Without(send_channels, Selected)
          /\ Len(send_channels') \in {Len(send_channels), Len(send_channels) - 1}
          /\ Len(send_channels') \in Nat
          /\ now_conn_num' = AsU8(Len(send_channels'))
          /\ left' = left - 1 /\ pc' = "send"
      BY <1>0, <2>5, WithoutType DEF SendToClosed, Detach
    <3>2. now_conn_num' = Len(send_channels')
      BY <3>1, NoWrap DEF FewHandles
    <3>3. left' <= Len(send_channels')
      BY <1>0, <3>1
    <3>4. Len(send_channels') = 0 \/ Current'
      <4>1. CASE Len(send_channels') > 0
        <5>1. StateOf(is_buff_full', Len(send_channels')) = StateOf(is_buff_full', Len(send_channels))
          BY <1>0, <2>1, <3>1, <4>1, SameState
        <5> QED BY <2>3, <2>5, <5>1 DEF SendToClosed, Current
      <4> QED BY <3>1, <4>1
    <3> QED BY <3>1, <3>2, <3>3, <3>4 DEF RInv, CountIsExact, LoopBound
  <2> QED BY <1>1, <2>2, <2>4, <2>5 DEF TryChannel
<1>2. CASE NoChannelTook
  <2>1. pc' \in {"select", "resend"} /\ send_channels' = send_channels
        /\ now_conn_num' = now_conn_num
        /\ last_state' = StateOf(is_buff_full', now_conn_num)
    BY <1>2 DEF NoChannelTook, Return
  <2> QED BY <1>0, <2>1 DEF RInv, CountIsExact, LoopBound, Current
<1> QED BY <1>1, <1>2

(* Steps that start the loop, with its bound.                              *)
LEMMA StartKeeps ==
    ASSUME TypeOK, RInv, NEW item, StartSend(item), pc \in {"select", "resend"},
           UNCHANGED <<send_channels, now_conn_num, is_buff_full, last_state>>
    PROVE  RInv'
<1>1. Len(send_channels) \in Nat
  BY DEF TypeOK, QueuesTyped
<1>2. pc' = "send" /\ left' = Len(send_channels')
  BY DEF StartSend
<1> QED BY <1>1, <1>2 DEF RInv, CountIsExact, LoopBound, Current

LEMMA ConnectKeeps ==
    ASSUME TypeOK, RInv, FewHandles, FewHandles', ChannelConnected \/ ChannelTerminated
    PROVE  RInv'
<1>0. /\ send_channels \in Seq(Channels) /\ Len(send_channels) \in Nat
      /\ Current /\ now_conn_num = Len(send_channels)
      /\ pc' = "select" /\ is_buff_full' = is_buff_full
  BY DEF TypeOK, QueuesTyped, RInv, CountIsExact, ChannelConnected, ChannelTerminated,
         TakeFromChannel
<1>1. CASE ChannelConnected
  <2>1. connecting \in Channels
    BY <1>1 DEF ChannelConnected, TypeOK, QueuesTyped
  <2>2. Len(send_channels') = Len(send_channels) + 1
    BY <1>0, <1>1, <2>1, AppendProperties DEF ChannelConnected
  <2>3. now_conn_num' = Len(send_channels')
    BY <1>0, <1>1, <2>2, NoWrap DEF ChannelConnected, FewHandles
  <2>4. Current'
    <3>1. CASE Len(send_channels) = 0
      BY <1>0, <1>1, <2>2, <2>3, <3>1 DEF ChannelConnected, Current
    <3>2. CASE Len(send_channels) > 0
      <4>1. StateOf(is_buff_full, Len(send_channels')) = StateOf(is_buff_full, Len(send_channels))
        BY <1>0, <2>2, <3>2, SameState
      <4>2. last_state' = last_state
        BY <1>0, <1>1, <2>2, <2>3, <3>2 DEF ChannelConnected
      <4> QED BY <1>0, <4>1, <4>2 DEF Current
    <3> QED BY <1>0, <3>1, <3>2
  <2> QED BY <1>0, <2>3, <2>4 DEF RInv, CountIsExact, LoopBound
<1>2. CASE ChannelTerminated
  <2>1. /\ Len(send_channels') \in {Len(send_channels), Len(send_channels) - 1}
        /\ Len(send_channels') \in Nat
        /\ send_channels' \in Seq(Channels)
        /\ now_conn_num' = AsU8(Len(send_channels'))
    BY <1>0, <1>2, WithoutType DEF ChannelTerminated, Detach
  <2>2. now_conn_num' = Len(send_channels')
    BY <2>1, NoWrap DEF FewHandles
  <2>3. Current'
    <3>1. CASE send_channels' = <<>>
      BY <1>0, <1>2, <2>2, <3>1 DEF ChannelTerminated, Current
    <3>2. CASE send_channels' # <<>>
      <4>1. Len(send_channels') > 0 /\ Len(send_channels) > 0
        BY <1>0, <2>1, <3>2, EmptySeq
      <4>2. StateOf(is_buff_full, Len(send_channels')) = StateOf(is_buff_full, Len(send_channels))
        BY <1>0, <2>1, <4>1, SameState
      <4> QED BY <1>0, <1>2, <3>2, <4>2 DEF ChannelTerminated, Current
    <3> QED BY <3>1, <3>2
  <2> QED BY <1>0, <2>2, <2>3 DEF RInv, CountIsExact, LoopBound
<1> QED BY <1>1, <1>2

LEMMA StepKeeps ==
    ASSUME TypeOK, RInv, FewHandles, FewHandles', [Next]_vars
    PROVE  RInv'
<1>1. CASE ~EntityStep
  BY <1>1, OthersKeepReport DEF RInv, CountIsExact, LoopBound, Current, reportVars
<1>2. CASE TryChannel \/ NoChannelTook
  BY <1>2, SendKeeps
<1>3. CASE ChannelTerminated \/ ChannelConnected
  BY <1>3, ConnectKeeps
<1>4. CASE PopResend \/ AnswerLimited \/ PushBack \/ SendMessage
  <2>1. /\ \E item : StartSend(item)
        /\ pc \in {"select", "resend"}
        /\ UNCHANGED <<send_channels, now_conn_num, is_buff_full, last_state>>
    BY <1>4 DEF PopResend, AnswerLimited, PushBack, SendMessage, TakeFromChannel, TakeFromManager
  <2> QED BY <2>1, StartKeeps
<1>5. CASE ReSend \/ ClearSendSmsCache
  BY <1>5 DEF ReSend, ClearSendSmsCache, baseVars, RInv, CountIsExact, LoopBound, Current
<1>6. CASE AnswerMatched \/ RequestState
  <2>1. /\ pc = "select" /\ UNCHANGED <<pc, send_channels, now_conn_num>>
        /\ \/ UNCHANGED <<is_buff_full, last_state>>
           \/ last_state' = StateOf(is_buff_full', now_conn_num)
    BY <1>6 DEF AnswerMatched, RecheckBuffer, RequestState, TakeFromChannel, TakeFromManager
  <2> QED BY <2>1 DEF RInv, CountIsExact, LoopBound, Current
<1>7. CASE AnswerUnmatched \/ CacheSent \/ PublishInbound \/ IgnoreOther
  BY <1>7 DEF AnswerUnmatched, CacheSent, PublishInbound, IgnoreOther, TakeFromChannel, entityVars,
              RInv, CountIsExact, LoopBound, Current
<1>8. CASE TakeConnect
  BY <1>8 DEF TakeConnect, TakeFromChannel, RInv, CountIsExact, LoopBound, Current
<1>9. CASE Close \/ Stop
  BY <1>9 DEF Close, Stop, TakeFromManager, entityVars, RInv, CountIsExact, LoopBound
<1> QED BY <1>1, <1>2, <1>3, <1>4, <1>5, <1>6, <1>7, <1>8, <1>9 DEF EntityStep

LEMMA RInvHolds == Spec /\ []FewHandles => []RInv
<1>1. Init => RInv
  BY DEF Init, InitEntity, RInv, CountIsExact, LoopBound, Current, StateOf
<1>2. TypeOK /\ FewHandles /\ FewHandles' /\ RInv /\ [Next]_vars => RInv'
  BY StepKeeps
<1> QED BY <1>1, <1>2, TypeCorrect, PTL DEF Spec

(* With fewer than 256 handles at a time the business side always knows    *)
(* the entity's state: last_state agrees with the handles and with         *)
(* is_buff_full whenever the task is between two messages.                 *)
THEOREM ReportsAreCurrent == Spec /\ []FewHandles => []ReportedIsCurrent
<1>1. RInv => ReportedIsCurrent
  BY DEF RInv, Current, ReportedIsCurrent
<1> QED BY <1>1, RInvHolds, PTL
---------------------------------------------------------------------------
(* The loop of send_to_channels never has more iterations left than there  *)
(* are handles, however many handles it forgets on its way: the remainder  *)
(* by send_channels.len() is always defined.                               *)
THEOREM LoopIsBounded == Spec => []LoopBound
<1>1. Init => LoopBound
  BY DEF Init, InitEntity, LoopBound
<1>2. ASSUME TypeOK, LoopBound, [Next]_vars PROVE LoopBound'
  <2>1. CASE ~EntityStep
    BY <1>2, <2>1, OthersKeepReport DEF LoopBound, reportVars
  <2>2. CASE TryChannel /\ (SkipReadOnly \/ SendToOpen)
    BY <1>2, <2>2 DEF TryChannel, SkipReadOnly, SendToOpen, Return, LoopBound, TypeOK, QueuesTyped,
                      EntityTyped
  <2>3. CASE TryChannel /\ SendToClosed
    <3>1. /\ Len(send_channels') \in {Len(send_channels), Len(send_channels) - 1}
          /\ Len(send_channels) \in Nat /\ left \in Nat /\ left' = left - 1
      BY <1>2, <2>3, WithoutType DEF SendToClosed, Detach, TypeOK, QueuesTyped, EntityTyped
    <3> QED BY <1>2, <2>3, <3>1 DEF TryChannel, LoopBound
  <2>4. CASE PopResend \/ AnswerLimited \/ PushBack \/ SendMessage
    <3>1. left' = Len(send_channels') /\ Len(send_channels') \in Nat
      BY <1>2, <2>4 DEF PopResend, AnswerLimited, PushBack, SendMessage, StartSend, TypeOK,
                        QueuesTyped
    <3> QED BY <3>1 DEF LoopBound
  <2>5. CASE pc' # "send"
    BY <2>5 DEF LoopBound
  <2>6. CASE \/ NoChannelTook \/ ReSend \/ ClearSendSmsCache
             \/ AnswerMatched \/ AnswerUnmatched \/ CacheSent \/ PublishInbound \/ IgnoreOther
             \/ ChannelTerminated \/ TakeConnect \/ ChannelConnected
             \/ RequestState \/ Close \/ Stop
    <3>1. pc' # "send"
      BY <2>6 DEF NoChannelTook, Return, ReSend, ClearSendSmsCache, AnswerMatched,
                  AnswerUnmatched, CacheSent, PublishInbound, IgnoreOther, ChannelTerminated,
                  TakeConnect, ChannelConnected, RequestState, Close, Stop, TakeFromChannel,
                  TakeFromManager, baseVars
    <3> QED BY <3>1, <2>5
  <2> QED BY <2>1, <2>2, <2>3, <2>4, <2>6 DEF EntityStep, TryChannel
<1> QED BY <1>1, <1>2, TypeCorrect, PTL DEF Spec
============================================================================
