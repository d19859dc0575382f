--------------------------- MODULE CustodyProofs ---------------------------
(***************************************************************************)
(* Nothing the gateway took charge of disappears: an inbound message the   *)
(* peer has an answer for, and the parts of a message taken from Kafka.    *)
(*                                                                         *)
(* What the steps of a connection do to the messages comes first           *)
(* (ChannelFlow): of the many steps only a few move any.                   *)
(***************************************************************************)
EXTENDS GatewayProofs

(* The message at the head goes: the others move up by one.                *)
LEMMA QueueMovesUp ==
    ASSUME TypeOK, NEW type, TakeFromChannel(type)
    PROVE  /\ pc = "select" /\ ~EntityGone
           /\ DOMAIN from_channel \subseteq Nat \ {0}
           /\ 1 \in DOMAIN from_channel /\ Head(from_channel) = from_channel[1]
           /\ from_channel[1].type = type /\ from_channel[1] \in ChannelMsgs
           /\ \A i \in DOMAIN from_channel' :
                 i + 1 \in DOMAIN from_channel /\ from_channel'[i] = from_channel[i + 1]
           /\ \A i \in DOMAIN from_channel : i # 1 =>
                 i - 1 \in DOMAIN from_channel' /\ from_channel'[i - 1] = from_channel[i]
<1>1. /\ from_channel \in Seq(ChannelMsgs) /\ from_channel # <<>>
      /\ from_channel' = Tail(from_channel) /\ pc = "select" /\ Head(from_channel).type = type
  BY DEF TypeOK, QueuesTyped, TakeFromChannel
<1>2. /\ DOMAIN from_channel = 1..Len(from_channel) /\ Len(from_channel) \in Nat \ {0}
      /\ DOMAIN from_channel' = 1..(Len(from_channel) - 1)
      /\ \A i \in DOMAIN from_channel' : from_channel'[i] = from_channel[i + 1]
      /\ Head(from_channel) = from_channel[1] /\ from_channel[1] \in ChannelMsgs
  BY <1>1
<1> QED BY <1>1, <1>2 DEF EntityGone

(* A message comes last: nothing moves.                                    *)
LEMMA QueueGrows ==
    ASSUME TypeOK, NEW msg \in ChannelMsgs, QueueForEntity(msg)
    PROVE  /\ ~EntityGone
           /\ \E n \in Nat : /\ DOMAIN from_channel' = DOMAIN from_channel \cup {n}
                             /\ from_channel'[n] = msg
                             /\ \A i \in DOMAIN from_channel :
                                   i \in Nat /\ i < n /\ from_channel'[i] = from_channel[i]
<1>1. from_channel \in Seq(ChannelMsgs) /\ from_channel' = Append(from_channel, msg) /\ ~EntityGone
  BY DEF TypeOK, QueuesTyped, QueueForEntity
<1> DEFINE n == Len(from_channel) + 1
<1>2. /\ n \in Nat /\ DOMAIN from_channel' = DOMAIN from_channel \cup {n}
      /\ from_channel'[n] = msg
      /\ \A i \in DOMAIN from_channel : i \in Nat /\ i < n /\ from_channel'[i] = from_channel[i]
  BY <1>1
<1> QED BY <1>1, <1>2
---------------------------------------------------------------------------
(* What a step of a connection can do to the messages.                     *)
channelFlow == <<from_channel, priority, common, failed, hand, wire, tries, unsent_in>>

Announces(c) ==
    /\ \E msg \in {ConnectMsg(c), TerminateMsg(c)} : QueueForEntity(msg)
    /\ UNCHANGED <<priority, common, failed, hand, wire, tries, unsent_in>>

QueueOf(c, isPriority) == IF isPriority THEN priority[c] ELSE common[c]
Takes(c) ==
    /\ hand[c] = NONE /\ curr_tx[c] < WriteLimit
    /\ \E isPriority \in BOOLEAN :
        /\ QueueOf(c, isPriority) # <<>>
        /\ Dequeue(c, isPriority)
        /\ LET item == Head(QueueOf(c, isPriority))
           IN  \/ Bounce(c, item)
               \/ EncodeFails(c, item)
               \/ WriteFails(c, item, isPriority)
               \/ Write(c, item)
               \/ WriteTerminate(c, item)
    /\ UNCHANGED <<from_channel, unsent_in>>

Ends(c) ==
    /\ hand[c] = NONE \/ EntityGone
    /\ \/ ClearAndLeave(c)
       \/ Leave(c) /\ UNCHANGED failed /\ (EntityGone \/ Faults \cap {"abort", "silence"} # {})
    /\ UNCHANGED <<from_channel, tries, unsent_in>>

Pushes(c) ==
    /\ hand[c] # NONE /\ QueueForEntity(hand[c])
    /\ hand' = [hand EXCEPT ![c] = NONE]
    /\ UNCHANGED <<priority, common, failed, wire, tries, unsent_in>>
PushFails(c) ==
    /\ EntityGone /\ hand' = [hand EXCEPT ![c] = NONE]
    /\ UNCHANGED <<from_channel, priority, common, failed, wire, tries, unsent_in>>

HearsAnswer(c) ==
    /\ hand[c] = NONE
    /\ \E k \in wire[c], limited \in BOOLEAN :
          /\ hand' = [hand EXCEPT ![c] = RespMsg(k, limited)]
          /\ wire' = [wire EXCEPT ![c] = @ \ {k}]
    /\ UNCHANGED <<from_channel, priority, common, failed, tries, unsent_in>>
HearsMessage(c) ==
    /\ hand[c] = NONE
    /\ \E i \in unsent_in :
          hand' = [hand EXCEPT ![c] = InMsg(i)] /\ unsent_in' = unsent_in \ {i}
    /\ UNCHANGED <<from_channel, priority, common, failed, wire, tries>>
HearsControl(c) ==
    /\ hand[c] = NONE
    /\ \E msg \in {OtherMsg, TerminateMsg(c)} : hand' = [hand EXCEPT ![c] = msg]
    /\ UNCHANGED <<from_channel, priority, common, failed, wire, tries, unsent_in>>

ChannelFlow(c) ==
    \/ UNCHANGED channelFlow
    \/ Announces(c) \/ Takes(c) \/ Ends(c) \/ Pushes(c) \/ PushFails(c)
    \/ HearsAnswer(c) \/ HearsMessage(c) \/ HearsControl(c)

(* Nothing a connection does reaches further than one of these.            *)
LEMMA ChannelFlows ==
    ASSUME TypeOK, NEW c \in Channels, Login(c) \/ ChannelStep(c) \/ PeerStep(c)
    PROVE  ChannelFlow(c) /\ pc' = pc /\ from_manager' = from_manager
<1>0. hand \in [Channels -> ChannelMsgs \cup {NONE}]
  BY DEF TypeOK, ChannelsTyped
<1>1. CASE Login(c) \/ Park(c) \/ NewWindow(c)
  BY <1>1 DEF Login, LoginCheck, Park, NewWindow, ChannelFlow, channelFlow, channelVars, entityShared
<1>2. CASE Announce(c)
  BY <1>2 DEF Announce, ChannelFlow, Announces, channelVars, entityShared
<1>3. CASE DropSend(c)
  <2>1. CASE QueueForEntity(TerminateMsg(c))
    BY <1>3, <2>1 DEF DropSend, ChannelFlow, Announces, channelVars, entityShared
  <2>2. CASE UNCHANGED from_channel
    BY <1>3, <2>2 DEF DropSend, ChannelFlow, channelFlow, channelVars, entityShared
  <2> QED BY <1>3, <2>1, <2>2 DEF DropSend
<1>4. CASE TakePriority(c)
  <2>1. QueueOf(c, TRUE) = priority[c] /\ priority[c] # <<>> /\ Take(c, Head(priority[c]), TRUE)
    BY <1>4 DEF TakePriority, QueueOf
  <2>2. Takes(c)
    BY <1>4, <2>1 DEF TakePriority, CanTake, Ready, Take, Takes
  <2> QED BY <2>1, <2>2 DEF ChannelFlow, Take, entityShared
<1>5. CASE TakeCommon(c)
  <2>1. QueueOf(c, FALSE) = common[c] /\ common[c] # <<>> /\ Take(c, Head(common[c]), FALSE)
    BY <1>5 DEF TakeCommon, QueueOf
  <2>2. Takes(c)
    BY <1>5, <2>1 DEF TakeCommon, CanTake, Ready, Take, Takes
  <2> QED BY <2>1, <2>2 DEF ChannelFlow, Take, entityShared
<1>6. CASE SendersLeft(c) \/ PeerCloses(c)
  BY <1>6 DEF SendersLeft, PeerCloses, CanTake, Reads, Ready, ChannelFlow, Ends, entityShared
<1>7. CASE PushHand(c)
  BY <1>7 DEF PushHand, ChannelFlow, Pushes, entityShared
<1>8. CASE PushHandFails(c)
  BY <1>8 DEF PushHandFails, ChannelFlow, Ends, PushFails, entityShared
<1>9. CASE PeerReply(c)
  BY <1>9 DEF PeerReply, Receive, Reads, Ready, ChannelFlow, HearsAnswer, entityShared
<1>10. CASE PeerSends(c)
  BY <1>10 DEF PeerSends, Receive, Reads, Ready, ChannelFlow, HearsMessage, entityShared
<1>11. ASSUME Receive(c, NONE), UNCHANGED <<wire, unsent_in>>
       PROVE  UNCHANGED channelFlow /\ pc' = pc /\ from_manager' = from_manager
  <2>1. hand' = hand
    BY <1>0, <1>11 DEF Receive, Reads, Ready
  <2> QED BY <1>11, <2>1 DEF Receive, channelFlow, entityShared
<1>12. CASE PeerSendsTooMuch(c)
  <2>1. PICK i \in unsent_in : IF i \in NoReceipt
                               THEN Receive(c, InMsg(i)) /\ unsent_in' = unsent_in \ {i}
                               ELSE Receive(c, NONE) /\ UNCHANGED unsent_in
    BY <1>12 DEF PeerSendsTooMuch
  <2>2. wire' = wire
    BY <1>12 DEF PeerSendsTooMuch
  <2>3. CASE i \in NoReceipt
    BY <2>1, <2>2, <2>3 DEF Receive, Reads, Ready, ChannelFlow, HearsMessage, entityShared
  <2>4. CASE i \notin NoReceipt
    BY <1>11, <2>1, <2>2, <2>4 DEF ChannelFlow
  <2> QED BY <2>3, <2>4
<1>13. CASE ReceiptFails(c)
  BY <1>11, <1>13 DEF ReceiptFails, ChannelFlow
<1>14. CASE HeartbeatAnswered(c) \/ PeerTerminates(c)
  BY <1>14 DEF HeartbeatAnswered, PeerTerminates, Receive, Reads, Ready, ChannelFlow, HearsControl,
               entityShared
<1>15. CASE Heartbeat(c)
  BY <1>15 DEF Heartbeat, Reads, Ready, ChannelFlow, channelFlow, Ends, entityShared
<1>16. CASE Abort(c)
  BY <1>16 DEF Abort, Reads, Ready, ChannelFlow, Ends, entityShared
<1> QED BY <1>1, <1>2, <1>3, <1>4, <1>5, <1>6, <1>7, <1>8, <1>9, <1>10, <1>12, <1>13, <1>14,
           <1>15, <1>16 DEF ChannelStep, PeerStep
---------------------------------------------------------------------------
(* What the steps of the entity's task take from its queue.                *)
LEMMA EntityTakes ==
    ASSUME EntityStep
    PROVE  /\ ~EntityGone
           /\ \/ UNCHANGED from_channel \/ EntityGone'
              \/ TakeFromChannel("In") /\ PublishInbound
              \/ \E type : type # "In" /\ TakeFromChannel(type)
           /\ UNCHANGED forwarded \/ (TakeFromChannel("In") /\ PublishInbound)
<1>1. ASSUME NEW type, type # "In", TakeFromChannel(type), UNCHANGED forwarded
      PROVE  /\ ~EntityGone /\ UNCHANGED forwarded
             /\ \E other : other # "In" /\ TakeFromChannel(other)
  BY <1>1 DEF TakeFromChannel, EntityGone
<1>2. CASE TryChannel \/ NoChannelTook \/ ReSend \/ PopResend \/ ClearSendSmsCache
  BY <1>2 DEF TryChannel, NoChannelTook, ReSend, PopResend, ClearSendSmsCache, baseVars, published,
              EntityGone
<1>3. CASE AnswerLimited \/ AnswerMatched \/ AnswerUnmatched
  <2>1. TakeFromChannel("Resp") /\ UNCHANGED forwarded
    BY <1>3 DEF AnswerLimited, AnswerMatched, AnswerUnmatched, published
  <2> QED BY <1>1, <2>1
<1>4. CASE CacheSent \/ PushBack
  <2>1. TakeFromChannel("Out") /\ UNCHANGED forwarded
    BY <1>4 DEF CacheSent, PushBack, published
  <2> QED BY <1>1, <2>1
<1>5. CASE PublishInbound
  BY <1>5 DEF PublishInbound, TakeFromChannel, EntityGone
<1>6. CASE IgnoreOther \/ ChannelTerminated \/ TakeConnect
  <2>1. PICK type \in {"Other", "Terminate", "Connect"} :
          TakeFromChannel(type) /\ UNCHANGED forwarded
    BY <1>6 DEF IgnoreOther, ChannelTerminated, TakeConnect, published, entityVars
  <2> QED BY <1>1, <2>1
<1>7. CASE ChannelConnected \/ SendMessage \/ RequestState \/ Close
  BY <1>7 DEF ChannelConnected, SendMessage, RequestState, Close, TakeFromManager, published,
              entityVars, EntityGone
<1>8. CASE Stop
  BY <1>8 DEF Stop, published, EntityGone
<1> QED BY <1>2, <1>3, <1>4, <1>5, <1>6, <1>7, <1>8 DEF EntityStep

(* An inbound message is in a task's hand or in the entity's queue.        *)
OnItsWay(i) ==
    \/ \E c \in Channels : hand[c] = InMsg(i)
    \/ \E n \in DOMAIN from_channel : from_channel[n] = InMsg(i)

LEMMA EntityKeepsInbound ==
    ASSUME TypeOK, EntityStep, UNCHANGED channelVars, ~EntityGone',
           NEW i \in Ins, i \in forwarded \/ OnItsWay(i)
    PROVE  i \in forwarded' \/ OnItsWay(i)'
<1>1. hand' = hand
  BY DEF channelVars
<1>2. CASE i \in forwarded
  BY <1>2, EntityTakes DEF PublishInbound
<1>3. CASE \E c \in Channels : hand[c] = InMsg(i)
  BY <1>1, <1>3 DEF OnItsWay, InMsg
<1>4. ASSUME NEW n \in DOMAIN from_channel, from_channel[n] = InMsg(i)
      PROVE  i \in forwarded' \/ OnItsWay(i)'
  <2>1. CASE UNCHANGED from_channel
    BY <1>4, <2>1 DEF OnItsWay, InMsg
  <2>2. ASSUME NEW type, TakeFromChannel(type), n # 1
        PROVE  OnItsWay(i)'
    <3>1. n - 1 \in DOMAIN from_channel' /\ from_channel'[n - 1] = InMsg(i)
      BY <1>4, <2>2, QueueMovesUp
    <3> QED BY <3>1 DEF OnItsWay, InMsg
  <2>3. CASE n = 1 /\ TakeFromChannel("In") /\ PublishInbound
    <3>1. Head(from_channel).i = i
      BY <1>4, <2>3, QueueMovesUp DEF InMsg
    <3> QED BY <2>3, <3>1 DEF PublishInbound
  <2>4. ASSUME n = 1, NEW type, type # "In", TakeFromChannel(type)
        PROVE  FALSE
    BY <1>4, <2>4, QueueMovesUp DEF InMsg
  <2> QED BY <2>1, <2>2, <2>3, <2>4, EntityTakes
<1> QED BY <1>2, <1>3, <1>4 DEF OnItsWay

LEMMA ChannelKeepsInbound ==
    ASSUME TypeOK, NEW c \in Channels, ChannelFlow(c), ~EntityGone,
           NEW i \in Ins, i \notin unsent_in => OnItsWay(i), i \notin unsent_in'
    PROVE  OnItsWay(i)'
<1>0. hand \in [Channels -> ChannelMsgs \cup {NONE}] /\ InMsg(i) # NONE
  BY MsgTypes, NoneAssumption DEF TypeOK, ChannelsTyped
<1>1. CASE UNCHANGED channelFlow
  BY <1>1 DEF channelFlow, OnItsWay, InMsg
<1>2. CASE Announces(c)
  <2>1. PICK msg \in ChannelMsgs : QueueForEntity(msg)
    BY <1>2, MsgTypes DEF Announces
  <2>2. \A n \in DOMAIN from_channel : n \in DOMAIN from_channel' /\ from_channel'[n] = from_channel[n]
    BY <2>1, QueueGrows
  <2>3. hand' = hand /\ unsent_in' = unsent_in
    BY <1>2 DEF Announces
  <2> QED BY <2>2, <2>3 DEF OnItsWay, InMsg
<1>3. ASSUME UNCHANGED from_channel, NEW msg, hand' = [hand EXCEPT ![c] = msg],
             hand[c] # InMsg(i), OnItsWay(i)
      PROVE  OnItsWay(i)'
  BY <1>0, <1>3 DEF OnItsWay, InMsg
<1>4. CASE Takes(c)
  <2>1. UNCHANGED from_channel /\ unsent_in' = unsent_in /\ hand[c] = NONE
        /\ (hand' = hand \/ \E msg : hand' = [hand EXCEPT ![c] = msg])
    BY <1>4 DEF Takes, Bounce, EncodeFails, WriteFails, Write, WriteTerminate
  <2>2. CASE hand' = hand
    BY <2>1, <2>2 DEF OnItsWay, InMsg
  <2> QED BY <1>0, <1>3, <2>1, <2>2
<1>5. CASE Ends(c) \/ PushFails(c)
  BY <1>0, <1>3, <1>5 DEF Ends, PushFails, ClearAndLeave, Leave
<1>6. CASE Pushes(c)
  <2>1. hand[c] \in ChannelMsgs /\ QueueForEntity(hand[c]) /\ unsent_in' = unsent_in
        /\ hand' = [hand EXCEPT ![c] = NONE]
    BY <1>0, <1>6 DEF Pushes
  <2>2. PICK m \in Nat : /\ DOMAIN from_channel' = DOMAIN from_channel \cup {m}
                        /\ from_channel'[m] = hand[c]
                        /\ \A n \in DOMAIN from_channel :
                              n \in Nat /\ n < m /\ from_channel'[n] = from_channel[n]
    BY <2>1, QueueGrows
  <2>3. CASE \E d \in Channels : hand[d] = InMsg(i)
    BY <1>0, <2>1, <2>2, <2>3 DEF OnItsWay, InMsg
  <2>4. CASE \E n \in DOMAIN from_channel : from_channel[n] = InMsg(i)
    BY <2>2, <2>4 DEF OnItsWay, InMsg
  <2> QED BY <2>1, <2>3, <2>4 DEF OnItsWay
<1>7. CASE HearsAnswer(c) \/ HearsControl(c)
  BY <1>0, <1>3, <1>7 DEF HearsAnswer, HearsControl
<1>8. CASE HearsMessage(c)
  <2>1. PICK j \in unsent_in : hand' = [hand EXCEPT ![c] = InMsg(j)] /\ unsent_in' = unsent_in \ {j}
    BY <1>8 DEF HearsMessage
  <2>2. CASE i = j
    BY <1>0, <2>1, <2>2 DEF OnItsWay, InMsg
  <2>3. CASE i # j
    BY <1>0, <1>3, <1>8, <2>1, <2>3 DEF HearsMessage
  <2> QED BY <2>2, <2>3
<1> QED BY <1>1, <1>2, <1>4, <1>5, <1>6, <1>7, <1>8 DEF ChannelFlow

(* Whatever the entity's task, its channels and the Kafka side do, an      *)
(* inbound message that its peer has an answer for reaches its topic or is *)
(* on its way there: no send to the entity is given up while the entity    *)
(* lives (channel.rs:333-345), and no handler of the entity loses one.     *)
THEOREM InboundSafe == Spec => []InboundCustody
<1>1. Init => InboundCustody
  BY DEF Init, InitEntity, InitChannel, InboundCustody
<1>2. TypeOK /\ InboundCustody /\ [Next]_vars => InboundCustody'
  <2> SUFFICES ASSUME TypeOK, InboundCustody, [Next]_vars, ~EntityGone',
                      NEW i \in Ins, i \notin (unsent_in \cup forwarded)'
               PROVE  OnItsWay(i)'
    BY DEF InboundCustody, OnItsWay, InMsg
  <2>1. ~EntityGone => i \in unsent_in \cup forwarded \/ OnItsWay(i)
    BY DEF InboundCustody, OnItsWay
  <2>2. CASE ManagerStep
    <3>1. UNCHANGED <<pc, from_channel, hand, unsent_in, forwarded>>
      BY <2>2 DEF ManagerStep, Send, AskState, CloseEntity, ToEntity, entityVars, channelVars
    <3> QED BY <2>1, <3>1 DEF OnItsWay, InMsg, EntityGone
  <2>3. CASE EntityStep /\ UNCHANGED channelVars
    <3>1. ~EntityGone /\ unsent_in' = unsent_in
      BY <2>3, EntityTakes DEF channelVars
    <3> QED BY <2>1, <2>3, <3>1, EntityKeepsInbound
  <2>4. CASE (AnswersTimeOut \/ DaysTimeOut) /\ UNCHANGED channelVars
    <3>1. UNCHANGED <<pc, from_channel, hand, unsent_in, forwarded>>
      BY <2>4 DEF AnswersTimeOut, DaysTimeOut, AnswersAge, DaysPass, baseVars, published, channelVars
    <3> QED BY <2>1, <3>1 DEF OnItsWay, InMsg, EntityGone
  <2>5. CASE \E c \in Channels : (Login(c) \/ ChannelStep(c) \/ PeerStep(c)) /\ EntityIdle
    <3>1. PICK c \in Channels : (Login(c) \/ ChannelStep(c) \/ PeerStep(c)) /\ EntityIdle
      BY <2>5
    <3>2. ChannelFlow(c) /\ ~EntityGone /\ forwarded' = forwarded
      BY <3>1, ChannelFlows DEF EntityIdle, entityVars, EntityGone
    <3> QED BY <2>1, <3>2, ChannelKeepsInbound
  <2>6. CASE UNCHANGED vars
    <3>1. UNCHANGED <<pc, from_channel, hand, unsent_in, forwarded>>
      BY <2>6 DEF vars, baseVars, entityVars, channelVars
    <3> QED BY <2>1, <3>1 DEF OnItsWay, InMsg, EntityGone
  <2> QED BY <2>2, <2>3, <2>4, <2>5, <2>6 DEF Next
<1> QED BY <1>1, <1>2, TypeCorrect, PTL DEF Spec
---------------------------------------------------------------------------
(* Outgoing messages, by what holds them. *)
InChannels(item) ==
    \E c \in Channels :
        item \in Range(priority[c]) \cup Range(common[c]) \/ hand[c] = OutMsg(item)
Queued(item) == OutMsg(item) \in Range(from_channel)
Moving(item) == InChannels(item) \/ Queued(item)
Cached(item) == \E k \in DOMAIN wait_receipt_map : wait_receipt_map[k].item = item

LEMMA SequenceElements ==
    ASSUME NEW S, NEW q \in Seq(S)
    PROVE  /\ \A x \in S : Range(Append(q, x)) = Range(q) \cup {x}
           /\ q # <<>> => Range(q) = Range(Tail(q)) \cup {Head(q)} /\ Head(q) \in S
           /\ Range(<<>>) = {} /\ Range(q) \subseteq S
<1>1. \A x \in S : Range(Append(q, x)) = Range(q) \cup {x}
  <2> TAKE x \in S
  <2>1. DOMAIN Append(q, x) = DOMAIN q \cup {Len(q) + 1} /\ Append(q, x)[Len(q) + 1] = x
        /\ \A i \in DOMAIN q : Append(q, x)[i] = q[i]
    OBVIOUS
  <2> QED BY <2>1 DEF Range
<1>2. ASSUME q # <<>>
      PROVE  Range(q) = Range(Tail(q)) \cup {Head(q)} /\ Head(q) \in S
  <2>1. 1 \in DOMAIN q /\ Head(q) = q[1] /\ Head(q) \in S
    BY <1>2
  <2>2. \A i \in DOMAIN Tail(q) : i + 1 \in DOMAIN q /\ Tail(q)[i] = q[i + 1]
    BY <1>2
  <2>3. \A i \in DOMAIN q : i # 1 => i - 1 \in DOMAIN Tail(q) /\ Tail(q)[i - 1] = q[i]
    BY <1>2
  <2>4. ASSUME NEW i \in DOMAIN q
        PROVE  q[i] \in Range(Tail(q)) \cup {Head(q)}
    BY <2>1, <2>3 DEF Range
  <2>5. ASSUME NEW i \in DOMAIN Tail(q)
        PROVE  Tail(q)[i] \in Range(q)
    BY <2>2 DEF Range
  <2>6. Range(q) \subseteq Range(Tail(q)) \cup {Head(q)}
    BY <2>4 DEF Range
  <2>7. Range(Tail(q)) \subseteq Range(q) /\ Head(q) \in Range(q)
    BY <2>1, <2>5 DEF Range
  <2> QED BY <2>1, <2>6, <2>7
<1>3. Range(<<>>) = {} /\ Range(q) \subseteq S
  BY DEF Range
<1> QED BY <1>1, <1>2, <1>3

(* What happens to the queue of the entity, as a set. *)
LEMMA QueueElements ==
    ASSUME TypeOK
    PROVE  /\ Range(from_channel) \subseteq ChannelMsgs
           /\ \A type : TakeFromChannel(type) =>
                 /\ Range(from_channel) = Range(from_channel') \cup {Head(from_channel)}
                 /\ Head(from_channel) \in ChannelMsgs /\ Head(from_channel).type = type
           /\ \A msg \in ChannelMsgs : QueueForEntity(msg) =>
                 Range(from_channel') = Range(from_channel) \cup {msg}
<1>1. from_channel \in Seq(ChannelMsgs)
  BY DEF TypeOK, QueuesTyped
<1>2. Range(from_channel) \subseteq ChannelMsgs
  BY <1>1, SequenceElements
<1>3. from_channel # <<>> => /\ Range(from_channel) = Range(Tail(from_channel)) \cup {Head(from_channel)}
                             /\ Head(from_channel) \in ChannelMsgs
  BY <1>1, SequenceElements
<1>4. \A msg \in ChannelMsgs : Range(Append(from_channel, msg)) = Range(from_channel) \cup {msg}
  BY <1>1, SequenceElements
<1> QED BY <1>2, <1>3, <1>4 DEF TakeFromChannel, QueueForEntity

LEMMA OutMsgs ==
    /\ \A item, other : OutMsg(item) = OutMsg(other) => item = other
    /\ \A item : OutMsg(item).type = "Out" /\ OutMsg(item).item = item
    /\ \A item \in Items : OutMsg(item) \in ChannelMsgs /\ OutMsg(item) # NONE
    /\ \A msg \in ChannelMsgs : msg.type = "Out" => msg.item \in Items /\ msg = OutMsg(msg.item)
    /\ \A item, c : OutMsg(item) # ConnectMsg(c) /\ OutMsg(item) # TerminateMsg(c)
    /\ \A item, k, limited : OutMsg(item) # RespMsg(k, limited)
    /\ \A item, i : OutMsg(item) # InMsg(i) /\ OutMsg(item) # OtherMsg
<1>1. \A item, other : OutMsg(item) = OutMsg(other) => item = other
  BY DEF OutMsg
<1>2. \A item : OutMsg(item).type = "Out" /\ OutMsg(item).item = item
  BY DEF OutMsg
<1>3. \A item \in Items : OutMsg(item) \in ChannelMsgs /\ OutMsg(item) # NONE
  BY MsgTypes, NoneAssumption
<1>4. \A msg \in ChannelMsgs : msg.type = "Out" => msg.item \in Items /\ msg = OutMsg(msg.item)
  BY DEF ChannelMsgs, OutMsg, OtherMsg
<1>5. \A item, c : OutMsg(item) # ConnectMsg(c) /\ OutMsg(item) # TerminateMsg(c)
  BY <1>2 DEF ConnectMsg, TerminateMsg
<1>6. \A item, k, limited : OutMsg(item) # RespMsg(k, limited)
  BY <1>2 DEF RespMsg
<1>7. \A item, i : OutMsg(item) # InMsg(i) /\ OutMsg(item) # OtherMsg
  BY <1>2 DEF InMsg, OtherMsg
<1> QED BY <1>1, <1>2, <1>3, <1>4, <1>5, <1>6, <1>7

(* A message taken from a queue of a channel. *)
LEMMA TakenFromQueue ==
    ASSUME TypeOK, NEW c \in Channels, NEW isPriority \in BOOLEAN,
           QueueOf(c, isPriority) # <<>>, Dequeue(c, isPriority)
    PROVE  /\ Head(QueueOf(c, isPriority)) \in Items
           /\ \A d \in Channels :
                 /\ Range(priority'[d]) \subseteq Range(priority[d])
                 /\ Range(common'[d]) \subseteq Range(common[d])
                 /\ \A item \in Range(priority[d]) \cup Range(common[d]) :
                       \/ item \in Range(priority'[d]) \cup Range(common'[d])
                       \/ d = c /\ item = Head(QueueOf(c, isPriority))
           /\ isPriority => Head(QueueOf(c, isPriority)) \in Range(priority[c])
           /\ ~isPriority => Head(QueueOf(c, isPriority)) \in Range(common[c])
<1>1. priority \in [Channels -> Seq(Items)] /\ common \in [Channels -> Seq(Items)]
  BY DEF TypeOK, QueuesTyped
<1>2. QueueOf(c, isPriority) \in Seq(Items)
  BY <1>1 DEF QueueOf
<1>3. LET q == QueueOf(c, isPriority)
      IN  Range(q) = Range(Tail(q)) \cup {Head(q)} /\ Head(q) \in Items
  BY <1>2, SequenceElements
<1>4. CASE isPriority
  <2>1. priority' = [priority EXCEPT ![c] = Tail(priority[c])] /\ common' = common
        /\ QueueOf(c, isPriority) = priority[c]
    BY <1>4 DEF Dequeue, QueueOf
  <2> QED BY <1>1, <1>3, <1>4, <2>1
<1>5. CASE ~isPriority
  <2>1. common' = [common EXCEPT ![c] = Tail(common[c])] /\ priority' = priority
        /\ QueueOf(c, isPriority) = common[c]
    BY <1>5 DEF Dequeue, QueueOf
  <2> QED BY <1>1, <1>3, <1>5, <2>1
<1> QED BY <1>4, <1>5
(* The first encoding of an item, or another: a new number for every frame. *)
Fresh(item) ==
    /\ item.wait /\ item.m \in Outs /\ item.seqs = NewSeqs(item.m)
    /\ tries' = [tries EXCEPT ![item.m] = @ + 1]

(* A channel makes no message up: what it holds it held before, except for *)
(* one that it has just encoded.                                           *)
LEMMA ChannelItemOrigin ==
    ASSUME TypeOK, NEW c \in Channels, ChannelFlow(c), NEW item \in Items, Moving(item)'
    PROVE  Moving(item) \/ Fresh(item)
<1>0. /\ hand \in [Channels -> ChannelMsgs \cup {NONE}]
      /\ priority \in [Channels -> Seq(Items)] /\ common \in [Channels -> Seq(Items)]
      /\ OutMsg(item) # NONE /\ Range(<<>>) = {}
  BY OutMsgs DEF TypeOK, ChannelsTyped, QueuesTyped, Range
<1>1. CASE UNCHANGED channelFlow
  BY <1>1 DEF channelFlow, Moving, InChannels, Queued, OutMsg
<1>2. CASE Announces(c)
  <2>1. PICK msg \in {ConnectMsg(c), TerminateMsg(c)} :
          QueueForEntity(msg) /\ UNCHANGED <<priority, common, hand>>
    BY <1>2 DEF Announces
  <2>2. Range(from_channel') = Range(from_channel) \cup {msg} /\ msg # OutMsg(item)
    BY <2>1, QueueElements, MsgTypes, OutMsgs
  <2> QED BY <2>1, <2>2 DEF Moving, InChannels, Queued, OutMsg
<1>3. ASSUME UNCHANGED from_channel, NEW msg, hand' = [hand EXCEPT ![c] = msg],
             \A d \in Channels : /\ Range(priority'[d]) \subseteq Range(priority[d])
                                 /\ Range(common'[d]) \subseteq Range(common[d]),
             msg # OutMsg(item)
      PROVE  Moving(item)
  <2>1. CASE Queued(item)'
    BY <1>3, <2>1 DEF Queued, Moving, OutMsg
  <2>2. CASE InChannels(item)'
    <3>1. PICK d \in Channels : item \in Range(priority'[d]) \cup Range(common'[d])
                               \/ hand'[d] = OutMsg(item)
      BY <2>2 DEF InChannels, OutMsg
    <3>2. hand'[d] = OutMsg(item) => hand[d] = OutMsg(item)
      BY <1>0, <1>3
    <3>3. item \in Range(priority[d]) \cup Range(common[d]) \/ hand[d] = OutMsg(item)
      BY <1>3, <3>1, <3>2
    <3> QED BY <3>3 DEF Moving, InChannels
  <2> QED BY <2>1, <2>2 DEF Moving
<1>4. CASE Takes(c)
  <2>1. PICK isPriority \in BOOLEAN :
          /\ QueueOf(c, isPriority) # <<>> /\ Dequeue(c, isPriority)
          /\ LET taken == Head(QueueOf(c, isPriority))
             IN  \/ Bounce(c, taken)
                 \/ EncodeFails(c, taken)
                 \/ WriteFails(c, taken, isPriority)
                 \/ Write(c, taken)
                 \/ WriteTerminate(c, taken)
    BY <1>4 DEF Takes
  <2> DEFINE taken == Head(QueueOf(c, isPriority))
  <2>2. UNCHANGED from_channel /\ hand[c] = NONE
    BY <1>4 DEF Takes
  <2>3. /\ taken \in Items /\ taken \in Range(priority[c]) \cup Range(common[c])
        /\ \A d \in Channels : /\ Range(priority'[d]) \subseteq Range(priority[d])
                               /\ Range(common'[d]) \subseteq Range(common[d])
    BY <2>1, TakenFromQueue
  <2>4. Moving(taken)
    BY <2>3 DEF Moving, InChannels
  <2>5. CASE Bounce(c, taken) \/ WriteTerminate(c, taken)
    <3>1. hand' = [hand EXCEPT ![c] = OutMsg(taken)]
      BY <2>5 DEF Bounce, WriteTerminate
    <3>2. CASE item = taken
      BY <2>4, <3>2
    <3>3. CASE item # taken
      BY <1>3, <2>2, <2>3, <3>1, <3>3, OutMsgs
    <3> QED BY <3>2, <3>3
  <2>6. CASE EncodeFails(c, taken) \/ WriteFails(c, taken, isPriority)
    <3>1. hand' = [hand EXCEPT ![c] = NONE]
      BY <1>0, <2>2, <2>6 DEF EncodeFails, WriteFails
    <3> QED BY <1>0, <1>3, <2>2, <2>3, <3>1
  <2>7. CASE Write(c, taken)
    <3> DEFINE sent == [m |-> taken.m, wait |-> TRUE, seqs |-> NewSeqs(taken.m)]
    <3>1. hand' = [hand EXCEPT ![c] = OutMsg(sent)] /\ taken.m \in Outs
          /\ tries' = [tries EXCEPT ![taken.m] = @ + 1]
      BY <2>7 DEF Write
    <3>2. CASE item = sent
      BY <3>1, <3>2 DEF Fresh
    <3>3. CASE item # sent
      <4>1. OutMsg(sent) # OutMsg(item)
        BY <3>3, OutMsgs
      <4> HIDE DEF sent
      <4> QED BY <1>3, <2>2, <2>3, <3>1, <4>1
    <3> QED BY <3>2, <3>3
  <2> QED BY <2>1, <2>5, <2>6, <2>7
<1>5. CASE Ends(c)
  <2>1. /\ UNCHANGED from_channel /\ hand' = [hand EXCEPT ![c] = NONE]
        /\ priority' = [priority EXCEPT ![c] = <<>>] /\ common' = [common EXCEPT ![c] = <<>>]
    BY <1>5 DEF Ends, ClearAndLeave, Leave
  <2>2. \A d \in Channels : /\ Range(priority'[d]) \subseteq Range(priority[d])
                           /\ Range(common'[d]) \subseteq Range(common[d])
    BY <1>0, <2>1
  <2> QED BY <1>0, <1>3, <2>1, <2>2
<1>6. CASE PushFails(c) \/ HearsAnswer(c) \/ HearsMessage(c) \/ HearsControl(c)
  <2>1. UNCHANGED <<from_channel, priority, common>>
    BY <1>6 DEF PushFails, HearsAnswer, HearsMessage, HearsControl
  <2>2. PICK msg : hand' = [hand EXCEPT ![c] = msg] /\ msg # OutMsg(item)
    <3>1. CASE PushFails(c)
      BY <1>0, <3>1 DEF PushFails
    <3>2. CASE HearsAnswer(c)
      <4>1. PICK k, limited : hand' = [hand EXCEPT ![c] = RespMsg(k, limited)]
        BY <3>2 DEF HearsAnswer
      <4>2. RespMsg(k, limited) # OutMsg(item)
        BY OutMsgs
      <4> QED BY <4>1, <4>2
    <3>3. CASE HearsMessage(c)
      BY <3>3, OutMsgs DEF HearsMessage
    <3>4. CASE HearsControl(c)
      <4>1. PICK msg \in {OtherMsg, TerminateMsg(c)} : hand' = [hand EXCEPT ![c] = msg]
        BY <3>4 DEF HearsControl
      <4>2. msg # OutMsg(item)
        BY OutMsgs
      <4> QED BY <4>1, <4>2
    <3> QED BY <1>6, <3>1, <3>2, <3>3, <3>4
  <2> QED BY <1>3, <2>1, <2>2
<1>7. CASE Pushes(c)
  <2>1. /\ hand[c] \in ChannelMsgs /\ QueueForEntity(hand[c])
        /\ hand' = [hand EXCEPT ![c] = NONE] /\ UNCHANGED <<priority, common>>
    BY <1>0, <1>7 DEF Pushes
  <2>2. Range(from_channel') = Range(from_channel) \cup {hand[c]}
    BY <2>1, QueueElements
  <2>3. CASE Queued(item)'
    BY <2>2, <2>3 DEF Queued, Moving, InChannels, OutMsg
  <2>4. CASE InChannels(item)'
    BY <1>0, <2>1, <2>4 DEF Moving, InChannels, OutMsg
  <2> QED BY <2>3, <2>4 DEF Moving
<1> QED BY <1>1, <1>2, <1>4, <1>5, <1>6, <1>7 DEF ChannelFlow
---------------------------------------------------------------------------
(* When no part of a message can be lost: no channel ends without clear()  *)
(* (a frame that cannot be decoded, a peer that no longer answers), a      *)
(* message that cannot be written is one of priority, which is reported,   *)
(* every message can be encoded and has a msg_id for each of its frames,   *)
(* and none waits for four days.  Each of these is a way the code has to   *)
(* lose a message.                                                         *)
Lossless ==
    /\ Faults \cap {"abort", "silence"} = {}
    /\ "write_error" \in Faults => Outs \subseteq IsPriority
    /\ Outs \cap Unencodable = {}
    /\ \A m \in Outs : Frames[m] <= (IF MsgType[m] = "Submit" THEN MsgIds[m] ELSE 1)
    /\ "days" \notin Timers

CommonOrdinary ==
    \A c \in Channels : \A item \in Range(common[c]) : item.m \notin IsPriority

(* Some copy of m is on its way through the channels or back. *)
Underway(m) == \E item \in Items : item.m = m /\ Moving(item)

LEMMA ChannelKeepsItems ==
    ASSUME TypeOK, Lossless, CommonOrdinary, NEW c \in Channels, ChannelFlow(c), ~EntityGone,
           NEW m \in Outs, Underway(m)
    PROVE  m \in failed' \/ Underway(m)'
<1>0. /\ hand \in [Channels -> ChannelMsgs \cup {NONE}]
      /\ priority \in [Channels -> Seq(Items)] /\ common \in [Channels -> Seq(Items)]
      /\ \A item \in Items : OutMsg(item) # NONE
  BY OutMsgs DEF TypeOK, ChannelsTyped, QueuesTyped
<1>1. PICK item \in Items : item.m = m /\ Moving(item)
  BY DEF Underway
<1>2. SUFFICES ASSUME m \notin failed'
               PROVE  \E other \in Items : other.m = m /\ Moving(other)'
  BY DEF Underway, Moving, InChannels, Queued, OutMsg
<1>3. ASSUME UNCHANGED from_channel, NEW msg, hand' = [hand EXCEPT ![c] = msg],
             hand[c] # OutMsg(item), UNCHANGED <<priority, common>>
      PROVE  Moving(item)'
  <2>1. CASE Queued(item)
    BY <1>3, <2>1 DEF Moving, Queued, OutMsg
  <2>2. CASE InChannels(item)
    BY <1>0, <1>3, <2>2 DEF Moving, InChannels, OutMsg
  <2> QED BY <1>1, <2>1, <2>2 DEF Moving
<1>4. ASSUME NEW other \in Items, other.m = m, Moving(other)'
      PROVE  \E another \in Items : another.m = m /\ Moving(another)'
  BY <1>4
<1>5. CASE UNCHANGED channelFlow
  BY <1>1, <1>4, <1>5 DEF channelFlow, Moving, InChannels, Queued, OutMsg
<1>6. CASE Announces(c)
  <2>1. PICK msg \in {ConnectMsg(c), TerminateMsg(c)} :
          QueueForEntity(msg) /\ UNCHANGED <<priority, common, hand>>
    BY <1>6 DEF Announces
  <2>2. Range(from_channel') = Range(from_channel) \cup {msg}
    BY <2>1, QueueElements, MsgTypes
  <2> QED BY <1>1, <2>1, <2>2 DEF Moving, InChannels, Queued, OutMsg
<1>7. CASE Takes(c)
  <2>1. PICK isPriority \in BOOLEAN :
          /\ QueueOf(c, isPriority) # <<>> /\ Dequeue(c, isPriority)
          /\ LET taken == Head(QueueOf(c, isPriority))
             IN  \/ Bounce(c, taken)
                 \/ EncodeFails(c, taken)
                 \/ WriteFails(c, taken, isPriority)
                 \/ Write(c, taken)
                 \/ WriteTerminate(c, taken)
    BY <1>7 DEF Takes
  <2> DEFINE taken == Head(QueueOf(c, isPriority))
             queued(d) == Range(priority[d]) \cup Range(common[d])
  <2>2. UNCHANGED from_channel /\ hand[c] = NONE
    BY <1>7 DEF Takes
  <2>3. /\ taken \in Items
        /\ \A d \in Channels : \A x \in queued(d) : x \in queued(d)' \/ (d = c /\ x = taken)
        /\ ~isPriority => taken \in Range(common[c])
    BY <2>1, TakenFromQueue
  <2>4. CASE \E d \in Channels : item \in queued(d) /\ ~(d = c /\ item = taken)
    <3>1. PICK d \in Channels : item \in queued(d)'
      BY <2>3, <2>4
    <3> QED BY <1>1, <3>1 DEF Moving, InChannels, OutMsg
  <2>5. CASE Queued(item) \/ \E d \in Channels \ {c} : hand[d] = OutMsg(item)
    <3>1. \A d \in Channels \ {c} : hand'[d] = hand[d]
      BY <1>0, <2>1 DEF Bounce, EncodeFails, WriteFails, Write, WriteTerminate
    <3> QED BY <1>1, <2>2, <2>5, <3>1 DEF Moving, InChannels, Queued, OutMsg
  <2>6. CASE item = taken
    <3>1. CASE Bounce(c, taken) \/ WriteTerminate(c, taken)
      <4>1. hand'[c] = OutMsg(taken)
        BY <1>0, <3>1 DEF Bounce, WriteTerminate
      <4> QED BY <1>1, <2>6, <4>1 DEF Moving, InChannels, OutMsg
    <3>2. CASE EncodeFails(c, taken)
      BY <1>1, <2>6, <3>2 DEF EncodeFails, Lossless
    <3>3. CASE WriteFails(c, taken, isPriority)
      <4>1. ~isPriority
        BY <1>1, <1>2, <2>6, <3>3 DEF WriteFails
      <4>2. m \notin IsPriority
        BY <1>1, <2>3, <2>6, <4>1 DEF CommonOrdinary
      <4> QED BY <3>3, <4>2 DEF WriteFails, Lossless
    <3>4. CASE Write(c, taken)
      <4>1. [m |-> m, wait |-> TRUE, seqs |-> NewSeqs(m)] \in Items
        BY NewSeqsTyped DEF TypeOK
      <4>2. hand'[c] = OutMsg([m |-> m, wait |-> TRUE, seqs |-> NewSeqs(m)])
        BY <1>0, <1>1, <2>6, <3>4 DEF Write
      <4>3. PICK sent \in Items : sent.m = m /\ hand'[c] = OutMsg(sent)
        BY <4>1, <4>2
      <4>4. Moving(sent)'
        BY <4>3 DEF Moving, InChannels, OutMsg
      <4> QED BY <4>3, <4>4
    <3> QED BY <2>1, <3>1, <3>2, <3>3, <3>4
  <2> QED BY <1>0, <1>1, <2>2, <2>4, <2>5, <2>6 DEF Moving, InChannels
<1>8. CASE Ends(c)
  <2>1. ClearAndLeave(c) /\ UNCHANGED from_channel /\ hand[c] = NONE
    BY <1>8 DEF Ends, Lossless
  <2>2. item \notin Range(priority[c]) \cup Range(common[c])
    BY <1>1, <1>2, <2>1 DEF ClearAndLeave, QueuedFor, Range
  <2>3. \A d \in Channels \ {c} : /\ priority'[d] = priority[d] /\ common'[d] = common[d]
                                /\ hand'[d] = hand[d]
    BY <1>0, <2>1 DEF ClearAndLeave, Leave
  <2>4. hand[c] # OutMsg(item)
    BY <1>0, <2>1
  <2>5. CASE Queued(item)
    BY <1>1, <2>1, <2>5 DEF Moving, Queued, OutMsg
  <2>6. CASE InChannels(item)
    <3>1. PICK d \in Channels \ {c} : item \in Range(priority[d]) \cup Range(common[d])
                                     \/ hand[d] = OutMsg(item)
      BY <2>2, <2>4, <2>6 DEF InChannels
    <3> QED BY <1>1, <2>3, <3>1 DEF Moving, InChannels, OutMsg
  <2> QED BY <1>1, <2>5, <2>6 DEF Moving
<1>9. CASE PushFails(c)
  BY <1>9 DEF PushFails
<1>10. CASE HearsAnswer(c) \/ HearsMessage(c) \/ HearsControl(c)
  <2>1. /\ UNCHANGED <<from_channel, priority, common>> /\ hand[c] = NONE
        /\ \E msg : hand' = [hand EXCEPT ![c] = msg]
    BY <1>10 DEF HearsAnswer, HearsMessage, HearsControl
  <2> QED BY <1>0, <1>1, <1>3, <1>4, <2>1
<1>11. CASE Pushes(c)
  <2>1. /\ hand[c] \in ChannelMsgs /\ QueueForEntity(hand[c])
        /\ hand' = [hand EXCEPT ![c] = NONE] /\ UNCHANGED <<priority, common>>
    BY <1>0, <1>11 DEF Pushes
  <2>2. Range(from_channel') = Range(from_channel) \cup {hand[c]}
    BY <2>1, QueueElements
  <2>3. CASE hand[c] = OutMsg(item) \/ Queued(item)
    BY <1>1, <2>2, <2>3 DEF Queued, Moving, OutMsg
  <2>4. CASE InChannels(item) /\ hand[c] # OutMsg(item)
    BY <1>0, <1>1, <2>1, <2>4 DEF Moving, InChannels, OutMsg
  <2> QED BY <1>1, <2>3, <2>4 DEF Moving
<1> QED BY <1>5, <1>6, <1>7, <1>8, <1>9, <1>10, <1>11 DEF ChannelFlow
---------------------------------------------------------------------------
(* Everywhere an outgoing message can be. *)
Exists(item) == sending = item \/ item \in to_resend \/ Moving(item) \/ Cached(item)

(* A step that changes the queues of no channel and at most takes from the *)
(* entity's moves nothing.                                                 *)
LEMMA QueuesDrain ==
    ASSUME TypeOK, UNCHANGED <<priority, common, hand>>,
           UNCHANGED from_channel \/ from_channel' = <<>> \/ \E type : TakeFromChannel(type),
           NEW item, Moving(item)'
    PROVE  Moving(item)
<1>1. Range(<<>>) = {}
  BY DEF Range
<1>2. Range(from_channel') \subseteq Range(from_channel)
  BY <1>1, QueueElements
<1> QED BY <1>2 DEF Moving, InChannels, Queued, OutMsg

(* Close puts a Terminate, and only that, into the priority queues.        *)
LEMMA CloseItems ==
    ASSUME TypeOK, Close, NEW c \in Channels
    PROVE  /\ Range(priority[c]) \subseteq Range(priority'[c])
           /\ Range(priority'[c]) \subseteq Range(priority[c]) \cup {Terminate}
<1>1. priority[c] \in Seq(Items) /\ Terminate \in Items
  BY ItemTypes DEF TypeOK, QueuesTyped
<1>2. priority'[c] = priority[c] \/ priority'[c] = Append(priority[c], Terminate)
  BY DEF Close
<1>3. Range(Append(priority[c], Terminate)) = Range(priority[c]) \cup {Terminate}
  BY <1>1, SequenceElements
<1> QED BY <1>2, <1>3

(* send_to_channels puts the message into one queue: the one of its kind.  *)
LEMMA SentItemsGo ==
    ASSUME TypeOK, LoopBound, TryChannel, SendToOpen
    PROVE  /\ sending \in Items /\ sending.m \in Outs
           /\ \E c \in Channels : sending \in Range(priority'[c]) \cup Range(common'[c])
           /\ \A c \in Channels :
                 /\ Range(priority[c]) \subseteq Range(priority'[c])
                 /\ Range(common[c]) \subseteq Range(common'[c])
                 /\ Range(priority'[c]) \subseteq Range(priority[c]) \cup {sending}
                 /\ sending.m \notin IsPriority => Range(common'[c]) \subseteq Range(common[c]) \cup {sending}
                 /\ sending.m \in IsPriority => Range(common'[c]) = Range(common[c])
<1>1. /\ sending \in Items /\ sending.m \in Outs
      /\ priority \in [Channels -> Seq(Items)] /\ common \in [Channels -> Seq(Items)]
  BY DEF TypeOK, EntityTyped, QueuesTyped, TryChannel
<1>2. PICK c \in Channels : Enqueue(c, sending)
  <2>1. /\ send_channels \in Seq(Channels) /\ Len(send_channels) \in Nat \ {0}
        /\ NextIndex \in Nat
    BY LimitsAssumption DEF TypeOK, QueuesTyped, EntityTyped, TryChannel, LoopBound, NextIndex
  <2>2. NextIndex % Len(send_channels) \in 0..(Len(send_channels) - 1)
    BY <2>1
  <2>3. Selected \in Channels
    BY <2>1, <2>2 DEF Selected
  <2> QED BY <2>3 DEF SendToOpen
<1>3. Range(Append(priority[c], sending)) = Range(priority[c]) \cup {sending}
  <2>1. priority[c] \in Seq(Items)
    BY <1>1
  <2> QED BY <1>1, <2>1, SequenceElements
<1>4. Range(Append(common[c], sending)) = Range(common[c]) \cup {sending}
  <2>1. common[c] \in Seq(Items)
    BY <1>1
  <2> QED BY <1>1, <2>1, SequenceElements
<1>5. CASE sending.m \in IsPriority
  <2>1. priority' = [priority EXCEPT ![c] = Append(priority[c], sending)] /\ common' = common
    BY <1>2, <1>5 DEF Enqueue
  <2> QED BY <1>1, <1>3, <1>5, <2>1
<1>6. CASE sending.m \notin IsPriority
  <2>1. common' = [common EXCEPT ![c] = Append(common[c], sending)] /\ priority' = priority
    BY <1>2, <1>6 DEF Enqueue
  <2> QED BY <1>1, <1>4, <1>6, <2>1
<1> QED BY <1>5, <1>6
(* What the step does to the messages the entity itself has.               *)
LEMMA EntityItemOrigin ==
    ASSUME TypeOK, LoopBound, EntityStep, UNCHANGED hand, NEW item \in Items, Exists(item)'
    PROVE  Exists(item) \/ ~item.wait
<1>0. ~Terminate.wait /\ \A m : ~NewItem(m).wait
  BY DEF Terminate, NewItem
<1>1. ASSUME UNCHANGED <<priority, common>>,
             UNCHANGED from_channel \/ from_channel' = <<>> \/ \E type : TakeFromChannel(type),
             Moving(item)'
      PROVE  Exists(item)
  BY <1>1, QueuesDrain DEF Exists
<1>2. ASSUME NEW S, wait_receipt_map' = Restrict(wait_receipt_map, DOMAIN wait_receipt_map \ S),
             Cached(item)'
      PROVE  Exists(item)
  BY <1>2 DEF Cached, Restrict, Exists
<1>3. ASSUME wait_receipt_map' = wait_receipt_map, Cached(item)'
      PROVE  Exists(item)
  BY <1>3 DEF Cached, Exists
<1>4. CASE TryChannel
  <2>1. CASE SkipReadOnly \/ SendToClosed
    <3>1. UNCHANGED <<priority, common, from_channel, sending, to_resend, wait_receipt_map>>
      BY <1>4, <2>1 DEF TryChannel, SkipReadOnly, SendToClosed
    <3> QED BY <1>1, <1>3, <3>1 DEF Exists
  <2>2. CASE SendToOpen
    <3>1. UNCHANGED <<from_channel, to_resend, wait_receipt_map>> /\ sending' = Terminate
      BY <1>4, <2>2 DEF TryChannel, SendToOpen, Return
    <3>2. ASSUME Moving(item)'
          PROVE  Exists(item)
      <4>1. CASE Queued(item)'
        BY <3>1, <4>1 DEF Queued, Exists, Moving, OutMsg
      <4>2. CASE InChannels(item)'
        <5>1. PICK c \in Channels : item \in Range(priority'[c]) \cup Range(common'[c])
                                   \/ hand[c] = OutMsg(item)
          BY <4>2 DEF InChannels, OutMsg
        <5>2. item \in Range(priority'[c]) \cup Range(common'[c])
              => item = sending \/ item \in Range(priority[c]) \cup Range(common[c])
          BY <1>4, <2>2, SentItemsGo
        <5> QED BY <5>1, <5>2 DEF Exists, Moving, InChannels
      <4> QED BY <3>2, <4>1, <4>2 DEF Moving
    <3> QED BY <1>0, <1>3, <3>1, <3>2 DEF Exists
  <2> QED BY <1>4, <2>1, <2>2 DEF TryChannel
<1>5. CASE NoChannelTook
  <2>1. UNCHANGED <<priority, common, from_channel, to_resend, wait_receipt_map>>
        /\ sending' = Terminate
    BY <1>5 DEF NoChannelTook, Return, channelQueues
  <2> QED BY <1>0, <1>1, <1>3, <2>1 DEF Exists
<1>6. CASE ReSend
  <2>1. UNCHANGED <<priority, common, from_channel, sending>>
        /\ \A x \in to_resend' : Cached(x)
    BY <1>6 DEF ReSend, channelQueues, Cached, Overdue
  <2> QED BY <1>1, <1>2, <1>6, <2>1 DEF Exists, ReSend
<1>7. CASE PopResend
  <2>1. UNCHANGED <<priority, common, from_channel, wait_receipt_map>>
        /\ to_resend' \subseteq to_resend /\ sending' \in to_resend
    BY <1>7 DEF PopResend, channelQueues, StartSend
  <2> QED BY <1>1, <1>3, <2>1 DEF Exists
<1>8. CASE ClearSendSmsCache
  <2>1. UNCHANGED <<priority, common, from_channel, sending, to_resend>>
    BY <1>8 DEF ClearSendSmsCache, baseVars
  <2> QED BY <1>1, <1>2, <1>8, <2>1 DEF Exists, ClearSendSmsCache
<1>9. CASE AnswerLimited
  <2>1. UNCHANGED <<priority, common, to_resend>> /\ Cached(sending')
        /\ TakeFromChannel("Resp")
    BY <1>9 DEF AnswerLimited, channelQueues, Cached, StartSend
  <2>2. wait_receipt_map' = Restrict(wait_receipt_map, DOMAIN wait_receipt_map \ {Head(from_channel).seq})
    BY <1>9 DEF AnswerLimited, Forget
  <2> QED BY <1>1, <1>2, <2>1, <2>2 DEF Exists
<1>10. CASE AnswerMatched
  <2>1. UNCHANGED <<priority, common, sending, to_resend>> /\ TakeFromChannel("Resp")
    BY <1>10 DEF AnswerMatched, channelQueues
  <2>2. wait_receipt_map' = Restrict(wait_receipt_map, DOMAIN wait_receipt_map \ {Head(from_channel).seq})
    BY <1>10 DEF AnswerMatched, Forget
  <2> QED BY <1>1, <1>2, <2>1, <2>2 DEF Exists
<1>11. CASE CacheSent
  <2>1. UNCHANGED <<priority, common, sending, to_resend>> /\ TakeFromChannel("Out")
    BY <1>11 DEF CacheSent, channelQueues
  <2>2. Moving(Head(from_channel).item)
    BY <2>1, QueueElements, OutMsgs DEF Moving, Queued
  <2>3. \A k \in DOMAIN wait_receipt_map' :
          \/ wait_receipt_map'[k].item = Head(from_channel).item
          \/ k \in DOMAIN wait_receipt_map /\ wait_receipt_map'[k] = wait_receipt_map[k]
    BY <1>11 DEF CacheSent, Insert
  <2>4. Cached(item)' => Exists(item)
    BY <2>2, <2>3 DEF Cached, Exists
  <2> QED BY <1>1, <2>1, <2>4 DEF Exists
<1>12. CASE PushBack
  <2>1. UNCHANGED <<priority, common, to_resend, wait_receipt_map>> /\ TakeFromChannel("Out")
        /\ sending' = Head(from_channel).item
    BY <1>12 DEF PushBack, channelQueues, StartSend
  <2>2. Moving(Head(from_channel).item)
    BY <2>1, QueueElements, OutMsgs DEF Moving, Queued
  <2> QED BY <1>1, <1>3, <2>1, <2>2 DEF Exists
<1>13. ASSUME NEW type, TakeFromChannel(type),
              UNCHANGED <<priority, common, sending, to_resend, wait_receipt_map>>
       PROVE  Exists(item)
  BY <1>1, <1>3, <1>13 DEF Exists
<1>14. CASE AnswerUnmatched
  BY <1>13, <1>14 DEF AnswerUnmatched, channelQueues
<1>15. CASE PublishInbound
  BY <1>13, <1>15 DEF PublishInbound, channelQueues
<1>16. CASE IgnoreOther
  BY <1>13, <1>16 DEF IgnoreOther, channelQueues, entityVars
<1>17. CASE ChannelTerminated
  BY <1>13, <1>17 DEF ChannelTerminated, channelQueues
<1>18. CASE TakeConnect
  BY <1>13, <1>18 DEF TakeConnect, channelQueues
<1>19. CASE ChannelConnected \/ RequestState
  <2>1. UNCHANGED <<priority, common, from_channel, sending, to_resend, wait_receipt_map>>
    BY <1>19 DEF ChannelConnected, RequestState, channelQueues
  <2> QED BY <1>1, <1>3, <2>1 DEF Exists
<1>20. CASE SendMessage
  <2>1. UNCHANGED <<priority, common, from_channel, to_resend, wait_receipt_map>>
        /\ \E m : sending' = NewItem(m)
    BY <1>20 DEF SendMessage, channelQueues, StartSend
  <2> QED BY <1>0, <1>1, <1>3, <2>1 DEF Exists
<1>21. CASE Close
  <2>1. UNCHANGED <<common, from_channel, sending, to_resend, wait_receipt_map>>
    BY <1>21 DEF Close, entityVars
  <2>2. ASSUME item # Terminate, Moving(item)' PROVE Moving(item)
    BY <1>21, <2>1, <2>2, CloseItems DEF Moving, InChannels, Queued, OutMsg
  <2> QED BY <1>0, <1>3, <2>1, <2>2 DEF Exists
<1>22. CASE Stop
  <2>1. UNCHANGED <<priority, common, sending, to_resend>> /\ from_channel' = <<>>
        /\ DOMAIN wait_receipt_map' = {}
    BY <1>22 DEF Stop, channelQueues
  <2> QED BY <1>1, <2>1 DEF Exists, Cached
<1> QED BY <1>4, <1>5, <1>6, <1>7, <1>8, <1>9, <1>10, <1>11, <1>12, <1>14, <1>15, <1>16, <1>17,
           <1>18, <1>19, <1>20, <1>21, <1>22 DEF EntityStep
---------------------------------------------------------------------------
(* A message that was sent carries the numbers of one of its encodings,    *)
(* one for each frame.                                                     *)
Encoded(item) ==
    item.wait =>
        \E t \in 1..tries[item.m] : item.seqs = [i \in 1..Frames[item.m] |-> <<item.m, t, i>>]
ItemsEncoded == \A item \in Items : Exists(item) => Encoded(item)

(* An entry is found under the number of its part. *)
EntriesKeyed ==
    \A k \in DOMAIN wait_receipt_map :
        LET e == wait_receipt_map[k]
        IN  e.part \in 1..Frames[e.item.m] /\ k = e.item.seqs[e.part]

(* What re_send! took out is sent again before anything else is done.      *)
ResendsDone == pc \in {"select", "connect"} => to_resend = {}

NoneOld == "days" \notin Timers => \A k \in DOMAIN wait_receipt_map : wait_receipt_map[k].age # 2

(* The attempts are counted up. *)
LEMMA TriesGrow ==
    ASSUME TypeOK, [Next]_vars
    PROVE  \A m \in Outs : tries[m] \in Nat /\ tries'[m] \in Nat /\ tries[m] <= tries'[m]
<1>0. tries \in [Outs -> Nat]
  BY DEF TypeOK, ChannelsTyped
<1>1. CASE ManagerStep
  <2>1. UNCHANGED tries
    BY <1>1 DEF ManagerStep, Send, AskState, CloseEntity, ToEntity, channelVars
  <2> QED BY <1>0, <2>1
<1>2. CASE (EntityStep \/ AnswersTimeOut \/ DaysTimeOut) /\ UNCHANGED channelVars
  BY <1>0, <1>2 DEF channelVars
<1>3. CASE \E c \in Channels : (Login(c) \/ ChannelStep(c) \/ PeerStep(c)) /\ EntityIdle
  <2>1. PICK c \in Channels : ChannelFlow(c)
    BY <1>3, ChannelFlows
  <2>2. tries' = tries \/ \E m \in Outs : tries' = [tries EXCEPT ![m] = @ + 1]
    <3>1. CASE Takes(c)
      BY <3>1 DEF Takes, Bounce, EncodeFails, WriteFails, Write, WriteTerminate
    <3>2. CASE ~Takes(c)
      BY <2>1, <3>2 DEF ChannelFlow, channelFlow, Announces, Ends, Pushes, PushFails, HearsAnswer,
                        HearsMessage, HearsControl
    <3> QED BY <3>1, <3>2
  <2> QED BY <1>0, <2>2
<1>4. CASE UNCHANGED vars
  BY <1>0, <1>4 DEF vars, channelVars
<1> QED BY <1>1, <1>2, <1>3, <1>4 DEF Next

LEMMA EncodedStays ==
    ASSUME TypeOK, [Next]_vars, NEW item \in Items, Encoded(item)
    PROVE  Encoded(item)'
<1>1. item.wait => item.m \in Outs
  BY DEF Items
<1>2. CASE item.wait
  <2>1. tries[item.m] \in Nat /\ tries'[item.m] \in Nat /\ tries[item.m] <= tries'[item.m]
    BY <1>1, <1>2, TriesGrow
  <2> QED BY <1>2, <2>1 DEF Encoded
<1> QED BY <1>2 DEF Encoded

(* Where each item of the next state was. *)
LEMMA ItemOrigin ==
    ASSUME TypeOK, LoopBound, [Next]_vars, NEW item \in Items, Exists(item)'
    PROVE  Exists(item) \/ ~item.wait \/ Fresh(item)
<1>1. ASSUME UNCHANGED <<priority, common, hand, from_channel, sending, to_resend, wait_receipt_map>>
      PROVE  Exists(item)
  BY <1>1 DEF Exists, Moving, InChannels, Queued, Cached, OutMsg
<1>2. CASE ManagerStep
  BY <1>1, <1>2 DEF ManagerStep, Send, AskState, CloseEntity, ToEntity, entityVars, channelVars
<1>3. CASE EntityStep /\ UNCHANGED channelVars
  BY <1>3, EntityItemOrigin DEF channelVars
<1>4. CASE (AnswersTimeOut \/ DaysTimeOut) /\ UNCHANGED channelVars
  <2>1. /\ UNCHANGED <<priority, common, from_channel, sending, to_resend>>
        /\ DOMAIN wait_receipt_map' = DOMAIN wait_receipt_map
        /\ \A k \in DOMAIN wait_receipt_map : wait_receipt_map'[k].item = wait_receipt_map[k].item
    BY <1>4 DEF AnswersTimeOut, DaysTimeOut, AnswersAge, DaysPass, baseVars, TypeOK, EntityTyped, Entries
  <2>2. UNCHANGED hand
    BY <1>4 DEF channelVars
  <2> QED BY <2>1, <2>2 DEF Exists, Moving, InChannels, Queued, Cached, OutMsg
<1>5. CASE \E c \in Channels : (Login(c) \/ ChannelStep(c) \/ PeerStep(c)) /\ EntityIdle
  <2>1. PICK c \in Channels : ChannelFlow(c)
    BY <1>5, ChannelFlows
  <2>2. UNCHANGED <<sending, to_resend, wait_receipt_map>>
    BY <1>5 DEF EntityIdle, entityVars
  <2> QED BY <2>1, <2>2, ChannelItemOrigin DEF Exists, Cached
<1>6. CASE UNCHANGED vars
  BY <1>1, <1>6 DEF vars, baseVars, entityVars, channelVars
<1> QED BY <1>2, <1>3, <1>4, <1>5, <1>6 DEF Next

LEMMA EncodedKept ==
    ASSUME TypeOK, LoopBound, ItemsEncoded, [Next]_vars
    PROVE  ItemsEncoded'
<1> SUFFICES ASSUME NEW item \in Items, Exists(item)' PROVE Encoded(item)'
  BY DEF ItemsEncoded, Exists, Encoded, Moving, InChannels, Queued, Cached, OutMsg
<1>1. CASE Exists(item)
  BY <1>1, EncodedStays DEF ItemsEncoded
<1>2. CASE ~item.wait
  BY <1>2 DEF Encoded
<1>3. CASE Fresh(item)
  <2>1. item.m \in Outs /\ tries[item.m] \in Nat /\ tries'[item.m] = tries[item.m] + 1
    BY <1>3 DEF Fresh, TypeOK, ChannelsTyped
  <2>2. item.seqs = [i \in 1..Frames[item.m] |-> <<item.m, tries'[item.m], i>>]
    BY <1>3, <2>1 DEF Fresh, NewSeqs
  <2>3. tries'[item.m] \in 1..tries'[item.m]
    BY <2>1
  <2> QED BY <2>2, <2>3 DEF Encoded
<1> QED BY <1>1, <1>2, <1>3, ItemOrigin
(* The simpler parts of the invariant. *)
LEMMA CommonKept ==
    ASSUME TypeOK, LoopBound, CommonOrdinary, [Next]_vars
    PROVE  CommonOrdinary'
<1>1. SUFFICES ASSUME NEW c \in Channels, NEW item \in Range(common'[c]), item \notin Range(common[c])
               PROVE  item.m \notin IsPriority
  BY DEF CommonOrdinary
<1>2. common' # common
  BY <1>1
<1>3. CASE \E d \in Channels : (Login(d) \/ ChannelStep(d) \/ PeerStep(d)) /\ EntityIdle
  <2>1. PICK d \in Channels : ChannelFlow(d)
    BY <1>3, ChannelFlows
  <2>2. CASE Takes(d)
    <3>1. PICK isPriority \in BOOLEAN : QueueOf(d, isPriority) # <<>> /\ Dequeue(d, isPriority)
      BY <2>2 DEF Takes
    <3> QED BY <1>1, <3>1, TakenFromQueue
  <2>3. CASE Ends(d)
    <3>1. common' = [common EXCEPT ![d] = <<>>] /\ common \in [Channels -> Seq(Items)]
      BY <2>3 DEF Ends, ClearAndLeave, Leave, TypeOK, QueuesTyped
    <3>2. common'[c] = common[c] \/ common'[c] = <<>>
      BY <3>1
    <3>3. Range(<<>>) = {}
      BY DEF Range
    <3> QED BY <1>1, <3>2, <3>3
  <2>4. CASE ~Takes(d) /\ ~Ends(d)
    BY <1>2, <2>1, <2>4 DEF ChannelFlow, channelFlow, Announces, Pushes, PushFails, HearsAnswer,
                            HearsMessage, HearsControl
  <2> QED BY <2>2, <2>3, <2>4
<1>4. CASE EntityStep
  <2>1. TryChannel /\ SendToOpen
    BY <1>2, <1>4
    DEF EntityStep, TryChannel, SkipReadOnly, SendToClosed, NoChannelTook, ReSend, PopResend,
        ClearSendSmsCache, AnswerLimited, AnswerMatched, AnswerUnmatched, CacheSent, PushBack,
        PublishInbound, IgnoreOther, ChannelTerminated, TakeConnect, ChannelConnected, SendMessage,
        RequestState, Close, Stop, baseVars, channelQueues
  <2> QED BY <1>1, <2>1, SentItemsGo
<1>5. CASE ManagerStep \/ AnswersTimeOut \/ DaysTimeOut \/ UNCHANGED vars
  BY <1>2, <1>5 DEF ManagerStep, Send, AskState, CloseEntity, ToEntity, AnswersTimeOut, DaysTimeOut,
                    AnswersAge, DaysPass, vars, baseVars
<1> QED BY <1>3, <1>4, <1>5 DEF Next

LEMMA ResendsKept ==
    ASSUME TypeOK, ResendsDone, [Next]_vars
    PROVE  ResendsDone'
<1>1. CASE ~EntityStep
  <2>1. UNCHANGED pc
    BY <1>1, OthersKeepReport DEF reportVars
  <2>2. UNCHANGED to_resend
    BY <1>1 DEF Next, ManagerStep, Send, AskState, CloseEntity, ToEntity, AnswersTimeOut, DaysTimeOut,
                AnswersAge, DaysPass, EntityIdle, vars, entityVars
  <2> QED BY <2>1, <2>2 DEF ResendsDone
<1>2. CASE TryChannel \/ NoChannelTook
  BY <1>2 DEF TryChannel, SkipReadOnly, SendToOpen, SendToClosed, NoChannelTook, Return, ResendsDone
<1>3. CASE ReSend \/ PopResend \/ ClearSendSmsCache
  BY <1>3 DEF ReSend, PopResend, StartSend, ClearSendSmsCache, baseVars, ResendsDone
<1>4. CASE AnswerLimited \/ AnswerMatched \/ AnswerUnmatched
  BY <1>4 DEF AnswerLimited, AnswerMatched, AnswerUnmatched, ResendsDone, StartSend, TakeFromChannel
<1>5. CASE CacheSent \/ PushBack \/ PublishInbound \/ IgnoreOther
  BY <1>5 DEF CacheSent, PushBack, PublishInbound, IgnoreOther, entityVars, ResendsDone, StartSend,
              TakeFromChannel
<1>6. CASE ChannelTerminated \/ TakeConnect \/ ChannelConnected
  BY <1>6 DEF ChannelTerminated, TakeConnect, ChannelConnected, ResendsDone, TakeFromChannel
<1>7. CASE SendMessage \/ RequestState \/ Close \/ Stop
  BY <1>7 DEF SendMessage, RequestState, Close, Stop, entityVars, ResendsDone, StartSend
<1> QED BY <1>1, <1>2, <1>3, <1>4, <1>5, <1>6, <1>7 DEF EntityStep

(* What an entry is: its key, its part, its age.                           *)
LEMMA EntriesKept ==
    ASSUME TypeOK, ItemsEncoded, EntriesKeyed, NoneOld, [Next]_vars
    PROVE  EntriesKeyed' /\ NoneOld'
<1>0. MapTyped
  BY DEF TypeOK, EntityTyped, MapTyped
<1>1. CASE UNCHANGED wait_receipt_map
  BY <1>1 DEF EntriesKeyed, NoneOld
<1>2. ASSUME NEW S, wait_receipt_map' = Restrict(wait_receipt_map, DOMAIN wait_receipt_map \ S)
      PROVE  EntriesKeyed' /\ NoneOld'
  BY <1>2 DEF EntriesKeyed, NoneOld, Restrict
<1>3. CASE AnswersAge
  <2>1. /\ DOMAIN wait_receipt_map' = DOMAIN wait_receipt_map
        /\ \A k \in DOMAIN wait_receipt_map :
              /\ wait_receipt_map'[k].item = wait_receipt_map[k].item
              /\ wait_receipt_map'[k].part = wait_receipt_map[k].part
              /\ wait_receipt_map[k].age # 2 => wait_receipt_map'[k].age # 2
    BY <1>0, <1>3 DEF AnswersAge, MapTyped, Entries
  <2> QED BY <2>1 DEF EntriesKeyed, NoneOld
<1>4. CASE DaysTimeOut
  <2>1. /\ DOMAIN wait_receipt_map' = DOMAIN wait_receipt_map
        /\ \A k \in DOMAIN wait_receipt_map :
              /\ wait_receipt_map'[k].item = wait_receipt_map[k].item
              /\ wait_receipt_map'[k].part = wait_receipt_map[k].part
    BY <1>0, <1>4 DEF DaysTimeOut, DaysPass, MapTyped, Entries
  <2> QED BY <1>4, <2>1 DEF EntriesKeyed, NoneOld, DaysTimeOut
<1>5. CASE CacheSent
  <2> DEFINE item == Head(from_channel).item
             count == IF MsgType[item.m] # "Submit" THEN 1
                      ELSE IF Len(item.seqs) <= MsgIds[item.m] THEN Len(item.seqs)
                      ELSE MsgIds[item.m]
             part(k) == CHOOSE i \in 1..count : item.seqs[i] = k
  <2>1. /\ TakeFromChannel("Out") /\ item.wait /\ Insert(item)
    BY <1>5 DEF CacheSent
  <2>2. item \in Items /\ item.m \in Outs /\ Exists(item)
    BY <2>1, QueueElements, OutMsgs DEF Exists, Moving, Queued, Items
  <2>3. Len(item.seqs) = Frames[item.m] /\ Frames[item.m] \in Nat \ {0} /\ MsgIds[item.m] \in Nat
    <3>1. Frames[item.m] \in Nat \ {0} /\ MsgIds[item.m] \in Nat
      BY <2>2, OutsAssumption
    <3>2. PICK t : item.seqs = [i \in 1..Frames[item.m] |-> <<item.m, t, i>>]
      BY <2>1, <2>2 DEF ItemsEncoded, Encoded
    <3> QED BY <3>1, <3>2
  <2>4. 1..count \subseteq 1..Frames[item.m]
    BY <2>3
  <2>5. wait_receipt_map' =
            [k \in DOMAIN wait_receipt_map \cup {item.seqs[i] : i \in 1..count} |->
                IF k \in {item.seqs[i] : i \in 1..count}
                THEN [item |-> item, part |-> part(k), need |-> part(k) = 1, age |-> 0]
                ELSE wait_receipt_map[k]]
    BY <2>1 DEF Insert
  <2> HIDE DEF item, count
  <2>6. ASSUME NEW k \in {item.seqs[i] : i \in 1..count}
        PROVE  part(k) \in 1..count /\ item.seqs[part(k)] = k
    BY <2>6
  <2> HIDE DEF part
  <2>7. ASSUME NEW k \in DOMAIN wait_receipt_map'
        PROVE  /\ wait_receipt_map'[k].part \in 1..Frames[wait_receipt_map'[k].item.m]
               /\ k = wait_receipt_map'[k].item.seqs[wait_receipt_map'[k].part]
               /\ "days" \notin Timers => wait_receipt_map'[k].age # 2
    <3>1. CASE k \in {item.seqs[i] : i \in 1..count}
      <4>1. wait_receipt_map'[k] = [item |-> item, part |-> part(k), need |-> part(k) = 1, age |-> 0]
        BY <2>5, <3>1
      <4> QED BY <2>4, <2>6, <3>1, <4>1
    <3>2. CASE k \notin {item.seqs[i] : i \in 1..count}
      <4>1. wait_receipt_map'[k] = wait_receipt_map[k] /\ k \in DOMAIN wait_receipt_map
        BY <2>5, <2>7, <3>2
      <4> QED BY <4>1 DEF EntriesKeyed, NoneOld
    <3> QED BY <3>1, <3>2
  <2> QED BY <2>7 DEF EntriesKeyed, NoneOld
<1>6. CASE ReSend \/ ClearSendSmsCache \/ AnswerLimited \/ AnswerMatched
  <2>1. \E S : wait_receipt_map' = Restrict(wait_receipt_map, DOMAIN wait_receipt_map \ S)
    BY <1>6 DEF ReSend, ClearSendSmsCache, AnswerLimited, AnswerMatched, Forget
  <2> QED BY <1>2, <2>1
<1>7. CASE Stop
  BY <1>7 DEF Stop, EntriesKeyed, NoneOld
<1>8. CASE EntityStep
  <2>1. \/ UNCHANGED wait_receipt_map
        \/ CacheSent \/ ReSend \/ ClearSendSmsCache \/ AnswerLimited \/ AnswerMatched \/ Stop
    BY <1>8 DEF EntityStep, TryChannel, NoChannelTook, PopResend, AnswerUnmatched, PushBack,
                PublishInbound, IgnoreOther, ChannelTerminated, TakeConnect, ChannelConnected,
                SendMessage, RequestState, Close, entityVars
  <2> QED BY <1>1, <1>5, <1>6, <1>7, <2>1
<1>9. CASE ManagerStep \/ UNCHANGED vars \/ \E c \in Channels : EntityIdle
  BY <1>1, <1>9 DEF ManagerStep, Send, AskState, CloseEntity, ToEntity, EntityIdle, vars, entityVars
<1> QED BY <1>3, <1>4, <1>8, <1>9 DEF Next, AnswersTimeOut
---------------------------------------------------------------------------
(* The places of a message, one by one. *)
Waiting(m) == \E n \in DOMAIN from_manager : from_manager[n].type = "send" /\ from_manager[n].m = m
BeingSent(m) == pc = "send" /\ sending.m = m
SentAgain(m) == \E item \in to_resend : item.m = m
PartWaits(m, i) ==
    \E k \in DOMAIN wait_receipt_map :
        wait_receipt_map[k].item.m = m /\ wait_receipt_map[k].part = i

Kept(m, i) ==
    \/ m \in failed \/ <<m, i>> \in answered
    \/ Waiting(m) \/ BeingSent(m) \/ SentAgain(m) \/ Underway(m) \/ PartWaits(m, i)

LEMMA HeldWholeIs ==
    ASSUME TypeOK, NEW m \in Outs
    PROVE  HeldWhole(m) <=> Waiting(m) \/ BeingSent(m) \/ SentAgain(m) \/ Underway(m)
<1>0. /\ hand \in [Channels -> ChannelMsgs \cup {NONE}] /\ from_channel \in Seq(ChannelMsgs)
      /\ priority \in [Channels -> Seq(Items)] /\ common \in [Channels -> Seq(Items)]
  BY DEF TypeOK, ChannelsTyped, QueuesTyped
<1>1. \A msg \in ChannelMsgs \cup {NONE} :
        Travels(msg, m) <=> \E item \in Items : item.m = m /\ msg = OutMsg(item)
  <2> TAKE msg \in ChannelMsgs \cup {NONE}
  <2>1. Travels(msg, m) => msg \in ChannelMsgs /\ msg.type = "Out" /\ msg.item.m = m
    BY DEF Travels
  <2>2. Travels(msg, m) => \E item \in Items : item.m = m /\ msg = OutMsg(item)
    BY <2>1, OutMsgs
  <2>3. ASSUME NEW item \in Items, item.m = m, msg = OutMsg(item) PROVE Travels(msg, m)
    BY <2>3, OutMsgs DEF Travels
  <2> QED BY <2>2, <2>3
<1>2. \A c \in Channels : /\ priority[c] \in Seq(Items) /\ common[c] \in Seq(Items)
                          /\ Range(priority[c]) \subseteq Items /\ Range(common[c]) \subseteq Items
  BY <1>0, SequenceElements
<1>3. \A c \in Channels :
        /\ InQueue(priority[c], m) <=> \E item \in Range(priority[c]) : item.m = m
        /\ InQueue(common[c], m) <=> \E item \in Range(common[c]) : item.m = m
  BY DEF InQueue, Range
<1>4. (\E n \in DOMAIN from_channel : Travels(from_channel[n], m))
      <=> \E item \in Items : item.m = m /\ Queued(item)
  <2>1. \A n \in DOMAIN from_channel : from_channel[n] \in ChannelMsgs
    BY <1>0
  <2> QED BY <1>1, <2>1 DEF Queued, Range
<1>5. (\E c \in Channels : InQueue(priority[c], m) \/ InQueue(common[c], m) \/ Travels(hand[c], m))
      <=> \E item \in Items : item.m = m /\ InChannels(item)
  <2>1. ASSUME NEW c \in Channels
        PROVE  (InQueue(priority[c], m) \/ InQueue(common[c], m) \/ Travels(hand[c], m))
               <=> \E item \in Items :
                      item.m = m /\ (item \in Range(priority[c]) \cup Range(common[c])
                                     \/ hand[c] = OutMsg(item))
    <3>1. hand[c] \in ChannelMsgs \cup {NONE}
      BY <1>0
    <3> QED BY <1>1, <1>2, <1>3, <3>1
  <2> QED BY <2>1 DEF InChannels
<1> QED BY <1>4, <1>5 DEF HeldWhole, Waiting, BeingSent, SentAgain, Underway, Moving

LEMMA WaitingKept ==
    ASSUME TypeOK, EntityStep, pc' \notin {"closing", "stopped"}, NEW m \in Outs, Waiting(m)
    PROVE  Waiting(m)' \/ BeingSent(m)'
<1>1. CASE UNCHANGED from_manager
  BY <1>1 DEF Waiting
<1>2. ASSUME NEW type, TakeFromManager(type)
      PROVE  \/ Waiting(m)'
             \/ Head(from_manager).type = type /\ type = "send" /\ Head(from_manager).m = m
  <2>1. PICK n \in DOMAIN from_manager : from_manager[n].type = "send" /\ from_manager[n].m = m
    BY DEF Waiting
  <2>2. from_manager \in Seq(ManagerMsgs) /\ from_manager # <<>> /\ from_manager' = Tail(from_manager)
        /\ Head(from_manager).type = type
    BY <1>2 DEF TypeOK, QueuesTyped, TakeFromManager
  <2>3. CASE n = 1
    BY <2>1, <2>2, <2>3
  <2>4. CASE n # 1
    <3>1. n - 1 \in DOMAIN from_manager' /\ from_manager'[n - 1] = from_manager[n]
      BY <2>1, <2>2, <2>4
    <3> QED BY <2>1, <3>1 DEF Waiting
  <2> QED BY <2>3, <2>4
<1>3. CASE SendMessage
  <2>1. TakeFromManager("send") /\ pc' = "send" /\ sending'.m = Head(from_manager).m
    BY <1>3 DEF SendMessage, StartSend, NewItem
  <2> QED BY <1>2, <2>1 DEF BeingSent
<1>4. CASE RequestState
  <2>1. TakeFromManager("passage.request.state")
    BY <1>4 DEF RequestState
  <2>2. "passage.request.state" # "send"
    OBVIOUS
  <2> QED BY <1>2, <2>1, <2>2
<1>5. UNCHANGED from_manager \/ SendMessage \/ RequestState
  BY DEF EntityStep, TryChannel, NoChannelTook, ReSend, PopResend, ClearSendSmsCache, AnswerLimited,
         AnswerMatched, AnswerUnmatched, CacheSent, PushBack, PublishInbound, IgnoreOther,
         ChannelTerminated, TakeConnect, ChannelConnected, Close, Stop, baseVars
<1> QED BY <1>1, <1>3, <1>4, <1>5

LEMMA SendingKept ==
    ASSUME TypeOK, LoopBound, EntityStep, NEW m \in Outs, BeingSent(m)
    PROVE  BeingSent(m)' \/ m \in failed' \/ Underway(m)'
<1>1. TryChannel \/ NoChannelTook
  BY DEF EntityStep, BeingSent, ReSend, PopResend, ClearSendSmsCache, AnswerLimited, AnswerMatched,
         AnswerUnmatched, CacheSent, PushBack, PublishInbound, IgnoreOther, ChannelTerminated,
         TakeConnect, ChannelConnected, SendMessage, RequestState, Close, Stop, TakeFromChannel,
         TakeFromManager
<1>2. CASE NoChannelTook
  BY <1>2 DEF NoChannelTook, BeingSent
<1>3. CASE TryChannel /\ ~SendToOpen
  BY <1>3 DEF TryChannel, SkipReadOnly, SendToClosed, BeingSent
<1>4. CASE TryChannel /\ SendToOpen
  <2>1. PICK c \in Channels : sending \in Range(priority'[c]) \cup Range(common'[c])
    BY <1>4, SentItemsGo
  <2>2. PICK item \in Items : item.m = m /\ item = sending
    BY <1>4, SentItemsGo DEF BeingSent
  <2>3. Moving(item)'
    BY <2>1, <2>2 DEF Moving, InChannels
  <2> QED BY <2>2, <2>3 DEF Underway
<1> QED BY <1>1, <1>2, <1>3, <1>4

LEMMA ResendKept ==
    ASSUME TypeOK, ResendsDone, EntityStep, pc' \notin {"closing", "stopped"},
           NEW m \in Outs, SentAgain(m)
    PROVE  SentAgain(m)' \/ BeingSent(m)'
<1>1. pc \notin {"select", "connect"}
  BY DEF ResendsDone, SentAgain
<1>2. TryChannel \/ NoChannelTook \/ PopResend
  BY <1>1 DEF EntityStep, ReSend, ClearSendSmsCache, AnswerLimited, AnswerMatched,
         AnswerUnmatched, CacheSent, PushBack, PublishInbound, IgnoreOther, ChannelTerminated,
         TakeConnect, ChannelConnected, SendMessage, RequestState, Close, Stop, TakeFromChannel,
         TakeFromManager
<1>3. CASE PopResend
  BY <1>3 DEF PopResend, StartSend, SentAgain, BeingSent
<1>4. CASE TryChannel \/ NoChannelTook
  BY <1>4 DEF TryChannel, NoChannelTook, SentAgain
<1> QED BY <1>2, <1>3, <1>4
(* A key names the message and the part.                                   *)
LEMMA KeyIs ==
    ASSUME TypeOK, ItemsEncoded, EntriesKeyed, NEW k \in DOMAIN wait_receipt_map
    PROVE  /\ wait_receipt_map[k].item \in Items /\ wait_receipt_map[k].item.wait
           /\ wait_receipt_map[k].item.m \in Outs
           /\ wait_receipt_map[k].part \in 1..Frames[wait_receipt_map[k].item.m]
           /\ \E t \in 1..tries[wait_receipt_map[k].item.m] :
                 /\ wait_receipt_map[k].item.seqs =
                       [i \in 1..Frames[wait_receipt_map[k].item.m] |-> <<wait_receipt_map[k].item.m, t, i>>]
                 /\ k = <<wait_receipt_map[k].item.m, t, wait_receipt_map[k].part>>
<1> DEFINE e == wait_receipt_map[k]
<1>1. e.item \in Items /\ e.item.wait /\ e.item.m \in Outs
  BY EntryItems DEF TypeOK, EntityTyped, MapTyped, SentItems
<1>2. Exists(e.item)
  BY DEF Exists, Cached
<1>3. PICK t \in 1..tries[e.item.m] : e.item.seqs = [i \in 1..Frames[e.item.m] |-> <<e.item.m, t, i>>]
  BY <1>1, <1>2 DEF ItemsEncoded, Encoded
<1>4. e.part \in 1..Frames[e.item.m] /\ k = e.item.seqs[e.part]
  BY DEF EntriesKeyed
<1> HIDE DEF e
<1>5. k = <<e.item.m, t, e.part>>
  BY <1>3, <1>4
<1> QED BY <1>1, <1>3, <1>4, <1>5 DEF e

KeysNamed ==
    \A k \in DOMAIN wait_receipt_map :
        k[1] = wait_receipt_map[k].item.m /\ k[3] = wait_receipt_map[k].part

LEMMA KeysAreNamed == TypeOK /\ ItemsEncoded /\ EntriesKeyed => KeysNamed
<1> SUFFICES ASSUME TypeOK, ItemsEncoded, EntriesKeyed, NEW k \in DOMAIN wait_receipt_map
             PROVE  k[1] = wait_receipt_map[k].item.m /\ k[3] = wait_receipt_map[k].part
  BY DEF KeysNamed
<1>1. PICK t : k = <<wait_receipt_map[k].item.m, t, wait_receipt_map[k].part>>
  BY KeyIs
<1> QED BY <1>1

LEMMA PartKept ==
    ASSUME TypeOK, KeysNamed, KeysNamed', NoneOld, "days" \notin Timers, EntityStep,
           pc' \notin {"closing", "stopped"}, NEW m \in Outs, NEW i \in Nat, PartWaits(m, i)
    PROVE  PartWaits(m, i)' \/ <<m, i>> \in answered' \/ SentAgain(m)' \/ BeingSent(m)'
<1>1. PICK k \in DOMAIN wait_receipt_map :
        wait_receipt_map[k].item.m = m /\ wait_receipt_map[k].part = i
  BY DEF PartWaits
<1>2. CASE k \in DOMAIN wait_receipt_map' /\ wait_receipt_map'[k] = wait_receipt_map[k]
  BY <1>1, <1>2 DEF PartWaits
<1>3. CASE ReSend
  <2>1. k \in Overdue => wait_receipt_map[k].item \in to_resend'
    BY <1>3 DEF ReSend
  <2>2. k \notin Overdue => k \in DOMAIN wait_receipt_map' /\ wait_receipt_map'[k] = wait_receipt_map[k]
    BY <1>3 DEF ReSend, Restrict
  <2> QED BY <1>1, <1>2, <2>1, <2>2 DEF SentAgain
<1>4. CASE ClearSendSmsCache
  BY <1>2, <1>4 DEF ClearSendSmsCache, NoneOld, Restrict
<1>5. CASE AnswerLimited
  <2>1. k # Head(from_channel).seq => k \in DOMAIN wait_receipt_map' /\ wait_receipt_map'[k] = wait_receipt_map[k]
    BY <1>5 DEF AnswerLimited, Forget, Restrict
  <2>2. k = Head(from_channel).seq => BeingSent(m)'
    BY <1>1, <1>5 DEF AnswerLimited, StartSend, BeingSent
  <2> QED BY <1>2, <2>1, <2>2
<1>6. CASE AnswerMatched
  <2>1. k # Head(from_channel).seq => k \in DOMAIN wait_receipt_map' /\ wait_receipt_map'[k] = wait_receipt_map[k]
    BY <1>6 DEF AnswerMatched, Forget, Restrict
  <2>2. k = Head(from_channel).seq => <<m, i>> \in answered'
    BY <1>1, <1>6 DEF AnswerMatched
  <2> QED BY <1>2, <2>1, <2>2
<1>7. CASE CacheSent
  <2>1. k \in DOMAIN wait_receipt_map'
    BY <1>7 DEF CacheSent, Insert
  <2>2. k[1] = m /\ k[3] = i
    BY <1>1 DEF KeysNamed
  <2>3. k[1] = wait_receipt_map'[k].item.m /\ k[3] = wait_receipt_map'[k].part
    BY <2>1 DEF KeysNamed
  <2> QED BY <2>1, <2>2, <2>3 DEF PartWaits
<1>8. \/ UNCHANGED wait_receipt_map
      \/ CacheSent \/ ReSend \/ ClearSendSmsCache \/ AnswerLimited \/ AnswerMatched
  BY DEF EntityStep, TryChannel, NoChannelTook, PopResend, AnswerUnmatched, PushBack,
         PublishInbound, IgnoreOther, ChannelTerminated, TakeConnect, ChannelConnected,
         SendMessage, RequestState, Close, Stop, entityVars
<1> QED BY <1>2, <1>3, <1>4, <1>5, <1>6, <1>7, <1>8

(* The echo of a message makes an entry for each of its parts.             *)
LEMMA EchoCached ==
    ASSUME TypeOK, Lossless, CacheSent, NEW item \in Items, Encoded(item),
           Head(from_channel) = OutMsg(item), NEW i \in 1..Frames[item.m]
    PROVE  PartWaits(item.m, i)'
<1>1. item.wait /\ Insert(item) /\ item.m \in Outs
  BY OutMsgs DEF CacheSent, Items
<1>2. PICK t : item.seqs = [j \in 1..Frames[item.m] |-> <<item.m, t, j>>]
  BY <1>1 DEF Encoded
<1> DEFINE count == IF MsgType[item.m] # "Submit" THEN 1
                    ELSE IF Len(item.seqs) <= MsgIds[item.m] THEN Len(item.seqs)
                    ELSE MsgIds[item.m]
           part(k) == CHOOSE j \in 1..count : item.seqs[j] = k
           key == item.seqs[i]
<1>3. count = Frames[item.m]
  <2>1. Frames[item.m] \in Nat \ {0} /\ MsgIds[item.m] \in Nat
    BY <1>1, OutsAssumption
  <2>2. Len(item.seqs) = Frames[item.m]
    BY <1>2, <2>1
  <2>3. Frames[item.m] <= (IF MsgType[item.m] = "Submit" THEN MsgIds[item.m] ELSE 1)
    BY <1>1 DEF Lossless
  <2> QED BY <2>1, <2>2, <2>3
<1>4. wait_receipt_map' =
        [k \in DOMAIN wait_receipt_map \cup {item.seqs[j] : j \in 1..count} |->
            IF k \in {item.seqs[j] : j \in 1..count}
            THEN [item |-> item, part |-> part(k), need |-> part(k) = 1, age |-> 0]
            ELSE wait_receipt_map[k]]
  BY <1>1 DEF Insert
<1> HIDE DEF count
<1>5. i \in 1..count /\ key \in {item.seqs[j] : j \in 1..count}
  BY <1>3
<1>6. part(key) = i
  <2>1. part(key) \in 1..count /\ item.seqs[part(key)] = key
    BY <1>5
  <2> HIDE DEF part, key
  <2>2. key = <<item.m, t, i>>
    BY <1>2 DEF key
  <2>3. PICK p \in 1..count : p = part(key) /\ item.seqs[p] = key
    BY <2>1
  <2>4. item.seqs[p] = <<item.m, t, p>>
    BY <1>2, <1>3
  <2>5. p = i
    BY <2>2, <2>3, <2>4
  <2> QED BY <2>3, <2>5
<1> HIDE DEF part, key
<1>7. key \in DOMAIN wait_receipt_map'
      /\ wait_receipt_map'[key] = [item |-> item, part |-> part(key), need |-> part(key) = 1, age |-> 0]
  BY <1>4, <1>5
<1>8. wait_receipt_map'[key].item.m = item.m /\ wait_receipt_map'[key].part = i
  BY <1>6, <1>7
<1> QED BY <1>7, <1>8 DEF PartWaits

LEMMA UnderwayKept ==
    ASSUME TypeOK, LoopBound, ItemsEncoded, Lossless, EntityStep, UNCHANGED hand,
           pc' \notin {"closing", "stopped"}, NEW m \in Outs, NEW i \in 1..Frames[m], Underway(m)
    PROVE  Underway(m)' \/ BeingSent(m)' \/ PartWaits(m, i)'
<1>1. PICK item \in Items : item.m = m /\ Moving(item)
  BY DEF Underway
<1>2. CASE InChannels(item)
  <2>1. \A c \in Channels : /\ Range(priority[c]) \subseteq Range(priority'[c])
                           /\ Range(common[c]) \subseteq Range(common'[c])
    <3>1. CASE TryChannel /\ SendToOpen
      BY <3>1, SentItemsGo
    <3>2. CASE ~(TryChannel /\ SendToOpen)
      <4>1. UNCHANGED <<priority, common>>
        BY <3>2
        DEF EntityStep, TryChannel, SkipReadOnly, SendToClosed, NoChannelTook, ReSend, PopResend,
            ClearSendSmsCache, AnswerLimited, AnswerMatched, AnswerUnmatched, CacheSent, PushBack,
            PublishInbound, IgnoreOther, ChannelTerminated, TakeConnect, ChannelConnected,
            SendMessage, RequestState, Close, Stop, baseVars, channelQueues
      <4> QED BY <4>1
    <3> QED BY <3>1, <3>2
  <2>2. InChannels(item)'
    BY <1>2, <2>1 DEF InChannels, OutMsg
  <2> QED BY <1>1, <2>2 DEF Underway, Moving
<1>3. CASE Queued(item)
  <2>1. CASE Queued(item)'
    BY <1>1, <2>1 DEF Underway, Moving
  <2>2. CASE ~Queued(item)'
    <3>1. ~EntityGone' /\ from_channel' # from_channel
      BY <1>3, <2>2 DEF EntityGone, Queued, OutMsg
    <3>2. ASSUME NEW type, TakeFromChannel(type) PROVE Head(from_channel) = OutMsg(item) /\ type = "Out"
      BY <1>3, <2>2, <3>2, QueueElements, OutMsgs DEF Queued, OutMsg
    <3>3. TakeFromChannel("Out")
      BY <3>1, <3>2, EntityTakes
    <3>4. CacheSent \/ PushBack
      <4>1. /\ ~TakeFromChannel("Resp") /\ ~TakeFromChannel("In") /\ ~TakeFromChannel("Other")
            /\ ~TakeFromChannel("Terminate") /\ ~TakeFromChannel("Connect")
        BY <3>3 DEF TakeFromChannel
      <4> QED BY <3>1, <4>1
          DEF EntityStep, TryChannel, NoChannelTook, ReSend, PopResend, ClearSendSmsCache,
              AnswerLimited, AnswerMatched, AnswerUnmatched, PublishInbound, IgnoreOther,
              ChannelTerminated, TakeConnect, ChannelConnected, SendMessage, RequestState,
              Close, Stop, baseVars, EntityGone
    <3>5. Head(from_channel) = OutMsg(item) /\ OutMsg(item).item = item
      BY <3>2, <3>3, OutMsgs
    <3>6. CASE PushBack
      BY <1>1, <3>5, <3>6 DEF PushBack, StartSend, BeingSent
    <3>7. CASE CacheSent
      <4>1. Encoded(item)
        BY <1>1 DEF ItemsEncoded, Exists
      <4> QED BY <1>1, <3>5, <3>7, <4>1, EchoCached
    <3> QED BY <3>4, <3>6, <3>7
  <2> QED BY <2>1, <2>2
<1> QED BY <1>1, <1>2, <1>3 DEF Moving
---------------------------------------------------------------------------
(* What is published stays published. *)
LEMMA PublishedStays ==
    ASSUME TypeOK, [Next]_vars
    PROVE  failed \subseteq failed' /\ answered \subseteq answered'
<1>1. CASE ManagerStep \/ UNCHANGED vars
  BY <1>1 DEF ManagerStep, Send, AskState, CloseEntity, ToEntity, entityVars, vars, baseVars
<1>2. CASE EntityStep
  BY <1>2
  DEF EntityStep, TryChannel, NoChannelTook, ReSend, PopResend, ClearSendSmsCache, AnswerLimited,
      AnswerMatched, AnswerUnmatched, CacheSent, PushBack, PublishInbound, IgnoreOther,
      ChannelTerminated, TakeConnect, ChannelConnected, SendMessage, RequestState, Close, Stop,
      baseVars, published, entityVars
<1>3. CASE AnswersTimeOut \/ DaysTimeOut
  BY <1>3 DEF AnswersTimeOut, DaysTimeOut, AnswersAge, DaysPass, baseVars, published
<1>4. CASE \E c \in Channels : (Login(c) \/ ChannelStep(c) \/ PeerStep(c)) /\ EntityIdle
  <2>1. PICK c \in Channels : ChannelFlow(c)
    BY <1>4, ChannelFlows
  <2>2. failed \subseteq failed'
    BY <2>1 DEF ChannelFlow, channelFlow, Announces, Takes, Bounce, EncodeFails, WriteFails, Write,
                WriteTerminate, Ends, ClearAndLeave, Pushes, PushFails, HearsAnswer, HearsMessage,
                HearsControl
  <2> QED BY <1>4, <2>2 DEF EntityIdle, entityVars
<1> QED BY <1>1, <1>2, <1>3, <1>4 DEF Next

CustodyInv ==
    ItemsEncoded /\ EntriesKeyed /\ KeysNamed /\ ResendsDone /\ CommonOrdinary /\ NoneOld

LEMMA CustodyInvHolds == Spec => []CustodyInv
<1> DEFINE Inv == ItemsEncoded /\ EntriesKeyed /\ ResendsDone /\ CommonOrdinary /\ NoneOld
<1>1. Init => Inv
  <2> SUFFICES ASSUME Init PROVE Inv
    OBVIOUS
  <2>1. Range(<<>>) = {} /\ DOMAIN wait_receipt_map = {} /\ to_resend = {} /\ sending = Terminate
    BY DEF Range, Init, InitEntity
  <2>2. \A c \in Channels : Range(priority[c]) = {} /\ Range(common[c]) = {} /\ hand[c] = NONE
    BY <2>1 DEF Init, InitChannel
  <2>3. \A item \in Items : ~Moving(item)
    BY <2>1, <2>2, OutMsgs DEF Moving, InChannels, Queued, Init
  <2>4. ItemsEncoded
    BY <2>1, <2>3 DEF ItemsEncoded, Exists, Encoded, Cached, Terminate, NewItem
  <2> QED BY <2>1, <2>2, <2>4 DEF EntriesKeyed, ResendsDone, CommonOrdinary, NoneOld
<1>2. TypeOK /\ LoopBound /\ Inv /\ [Next]_vars => Inv'
  BY EncodedKept, EntriesKept, ResendsKept, CommonKept
<1>3. TypeOK /\ Inv => CustodyInv
  BY KeysAreNamed DEF CustodyInv
<1> QED BY <1>1, <1>2, <1>3, TypeCorrect, LoopIsBounded, PTL DEF Spec

AllKept ==
    ~EntityGone /\ pc # "closing" =>
        \A m \in Outs \ unsent : \A i \in 1..Frames[m] : Kept(m, i)

LEMMA KeptStep ==
    ASSUME Lossless, TypeOK, LoopBound, CustodyInv, KeysNamed', AllKept, [Next]_vars
    PROVE  AllKept'
<1> SUFFICES ASSUME pc' \notin {"closing", "stopped"}, NEW m \in Outs, m \notin unsent',
                    NEW i \in 1..Frames[m]
             PROVE  Kept(m, i)'
  BY DEF AllKept, EntityGone
<1>1. ASSUME pc \notin {"closing", "stopped"}, m \notin unsent
      PROVE  Kept(m, i)
  BY <1>1 DEF AllKept, EntityGone
<1>2. CASE m \in failed \/ <<m, i>> \in answered
  BY <1>2, PublishedStays DEF Kept
<1>3. ASSUME UNCHANGED <<sending, pc, to_resend, priority, common, hand, from_channel>>,
             DOMAIN wait_receipt_map' = DOMAIN wait_receipt_map,
             \A k \in DOMAIN wait_receipt_map :
                /\ wait_receipt_map'[k].item = wait_receipt_map[k].item
                /\ wait_receipt_map'[k].part = wait_receipt_map[k].part
      PROVE  /\ BeingSent(m) \/ SentAgain(m) => BeingSent(m)' \/ SentAgain(m)'
             /\ Underway(m) => Underway(m)'
             /\ PartWaits(m, i) => PartWaits(m, i)'
  BY <1>3 DEF BeingSent, SentAgain, Underway, Moving, InChannels, Queued, PartWaits, OutMsg
<1>4. CASE ManagerStep
  <2>1. PICK msg : ToEntity(msg) /\ (unsent' = unsent \/ \E n \in unsent :
                        unsent' = unsent \ {n} /\ msg = [type |-> "send", m |-> n])
    BY <1>4 DEF ManagerStep, Send, AskState, CloseEntity
  <2>2. UNCHANGED <<pc, sending, to_resend, priority, common, hand, from_channel, wait_receipt_map>>
    BY <2>1 DEF ToEntity, entityVars, channelVars
  <2>3. from_manager \in Seq(ManagerMsgs) /\ from_manager' = Append(from_manager, msg)
    BY <2>1 DEF ToEntity, TypeOK, QueuesTyped
  <2>4. /\ Len(from_manager) + 1 \in DOMAIN from_manager'
        /\ from_manager'[Len(from_manager) + 1] = msg
        /\ \A n \in DOMAIN from_manager : n \in DOMAIN from_manager' /\ from_manager'[n] = from_manager[n]
    BY <2>3
  <2>5. Waiting(m) => Waiting(m)'
    BY <2>4 DEF Waiting
  <2>6. m \in unsent => Waiting(m)'
    BY <2>1, <2>4 DEF Waiting
  <2> QED BY <1>1, <1>2, <1>3, <2>2, <2>5, <2>6 DEF Kept
<1>5. CASE EntityStep /\ UNCHANGED <<channelVars, registered, unsent>>
  <2>1. pc \notin {"closing", "stopped"} /\ m \notin unsent /\ UNCHANGED hand
    <3>1. pc # "closing"
      BY <1>5 DEF EntityStep, TryChannel, NoChannelTook, ReSend, PopResend, ClearSendSmsCache,
                  AnswerLimited, AnswerMatched, AnswerUnmatched, CacheSent, PushBack,
                  PublishInbound, IgnoreOther, ChannelTerminated, TakeConnect, ChannelConnected,
                  SendMessage, RequestState, Close, Stop, TakeFromChannel, TakeFromManager
    <3> QED BY <1>5, <3>1, EntityTakes DEF channelVars, EntityGone
  <2>2. CASE Waiting(m)
    BY <1>5, <2>2, WaitingKept DEF Kept
  <2>3. CASE BeingSent(m)
    BY <1>5, <2>3, SendingKept DEF Kept
  <2>4. CASE SentAgain(m)
    BY <1>5, <2>4, ResendKept DEF Kept, CustodyInv
  <2>5. CASE Underway(m)
    BY <1>5, <2>1, <2>5, UnderwayKept DEF Kept, CustodyInv
  <2>6. CASE PartWaits(m, i)
    BY <1>5, <2>6, PartKept DEF Kept, CustodyInv, Lossless
  <2> QED BY <1>1, <1>2, <2>1, <2>2, <2>3, <2>4, <2>5, <2>6 DEF Kept
<1>6. CASE (AnswersTimeOut \/ DaysTimeOut) /\ UNCHANGED <<channelVars, registered, unsent>>
  <2>1. /\ UNCHANGED <<pc, sending, to_resend, priority, common, hand, from_channel, from_manager, unsent>>
        /\ DOMAIN wait_receipt_map' = DOMAIN wait_receipt_map
        /\ \A k \in DOMAIN wait_receipt_map :
              /\ wait_receipt_map'[k].item = wait_receipt_map[k].item
              /\ wait_receipt_map'[k].part = wait_receipt_map[k].part
    BY <1>6 DEF AnswersTimeOut, DaysTimeOut, AnswersAge, DaysPass, baseVars, channelVars, TypeOK,
                EntityTyped, Entries
  <2> QED BY <1>1, <1>2, <1>3, <2>1 DEF Kept, Waiting
<1>7. CASE \E c \in Channels : (Login(c) \/ ChannelStep(c) \/ PeerStep(c)) /\ EntityIdle
  <2>1. PICK c \in Channels : ChannelFlow(c) /\ pc' = pc /\ from_manager' = from_manager
    BY <1>7, ChannelFlows
  <2>2. UNCHANGED <<sending, to_resend, wait_receipt_map, unsent>>
    BY <1>7 DEF EntityIdle, entityVars
  <2>3. CASE Waiting(m) \/ BeingSent(m) \/ SentAgain(m) \/ PartWaits(m, i)
    BY <2>1, <2>2, <2>3 DEF Kept, Waiting, BeingSent, SentAgain, PartWaits
  <2>4. CASE Underway(m)
    BY <2>1, <2>4, ChannelKeepsItems DEF Kept, CustodyInv, EntityGone
  <2> QED BY <1>1, <1>2, <2>1, <2>2, <2>3, <2>4 DEF Kept
<1>8. CASE UNCHANGED vars
  <2>1. UNCHANGED <<pc, sending, to_resend, priority, common, hand, from_channel, from_manager, unsent,
                    wait_receipt_map>>
    BY <1>8 DEF vars, baseVars, entityVars, channelVars
  <2> QED BY <1>1, <1>2, <1>3, <2>1 DEF Kept, Waiting
<1> QED BY <1>4, <1>5, <1>6, <1>7, <1>8 DEF Next

(* Unless a message meets one of the losses that Lossless names, every one *)
(* of its parts is answered, reported as failed or still held, whatever is *)
(* bounced, refused for speed, timed out or sent again, and however the    *)
(* channels come and go: no handover between entity_running.rs and         *)
(* channel.rs drops one.                                                   *)
THEOREM PartsSafe ==
    ASSUME Lossless
    PROVE  Spec => []PartCustody
<1> DEFINE Base == TypeOK /\ LoopBound /\ CustodyInv
<1>1. Init => AllKept
  BY DEF Init, AllKept
<1>2. Base /\ Base' /\ AllKept /\ [Next]_vars => AllKept'
  BY KeptStep DEF CustodyInv
<1>3. Base /\ AllKept => PartCustody
  <2> SUFFICES ASSUME TypeOK, AllKept PROVE PartCustody
    OBVIOUS
  <2>1. ~EntityGone /\ pc # "closing" =>
          \A m \in Outs \ unsent : \A i \in 1..Frames[m] :
              \/ m \in failed \/ <<m, i>> \in answered
              \/ HeldWhole(m)
              \/ PartWaits(m, i)
    <3> SUFFICES ASSUME ~EntityGone, pc # "closing", NEW m \in Outs \ unsent, NEW i \in 1..Frames[m]
                 PROVE  m \in failed \/ <<m, i>> \in answered \/ HeldWhole(m) \/ PartWaits(m, i)
      OBVIOUS
    <3>1. Kept(m, i)
      BY DEF AllKept
    <3>2. HeldWhole(m) <=> Waiting(m) \/ BeingSent(m) \/ SentAgain(m) \/ Underway(m)
      BY HeldWholeIs
    <3>3. CASE Waiting(m) \/ BeingSent(m) \/ SentAgain(m) \/ Underway(m)
      BY <3>2, <3>3
    <3>4. CASE ~(Waiting(m) \/ BeingSent(m) \/ SentAgain(m) \/ Underway(m))
      BY <3>1, <3>4 DEF Kept
    <3> QED BY <3>3, <3>4
  <2> QED BY <2>1 DEF PartCustody, PartWaits
<1>4. Spec => []Base
  BY TypeCorrect, LoopIsBounded, CustodyInvHolds, PTL
<1> HIDE DEF Base
<1> QED BY <1>1, <1>2, <1>3, <1>4, PTL DEF Spec
=============================================================================
