---------------------------- MODULE HandleProofs ----------------------------
(***************************************************************************)
(* The life of a send handle: parked by the login, announced by a Connect, *)
(* attached by the entity, forgotten with the Terminate of the channel.    *)
(*                                                                         *)
(* That a dead channel's Terminate is still to come when its handle is     *)
(* attached rests on the order of the queue: it was queued behind the      *)
(* channel's own Connect (TerminateBehind in HInv).                        *)
(***************************************************************************)
EXTENDS GatewayProofs, FiniteSetTheorems

NoDuplicates(s) == \A i, j \in DOMAIN s : s[i] = s[j] => i = j

TerminateBehind(c, n) ==
    \E j \in DOMAIN from_channel : j > n /\ from_channel[j] = TerminateMsg(c)

HandlesDisjoint ==
    /\ NoDuplicates(send_channels)
    /\ \A c \in Channels :
        /\ c \in parked => c \notin Attached
        /\ phase[c] \in {"off", "checked"} => c \notin parked /\ c \notin Attached

ParkedAnnounced(c) ==
    c \in parked =>
        \/ phase[c] = "login"
        \/ \E i \in DOMAIN from_channel : from_channel[i] = ConnectMsg(c)
        \/ pc = "connect" /\ connecting = c

DeadAnnounced(c) ==
    phase[c] = "dead" =>
        /\ c \in Attached \/ (pc = "connect" /\ connecting = c) => TerminateBehind(c, 0)
        /\ \A i \in DOMAIN from_channel : from_channel[i] = ConnectMsg(c) => TerminateBehind(c, i)

HandsOff == \A c \in Channels : hand[c] # NONE => hand[c].type # "Connect"

HInv ==
    /\ HandlesDisjoint
    /\ HandsOff
    /\ ~EntityGone => \A c \in Channels : ParkedAnnounced(c) /\ DeadAnnounced(c)

handleVars == <<from_channel, parked, send_channels, phase, hand>>
---------------------------------------------------------------------------
LEMMA WithoutElements ==
    ASSUME NEW S, NEW s \in Seq(S), NEW c, NoDuplicates(s)
    PROVE  /\ NoDuplicates(Without(s, c))
           /\ Range(Without(s, c)) = Range(s) \ {c}
<1>1. CASE ~\E i \in DOMAIN s : s[i] = c
  BY <1>1 DEF Without, Range
<1>2. CASE \E i \in DOMAIN s : s[i] = c
  <2> DEFINE p == CHOOSE i \in DOMAIN s : s[i] = c
             t == [j \in 1..(Len(s) - 1) |-> IF j < p THEN s[j] ELSE s[j + 1]]
  <2>1. p \in 1..Len(s) /\ Len(s) \in Nat \ {0} /\ s[p] = c /\ DOMAIN s = 1..Len(s)
    BY <1>2, LenProperties
  <2>2. Without(s, c) = t
    BY <1>2 DEF Without
  <2> HIDE DEF p
  <2>3. NoDuplicates(t)
    BY <2>1 DEF NoDuplicates
  <2>4. ASSUME NEW j \in DOMAIN t PROVE t[j] \in {s[i] : i \in DOMAIN s} \ {c}
    BY <2>1, <2>4 DEF NoDuplicates
  <2>5. ASSUME NEW i \in DOMAIN s, s[i] # c PROVE \E j \in DOMAIN t : t[j] = s[i]
    <3>1. CASE i < p
      <4>1. i \in DOMAIN t /\ t[i] = s[i]
        BY <2>1, <3>1
      <4> QED BY <4>1
    <3>2. CASE i > p
      <4>1. i - 1 \in DOMAIN t /\ t[i - 1] = s[i]
        BY <2>1, <3>2
      <4> QED BY <4>1
    <3> QED BY <2>1, <2>5, <3>1, <3>2
  <2>6. {t[j] : j \in DOMAIN t} = {s[i] : i \in DOMAIN s} \ {c}
    BY <2>4, <2>5
  <2> HIDE DEF t
  <2> QED BY <2>2, <2>3, <2>6 DEF Range
<1> QED BY <1>1, <1>2

LEMMA DetachForgets ==
    ASSUME TypeOK, HandlesDisjoint, NEW c, Detach(c)
    PROVE  NoDuplicates(send_channels') /\ Attached' = Attached \ {c}
<1>1. send_channels \in Seq(Channels) /\ NoDuplicates(send_channels)
      /\ send_channels' = Without(send_channels, c)
  BY DEF TypeOK, QueuesTyped, HandlesDisjoint, Detach
<1>2. /\ NoDuplicates(Without(send_channels, c))
      /\ Range(Without(send_channels, c)) = Range(send_channels) \ {c}
  BY <1>1, WithoutElements
<1>3. Attached = Range(send_channels) /\ Attached' = Range(send_channels')
  BY DEF Attached, Range
<1> QED BY <1>1, <1>2, <1>3

(* A message goes: the others move up by one.                              *)
LEMMA TailKeeps ==
    ASSUME TypeOK, NEW type, TakeFromChannel(type), NEW c \in Channels
    PROVE  /\ \A n \in Nat : TerminateBehind(c, n + 1) => TerminateBehind(c, n)'
           /\ Head(from_channel) # TerminateMsg(c) /\ TerminateBehind(c, 0) => TerminateBehind(c, 0)'
           /\ \A i \in DOMAIN from_channel' :
                 i + 1 \in DOMAIN from_channel /\ from_channel'[i] = from_channel[i + 1]
           /\ \A i \in DOMAIN from_channel : i # 1 =>
                 i - 1 \in DOMAIN from_channel' /\ from_channel'[i - 1] = from_channel[i]
<1>1. /\ from_channel \in Seq(ChannelMsgs) /\ from_channel # <<>>
      /\ from_channel' = Tail(from_channel)
  BY DEF TypeOK, QueuesTyped, TakeFromChannel
<1>2. /\ DOMAIN from_channel = 1..Len(from_channel) /\ Len(from_channel) \in Nat \ {0}
      /\ DOMAIN from_channel' = 1..(Len(from_channel) - 1)
      /\ \A i \in DOMAIN from_channel' : from_channel'[i] = from_channel[i + 1]
      /\ Head(from_channel) = from_channel[1]
  BY <1>1
<1>3. \A i \in DOMAIN from_channel : i # 1 =>
          i - 1 \in DOMAIN from_channel' /\ from_channel'[i - 1] = from_channel[i]
  BY <1>2
<1>4. \A n \in Nat : TerminateBehind(c, n + 1) => TerminateBehind(c, n)'
  <2> SUFFICES ASSUME NEW n \in Nat, NEW j \in DOMAIN from_channel, j > n + 1,
                      from_channel[j] = TerminateMsg(c)
               PROVE  \E k \in DOMAIN from_channel' : k > n /\ from_channel'[k] = TerminateMsg(c)
    BY DEF TerminateBehind
  <2>1. j - 1 \in DOMAIN from_channel' /\ from_channel'[j - 1] = TerminateMsg(c) /\ j - 1 > n
    BY <1>2, <1>3
  <2> QED BY <2>1
<1>5. Head(from_channel) # TerminateMsg(c) /\ TerminateBehind(c, 0) => TerminateBehind(c, 0)'
  <2> SUFFICES ASSUME NEW j \in DOMAIN from_channel, from_channel[j] = TerminateMsg(c), j # 1
               PROVE  \E k \in DOMAIN from_channel' : k > 0 /\ from_channel'[k] = TerminateMsg(c)
    BY <1>2 DEF TerminateBehind
  <2>1. j - 1 \in DOMAIN from_channel' /\ from_channel'[j - 1] = TerminateMsg(c) /\ j - 1 > 0
    BY <1>2, <1>3
  <2> QED BY <2>1
<1> QED BY <1>2, <1>3, <1>4, <1>5

(* A message comes: nothing moves.                                         *)
LEMMA AppendKeeps ==
    ASSUME TypeOK, NEW msg \in ChannelMsgs, QueueForEntity(msg), NEW c \in Channels
    PROVE  /\ \A n \in Nat : TerminateBehind(c, n) => TerminateBehind(c, n)'
           /\ msg = TerminateMsg(c) => \A i \in DOMAIN from_channel : TerminateBehind(c, i)'
           /\ msg = TerminateMsg(c) => TerminateBehind(c, 0)'
           /\ \A i \in DOMAIN from_channel :
                 i \in DOMAIN from_channel' /\ from_channel'[i] = from_channel[i]
           /\ \A i \in DOMAIN from_channel' :
                 i \in DOMAIN from_channel \/ from_channel'[i] = msg
           /\ \E i \in DOMAIN from_channel' : from_channel'[i] = msg
<1>1. from_channel \in Seq(ChannelMsgs) /\ from_channel' = Append(from_channel, msg)
  BY DEF TypeOK, QueuesTyped, QueueForEntity
<1>2. /\ DOMAIN from_channel = 1..Len(from_channel) /\ Len(from_channel) \in Nat
      /\ DOMAIN from_channel' = 1..(Len(from_channel) + 1)
      /\ \A i \in DOMAIN from_channel : from_channel'[i] = from_channel[i]
      /\ from_channel'[Len(from_channel) + 1] = msg
  BY <1>1
<1>3. \A n \in Nat : TerminateBehind(c, n) => TerminateBehind(c, n)'
  BY <1>2 DEF TerminateBehind
<1>4. msg = TerminateMsg(c) => \A i \in DOMAIN from_channel : TerminateBehind(c, i)'
  BY <1>2 DEF TerminateBehind
<1>5. msg = TerminateMsg(c) => TerminateBehind(c, 0)'
  BY <1>2 DEF TerminateBehind
<1> QED BY <1>2, <1>3, <1>4, <1>5
---------------------------------------------------------------------------
(* Steps that keep queue, handles and phases.                              *)
LEMMA QuietKeeps ==
    ASSUME HInv, UNCHANGED handleVars,
           \/ UNCHANGED <<pc, connecting>>
           \/ pc \notin {"connect", "stopped"} /\ pc' \notin {"connect", "stopped"}
    PROVE  HInv'
BY DEF HInv, HandlesDisjoint, HandsOff, EntityGone, ParkedAnnounced, DeadAnnounced, TerminateBehind,
       Attached, NoDuplicates, handleVars

(* The entity takes a message that is neither a Connect nor a Terminate.   *)
LEMMA TakeKeeps ==
    ASSUME TypeOK, HInv, NEW type, TakeFromChannel(type), type \notin {"Connect", "Terminate"},
           UNCHANGED <<parked, send_channels, phase, hand>>,
           pc' \notin {"connect", "stopped"}
    PROVE  HInv'
<1>1. pc = "select" /\ ~EntityGone /\ from_channel # <<>> /\ Head(from_channel) = from_channel[1]
      /\ 1 \in DOMAIN from_channel /\ Head(from_channel).type = type
      /\ \A i \in DOMAIN from_channel : i \in Nat
  BY DEF TakeFromChannel, EntityGone, TypeOK, QueuesTyped
<1>2. HandlesDisjoint' /\ HandsOff'
  BY DEF HInv, HandlesDisjoint, HandsOff, Attached, NoDuplicates
<1>3. ASSUME NEW c \in Channels PROVE ParkedAnnounced(c)' /\ DeadAnnounced(c)'
  <2>1. Head(from_channel) # ConnectMsg(c) /\ Head(from_channel) # TerminateMsg(c)
    BY <1>1 DEF ConnectMsg, TerminateMsg
  <2>2. ParkedAnnounced(c) /\ DeadAnnounced(c)
    BY <1>1, <1>3 DEF HInv
  <2>3. ParkedAnnounced(c)'
    BY <1>1, <2>1, <2>2, TailKeeps DEF ParkedAnnounced
  <2>4. DeadAnnounced(c)'
    <3>1. SUFFICES ASSUME phase[c] = "dead"
                   PROVE  /\ c \in Attached => TerminateBehind(c, 0)'
                          /\ \A i \in DOMAIN from_channel' :
                                from_channel'[i] = ConnectMsg(c) => TerminateBehind(c, i)'
      BY DEF DeadAnnounced, Attached
    <3>2. c \in Attached => TerminateBehind(c, 0)'
      BY <2>1, <2>2, <3>1, TailKeeps DEF DeadAnnounced
    <3>3. ASSUME NEW i \in DOMAIN from_channel', from_channel'[i] = ConnectMsg(c)
          PROVE  TerminateBehind(c, i)'
      <4>1. i + 1 \in DOMAIN from_channel /\ from_channel[i + 1] = ConnectMsg(c)
        BY <3>3, TailKeeps
      <4>2. i \in Nat
        BY <3>3 DEF TypeOK, QueuesTyped, TakeFromChannel
      <4> QED BY <2>2, <3>1, <4>1, <4>2, TailKeeps DEF DeadAnnounced
    <3> QED BY <3>2, <3>3
  <2> QED BY <2>3, <2>4
<1> QED BY <1>2, <1>3 DEF HInv

(* A Terminate is taken: its channel's handle is forgotten, and its own    *)
(* Connect cannot be behind it.                                            *)
LEMMA TerminatedKeeps ==
    ASSUME TypeOK, HInv, ChannelTerminated, UNCHANGED hand
    PROVE  HInv'
<1> DEFINE d == Head(from_channel).c
<1>1. /\ pc = "select" /\ pc' = pc /\ ~EntityGone /\ TakeFromChannel("Terminate")
      /\ Head(from_channel) = from_channel[1] /\ 1 \in DOMAIN from_channel
      /\ Head(from_channel).type = "Terminate"
      /\ \A i \in DOMAIN from_channel : i \in Nat
      /\ \A i \in DOMAIN from_channel' : i \in Nat
  BY DEF ChannelTerminated, TakeFromChannel, EntityGone, TypeOK, QueuesTyped
<1>2. NoDuplicates(send_channels') /\ Attached' = Attached \ {d}
  BY DetachForgets DEF ChannelTerminated, HInv
<1>3. UNCHANGED <<parked, phase, connecting>>
  BY DEF ChannelTerminated, channelQueues
<1>4. HandlesDisjoint' /\ HandsOff'
  BY <1>2, <1>3 DEF HInv, HandlesDisjoint, HandsOff
<1>5. ASSUME NEW c \in Channels PROVE ParkedAnnounced(c)' /\ DeadAnnounced(c)'
  <2>1. Head(from_channel) # ConnectMsg(c)
    BY <1>1 DEF ConnectMsg
  <2>2. ParkedAnnounced(c) /\ DeadAnnounced(c)
    BY <1>1, <1>5 DEF HInv
  <2>3. ParkedAnnounced(c)'
    BY <1>1, <1>3, <2>1, <2>2, TailKeeps DEF ParkedAnnounced
  <2>4. ASSUME phase[c] = "dead", c \in Attached'
        PROVE  TerminateBehind(c, 0)'
    <3>1. c \in Attached /\ Head(from_channel) # TerminateMsg(c)
      BY <1>2, <2>4 DEF TerminateMsg
    <3> QED BY <1>1, <2>2, <2>4, <3>1, TailKeeps DEF DeadAnnounced
  <2>5. ASSUME phase[c] = "dead",
               NEW i \in DOMAIN from_channel', from_channel'[i] = ConnectMsg(c)
        PROVE  TerminateBehind(c, i)'
    <3>1. i + 1 \in DOMAIN from_channel /\ from_channel[i + 1] = ConnectMsg(c)
      BY <1>1, <2>5, TailKeeps
    <3> QED BY <1>1, <2>2, <2>5, <3>1, TailKeeps DEF DeadAnnounced
  <2>6. DeadAnnounced(c)'
    BY <1>1, <1>3, <2>4, <2>5 DEF DeadAnnounced
  <2> QED BY <2>3, <2>6
<1> QED BY <1>4, <1>5 DEF HInv

(* A Connect is taken: what is queued behind it is all that is queued.     *)
LEMMA TakeConnectKeeps ==
    ASSUME TypeOK, HInv, TakeConnect, UNCHANGED hand
    PROVE  HInv'
<1> DEFINE d == Head(from_channel).c
<1>1. /\ pc = "select" /\ pc' = "connect" /\ connecting' = d
      /\ ~EntityGone /\ TakeFromChannel("Connect")
      /\ Head(from_channel) = from_channel[1] /\ 1 \in DOMAIN from_channel
      /\ Head(from_channel).type = "Connect" /\ Head(from_channel) \in ChannelMsgs
      /\ \A i \in DOMAIN from_channel : i \in Nat
      /\ \A i \in DOMAIN from_channel' : i \in Nat
  BY DEF TakeConnect, TakeFromChannel, EntityGone, TypeOK, QueuesTyped
<1>2. UNCHANGED <<parked, send_channels, phase>>
  BY DEF TakeConnect, channelQueues
<1>3. HandlesDisjoint' /\ HandsOff'
  BY <1>2 DEF HInv, HandlesDisjoint, HandsOff, Attached
<1>4. Head(from_channel) = ConnectMsg(d)
  BY <1>1 DEF ChannelMsgs, ConnectMsg, OtherMsg
<1>5. ASSUME NEW c \in Channels PROVE ParkedAnnounced(c)' /\ DeadAnnounced(c)'
  <2>1. Head(from_channel) # TerminateMsg(c) /\ (Head(from_channel) = ConnectMsg(c) => c = d)
    BY <1>1 DEF ConnectMsg, TerminateMsg
  <2>2. ParkedAnnounced(c) /\ DeadAnnounced(c)
    BY <1>1, <1>5 DEF HInv
  <2>3. ParkedAnnounced(c)'
    BY <1>1, <1>2, <2>1, <2>2, TailKeeps DEF ParkedAnnounced
  <2>4. ASSUME phase[c] = "dead", c \in Attached' \/ c = d
        PROVE  TerminateBehind(c, 0)'
    <3>1. CASE c = d
      <4>1. TerminateBehind(c, 1)
        BY <1>1, <1>4, <2>2, <2>4, <3>1 DEF DeadAnnounced
      <4> QED BY <1>1, <4>1, TailKeeps
    <3>2. CASE c \in Attached'
      <4>1. c \in Attached
        BY <1>2, <3>2 DEF Attached
      <4> QED BY <1>1, <2>1, <2>2, <2>4, <4>1, TailKeeps DEF DeadAnnounced
    <3> QED BY <2>4, <3>1, <3>2
  <2>5. ASSUME phase[c] = "dead",
               NEW i \in DOMAIN from_channel', from_channel'[i] = ConnectMsg(c)
        PROVE  TerminateBehind(c, i)'
    <3>1. i + 1 \in DOMAIN from_channel /\ from_channel[i + 1] = ConnectMsg(c)
      BY <1>1, <2>5, TailKeeps
    <3> QED BY <1>1, <2>2, <2>5, <3>1, TailKeeps DEF DeadAnnounced
  <2>6. DeadAnnounced(c)'
    BY <1>1, <1>2, <2>4, <2>5 DEF DeadAnnounced
  <2> QED BY <2>3, <2>6
<1> QED BY <1>3, <1>5 DEF HInv

(* The parked handles are attached.                                        *)
LEMMA ConnectedKeeps ==
    ASSUME TypeOK, HInv, ChannelConnected, UNCHANGED hand
    PROVE  HInv'
<1>1. /\ pc = "connect" /\ pc' = "select" /\ ~EntityGone
      /\ connecting \in parked /\ connecting \in Channels
      /\ parked' = parked \ {connecting}
      /\ send_channels' = Append(send_channels, connecting)
      /\ UNCHANGED <<from_channel, phase>>
  BY DEF ChannelConnected, EntityGone, TypeOK, QueuesTyped, channelQueues
<1>2. connecting \notin Attached
  BY <1>1 DEF HInv, HandlesDisjoint
<1>3. NoDuplicates(send_channels') /\ Attached' = Attached \cup {connecting}
  <2>1. /\ DOMAIN send_channels = 1..Len(send_channels) /\ Len(send_channels) \in Nat
        /\ DOMAIN send_channels' = 1..(Len(send_channels) + 1)
        /\ \A i \in DOMAIN send_channels : send_channels'[i] = send_channels[i]
        /\ send_channels'[Len(send_channels) + 1] = connecting
    BY <1>1 DEF TypeOK, QueuesTyped
  <2>2. NoDuplicates(send_channels)
    BY DEF HInv, HandlesDisjoint
  <2>3. NoDuplicates(send_channels')
    BY <1>2, <2>1, <2>2 DEF NoDuplicates, Attached
  <2>4. \A x : x \in Attached' <=> x \in Attached \/ x = connecting
    BY <2>1 DEF Attached
  <2> QED BY <2>3, <2>4
<1>4. HandlesDisjoint' /\ HandsOff'
  BY <1>1, <1>3 DEF HInv, HandlesDisjoint, HandsOff
<1>5. ASSUME NEW c \in Channels PROVE ParkedAnnounced(c)' /\ DeadAnnounced(c)'
  <2>1. ParkedAnnounced(c) /\ DeadAnnounced(c)
    BY <1>1, <1>5 DEF HInv
  <2> QED BY <1>1, <1>3, <2>1 DEF ParkedAnnounced, DeadAnnounced, TerminateBehind
<1> QED BY <1>4, <1>5 DEF HInv

(* A handle goes, because its channel took no more messages ... *)
LEMMA ToClosedKeeps ==
    ASSUME TypeOK, HInv, TryChannel, SendToClosed, UNCHANGED hand
    PROVE  HInv'
<1>1. /\ pc = "send" /\ pc' = pc /\ ~EntityGone
      /\ UNCHANGED <<from_channel, phase, parked, connecting>>
  BY DEF TryChannel, SendToClosed, EntityGone
<1>2. NoDuplicates(send_channels') /\ Attached' = Attached \ {Selected}
  BY DetachForgets DEF SendToClosed, HInv
<1>3. HandlesDisjoint' /\ HandsOff'
  BY <1>1, <1>2 DEF HInv, HandlesDisjoint, HandsOff
<1>4. ASSUME NEW c \in Channels PROVE ParkedAnnounced(c)' /\ DeadAnnounced(c)'
  <2>1. ParkedAnnounced(c) /\ DeadAnnounced(c)
    BY <1>1, <1>4 DEF HInv
  <2> QED BY <1>1, <1>2, <2>1 DEF ParkedAnnounced, DeadAnnounced, TerminateBehind
<1> QED BY <1>3, <1>4 DEF HInv

(* ... or all of them, with the entity.                                    *)
LEMMA StopKeeps ==
    ASSUME TypeOK, HInv, Stop, UNCHANGED hand
    PROVE  HInv'
<1>1. EntityGone' /\ send_channels' = <<>> /\ UNCHANGED <<phase, parked>>
  BY DEF Stop, EntityGone, channelQueues
<1>2. Attached' = {} /\ NoDuplicates(send_channels')
  BY <1>1 DEF Attached, NoDuplicates
<1> QED BY <1>1, <1>2 DEF HInv, HandlesDisjoint, HandsOff
---------------------------------------------------------------------------
(* The steps of a channel.  Its phase changes, and its hand.               *)

(* A phase other than "off" and "checked" becomes one that is not "dead".  *)
LEMMA PhaseKeeps ==
    ASSUME TypeOK, HInv, NEW c \in Channels, NEW ph \in Phases \ {"dead", "off"},
           phase' = [phase EXCEPT ![c] = ph],
           ph = "checked" => phase[c] = "off",
           phase[c] # "login",
           HandsOff',
           UNCHANGED <<pc, connecting, from_channel, parked, send_channels>>
    PROVE  HInv'
<1>1. /\ phase \in [Channels -> Phases] /\ phase'[c] = ph
      /\ \A d \in Channels : d # c => phase'[d] = phase[d]
  BY DEF TypeOK, QueuesTyped
<1>2. HandlesDisjoint'
  <2>1. NoDuplicates(send_channels)' /\ Attached' = Attached
    BY DEF HInv, HandlesDisjoint, NoDuplicates, Attached
  <2> QED BY <1>1, <2>1 DEF HInv, HandlesDisjoint
<1>3. ASSUME NEW d \in Channels, ~EntityGone PROVE ParkedAnnounced(d)' /\ DeadAnnounced(d)'
  <2>1. ParkedAnnounced(d) /\ DeadAnnounced(d)
    BY <1>3 DEF HInv
  <2> QED BY <1>1, <2>1 DEF ParkedAnnounced, DeadAnnounced, TerminateBehind, Attached
<1> QED BY <1>2, <1>3 DEF HInv, EntityGone

LEMMA ParkKeeps ==
    ASSUME TypeOK, HInv, NEW c \in Channels, Park(c), UNCHANGED connecting
    PROVE  HInv'
<1>1. /\ phase \in [Channels -> Phases] /\ phase[c] = "checked" /\ phase'[c] = "login"
      /\ \A d \in Channels : d # c => phase'[d] = phase[d]
      /\ parked' = parked \cup {c}
      /\ UNCHANGED <<pc, from_channel, send_channels, hand>>
  BY DEF TypeOK, QueuesTyped, Park, MoveTo, entityShared, channelVars
<1>2. c \notin Attached
  BY <1>1 DEF HInv, HandlesDisjoint
<1>3. HandlesDisjoint' /\ HandsOff'
  <2>1. NoDuplicates(send_channels)' /\ Attached' = Attached
    BY <1>1 DEF HInv, HandlesDisjoint, NoDuplicates, Attached
  <2> QED BY <1>1, <1>2, <2>1 DEF HInv, HandlesDisjoint, HandsOff
<1>4. ASSUME NEW d \in Channels, ~EntityGone PROVE ParkedAnnounced(d)' /\ DeadAnnounced(d)'
  <2>1. ParkedAnnounced(d) /\ DeadAnnounced(d)
    BY <1>4 DEF HInv
  <2> QED BY <1>1, <2>1 DEF ParkedAnnounced, DeadAnnounced, TerminateBehind, Attached
<1> QED BY <1>1, <1>3, <1>4 DEF HInv, EntityGone

(* The channel's message goes into the queue, behind all the others.       *)
LEMMA QueuedKeeps ==
    ASSUME TypeOK, HInv, NEW c \in Channels, NEW msg \in ChannelMsgs,
           QueueForEntity(msg),
           phase' = [phase EXCEPT ![c] = phase'[c]], phase'[c] \in Phases \ {"off", "checked"},
           phase[c] = "login" => msg = ConnectMsg(c),
           phase'[c] = "dead" => msg = TerminateMsg(c),
           msg.type = "Connect" => msg = ConnectMsg(c) /\ phase'[c] # "dead",
           HandsOff',
           UNCHANGED <<pc, connecting, parked, send_channels>>
    PROVE  HInv'
<1>1. /\ phase \in [Channels -> Phases]
      /\ \A d \in Channels : d # c => phase'[d] = phase[d]
      /\ \A i \in DOMAIN from_channel : i \in Nat
      /\ ~EntityGone
  BY DEF TypeOK, QueuesTyped, QueueForEntity
<1>2. HandlesDisjoint'
  <2>1. NoDuplicates(send_channels)' /\ Attached' = Attached
    BY DEF HInv, HandlesDisjoint, NoDuplicates, Attached
  <2> QED BY <1>1, <2>1 DEF HInv, HandlesDisjoint
<1>3. ASSUME NEW d \in Channels PROVE ParkedAnnounced(d)' /\ DeadAnnounced(d)'
  <2>1. ParkedAnnounced(d) /\ DeadAnnounced(d)
    BY <1>1, <1>3 DEF HInv
  <2>2. ParkedAnnounced(d)'
    BY <1>1, <2>1, AppendKeeps DEF ParkedAnnounced
  <2>3. CASE d = c
    <3>1. ASSUME phase'[c] = "dead", NEW i \in DOMAIN from_channel',
                 from_channel'[i] = ConnectMsg(c)
          PROVE  TerminateBehind(c, i)'
      <4>1. i \in DOMAIN from_channel
        BY <3>1, AppendKeeps DEF ConnectMsg, TerminateMsg
      <4> QED BY <3>1, <4>1, AppendKeeps
    <3>2. phase'[c] = "dead" => TerminateBehind(c, 0)'
      BY AppendKeeps
    <3> QED BY <2>2, <2>3, <3>1, <3>2 DEF DeadAnnounced
  <2>4. CASE d # c
    <3>1. ASSUME phase[d] = "dead", NEW i \in DOMAIN from_channel',
                 from_channel'[i] = ConnectMsg(d)
          PROVE  TerminateBehind(d, i)'
      <4>1. i \in DOMAIN from_channel /\ from_channel[i] = ConnectMsg(d)
        BY <2>4, <3>1, AppendKeeps DEF ConnectMsg
      <4> QED BY <1>1, <2>1, <3>1, <4>1, AppendKeeps DEF DeadAnnounced
    <3>2. phase[d] = "dead" /\ (d \in Attached \/ (pc = "connect" /\ connecting = d))
            => TerminateBehind(d, 0)'
      BY <2>1, AppendKeeps DEF DeadAnnounced
    <3> QED BY <1>1, <2>2, <2>4, <3>1, <3>2 DEF DeadAnnounced, Attached
  <2> QED BY <2>2, <2>3, <2>4
<1> QED BY <1>2, <1>3 DEF HInv

(* The Terminate of Drop::drop when nobody is there to take it.            *)
LEMMA GoneKeeps ==
    ASSUME TypeOK, HInv, NEW c \in Channels, EntityGone,
           phase' = [phase EXCEPT ![c] = "dead"],
           UNCHANGED <<pc, connecting, from_channel, parked, send_channels, hand>>
    PROVE  HInv'
<1>1. NoDuplicates(send_channels)' /\ Attached' = Attached
  BY DEF HInv, HandlesDisjoint, NoDuplicates, Attached
<1> QED BY <1>1 DEF HInv, HandlesDisjoint, HandsOff, EntityGone, TypeOK, QueuesTyped

(* Only the hand changes.                                                  *)
LEMMA HandKeeps ==
    ASSUME HInv, HandsOff',
           UNCHANGED <<pc, connecting, from_channel, parked, send_channels, phase>>
    PROVE  HInv'
BY DEF HInv, HandlesDisjoint, EntityGone, ParkedAnnounced, DeadAnnounced, TerminateBehind,
       Attached, NoDuplicates

LEMMA HandSet ==
    ASSUME TypeOK, HandsOff, NEW c \in Channels, NEW msg, hand' = [hand EXCEPT ![c] = msg],
           msg # NONE => msg.type # "Connect"
    PROVE  HandsOff'
BY DEF HandsOff, TypeOK, ChannelsTyped

LEMMA LeaveKeeps ==
    ASSUME TypeOK, HInv, NEW c \in Channels, Leave(c), phase[c] = "work",
           UNCHANGED <<pc, connecting, from_channel, parked, send_channels>>
    PROVE  HInv'
<1>1. phase' = [phase EXCEPT ![c] = "drop"]
  BY DEF Leave, MoveTo
<1>2. hand' = [hand EXCEPT ![c] = NONE]
  BY DEF Leave
<1>3. HandsOff'
  BY <1>2, HandSet DEF HInv
<1> QED BY <1>1, <1>3, PhaseKeeps DEF Phases

LEMMA ReceiveKeeps ==
    ASSUME TypeOK, HInv, NEW c \in Channels, NEW msg, Receive(c, msg), UNCHANGED connecting,
           msg # NONE => msg.type # "Connect"
    PROVE  HInv'
<1>1. HandsOff'
  BY HandSet DEF Receive, HInv
<1> QED BY <1>1, HandKeeps DEF Receive, entityShared

LEMMA LoginKeeps ==
    ASSUME TypeOK, HInv, NEW c \in Channels, UNCHANGED connecting,
           LoginCheck(c) \/ Park(c) \/ Announce(c) \/ DropSend(c)
    PROVE  HInv'
<1>1. CASE LoginCheck(c)
  <2>1. /\ phase' = [phase EXCEPT ![c] = "checked"] /\ phase[c] = "off"
        /\ UNCHANGED <<pc, from_channel, parked, send_channels, hand>>
    BY <1>1 DEF LoginCheck, MoveTo, entityShared, channelVars
  <2>2. HandsOff'
    BY <2>1 DEF HInv, HandsOff
  <2> QED BY <2>1, <2>2, PhaseKeeps DEF Phases
<1>2. CASE Park(c)
  BY <1>2, ParkKeeps
<1>3. CASE Announce(c)
  <2>1. /\ phase' = [phase EXCEPT ![c] = "work"] /\ phase[c] = "login"
        /\ QueueForEntity(ConnectMsg(c)) /\ ConnectMsg(c) \in ChannelMsgs
        /\ UNCHANGED <<pc, parked, send_channels, hand>>
    BY <1>3, MsgTypes DEF Announce, MoveTo, entityShared, channelVars
  <2>2. HandsOff'
    BY <2>1 DEF HInv, HandsOff
  <2>3. phase'[c] = "work"
    BY <2>1 DEF TypeOK, QueuesTyped
  <2> QED BY <2>1, <2>2, <2>3, QueuedKeeps DEF Phases
<1>4. CASE DropSend(c)
  <2>1. /\ phase' = [phase EXCEPT ![c] = "dead"] /\ phase[c] = "drop"
        /\ UNCHANGED <<pc, parked, send_channels, hand>>
    BY <1>4 DEF DropSend, MoveTo, entityShared, channelVars
  <2>2. HandsOff'
    BY <2>1 DEF HInv, HandsOff
  <2>3. phase'[c] = "dead"
    BY <2>1 DEF TypeOK, QueuesTyped
  <2>4. CASE QueueForEntity(TerminateMsg(c))
    <3>1. TerminateMsg(c) \in ChannelMsgs /\ TerminateMsg(c).type # "Connect"
      BY MsgTypes DEF TerminateMsg
    <3> QED BY <2>1, <2>2, <2>3, <2>4, <3>1, QueuedKeeps DEF Phases
  <2>5. CASE EntityGone /\ UNCHANGED from_channel
    BY <2>1, <2>5, GoneKeeps
  <2> QED BY <1>4, <2>4, <2>5 DEF DropSend
<1> QED BY <1>1, <1>2, <1>3, <1>4

LEMMA WorkKeeps ==
    ASSUME TypeOK, HInv, NEW c \in Channels, UNCHANGED connecting,
           \/ TakePriority(c) \/ TakeCommon(c) \/ SendersLeft(c)
           \/ PushHand(c) \/ PushHandFails(c) \/ NewWindow(c)
    PROVE  HInv'
<1>1. CASE TakePriority(c) \/ TakeCommon(c)
  <2>1. PICK item, q : Take(c, item, q)
    BY <1>1 DEF TakePriority, TakeCommon
  <2>2. HandsOff'
    <3>1. (\E x : hand' = [hand EXCEPT ![c] = OutMsg(x)]) \/ hand' = hand
      BY <2>1 DEF Take, Bounce, EncodeFails, WriteFails, Write, WriteTerminate
    <3>2. \A x : OutMsg(x).type # "Connect"
      BY DEF OutMsg
    <3>3. CASE hand' = hand
      BY <3>3 DEF HInv, HandsOff
    <3> QED BY <3>1, <3>2, <3>3, HandSet DEF HInv
  <2> QED BY <2>1, <2>2, HandKeeps DEF Take, entityShared
<1>2. CASE SendersLeft(c)
  BY <1>2, LeaveKeeps DEF SendersLeft, CanTake, Ready, ClearAndLeave, entityShared
<1>3. CASE PushHand(c)
  <2>1. /\ hand[c] # NONE /\ phase[c] = "work" /\ hand[c] \in ChannelMsgs
        /\ QueueForEntity(hand[c]) /\ phase' = phase
        /\ hand' = [hand EXCEPT ![c] = NONE]
        /\ UNCHANGED <<pc, parked, send_channels>>
    BY <1>3 DEF PushHand, entityShared, TypeOK, ChannelsTyped
  <2>2. HandsOff' /\ hand[c].type # "Connect"
    BY <2>1, HandSet DEF HInv, HandsOff
  <2>3. phase' = [phase EXCEPT ![c] = phase'[c]] /\ phase'[c] = "work"
    BY <2>1 DEF TypeOK, QueuesTyped
  <2> QED BY <2>1, <2>2, <2>3, QueuedKeeps DEF Phases
<1>4. CASE PushHandFails(c)
  <2>1. CASE Leave(c)
    BY <1>4, <2>1, LeaveKeeps DEF PushHandFails, entityShared
  <2>2. CASE hand' = [hand EXCEPT ![c] = NONE] /\ UNCHANGED phase
    <3>1. HandsOff'
      BY <2>2, HandSet DEF HInv
    <3> QED BY <1>4, <2>2, <3>1, HandKeeps DEF PushHandFails, entityShared
  <2> QED BY <1>4, <2>1, <2>2 DEF PushHandFails
<1>5. CASE NewWindow(c)
  <2>1. HandsOff'
    BY <1>5 DEF NewWindow, HInv, HandsOff
  <2> QED BY <1>5, <2>1, HandKeeps DEF NewWindow, entityShared
<1> QED BY <1>1, <1>2, <1>3, <1>4, <1>5

LEMMA PeerKeeps ==
    ASSUME TypeOK, HInv, NEW c \in Channels, UNCHANGED connecting, PeerStep(c)
    PROVE  HInv'
<1>1. CASE \/ PeerReply(c) \/ PeerSends(c) \/ PeerSendsTooMuch(c) \/ ReceiptFails(c)
           \/ HeartbeatAnswered(c) \/ PeerTerminates(c)
  <2>1. \E msg : Receive(c, msg) /\ (msg # NONE => msg.type # "Connect")
    <3>1. /\ \A k, limited : RespMsg(k, limited).type # "Connect"
          /\ \A i : InMsg(i).type # "Connect"
          /\ OtherMsg.type # "Connect" /\ TerminateMsg(c).type # "Connect"
      BY DEF RespMsg, InMsg, OtherMsg, TerminateMsg
    <3>2. \/ \E k, limited : Receive(c, RespMsg(k, limited))
          \/ \E i : Receive(c, InMsg(i))
          \/ Receive(c, NONE) \/ Receive(c, OtherMsg) \/ Receive(c, TerminateMsg(c))
      BY <1>1 DEF PeerReply, PeerSends, PeerSendsTooMuch, ReceiptFails, HeartbeatAnswered,
                  PeerTerminates
    <3> QED BY <3>1, <3>2
  <2> QED BY <2>1, ReceiveKeeps
<1>2. CASE Heartbeat(c)
  <2>1. CASE Leave(c)
    BY <1>2, <2>1, LeaveKeeps DEF Heartbeat, Reads, Ready, entityShared
  <2>2. CASE UNCHANGED <<phase, hand>>
    <3>1. HandsOff'
      BY <2>2 DEF HInv, HandsOff
    <3> QED BY <1>2, <2>2, <3>1, HandKeeps DEF Heartbeat, entityShared
  <2> QED BY <1>2, <2>1, <2>2 DEF Heartbeat
<1>3. CASE PeerCloses(c) \/ Abort(c)
  BY <1>3, LeaveKeeps DEF PeerCloses, Abort, ClearAndLeave, Reads, Ready, entityShared
<1> QED BY <1>1, <1>2, <1>3 DEF PeerStep

LEMMA EntityKeeps ==
    ASSUME TypeOK, HInv, EntityStep, UNCHANGED channelVars
    PROVE  HInv'
<1>1. UNCHANGED hand
  BY DEF channelVars
<1>2. CASE TryChannel
  <2>1. CASE SkipReadOnly \/ SendToOpen
    <3>1. UNCHANGED handleVars
      BY <1>1, <1>2, <2>1 DEF TryChannel, SkipReadOnly, SendToOpen, handleVars
    <3>2. pc = "send" /\ pc' \in {"select", "resend", "send"}
      BY <1>2, <2>1 DEF TryChannel, SkipReadOnly, SendToOpen, Return
    <3> QED BY <3>1, <3>2, QuietKeeps
  <2> QED BY <1>1, <1>2, <2>1, ToClosedKeeps DEF TryChannel
<1>3. CASE NoChannelTook \/ ReSend \/ PopResend \/ ClearSendSmsCache
  <2>1. UNCHANGED handleVars
    BY <1>1, <1>3 DEF NoChannelTook, ReSend, PopResend, ClearSendSmsCache, handleVars,
                      channelQueues, baseVars
  <2>2. pc \in {"select", "resend", "send"} /\ pc' \in {"select", "resend", "send"}
    BY <1>3 DEF NoChannelTook, ReSend, PopResend, ClearSendSmsCache, StartSend, Return, baseVars
  <2> QED BY <2>1, <2>2, QuietKeeps
<1>4. CASE SendMessage \/ RequestState \/ Close
  <2>1. UNCHANGED handleVars
    BY <1>1, <1>4 DEF SendMessage, RequestState, Close, handleVars, channelQueues
  <2>2. pc = "select" /\ pc' \in {"select", "send", "closing"}
    BY <1>4 DEF SendMessage, RequestState, Close, TakeFromManager, StartSend
  <2> QED BY <2>1, <2>2, QuietKeeps
<1>5. CASE \/ AnswerLimited \/ AnswerMatched \/ AnswerUnmatched
           \/ CacheSent \/ PushBack \/ PublishInbound \/ IgnoreOther
  <2>1. \E type : TakeFromChannel(type) /\ type \notin {"Connect", "Terminate"}
    BY <1>5 DEF AnswerLimited, AnswerMatched, AnswerUnmatched, CacheSent, PushBack,
                PublishInbound, IgnoreOther
  <2>2. UNCHANGED <<parked, send_channels, phase, hand>>
    BY <1>1, <1>5 DEF AnswerLimited, AnswerMatched, AnswerUnmatched, CacheSent, PushBack,
                      PublishInbound, IgnoreOther, channelQueues
  <2>3. pc' \in {"select", "send"}
    BY <1>5 DEF AnswerLimited, AnswerMatched, AnswerUnmatched, CacheSent, PushBack,
                PublishInbound, IgnoreOther, StartSend, TakeFromChannel
  <2> QED BY <2>1, <2>2, <2>3, TakeKeeps
<1> QED BY <1>1, <1>2, <1>3, <1>4, <1>5, TerminatedKeeps, TakeConnectKeeps, ConnectedKeeps,
           StopKeeps DEF EntityStep

LEMMA HInvStep ==
    ASSUME TypeOK, HInv, [Next]_vars
    PROVE  HInv'
<1>1. CASE ManagerStep \/ UNCHANGED vars
  <2>1. UNCHANGED handleVars /\ UNCHANGED <<pc, connecting>>
    BY <1>1 DEF ManagerStep, Send, AskState, CloseEntity, ToEntity, vars, baseVars, entityVars,
                channelVars, handleVars
  <2> QED BY <2>1, QuietKeeps
<1>2. CASE EntityStep /\ UNCHANGED channelVars
  BY <1>2, EntityKeeps
<1>3. CASE (AnswersTimeOut \/ DaysTimeOut) /\ UNCHANGED channelVars
  <2>1. UNCHANGED handleVars /\ UNCHANGED <<pc, connecting>>
    BY <1>3 DEF AnswersTimeOut, DaysTimeOut, AnswersAge, DaysPass, baseVars, channelVars, handleVars
  <2> QED BY <2>1, QuietKeeps
<1>4. ASSUME NEW c \in Channels, Login(c) \/ ChannelStep(c) \/ PeerStep(c), EntityIdle
      PROVE  HInv'
  <2>1. UNCHANGED connecting
    BY <1>4 DEF EntityIdle, entityVars
  <2> QED BY <1>4, <2>1, LoginKeeps, WorkKeeps, PeerKeeps DEF Login, ChannelStep
<1> QED BY <1>1, <1>2, <1>3, <1>4 DEF Next

LEMMA HInvHolds == Spec => []HInv
<1>1. Init => HInv
  BY DEF Init, InitChannel, HInv, HandlesDisjoint, HandsOff, NoDuplicates, Attached,
         ParkedAnnounced, DeadAnnounced
<1>2. TypeOK /\ HInv /\ [Next]_vars => HInv'
  BY HInvStep
<1> QED BY <1>1, <1>2, TypeCorrect, PTL DEF Spec
---------------------------------------------------------------------------
(* A handle in TEMP_SAVE is announced to the entity, and in no list yet.   *)
THEOREM ParkedHandlesAreAnnounced == Spec => []ParkedIsAnnounced
<1>1. TypeOK /\ HInv => ParkedIsAnnounced
  BY DEF HInv, HandlesDisjoint, ParkedAnnounced, ParkedIsAnnounced, TypeOK, QueuesTyped
<1> QED BY <1>1, TypeCorrect, HInvHolds, PTL

(* The handle of a channel that has ended is not kept for ever: its        *)
(* Terminate is on its way, in whatever order the two tasks run.           *)
THEOREM StaleHandlesAreAnnounced == Spec => []StaleHandleIsAnnounced
<1>1. TypeOK /\ HInv => StaleHandleIsAnnounced
  <2> SUFFICES ASSUME TypeOK, HInv, ~EntityGone, NEW c \in Attached, ~ReceiverOpen(c),
                      phase[c] # "drop"
               PROVE  \E i \in DOMAIN from_channel : from_channel[i] = TerminateMsg(c)
    BY DEF StaleHandleIsAnnounced
  <2>1. c \in Channels
    BY DEF TypeOK, QueuesTyped, Attached
  <2>2. phase[c] = "dead"
    BY <2>1 DEF TypeOK, QueuesTyped, Phases, ReceiverOpen, HInv, HandlesDisjoint
  <2> QED BY <2>1, <2>2 DEF HInv, DeadAnnounced, TerminateBehind
<1> QED BY <1>1, TypeCorrect, HInvHolds, PTL

(* No channel is attached twice, so the handles are never more than the    *)
(* connections: with fewer than 256 of them now_conn_num cannot wrap, and  *)
(* the reports are right without a further assumption.                     *)
THEOREM FewConnections ==
    ASSUME IsFiniteSet(Channels), Cardinality(Channels) < 256
    PROVE  Spec => []ReportedIsCurrent
<1>1. TypeOK /\ HInv => FewHandles
  <2> SUFFICES ASSUME TypeOK, HInv PROVE Len(send_channels) < 256
    BY DEF FewHandles
  <2>1. send_channels \in Seq(Channels) /\ NoDuplicates(send_channels)
    BY DEF TypeOK, QueuesTyped, HInv, HandlesDisjoint
  <2>2. Len(send_channels) \in Nat /\ DOMAIN send_channels = 1..Len(send_channels)
    BY <2>1
  <2>3. send_channels \in Injection(1..Len(send_channels), Channels)
    <3>1. send_channels \in [1..Len(send_channels) -> Channels]
      BY <2>1
    <3> QED BY <2>1, <2>2, <3>1 DEF Injection, IsInjective, NoDuplicates
  <2>4. Cardinality(1..Len(send_channels)) <= Cardinality(Channels)
    BY <2>3, FS_Injection
  <2>5. Cardinality(1..Len(send_channels)) = Len(send_channels)
    <3>1. \A n \in Nat : Cardinality(1..n) = IF 1 > n THEN 0 ELSE n - 1 + 1
      BY FS_Interval
    <3>2. \A n \in Nat : (IF 1 > n THEN 0 ELSE n - 1 + 1) = n
      OBVIOUS
    <3> QED BY <2>2, <3>1, <3>2
  <2> QED BY <2>2, <2>4, <2>5, FS_CardinalityType
<1> QED BY <1>1, TypeCorrect, HInvHolds, ReportsAreCurrent, PTL
============================================================================
