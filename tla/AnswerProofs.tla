---------------------------- MODULE AnswerProofs ----------------------------
(***************************************************************************)
(* Answers and what waits for them: the echo of a sent message is ahead of *)
(* every answer to it, until the entity has its entry.  And the copies     *)
(* that wait: a message of one frame is at one place until it times out.   *)
(*                                                                         *)
(* The parts of the first invariant are stated of one number k and of the  *)
(* state of the wires w, the tasks' hands h and the entity's queue q, to   *)
(* say them of the state before and after a step.  For the second, a step  *)
(* is sorted by what it does to one message (MovesOn): it stays, or a copy *)
(* goes, or it moves from one container to another.                        *)
(***************************************************************************)
EXTENDS CustodyProofs

IsAnswer(msg, k) == msg # NONE /\ msg.type = "Resp" /\ msg.seq = k
IsEcho(msg, k) ==
    msg # NONE /\ msg.type = "Out" /\ msg.item.wait /\ k \in Range(msg.item.seqs)

(* No number is used twice: what is on its way was given out.              *)
Pending(w, h, q, k) ==
    \/ \E c \in Channels : k \in w[c] \/ IsAnswer(h[c], k)
    \/ \E n \in DOMAIN q : IsAnswer(q[n], k)
Given(w, h, q, k, last) == Pending(w, h, q, k) => k[2] <= last

(* A frame is answered once: it is on a wire, or its answer is in a task's *)
(* hand or in the queue, at one place.                                     *)
Once(w, h, q, k) ==
    /\ \A c, d \in Channels : k \in w[c] => ~IsAnswer(h[d], k) /\ (k \in w[d] => c = d)
    /\ \A c, d \in Channels : IsAnswer(h[c], k) /\ IsAnswer(h[d], k) => c = d
    /\ \A n \in DOMAIN q : IsAnswer(q[n], k) =>
          /\ \A c \in Channels : k \notin w[c] /\ ~IsAnswer(h[c], k)
          /\ \A j \in DOMAIN q : IsAnswer(q[j], k) => n = j

(* There is an entry, or was one, or the echo that makes it comes first.   *)
Ahead(w, h, q, k, hasEntry) ==
    LET echoed == \E n \in DOMAIN q : IsEcho(q[n], k)
    IN  /\ \A c \in Channels :
              /\ k \in w[c] => hasEntry \/ echoed \/ IsEcho(h[c], k)
              /\ IsAnswer(h[c], k) => hasEntry \/ echoed
        /\ \A n \in DOMAIN q : IsAnswer(q[n], k) =>
              hasEntry \/ \E j \in DOMAIN q : j < n /\ IsEcho(q[j], k)

HasEntry(k) == k \in DOMAIN wait_receipt_map \/ k \in timed_out
(* The frames that get an entry.                                           *)
Counted(k) == k[3] <= (IF MsgType[k[1]] = "Submit" THEN MsgIds[k[1]] ELSE 1)

Awaited(k) ==
    /\ Given(wire, hand, from_channel, k, tries[k[1]])
    /\ Once(wire, hand, from_channel, k)
    /\ Counted(k) => Ahead(wire, hand, from_channel, k, HasEntry(k))
AnswerInv ==
    /\ ~EntityGone => \A k \in Seqs : Awaited(k)
    /\ UnmatchedOnlyAfterTimeout
---------------------------------------------------------------------------
(* What a step of a connection does to the answers to k and to its echo.   *)
Elsewhere(c) == \A d \in Channels : d # c => hand'[d] = hand[d] /\ wire'[d] = wire[d]

Stays(c, k) ==
    /\ from_channel' = from_channel /\ Elsewhere(c)
    /\ hand'[c] = hand[c] \/ (hand[c] = NONE /\ ~IsAnswer(hand'[c], k))
    /\ k \in wire'[c] => k \in wire[c]
    /\ tries[k[1]] <= tries'[k[1]]
Writes(c, k) ==
    /\ from_channel' = from_channel /\ Elsewhere(c)
    /\ hand[c] = NONE /\ IsEcho(hand'[c], k) /\ ~IsAnswer(hand'[c], k)
    /\ k[2] = tries[k[1]] + 1 /\ tries'[k[1]] = tries[k[1]] + 1
Passes(c, k) ==
    /\ wire' = wire /\ tries' = tries /\ Elsewhere(c)
    /\ \E n \in Nat :
          /\ DOMAIN from_channel' = DOMAIN from_channel \cup {n}
          /\ \A i \in DOMAIN from_channel :
                i \in Nat /\ i < n /\ from_channel'[i] = from_channel[i]
          /\ \/ hand'[c] = hand[c] /\ ~IsAnswer(from_channel'[n], k)
             \/ hand'[c] = NONE /\ from_channel'[n] = hand[c]
Hears(c, k) ==
    /\ from_channel' = from_channel /\ tries' = tries /\ Elsewhere(c)
    /\ hand[c] = NONE /\ k \in wire[c] /\ k \notin wire'[c]

LEMMA NoneIsNothing == \A k : ~IsAnswer(NONE, k) /\ ~IsEcho(NONE, k)
BY DEF IsAnswer, IsEcho

LEMMA GivenKept ==
    ASSUME NEW c \in Channels, NEW k \in Seqs, tries[k[1]] \in Nat, tries'[k[1]] \in Nat, k[2] \in Nat,
           Stays(c, k) \/ Writes(c, k) \/ Passes(c, k) \/ Hears(c, k),
           Given(wire, hand, from_channel, k, tries[k[1]])
    PROVE  Given(wire', hand', from_channel', k, tries'[k[1]])
<1>1. CASE Stays(c, k)
  BY <1>1 DEF Stays, Elsewhere, Given, Pending
<1>2. CASE Writes(c, k)
  BY <1>2 DEF Writes, Given
<1>3. CASE Passes(c, k)
  BY <1>3, NoneIsNothing DEF Passes, Elsewhere, Given, Pending
<1>4. CASE Hears(c, k)
  BY <1>4 DEF Hears, Given, Pending
<1> QED BY <1>1, <1>2, <1>3, <1>4

LEMMA OnceKept ==
    ASSUME NEW c \in Channels, NEW k \in Seqs, tries[k[1]] \in Nat,
           Stays(c, k) \/ Writes(c, k) \/ Passes(c, k) \/ Hears(c, k),
           Given(wire, hand, from_channel, k, tries[k[1]]),
           Once(wire, hand, from_channel, k)
    PROVE  Once(wire', hand', from_channel', k)
<1>1. CASE Stays(c, k)
  BY <1>1 DEF Stays, Elsewhere, Once
<1>2. CASE Writes(c, k)
  <2>1. ~Pending(wire, hand, from_channel, k)
    BY <1>2 DEF Writes, Given
  <2> QED BY <1>2, <2>1 DEF Writes, Elsewhere, Pending, Once
<1>3. CASE Passes(c, k)
  BY <1>3, NoneIsNothing DEF Passes, Elsewhere, Once
<1>4. CASE Hears(c, k)
  BY <1>4 DEF Hears, Elsewhere, Once
<1> QED BY <1>1, <1>2, <1>3, <1>4

LEMMA AheadKept ==
    ASSUME NEW c \in Channels, NEW k \in Seqs, tries[k[1]] \in Nat, NEW hasEntry \in BOOLEAN,
           Stays(c, k) \/ Writes(c, k) \/ Passes(c, k) \/ Hears(c, k),
           Given(wire, hand, from_channel, k, tries[k[1]]),
           Once(wire, hand, from_channel, k),
           Ahead(wire, hand, from_channel, k, hasEntry)
    PROVE  Ahead(wire', hand', from_channel', k, hasEntry)
<1>1. CASE Stays(c, k)
  BY <1>1, NoneIsNothing DEF Stays, Elsewhere, Ahead
<1>2. CASE Writes(c, k)
  <2>1. ~Pending(wire, hand, from_channel, k)
    BY <1>2 DEF Writes, Given
  <2> QED BY <1>2, <2>1 DEF Writes, Elsewhere, Pending, Ahead
<1>3. CASE Passes(c, k)
  BY <1>3, NoneIsNothing DEF Passes, Elsewhere, Ahead
<1>4. CASE Hears(c, k)
  BY <1>4, NoneIsNothing DEF Hears, Elsewhere, Once, Ahead
<1> QED BY <1>1, <1>2, <1>3, <1>4

LEMMA AnswerMsgs ==
    ASSUME NEW k
    PROVE  /\ \A item : ~IsAnswer(OutMsg(item), k)
           /\ \A i : ~IsAnswer(InMsg(i), k)
           /\ \A c : ~IsAnswer(ConnectMsg(c), k) /\ ~IsAnswer(TerminateMsg(c), k)
           /\ ~IsAnswer(OtherMsg, k)
           /\ \A other, limited : IsAnswer(RespMsg(other, limited), k) => other = k
           /\ \A item \in Items : item.wait /\ k \in Range(item.seqs) => IsEcho(OutMsg(item), k)
<1>1. /\ \A item : ~IsAnswer(OutMsg(item), k)
      /\ \A i : ~IsAnswer(InMsg(i), k)
      /\ \A c : ~IsAnswer(ConnectMsg(c), k) /\ ~IsAnswer(TerminateMsg(c), k)
      /\ ~IsAnswer(OtherMsg, k)
  BY DEF IsAnswer, OutMsg, InMsg, ConnectMsg, TerminateMsg, OtherMsg
<1>2. \A other, limited : IsAnswer(RespMsg(other, limited), k) => other = k
  BY DEF IsAnswer, RespMsg
<1>3. \A item \in Items : item.wait /\ k \in Range(item.seqs) => IsEcho(OutMsg(item), k)
  BY OutMsgs DEF IsEcho
<1> QED BY <1>1, <1>2, <1>3

(* An encoding numbers its frames anew, and its echo names them all.       *)
LEMMA NewNumbers ==
    ASSUME TypeOK, NEW m \in Outs, NEW k \in Seqs
    PROVE  LET item == [m |-> m, wait |-> TRUE, seqs |-> NewSeqs(m)]
           IN  /\ item \in Items
               /\ {NewSeqs(m)[i] : i \in DOMAIN NewSeqs(m)} = Range(NewSeqs(m))
               /\ k \in Range(NewSeqs(m)) =>
                     k[1] = m /\ k[2] = tries[m] + 1 /\ IsEcho(OutMsg(item), k)
<1> DEFINE seqs == NewSeqs(m)
           item == [m |-> m, wait |-> TRUE, seqs |-> seqs]
<1>1. Frames[m] \in Nat \ {0} /\ tries[m] \in Nat
  BY OutsAssumption DEF TypeOK, ChannelsTyped
<1>2. /\ seqs \in Seq(Seqs) /\ seqs # <<>> /\ DOMAIN seqs = 1..Frames[m]
      /\ \A i \in DOMAIN seqs : seqs[i] = <<m, tries[m] + 1, i>>
  BY <1>1 DEF NewSeqs, Seqs
<1>3. k \in Range(seqs) => k[1] = m /\ k[2] = tries[m] + 1
  BY <1>2 DEF Range
<1> HIDE DEF seqs
<1>4. item \in Items
  BY <1>2 DEF Items
<1>5. k \in Range(seqs) => IsEcho(OutMsg(item), k)
  BY <1>4, AnswerMsgs
<1>6. {seqs[i] : i \in DOMAIN seqs} = Range(seqs)
  BY DEF Range
<1> QED BY <1>3, <1>4, <1>5, <1>6 DEF seqs

LEMMA ChannelAnswers ==
    ASSUME TypeOK, NEW c \in Channels, ChannelFlow(c), ~EntityGone, NEW k \in Seqs
    PROVE  Stays(c, k) \/ Writes(c, k) \/ Passes(c, k) \/ Hears(c, k)
<1>0. /\ hand \in [Channels -> ChannelMsgs \cup {NONE}] /\ wire \in [Channels -> SUBSET Seqs]
      /\ tries \in [Outs -> Nat] /\ k[1] \in Outs /\ tries[k[1]] \in Nat
  BY DEF TypeOK, ChannelsTyped, Seqs
<1>1. CASE UNCHANGED channelFlow
  BY <1>0, <1>1 DEF channelFlow, Stays, Elsewhere
<1>2. CASE Announces(c)
  <2>1. PICK msg \in {ConnectMsg(c), TerminateMsg(c)} : QueueForEntity(msg)
    BY <1>2 DEF Announces
  <2>2. msg \in ChannelMsgs /\ ~IsAnswer(msg, k)
    BY AnswerMsgs, MsgTypes
  <2>3. hand' = hand /\ wire' = wire /\ tries' = tries
    BY <1>2 DEF Announces
  <2>4. \E n \in Nat : /\ DOMAIN from_channel' = DOMAIN from_channel \cup {n}
                       /\ from_channel'[n] = msg
                       /\ \A i \in DOMAIN from_channel :
                             i \in Nat /\ i < n /\ from_channel'[i] = from_channel[i]
    BY <2>1, <2>2, QueueGrows
  <2>5. Passes(c, k)
    BY <2>2, <2>3, <2>4 DEF Passes, Elsewhere
  <2> QED BY <2>5
<1>3. ASSUME hand[c] = NONE \/ UNCHANGED hand, UNCHANGED <<from_channel, tries>>,
             NEW msg, ~IsAnswer(msg, k), hand' = [hand EXCEPT ![c] = msg] \/ UNCHANGED hand,
             wire' = wire \/ wire' = [wire EXCEPT ![c] = {}]
      PROVE  Stays(c, k)
  BY <1>0, <1>3 DEF Stays, Elsewhere
<1>4. CASE Takes(c)
  <2>1. PICK isPriority \in BOOLEAN :
           LET item == Head(QueueOf(c, isPriority))
           IN  \/ Bounce(c, item)
               \/ EncodeFails(c, item)
               \/ WriteFails(c, item, isPriority)
               \/ Write(c, item)
               \/ WriteTerminate(c, item)
    BY <1>4 DEF Takes
  <2> DEFINE item == Head(QueueOf(c, isPriority))
  <2>2. hand[c] = NONE /\ UNCHANGED from_channel
    BY <1>4 DEF Takes
  <2>3. CASE ~Write(c, item)
    <3>1. /\ UNCHANGED <<wire, tries>>
          /\ hand' = hand \/ hand' = [hand EXCEPT ![c] = OutMsg(item)]
      BY <2>1, <2>3 DEF Bounce, EncodeFails, WriteFails, WriteTerminate
    <3>2. ~IsAnswer(OutMsg(item), k)
      BY AnswerMsgs
    <3> HIDE DEF item
    <3> QED BY <1>3, <2>2, <3>1, <3>2
  <2>4. CASE Write(c, item)
    <3> DEFINE m == item.m
               sent == [m |-> m, wait |-> TRUE, seqs |-> NewSeqs(m)]
    <3>1. /\ m \in Outs
          /\ tries' = [tries EXCEPT ![m] = @ + 1]
          /\ wire' = [wire EXCEPT ![c] = @ \cup {NewSeqs(m)[i] : i \in DOMAIN NewSeqs(m)}]
          /\ hand' = [hand EXCEPT ![c] = OutMsg(sent)]
      BY <2>4 DEF Write
    <3> HIDE DEF m, item
    <3>2. /\ {NewSeqs(m)[i] : i \in DOMAIN NewSeqs(m)} = Range(NewSeqs(m))
          /\ k \in Range(NewSeqs(m)) => k[1] = m /\ k[2] = tries[m] + 1 /\ IsEcho(OutMsg(sent), k)
      BY <3>1, NewNumbers
    <3>3. ~IsAnswer(OutMsg(sent), k)
      BY AnswerMsgs
    <3> HIDE DEF sent
    <3>4. /\ hand'[c] = OutMsg(sent) /\ wire'[c] = wire[c] \cup Range(NewSeqs(m))
          /\ Elsewhere(c) /\ tries'[m] = tries[m] + 1
          /\ tries[k[1]] <= tries'[k[1]]
      BY <1>0, <3>1, <3>2 DEF Elsewhere
    <3>5. CASE k \in Range(NewSeqs(m))
      <4>1. Writes(c, k)
        BY <2>2, <3>2, <3>3, <3>4, <3>5 DEF Writes
      <4> QED BY <4>1
    <3>6. CASE k \notin Range(NewSeqs(m))
      <4>1. Stays(c, k)
        BY <2>2, <3>3, <3>4, <3>6 DEF Stays
      <4> QED BY <4>1
    <3> QED BY <3>5, <3>6
  <2> QED BY <2>3, <2>4
<1>5. CASE Ends(c)
  <2>1. /\ hand[c] = NONE /\ UNCHANGED <<from_channel, tries>>
        /\ hand' = [hand EXCEPT ![c] = NONE] /\ wire' = [wire EXCEPT ![c] = {}]
    BY <1>5 DEF Ends, ClearAndLeave, Leave
  <2> QED BY <1>3, <2>1, NoneIsNothing
<1>6. CASE Pushes(c)
  <2>1. hand[c] \in ChannelMsgs /\ QueueForEntity(hand[c]) /\ wire' = wire /\ tries' = tries
        /\ hand' = [hand EXCEPT ![c] = NONE]
    BY <1>0, <1>6 DEF Pushes
  <2>2. \E n \in Nat : /\ DOMAIN from_channel' = DOMAIN from_channel \cup {n}
                       /\ from_channel'[n] = hand[c]
                       /\ \A i \in DOMAIN from_channel :
                             i \in Nat /\ i < n /\ from_channel'[i] = from_channel[i]
    BY <2>1, QueueGrows
  <2>3. Passes(c, k)
    BY <1>0, <2>1, <2>2 DEF Passes, Elsewhere
  <2> QED BY <2>3
<1>7. CASE PushFails(c)
  BY <1>7 DEF PushFails
<1>8. CASE HearsAnswer(c)
  <2>1. PICK other \in wire[c], limited \in BOOLEAN :
           /\ hand' = [hand EXCEPT ![c] = RespMsg(other, limited)]
           /\ wire' = [wire EXCEPT ![c] = @ \ {other}]
    BY <1>8 DEF HearsAnswer
  <2>2. hand[c] = NONE /\ UNCHANGED <<from_channel, tries>>
    BY <1>8 DEF HearsAnswer
  <2>3. Elsewhere(c) /\ hand'[c] = RespMsg(other, limited) /\ wire'[c] = wire[c] \ {other}
    BY <1>0, <2>1 DEF Elsewhere
  <2>4. CASE other = k
    <3>1. Hears(c, k)
      BY <2>2, <2>3, <2>4 DEF Hears
    <3> QED BY <3>1
  <2>5. CASE other # k
    <3>1. ~IsAnswer(hand'[c], k)
      BY <2>3, <2>5, AnswerMsgs
    <3>2. Stays(c, k)
      BY <1>0, <2>2, <2>3, <3>1 DEF Stays
    <3> QED BY <3>2
  <2> QED BY <2>4, <2>5
<1>9. CASE HearsMessage(c) \/ HearsControl(c)
  <2>1. /\ hand[c] = NONE /\ UNCHANGED <<from_channel, tries, wire>>
        /\ \E msg : ~IsAnswer(msg, k) /\ hand' = [hand EXCEPT ![c] = msg]
    BY <1>9, AnswerMsgs DEF HearsMessage, HearsControl
  <2> QED BY <1>3, <2>1
<1> QED BY <1>1, <1>2, <1>4, <1>5, <1>6, <1>7, <1>8, <1>9 DEF ChannelFlow

LEMMA ChannelKeepsAwaited ==
    ASSUME TypeOK, TypeOK', NEW c \in Channels, ChannelFlow(c), ~EntityGone,
           UNCHANGED <<wait_receipt_map, timed_out>>, NEW k \in Seqs, Awaited(k)
    PROVE  Awaited(k)'
<1>1. /\ tries[k[1]] \in Nat /\ tries'[k[1]] \in Nat /\ k[2] \in Nat
      /\ HasEntry(k) \in BOOLEAN /\ HasEntry(k)' = HasEntry(k)
  BY DEF TypeOK, ChannelsTyped, Seqs, HasEntry
<1>2. Stays(c, k) \/ Writes(c, k) \/ Passes(c, k) \/ Hears(c, k)
  BY ChannelAnswers
<1>3. /\ Given(wire, hand, from_channel, k, tries[k[1]])
      /\ Once(wire, hand, from_channel, k)
      /\ Counted(k) => Ahead(wire, hand, from_channel, k, HasEntry(k))
  BY DEF Awaited
<1>4. Given(wire', hand', from_channel', k, tries'[k[1]])
  BY <1>1, <1>2, <1>3, GivenKept
<1>5. Once(wire', hand', from_channel', k)
  BY <1>1, <1>2, <1>3, OnceKept
<1>6. Counted(k) => Ahead(wire', hand', from_channel', k, HasEntry(k))
  BY <1>1, <1>2, <1>3, AheadKept
<1>7. Counted(k) => Ahead(wire', hand', from_channel', k, HasEntry(k)')
  BY <1>1, <1>6
<1>8. Counted(k)' = Counted(k)
  BY DEF Counted
<1> QED BY <1>4, <1>5, <1>7, <1>8 DEF Awaited
---------------------------------------------------------------------------
(* The entity makes the entries of an echo it takes, and forgets none but  *)
(* that of an answer it takes, or one it notes as timed out.               *)
LEMMA EchoMakesEntry ==
    ASSUME TypeOK, ItemsEncoded, CacheSent, NEW k \in Seqs, Counted(k),
           IsEcho(Head(from_channel), k)
    PROVE  k \in DOMAIN wait_receipt_map'
<1>1. PICK item \in Items : Head(from_channel) = OutMsg(item) /\ item.wait /\ Insert(item)
                          /\ k \in Range(item.seqs)
  <2>1. Head(from_channel) \in ChannelMsgs /\ Head(from_channel).type = "Out"
    BY QueueElements DEF CacheSent
  <2> QED BY <2>1, OutMsgs DEF CacheSent, IsEcho
<1>2. Encoded(item)
  <2>1. TakeFromChannel("Out")
    BY DEF CacheSent
  <2>2. OutMsg(item) \in Range(from_channel)
    BY <1>1, <2>1, QueueElements
  <2> QED BY <2>2 DEF ItemsEncoded, Exists, Moving, Queued
<1>3. PICK t : item.seqs = [j \in 1..Frames[item.m] |-> <<item.m, t, j>>]
  BY <1>1, <1>2 DEF Encoded
<1>4. PICK i \in 1..Frames[item.m] : k = <<item.m, t, i>> /\ k = item.seqs[i]
  BY <1>1, <1>3 DEF Range
<1> DEFINE count == IF MsgType[item.m] # "Submit" THEN 1
                    ELSE IF Len(item.seqs) <= MsgIds[item.m] THEN Len(item.seqs)
                    ELSE MsgIds[item.m]
<1>5. item.m \in Outs /\ Frames[item.m] \in Nat \ {0} /\ MsgIds[item.m] \in Nat
  <2>1. item.m \in Outs
    BY <1>1 DEF Items
  <2> QED BY <2>1, OutsAssumption
<1>6. i \in 1..count
  <2>1. Len(item.seqs) = Frames[item.m]
    BY <1>3, <1>5
  <2>2. k[1] = item.m /\ k[3] = i
    BY <1>4
  <2>3. i <= (IF MsgType[item.m] = "Submit" THEN MsgIds[item.m] ELSE 1)
    BY <2>2 DEF Counted
  <2> QED BY <1>5, <2>1, <2>3
<1>7. DOMAIN wait_receipt_map' = DOMAIN wait_receipt_map \cup {item.seqs[j] : j \in 1..count}
  BY <1>1 DEF Insert
<1> HIDE DEF count
<1> QED BY <1>4, <1>6, <1>7

LEMMA EntityAnswers ==
    ASSUME TypeOK, ItemsEncoded, EntityStep, ~EntityGone', NEW k \in Seqs
    PROVE  \/ UNCHANGED from_channel /\ (HasEntry(k) => HasEntry(k)')
           \/ \E type :
                 /\ TakeFromChannel(type)
                 /\ HasEntry(k) => HasEntry(k)' \/ IsAnswer(Head(from_channel), k)
                 /\ Counted(k) /\ IsEcho(Head(from_channel), k) => HasEntry(k)'
<1>1. ASSUME UNCHANGED <<from_channel, wait_receipt_map, timed_out>>
      PROVE  UNCHANGED from_channel /\ (HasEntry(k) => HasEntry(k)')
  BY <1>1 DEF HasEntry
<1>2. ASSUME NEW type, TakeFromChannel(type), UNCHANGED <<wait_receipt_map, timed_out>>,
             type = "Out" => ~Head(from_channel).item.wait
      PROVE  \E other :
                /\ TakeFromChannel(other)
                /\ HasEntry(k) => HasEntry(k)' \/ IsAnswer(Head(from_channel), k)
                /\ Counted(k) /\ IsEcho(Head(from_channel), k) => HasEntry(k)'
  <2>1. ~IsEcho(Head(from_channel), k)
    BY <1>2 DEF TakeFromChannel, IsEcho
  <2> QED BY <1>2, <2>1 DEF HasEntry
<1>3. CASE TryChannel \/ NoChannelTook \/ PopResend \/ ChannelConnected \/ SendMessage
           \/ RequestState \/ Close
  <2>1. UNCHANGED <<from_channel, wait_receipt_map, timed_out>>
    BY <1>3 DEF TryChannel, NoChannelTook, PopResend, ChannelConnected, SendMessage, RequestState,
                Close, published, entityVars
  <2> QED BY <1>1, <2>1
<1>4. CASE ReSend \/ ClearSendSmsCache
  <2>1. PICK gone : /\ wait_receipt_map' = Restrict(wait_receipt_map, DOMAIN wait_receipt_map \ gone)
                    /\ timed_out' = timed_out \cup gone /\ UNCHANGED from_channel
    BY <1>4 DEF ReSend, ClearSendSmsCache, baseVars
  <2>2. DOMAIN wait_receipt_map' = DOMAIN wait_receipt_map \ gone
    BY <2>1 DEF Restrict
  <2>3. HasEntry(k) => HasEntry(k)'
    BY <2>1, <2>2 DEF HasEntry
  <2> QED BY <2>1, <2>3
<1>5. CASE AnswerLimited \/ AnswerMatched
  <2>1. /\ TakeFromChannel("Resp") /\ Forget(Head(from_channel).seq) /\ timed_out' = timed_out
    BY <1>5 DEF AnswerLimited, AnswerMatched, published
  <2>2. Head(from_channel) \in ChannelMsgs /\ Head(from_channel).type = "Resp"
    BY <2>1, QueueElements
  <2>3. ~IsEcho(Head(from_channel), k)
    BY <2>2 DEF IsEcho
  <2>4. Head(from_channel).seq = k => IsAnswer(Head(from_channel), k)
    BY <2>2, NoneAssumption DEF IsAnswer
  <2>5. DOMAIN wait_receipt_map' = DOMAIN wait_receipt_map \ {Head(from_channel).seq}
    BY <2>1 DEF Forget, Restrict
  <2>6. HasEntry(k) => HasEntry(k)' \/ IsAnswer(Head(from_channel), k)
    BY <2>1, <2>4, <2>5 DEF HasEntry
  <2> QED BY <2>1, <2>3, <2>6
<1>6. CASE AnswerUnmatched \/ PublishInbound \/ IgnoreOther \/ ChannelTerminated \/ TakeConnect
  <2>1. \E type \in {"Resp", "In", "Other", "Terminate", "Connect"} :
          TakeFromChannel(type) /\ UNCHANGED <<wait_receipt_map, timed_out>>
    BY <1>6 DEF AnswerUnmatched, PublishInbound, IgnoreOther, ChannelTerminated, TakeConnect,
                published, entityVars
  <2> QED BY <1>2, <2>1
<1>7. CASE PushBack
  <2>1. TakeFromChannel("Out") /\ UNCHANGED <<wait_receipt_map, timed_out>>
        /\ ~Head(from_channel).item.wait
    BY <1>7 DEF PushBack, published
  <2> QED BY <1>2, <2>1
<1>8. CASE CacheSent
  <2>1. TakeFromChannel("Out") /\ timed_out' = timed_out
    BY <1>8 DEF CacheSent, published
  <2>2. DOMAIN wait_receipt_map \subseteq DOMAIN wait_receipt_map'
    BY <1>8 DEF CacheSent, Insert
  <2>3. Counted(k) /\ IsEcho(Head(from_channel), k) => HasEntry(k)'
    BY <1>8, EchoMakesEntry DEF HasEntry
  <2>4. HasEntry(k) => HasEntry(k)'
    BY <2>1, <2>2 DEF HasEntry
  <2> QED BY <2>1, <2>3, <2>4
<1>9. CASE Stop
  BY <1>9 DEF Stop, EntityGone
<1> QED BY <1>3, <1>4, <1>5, <1>6, <1>7, <1>8, <1>9 DEF EntityStep

LEMMA EntityKeepsAwaited ==
    ASSUME TypeOK, ItemsEncoded, EntityStep, UNCHANGED channelVars, ~EntityGone',
           NEW k \in Seqs, Awaited(k)
    PROVE  Awaited(k)'
<1>1. wire' = wire /\ hand' = hand /\ tries' = tries /\ Counted(k)' = Counted(k)
  BY DEF channelVars, Counted
<1>2. /\ Given(wire, hand, from_channel, k, tries[k[1]])
      /\ Once(wire, hand, from_channel, k)
      /\ Counted(k) => Ahead(wire, hand, from_channel, k, HasEntry(k))
  BY DEF Awaited
<1>3. CASE UNCHANGED from_channel /\ (HasEntry(k) => HasEntry(k)')
  <2>1. Ahead(wire, hand, from_channel, k, HasEntry(k))
          => Ahead(wire, hand, from_channel, k, HasEntry(k)')
    BY <1>3 DEF Ahead
  <2> QED BY <1>1, <1>2, <1>3, <2>1 DEF Awaited
<1>4. ASSUME NEW type, TakeFromChannel(type),
             HasEntry(k) => HasEntry(k)' \/ IsAnswer(Head(from_channel), k),
             Counted(k) /\ IsEcho(Head(from_channel), k) => HasEntry(k)'
      PROVE  Awaited(k)'
  <2>1. /\ DOMAIN from_channel \subseteq Nat \ {0} /\ 1 \in DOMAIN from_channel
        /\ Head(from_channel) = from_channel[1]
        /\ \A i \in DOMAIN from_channel' :
              i + 1 \in DOMAIN from_channel /\ from_channel'[i] = from_channel[i + 1]
        /\ \A i \in DOMAIN from_channel : i # 1 =>
              i - 1 \in DOMAIN from_channel' /\ from_channel'[i - 1] = from_channel[i]
    BY <1>4, QueueMovesUp
  <2>2. DOMAIN from_channel' \subseteq Nat \ {0}
    <3>1. from_channel \in Seq(ChannelMsgs) /\ from_channel # <<>> /\ from_channel' = Tail(from_channel)
      BY <1>4 DEF TakeFromChannel, TypeOK, QueuesTyped
    <3> QED BY ONLY <3>1
  <2>3. Given(wire, hand, from_channel', k, tries[k[1]])
    BY <1>2, <2>1 DEF Given, Pending
  <2>4. Once(wire, hand, from_channel', k)
    BY <1>2, <2>1, <2>2 DEF Once
  <2>5. ASSUME Counted(k)
        PROVE  Ahead(wire, hand, from_channel', k, HasEntry(k)')
    <3>1. ASSUME IsAnswer(from_channel[1], k)
          PROVE  Ahead(wire, hand, from_channel', k, HasEntry(k)')
      BY <1>2, <2>1, <2>2, <3>1 DEF Once, Ahead
    <3>2. ASSUME ~IsAnswer(from_channel[1], k), HasEntry(k)'
          PROVE  Ahead(wire, hand, from_channel', k, HasEntry(k)')
      BY <3>2 DEF Ahead
    <3>3. ASSUME ~HasEntry(k), ~IsEcho(from_channel[1], k)
          PROVE  Ahead(wire, hand, from_channel', k, HasEntry(k)')
      <4>1. /\ \A c \in Channels :
                  /\ k \in wire[c] =>
                        (\E n \in DOMAIN from_channel : IsEcho(from_channel[n], k)) \/ IsEcho(hand[c], k)
                  /\ IsAnswer(hand[c], k) => \E n \in DOMAIN from_channel : IsEcho(from_channel[n], k)
            /\ \A n \in DOMAIN from_channel : IsAnswer(from_channel[n], k) =>
                  \E j \in DOMAIN from_channel : j < n /\ IsEcho(from_channel[j], k)
        BY <1>2, <2>5, <3>3 DEF Ahead
      <4>2. (\E n \in DOMAIN from_channel : IsEcho(from_channel[n], k))
              => \E n \in DOMAIN from_channel' : IsEcho(from_channel'[n], k)
        BY <2>1, <3>3
      <4>3. ASSUME NEW n \in DOMAIN from_channel', IsAnswer(from_channel'[n], k)
            PROVE  \E j \in DOMAIN from_channel' : j < n /\ IsEcho(from_channel'[j], k)
        <5>1. PICK j \in DOMAIN from_channel : j < n + 1 /\ IsEcho(from_channel[j], k)
          BY <2>1, <4>1, <4>3
        <5>2. j # 1 /\ j \in Nat /\ n \in Nat
          BY <2>1, <2>2, <3>3, <5>1
        <5>3. j - 1 \in DOMAIN from_channel' /\ IsEcho(from_channel'[j - 1], k)
          BY <2>1, <5>1, <5>2
        <5> QED BY <5>1, <5>2, <5>3
      <4> QED BY <4>1, <4>2, <4>3 DEF Ahead
    <3> QED BY <1>4, <2>1, <2>5, <3>1, <3>2, <3>3
  <2> QED BY <1>1, <2>3, <2>4, <2>5 DEF Awaited
<1> QED BY <1>3, <1>4, EntityAnswers
---------------------------------------------------------------------------
(* What is published without an id: the answer at the head of the queue,   *)
(* that no echo can be ahead of.                                           *)
LEMMA UnmatchedIs ==
    ASSUME TypeOK, AnswerUnmatched, AnswerInv, NEW k \in Seqs, k = Head(from_channel).seq, Counted(k)
    PROVE  k \in timed_out
<1>1. TakeFromChannel("Resp") /\ k \notin DOMAIN wait_receipt_map /\ ~EntityGone
  BY DEF AnswerUnmatched, TakeFromChannel, EntityGone
<1>2. /\ DOMAIN from_channel \subseteq Nat \ {0} /\ 1 \in DOMAIN from_channel
      /\ Head(from_channel) = from_channel[1] /\ from_channel[1] \in ChannelMsgs
      /\ from_channel[1].type = "Resp"
  BY <1>1, QueueMovesUp
<1>3. IsAnswer(from_channel[1], k)
  BY <1>2, NoneAssumption DEF IsAnswer
<1>4. Ahead(wire, hand, from_channel, k, HasEntry(k))
  BY <1>1 DEF AnswerInv, Awaited
<1>5. HasEntry(k)
  BY <1>2, <1>3, <1>4 DEF Ahead
<1> QED BY <1>1, <1>5 DEF HasEntry

LEMMA TimedOutGrows ==
    ASSUME [Next]_vars
    PROVE  timed_out \subseteq timed_out' /\ (UNCHANGED unmatched \/ AnswerUnmatched)
<1>1. CASE EntityStep
  <2>1. CASE TryChannel \/ NoChannelTook \/ ReSend \/ PopResend \/ ClearSendSmsCache
    BY <2>1 DEF TryChannel, NoChannelTook, ReSend, PopResend, ClearSendSmsCache, published
  <2>2. CASE AnswerLimited \/ AnswerMatched \/ AnswerUnmatched \/ CacheSent \/ PushBack
    BY <2>2 DEF AnswerLimited, AnswerMatched, AnswerUnmatched, CacheSent, PushBack, published
  <2>3. CASE PublishInbound \/ IgnoreOther \/ ChannelTerminated \/ TakeConnect \/ ChannelConnected
    BY <2>3 DEF PublishInbound, IgnoreOther, ChannelTerminated, TakeConnect, ChannelConnected,
                published, entityVars
  <2>4. CASE SendMessage \/ RequestState \/ Close \/ Stop
    BY <2>4 DEF SendMessage, RequestState, Close, Stop, published, entityVars
  <2> QED BY <1>1, <2>1, <2>2, <2>3, <2>4 DEF EntityStep
<1>2. CASE ManagerStep
  BY <1>2 DEF ManagerStep, Send, AskState, CloseEntity, ToEntity, entityVars
<1>3. CASE AnswersTimeOut \/ DaysTimeOut
  BY <1>3 DEF AnswersTimeOut, DaysTimeOut, AnswersAge, DaysPass, published
<1>4. CASE EntityIdle
  BY <1>4 DEF EntityIdle, entityVars
<1>5. CASE UNCHANGED vars
  BY <1>5 DEF vars, entityVars
<1> QED BY <1>1, <1>2, <1>3, <1>4, <1>5 DEF Next

LEMMA UnmatchedKept ==
    ASSUME TypeOK, TypeOK', AnswerInv, [Next]_vars
    PROVE  UnmatchedOnlyAfterTimeout'
<1>1. \A k \in unmatched : k \in timed_out \/ ~Counted(k)
  <2>1. UnmatchedOnlyAfterTimeout /\ unmatched \subseteq Seqs
    BY DEF AnswerInv, TypeOK, EntityTyped
  <2>2. \A k \in Seqs : k[3] \in Nat /\ (IF MsgType[k[1]] = "Submit" THEN MsgIds[k[1]] ELSE 1) \in Nat
    BY OutsAssumption DEF Seqs
  <2> QED BY <2>1, <2>2 DEF UnmatchedOnlyAfterTimeout, Counted
<1>2. \A k \in unmatched' : k \in timed_out' \/ ~Counted(k)
  <2>1. CASE UNCHANGED unmatched
    BY <1>1, <2>1, TimedOutGrows
  <2>2. CASE AnswerUnmatched
    <3> DEFINE new == Head(from_channel).seq
    <3>1. unmatched' = unmatched \cup {new} /\ unmatched' \subseteq Seqs
      BY <2>2 DEF AnswerUnmatched, TypeOK, EntityTyped
    <3>2. new \in Seqs
      BY <3>1
    <3>3. Counted(new) => new \in timed_out
      BY <2>2, <3>2, UnmatchedIs
    <3> HIDE DEF new
    <3> QED BY <1>1, <3>1, <3>3, TimedOutGrows
  <2> QED BY <2>1, <2>2, TimedOutGrows
<1>3. unmatched' \subseteq Seqs
  BY DEF TypeOK, EntityTyped
<1>4. \A k \in Seqs : ~Counted(k) => k[3] > (IF MsgType[k[1]] = "Submit" THEN MsgIds[k[1]] ELSE 1)
  <2>1. \A k \in Seqs : k[3] \in Nat /\ (IF MsgType[k[1]] = "Submit" THEN MsgIds[k[1]] ELSE 1) \in Nat
    BY OutsAssumption DEF Seqs
  <2> QED BY <2>1 DEF Counted
<1> QED BY <1>2, <1>3, <1>4 DEF UnmatchedOnlyAfterTimeout

LEMMA AwaitedKept ==
    ASSUME TypeOK, TypeOK', ItemsEncoded, AnswerInv, [Next]_vars, ~EntityGone', NEW k \in Seqs
    PROVE  Awaited(k)'
<1>1. ~EntityGone => Awaited(k)
  BY DEF AnswerInv
<1>2. ASSUME UNCHANGED <<pc, wire, hand, from_channel, tries, timed_out>>,
             DOMAIN wait_receipt_map' = DOMAIN wait_receipt_map
      PROVE  Awaited(k)'
  <2>1. ~EntityGone
    BY <1>2 DEF EntityGone
  <2>2. HasEntry(k)' = HasEntry(k) /\ Counted(k)' = Counted(k)
    BY <1>2 DEF HasEntry, Counted
  <2> QED BY <1>1, <1>2, <2>1, <2>2 DEF Awaited
<1>3. CASE ManagerStep
  <2>1. UNCHANGED <<pc, wire, hand, from_channel, tries, timed_out, wait_receipt_map>>
    BY <1>3 DEF ManagerStep, Send, AskState, CloseEntity, ToEntity, entityVars, channelVars
  <2> QED BY <1>2, <2>1
<1>4. CASE EntityStep /\ UNCHANGED channelVars
  <2>1. ~EntityGone
    BY <1>4, EntityTakes
  <2> QED BY <1>1, <1>4, <2>1, EntityKeepsAwaited
<1>5. CASE (AnswersTimeOut \/ DaysTimeOut) /\ UNCHANGED channelVars
  <2>1. /\ UNCHANGED <<pc, wire, hand, from_channel, tries, timed_out>>
        /\ DOMAIN wait_receipt_map' = DOMAIN wait_receipt_map
    BY <1>5 DEF AnswersTimeOut, DaysTimeOut, AnswersAge, DaysPass, baseVars, published, channelVars
  <2> QED BY <1>2, <2>1
<1>6. CASE \E c \in Channels : (Login(c) \/ ChannelStep(c) \/ PeerStep(c)) /\ EntityIdle
  <2>1. PICK c \in Channels : (Login(c) \/ ChannelStep(c) \/ PeerStep(c)) /\ EntityIdle
    BY <1>6
  <2>2. ChannelFlow(c) /\ ~EntityGone /\ UNCHANGED <<wait_receipt_map, timed_out>>
    BY <2>1, ChannelFlows DEF EntityIdle, entityVars, EntityGone
  <2> QED BY <1>1, <2>2, ChannelKeepsAwaited
<1>7. CASE UNCHANGED vars
  <2>1. UNCHANGED <<pc, wire, hand, from_channel, tries, timed_out, wait_receipt_map>>
    BY <1>7 DEF vars, baseVars, entityVars, channelVars
  <2> QED BY <1>2, <2>1
<1> QED BY <1>3, <1>4, <1>5, <1>6, <1>7 DEF Next

(* For any messages, channels and faults, an answer is published without   *)
(* the id of its message only if the entry timed out, or the code makes    *)
(* none for the frame: the echo a channel sends the entity is always taken *)
(* before the answer (channel.rs:249-254), through every bounce, resend    *)
(* and refusal, and an answer is taken once.                               *)
THEOREM AnswersFindTheirEntry == Spec => []UnmatchedOnlyAfterTimeout
<1>1. Init => AnswerInv
  <2> SUFFICES ASSUME Init PROVE AnswerInv
    OBVIOUS
  <2>1. /\ from_channel = <<>> /\ unmatched = {} /\ \A c \in Channels : wire[c] = {} /\ hand[c] = NONE
    BY DEF Init, InitEntity, InitChannel
  <2>2. \A k \in Seqs : Awaited(k)
    BY <2>1, NoneIsNothing DEF Awaited, Given, Pending, Once, Ahead
  <2> QED BY <2>1, <2>2 DEF AnswerInv, UnmatchedOnlyAfterTimeout
<1>2. TypeOK /\ TypeOK' /\ ItemsEncoded /\ AnswerInv /\ [Next]_vars => AnswerInv'
  <2> SUFFICES ASSUME TypeOK, TypeOK', ItemsEncoded, AnswerInv, [Next]_vars PROVE AnswerInv'
    OBVIOUS
  <2>1. UnmatchedOnlyAfterTimeout'
    BY UnmatchedKept
  <2>2. ~EntityGone' => \A k \in Seqs : Awaited(k)'
    BY AwaitedKept
  <2> QED BY <2>1, <2>2 DEF AnswerInv
<1>3. CustodyInv => ItemsEncoded
  BY DEF CustodyInv
<1>4. AnswerInv => UnmatchedOnlyAfterTimeout
  BY DEF AnswerInv
<1> QED BY <1>1, <1>2, <1>3, <1>4, TypeCorrect, CustodyInvHolds, PTL DEF Spec
---------------------------------------------------------------------------
(* Where the copies of a message are.                                      *)
AtManager == <<"manager", NONE>>
AtSending == <<"sending", NONE>>
AtResend == <<"resend", NONE>>
AtEntries == <<"entries", NONE>>
AtQueue == <<"queue", NONE>>
AtPriority(c) == <<"priority", c>>
AtCommon(c) == <<"common", c>>
AtHand(c) == <<"hand", c>>

ManagerSlots(q, m) == {i \in DOMAIN q : q[i].type = "send" /\ q[i].m = m}
SendingSlots(at, item, m) == {i \in {1} : at = "send" /\ item.m = m}
ResendSlots(items, m) == {item \in items : item.m = m}
EntrySlots(entries, m) == {item \in {entries[k].item : k \in DOMAIN entries} : item.m = m}
QueueSlots(q, m) == {i \in DOMAIN q : Travels(q[i], m)}
ItemSlots(q, m) == {i \in DOMAIN q : q[i].m = m}
HandSlots(msg, m) == {i \in {1} : Travels(msg, m)}

LEMMA SlotsAre ==
    ASSUME NEW m
    PROVE  /\ Slots(AtManager, m) = ManagerSlots(from_manager, m)
           /\ Slots(AtSending, m) = SendingSlots(pc, sending, m)
           /\ Slots(AtResend, m) = ResendSlots(to_resend, m)
           /\ Slots(AtEntries, m) = EntrySlots(wait_receipt_map, m)
           /\ Slots(AtQueue, m) = QueueSlots(from_channel, m)
           /\ \A c \in Channels : /\ Slots(AtPriority(c), m) = ItemSlots(priority[c], m)
                                  /\ Slots(AtCommon(c), m) = ItemSlots(common[c], m)
                                  /\ Slots(AtHand(c), m) = HandSlots(hand[c], m)
BY DEF Slots, AtManager, AtSending, AtResend, AtEntries, AtQueue, AtPriority, AtCommon, AtHand,
       ManagerSlots, SendingSlots, ResendSlots, EntrySlots, QueueSlots, ItemSlots, HandSlots

LEMMA SlotsThen ==
    ASSUME NEW m
    PROVE  /\ Slots(AtManager, m)' = ManagerSlots(from_manager', m)
           /\ Slots(AtSending, m)' = SendingSlots(pc', sending', m)
           /\ Slots(AtResend, m)' = ResendSlots(to_resend', m)
           /\ Slots(AtEntries, m)' = EntrySlots(wait_receipt_map', m)
           /\ Slots(AtQueue, m)' = QueueSlots(from_channel', m)
           /\ \A c \in Channels : /\ Slots(AtPriority(c), m)' = ItemSlots(priority'[c], m)
                                  /\ Slots(AtCommon(c), m)' = ItemSlots(common'[c], m)
                                  /\ Slots(AtHand(c), m)' = HandSlots(hand'[c], m)
BY DEF Slots, AtManager, AtSending, AtResend, AtEntries, AtQueue, AtPriority, AtCommon, AtHand,
       ManagerSlots, SendingSlots, ResendSlots, EntrySlots, QueueSlots, ItemSlots, HandSlots, Travels

LEMMA ContainersAre ==
    /\ {AtManager, AtSending, AtResend, AtEntries, AtQueue} \subseteq Containers
    /\ \A c \in Channels : {AtPriority(c), AtCommon(c), AtHand(c)} \subseteq Containers
    /\ \A x \in Containers :
          \/ x \in {AtManager, AtSending, AtResend, AtEntries, AtQueue}
          \/ \E c \in Channels : x \in {AtPriority(c), AtCommon(c), AtHand(c)}
BY DEF Containers, AtManager, AtSending, AtResend, AtEntries, AtQueue, AtPriority, AtCommon, AtHand

(* No container is another. *)
LEMMA ContainersDiffer ==
    /\ AtManager \notin {AtSending, AtResend, AtEntries, AtQueue}
    /\ AtSending \notin {AtResend, AtEntries, AtQueue}
    /\ AtResend \notin {AtEntries, AtQueue} /\ AtEntries # AtQueue
    /\ \A c \in Channels :
          {AtPriority(c), AtCommon(c), AtHand(c)} \cap {AtManager, AtSending, AtResend, AtEntries, AtQueue} = {}
    /\ \A c, d \in Channels :
          /\ AtPriority(c) \notin {AtCommon(d), AtHand(d)} /\ AtCommon(c) # AtHand(d)
          /\ c # d => /\ AtPriority(c) # AtPriority(d) /\ AtCommon(c) # AtCommon(d)
                      /\ AtHand(c) # AtHand(d)
BY DEF AtManager, AtSending, AtResend, AtEntries, AtQueue, AtPriority, AtCommon, AtHand

Lone(S) == \A s, t \in S : s = t
(* What T has at most as many of as S. *)
Shrinks(S, T) == (T # {} => S # {}) /\ (Lone(S) => Lone(T))

LEMMA ShrinksTo ==
    /\ \A S : Shrinks(S, S) /\ Shrinks(S, {})
    /\ \A S : \A T : T \subseteq S => Shrinks(S, T)
BY DEF Shrinks, Lone

(* The head of a queue goes. *)
LEMMA TailSlots ==
    ASSUME NEW m, NEW S, NEW q \in Seq(S), q # <<>>
    PROVE  /\ Shrinks(ManagerSlots(q, m), ManagerSlots(Tail(q), m))
           /\ Head(q).type = "send" /\ Head(q).m = m =>
                 /\ ManagerSlots(q, m) # {}
                 /\ Lone(ManagerSlots(q, m)) => ManagerSlots(Tail(q), m) = {}
           /\ Shrinks(QueueSlots(q, m), QueueSlots(Tail(q), m))
           /\ Travels(Head(q), m) =>
                 /\ QueueSlots(q, m) # {}
                 /\ Lone(QueueSlots(q, m)) => QueueSlots(Tail(q), m) = {}
           /\ Shrinks(ItemSlots(q, m), ItemSlots(Tail(q), m))
           /\ Head(q).m = m =>
                 /\ ItemSlots(q, m) # {}
                 /\ Lone(ItemSlots(q, m)) => ItemSlots(Tail(q), m) = {}
<1>1. /\ DOMAIN q \subseteq Nat /\ 1 \in DOMAIN q /\ Head(q) = q[1] /\ DOMAIN Tail(q) \subseteq Nat \ {0}
      /\ \A i \in DOMAIN Tail(q) : i + 1 \in DOMAIN q /\ Tail(q)[i] = q[i + 1] /\ i + 1 # 1
  OBVIOUS
<1>2. \A i, j \in DOMAIN Tail(q) : i + 1 = j + 1 => i = j
  BY <1>1
<1>3. /\ Shrinks(ManagerSlots(q, m), ManagerSlots(Tail(q), m))
      /\ Head(q).type = "send" /\ Head(q).m = m =>
            /\ ManagerSlots(q, m) # {}
            /\ Lone(ManagerSlots(q, m)) => ManagerSlots(Tail(q), m) = {}
  BY ONLY <1>1, <1>2 DEF Shrinks, Lone, ManagerSlots
<1>4. /\ Shrinks(QueueSlots(q, m), QueueSlots(Tail(q), m))
      /\ Travels(Head(q), m) =>
            /\ QueueSlots(q, m) # {}
            /\ Lone(QueueSlots(q, m)) => QueueSlots(Tail(q), m) = {}
  BY ONLY <1>1, <1>2 DEF Shrinks, Lone, QueueSlots
<1>5. /\ Shrinks(ItemSlots(q, m), ItemSlots(Tail(q), m))
      /\ Head(q).m = m =>
            /\ ItemSlots(q, m) # {}
            /\ Lone(ItemSlots(q, m)) => ItemSlots(Tail(q), m) = {}
  BY ONLY <1>1, <1>2 DEF Shrinks, Lone, ItemSlots
<1> QED BY <1>3, <1>4, <1>5

(* A queue gets one more. *)
LEMMA AppendSlots ==
    ASSUME NEW m, NEW S, NEW q \in Seq(S), NEW x \in S
    PROVE  /\ ~(x.type = "send" /\ x.m = m) =>
                 ManagerSlots(Append(q, x), m) = ManagerSlots(q, m)
           /\ ManagerSlots(q, m) = {} => Lone(ManagerSlots(Append(q, x), m))
           /\ ~Travels(x, m) => QueueSlots(Append(q, x), m) = QueueSlots(q, m)
           /\ QueueSlots(q, m) = {} => Lone(QueueSlots(Append(q, x), m))
           /\ x.m # m => ItemSlots(Append(q, x), m) = ItemSlots(q, m)
           /\ ItemSlots(q, m) = {} => Lone(ItemSlots(Append(q, x), m))
<1> DEFINE more == Append(q, x)
           n == Len(q) + 1
<1>1. /\ DOMAIN more = DOMAIN q \cup {n} /\ more[n] = x /\ n \notin DOMAIN q
      /\ \A i \in DOMAIN q : more[i] = q[i]
  OBVIOUS
<1> HIDE DEF more, n
<1>2. /\ ~(x.type = "send" /\ x.m = m) => ManagerSlots(more, m) = ManagerSlots(q, m)
      /\ ManagerSlots(q, m) = {} => Lone(ManagerSlots(more, m))
  BY ONLY <1>1 DEF Lone, ManagerSlots
<1>3. /\ ~Travels(x, m) => QueueSlots(more, m) = QueueSlots(q, m)
      /\ QueueSlots(q, m) = {} => Lone(QueueSlots(more, m))
  BY ONLY <1>1 DEF Lone, QueueSlots
<1>4. /\ x.m # m => ItemSlots(more, m) = ItemSlots(q, m)
      /\ ItemSlots(q, m) = {} => Lone(ItemSlots(more, m))
  BY ONLY <1>1 DEF Lone, ItemSlots
<1> QED BY <1>2, <1>3, <1>4 DEF more

---------------------------------------------------------------------------
(* How a step leaves each of them. *)
CalmManager(m) == Shrinks(ManagerSlots(from_manager, m), ManagerSlots(from_manager', m))
CalmSending(m) == Shrinks(SendingSlots(pc, sending, m), SendingSlots(pc', sending', m))
CalmResend(m) == Shrinks(ResendSlots(to_resend, m), ResendSlots(to_resend', m))
CalmEntries(m) == Shrinks(EntrySlots(wait_receipt_map, m), EntrySlots(wait_receipt_map', m))
CalmQueue(m) == Shrinks(QueueSlots(from_channel, m), QueueSlots(from_channel', m))
CalmPriority(c, m) == Shrinks(ItemSlots(priority[c], m), ItemSlots(priority'[c], m))
CalmCommon(c, m) == Shrinks(ItemSlots(common[c], m), ItemSlots(common'[c], m))
CalmHand(c, m) == Shrinks(HandSlots(hand[c], m), HandSlots(hand'[c], m))

CalmBut(D, m) == \A x \in Containers : x \notin D => Shrinks(Slots(x, m), Slots(x, m)')
(* m stays where it is, or some copies of it go.                           *)
Rests(m) == CalmBut({}, m)
(* m goes from one container to another.                                   *)
Goes(m, src, dst) ==
    /\ src \in Containers /\ dst \in Containers /\ src # dst
    /\ CalmBut({dst}, m)
    /\ Slots(src, m) # {} /\ (Lone(Slots(src, m)) => Slots(src, m)' = {})
    /\ Slots(dst, m) = {} => Lone(Slots(dst, m)')
MovesOn(m) == Rests(m) \/ \E src, dst : Goes(m, src, dst)

Absent(m) == \A x \in Containers : Slots(x, m) = {}
Single(m) == \A x \in Containers : \A s \in Slots(x, m) :
                 \A y \in Containers : \A t \in Slots(y, m) : x = y /\ s = t

LEMMA RestsSingle ==
    ASSUME NEW m, Rests(m)
    PROVE  (Absent(m) => Absent(m)') /\ (Single(m) => Single(m)')
<1>1. \A x \in Containers : Shrinks(Slots(x, m), Slots(x, m)')
  BY DEF Rests, CalmBut
<1>2. Absent(m) => Absent(m)'
  BY <1>1 DEF Absent, Shrinks
<1>3. ASSUME Single(m), NEW x \in Containers, NEW s \in Slots(x, m)',
             NEW y \in Containers, NEW t \in Slots(y, m)'
      PROVE  x = y /\ s = t
  <2>1. x = y /\ Lone(Slots(x, m))
    BY <1>1, <1>3 DEF Single, Shrinks, Lone
  <2>2. Lone(Slots(x, m)')
    BY <1>1, <2>1 DEF Shrinks
  <2> QED BY <1>3, <2>1, <2>2 DEF Lone
<1> QED BY <1>2, <1>3 DEF Single

LEMMA GoesSingle ==
    ASSUME NEW m, NEW src, NEW dst, Goes(m, src, dst)
    PROVE  ~Absent(m) /\ (Single(m) => Single(m)')
<1>1. /\ src \in Containers /\ dst \in Containers /\ src # dst
      /\ \A x \in Containers : x # dst => Shrinks(Slots(x, m), Slots(x, m)')
      /\ Slots(src, m) # {} /\ (Lone(Slots(src, m)) => Slots(src, m)' = {})
      /\ Slots(dst, m) = {} => Lone(Slots(dst, m)')
  BY DEF Goes, CalmBut
<1>2. ~Absent(m)
  BY <1>1 DEF Absent
<1>3. ASSUME Single(m)
      PROVE  Single(m)'
  <2>1. /\ \A x \in Containers : x # src => Slots(x, m) = {}
        /\ Lone(Slots(src, m))
    BY <1>1, <1>3 DEF Single, Lone
  <2>2. \A x \in Containers : x # dst => Slots(x, m)' = {}
    BY <1>1, <2>1 DEF Shrinks
  <2>3. Lone(Slots(dst, m)')
    BY <1>1, <2>1
  <2> QED BY <2>2, <2>3 DEF Single, Lone
<1> QED BY <1>2, <1>3

LEMMA CalmIf ==
    ASSUME NEW m, NEW D,
           CalmManager(m) \/ AtManager \in D, CalmSending(m) \/ AtSending \in D,
           CalmResend(m) \/ AtResend \in D, CalmEntries(m) \/ AtEntries \in D,
           CalmQueue(m) \/ AtQueue \in D,
           \A c \in Channels : /\ CalmPriority(c, m) \/ AtPriority(c) \in D
                               /\ CalmCommon(c, m) \/ AtCommon(c) \in D
                               /\ CalmHand(c, m) \/ AtHand(c) \in D
    PROVE  CalmBut(D, m)
<1> SUFFICES ASSUME NEW x \in Containers, x \notin D
             PROVE  Shrinks(Slots(x, m), Slots(x, m)')
  BY DEF CalmBut
<1>1. CASE x \in {AtManager, AtSending, AtResend, AtEntries, AtQueue}
  BY <1>1, SlotsAre, SlotsThen DEF CalmManager, CalmSending, CalmResend, CalmEntries, CalmQueue
<1>2. ASSUME NEW c \in Channels, x \in {AtPriority(c), AtCommon(c), AtHand(c)}
      PROVE  Shrinks(Slots(x, m), Slots(x, m)')
  BY <1>2, SlotsAre, SlotsThen DEF CalmPriority, CalmCommon, CalmHand
<1> QED BY <1>1, <1>2, ContainersAre

(* What does not change, and what only loses something. *)
LEMMA Calms ==
    ASSUME NEW m
    PROVE  /\ UNCHANGED from_manager => CalmManager(m)
           /\ UNCHANGED <<pc, sending>> => CalmSending(m)
           /\ pc' # "send" => CalmSending(m)
           /\ to_resend' \subseteq to_resend => CalmResend(m)
           /\ UNCHANGED wait_receipt_map => CalmEntries(m)
           /\ UNCHANGED from_channel => CalmQueue(m)
           /\ from_channel' = <<>> => CalmQueue(m)
           /\ from_manager' = <<>> => CalmManager(m)
           /\ \A c \in Channels : /\ priority'[c] = priority[c] => CalmPriority(c, m)
                                  /\ priority'[c] = <<>> => CalmPriority(c, m)
                                  /\ common'[c] = common[c] => CalmCommon(c, m)
                                  /\ common'[c] = <<>> => CalmCommon(c, m)
                                  /\ hand'[c] = hand[c] => CalmHand(c, m)
                                  /\ ~Travels(hand'[c], m) => CalmHand(c, m)
<1>1. /\ pc' # "send" => SendingSlots(pc', sending', m) = {}
      /\ to_resend' \subseteq to_resend => ResendSlots(to_resend', m) \subseteq ResendSlots(to_resend, m)
      /\ QueueSlots(<<>>, m) = {} /\ ManagerSlots(<<>>, m) = {} /\ ItemSlots(<<>>, m) = {}
      /\ \A c \in Channels : ~Travels(hand'[c], m) => HandSlots(hand'[c], m) = {}
  BY DEF SendingSlots, ResendSlots, QueueSlots, ManagerSlots, ItemSlots, HandSlots
<1> QED BY <1>1, ShrinksTo DEF CalmManager, CalmSending, CalmResend, CalmEntries, CalmQueue,
                               CalmPriority, CalmCommon, CalmHand

(* Entries: some go, or all keep their message.                            *)
LEMMA EntriesCalm ==
    ASSUME NEW m, DOMAIN wait_receipt_map' \subseteq DOMAIN wait_receipt_map,
           \A k \in DOMAIN wait_receipt_map' : wait_receipt_map'[k].item = wait_receipt_map[k].item
    PROVE  CalmEntries(m)
<1>1. EntrySlots(wait_receipt_map', m) \subseteq EntrySlots(wait_receipt_map, m)
  BY DEF EntrySlots
<1> QED BY <1>1, ShrinksTo DEF CalmEntries

LEMMA QueueCalm ==
    ASSUME TypeOK, NEW m, NEW type, TakeFromChannel(type)
    PROVE  /\ CalmQueue(m) /\ pc = "select"
           /\ Travels(Head(from_channel), m) =>
                 /\ QueueSlots(from_channel, m) # {}
                 /\ Lone(QueueSlots(from_channel, m)) => QueueSlots(from_channel', m) = {}
<1>1. from_channel \in Seq(ChannelMsgs) /\ from_channel # <<>> /\ from_channel' = Tail(from_channel)
      /\ pc = "select"
  BY DEF TypeOK, QueuesTyped, TakeFromChannel
<1> QED BY <1>1, TailSlots DEF CalmQueue

LEMMA ManagerCalm ==
    ASSUME TypeOK, NEW m, NEW type, TakeFromManager(type)
    PROVE  /\ CalmManager(m) /\ pc = "select"
           /\ Head(from_manager).type = "send" /\ Head(from_manager).m = m =>
                 /\ ManagerSlots(from_manager, m) # {}
                 /\ Lone(ManagerSlots(from_manager, m)) => ManagerSlots(from_manager', m) = {}
<1>1. from_manager \in Seq(ManagerMsgs) /\ from_manager # <<>> /\ from_manager' = Tail(from_manager)
      /\ pc = "select"
  BY DEF TypeOK, QueuesTyped, TakeFromManager
<1> QED BY <1>1, TailSlots DEF CalmManager

(* Most of what the entity does moves no message.                          *)
LEMMA EntityRests ==
    ASSUME TypeOK, NEW m \in Outs, UNCHANGED hand,
           \/ NoChannelTook \/ ClearSendSmsCache \/ AnswerMatched \/ AnswerUnmatched
           \/ PublishInbound \/ IgnoreOther \/ ChannelTerminated \/ TakeConnect
           \/ ChannelConnected \/ RequestState \/ Close \/ Stop
    PROVE  Rests(m)
<1>0. \A c \in Channels : CalmHand(c, m)
  BY Calms
<1>1. ASSUME UNCHANGED <<priority, common>>, to_resend' = to_resend, CalmSending(m),
             CalmManager(m), CalmQueue(m), CalmEntries(m)
      PROVE  Rests(m)
  <2>1. CalmResend(m) /\ \A c \in Channels : CalmPriority(c, m) /\ CalmCommon(c, m)
    BY <1>1, Calms
  <2> QED BY <1>0, <1>1, <2>1, CalmIf DEF Rests
<1>2. CASE NoChannelTook
  <2>1. pc' # "send"
    BY <1>2 DEF NoChannelTook, Return
  <2>2. UNCHANGED <<priority, common, to_resend, from_manager, from_channel, wait_receipt_map>>
    BY <1>2 DEF NoChannelTook, channelQueues
  <2> QED BY <1>1, <2>1, <2>2, Calms
<1>3. CASE ClearSendSmsCache
  <2>1. CalmEntries(m)
    BY <1>3, EntriesCalm DEF ClearSendSmsCache, Restrict
  <2>2. UNCHANGED <<priority, common, to_resend, from_manager, from_channel, pc, sending>>
    BY <1>3 DEF ClearSendSmsCache, baseVars
  <2> QED BY <1>1, <2>1, <2>2, Calms
<1>4. CASE AnswerMatched
  <2>1. CalmEntries(m)
    BY <1>4, EntriesCalm DEF AnswerMatched, Forget, Restrict
  <2>2. CalmQueue(m)
    BY <1>4, QueueCalm DEF AnswerMatched
  <2>3. UNCHANGED <<priority, common, to_resend, from_manager, pc, sending>>
    BY <1>4 DEF AnswerMatched, channelQueues
  <2> QED BY <1>1, <2>1, <2>2, <2>3, Calms
<1>5. CASE AnswerUnmatched \/ PublishInbound \/ IgnoreOther \/ ChannelTerminated \/ TakeConnect
  <2>1. CalmQueue(m)
    BY <1>5, QueueCalm DEF AnswerUnmatched, PublishInbound, IgnoreOther, ChannelTerminated, TakeConnect
  <2>2. UNCHANGED <<priority, common, to_resend, from_manager, wait_receipt_map>>
        /\ (UNCHANGED <<pc, sending>> \/ pc' # "send")
    BY <1>5 DEF AnswerUnmatched, PublishInbound, IgnoreOther, ChannelTerminated, TakeConnect,
                channelQueues, entityVars
  <2> QED BY <1>1, <2>1, <2>2, Calms
<1>6. CASE ChannelConnected
  <2>1. UNCHANGED <<priority, common, to_resend, from_manager, from_channel, wait_receipt_map>>
        /\ pc' # "send"
    BY <1>6 DEF ChannelConnected, channelQueues
  <2> QED BY <1>1, <2>1, Calms
<1>7. CASE RequestState
  <2>1. CalmManager(m)
    BY <1>7, ManagerCalm DEF RequestState
  <2>2. UNCHANGED <<priority, common, to_resend, from_channel, wait_receipt_map, pc, sending>>
    BY <1>7 DEF RequestState, channelQueues
  <2> QED BY <1>1, <2>1, <2>2, Calms
<1>8. CASE Close
  <2>1. /\ CalmManager(m) /\ pc' # "send"
        /\ UNCHANGED <<common, to_resend, from_channel, wait_receipt_map>>
    BY <1>8, ManagerCalm DEF Close, entityVars
  <2>2. ASSUME NEW c \in Channels
        PROVE  CalmPriority(c, m)
    <3>1. priority[c] \in Seq(Items) /\ Terminate \in Items /\ Terminate.m # m
      BY ItemTypes, OutsAssumption DEF TypeOK, QueuesTyped, Terminate, NewItem
    <3>2. priority'[c] = priority[c] \/ priority'[c] = Append(priority[c], Terminate)
      BY <1>8 DEF Close
    <3>3. ItemSlots(Append(priority[c], Terminate), m) = ItemSlots(priority[c], m)
      BY <3>1, AppendSlots
    <3> QED BY <3>2, <3>3, ShrinksTo DEF CalmPriority
  <2>3. CalmSending(m) /\ CalmResend(m) /\ CalmQueue(m) /\ CalmEntries(m)
        /\ \A c \in Channels : CalmCommon(c, m)
    BY <2>1, Calms
  <2> QED BY <1>0, <2>1, <2>2, <2>3, CalmIf DEF Rests
<1>9. CASE Stop
  <2>1. CalmEntries(m)
    BY <1>9, EntriesCalm DEF Stop
  <2>2. UNCHANGED <<priority, common, to_resend>> /\ from_manager' = <<>> /\ from_channel' = <<>>
        /\ pc' # "send"
    BY <1>9 DEF Stop, channelQueues
  <2> QED BY <1>1, <2>1, <2>2, Calms
<1> QED BY <1>2, <1>3, <1>4, <1>5, <1>6, <1>7, <1>8, <1>9

LEMMA StartSends ==
    ASSUME NEW m, NEW item, StartSend(item)
    PROVE  (item.m # m => CalmSending(m)) /\ Lone(Slots(AtSending, m)')
<1>1. item.m # m => SendingSlots(pc', sending', m) = {}
  BY DEF StartSend, SendingSlots
<1>2. Lone(SendingSlots(pc', sending', m))
  BY DEF SendingSlots, Lone
<1> QED BY <1>1, <1>2, ShrinksTo, SlotsThen DEF CalmSending

(* send_to_channels begins with a message that was elsewhere.              *)
LEMMA GoesToSending ==
    ASSUME NEW m, NEW item, StartSend(item), NEW src \in Containers, src # AtSending,
           Slots(src, m) # {}, Lone(Slots(src, m)) => Slots(src, m)' = {},
           CalmBut({AtSending}, m)
    PROVE  MovesOn(m)
<1>1. Lone(Slots(AtSending, m)')
  BY StartSends
<1>2. Goes(m, src, AtSending)
  BY <1>1, ContainersAre DEF Goes
<1> QED BY <1>2 DEF MovesOn

LEMMA SendMessageMoves ==
    ASSUME TypeOK, NEW m \in Outs, UNCHANGED hand, SendMessage
    PROVE  MovesOn(m)
<1> DEFINE item == NewItem(Head(from_manager).m)
<1>1. /\ TakeFromManager("send") /\ StartSend(item)
      /\ UNCHANGED <<from_channel, priority, common, to_resend, wait_receipt_map>>
  BY DEF SendMessage, channelQueues
<1>2. /\ CalmManager(m) /\ CalmResend(m) /\ CalmEntries(m) /\ CalmQueue(m)
      /\ \A c \in Channels : CalmPriority(c, m) /\ CalmCommon(c, m) /\ CalmHand(c, m)
  BY <1>1, Calms, ManagerCalm
<1>3. CASE item.m = m
  <2>1. Head(from_manager).type = "send" /\ Head(from_manager).m = m
    BY <1>1, <1>3 DEF NewItem, TakeFromManager
  <2>2. /\ Slots(AtManager, m) # {}
        /\ Lone(Slots(AtManager, m)) => Slots(AtManager, m)' = {}
    BY <1>1, <2>1, ManagerCalm, SlotsAre, SlotsThen
  <2>3. CalmBut({AtSending}, m)
    BY <1>2, CalmIf
  <2> QED BY <1>1, <2>2, <2>3, GoesToSending, ContainersAre, ContainersDiffer
<1>4. CASE item.m # m
  <2>1. CalmSending(m)
    BY <1>1, <1>4, StartSends
  <2> QED BY <1>2, <2>1, CalmIf DEF MovesOn, Rests
<1> QED BY <1>3, <1>4

LEMMA PopResendMoves ==
    ASSUME TypeOK, NEW m \in Outs, UNCHANGED hand, PopResend
    PROVE  MovesOn(m)
<1>1. PICK item \in to_resend : to_resend' = to_resend \ {item} /\ StartSend(item)
  BY DEF PopResend
<1>2. UNCHANGED <<from_manager, from_channel, priority, common, wait_receipt_map>>
  BY DEF PopResend, channelQueues
<1>3. /\ CalmManager(m) /\ CalmResend(m) /\ CalmEntries(m) /\ CalmQueue(m)
      /\ \A c \in Channels : CalmPriority(c, m) /\ CalmCommon(c, m) /\ CalmHand(c, m)
  BY <1>1, <1>2, Calms
<1>4. CASE item.m = m
  <2>1. /\ ResendSlots(to_resend, m) # {}
        /\ Lone(ResendSlots(to_resend, m)) => ResendSlots(to_resend', m) = {}
    BY <1>1, <1>4 DEF ResendSlots, Lone
  <2>2. /\ Slots(AtResend, m) # {}
        /\ Lone(Slots(AtResend, m)) => Slots(AtResend, m)' = {}
    BY <2>1, SlotsAre, SlotsThen
  <2>3. CalmBut({AtSending}, m)
    BY <1>3, CalmIf
  <2> QED BY <1>1, <2>2, <2>3, GoesToSending, ContainersAre, ContainersDiffer
<1>5. CASE item.m # m
  <2>1. CalmSending(m)
    BY <1>1, <1>5, StartSends
  <2> QED BY <1>3, <2>1, CalmIf DEF MovesOn, Rests
<1> QED BY <1>4, <1>5

LEMMA PushBackMoves ==
    ASSUME TypeOK, NEW m \in Outs, UNCHANGED hand, PushBack
    PROVE  MovesOn(m)
<1>1. /\ TakeFromChannel("Out") /\ StartSend(Head(from_channel).item)
      /\ UNCHANGED <<from_manager, priority, common, to_resend, wait_receipt_map>>
  BY DEF PushBack, channelQueues
<1>2. /\ CalmManager(m) /\ CalmResend(m) /\ CalmEntries(m) /\ CalmQueue(m)
      /\ \A c \in Channels : CalmPriority(c, m) /\ CalmCommon(c, m) /\ CalmHand(c, m)
  BY <1>1, Calms, QueueCalm
<1>3. CASE Head(from_channel).item.m = m
  <2>1. Head(from_channel) \in ChannelMsgs /\ Head(from_channel).type = "Out"
    BY <1>1, QueueElements
  <2>2. Travels(Head(from_channel), m)
    BY <1>3, <2>1, NoneAssumption DEF Travels
  <2>3. /\ Slots(AtQueue, m) # {}
        /\ Lone(Slots(AtQueue, m)) => Slots(AtQueue, m)' = {}
    BY <1>1, <2>2, QueueCalm, SlotsAre, SlotsThen
  <2>4. CalmBut({AtSending}, m)
    BY <1>2, CalmIf
  <2> QED BY <1>1, <2>3, <2>4, GoesToSending, ContainersAre, ContainersDiffer
<1>4. CASE Head(from_channel).item.m # m
  <2>1. CalmSending(m)
    BY <1>1, <1>4, StartSends
  <2> QED BY <1>2, <2>1, CalmIf DEF MovesOn, Rests
<1> QED BY <1>3, <1>4

(* With one frame, a number is its message's only entry.                   *)
LEMMA OneEntry ==
    ASSUME TypeOK, ItemsEncoded, EntriesKeyed, NEW k \in DOMAIN wait_receipt_map,
           NEW j \in DOMAIN wait_receipt_map, Frames[wait_receipt_map[k].item.m] = 1,
           wait_receipt_map[j].item = wait_receipt_map[k].item
    PROVE  j = k
<1> DEFINE item == wait_receipt_map[k].item
<1>1. PICK t : /\ item.seqs = [i \in 1..Frames[item.m] |-> <<item.m, t, i>>]
               /\ k = <<item.m, t, wait_receipt_map[k].part>>
               /\ wait_receipt_map[k].part \in 1..Frames[item.m]
  BY KeyIs
<1>2. PICK u : /\ wait_receipt_map[j].item.seqs =
                     [i \in 1..Frames[wait_receipt_map[j].item.m] |-> <<wait_receipt_map[j].item.m, u, i>>]
               /\ j = <<wait_receipt_map[j].item.m, u, wait_receipt_map[j].part>>
               /\ wait_receipt_map[j].part \in 1..Frames[wait_receipt_map[j].item.m]
  BY KeyIs
<1> DEFINE other == wait_receipt_map[j].item
<1>6. other = item
  OBVIOUS
<1> HIDE DEF item, other
<1>7. /\ item.seqs = [i \in 1..Frames[item.m] |-> <<item.m, u, i>>]
      /\ j = <<item.m, u, wait_receipt_map[j].part>>
      /\ wait_receipt_map[j].part \in 1..Frames[item.m]
  <2>1. /\ other.seqs = [i \in 1..Frames[other.m] |-> <<other.m, u, i>>]
        /\ j = <<other.m, u, wait_receipt_map[j].part>>
        /\ wait_receipt_map[j].part \in 1..Frames[other.m]
    BY <1>2 DEF other
  <2> QED BY <1>6, <2>1
<1>3. Frames[item.m] = 1
  BY DEF item
<1>4. wait_receipt_map[k].part = 1 /\ wait_receipt_map[j].part = 1
  BY <1>1, <1>7, <1>3
<1>5. item.seqs[1] = <<item.m, t, 1>> /\ item.seqs[1] = <<item.m, u, 1>>
  BY <1>1, <1>7, <1>3
<1> QED BY <1>1, <1>7, <1>4, <1>5

LEMMA AnswerLimitedMoves ==
    ASSUME TypeOK, ItemsEncoded, EntriesKeyed, NEW m \in Outs, Absent(m) \/ Frames[m] = 1,
           UNCHANGED hand, AnswerLimited
    PROVE  MovesOn(m)
<1> DEFINE k == Head(from_channel).seq
           item == wait_receipt_map[k].item
<1>1. /\ TakeFromChannel("Resp") /\ StartSend(item) /\ k \in DOMAIN wait_receipt_map
      /\ DOMAIN wait_receipt_map' = DOMAIN wait_receipt_map \ {k}
      /\ \A j \in DOMAIN wait_receipt_map' : wait_receipt_map'[j] = wait_receipt_map[j]
      /\ UNCHANGED <<from_manager, priority, common, to_resend>>
  BY DEF AnswerLimited, channelQueues, Forget, Restrict
<1>2. /\ CalmManager(m) /\ CalmResend(m) /\ CalmQueue(m)
      /\ \A c \in Channels : CalmPriority(c, m) /\ CalmCommon(c, m) /\ CalmHand(c, m)
  BY <1>1, Calms, QueueCalm
<1>3. CalmEntries(m)
  <2> HIDE DEF k
  <2> QED BY <1>1, EntriesCalm
<1>4. CASE item.m = m
  <2>1. item \in EntrySlots(wait_receipt_map, m)
    BY <1>1, <1>4 DEF EntrySlots
  <2>2. ~Absent(m)
    BY <2>1, SlotsAre, ContainersAre DEF Absent
  <2>3. \A j \in DOMAIN wait_receipt_map : wait_receipt_map[j].item = item => j = k
    BY <1>1, <1>4, <2>2, OneEntry
  <2>4. Lone(EntrySlots(wait_receipt_map, m)) => EntrySlots(wait_receipt_map', m) = {}
    <3> HIDE DEF item, k
    <3> QED BY <1>1, <2>1, <2>3 DEF Lone, EntrySlots
  <2>5. /\ Slots(AtEntries, m) # {}
        /\ Lone(Slots(AtEntries, m)) => Slots(AtEntries, m)' = {}
    BY <2>1, <2>4, SlotsAre, SlotsThen
  <2>6. CalmBut({AtSending}, m)
    BY <1>2, <1>3, CalmIf
  <2> HIDE DEF item
  <2> QED BY <1>1, <2>5, <2>6, GoesToSending, ContainersAre, ContainersDiffer
<1>5. CASE item.m # m
  <2> HIDE DEF item
  <2>1. CalmSending(m)
    BY <1>1, <1>5, StartSends
  <2> QED BY <1>2, <1>3, <2>1, CalmIf DEF MovesOn, Rests
<1> QED BY <1>4, <1>5

LEMMA CacheSentMoves ==
    ASSUME TypeOK, NEW m \in Outs, UNCHANGED hand, CacheSent
    PROVE  MovesOn(m)
<1> DEFINE item == Head(from_channel).item
<1>1. /\ TakeFromChannel("Out") /\ Insert(item)
      /\ UNCHANGED <<from_manager, priority, common, to_resend, pc, sending>>
  BY DEF CacheSent, channelQueues
<1>2. /\ CalmManager(m) /\ CalmResend(m) /\ CalmQueue(m) /\ CalmSending(m)
      /\ \A c \in Channels : CalmPriority(c, m) /\ CalmCommon(c, m) /\ CalmHand(c, m)
  BY <1>1, Calms, QueueCalm
<1>3. \A k \in DOMAIN wait_receipt_map' :
         \/ wait_receipt_map'[k].item = item
         \/ k \in DOMAIN wait_receipt_map /\ wait_receipt_map'[k] = wait_receipt_map[k]
  <2> HIDE DEF item
  <2> QED BY <1>1 DEF Insert
<1>4. EntrySlots(wait_receipt_map', m) \subseteq EntrySlots(wait_receipt_map, m) \cup {item}
  <2> HIDE DEF item
  <2> QED BY <1>3 DEF EntrySlots
<1>5. CASE item.m = m
  <2>1. Head(from_channel) \in ChannelMsgs /\ Head(from_channel).type = "Out"
    BY <1>1, QueueElements
  <2>2. Travels(Head(from_channel), m)
    BY <1>5, <2>1, NoneAssumption DEF Travels
  <2>3. /\ Slots(AtQueue, m) # {}
        /\ Lone(Slots(AtQueue, m)) => Slots(AtQueue, m)' = {}
    BY <1>1, <2>2, QueueCalm, SlotsAre, SlotsThen
  <2> HIDE DEF item
  <2>4. CalmBut({AtEntries}, m)
    BY <1>2, CalmIf
  <2>5. Slots(AtEntries, m) = {} => Lone(Slots(AtEntries, m)')
    BY <1>4, SlotsAre, SlotsThen DEF Lone
  <2>6. Goes(m, AtQueue, AtEntries)
    BY <2>3, <2>4, <2>5, ContainersAre, ContainersDiffer DEF Goes
  <2> QED BY <2>6 DEF MovesOn
<1>6. CASE item.m # m
  <2> HIDE DEF item
  <2>1. EntrySlots(wait_receipt_map', m) \subseteq EntrySlots(wait_receipt_map, m)
    BY <1>4, <1>6 DEF EntrySlots
  <2>2. CalmEntries(m)
    BY <2>1, ShrinksTo DEF CalmEntries
  <2> QED BY <1>2, <2>2, CalmIf DEF MovesOn, Rests
<1> QED BY <1>5, <1>6

(* What is overdue is of other messages, so no copy of m is made.          *)
LEMMA ReSendMoves ==
    ASSUME TypeOK, KeysNamed, NEW m \in Outs, Absent(m) \/ \A k \in timed_out' : k[1] # m,
           UNCHANGED hand, ReSend
    PROVE  MovesOn(m)
<1>1. /\ to_resend' = {wait_receipt_map[k].item : k \in Overdue} /\ pc' # "send"
      /\ Overdue \subseteq DOMAIN wait_receipt_map /\ timed_out' = timed_out \cup Overdue
      /\ DOMAIN wait_receipt_map' \subseteq DOMAIN wait_receipt_map
      /\ \A k \in DOMAIN wait_receipt_map' : wait_receipt_map'[k] = wait_receipt_map[k]
      /\ UNCHANGED <<from_manager, from_channel, priority, common>>
  BY DEF ReSend, channelQueues, Restrict, Overdue
<1>2. \A k \in Overdue : wait_receipt_map[k].item.m # m
  <2>1. CASE Absent(m)
    <3>1. EntrySlots(wait_receipt_map, m) = {}
      BY <2>1, SlotsAre, ContainersAre DEF Absent
    <3> QED BY <1>1, <3>1 DEF EntrySlots
  <2>2. CASE \A k \in timed_out' : k[1] # m
    BY <1>1, <2>2 DEF KeysNamed
  <2> QED BY <2>1, <2>2
<1>3. CalmResend(m)
  <2>1. ResendSlots(to_resend', m) = {}
    BY <1>1, <1>2 DEF ResendSlots
  <2> QED BY <2>1, ShrinksTo DEF CalmResend
<1>4. CalmEntries(m)
  BY <1>1, EntriesCalm
<1>5. /\ CalmManager(m) /\ CalmSending(m) /\ CalmQueue(m)
      /\ \A c \in Channels : CalmPriority(c, m) /\ CalmCommon(c, m) /\ CalmHand(c, m)
  BY <1>1, Calms
<1> QED BY <1>3, <1>4, <1>5, CalmIf DEF MovesOn, Rests

LEMMA TryChannelMoves ==
    ASSUME TypeOK, LoopBound, NEW m \in Outs, UNCHANGED hand, TryChannel
    PROVE  MovesOn(m)
<1>1. /\ pc = "send"
      /\ UNCHANGED <<from_manager, from_channel, to_resend, wait_receipt_map>>
  BY DEF TryChannel
<1>2. /\ CalmManager(m) /\ CalmResend(m) /\ CalmEntries(m) /\ CalmQueue(m)
      /\ \A c \in Channels : CalmHand(c, m)
  BY <1>1, Calms
<1>3. CASE SkipReadOnly \/ SendToClosed
  <2>1. UNCHANGED <<pc, sending, priority, common>>
    BY <1>3 DEF SkipReadOnly, SendToClosed
  <2>2. CalmSending(m) /\ \A c \in Channels : CalmPriority(c, m) /\ CalmCommon(c, m)
    BY <2>1, Calms
  <2> QED BY <1>2, <2>2, CalmIf DEF MovesOn, Rests
<1>4. CASE SendToOpen
  <2>1. /\ sending \in Items
        /\ priority \in [Channels -> Seq(Items)] /\ common \in [Channels -> Seq(Items)]
        /\ pc' # "send"
    BY <1>4 DEF TypeOK, EntityTyped, QueuesTyped, SendToOpen, Return
  <2>2. PICK c \in Channels : Enqueue(c, sending)
    <3>1. /\ send_channels \in Seq(Channels) /\ Len(send_channels) \in Nat \ {0}
          /\ NextIndex \in Nat
      BY LimitsAssumption DEF TypeOK, QueuesTyped, EntityTyped, TryChannel, LoopBound, NextIndex
    <3>2. NextIndex % Len(send_channels) \in 0..(Len(send_channels) - 1)
      BY <3>1
    <3>3. Selected \in Channels
      BY <3>1, <3>2 DEF Selected
    <3> QED BY <1>4, <3>3 DEF SendToOpen
  <2>3. CalmSending(m)
    BY <2>1, Calms
  <2>4. /\ \A d \in Channels : d # c => priority'[d] = priority[d] /\ common'[d] = common[d]
        /\ \/ priority'[c] = Append(priority[c], sending) /\ common'[c] = common[c]
           \/ common'[c] = Append(common[c], sending) /\ priority'[c] = priority[c]
    BY <2>1, <2>2 DEF Enqueue
  <2>5. ASSUME NEW q \in Seq(Items)
        PROVE  /\ sending.m # m => Shrinks(ItemSlots(q, m), ItemSlots(Append(q, sending), m))
               /\ ItemSlots(q, m) = {} => Lone(ItemSlots(Append(q, sending), m))
    BY <2>1, <2>5, AppendSlots, ShrinksTo
  <2>6. priority[c] \in Seq(Items) /\ common[c] \in Seq(Items)
    BY <2>1
  <2>7. \A d \in Channels : /\ d # c => CalmPriority(d, m) /\ CalmCommon(d, m)
                            /\ priority'[d] = priority[d] => CalmPriority(d, m)
                            /\ common'[d] = common[d] => CalmCommon(d, m)
    BY <2>4, Calms
  <2>8. CASE sending.m # m
    <3>1. CalmPriority(c, m) /\ CalmCommon(c, m)
      BY <2>4, <2>5, <2>6, <2>7, <2>8 DEF CalmPriority, CalmCommon
    <3>2. \A d \in Channels : CalmPriority(d, m) /\ CalmCommon(d, m)
      BY <2>7, <3>1
    <3> QED BY <1>2, <2>3, <3>2, CalmIf DEF MovesOn, Rests
  <2>9. CASE sending.m = m
    <3>1. /\ Slots(AtSending, m) # {}
          /\ Slots(AtSending, m)' = {}
      BY <1>1, <2>1, <2>9, SlotsAre, SlotsThen DEF SendingSlots
    <3>2. CASE priority'[c] = Append(priority[c], sending) /\ common'[c] = common[c]
      <4>1. Slots(AtPriority(c), m) = {} => Lone(Slots(AtPriority(c), m)')
        <5>1. ItemSlots(priority[c], m) = {} => Lone(ItemSlots(priority'[c], m))
          BY <2>5, <2>6, <3>2
        <5>2. Slots(AtPriority(c), m) = ItemSlots(priority[c], m) /\ Slots(AtPriority(c), m)' = ItemSlots(priority'[c], m)
          BY SlotsAre, SlotsThen
        <5> QED BY <5>1, <5>2
      <4>2. CalmBut({AtPriority(c)}, m)
        BY <1>2, <2>3, <2>7, <3>2, CalmIf
      <4>3. Goes(m, AtSending, AtPriority(c))
        BY <3>1, <4>1, <4>2, ContainersAre, ContainersDiffer DEF Goes
      <4> QED BY <4>3 DEF MovesOn
    <3>3. CASE common'[c] = Append(common[c], sending) /\ priority'[c] = priority[c]
      <4>1. Slots(AtCommon(c), m) = {} => Lone(Slots(AtCommon(c), m)')
        <5>1. ItemSlots(common[c], m) = {} => Lone(ItemSlots(common'[c], m))
          BY <2>5, <2>6, <3>3
        <5>2. Slots(AtCommon(c), m) = ItemSlots(common[c], m) /\ Slots(AtCommon(c), m)' = ItemSlots(common'[c], m)
          BY SlotsAre, SlotsThen
        <5> QED BY <5>1, <5>2
      <4>2. CalmBut({AtCommon(c)}, m)
        BY <1>2, <2>3, <2>7, <3>3, CalmIf
      <4>3. Goes(m, AtSending, AtCommon(c))
        BY <3>1, <4>1, <4>2, ContainersAre, ContainersDiffer DEF Goes
      <4> QED BY <4>3 DEF MovesOn
    <3> QED BY <2>4, <3>2, <3>3
  <2> QED BY <2>8, <2>9
<1> QED BY <1>3, <1>4 DEF TryChannel

LEMMA EntityMoves ==
    ASSUME TypeOK, LoopBound, CustodyInv, NEW m \in Outs, EntityStep, UNCHANGED hand,
           Absent(m) \/ (Frames[m] = 1 /\ \A k \in timed_out' : k[1] # m)
    PROVE  MovesOn(m)
<1>1. ItemsEncoded /\ EntriesKeyed /\ KeysNamed
  BY DEF CustodyInv
<1>2. CASE TryChannel \/ ReSend \/ PopResend \/ AnswerLimited \/ CacheSent \/ PushBack \/ SendMessage
  BY <1>1, <1>2, TryChannelMoves, ReSendMoves, PopResendMoves, AnswerLimitedMoves, CacheSentMoves,
     PushBackMoves, SendMessageMoves
<1>3. CASE \/ NoChannelTook \/ ClearSendSmsCache \/ AnswerMatched \/ AnswerUnmatched
           \/ PublishInbound \/ IgnoreOther \/ ChannelTerminated \/ TakeConnect
           \/ ChannelConnected \/ RequestState \/ Close \/ Stop
  BY <1>3, EntityRests DEF MovesOn
<1> QED BY <1>2, <1>3 DEF EntityStep
---------------------------------------------------------------------------
(* The entity's own containers, while a connection steps.                  *)
EntityCalm(m) == CalmManager(m) /\ CalmSending(m) /\ CalmResend(m) /\ CalmEntries(m)

(* A message a channel takes from a queue of its own is in the channel's   *)
(* hand afterwards, or nowhere.                                            *)
LEMMA TakesMoves ==
    ASSUME TypeOK, NEW m \in Outs, NEW c \in Channels, Takes(c), EntityCalm(m)
    PROVE  MovesOn(m)
<1>1. PICK isPriority \in BOOLEAN :
        /\ QueueOf(c, isPriority) # <<>>
        /\ Dequeue(c, isPriority)
        /\ LET item == Head(QueueOf(c, isPriority))
           IN  \/ Bounce(c, item)
               \/ EncodeFails(c, item)
               \/ WriteFails(c, item, isPriority)
               \/ Write(c, item)
               \/ WriteTerminate(c, item)
  BY DEF Takes
<1>2. /\ hand \in [Channels -> ChannelMsgs \cup {NONE}]
      /\ priority \in [Channels -> Seq(Items)] /\ common \in [Channels -> Seq(Items)]
      /\ hand[c] = NONE /\ from_channel' = from_channel
  BY DEF TypeOK, ChannelsTyped, QueuesTyped, Takes
<1> DEFINE taken == Head(QueueOf(c, isPriority)).m
<1>3. /\ hand' = hand \/ \E item : item.m = taken /\ hand' = [hand EXCEPT ![c] = OutMsg(item)]
  <2> DEFINE item == Head(QueueOf(c, isPriority))
             sent == [m |-> item.m, wait |-> TRUE, seqs |-> NewSeqs(item.m)]
  <2>1. CASE Write(c, item)
    <3>1. hand' = [hand EXCEPT ![c] = OutMsg(sent)]
      BY <2>1 DEF Write
    <3>2. sent.m = taken
      OBVIOUS
    <3> HIDE DEF sent, taken
    <3> QED BY <3>1, <3>2
  <2>2. CASE Bounce(c, item) \/ WriteTerminate(c, item)
    BY <2>2 DEF Bounce, WriteTerminate
  <2>3. CASE EncodeFails(c, item) \/ WriteFails(c, item, isPriority)
    BY <2>3 DEF EncodeFails, WriteFails
  <2> QED BY <1>1, <2>1, <2>2, <2>3
<1> DEFINE src == IF isPriority THEN AtPriority(c) ELSE AtCommon(c)
<1>4. /\ \A d \in Channels : CalmPriority(d, m) /\ CalmCommon(d, m)
      /\ taken = m => /\ Slots(src, m) # {}
                      /\ Lone(Slots(src, m)) => Slots(src, m)' = {}
  <2>1. QueueOf(c, isPriority) \in Seq(Items)
    BY <1>2 DEF QueueOf
  <2> DEFINE q == QueueOf(c, isPriority)
  <2>2. /\ Shrinks(ItemSlots(q, m), ItemSlots(Tail(q), m))
        /\ taken = m => /\ ItemSlots(q, m) # {}
                        /\ Lone(ItemSlots(q, m)) => ItemSlots(Tail(q), m) = {}
    <3> HIDE DEF q
    <3>1. /\ Shrinks(ItemSlots(q, m), ItemSlots(Tail(q), m))
          /\ Head(q).m = m => /\ ItemSlots(q, m) # {}
                              /\ Lone(ItemSlots(q, m)) => ItemSlots(Tail(q), m) = {}
      BY <1>1, <2>1, TailSlots DEF q
    <3> QED BY <3>1 DEF q
  <2>3. CASE isPriority
    <3>1. q = priority[c] /\ common' = common /\ priority' = [priority EXCEPT ![c] = Tail(priority[c])]
      BY <1>1, <2>3 DEF QueueOf, Dequeue
    <3>2. priority'[c] = Tail(q) /\ \A d \in Channels : d # c => priority'[d] = priority[d]
      BY <1>2, <3>1
    <3>3. CalmPriority(c, m)
      BY <2>2, <3>1, <3>2 DEF CalmPriority
    <3>4. \A d \in Channels : CalmPriority(d, m) /\ CalmCommon(d, m)
      BY <3>1, <3>2, <3>3, Calms
    <3>5. /\ Slots(src, m) = ItemSlots(priority[c], m) /\ Slots(src, m)' = ItemSlots(priority'[c], m)
      BY <2>3, SlotsAre, SlotsThen
    <3> HIDE DEF taken
    <3> QED BY <2>2, <3>1, <3>2, <3>4, <3>5
  <2>4. CASE ~isPriority
    <3>1. q = common[c] /\ priority' = priority /\ common' = [common EXCEPT ![c] = Tail(common[c])]
      BY <1>1, <2>4 DEF QueueOf, Dequeue
    <3>2. common'[c] = Tail(q) /\ \A d \in Channels : d # c => common'[d] = common[d]
      BY <1>2, <3>1
    <3>3. CalmCommon(c, m)
      BY <2>2, <3>1, <3>2 DEF CalmCommon
    <3>4. \A d \in Channels : CalmPriority(d, m) /\ CalmCommon(d, m)
      BY <3>1, <3>2, <3>3, Calms
    <3>5. /\ Slots(src, m) = ItemSlots(common[c], m) /\ Slots(src, m)' = ItemSlots(common'[c], m)
      BY <2>4, SlotsAre, SlotsThen
    <3> HIDE DEF taken
    <3> QED BY <2>2, <3>1, <3>2, <3>4, <3>5
  <2> QED BY <2>3, <2>4
<1> HIDE DEF taken
<1>5. CalmQueue(m) /\ \A d \in Channels : d # c => CalmHand(d, m)
  BY <1>2, <1>3, Calms
<1>6. CASE taken = m
  <2>1. CalmBut({AtHand(c)}, m)
    BY <1>4, <1>5, CalmIf DEF EntityCalm
  <2>2. Slots(AtHand(c), m) = {} => Lone(Slots(AtHand(c), m)')
    BY SlotsThen DEF HandSlots, Lone
  <2>3. src \in Containers /\ src # AtHand(c) /\ AtHand(c) \in Containers
    BY ContainersAre, ContainersDiffer
  <2> HIDE DEF src
  <2>4. Goes(m, src, AtHand(c))
    BY <1>4, <1>6, <2>1, <2>2, <2>3 DEF Goes
  <2> QED BY <2>4 DEF MovesOn
<1>7. CASE taken # m
  <2>1. hand'[c] = hand[c] \/ ~Travels(hand'[c], m)
    BY <1>2, <1>3, <1>7, OutMsgs DEF Travels
  <2>2. \A d \in Channels : CalmHand(d, m)
    BY <1>5, <2>1, Calms
  <2> QED BY <1>4, <1>5, <2>2, CalmIf DEF EntityCalm, MovesOn, Rests
<1> QED BY <1>6, <1>7

LEMMA PushesMoves ==
    ASSUME TypeOK, NEW m \in Outs, NEW c \in Channels, Pushes(c), EntityCalm(m)
    PROVE  MovesOn(m)
<1>1. /\ hand \in [Channels -> ChannelMsgs \cup {NONE}]
      /\ hand[c] \in ChannelMsgs /\ from_channel \in Seq(ChannelMsgs)
      /\ hand' = [hand EXCEPT ![c] = NONE] /\ from_channel' = Append(from_channel, hand[c])
      /\ UNCHANGED <<priority, common>>
  BY DEF TypeOK, ChannelsTyped, QueuesTyped, Pushes, QueueForEntity
<1>2. hand'[c] = NONE /\ \A d \in Channels : d # c => hand'[d] = hand[d]
  BY <1>1
<1>3. ~Travels(hand'[c], m)
  BY <1>2 DEF Travels
<1>4. \A d \in Channels : CalmPriority(d, m) /\ CalmCommon(d, m) /\ CalmHand(d, m)
  BY <1>1, <1>2, <1>3, Calms
<1>5. /\ ~Travels(hand[c], m) => QueueSlots(from_channel', m) = QueueSlots(from_channel, m)
      /\ QueueSlots(from_channel, m) = {} => Lone(QueueSlots(from_channel', m))
  BY <1>1, AppendSlots
<1>6. CASE ~Travels(hand[c], m)
  <2>1. CalmQueue(m)
    BY <1>5, <1>6, ShrinksTo DEF CalmQueue
  <2> QED BY <1>4, <2>1, CalmIf DEF EntityCalm, MovesOn, Rests
<1>7. CASE Travels(hand[c], m)
  <2>1. HandSlots(hand[c], m) # {} /\ HandSlots(hand'[c], m) = {}
    BY <1>3, <1>7 DEF HandSlots
  <2>2. Slots(AtHand(c), m) # {} /\ Slots(AtHand(c), m)' = {}
    BY <2>1, SlotsAre, SlotsThen
  <2>3. Slots(AtQueue, m) = {} => Lone(Slots(AtQueue, m)')
    BY <1>5, SlotsAre, SlotsThen
  <2>4. CalmBut({AtQueue}, m)
    BY <1>4, CalmIf DEF EntityCalm
  <2>5. Goes(m, AtHand(c), AtQueue)
    BY <2>2, <2>3, <2>4, ContainersAre, ContainersDiffer DEF Goes
  <2> QED BY <2>5 DEF MovesOn
<1> QED BY <1>6, <1>7

LEMMA ChannelMoves ==
    ASSUME TypeOK, NEW m \in Outs, NEW c \in Channels, ChannelFlow(c), EntityCalm(m)
    PROVE  MovesOn(m)
<1>0. /\ hand \in [Channels -> ChannelMsgs \cup {NONE}]
      /\ priority \in [Channels -> Seq(Items)] /\ common \in [Channels -> Seq(Items)]
  BY DEF TypeOK, ChannelsTyped, QueuesTyped
<1>1. ASSUME CalmQueue(m), NEW msg, ~Travels(msg, m),
             UNCHANGED hand \/ hand' = [hand EXCEPT ![c] = msg],
             UNCHANGED <<priority, common>>
             \/ /\ priority' = [priority EXCEPT ![c] = <<>>]
                /\ common' = [common EXCEPT ![c] = <<>>]
      PROVE  MovesOn(m)
  <2>1. \A d \in Channels : /\ priority'[d] \in {priority[d], <<>>}
                            /\ common'[d] \in {common[d], <<>>}
                            /\ hand'[d] = hand[d] \/ ~Travels(hand'[d], m)
    BY <1>0, <1>1
  <2>2. \A d \in Channels : CalmPriority(d, m) /\ CalmCommon(d, m) /\ CalmHand(d, m)
    BY <2>1, Calms
  <2> QED BY <1>1, <2>2, CalmIf DEF EntityCalm, MovesOn, Rests
<1>2. /\ ~Travels(NONE, m) /\ ~Travels(OtherMsg, m)
      /\ \A k, limited : ~Travels(RespMsg(k, limited), m)
      /\ \A i : ~Travels(InMsg(i), m)
      /\ \A d : ~Travels(ConnectMsg(d), m) /\ ~Travels(TerminateMsg(d), m)
  BY DEF Travels, OtherMsg, RespMsg, InMsg, ConnectMsg, TerminateMsg
<1>3. CASE UNCHANGED channelFlow
  <2>1. CalmQueue(m)
    BY <1>3, Calms DEF channelFlow
  <2> QED BY <1>1, <1>2, <1>3, <2>1 DEF channelFlow
<1>4. CASE Announces(c)
  <2>1. PICK msg \in {ConnectMsg(c), TerminateMsg(c)} : QueueForEntity(msg)
    BY <1>4 DEF Announces
  <2>2. /\ from_channel \in Seq(ChannelMsgs) /\ from_channel' = Append(from_channel, msg)
        /\ msg \in ChannelMsgs /\ ~Travels(msg, m)
    BY <1>2, <2>1, MsgTypes DEF TypeOK, QueuesTyped, QueueForEntity
  <2>3. QueueSlots(from_channel', m) = QueueSlots(from_channel, m)
    BY <2>2, AppendSlots
  <2>4. CalmQueue(m) /\ UNCHANGED <<priority, common, hand>>
    BY <1>4, <2>3, ShrinksTo DEF CalmQueue, Announces
  <2> QED BY <1>1, <1>2, <2>4
<1>5. CASE Ends(c) \/ PushFails(c)
  <2>1. /\ UNCHANGED from_channel
        /\ hand' = [hand EXCEPT ![c] = NONE]
        /\ UNCHANGED <<priority, common>>
           \/ /\ priority' = [priority EXCEPT ![c] = <<>>]
              /\ common' = [common EXCEPT ![c] = <<>>]
    BY <1>5 DEF Ends, PushFails, ClearAndLeave, Leave
  <2> QED BY <1>1, <1>2, <2>1, Calms
<1>6. CASE HearsAnswer(c) \/ HearsMessage(c) \/ HearsControl(c)
  <2>1. /\ UNCHANGED <<from_channel, priority, common>>
        /\ \E msg : ~Travels(msg, m) /\ hand' = [hand EXCEPT ![c] = msg]
    BY <1>2, <1>6 DEF HearsAnswer, HearsMessage, HearsControl
  <2> QED BY <1>1, <2>1, Calms
<1> QED BY <1>3, <1>4, <1>5, <1>6, TakesMoves, PushesMoves DEF ChannelFlow

CopiesInv == SingleCopy /\ \A m \in unsent : Absent(m)

(* A message comes into the gateway once.                                  *)
LEMMA ManagerCopies ==
    ASSUME TypeOK, NEW m \in Outs, ManagerStep
    PROVE  \/ MovesOn(m)
           \/ /\ m \in unsent /\ m \notin unsent'
              /\ Absent(m) => Single(m)'
<1>1. /\ from_manager \in Seq(ManagerMsgs) /\ m \in Outs
      /\ UNCHANGED <<pc, sending, to_resend, wait_receipt_map, from_channel, priority, common, hand>>
  BY DEF TypeOK, QueuesTyped, ManagerStep, Send, AskState, CloseEntity, ToEntity, entityVars, channelVars
<1>2. /\ CalmSending(m) /\ CalmResend(m) /\ CalmEntries(m) /\ CalmQueue(m)
      /\ \A c \in Channels : CalmPriority(c, m) /\ CalmCommon(c, m) /\ CalmHand(c, m)
  BY <1>1, Calms
<1>3. ASSUME NEW msg \in ManagerMsgs, ToEntity(msg), ~(msg.type = "send" /\ msg.m = m)
      PROVE  MovesOn(m)
  <2>1. ManagerSlots(from_manager', m) = ManagerSlots(from_manager, m)
    BY <1>1, <1>3, AppendSlots DEF ToEntity
  <2>2. CalmManager(m)
    BY <2>1, ShrinksTo DEF CalmManager
  <2> QED BY <1>2, <2>2, CalmIf DEF MovesOn, Rests
<1>4. CASE AskState \/ CloseEntity
  <2>1. PICK type \in {"passage.request.state", "close"} : ToEntity([type |-> type])
    BY <1>4 DEF AskState, CloseEntity
  <2>2. [type |-> type] \in ManagerMsgs /\ [type |-> type].type # "send"
    BY <2>1 DEF ManagerMsgs
  <2> QED BY <1>3, <2>1, <2>2
<1>5. CASE Send
  <2>1. PICK n \in unsent : unsent' = unsent \ {n} /\ ToEntity([type |-> "send", m |-> n])
    BY <1>5 DEF Send
  <2>2. [type |-> "send", m |-> n] \in ManagerMsgs /\ [type |-> "send", m |-> n].m = n
    BY DEF TypeOK, ManagerMsgs
  <2>3. CASE n # m
    BY <1>3, <2>1, <2>2, <2>3
  <2>4. CASE n = m
    <3>1. ManagerSlots(from_manager, m) = {} => Lone(ManagerSlots(from_manager', m))
      BY <1>1, <2>1, <2>2, AppendSlots DEF ToEntity
    <3>2. Slots(AtManager, m) = {} => Lone(Slots(AtManager, m)')
      BY <3>1, SlotsAre, SlotsThen
    <3>3. CalmBut({AtManager}, m)
      BY <1>2, CalmIf
    <3>4. ASSUME Absent(m)
          PROVE  Single(m)'
      <4>1. \A x \in Containers : x # AtManager => Slots(x, m)' = {}
        BY <3>3, <3>4 DEF CalmBut, Shrinks, Absent
      <4>2. Lone(Slots(AtManager, m)')
        BY <3>2, <3>4, ContainersAre DEF Absent
      <4> QED BY <4>1, <4>2 DEF Single, Lone
    <3> QED BY <2>1, <2>4, <3>4
  <2> QED BY <2>3, <2>4
<1> QED BY <1>4, <1>5 DEF ManagerStep

LEMMA CopiesStep ==
    ASSUME TypeOK, LoopBound, CustodyInv, [Next]_vars, NEW m \in Outs,
           Absent(m) \/ (Frames[m] = 1 /\ \A k \in timed_out' : k[1] # m)
    PROVE  \/ MovesOn(m)
           \/ /\ m \in unsent /\ m \notin unsent'
              /\ Absent(m) => Single(m)'
<1>1. CASE ManagerStep
  BY <1>1, ManagerCopies
<1>2. CASE EntityStep /\ UNCHANGED <<channelVars, registered, unsent>>
  BY <1>2, EntityMoves DEF channelVars
<1>3. CASE (AnswersTimeOut \/ DaysTimeOut) /\ UNCHANGED <<channelVars, registered, unsent>>
  <2>1. UNCHANGED <<pc, from_manager, sending, to_resend, from_channel, priority, common, hand, unsent>>
    BY <1>3 DEF AnswersTimeOut, DaysTimeOut, AnswersAge, DaysPass, baseVars, published, channelVars
  <2>2. \A k \in DOMAIN wait_receipt_map : wait_receipt_map[k] \in Entries
    BY DEF TypeOK, EntityTyped
  <2>3. /\ DOMAIN wait_receipt_map' \subseteq DOMAIN wait_receipt_map
        /\ \A k \in DOMAIN wait_receipt_map' : wait_receipt_map'[k].item = wait_receipt_map[k].item
    BY <1>3, <2>2 DEF AnswersTimeOut, DaysTimeOut, AnswersAge, DaysPass, Entries
  <2>4. CalmEntries(m)
    BY <2>3, EntriesCalm
  <2> QED BY <2>1, <2>4, Calms, CalmIf DEF MovesOn, Rests
<1>4. CASE \E c \in Channels : (Login(c) \/ ChannelStep(c) \/ PeerStep(c)) /\ EntityIdle
  <2>1. PICK c \in Channels : (Login(c) \/ ChannelStep(c) \/ PeerStep(c)) /\ EntityIdle
    BY <1>4
  <2>2. ChannelFlow(c) /\ UNCHANGED <<pc, from_manager, sending, to_resend, wait_receipt_map, unsent>>
    BY <2>1, ChannelFlows DEF EntityIdle, entityVars
  <2>3. EntityCalm(m)
    BY <2>2, Calms DEF EntityCalm
  <2> QED BY <2>2, <2>3, ChannelMoves
<1>5. CASE UNCHANGED vars
  <2>1. UNCHANGED <<pc, from_manager, sending, to_resend, from_channel, priority, common, hand, unsent,
                    wait_receipt_map>>
    BY <1>5 DEF vars, baseVars, entityVars, channelVars
  <2> QED BY <2>1, Calms, CalmIf DEF MovesOn, Rests
<1> QED BY <1>1, <1>2, <1>3, <1>4, <1>5 DEF Next

(* For any messages, channels and faults, a message of one frame is at     *)
(* most once in the gateway until an answer to it times out: when a full   *)
(* window bounces it, when its peer refuses it for speed, when its channel *)
(* closes or a handle is dead, it moves or goes, and is never copied       *)
(* (entity_running.rs:229-285, 407-430, 554-622, channel.rs:218-260).      *)
THEOREM CopiesAreSingle == Spec => []SingleCopy
<1>1. Init => CopiesInv
  <2> SUFFICES ASSUME Init PROVE CopiesInv
    OBVIOUS
  <2>1. /\ from_manager = <<>> /\ from_channel = <<>> /\ pc = "select" /\ to_resend = {}
        /\ DOMAIN wait_receipt_map = {}
        /\ \A c \in Channels : priority[c] = <<>> /\ common[c] = <<>> /\ hand[c] = NONE
    BY DEF Init, InitEntity, InitChannel
  <2>2. ASSUME NEW m
        PROVE  Absent(m)
    <3>1. /\ ManagerSlots(from_manager, m) = {} /\ SendingSlots(pc, sending, m) = {}
          /\ ResendSlots(to_resend, m) = {} /\ EntrySlots(wait_receipt_map, m) = {}
          /\ QueueSlots(from_channel, m) = {}
          /\ \A c \in Channels : /\ ItemSlots(priority[c], m) = {} /\ ItemSlots(common[c], m) = {}
                                 /\ HandSlots(hand[c], m) = {}
      BY <2>1 DEF ManagerSlots, SendingSlots, ResendSlots, EntrySlots, QueueSlots, ItemSlots, HandSlots,
                  Travels
    <3>2. ASSUME NEW x \in Containers
          PROVE  Slots(x, m) = {}
      <4>1. CASE x \in {AtManager, AtSending, AtResend, AtEntries, AtQueue}
        BY <3>1, <4>1, SlotsAre
      <4>2. ASSUME NEW c \in Channels, x \in {AtPriority(c), AtCommon(c), AtHand(c)}
            PROVE  Slots(x, m) = {}
        BY <3>1, <4>2, SlotsAre
      <4> QED BY <4>1, <4>2, ContainersAre
    <3> QED BY <3>2 DEF Absent
  <2> QED BY <2>2 DEF CopiesInv, SingleCopy, Absent
<1>2. TypeOK /\ LoopBound /\ CustodyInv /\ CopiesInv /\ [Next]_vars => CopiesInv'
  <2> SUFFICES ASSUME TypeOK, LoopBound, CustodyInv, CopiesInv, [Next]_vars
               PROVE  CopiesInv'
    OBVIOUS
  <2>1. timed_out \subseteq timed_out' /\ unsent \subseteq Outs /\ unsent' \subseteq unsent
    BY TimedOutGrows DEF TypeOK, Next, ManagerStep, Send, AskState, CloseEntity, EntityIdle, vars
  <2>2. ASSUME NEW m \in unsent'
        PROVE  Absent(m)'
    <3>1. m \in Outs /\ Absent(m) /\ m \in unsent
      BY <2>1, <2>2 DEF CopiesInv
    <3>2. MovesOn(m)
      BY <2>2, <3>1, CopiesStep
    <3> QED BY <3>1, <3>2, RestsSingle, GoesSingle DEF MovesOn
  <2>3. ASSUME NEW m \in Outs, Frames[m] = 1, \A k \in timed_out' : k[1] # m
        PROVE  Single(m)'
    <3>1. Single(m) /\ (m \in unsent => Absent(m))
      BY <2>1, <2>3 DEF CopiesInv, SingleCopy, Single
    <3>2. CASE MovesOn(m)
      BY <3>1, <3>2, RestsSingle, GoesSingle DEF MovesOn
    <3>3. CASE m \in unsent /\ (Absent(m) => Single(m)')
      BY <3>1, <3>3
    <3> QED BY <2>3, <3>2, <3>3, CopiesStep
  <2>4. SingleCopy'
    BY <2>3 DEF SingleCopy, Single
  <2> QED BY <2>2, <2>4 DEF CopiesInv
<1>3. CopiesInv => SingleCopy
  BY DEF CopiesInv
<1> QED BY <1>1, <1>2, <1>3, TypeCorrect, LoopIsBounded, CustodyInvHolds, PTL DEF Spec
=============================================================================
