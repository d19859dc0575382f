--------------------------- MODULE LongSmsProofs ---------------------------
(***************************************************************************)
(* The properties of LongSms for every set of messages, every size of a    *)
(* part and of a byte, and every duration.                                 *)
(*                                                                         *)
(* None of them is inductive: what is published is complete because of     *)
(* what the vectors hold (Slots), nothing stays longer than two periods    *)
(* because what the last clean-up left was not older than one (Clock), and *)
(* a message is published whole because, as long as nothing got in its way,*)
(* its parts are alone in the vector of its key (Progress, Alone).         *)
(***************************************************************************)
EXTENDS LongSms, TLAPS

(* A place of a vector holds the part it is numbered for, of a message of  *)
(* this key that was cut into as many.                                     *)
Slot(k, v, n) ==
    \E m \in Messages : \E i \in Positions(m) :
        /\ v.at[n].part = Part(m, i) /\ Key(m) = k /\ Total(m) > 1
        /\ n = i % Byte /\ v.len = Total(m) % Byte
(* A vector that is full is not kept.                                      *)
Slots ==
    /\ DOMAIN long_sms_cache = Keys
    /\ \A k \in Keys : \A n \in DOMAIN long_sms_cache[k].at : Slot(k, long_sms_cache[k], n)
    /\ \A k \in Keys : long_sms_cache[k].len > 0 => ~Full(long_sms_cache[k])

(* The last clean-up is one period and a turn ago at most.                 *)
Clock ==
    /\ now <= clear_timestamp + ClearDuration + 1
    /\ loop = "wait" => now <= clear_timestamp + ClearDuration
    /\ \A k \in Keys : \A n \in DOMAIN long_sms_cache[k].at :
          clear_timestamp <= long_sms_cache[k].at[n].time + ClearDuration

Counts == DOMAIN received = Messages /\ \A m \in Messages : DOMAIN received[m] = Positions(m)

(* A message nothing got in the way of shares its vector with no other.    *)
Alone == \A m \in Messages \ disturbed : m \in Held(Key(m)) => Held(Key(m)) = {m}
Waiting(m, i) ==
    LET v == long_sms_cache[Key(m)]
    IN v.len = Total(m) /\ i \in DOMAIN v.at /\ v.at[i].part = Part(m, i)
(* Each of its parts that came is in the vector, until it is published.    *)
Progress ==
    \A m \in Messages \ disturbed : Total(m) < Byte =>
        \/ Sent(m) \in published
        \/ /\ Total(m) > 1
           /\ \A i \in Positions(m) : received[m][i] > 0 => Waiting(m, i)
        \/ Total(m) = 1 /\ received[m][1] = 0

IInv == TypeOK /\ Slots /\ JoinedComplete /\ Clock /\ Counts /\ Alone /\ Progress
---------------------------------------------------------------------------
(* A quotient by a divisor that is not greater is one at least.            *)
LEMMA QuotientPositive ==
    ASSUME NEW a \in Nat, NEW b \in Nat, b > 0, a >= b
    PROVE  a \div b \in Nat /\ a \div b >= 1
OBVIOUS

(* What is left when a byte wraps.                                         *)
LEMMA Remainder ==
    ASSUME NEW a \in Nat, NEW b \in Nat \ {0}
    PROVE  a % b \in 0..b-1 /\ (a < b => a % b = a)
OBVIOUS

(* Every message has a part.                                               *)
LEMMA TotalType == \A m \in Messages : Total(m) \in Nat \ {0}
<1>1. Cut \in Nat /\ Cut > 0 /\ One >= Cut
  BY NumbersAssumption DEF Cut
<1>2. TAKE m \in Messages
<1>3. m.bytes \in Nat
  BY MessagesAssumption
<1>4. CASE m.bytes <= One
  BY <1>4 DEF Total
<1>5. CASE m.bytes > One
  <2>1. m.bytes + Cut - 1 \in Nat /\ m.bytes + Cut - 1 >= Cut
    BY <1>1, <1>3, <1>5, NumbersAssumption
  <2>2. (m.bytes + Cut - 1) \div Cut \in Nat /\ (m.bytes + Cut - 1) \div Cut >= 1
    BY <2>1, <1>1, QuotientPositive
  <2> QED BY <2>2, <1>5, <1>3, NumbersAssumption DEF Total
<1> QED BY <1>3, <1>4, <1>5, NumbersAssumption

(* The numbers of a part fit a byte, and are the real ones if they can be. *)
LEMMA PartType ==
    ASSUME NEW m \in Messages, NEW i \in Positions(m)
    PROVE  /\ i \in Nat /\ 1 <= i /\ i <= Total(m)
           /\ Part(m, i).number = i % Byte /\ Part(m, i).number \in 0..Byte-1
           /\ Part(m, i).total = Total(m) % Byte /\ Part(m, i).total \in 0..Byte-1
           /\ Part(m, i).msg = m
           /\ Total(m) < Byte => Part(m, i).number = i /\ Part(m, i).total = Total(m)
<1>1. Total(m) \in Nat \ {0} /\ i \in Nat /\ 1 <= i /\ i <= Total(m)
  BY TotalType DEF Positions
<1>2. Byte \in Nat \ {0}
  BY NumbersAssumption
<1>3. /\ i % Byte \in 0..Byte-1 /\ (i < Byte => i % Byte = i)
      /\ Total(m) % Byte \in 0..Byte-1 /\ (Total(m) < Byte => Total(m) % Byte = Total(m))
  BY <1>1, <1>2, Remainder
<1> QED BY <1>1, <1>2, <1>3 DEF Part

(* Every message has an entry of the cache.                                *)
LEMMA KeyType == \A m \in Messages : Key(m) \in Keys
BY DEF Keys

(* The entity starts with an empty cache.                                  *)
LEMMA InitIInv == Init => IInv
<1> SUFFICES ASSUME Init PROVE IInv
  OBVIOUS
<1> USE NumbersAssumption DEF Init
<1>1. \A k \in Keys : long_sms_cache[k].len = 0 /\ DOMAIN long_sms_cache[k].at = {}
  BY DEF Empty
<1>2. TypeOK
  BY <1>1, CopiesAssumption DEF TypeOK
<1>3. Slots /\ JoinedComplete /\ Clock /\ Counts
  BY <1>1 DEF Slots, JoinedComplete, Clock, Counts
<1>4. Alone
  BY <1>1, KeyType DEF Alone, Held
<1>5. Progress
  <2>1. \A m \in Messages : \A i \in Positions(m) : received[m][i] = 0
    OBVIOUS
  <2>2. \A m \in Messages : Total(m) > 1 \/ (Total(m) = 1 /\ 1 \in Positions(m))
    BY TotalType DEF Positions
  <2> QED BY <2>1, <2>2 DEF Progress
<1> QED BY <1>2, <1>3, <1>4, <1>5 DEF IInv

(* The slots of the vector a part is put into. *)
LEMMA PlacedSlots ==
    ASSUME IInv, NEW m \in Messages, NEW i \in Positions(m), Total(m) > 1,
           ~Misnumbered(Part(m, i)), Part(m, i).number # 0,
           NEW w, w = Place(long_sms_cache[Key(m)], Part(m, i))
    PROVE  /\ w.len = Total(m) % Byte /\ w.len \in 2..Byte-1
           /\ DOMAIN w.at \subseteq 1..w.len
           /\ i % Byte \in DOMAIN w.at /\ w.at[i % Byte].part = Part(m, i)
           /\ w.at[i % Byte].time = now
           /\ \A n \in DOMAIN w.at : Slot(Key(m), w, n)
           /\ \A n \in DOMAIN w.at \ {i % Byte} :
                 /\ long_sms_cache[Key(m)].len = w.len
                 /\ n \in DOMAIN long_sms_cache[Key(m)].at
                 /\ w.at[n] = long_sms_cache[Key(m)].at[n]
           /\ long_sms_cache[Key(m)].len = w.len =>
                 DOMAIN long_sms_cache[Key(m)].at \subseteq DOMAIN w.at
<1> DEFINE v == long_sms_cache[Key(m)]
           p == Part(m, i)
           kept == IF v.len = p.total THEN v.at ELSE Empty.at
<1>1. /\ p.number = i % Byte /\ p.total = Total(m) % Byte
      /\ p.number \in 0..Byte-1 /\ p.total \in 0..Byte-1
  BY PartType
<1>2. p.number <= p.total /\ p.total >= 2 /\ Byte \in Nat
  BY <1>1, NumbersAssumption DEF Misnumbered
<1>3. /\ w.len = p.total
      /\ w.at = [n \in DOMAIN kept \cup {p.number} |->
                   IF n = p.number THEN [part |-> p, time |-> now] ELSE kept[n]]
  BY DEF Place
<1>4. DOMAIN Empty.at = {}
  BY DEF Empty
<1>5. v.len \in 0..Byte-1 /\ DOMAIN v.at \subseteq 1..v.len /\ \A n \in DOMAIN v.at : Slot(Key(m), v, n)
  BY KeyType DEF IInv, TypeOK, Slots
<1>6. \A n \in DOMAIN w.at \ {i % Byte} : v.len = w.len /\ n \in DOMAIN v.at /\ w.at[n] = v.at[n]
  BY <1>1, <1>3, <1>4
<1>7. DOMAIN w.at \subseteq 1..w.len
  <2>1. p.number \in 1..w.len
    BY <1>1, <1>2, <1>3
  <2>2. ASSUME NEW n \in DOMAIN w.at, n # i % Byte PROVE n \in 1..w.len
    BY <2>2, <1>5, <1>6
  <2>3. i % Byte \in 1..w.len
    BY <2>1, <1>1
  <2> QED BY <2>2, <2>3
<1>8. i % Byte \in DOMAIN w.at /\ w.at[i % Byte].part = p /\ w.at[i % Byte].time = now
  BY <1>1, <1>3
<1>9. ASSUME NEW n \in DOMAIN w.at PROVE Slot(Key(m), w, n)
  <2>1. CASE n = i % Byte
    BY <2>1, <1>8, <1>3, <1>1 DEF Slot
  <2>2. CASE n # i % Byte
    BY <2>2, <1>6, <1>5, <1>9 DEF Slot
  <2> QED BY <2>1, <2>2
<1>10. v.len = w.len => DOMAIN v.at \subseteq DOMAIN w.at
  BY <1>3
<1>11. w.len = Total(m) % Byte /\ w.len \in 2..Byte-1
  BY <1>1, <1>2, <1>3
<1> QED BY <1>6, <1>7, <1>8, <1>9, <1>10, <1>11

(* A part that arrives is counted. *)
LEMMA ArrivalCounts ==
    ASSUME IInv, NEW m \in Messages, NEW i \in Positions(m), Arrives(m, i)
    PROVE  /\ Counts'
           /\ \A q \in Messages : \A j \in Positions(q) :
                 /\ received'[q][j] \in 0..MaxCopies(q, j)
                 /\ (q # m \/ j # i) => received'[q][j] = received[q][j]
           /\ now' = now /\ clear_timestamp' = clear_timestamp /\ restarts' = restarts
           /\ now <= clear_timestamp + ClearDuration
<1>1. /\ Counts /\ loop = "wait" /\ received[m][i] < MaxCopies(m, i)
      /\ received' = [received EXCEPT ![m][i] = @ + 1]
      /\ UNCHANGED <<now, clear_timestamp, restarts>>
  BY DEF IInv, Arrives
<1>2. \A q \in Messages : \A j \in Positions(q) : received[q][j] \in 0..MaxCopies(q, j)
  BY DEF IInv, TypeOK
<1>3. Counts'
  BY <1>1 DEF Counts
<1>4. \A q \in Messages : \A j \in Positions(q) :
         received'[q][j] = IF q = m /\ j = i THEN received[m][i] + 1 ELSE received[q][j]
  BY <1>1 DEF Counts
<1>5. \A q \in Messages : \A j \in Positions(q) : received'[q][j] \in 0..MaxCopies(q, j)
  BY <1>1, <1>2, <1>4, CopiesAssumption
<1> QED BY <1>1, <1>3, <1>4, <1>5 DEF IInv, Clock

(* Steps that leave the cache, the texts and what is disturbed alone.      *)
LEMMA DroppedKeeps ==
    ASSUME IInv, NEW m \in Messages, NEW i \in Positions(m), Arrives(m, i), Total(m) > 1,
           Misnumbered(Part(m, i)) \/ Part(m, i).number = 0,
           UNCHANGED <<long_sms_cache, published, disturbed>>, loop' \in {"top", "dead"}
    PROVE  IInv'
<1>1. TypeOK' /\ Slots' /\ JoinedComplete' /\ Clock' /\ Counts'
  BY ArrivalCounts DEF IInv, TypeOK, Slots, Slot, JoinedComplete, Clock, Counts
<1>2. Alone'
  BY DEF IInv, Alone, Held
<1>3. Total(m) >= Byte
  <2> SUFFICES ASSUME Total(m) < Byte PROVE FALSE
    BY TotalType, NumbersAssumption
  <2>1. Part(m, i).number = i /\ Part(m, i).total = Total(m) /\ 1 <= i /\ i <= Total(m) /\ i \in Nat
    BY PartType
  <2> QED BY <2>1, TotalType DEF Misnumbered
<1>4. Progress'
  <2> SUFFICES ASSUME NEW q \in Messages \ disturbed, Total(q) < Byte
               PROVE  \/ Sent(q) \in published
                      \/ /\ Total(q) > 1
                         /\ \A j \in Positions(q) : received'[q][j] > 0 => Waiting(q, j)
                      \/ Total(q) = 1 /\ received'[q][1] = 0
    BY DEF Progress, Waiting
  <2>1. q # m
    BY <1>3, TotalType, NumbersAssumption
  <2>2. \A j \in Positions(q) : received'[q][j] = received[q][j]
    BY <2>1, ArrivalCounts
  <2>3. Total(q) = 1 => 1 \in Positions(q)
    BY DEF Positions
  <2> QED BY <2>2, <2>3 DEF IInv, Progress
<1> QED BY <1>1, <1>2, <1>4 DEF IInv

(* A text of one frame is published as it is.                              *)
LEMMA ReceiveWholeKeeps ==
    ASSUME IInv, NEW m \in Messages, ReceiveWhole(m)
    PROVE  IInv'
<1>1. /\ Total(m) = 1 /\ 1 \in Positions(m) /\ Arrives(m, 1)
      /\ published' = published \cup {[n \in {1} |-> Part(m, 1)]}
      /\ loop' = "top" /\ UNCHANGED <<long_sms_cache, disturbed>>
  BY DEF ReceiveWhole, Publish, Positions
<1>2. TypeOK' /\ Slots' /\ Clock' /\ Counts'
  BY <1>1, ArrivalCounts DEF IInv, TypeOK, Slots, Slot, Clock, Counts
<1>3. Alone'
  BY <1>1 DEF IInv, Alone, Held
<1>4. JoinedComplete'
  <2>1. Part(m, 1).msg = m /\ Part(m, 1).pos = 1
    BY DEF Part
  <2>2. {1} = Positions(m)
    BY <1>1 DEF Positions
  <2> QED BY <1>1, <2>1, <2>2 DEF IInv, JoinedComplete
<1>5. Progress'
  <2> SUFFICES ASSUME NEW q \in Messages \ disturbed, Total(q) < Byte
               PROVE  \/ Sent(q) \in published'
                      \/ /\ Total(q) > 1
                         /\ \A j \in Positions(q) : received'[q][j] > 0 => Waiting(q, j)
                      \/ Total(q) = 1 /\ received'[q][1] = 0
    BY <1>1 DEF Progress, Waiting
  <2>1. CASE q = m
    BY <2>1, <1>1 DEF Sent, Positions
  <2>2. CASE q # m
    <3>1. \A j \in Positions(q) : received'[q][j] = received[q][j]
      BY <2>2, <1>1, ArrivalCounts
    <3>2. Total(q) = 1 => 1 \in Positions(q)
      BY DEF Positions
    <3> QED BY <1>1, <3>1, <3>2 DEF IInv, Progress
  <2> QED BY <2>1, <2>2
<1> QED BY <1>2, <1>3, <1>4, <1>5 DEF IInv

(* A part that is put into its vector: complete texts only are published,  *)
(* and a message nothing got in the way of finds its earlier parts.        *)
LEMMA ReceivePartKeeps ==
    ASSUME IInv, NEW m \in Messages, NEW i \in Positions(m), ReceivePart(m, i)
    PROVE  IInv'
<1> DEFINE p == Part(m, i)
           k == Key(m)
           v == long_sms_cache[k]
           w == Place(v, p)
<1>1. /\ Total(m) > 1 /\ ~Misnumbered(p) /\ p.number # 0 /\ Arrives(m, i)
      /\ disturbed' = disturbed \cup Disturbed(m, v, p) /\ loop' = "top"
      /\ long_sms_cache' = [long_sms_cache EXCEPT ![k] = IF Full(w) THEN Empty ELSE w]
      /\ published' = published \cup (IF Full(w) THEN {Text(w)} ELSE {})
  BY DEF ReceivePart, handle_long_sms, Publish
<1>2. k \in Keys /\ DOMAIN long_sms_cache = Keys
  BY KeyType DEF IInv, Slots
<1>3. /\ DOMAIN long_sms_cache' = Keys
      /\ \A h \in Keys : long_sms_cache'[h] = IF h # k THEN long_sms_cache[h]
                                              ELSE IF Full(w) THEN Empty ELSE w
  BY <1>1, <1>2
<1>4. Empty.len = 0 /\ DOMAIN Empty.at = {}
  BY DEF Empty
<1> DEFINE W == /\ w.len = Total(m) % Byte /\ w.len \in 2..Byte-1 /\ DOMAIN w.at \subseteq 1..w.len
                /\ i % Byte \in DOMAIN w.at /\ w.at[i % Byte].part = p /\ w.at[i % Byte].time = now
                /\ \A n \in DOMAIN w.at : Slot(k, w, n)
           Old == \A n \in DOMAIN w.at \ {i % Byte} :
                     v.len = w.len /\ n \in DOMAIN v.at /\ w.at[n] = v.at[n]
           More == v.len = w.len => DOMAIN v.at \subseteq DOMAIN w.at
<1>5. W /\ Old /\ More
  BY <1>1, PlacedSlots
<1>6. p.msg = m /\ p.total = w.len
  BY <1>5, PartType
<1> HIDE DEF w
<1>7. \A n \in DOMAIN w.at : /\ w.at[n].part.msg \in Held(k) \cup {m}
                             /\ w.at[n].part.msg \in Messages /\ w.at[n].time \in 0..now
                             /\ clear_timestamp <= w.at[n].time + ClearDuration
  <2>1. /\ now \in Nat /\ clear_timestamp \in 0..now /\ ClearDuration \in Nat
        /\ \A n \in DOMAIN v.at : /\ v.at[n].part.msg \in Messages /\ v.at[n].time \in 0..now
                                  /\ clear_timestamp <= v.at[n].time + ClearDuration
    BY <1>2, NumbersAssumption DEF IInv, TypeOK, Clock
  <2>2. \A n \in DOMAIN v.at : v.at[n].part.msg \in Held(k)
    BY DEF Held
  <2> QED BY <2>1, <2>2, <1>5, <1>6
<1>8. TypeOK'
  <2>1. \A q \in Messages : \A j \in Positions(q) : received'[q][j] \in 0..MaxCopies(q, j)
    BY <1>1, ArrivalCounts
  <2>2. UNCHANGED <<now, clear_timestamp, restarts>>
    BY <1>1, ArrivalCounts
  <2>3. Held(k) \subseteq Messages
    BY <1>2 DEF IInv, TypeOK, Held
  <2>4. disturbed' \subseteq Messages
    BY <2>3, <1>1 DEF IInv, TypeOK, Disturbed
  <2>5. ASSUME NEW h \in Keys
        PROVE  /\ long_sms_cache'[h].len \in 0..Byte-1
               /\ DOMAIN long_sms_cache'[h].at \subseteq 1..long_sms_cache'[h].len
               /\ \A n \in DOMAIN long_sms_cache'[h].at :
                     /\ long_sms_cache'[h].at[n].part.msg \in Messages
                     /\ long_sms_cache'[h].at[n].time \in 0..now
    <3>1. CASE h # k
      BY <3>1, <1>3 DEF IInv, TypeOK
    <3>2. CASE h = k /\ Full(w)
      BY <3>2, <1>3, <1>4, NumbersAssumption
    <3>3. CASE h = k /\ ~Full(w)
      BY <3>3, <1>3, <1>5, <1>7, NumbersAssumption
    <3> QED BY <3>1, <3>2, <3>3
  <2> QED BY <2>1, <2>2, <2>4, <2>5, <1>1 DEF IInv, TypeOK
<1>9. Slots'
  BY <1>3, <1>4, <1>5 DEF IInv, Slots
<1>10. Clock' /\ Counts'
  <2>1. Counts' /\ UNCHANGED <<now, clear_timestamp, restarts>>
    BY <1>1, ArrivalCounts
  <2> QED BY <2>1, <1>1, <1>3, <1>4, <1>7 DEF IInv, Clock
<1>11. JoinedComplete'
  <2>1. CASE ~Full(w)
    BY <2>1, <1>1 DEF IInv, JoinedComplete
  <2>2. CASE Full(w)
    <3>1. DOMAIN Text(w) = 1..w.len /\ \A n \in DOMAIN Text(w) : Text(w)[n] = w.at[n].part
      BY <2>2, <1>5 DEF Full, Text
    <3>2. ASSUME NEW n \in DOMAIN w.at
          PROVE  LET q == w.at[n].part.msg
                 IN  /\ w.at[n].part.number = n
                     /\ Total(q) < Byte => w.len = Total(q) /\ w.at[n].part.pos = n
      <4>1. PICK q \in Messages : \E j \in Positions(q) :
               w.at[n].part = Part(q, j) /\ n = j % Byte /\ w.len = Total(q) % Byte
        BY <1>5 DEF Slot
      <4>2. PICK j \in Positions(q) :
               w.at[n].part = Part(q, j) /\ n = j % Byte /\ w.len = Total(q) % Byte
        BY <4>1
      <4>3. Part(q, j).pos = j /\ Part(q, j).msg = q /\ Part(q, j).number = j % Byte
        BY DEF Part
      <4>4. Total(q) < Byte => j % Byte = j /\ Total(q) % Byte = Total(q)
        BY PartType
      <4> QED BY <4>2, <4>3, <4>4
    <3>3. DOMAIN w.at = DOMAIN Text(w)
      BY DEF Text
    <3>4. \A n \in DOMAIN Text(w) :
             LET q == Text(w)[n].msg
             IN  /\ Text(w)[n].number = n
                 /\ Total(q) < Byte => DOMAIN Text(w) = Positions(q) /\ Text(w)[n].pos = n
      BY <3>1, <3>2, <3>3 DEF Positions
    <3>5. published' = published \cup {Text(w)}
      BY <2>2, <1>1
    <3> QED BY <3>4, <3>5 DEF IInv, JoinedComplete
  <2> QED BY <2>1, <2>2
<1>12. \A q \in Messages \ disturbed' : Key(q) = k /\ q # m => q \notin Held(k)
  BY <1>1 DEF Disturbed
<1>13. m \notin disturbed' => \A n \in DOMAIN w.at : w.at[n].part.msg = m
  <2> SUFFICES ASSUME m \notin disturbed' PROVE \A n \in DOMAIN w.at : w.at[n].part.msg = m
    OBVIOUS
  <2>1. Held(k) \ {m} = {} \/ v.len # w.len
    BY <1>1, <1>6 DEF Disturbed
  <2> QED BY <2>1, <1>5, <1>6, <1>7
<1>14. Alone'
  <2> SUFFICES ASSUME NEW q \in Messages \ disturbed', q \in Held(Key(q))'
               PROVE  Held(Key(q))' = {q}
    BY DEF Alone
  <2>1. q \in Messages \ disturbed /\ Key(q) \in Keys
    BY <1>1, KeyType
  <2>2. CASE Key(q) # k
    BY <2>1, <2>2, <1>3 DEF IInv, Alone, Held
  <2>3. CASE Key(q) = k
    <3>1. long_sms_cache'[k] = w /\ Held(k)' = {w.at[n].part.msg : n \in DOMAIN w.at}
      BY <2>3, <1>2, <1>3, <1>4 DEF Held
    <3>2. q = m
      BY <3>1, <2>3, <1>7, <1>12
    <3> QED BY <3>1, <3>2, <2>3, <1>13
  <2> QED BY <2>2, <2>3
<1>15. Progress'
  <2> SUFFICES ASSUME NEW q \in Messages \ disturbed', Total(q) < Byte
               PROVE  \/ Sent(q) \in published'
                      \/ /\ Total(q) > 1
                         /\ \A j \in Positions(q) : received'[q][j] > 0 => Waiting(q, j)'
                      \/ Total(q) = 1 /\ received'[q][1] = 0
    BY DEF Progress
  <2>1. /\ q \in Messages \ disturbed /\ Key(q) \in Keys /\ published \subseteq published'
        /\ Total(q) = 1 => 1 \in Positions(q)
    BY <1>1, KeyType DEF Positions
  <2>2. \/ Sent(q) \in published
        \/ Total(q) > 1 /\ \A j \in Positions(q) : received[q][j] > 0 => Waiting(q, j)
        \/ Total(q) = 1 /\ received[q][1] = 0
    BY <2>1 DEF IInv, Progress
  <2>3. \A j \in Positions(q) : q # m \/ j # i => received'[q][j] = received[q][j]
    BY <1>1, ArrivalCounts
  <2>4. CASE Key(q) # k
    <3>1. \A j \in Positions(q) : Waiting(q, j)' = Waiting(q, j)
      BY <2>1, <2>4, <1>3 DEF Waiting
    <3> QED BY <3>1, <2>1, <2>2, <2>3, <2>4
  <2>5. CASE Key(q) = k /\ q # m
    <3>1. \A j \in Positions(q) : ~Waiting(q, j)
      BY <2>5, <1>12, PartType DEF Waiting, Held
    <3> QED BY <3>1, <2>1, <2>2, <2>3, <2>5
  <2>6. CASE q = m
    <3>1. CASE Sent(m) \in published
      BY <3>1, <2>1, <2>6
    <3>2. CASE Sent(m) \notin published
      <4>1. \A j \in Positions(m) : received[m][j] > 0 => Waiting(m, j)
        BY <3>2, <2>2, <2>6, <1>1
      <4>2. Total(m) % Byte = Total(m) /\ \A j \in Positions(m) : j % Byte = j /\ j \in Nat
        BY <2>6, PartType DEF Positions
      <4>3. w.len = Total(m) /\ i % Byte = i
        BY <4>2, <1>5
      <4>4. ASSUME NEW j \in Positions(m), received'[m][j] > 0
            PROVE  j \in DOMAIN w.at /\ w.at[j].part = Part(m, j)
        <5>1. CASE j = i
          BY <5>1, <4>3, <1>5
        <5>2. CASE j # i
          <6>1. Waiting(m, j)
            BY <5>2, <4>1, <4>4, <2>3, <2>6
          <6> QED BY <6>1, <5>2, <4>3, <1>5 DEF Waiting
        <5> QED BY <5>1, <5>2
      <4>5. CASE ~Full(w)
        <5>1. \A j \in Positions(m) : received'[m][j] > 0 => Waiting(m, j)'
          BY <4>4, <4>3, <4>5, <1>2, <1>3 DEF Waiting
        <5> QED BY <5>1, <2>6, <1>1
      <4>6. CASE Full(w)
        <5>1. ASSUME NEW n \in DOMAIN w.at PROVE n \in Positions(m) /\ w.at[n].part = Part(m, n)
          <6>1. PICK h \in Messages : \E j \in Positions(h) :
                   w.at[n].part = Part(h, j) /\ n = j % Byte
            BY <1>5 DEF Slot
          <6>2. h = m
            BY <6>1, <1>13, <2>6, PartType
          <6> QED BY <6>1, <6>2, <4>2
        <5>2. DOMAIN w.at = Positions(m)
          BY <4>6, <4>3, <1>5 DEF Full, Positions
        <5>3. Text(w) = Sent(m)
          BY <5>1, <5>2 DEF Text, Sent
        <5> QED BY <5>3, <4>6, <2>6, <1>1
      <4> QED BY <4>5, <4>6
    <3> QED BY <3>1, <3>2
  <2> QED BY <2>4, <2>5, <2>6
<1> QED BY <1>8, <1>9, <1>10, <1>11, <1>14, <1>15 DEF IInv

(* Vectors that are given up take what they hold with them, and no message *)
(* that is not disturbed was in one.                                       *)
LEMMA GivenUp ==
    ASSUME IInv, NEW stale \in SUBSET Keys,
           long_sms_cache' = [k \in Keys |-> IF k \in stale THEN Empty ELSE long_sms_cache[k]],
           disturbed' = disturbed \cup UNION {Held(k) : k \in stale},
           UNCHANGED <<received, published, now>>, clear_timestamp' \in 0..now,
           restarts' \in 0..MaxRestarts, loop' \in {"top", "wait"}, Clock'
    PROVE  IInv'
<1>1. Empty.len = 0 /\ DOMAIN Empty.at = {}
  BY DEF Empty
<1>2. \A k \in Keys : k \notin stale => Held(k)' = Held(k)
  BY DEF Held
<1>3. \A k \in stale : Held(k)' = {}
  BY <1>1 DEF Held
<1>4. TypeOK'
  <2>1. UNION {Held(k) : k \in stale} \subseteq Messages
    BY DEF IInv, TypeOK, Held
  <2>2. ASSUME NEW k \in Keys
        PROVE  LET v == long_sms_cache'[k]
               IN /\ v.len \in 0..Byte - 1 /\ DOMAIN v.at \subseteq 1..v.len
                  /\ \A n \in DOMAIN v.at : v.at[n].part.msg \in Messages /\ v.at[n].time \in 0..now'
    BY <1>1, NumbersAssumption DEF IInv, TypeOK
  <2> QED BY <2>1, <2>2 DEF IInv, TypeOK
<1>5. Slots' /\ JoinedComplete' /\ Counts'
  BY <1>1 DEF IInv, Slots, JoinedComplete, Counts
<1>6. Alone'
  BY <1>2, <1>3, KeyType DEF IInv, Alone
<1>7. Progress'
  <2> SUFFICES ASSUME NEW q \in Messages \ disturbed', Total(q) < Byte
               PROVE  \/ Sent(q) \in published
                      \/ /\ Total(q) > 1
                         /\ \A j \in Positions(q) : received[q][j] > 0 => Waiting(q, j)'
                      \/ Total(q) = 1 /\ received[q][1] = 0
    BY DEF Progress
  <2>1. q \in Messages \ disturbed /\ Key(q) \in Keys /\ (Key(q) \in stale => q \notin Held(Key(q)))
    BY KeyType
  <2>2. \A j \in Positions(q) : Waiting(q, j) => q \in Held(Key(q))
    BY PartType DEF Waiting, Held
  <2>3. \A j \in Positions(q) : Waiting(q, j) => Waiting(q, j)'
    BY <2>1, <2>2 DEF Waiting
  <2> QED BY <2>1, <2>3 DEF IInv, Progress
<1> QED BY <1>4, <1>5, <1>6, <1>7 DEF IInv

(* The clean-up leaves no part that is older than one period.              *)
LEMMA CheckKeeps == ASSUME IInv, Check PROVE IInv'
<1>1. /\ loop' = "wait" /\ UNCHANGED <<received, published, now, restarts>>
      /\ DOMAIN long_sms_cache = Keys
  BY DEF Check, IInv, Slots
<1>2. CASE ~(clear_timestamp + ClearDuration < now)
  <2>1. UNCHANGED <<long_sms_cache, disturbed, clear_timestamp>>
    BY <1>2 DEF Check
  <2>2. TypeOK' /\ Slots' /\ JoinedComplete' /\ Counts'
    BY <1>1, <2>1 DEF IInv, TypeOK, Slots, JoinedComplete, Counts
  <2>3. Clock'
    BY <1>1, <1>2, <2>1, NumbersAssumption DEF IInv, Clock, TypeOK
  <2>4. Alone' /\ Progress'
    BY <1>1, <2>1 DEF IInv, Alone, Held, Progress, Waiting
  <2> QED BY <2>2, <2>3, <2>4 DEF IInv
<1>3. CASE clear_timestamp + ClearDuration < now
  <2> DEFINE stale == {k \in Keys : Stale(long_sms_cache[k])}
  <2>1. /\ long_sms_cache' = [k \in Keys |-> IF k \in stale THEN Empty ELSE long_sms_cache[k]]
        /\ disturbed' = disturbed \cup UNION {Held(k) : k \in stale}
        /\ clear_timestamp' = now
    BY <1>3 DEF Check
  <2>2. \A k \in Keys : \A n \in DOMAIN long_sms_cache[k].at :
           k \notin stale => now <= long_sms_cache[k].at[n].time + ClearDuration
    BY NumbersAssumption DEF Stale, IInv, TypeOK
  <2>3. Clock'
    BY <1>1, <2>1, <2>2, NumbersAssumption DEF IInv, TypeOK, Clock, Empty
  <2>4. clear_timestamp' \in 0..now /\ restarts' \in 0..MaxRestarts /\ stale \in SUBSET Keys
    BY <1>1, <2>1, NumbersAssumption DEF IInv, TypeOK
  <2> HIDE DEF stale
  <2> QED BY <2>1, <2>3, <2>4, <1>1, GivenUp
<1> QED BY <1>2, <1>3

(* The clock is ahead of the last clean-up by one period, or by one period *)
(* and a turn before the loop has made its checks.                         *)
LEMMA SleepKeeps == ASSUME IInv, Sleep PROVE IInv'
<1>1. /\ loop = "wait" /\ loop' = "top" /\ now < MaxTime /\ now' = now + 1
      /\ UNCHANGED <<received, long_sms_cache, published, disturbed, clear_timestamp, restarts>>
  BY DEF Sleep
<1>2. TypeOK'
  BY <1>1, NumbersAssumption DEF IInv, TypeOK
<1>3. Slots' /\ JoinedComplete' /\ Counts'
  BY <1>1 DEF IInv, Slots, JoinedComplete, Counts
<1>4. Clock'
  BY <1>1, NumbersAssumption DEF IInv, TypeOK, Clock
<1>5. Alone' /\ Progress'
  BY <1>1 DEF IInv, Alone, Held, Progress, Waiting
<1> QED BY <1>2, <1>3, <1>4, <1>5 DEF IInv

(* A restart gives up every vector.                                        *)
LEMMA RestartKeeps == ASSUME IInv, Restart PROVE IInv'
<1>1. /\ restarts < MaxRestarts /\ restarts' = restarts + 1
      /\ long_sms_cache' = [k \in Keys |-> IF k \in Keys THEN Empty ELSE long_sms_cache[k]]
      /\ disturbed' = disturbed \cup UNION {Held(k) : k \in Keys}
      /\ clear_timestamp' = now /\ loop' = "top"
      /\ UNCHANGED <<received, published, now>>
  BY DEF Restart
<1>2. Clock'
  BY <1>1, NumbersAssumption DEF IInv, TypeOK, Clock, Empty
<1>3. clear_timestamp' \in 0..now /\ restarts' \in 0..MaxRestarts
  BY <1>1, NumbersAssumption DEF IInv, TypeOK
<1> QED BY <1>1, <1>2, <1>3, GivenUp

(* The invariant of every run of the entity.                               *)
THEOREM Invariance == Spec => []IInv
<1>1. Init => IInv
  BY InitIInv
<1>2. IInv /\ [Next]_vars => IInv'
  <2> SUFFICES ASSUME IInv, [Next]_vars PROVE IInv'
    OBVIOUS
  <2>1. ASSUME NEW m \in Messages, ReceiveWhole(m) PROVE IInv'
    BY <2>1, ReceiveWholeKeeps
  <2>2. ASSUME NEW m \in Messages, NEW i \in Positions(m), ReceivePart(m, i) PROVE IInv'
    BY <2>2, ReceivePartKeeps
  <2>3. ASSUME NEW m \in Messages, NEW i \in Positions(m), ReceiveMisnumbered(m, i) PROVE IInv'
    BY <2>3, DroppedKeeps DEF ReceiveMisnumbered
  <2>4. ASSUME NEW m \in Messages, NEW i \in Positions(m), ReceiveZero(m, i) PROVE IInv'
    BY <2>4, DroppedKeeps DEF ReceiveZero
  <2>5. CASE Check
    BY <2>5, CheckKeeps
  <2>6. CASE Sleep
    BY <2>6, SleepKeeps
  <2>7. CASE Restart
    BY <2>7, RestartKeeps
  <2>8. CASE UNCHANGED vars
    <3>1. UNCHANGED <<received, long_sms_cache, published, disturbed, now, clear_timestamp, loop, restarts>>
      BY <2>8 DEF vars
    <3>2. TypeOK' /\ Slots' /\ JoinedComplete' /\ Clock' /\ Counts'
      BY <3>1 DEF IInv, TypeOK, Slots, JoinedComplete, Clock, Counts
    <3>3. Alone' /\ Progress'
      BY <3>1 DEF IInv, Alone, Held, Progress, Waiting
    <3> QED BY <3>2, <3>3 DEF IInv
  <2> QED BY <2>1, <2>2, <2>3, <2>4, <2>5, <2>6, <2>7, <2>8 DEF Next
<1> QED BY <1>1, <1>2, PTL DEF Spec

(* Every part is at a place of its vector that exists: handle_long_sms     *)
(* never writes outside of it.                                             *)
THEOREM TypeCorrect == Spec => []TypeOK
BY Invariance, PTL DEF IInv

(* In a published text every part is at its number, and of a message that  *)
(* a byte can number it has all the parts, each in its place.  What is     *)
(* published of a longer message is not whole, and nothing is claimed.     *)
THEOREM CompleteTexts == Spec => []JoinedComplete
BY Invariance, PTL DEF IInv

(* A message that nothing got in the way of, and that a byte can number,   *)
(* is published as it was sent once all of its parts came.                 *)
THEOREM WholeTexts == Spec => []WholeWhenAlone
<1>1. IInv => WholeWhenAlone
  <2> SUFFICES ASSUME IInv, NEW m \in Messages \ disturbed, Total(m) < Byte,
                      \A i \in Positions(m) : received[m][i] > 0, Sent(m) \notin published
               PROVE  FALSE
    BY DEF WholeWhenAlone
  <2>1. Total(m) \in Nat \ {0} /\ 1 \in Positions(m)
    BY TotalType DEF Positions
  <2>2. Total(m) > 1 /\ \A i \in Positions(m) : Waiting(m, i)
    BY <2>1 DEF IInv, Progress
  <2>3. /\ \A i \in Positions(m) : i \in DOMAIN long_sms_cache[Key(m)].at
        /\ long_sms_cache[Key(m)].len = Total(m)
    BY <2>1, <2>2 DEF Waiting
  <2>4. Full(long_sms_cache[Key(m)])
    BY <2>3 DEF Full, Positions
  <2> QED BY <2>1, <2>3, <2>4, KeyType DEF IInv, Slots
<1> QED BY <1>1, Invariance, PTL

(* No part is kept for longer than two periods and a turn of the loop.     *)
THEOREM NothingStays == Spec => []StaleBounded
<1>1. IInv => StaleBounded
  BY NumbersAssumption DEF IInv, TypeOK, Clock, StaleBounded
<1> QED BY <1>1, Invariance, PTL
=============================================================================
