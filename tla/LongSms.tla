------------------------------ MODULE LongSms ------------------------------
(***************************************************************************)
(* Long messages: the encoders of src/src/protocol cut a text of more than *)
(* 140 bytes into parts that carry their number and how many they are; the *)
(* entity that receives the parts joins them again (handle_long_sms of     *)
(* src/src/entity/entity_running.rs) and drops what waited too long.       *)
(*                                                                         *)
(* A part reaches the entity over any of the peer's connections, so parts  *)
(* come in any order and those of several messages come mixed; a peer that *)
(* saw no answer sends a part again.  The channel has answered a part      *)
(* before the entity sees it: what is lost here, nobody sends again.       *)
(***************************************************************************)
EXTENDS Integers, Sequences, FiniteSets

CONSTANTS
    Messages,      \* [src, dests, bytes, inside, no_dests], see MessagesAssumption
    One, HeadLen,  \* bytes of a frame's text, and of the head of a part: 140, 6
    Byte,          \* values of a u8: 256
    MaxCopies(_, _), \* bound: how often part i of message m is received
    ClearDuration, \* 86400 seconds, in units of one turn of the loop (10 seconds)
    MaxTime,       \* bound of the clock
    MaxRestarts    \* bound: entities closed and opened again

(* src, dests: telephone numbers, as digits.  inside: the bytes before     *)
(* which the text must not be cut, as they continue a character.  no_dests:*)
(* the decoder leaves DEST_IDS out (a Submit of SMGP).                     *)
ASSUME MessagesAssumption ==
    \A m \in Messages : /\ m.bytes \in Nat /\ m.inside \subseteq Nat
                        /\ m.no_dests \in BOOLEAN /\ 1 \in DOMAIN m.dests
ASSUME NumbersAssumption ==
    /\ One \in Nat /\ HeadLen \in Nat /\ HeadLen < One /\ Byte \in Nat /\ Byte > 1
    /\ ClearDuration \in Nat /\ MaxTime \in Nat /\ MaxRestarts \in Nat
---------------------------------------------------------------------------
(* Cutting: encode_submit and encode_deliver of every protocol. *)

Cut == One - HeadLen
Total(m) == IF m.bytes <= One THEN 1 ELSE (m.bytes + Cut - 1) \div Cut
Positions(m) == 1..Total(m)

(* Both numbers are put as u8.  "pos" is not sent: it says which bytes of  *)
(* the text the part has.                                                  *)
(* The numbers as if a byte had room for them:                             *)
Part_XWide(m, i) == [msg |-> m, pos |-> i, number |-> i, total |-> Total(m)]
Part(m, i) == [msg |-> m, pos |-> i, number |-> i % Byte, total |-> Total(m) % Byte]

(* decode_msg_content decodes every part by itself and strictly: half a    *)
(* character at an end is an error, and the part never gets to the entity. *)
Readable(m, i) ==
    /\ i = 1 \/ (i - 1) * Cut \notin m.inside
    /\ i = Total(m) \/ i * Cut \notin m.inside

(* The digits of the sender's number and of the first receiver's, one      *)
(* after the other; nothing else tells two texts apart.                    *)
Key(m) == m.src \o IF m.no_dests THEN <<>> ELSE m.dests[1]
Keys == {Key(m) : m \in Messages}

ASSUME CopiesAssumption == \A m \in Messages : \A i \in Positions(m) : MaxCopies(m, i) \in Nat
---------------------------------------------------------------------------
VARIABLES
    received,      \* history: how often each part was received
    long_sms_cache,\* Keys -> vector: its length and the parts at their numbers
    published,     \* history: the texts that went to the queue, as their parts
    disturbed,     \* history: messages another one, a restart or the clock got in the way of
    now,           \* the clock
    clear_timestamp,
    loop,          \* "top": before the checks of the loop, "wait": in its select, "dead"
    restarts

vars == <<received, long_sms_cache, published, disturbed, now, clear_timestamp, loop, restarts>>

Empty == [len |-> 0, at |-> [n \in {} |-> n]]    \* no entry: a vector has a length of two at least
Held(k) == {long_sms_cache[k].at[n].part.msg : n \in DOMAIN long_sms_cache[k].at}

Init ==
    /\ received = [m \in Messages |-> [i \in Positions(m) |-> 0]]
    /\ long_sms_cache = [k \in Keys |-> Empty]
    /\ published = {} /\ disturbed = {}
    /\ now = 0 /\ clear_timestamp = 0 /\ loop = "top" /\ restarts = 0
---------------------------------------------------------------------------
(* handle_long_sms *)

Misnumbered(p) == p.number > p.total \/ p.total < 2

(* A vector left by a message of another length is replaced.               *)
(* Without the comparison of the lengths:                                  *)
Place_XKeepsLength(v, p) ==
    [len |-> IF v.len = 0 THEN p.total ELSE v.len,
     at |-> [n \in DOMAIN v.at \cup {p.number} |->
                IF n = p.number THEN [part |-> p, time |-> now] ELSE v.at[n]]]
Place(v, p) ==
    LET kept == IF v.len = p.total THEN v.at ELSE Empty.at
    IN [len |-> p.total,
        at |-> [n \in DOMAIN kept \cup {p.number} |->
                   IF n = p.number THEN [part |-> p, time |-> now] ELSE kept[n]]]

(* Complete as soon as the last place is taken:                            *)
Full_XLast(v) == v.len \in DOMAIN v.at
Full(v) == \A n \in 1..v.len : n \in DOMAIN v.at

Text(v) == [n \in DOMAIN v.at |-> v.at[n].part]

(* Who is in the way of whom: the parts under one key are of one message,  *)
(* or the messages get mixed; only a remainder of another length does no   *)
(* harm to the message that finds it.                                      *)
Disturbed(m, v, p) ==
    LET others == Held(Key(m)) \ {m}
    IN others \cup (IF others # {} /\ v.len = p.total THEN {m} ELSE {})

Publish(text) == published' = published \cup {text}

(* What the entity does with a part; a text of one frame has no numbers.   *)
handle_long_sms(m, p) ==
    LET v == long_sms_cache[Key(m)]
        w == Place(v, p)
    IN IF Full(w)
       THEN /\ Publish(Text(w))
            /\ long_sms_cache' = [long_sms_cache EXCEPT ![Key(m)] = Empty]
       ELSE /\ long_sms_cache' = [long_sms_cache EXCEPT ![Key(m)] = w]
            /\ UNCHANGED published

Arrives(m, i) ==
    /\ loop = "wait" /\ Readable(m, i)
    /\ received[m][i] < MaxCopies(m, i)
    /\ received' = [received EXCEPT ![m][i] = @ + 1]
    /\ UNCHANGED <<now, clear_timestamp, restarts>>

ReceiveWhole(m) ==
    /\ Total(m) = 1
    /\ Arrives(m, 1) /\ Publish([n \in {1} |-> Part(m, 1)])
    /\ loop' = "top" /\ UNCHANGED <<long_sms_cache, disturbed>>

ReceivePart(m, i) ==
    LET p == Part(m, i)
    IN /\ Total(m) > 1 /\ ~Misnumbered(p) /\ p.number # 0
       /\ Arrives(m, i)
       /\ handle_long_sms(m, p)
       /\ disturbed' = disturbed \cup Disturbed(m, long_sms_cache[Key(m)], p)
       /\ loop' = "top"

(* "cannot be put in": logged, and the part is gone. *)
ReceiveMisnumbered(m, i) ==
    /\ Total(m) > 1 /\ Misnumbered(Part(m, i))
    /\ Arrives(m, i)
    /\ loop' = "top" /\ UNCHANGED <<long_sms_cache, published, disturbed>>

(* Number 0: index - 1 overflows, or is no index of the vector, and the    *)
(* task panics.                                                            *)
ReceiveZero(m, i) ==
    /\ Total(m) > 1 /\ Part(m, i).number = 0 /\ ~Misnumbered(Part(m, i))
    /\ Arrives(m, i)
    /\ loop' = "dead" /\ UNCHANGED <<long_sms_cache, published, disturbed>>
---------------------------------------------------------------------------
(* An entry goes once all of its parts are too old:                         *)
Stale_XAll(v) == \A n \in DOMAIN v.at : v.at[n].time + ClearDuration < now
(* clear_long_sms_cache: an entry goes with everything in it as soon as    *)
(* one of its parts is too old.                                            *)
Stale(v) == \E n \in DOMAIN v.at : v.at[n].time + ClearDuration < now

(* The checks at the top of the loop. *)
Check ==
    /\ loop = "top" /\ loop' = "wait"
    /\ IF clear_timestamp + ClearDuration < now
       THEN LET stale == {k \in Keys : Stale(long_sms_cache[k])}
            IN /\ long_sms_cache' = [k \in Keys |-> IF k \in stale THEN Empty ELSE long_sms_cache[k]]
               /\ disturbed' = disturbed \cup UNION {Held(k) : k \in stale}
               /\ clear_timestamp' = now
       ELSE UNCHANGED <<long_sms_cache, disturbed, clear_timestamp>>
    /\ UNCHANGED <<received, published, now, restarts>>

(* The select ends after 10 seconds at the latest, so the loop is at its   *)
(* top once in every unit of time.                                         *)
Sleep ==
    /\ loop = "wait" /\ now < MaxTime
    /\ now' = now + 1 /\ loop' = "top"
    /\ UNCHANGED <<received, long_sms_cache, published, disturbed, clear_timestamp, restarts>>

(* The manager closes the entity and opens it again, or the process does   *)
(* so: the cache is in memory only.                                        *)
Restart ==
    /\ restarts < MaxRestarts /\ restarts' = restarts + 1
    /\ long_sms_cache' = [k \in Keys |-> Empty]
    /\ disturbed' = disturbed \cup UNION {Held(k) : k \in Keys}
    /\ clear_timestamp' = now /\ loop' = "top"
    /\ UNCHANGED <<received, published, now>>

Next ==
    \/ \E m \in Messages :
          \/ ReceiveWhole(m)
          \/ \E i \in Positions(m) : \/ ReceivePart(m, i)
                                     \/ ReceiveMisnumbered(m, i)
                                     \/ ReceiveZero(m, i)
    \/ Check \/ Sleep \/ Restart

Spec == Init /\ [][Next]_vars
---------------------------------------------------------------------------
(* A vector has a length that fits a byte and holds parts at places that   *)
(* exist (vec![None; total], vec[index]).                                  *)
TypeOK ==
    /\ \A m \in Messages : \A i \in Positions(m) : received[m][i] \in 0..MaxCopies(m, i)
    /\ \A k \in Keys :
          LET v == long_sms_cache[k]
          IN /\ v.len \in 0..Byte - 1 /\ DOMAIN v.at \subseteq 1..v.len
             /\ \A n \in DOMAIN v.at : v.at[n].part.msg \in Messages /\ v.at[n].time \in 0..now
    /\ disturbed \subseteq Messages
    /\ now \in 0..MaxTime /\ clear_timestamp \in 0..now /\ restarts \in 0..MaxRestarts
    /\ loop \in {"top", "wait", "dead"}

(* In a text that is published every part is at its number, and of a       *)
(* message that a byte can number all the parts are there, each in its     *)
(* place, whatever came mixed, twice or out of order (entity_running.rs:   *)
(* 453, the vector of a message that was never completed; :465, the test   *)
(* that none is missing).  Nothing is said of a message of more parts: its *)
(* last ones say they are 1, 2, ... of the remainder, and are published.   *)
JoinedComplete ==
    \A text \in published :
        \A n \in DOMAIN text :
            LET m == text[n].msg
            IN /\ text[n].number = n \/ Total(m) = 1
               /\ Total(m) < Byte => DOMAIN text = Positions(m) /\ text[n].pos = n

(* A message whose parts were all received is published as it was sent,    *)
(* unless another of its key, of the same length, got between its parts, a *)
(* shorter or longer one came before it was complete, its parts were given *)
(* up, or it has more parts than a byte can number.  A remainder of a      *)
(* message of another length does not count (entity_running.rs:453).       *)
Sent(m) == [i \in Positions(m) |-> Part(m, i)]
WholeWhenAlone ==
    \A m \in Messages \ disturbed :
        Total(m) < Byte /\ (\A i \in Positions(m) : received[m][i] > 0) => Sent(m) \in published

(* No part waits longer than two periods of the clean-up and a turn of the *)
(* loop: the test runs once per period, and a part just young enough then  *)
(* stays for one more (entity_running.rs:161, 190).                        *)
StaleBounded ==
    \A k \in Keys : \A n \in DOMAIN long_sms_cache[k].at :
        now - long_sms_cache[k].at[n].time <= 2 * ClearDuration + 1
===========================================================================
