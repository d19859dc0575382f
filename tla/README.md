# Verification of the SMS gateway

TLA+ models of the gateway in `src/`, the TLC runs that check them on small instances, and theorems
about them checked by TLAPS.  `PROJECT.json` maps every definition to the lines it models.

## 1. The system

The gateway stands between a business system, reached over Kafka, and SMS peers, reached over TCP with
the CMPP, SGIP and SMGP protocols.

```
 Kafka topics            manager_to_entity        priority / common queue
 send.*, *.add  ---> EntityManager -------> entity task ----------------> channel task <--TCP--> peer
 sms.*, *.state <------------------------------|  ^                            |
   (producer, one task per message)               +---- channel_to_entity -----+
                                                  +-- Connect -- login_attach --> TEMP_SAVE (send handles)
```

| Component | State | Operations | What is hard | What makes it correct |
|---|---|---|---|---|
| **Entity task** `entity_running.rs` (one per passage or account) | list of send handles, round-robin index, `wait_receipt_map`, `long_sms_cache`, `is_buff_full`, shared `now_conn_num` | place a message on a channel; wait for answers; resend after 30 s; clear after 4 days; attach, detach; report the state; close | an await in every iteration of the send loop; messages that come back by five ways; a report after some changes and not after others | nothing taken is lost, nothing single doubled, the last report is true, every message settles |
| **Channel task** `channel.rs` (one per connection) | two receive queues, window counters, heartbeat flag | write, bounce, echo, answer inbound, heartbeat, clear, drop | ends in nine ways, with and without `clear()`; the Terminate of `Drop` comes from a task of its own | its queue is reported when it ends, its handle goes, an acknowledged inbound message arrives |
| **Login** `as_server.rs`, `as_custom.rs`, `mod.rs`, `channel.rs:82-128, 388-495` | `TEMP_SAVE`, its lock, registry lock | check the number, park the handles, queue the Connect | check and use apart; an await under a lock | parked handles are picked up once; every login ends |
| **Entity manager** `entity_manager.rs` | `entitys` (what logins find), `senders` (whom it sends to), the record in hand | forward, ask for the state, (re)create, remove; commit of the offsets | close and create under the same id while logins and connects are under way, a full queue under the registry's lock, a crash | one reachable task per id, a closed one is told nothing more, the two maps agree |
| **Reconnect loop** `as_server.rs:124-175` | none | every 10 s as many connects as places are free | connects still in flight are not counted | it ends with its entity |
| **Listeners** `services.rs` | none | accept, spawn | - | - |
| **Handshake** `channel.rs:82-128, 388-495`, `mod.rs` | protocol and decoder of each end | login, its checks, choice of the version | the version changes between two frames | both ends speak the same protocol from the first frame on |
| **Codecs** `protocol/` | none | encode, decode, split long contents, receipts | lengths, widths and jumps stated by hand in both directions | a frame is read as it was written, its answer finds it |
| **Long messages** `entity_running.rs:161-208, 435-505`, `implements.rs` | `long_sms_cache` | cut, number, join, clear | parts of several messages mixed, repeated, incomplete, unnumberable | what is published is complete, what came is published, as far as a byte can number it |
| **Kafka** `message_queue/`, `global.rs` | producer | one task per published message; auto-commit of what was read | order, crash | a restart loses at most the one record the manager had not got through with |

The hazards of this code are in `PROJECT.json`, each at its line, with the property that watches it or the
reason why none does yet.

## 2. Modules

| Module | Models | Extends |
|---|---|---|
| `GatewayBase` | constants and their assumptions, queues and shared state between the tasks, message forms | - |
| `EntityRunning` | the entity task: one action per handler, an action per iteration of each loop that awaits | `GatewayBase` |
| `Channel` | `login_attach`, `start_work`, `clear`, `Drop` of every connection; the peers' moves | `GatewayBase` |
| `Gateway` | composition; the manager as the environment; the passage of time | both |
| `GatewayProperties` | type invariant, safety, fairness, liveness, statements of the repository's own comments | `Gateway` |
| `MCGateway` | values for TLC | `GatewayProperties` |
| `GatewayProofs` | theorems about the types and about what the entity reports | `GatewayProperties`, TLAPS |
| `HandleProofs` | theorems about the send handles on their way to and from the entity | `GatewayProofs` |
| `CustodyProofs` | theorems about what holds a message, and the lemmas on the flow of messages they need | `GatewayProofs` |
| `AnswerProofs` | theorems about answers and the copies that wait for one | `CustodyProofs` |
| `EntityRegistry` | abstract: what the manager promises of every id (one entity at a time, told a sequence of things that "close" ends) | - |
| `EntityManager` | the manager's task, the registry and its lock, what the entities, the reconnect loops and the logins do with them, offsets and restarts; its properties and `ImplementsRegistry` | - |
| `MCEntityManager`, `EntityManagerProofs` | values for TLC; theorems | `EntityManager` |
| `Codecs` | layouts of every frame the four protocols write and read, type, status and version tables, receipts, required keys: operators without state | - |
| `Session` | a connection between two ends of this code: handshake, version choice, frames, answers, streams out of step; its properties | `Codecs` |
| `CodecProofs` | theorems about the layouts and tables, for every length of a content and number of receivers | `Codecs` |
| `MCSession`, `SessionProofs` | values for TLC; theorems | `Session` (the theorems `CodecProofs` too) |
| `LongSms` | cutting long texts and joining them again; its properties | - |
| `MCLong`, `LongSmsProofs` | values for TLC; theorems | `LongSms` |

The four groups meet where one system hands something to the next, and each sees of the others what it
depends on.  `Gateway` has one entity with its channels in full; `EntityManager` has many entities and of
each only its queue, its handles and its end.  `Session` has what is on the wire; `Gateway` has a message's
number of frames and whether it encodes.  `LongSms` is the part of the entity that no other handler touches.

**Grain.**  An action runs from one await to the next.  `send_to_channels` awaits once per loop iteration,
so an iteration is an action (`TryChannel`) and connections die between two of them.  The two channel
queues have a capacity of 2^32-1 (`CHANNEL_BUFF_NUM`) and never block; the entity's own queue has
`read_limit` places for a server entity, so a channel's `send(..).await` there is split: the message is in
`hand[c]` until `PushHand` finds room.  `TEMP_SAVE.write()` is likewise split from what follows it
(`TakeConnect`/`ChannelConnected`, `LoginCheck`/`Park`/`Announce`), and is held by a login from `Park` to
`Announce`.

**Data.**  A message is a model value with a type, a number of msg_ids (`MsgIds`), a number of frames
(`Frames`) and a priority; a sequence number is `<<message, attempt, part>>`, which is what the uniqueness
of `get_sequence_id` gives.  An entry of `wait_receipt_map` keeps the message, the part, `NEED_RE_SEND` and
an age of three steps (under 30 s, over 30 s, over 4 days).  `now_conn_num` is a u8.  `answered`,
`unmatched`, `timed_out`, `forwarded`, `failed` and `last_state` record what was published.

**Correspondence worth knowing when reading against the code.**

- `Write` sets `wait`, the model's `WAIT_RECEIPT`; a message that bounces on a second attempt still has it
  and takes the caching branch (`CacheSent`), as in `entity_running.rs:261`.
- `MsgNum` is `MSG_IDS.len()`: a Deliver gets its MSG_IDS from the encoder, so it counts nothing at first and
  its frames when it is sent again.
- `WriteTerminate`: the Terminate a closing entity queues is encoded and echoed like any message, and the
  entity ignores its echo because it has no id.  It does not end the channel: that happens when the entity
  has dropped its handles (`SendersLeft`) or the peer closes.
- A common queue can end the task (`SendersGone`) only when it is empty as well: tokio's `recv` delivers
  what is queued first.  With no handle left, though, the priority `recv` is ready with `None` and, the
  select being biased, wins over the common queue: what waits there goes through `clear()`.
- `RecheckBuffer` is an existential: the loop of `entity_running.rs:240-249` stops at the first channel with
  room.
- `CloseEntity` needs `entitys.write()`, which logins exclude from their lookup until they have announced
  themselves (`channel.rs:443`).

**The manager.**  `EntityManager` gives every `ServerEntity` or `CustomEntity` object a number (a
generation), as an id gets a new one at each add, init and modify.  A record is a model value with a topic and an id: `passage` stands
for `passage.add/.init/.modify`, `account` likewise, since the code treats the three alike.  The write lock
of the registry is taken by `LockRegistry` and released by `Create` or `Release`; between them is the await
on the queue of the entity that is closed (`TellClose`).  A login holds the read lock from `LoginCheck` to
`Announce`, and tokio's lock lets no reader pass a waiting writer (`Readable`).  With it it waits for
`TEMP_SAVE` (`Park`) and, holding both, for a place in the entity's queue, which for a server entity has `ReadLimit`
(`HasPlace`); an entity that took a Connect waits for `TEMP_SAVE` and takes nothing else (`TakeConnect`,
`HandleConnect`).  So the lock-up `MCLock` shows of `Gateway` happens here too, and here it reaches the manager
through the registry's lock: `LockedUp` names that state, and the liveness properties end in it or in what they
promise.  No commit is a step: a restart takes any commits the timer may have made (`Restart`, `MaxLag`).
`handle_from_entity_msg` is not modelled: no sender of its queue is ever handed out.

**The wire.**  A layout in `Codecs` is the sequence of fields an encoder puts or a decoder takes, with their
widths and the length the frame states: a field is `understood` when it is read at the offset and with the
width it was written.  Keys are named as in the JSON; encoders that `unwrap` a key fail without it.  A frame
longer than it says leaves bytes before the next (`deaf`): the decoder waits for a length it never gets, and
the heartbeat ends the connection.  What the code reads otherwise than it was written is listed in `Misread`
and `Mute` (of `Session`): answers to a Deliver in SGIP and SMGP, reports of SMGP and CMPP 2.0 and their
answers, every number of SGIP, the answer to a Submit in SMGP.  A report of SGIP bears the number of the message it
reports on and takes none (`Takes`), so it waits for no answer in `open`.  Nothing in the repository says otherwise of them, so they are
exceptions in the properties and entries under hazards, no findings.

**Long messages.**  A frame carries `One` bytes of text, a part `Cut` of them after a head of `HeadLen`; the
numbers are taken modulo `Byte`.  `disturbed` records the messages another one, the clean-up or a restart got
in the way of: the code joins parts by the two telephone numbers alone, so two messages of the same length between the same
numbers mix, and `WholeWhenAlone` says precisely what remains true.  A text of more parts than a byte can number is published
truncated, from parts that look like a whole by their wrapped numbers; `JoinedComplete` claims of it only that a
part is at the place of its number, and `MCLong` reaches the case (`Total(m) < Byte` is where the claim of completeness begins).

**Bounds** (all in the constants or in guards): `MaxTries` bounds refusals and time-outs of answers that
may still come, never time-outs of answers that cannot; `AskState` has one request waiting at a time;
`NoneWaiting` keeps one copy of a repeated Terminate or heartbeat in the queue; `curr_rx` saturates one
above its limit; each channel id is used by one connection, so `Channels` bounds the number of connections
in a behaviour; `index` is kept modulo `IndexCycle`, where the code wraps to 1 at `usize::MAX`: only its
residue modulo the number of handles matters, and the wrap is a jump to another residue in both.
The queue from the manager (0xff or 0x50 places) is never full with the messages of a run of `Gateway` and has no
bound there; in `EntityManager` it has `QueueCap` places.  There, `MaxGens` bounds the entities opened before a crash and after it,
`Conns` the connections (`Peers` those that peers open, `Late` those that may come after a crash too), `MaxRestarts` the
crashes and `MaxLag` the records read since the last commit; in `Session`, `MaxSends` the messages of an end; in `LongSms`,
`MaxCopies` the times a part comes, `MaxTime` the clock and `MaxRestarts` the restarts.

## 3. Runs

The first nine runs use `MCGateway`, the last three the module of their group.  They set `CHECK_DEADLOCK FALSE`: with every message settled and no request left
the system rightly waits.  States are distinct states found by TLC.

| Run | Instance | Shows |
|---|---|---|
| `MCServer` | server, 2 connections, a priority Submit of 2 parts and a Submit of 1, buffer 1, window 2, closing peers, refusals, time-outs; 3.1 M states | `TypeOK`, `LoopBound`, `StaleHandleIsAnnounced`, `ParkedIsAnnounced`, `UnmatchedOnlyAfterTimeout`, `PartCustody`, `SingleCopy` |
| `MCFull` | server, 2 connections, 3 ordinary Submits, buffer 1: the buffer fills, drains, is lost with its channel, fills again; 0.8 M | `ReportedIsCurrent` |
| `MCCustom` | custom, 2 connections, one Deliver out and one Submit in, aborting and terminating clients, close at any moment; 2.0 M | `ReportedIsCurrent`, `StaleHandleIsAnnounced`, `ParkedIsAnnounced`, `InboundCustody`, `SingleCopy` |
| `MCEdge` | custom, 1 connection, every limit 1: unencodable messages, failing writes, missed heartbeats, inbound beyond the limit with and without an answer frame, state requests, 4-day clearing, close; 0.26 M | `ReportedIsCurrent`, `UnmatchedOnlyAfterTimeout`, `InboundCustody` |
| `MCLive` | server, 2 connections of which one is read-only, a priority Submit of 2 parts and a Submit of 1, a queue of 2 places, closing peers, refusals, time-outs, the 4-day clearing, fair tasks; 0.40 M | `EverySendSettles`, `DeadHandleGoes` |
| `MCLock` | server, queue of 1 place, 2 logins | violated: `EveryLoginWorks` (finding) |
| `MCLongLimited` | one message of 2 parts, refusals | violated: `LongSentAgainOnce` (finding) |
| `MCBadFrame` | a frame that cannot be decoded | violated: `BadFrameCostsNoMessage` (finding) |
| `MCBuffFull` | as `MCFull`, fair tasks, time-outs | violated: `BufferFullEnds` (finding) |
| `MCManager` | 1 id besides 0, 5 records (add, modify to an account, an add without an address, a send, a request to all), a reconnect and a peer's connection, 2 entities before a crash and 2 after it, queues of 1 place to and from the entities, 1 crash that reads 1 record again at most; 0.29 M | `TypeOK`, `RegistriesAgree`, `NoOrphanTask`, `LoginSeesOpenEntity`, `LostOnePerRestart`, `ImplementsRegistry` (refinement), `ManagerReturns`, `ClosedEntityGoes` (liveness) |
| `MCSession` | 6 configurations of the client (both CMPP versions, an unknown one, SMGP, SGIP, a missing key) and 5 accounts (one accepted, four refused for a reason each), 2 messages per end of every kind, one and two receivers, one and two frames; 0.27 M | `TypeOK`, `ProtocolsAgree`, `FramesUnderstood`, `AnswerFindsItsMessage`, `SentIsAnswered` (liveness) |
| `MCLong` | 5 messages under 1 key: two of two parts (one cut within a character), one of three, one of one frame, one of six parts where a byte counts to 3, its first two parts lost; a repeated part, the clean-up every 2 turns, 1 restart; 2.9 M | `TypeOK`, `JoinedComplete`, `WholeWhenAlone`, `StaleBounded` |

**Why the bounds are enough.**  Two connections are the least with which a message moves from a dead one to
a live one, the round-robin index matters, and logins race; two messages the least with which priority
order and a bounce by another's window happen; two parts tell the first entry from the others; one refusal
or time-out more than the first attempt makes an attempt meet its successor.  The faults are distributed
over the runs so that each interacts with those it can disturb: `PartCustody` is checked where channels
end with `clear()`; the exits without it (abort, heartbeat) and unreported write errors lose messages by
design of the code, which `MCBadFrame` shows and the hazards record.

**Fairness** (`FairSpec`).  The tokio scheduler runs every ready task: weak fairness for the entity's steps
and for each channel's.  A task that awaits room in the entity's queue or the `TEMP_SAVE` lock is served
first come, first served, hence strong fairness for the three actions that queue for the entity.  `PeerReply`
is weakly fair: peers answer what they received, though perhaps with a refusal (bounded by `MaxTries`).
Time passes: `AnswersTimeOut` is weakly fair, and so is the clearing after four days (`DaysTimeOut`), once nothing
that waits is still to be sent again.  Nothing is assumed of logins, closing peers, or the business
side.  `MCLive` has a server queue of two places, enough for its two
connections never to fill it while a login waits: it does not claim that the lock-up of `MCLock` is absent, it asks whether
messages settle when it is avoided.  Bounds on `MaxTries` mean the run says: a message settles once the
peer stops refusing it.

**What settles means.**  Only the first part of a message is marked to be sent again (`NEED_RE_SEND`,
`entity_running.rs:415`, `:30`).  When the first part of a long message is answered and the channel closes before the
answer to the second, nothing is sent again and nobody is told: the entry of the second part is dropped after four
days.  The comment at `entity_running.rs:409` ("if the current one is not received, prepare to send all again")
would have it otherwise.  `EverySendSettles` says what the code does: nothing of the message stays in any
hand or entry, and it was published as failed, or its first part was answered and every further one was answered or
given up so (`GivenUp`).  `MCLive` reaches the last case: without it the property does not hold there.

In `MCManager` two connections are the least with which a login holds `TEMP_SAVE` while another connection's
Terminate fills the queue and its Connect is in the entity's hand, that is, with which `LockedUp` is reached; `ManagerReturns` is violated
there without that exception.  `ClosedEntityGoes` would need it from three connections on, of two entities.
One login is enough to overlap a close and a modify, because the lock orders
logins among themselves; a queue of one place makes the manager wait at every second thing it sends; two entities make a
predecessor and a successor under one id, and the topic of the second makes it of the other kind.  `MCSession` goes through every pair
of an encoder and the decoder that reads it.  `MCLong` scales the numbers (3 bytes a frame, 2 a part, a byte of two bits) so that
totals and numbers wrap to 0 and to values that look right, within six parts.

`EntityManager!FairSpec` has weak fairness for the manager's steps once it has a record, for the entity's steps, for
the end of a reconnect loop, and for a connection's parking, announcement and Terminate.  This is what the scheduler gives:
a task goes on when what it waits for stays free.  Nothing is assumed of a lock or a place that does not come free.
Connections lock and queue once or twice each, so none is overtaken for ever and weak
fairness is enough.  Records, peers, logins, commits and crashes need not come.  `ManagerReturns` and `ClosedEntityGoes` hold
except where logins and an entity have locked each other up (`LockedUp`), which a run of `Gateway` shows the code can do.
`ClosedEntityGoes` is about connections that were attached or announced; a connection whose handles still lie in `TEMP_SAVE`
when its entity goes keeps them there, and its task with them.  `Session!Fairness` has weak fairness for the tasks of both ends and the timers (the 3 s of
`wait_conn`, the heartbeat); nobody has to send or to close.

### Findings

1. `MCLock` (`as_server.rs:204`): a login waits for room in the entity's queue while it holds the global
   `TEMP_SAVE` lock, the entity waits for that lock while its queue is full.  Neither goes on, and no entity
   can attach connections any more.
2. `MCLongLimited` (`entity_running.rs:235`): each refused part of a long message sends the whole message
   again.
3. `MCBadFrame` (`channel.rs:365`): "skip the current message" ends the channel, and without `clear()`.
4. `MCBuffFull` (`entity_running.rs:239`): a buffer that empties through a closing channel is full for ever:
   the next connection is announced as BUFF_FULL with nothing queued.

### Mutants

Next to some definitions stands a second one with a suffix `_X...`: the same operation with a plausible
mistake (a message queued with `try_send`, a missing removal, an old value read, an unpublished state).  No
action uses it.  `PROJECT.json` lists which property notices which mistake; each passing property notices
one at least.

## 4. Proofs

TLC checks the instances above; the theorems hold for every value of the constants that satisfies the
named assumptions (of `Gateway`: `ChannelsAssumption`, `OutsAssumption`, `InsAssumption`, `LimitsAssumption`,
`FaultsAssumption`, `RequestsAssumption`, `NoneAssumption`; of `EntityManager`: `IdsAssumption`, `ConnsAssumption`, `MsgsAssumption`,
`NumbersAssumption`; of `Session`: `ConfigsAssumption`, `MessagesAssumption`, `NumbersAssumption`; of `LongSms`: `MessagesAssumption`, `NumbersAssumption`, `CopiesAssumption`): any number
of connections, messages, parts, ids, records and limits.

- **`TypeCorrect`** (`GatewayProofs`): `Spec => []TypeOK`.  One lemma per action.  `TypeOK` is inductive as
  it stands; it needs that only encoded messages carry `wait`, and that the loop selects an existing handle.
- **`LoopIsBounded`**, **`ReportsAreCurrent`** (`GatewayProofs`).  `ReportedIsCurrent` is not inductive: in
  the send loop handles vanish without a report.  `RInv` adds that the counter is exact, that `left` never
  exceeds the number of handles, and that inside the loop the report is current or no handle is left: with
  none left no iteration remains, so `NoChannelTook` reports.  `now_conn_num` wraps at 256, so the theorem is
  about behaviours with fewer than 256 handles (`FewHandles`); **`FewConnections`** (`HandleProofs`) discharges
  this for fewer than 256 connections, because handles are distinct.
- **`ParkedHandlesAreAnnounced`**, **`StaleHandlesAreAnnounced`** (`HandleProofs`).  A handle may be attached
  after its channel has died, so that the Terminate is still to come needs the order of the queue: in `HInv`
  a dead channel's Terminate stands behind its Connect (`TerminateBehind`), and behind the head once the
  Connect is taken or the handle attached.

- **`InboundSafe`** (`CustodyProofs`): `Spec => []InboundCustody`, inductive with `TypeOK`.  `ChannelFlow` says what
  little a step of a connection can do to any message, whatever else it does, and is what the proofs of this
  module go by.
- **`PartsSafe`**: `Lossless => (Spec => []PartCustody)`.  `Lossless` excludes the ways in which the code does
  lose a message, and no others: a channel that ends without `clear()` (`abort`, `silence`), an ordinary message
  that cannot be written (it is only logged) or encoded, frames beyond the msg_ids of their message, and entries
  cleared after four days.  `MCServer` and `MCLive` are instances of it, with refusals, time-outs and closing peers, and
  each excluded way is among the hazards.  `CustodyInv` says that a message that was sent carries the numbers of
  one of its encodings (`ItemsEncoded`), that an entry of `wait_receipt_map` stands under the number of its part
  (`EntriesKeyed`, `KeysNamed`), that nothing is left to send again when the entity takes something else
  (`ResendsDone`), that the common queues hold no message of priority, and that no entry is old.  Every part then stays in some hand: the message is held whole, or is under way, or the part
  has its entry.  The step all of it leads to is the echo (`EchoCached`): it makes an entry for each part, and here the numbers
  must be those of one encoding, one per frame, and the msg_ids enough.
- **`AnswersFindTheirEntry`** (`AnswerProofs`): `Spec => []UnmatchedOnlyAfterTimeout`, with no hypothesis on faults.  Of every
  number, `AnswerInv` says that it was given out before it is on its way (`Given`), that it is on one wire, in one
  hand or at one place of the queue (`Once`), and that its entry exists, existed, or its echo is ahead of it
  (`Ahead`): behind the echo in the queue, or still on the wire while the echo is in the hand of the task that would
  have to read the answer.  The queue's order is what carries the proof over the handover.
- **`CopiesAreSingle`**: `Spec => []SingleCopy`.  The places are sorted into containers (a queue, a hand, the entries), and
  each step is shown to do one of three things to a message (`MovesOn`): leave it where it is or drop copies
  (`Rests`), or take it out of one container and put it into one other (`Goes`); a message of which there is one copy
  keeps one through either.  It comes in once, when it is nowhere (`Absent`).  Two steps need more: `AnswerLimited` takes out one
  entry and leaves no other of the copy, because with one frame the numbers of `ItemsEncoded` make one entry
  (`OneEntry`); and `ReSend` makes a second copy only of what it notes in `timed_out` (`KeysNamed`), which the
  property excepts.
- **`TypeCorrect`, `MapsAgree`, `EveryTaskIsReached`, `LoginsAreCurrent`** (`EntityManagerProofs`).  Their
  common invariant adds what the manager holds at each of its steps (`Steady`: it holds the lock alone, and
  what it is about to close is the entity of the id), that the entity of an id runs and was never told to
  close (`Owners`), that nothing but "close" ends a task (`Closers`), and what a connection knows at each
  of its steps (`Logins`).
- **`ManagerImplementsRegistry`**: `Spec => ImplementsRegistry`.  A forward and each send of a broadcast are
  a `Tell`, `TellClose` is a `Close`, `Create` an `Open`, a crash a `Restart`, and every other step stutters;
  the id of an entity that is being closed still maps to it until it was told.  `Owners` is needed: a
  send to an entity whose task has returned would be a silent step where the abstract one tells.
- **`RecordsSurvive`**: by the size of the set of lost records, which grows only in a restart and only by the
  record in hand, because a commit never takes in an unread record (`Committed`).
- **`TypeCorrect`, `CompleteTexts`, `WholeTexts`, `NothingStays`** (`LongSmsProofs`).  `Slots`: a place of a
  vector holds a part of that number, from a message of the key cut into as many; no full vector is kept.
  `Progress` and `Alone`: the parts that came of a message nothing got in the way of are all in the vector
  of its key, and alone there.  `CompleteTexts` has the hypothesis `Total(m) < Byte` for completeness because beyond it the code does publish truncated texts.  `Clock`: the last clean-up is one period and a turn ago at most, and what it
  left was not older than a period.  Here `Byte > 1` is assumed; a byte of two values is the least.

- **`TypeCorrect`, `ProtocolsMeet`** (`SessionProofs`).  `TypeOK` and `ProtocolsAgree` are not inductive: that a number is
  not answered with another's, and that the version in hand is the one configured, follows from the order of
  the handshake (`Handshake`): the client speaks `Agreed` from the start, its login tells the listener
  of it, nothing else is on the wire until the login was taken, and the answer is read before anything
  else is written to the client.  The codec tables enter by lemmas (`TypesMatch`, `StatusNumbers`,
  `EncodedFrames`, `ReceiptFrames`), which hold for every message because only the kind of a frame decides its type.
- **`AnswersFindTheirMessage`**: `Spec => []AnswerFindsItsMessage`, from `AInv == HInv /\ Matching`.  `Matching`
  looks both ways along the wire: every request on its way out of an end and every answer on its way back is in
  `open`, and no two of them have the same number, so taking one answer out of `open` leaves the others
  theirs.  That the answer's type leads back to the request's (`AskedIsAnswered`) needs that a codec's two type tables are
  inverse to each other.  SGIP is left out of the property as in section 2: its answers bear another number.
- **`FramesAreUnderstood`** (`SessionProofs`): `Spec => []FramesUnderstood`, from `CInv == HInv /\ Carrying`.
  `Carrying` says of every frame on the wire, not only of the next one, that an encoder writes it (`Carried`) and
  that it is of the protocol the login chose or is part of the login; `CodecsMeet` then gives, from the order of the handshake,
  that the codec that reads a frame is the one that wrote it, or one of its family that reads a login or the
  answer to one.  What remains is about layouts.
- **`ReadAsWritten`** (`CodecProofs`): a frame of the four protocols is understood by the decoder of its own protocol if and
  only if it is none of those `Garbled` names, which are those of `Misread` in `Session`; so the exceptions of
  `FramesUnderstood` are exact, neither too few nor too many.  TLC compares the layouts at a few lengths; here the length
  of the content and the number of receivers are any.  A frame is `Laid` if it declares what is written
  and what is read is `Within` that: field by field of the same width, and of the same name where it is kept.
  `WithinJoin` and `WidthJoin` put a layout together from the parts before and after its variable field, and each
  encoder then needs one lemma that adds up its constants (`SubmitsLaid`, `DeliversLaid`, `ReportsLaid`, ...).  The converse shows a
  field that is read with another width or at another place (`OtherWidth`, `OtherPlace`), or a length that differs.

**Induction over data.**  The offsets of a layout are a recursive function of the position.  The library's
induction theorems cannot be used, because they take an operator as a parameter, so `CountUp` derives induction in the form of sets
(a set of numbers that has 0 and with every number its successor has every number) from `WFMin` and
`NatLessThanWellFounded`, which have none.  `Solvable` and `OffsetsRun` show with it that the recursion has a solution, `OffsetsCount`
is its unfolding, and everything else goes by that.

**Only model-checked**: the liveness properties (`EverySendSettles`, `DeadHandleGoes`, `ManagerReturns`,
`ClosedEntityGoes`, `SentIsAnswered`): fairness and ENABLED are out of the prover's reach.  The four findings are
counterexamples of TLC and have nothing to prove.  No module that is proved about uses RECURSIVE operators.

## 5. Not modelled

- The values of fields: character sets, digests of passwords, message ids and the formats of times.  A
  digest is right or wrong (`auth`), a character is where a text must not be cut (`inside`).
- SMPP: `smpp.rs` is a stub, and no protocol name leads to it.
- What the entity shares with other entities besides the registry: `TEMP_SAVE` (the lock is one for all, so what
  `MCLock` finds of one entity stops all) and the sequence numbers.
- `Gateway`'s logins have passed the handshake that `Session` models; a login answer that cannot be written is
  an `Abort`.  The read lock is in both `Gateway` (`CloseEntity`) and `EntityManager`.
- The order in which Kafka receives what was published: every message is sent from a task of its own, so any
  order can happen; `last_state` is the order of the calls.  `KafkaMessageConsumer` is used by nothing.
- What becomes of the messages an entity has in memory when the process dies: they are lost, in the code and in `EntityManager`,
  unless their commit was still to come.  `LostOnePerRestart` is about the records the manager had not got through with, and says nothing of these.
- The wall clock (it may go backwards, `channel.rs:187`), the wrap-around of the u32 sequence numbers and of the ids made from them, and the initialisation of the
  `static mut` singletons: listed as hazards.
- `main_server.rs`, `main_test.rs`, `test_server.rs` and `test/`: manual programs without assertions.

## 6. Plan

Done: the entity, its channels and the login, composed; the manager and its refinement; the handshake and the
codecs; long messages; the theorems of section 4.

Every invariant, every action property and the refinement that a passing run checks is proved, for every value of the
constants (section 4); `PartCustody` and `ReportedIsCurrent` under the hypotheses named there, which the instances of their
runs satisfy.  Left: a proof of the liveness properties, with a prover that knows fairness.
