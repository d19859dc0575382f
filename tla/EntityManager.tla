--------------------------- MODULE EntityManager ---------------------------
(***************************************************************************)
(* The registry of entities: the task that takes messages from Kafka       *)
(* (src/src/entity/entity_manager.rs), the entities it opens and closes,   *)
(* the loop that connects a passage to its operator (as_server.rs) and the *)
(* logins that look an entity up (channel.rs, services.rs).                *)
(*                                                                         *)
(* Every ServerEntity or CustomEntity object is a generation g: an id gets *)
(* a new one with every add, init or modify.  Of the entity's task only    *)
(* what the manager and the logins see is here; module EntityRunning has   *)
(* the rest.  Where a message comes from (its topic) is all there is to it.*)
(***************************************************************************)
EXTENDS Integers, Sequences, FiniteSets

CONSTANTS
    Ids,           \* ids of passages and accounts
    ZERO,          \* the id 0, which a record without an id stands for
    Msgs,          \* records of the Kafka topics
    Topic,         \* Msgs -> Topics
    To,            \* Msgs -> Ids: json["id"]
    NoAddress,     \* passage.add/.modify/.init without an address
    Conns,         \* connections: our attempts, and those of peers
    Peers,         \* the connections a peer opens
    Late,          \* bound: the connections that may come after a crash too
    MaxGens,       \* bound: entities opened before a crash and after it
    MaxConn,       \* max_channel_number
    ServerConnectNumber, \* logins a server entity takes beyond that: 100 for SGIP, else 0
    QueueCap,      \* places from manager to entity: 0xff or 0x50
    ReadLimit,     \* places from logins and channels to a server entity: read_limit
    MaxRestarts,   \* bound: crashes of the process
    MaxLag,        \* bound: records read since their topic's last commit
    NONE

(* "passage" and "account" stand for their .add, .init and .modify, which  *)
(* the code handles alike; "remove" for both .remove.                      *)
Topics == {"send", "passage", "account", "remove", "state"}

ASSUME IdsAssumption == ZERO \in Ids /\ NONE \notin Nat
ASSUME ConnsAssumption == Peers \subseteq Conns /\ Late \subseteq Conns
ASSUME MsgsAssumption ==
    /\ Topic \in [Msgs -> Topics] /\ To \in [Msgs -> Ids] /\ NoAddress \subseteq Msgs
    /\ NONE \notin Msgs /\ "close" \notin Msgs /\ IsFiniteSet(Msgs)
ASSUME NumbersAssumption ==
    /\ {MaxConn, QueueCap, ReadLimit} \subseteq Nat \ {0}
    /\ {MaxGens, ServerConnectNumber, MaxRestarts, MaxLag} \subseteq Nat

Gens == 1..MaxGens

VARIABLES
    unread,        \* records not read yet, or read again after a restart
    handled,       \* history: records the manager got through and reads no more
    pc,            \* where the manager's task is
    msg,           \* the record it handles
    closing,       \* the entity it is about to tell to close
    asking,        \* broadcast of a state request: the entities still to ask
    entitys,       \* Ids -> the entity the logins find
    senders,       \* Ids -> the entity the manager sends to
    made,          \* number of entities opened
    id_of,         \* Gens -> id
    queue,         \* manager -> entity
    task,          \* Gens -> where start_entity is
    loop,          \* Gens -> where continued_connect is
    from_channel,  \* logins and channels -> entity
    connecting,    \* Gens -> the connection whose Connect the entity took
    attached,      \* Gens -> connections whose handles the entity holds
    parked,        \* TEMP_SAVE: connections whose handles wait for the entity
    phase,         \* Conns -> where the connection is
    found,         \* Conns -> the entity its login found
    wanted,        \* Conns -> the id it was started for, or asked for
    restarts,
    told           \* history: everything this process put into queue[g]

kafkaVars == <<unread, handled>>
managerVars == <<pc, msg, closing, asking, entitys, senders, made, id_of>>
entityVars == <<task, connecting, attached, parked>>
connVars == <<phase, found, wanted>>
vars == <<kafkaVars, managerVars, queue, loop, from_channel, entityVars, connVars,
          restarts, told>>

CLOSE == "close"
None(S) == [x \in S |-> NONE]

Init ==
    /\ unread = Msgs /\ handled = {} /\ restarts = 0
    /\ pc = "idle" /\ msg = NONE /\ closing = NONE /\ asking = {}
    /\ entitys = None(Ids) /\ senders = None(Ids) /\ made = 0 /\ id_of = None(Gens)
    /\ queue = [g \in Gens |-> <<>>] /\ told = [g \in Gens |-> <<>>]
    /\ task = [g \in Gens |-> "none"] /\ loop = [g \in Gens |-> "none"]
    /\ from_channel = [g \in Gens |-> <<>>] /\ connecting = None(Gens)
    /\ attached = [g \in Gens |-> {}] /\ parked = {}
    /\ phase = [c \in Conns |-> "free"] /\ found = None(Conns) /\ wanted = None(Conns)
---------------------------------------------------------------------------
(* start_server and handle_queue_msg *)

(* A request for state goes to one entity, or to all of them for the id 0. *)
(* All of them, whether there are any or not:                              *)
Asked_XAbsent(m) == IF To[m] = ZERO THEN {senders[id] : id \in Ids} ELSE {senders[To[m]]}
Asked(m) == (IF To[m] = ZERO THEN {senders[id] : id \in Ids} ELSE {senders[To[m]]}) \ {NONE}

(* The record decides what comes first: the registry's lock, or a send.    *)
(* Bound: MaxGens.                                                         *)
Take(m) ==
    /\ pc = "idle" /\ m \in unread
    /\ Topic[m] \in {"passage", "account"} => made < MaxGens
    /\ unread' = unread \ {m}
    /\ msg' = m
    /\ pc' = CASE Topic[m] \in {"passage", "account", "remove"} -> "lock"
               [] Topic[m] = "send" -> "send"
               [] Topic[m] = "state" -> "ask"
    /\ asking' = IF Topic[m] = "state" THEN Asked(m) ELSE {}
    /\ UNCHANGED <<handled, closing, entitys, senders, made, id_of, queue, loop,
                   from_channel, entityVars, connVars, restarts, told>>

(* The loop of start_server goes on to the next record. *)
Done ==
    /\ pc' = "idle" /\ msg' = NONE
    /\ handled' = handled \cup {msg}
    /\ UNCHANGED unread

(* send(..).await on the queue of an entity: it waits for a place, and     *)
(* fails, which is only logged, once the entity's task has returned.       *)
Gone(g) == task[g] = "gone"
HasRoom(g) == Gone(g) \/ Len(queue[g]) < QueueCap
Put(g, thing) ==
    /\ HasRoom(g)
    /\ IF Gone(g) THEN UNCHANGED <<queue, told>>
       ELSE /\ queue' = [queue EXCEPT ![g] = Append(@, thing)]
            /\ told' = [told EXCEPT ![g] = Append(@, thing)]

(* send.submit, send.deliver, send.report *)
Forward ==
    /\ pc = "send"
    /\ senders[To[msg]] # NONE /\ Put(senders[To[msg]], msg)
    /\ Done
    /\ UNCHANGED <<closing, asking, entitys, senders, made, id_of, loop,
                   from_channel, entityVars, connVars, restarts>>

(* No entity under this id: logged and skipped. *)
Skip ==
    /\ pc = "send" /\ senders[To[msg]] = NONE
    /\ Done
    /\ UNCHANGED <<closing, asking, entitys, senders, made, id_of, queue,
                   told, loop, from_channel, entityVars, connVars, restarts>>

(* passage.request.state: to one entity, or to all, one after the other. *)
Ask(g) ==
    /\ pc = "ask" /\ g \in asking
    /\ Put(g, msg)
    /\ asking' = asking \ {g}
    /\ UNCHANGED <<kafkaVars, pc, msg, closing, entitys, senders, made, id_of, loop,
                   from_channel, entityVars, connVars, restarts>>

AllAsked ==
    /\ pc = "ask" /\ asking = {}
    /\ Done
    /\ UNCHANGED <<closing, asking, entitys, senders, made, id_of, queue,
                   told, loop, from_channel, entityVars, connVars, restarts>>

(* A login reads the registry from its lookup until it is announced. *)
Reading_XWhileUp(c) == phase[c] \in {"checked", "login", "up"}
Reading(c) == phase[c] \in {"checked", "login"}

LockRegistry_XNoLock ==
    /\ pc = "lock"
    /\ closing' = IF entitys[To[msg]] # NONE THEN senders[To[msg]] ELSE NONE
    /\ senders' = IF closing' # NONE THEN [senders EXCEPT ![To[msg]] = NONE] ELSE senders
    /\ pc' = IF closing' # NONE THEN "close" ELSE "create"
    /\ UNCHANGED <<kafkaVars, msg, asking, entitys, made, id_of, queue, loop,
                   from_channel, entityVars, connVars, restarts, told>>
LockRegistry_XKeepsSender ==
    /\ pc = "lock"
    /\ \A c \in Conns : ~Reading(c)
    /\ closing' = IF entitys[To[msg]] # NONE THEN senders[To[msg]] ELSE NONE
    /\ pc' = IF closing' # NONE THEN "close" ELSE "create"
    /\ UNCHANGED <<kafkaVars, msg, asking, entitys, senders, made, id_of, queue, loop,
                   from_channel, entityVars, connVars, restarts, told>>
(* entitys.write(); the sender of an entity that exists is taken out.      *)
LockRegistry ==
    /\ pc = "lock"
    /\ \A c \in Conns : ~Reading(c)
    /\ closing' = IF entitys[To[msg]] # NONE THEN senders[To[msg]] ELSE NONE
    /\ senders' = IF closing' # NONE THEN [senders EXCEPT ![To[msg]] = NONE] ELSE senders
    /\ entitys' = IF closing' # NONE THEN entitys ELSE [entitys EXCEPT ![To[msg]] = NONE]
    /\ pc' = IF closing' # NONE THEN "close" ELSE "create"
    /\ UNCHANGED <<kafkaVars, msg, asking, made, id_of, queue, loop,
                   from_channel, entityVars, connVars, restarts, told>>

TellClose_XTrySend ==
    /\ pc = "close"
    /\ IF Len(queue[closing]) < QueueCap THEN Put(closing, CLOSE) ELSE UNCHANGED <<queue, told>>
    /\ entitys' = [entitys EXCEPT ![To[msg]] = NONE]
    /\ pc' = "create" /\ closing' = NONE
    /\ UNCHANGED <<kafkaVars, msg, asking, senders, made, id_of, loop, from_channel,
                   entityVars, connVars, restarts>>
(* "close" to the entity, under the lock; then it leaves the registry. *)
TellClose ==
    /\ pc = "close"
    /\ Put(closing, CLOSE)
    /\ entitys' = [entitys EXCEPT ![To[msg]] = NONE]
    /\ pc' = "create" /\ closing' = NONE
    /\ UNCHANGED <<kafkaVars, msg, asking, senders, made, id_of, loop, from_channel,
                   entityVars, connVars, restarts>>

Creates(m) == Topic[m] = "account" \/ (Topic[m] = "passage" /\ m \notin NoAddress)

Create_XSenderOnly(g) ==
    /\ pc = "create" /\ Creates(msg)
    /\ g = made + 1 /\ made' = g
    /\ id_of' = [id_of EXCEPT ![g] = To[msg]]
    /\ task' = [task EXCEPT ![g] = "run"]
    /\ loop' = [loop EXCEPT ![g] = IF Topic[msg] = "passage" THEN "run" ELSE "none"]
    /\ senders' = [senders EXCEPT ![To[msg]] = g]
    /\ Done
    /\ UNCHANGED <<closing, asking, entitys, queue, from_channel, connecting,
                   attached, parked, connVars, restarts, told>>
(* ServerEntity::new or CustomEntity::new, start, and both maps.  The lock *)
(* is released.  Bound: MaxGens.                                           *)
Create(g) ==
    /\ pc = "create" /\ Creates(msg)
    /\ g = made + 1 /\ made' = g
    /\ id_of' = [id_of EXCEPT ![g] = To[msg]]
    /\ task' = [task EXCEPT ![g] = "run"]
    /\ loop' = [loop EXCEPT ![g] = IF Topic[msg] = "passage" THEN "run" ELSE "none"]
    /\ senders' = [senders EXCEPT ![To[msg]] = g]
    /\ entitys' = [entitys EXCEPT ![To[msg]] = g]
    /\ Done
    /\ UNCHANGED <<closing, asking, queue, from_channel, connecting, attached,
                   parked, connVars, restarts, told>>

(* A remove, and an add or modify without an address, end here. *)
Release ==
    /\ pc = "create" /\ ~Creates(msg)
    /\ Done
    /\ UNCHANGED <<closing, asking, entitys, senders, made, id_of, queue,
                   told, loop, from_channel, entityVars, connVars, restarts>>

ManagerStep ==
    \/ \E m \in Msgs : Take(m)
    \/ Forward \/ Skip \/ AllAsked \/ LockRegistry \/ TellClose \/ Release
    \/ \E g \in Gens : Ask(g) \/ Create(g)
---------------------------------------------------------------------------
(* The entity's task, as far as the manager and the logins see it.  It     *)
(* takes nothing while a Connect it took waits for TEMP_SAVE.              *)

managerQuiet == <<kafkaVars, managerVars, restarts, told>>
Awake(g) == task[g] = "run" /\ connecting[g] = NONE

Handle(g) ==
    /\ Awake(g) /\ queue[g] # <<>> /\ Head(queue[g]) # CLOSE
    /\ queue' = [queue EXCEPT ![g] = Tail(@)]
    /\ UNCHANGED <<managerQuiet, loop, from_channel, entityVars, connVars>>

(* "close": the channels are sent a Terminate ... *)
HandleClose(g) ==
    /\ Awake(g) /\ queue[g] # <<>> /\ Head(queue[g]) = CLOSE
    /\ task' = [task EXCEPT ![g] = "closing"]
    /\ UNCHANGED <<managerQuiet, queue, loop, from_channel, connecting, attached, parked,
                   connVars>>

(* ... and the task returns: its queues and its handles are dropped. *)
Stop(g) ==
    /\ task[g] = "closing"
    /\ task' = [task EXCEPT ![g] = "gone"]
    /\ queue' = [queue EXCEPT ![g] = <<>>]
    /\ from_channel' = [from_channel EXCEPT ![g] = <<>>]
    /\ attached' = [attached EXCEPT ![g] = {}]
    /\ UNCHANGED <<managerQuiet, loop, connecting, parked, connVars>>

FromChannel(g, type) ==
    /\ Awake(g) /\ from_channel[g] # <<>>
    /\ Head(from_channel[g]).type = type
    /\ from_channel' = [from_channel EXCEPT ![g] = Tail(@)]

(* The entity takes the Connect, and its place in the queue is free; ...   *)
TakeConnect(g) ==
    /\ FromChannel(g, "Connect")
    /\ connecting' = [connecting EXCEPT ![g] = Head(from_channel[g]).c]
    /\ UNCHANGED <<managerQuiet, queue, task, loop, attached, parked, connVars>>

(* A login holds TEMP_SAVE from parking its handles to the end of its send. *)
TempSaveFree == \A c \in Conns : phase[c] # "login"

(* ... then it waits for TEMP_SAVE.write() and takes the handles out.      *)
HandleConnect(g) ==
    /\ task[g] = "run" /\ connecting[g] # NONE /\ TempSaveFree
    /\ attached' = [attached EXCEPT ![g] = @ \cup ({connecting[g]} \cap parked)]
    /\ parked' = parked \ {connecting[g]}
    /\ connecting' = [connecting EXCEPT ![g] = NONE]
    /\ UNCHANGED <<managerQuiet, queue, task, loop, from_channel, connVars>>

HandleTerminate(g) ==
    /\ FromChannel(g, "Terminate")
    /\ attached' = [attached EXCEPT ![g] = @ \ {Head(from_channel[g]).c}]
    /\ UNCHANGED <<managerQuiet, queue, task, loop, connecting, parked, connVars>>

EntityStep(g) ==
    \/ Handle(g) \/ HandleClose(g) \/ Stop(g)
    \/ TakeConnect(g) \/ HandleConnect(g) \/ HandleTerminate(g)
---------------------------------------------------------------------------
(* continued_connect: every ten seconds as many connects as places are     *)
(* free.  Connects on their way are not counted.  Bound: Conns.            *)

now_channel_number(g) == Cardinality(attached[g])
Free == {c \in Conns \ Peers : phase[c] = "free"}

Reconnect(g) ==
    /\ loop[g] = "run" /\ ~Gone(g)
    /\ Free # {} /\ now_channel_number(g) < MaxConn
    /\ \E S \in SUBSET Free :
        /\ \/ Cardinality(S) = MaxConn - now_channel_number(g)
           \/ S = Free /\ Cardinality(S) < MaxConn - now_channel_number(g)
        /\ phase' = [c \in Conns |-> IF c \in S THEN "dialing" ELSE phase[c]]
        /\ wanted' = [c \in Conns |-> IF c \in S THEN id_of[g] ELSE wanted[c]]
    /\ UNCHANGED <<managerQuiet, queue, loop, from_channel, entityVars, found>>

LoopEnds_XIgnoresClosed(g) ==
    /\ loop[g] = "run" /\ Gone(g) /\ Free = {}
    /\ loop' = [loop EXCEPT ![g] = "ended"]
    /\ UNCHANGED <<managerQuiet, queue, from_channel, entityVars, connVars>>
(* The queue to the entity is closed. *)
LoopEnds(g) ==
    /\ loop[g] = "run" /\ Gone(g)
    /\ loop' = [loop EXCEPT ![g] = "ended"]
    /\ UNCHANGED <<managerQuiet, queue, from_channel, entityVars, connVars>>
---------------------------------------------------------------------------
(* Connections, from the dial or the accept to the end. *)

connQuiet == <<managerQuiet, queue, loop, task, connecting, attached>>
Moves(c, from, to) == phase[c] = from /\ phase' = [phase EXCEPT ![c] = to]
Over(c, from) ==
    /\ Moves(c, from, "ended")
    /\ found' = [found EXCEPT ![c] = NONE] /\ wanted' = [wanted EXCEPT ![c] = NONE]

(* start_service: a peer connects. *)
Accept(c) ==
    /\ c \in Peers /\ Moves(c, "free", "accepted")
    /\ UNCHANGED <<connQuiet, from_channel, parked, found, wanted>>

(* The peer refuses or closes, or (when it connected) sends no login within*)
(* three seconds.  A peer we connected to may stay silent for ever.        *)
Unanswered(c) ==
    /\ Over(c, "dialing") \/ Over(c, "accepted")
    /\ UNCHANGED <<connQuiet, from_channel, parked>>

(* entitys.read(): tokio's lock lets no reader pass a waiting writer. *)
Readable == pc \notin {"lock", "close", "create"}

Server(g) == loop[g] # "none"
Full(g) == MaxConn + (IF Server(g) THEN ServerConnectNumber ELSE 0) <= now_channel_number(g)

Accepts(id) == entitys[id] # NONE /\ ~Full(entitys[id])

(* The peer answered our login, or sent its own, which names an entity     *)
(* (connect, wait_conn): the lookup of handle_login and the check of       *)
(* login_attach.                                                           *)
LoginCheck(c, id) ==
    /\ Readable
    /\ \/ Moves(c, "dialing", "checked") /\ wanted[c] = id
       \/ Moves(c, "accepted", "checked")
    /\ Accepts(id)
    /\ found' = [found EXCEPT ![c] = entitys[id]]
    /\ wanted' = [wanted EXCEPT ![c] = id]
    /\ UNCHANGED <<connQuiet, from_channel, parked>>

(* No such entity, a full one, or (for a peer that connected) a wrong      *)
(* address, digest or version.                                             *)
LoginRefused(c) ==
    /\ Readable
    /\ \/ Over(c, "accepted")
       \/ Over(c, "dialing") /\ ~Accepts(wanted[c])
    /\ UNCHANGED <<connQuiet, from_channel, parked>>

(* send(..).await to the entity: it waits for a place in the queue of a    *)
(* server entity, a custom one has no end of places; to an entity whose    *)
(* task returned it fails, which is only logged.                           *)
HasPlace(g) == Gone(g) \/ ~Server(g) \/ Len(from_channel[g]) < ReadLimit
Notify(g, type, c) ==
    /\ HasPlace(g)
    /\ from_channel' = IF Gone(g) THEN from_channel
                       ELSE [from_channel EXCEPT ![g] = Append(@, [type |-> type, c |-> c])]

(* login_attach: TEMP_SAVE.write(), and the handles go into it; ...        *)
Park(c) ==
    /\ TempSaveFree /\ Moves(c, "checked", "login")
    /\ parked' = parked \cup {c}
    /\ UNCHANGED <<connQuiet, from_channel, found, wanted>>

(* ... Connect to the entity, with both locks held; the login is over.     *)
Announce(c) ==
    /\ Moves(c, "login", "up")
    /\ Notify(found[c], "Connect", c)
    /\ UNCHANGED <<connQuiet, parked, found, wanted>>

(* The peer closes, or the channel's task returns for reasons of its own:  *)
(* Drop spawns a task, ...                                                 *)
Ends(c) ==
    /\ Moves(c, "up", "dropped")
    /\ UNCHANGED <<connQuiet, from_channel, parked, found, wanted>>

(* ... which sends the Terminate. *)
DropSends(c) ==
    /\ Over(c, "dropped")
    /\ Notify(found[c], "Terminate", c)
    /\ UNCHANGED <<connQuiet, parked>>

(* The handles of the channel are gone: its task returns. *)
HandlesDropped(c) ==
    /\ c \notin parked /\ found[c] # NONE
    /\ Gone(found[c])
    /\ Over(c, "up")
    /\ UNCHANGED <<connQuiet, from_channel, parked>>

ChannelStep(c) == Park(c) \/ Announce(c) \/ DropSends(c) \/ HandlesDropped(c)
PeerStep(c) ==
    \/ \E id \in Ids : LoginCheck(c, id)
    \/ Accept(c) \/ Unanswered(c) \/ LoginRefused(c) \/ Ends(c)
---------------------------------------------------------------------------
(* enable.auto.commit: every two seconds the position of what was read, got*)
(* through with or not, is committed, for each topic on its own; after a   *)
(* crash the records behind it are read again.                             *)
Committed_XPrefetched == Msgs
Committed == Msgs \ unread

(* The process dies and starts again (main): nothing is kept.              *)
(* Bounds: MaxRestarts, MaxLag, Late.                                      *)
Restart ==
    /\ restarts < MaxRestarts /\ restarts' = restarts + 1
    /\ \E S \in SUBSET Committed :
        Cardinality(Committed \ S) <= MaxLag /\ unread' = Msgs \ S
    /\ handled' = handled \ unread'
    /\ pc' = "idle" /\ msg' = NONE /\ closing' = NONE /\ asking' = {}
    /\ entitys' = None(Ids) /\ senders' = None(Ids) /\ made' = 0 /\ id_of' = None(Gens)
    /\ queue' = [g \in Gens |-> <<>>] /\ told' = [g \in Gens |-> <<>>]
    /\ task' = [g \in Gens |-> "none"] /\ loop' = [g \in Gens |-> "none"]
    /\ from_channel' = [g \in Gens |-> <<>>] /\ connecting' = None(Gens)
    /\ attached' = [g \in Gens |-> {}] /\ parked' = {}
    /\ phase' = [c \in Conns |-> IF c \in Late THEN "free" ELSE "ended"]
    /\ found' = None(Conns) /\ wanted' = None(Conns)

Next ==
    \/ ManagerStep
    \/ \E g \in Gens : EntityStep(g) \/ Reconnect(g) \/ LoopEnds(g)
    \/ \E c \in Conns : ChannelStep(c) \/ PeerStep(c)
    \/ Restart

Spec == Init /\ [][Next]_vars

(* tokio runs every task that can go on, and serves who waits for a lock   *)
(* or for a place in a queue in turn; as every connection locks and sends  *)
(* once or twice, weak fairness is enough here.  Nothing is assumed of a   *)
(* lock or a place that does not come free.  Peers and the business side   *)
(* may stay silent, and the process may die at any time.                   *)
FairSpec ==
    /\ Spec
    /\ WF_vars(Forward \/ Skip \/ AllAsked \/ LockRegistry \/ TellClose \/ Release
               \/ \E g \in Gens : Ask(g) \/ Create(g))
    /\ \A g \in Gens : WF_vars(EntityStep(g)) /\ WF_vars(LoopEnds(g))
    /\ \A c \in Conns : WF_vars(ChannelStep(c))
---------------------------------------------------------------------------
(* Every variable has its type and no queue holds more than it has places  *)
(* for.                                                                    *)
TypeOK ==
    /\ {unread, handled} \subseteq SUBSET Msgs
    /\ pc \in {"idle", "send", "ask", "lock", "close", "create"}
    /\ msg \in Msgs \cup {NONE} /\ closing \in Gens \cup {NONE} /\ asking \subseteq Gens
    /\ entitys \in [Ids -> Gens \cup {NONE}] /\ senders \in [Ids -> Gens \cup {NONE}]
    /\ made \in 0..MaxGens /\ id_of \in [Gens -> Ids \cup {NONE}]
    /\ queue \in [Gens -> Seq(Msgs \cup {CLOSE})] /\ \A g \in Gens : Len(queue[g]) <= QueueCap
    /\ told \in [Gens -> Seq(Msgs \cup {CLOSE})]
    /\ task \in [Gens -> {"none", "run", "closing", "gone"}]
    /\ loop \in [Gens -> {"none", "run", "ended"}]
    /\ from_channel \in [Gens -> Seq([type : {"Connect", "Terminate"}, c : Conns])]
    /\ \A g \in Gens : loop[g] # "none" => Len(from_channel[g]) <= ReadLimit
    /\ connecting \in [Gens -> Conns \cup {NONE}] /\ attached \in [Gens -> SUBSET Conns] /\ parked \subseteq Conns
    /\ phase \in [Conns -> {"free", "dialing", "accepted", "checked", "login", "up",
                            "dropped", "ended"}]
    /\ found \in [Conns -> Gens \cup {NONE}] /\ wanted \in [Conns -> Ids \cup {NONE}]
    /\ restarts \in 0..MaxRestarts

ToldToClose(g) == \E i \in DOMAIN told[g] : told[g][i] = CLOSE

(* The two maps of the manager name the same entity under every id, except *)
(* while it closes one (entity_manager.rs:222-235, 307-316).               *)
RegistriesAgree ==
    \A id \in Ids : entitys[id] = senders[id] \/ (pc = "close" /\ To[msg] = id)

(* An entity whose task goes on for good can be reached: it is the one its *)
(* id is registered with, or it was told to close, or is about to be.  An  *)
(* entity nobody can close would keep its operator's connections for ever. *)
NoOrphanTask ==
    \A g \in Gens : task[g] = "run" =>
        senders[id_of[g]] = g \/ ToldToClose(g) \/ (pc = "close" /\ closing = g)

(* Between the lookup of a login and its Connect the entity is neither     *)
(* closed nor replaced (channel.rs:443 holds the read lock until then).    *)
LoginSeesOpenEntity ==
    \A c \in Conns : Reading(c) =>
        senders[wanted[c]] = found[c] /\ entitys[wanted[c]] = found[c] /\ ~ToldToClose(found[c])

(* The offsets are committed by a timer, also that of the record being     *)
(* handled: a restart can lose that one, and no other, before the manager  *)
(* got through with it.  What it put into memory is another matter.        *)
LostOnePerRestart ==
    Cardinality(Msgs \ (unread \cup handled \cup {msg})) <= restarts

(* The refinement: an entity that is being closed is still its id's entity *)
(* until it has been told.                                                 *)
Registry == INSTANCE EntityRegistry WITH
    Things <- Msgs,
    current <- [id \in Ids |-> IF pc = "close" /\ To[msg] = id THEN closing ELSE senders[id]]
ImplementsRegistry == Registry!Spec

(* What run MCLock shows of the gateway: a login holds TEMP_SAVE and waits *)
(* for a place in the queue of an entity that took a Connect and waits for *)
(* TEMP_SAVE.  Neither goes on (as_server.rs:193, 204, entity_running.rs:  *)
(* 362), and the login keeps the registry's read lock (channel.rs:443).    *)
LockedUp ==
    \E c \in Conns :
        /\ phase[c] = "login" /\ ~HasPlace(found[c]) /\ connecting[found[c]] # NONE

(* The manager gets through with every record it takes, unless logins and  *)
(* an entity lock each other up: nothing else holds up the registry's lock *)
(* (entity_manager.rs:226) or a queue for good.                            *)
ManagerReturns == pc # "idle" ~> pc = "idle" \/ LockedUp

(* An entity that was told to close goes: its task and its connect loop    *)
(* end, and so do the connections whose handles it held; but not when      *)
(* logins and an entity, this or another, lock each other up.              *)
ClosedEntityGoes ==
    \A g \in Gens : ToldToClose(g) ~>
        \/ /\ task[g] \in {"none", "gone"} /\ loop[g] # "run"
           /\ \A c \in Conns \ parked : found[c] # g
        \/ LockedUp
===========================================================================
