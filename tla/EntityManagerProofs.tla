------------------------ MODULE EntityManagerProofs ------------------------
(***************************************************************************)
(* The safety properties of EntityManager and its refinement of            *)
(* EntityRegistry, for every set of ids, records and connections.          *)
(*                                                                         *)
(* Owners is what the refinement needs: the entity of an id runs and was   *)
(* never told to close.  It holds because only "close" ends a task         *)
(* (Closers) and only the manager, which holds the registry's lock alone,  *)
(* puts one into a queue (Steady).                                         *)
(***************************************************************************)
EXTENDS EntityManager, FiniteSetTheorems, TLAPS

(* What a connection tells its entity.                                     *)
Signal == [type : {"Connect", "Terminate"}, c : Conns]

(* The entity an id has, as EntityRegistry sees it.                        *)
Current(id) == IF pc = "close" /\ To[msg] = id THEN closing ELSE senders[id]

(* What the manager holds at each of its steps.                            *)
Steady ==
    /\ pc = "idle" <=> msg = NONE
    /\ pc = "close" <=> closing # NONE
    /\ pc = "close" => entitys[To[msg]] = closing /\ senders[To[msg]] = NONE
    /\ pc = "create" => senders[To[msg]] = NONE
    /\ pc \in {"close", "create"} => \A c \in Conns : ~Reading(c)
    /\ pc = "ask" => \A g \in asking : \E id \in Ids : senders[id] = g

Owners ==
    \A id \in Ids : Current(id) # NONE =>
        LET g == Current(id)
        IN g <= made /\ id_of[g] = id /\ task[g] = "run" /\ ~ToldToClose(g)

(* Nothing but "close" ends a task.                                        *)
Closers ==
    \A g \in Gens :
        task[g] = "closing" \/ (\E i \in DOMAIN queue[g] : queue[g][i] = CLOSE) => ToldToClose(g)

(* An entity that was not made yet was told nothing, by nobody.            *)
Unborn ==
    \A g \in Gens : IF g > made THEN /\ told[g] = <<>> /\ from_channel[g] = <<>>
                                     /\ task[g] = "none" /\ loop[g] = "none"
                                ELSE id_of[g] \in Ids

(* What a connection knows at each of its steps.                           *)
Logins ==
    \A c \in Conns :
        /\ phase[c] \in {"dialing", "checked", "login"} => wanted[c] \in Ids
        /\ phase[c] \in {"checked", "login", "up", "dropped"} => found[c] \in Gens /\ found[c] <= made

IInv == /\ TypeOK /\ Steady /\ Owners /\ Closers /\ Unborn /\ Logins
        /\ RegistriesAgree /\ NoOrphanTask /\ LoginSeesOpenEntity
---------------------------------------------------------------------------
(* What queues are made of.                                                *)
LEMMA QueueTypes ==
    ASSUME NEW T
    PROVE  /\ <<>> \in Seq(T)
           /\ \A s \in Seq(T) : s # <<>> => Head(s) \in T /\ Tail(s) \in Seq(T)
           /\ \A s \in Seq(T) : \A t \in T : Append(s, t) \in Seq(T)
OBVIOUS

(* Put adds one thing to what an entity was told, unless it is gone.       *)
LEMMA PutEffect ==
    ASSUME TypeOK, NEW g \in Gens, NEW thing \in Msgs \cup {CLOSE}, Put(g, thing)
    PROVE  /\ queue' \in [Gens -> Seq(Msgs \cup {CLOSE})] /\ \A h \in Gens : Len(queue'[h]) <= QueueCap
           /\ told' \in [Gens -> Seq(Msgs \cup {CLOSE})]
           /\ \A h \in Gens : h # g => queue'[h] = queue[h] /\ told'[h] = told[h]
           /\ \A h \in Gens : ToldToClose(h)' <=> ToldToClose(h) \/ (h = g /\ thing = CLOSE /\ ~Gone(g))
           /\ \A h \in Gens : (\E i \in DOMAIN queue'[h] : queue'[h][i] = CLOSE) =>
                 (\E i \in DOMAIN queue[h] : queue[h][i] = CLOSE) \/ (h = g /\ thing = CLOSE /\ ~Gone(g))
<1>1. CASE Gone(g)
  BY <1>1 DEF Put, TypeOK, ToldToClose
<1>2. CASE ~Gone(g)
  <2>1. /\ queue' = [queue EXCEPT ![g] = Append(@, thing)] /\ Len(queue[g]) < QueueCap
        /\ told' = [told EXCEPT ![g] = Append(@, thing)]
    BY <1>2 DEF Put, HasRoom
  <2>2. /\ queue \in [Gens -> Seq(Msgs \cup {CLOSE})] /\ told \in [Gens -> Seq(Msgs \cup {CLOSE})]
        /\ \A h \in Gens : Len(queue[h]) <= QueueCap
    BY DEF TypeOK
  <2>3. /\ queue' \in [Gens -> Seq(Msgs \cup {CLOSE})] /\ told' \in [Gens -> Seq(Msgs \cup {CLOSE})]
        /\ queue'[g] = Append(queue[g], thing) /\ told'[g] = Append(told[g], thing)
        /\ \A h \in Gens : h # g => queue'[h] = queue[h] /\ told'[h] = told[h]
    BY <2>1, <2>2
  <2>4. \A h \in Gens : Len(queue'[h]) <= QueueCap
    BY <2>1, <2>2, <2>3, NumbersAssumption
  <2>5. ASSUME NEW s \in Seq(Msgs \cup {CLOSE})
        PROVE  (\E i \in DOMAIN Append(s, thing) : Append(s, thing)[i] = CLOSE)
                 <=> (\E i \in DOMAIN s : s[i] = CLOSE) \/ thing = CLOSE
    <3>1. /\ DOMAIN s = 1..Len(s) /\ DOMAIN Append(s, thing) = 1..Len(s)+1 /\ Len(s) \in Nat
          /\ Append(s, thing)[Len(s)+1] = thing /\ \A i \in 1..Len(s) : Append(s, thing)[i] = s[i]
      OBVIOUS
    <3> QED BY <3>1
  <2>8. ToldToClose(g)' <=> ToldToClose(g) \/ thing = CLOSE
    <3>1. told[g] \in Seq(Msgs \cup {CLOSE})
      BY <2>2
    <3>2. (\E i \in DOMAIN Append(told[g], thing) : Append(told[g], thing)[i] = CLOSE)
             <=> (\E i \in DOMAIN told[g] : told[g][i] = CLOSE) \/ thing = CLOSE
      BY <3>1, <2>5
    <3> QED BY <3>2, <2>3, Zenon DEF ToldToClose
  <2>6. \A h \in Gens : ToldToClose(h)' <=> ToldToClose(h) \/ (h = g /\ thing = CLOSE)
    <3>1. \A h \in Gens : h # g => (ToldToClose(h)' <=> ToldToClose(h))
      BY <2>3, Zenon DEF ToldToClose
    <3> QED BY <3>1, <2>8
  <2>9. (\E i \in DOMAIN queue'[g] : queue'[g][i] = CLOSE) =>
           (\E i \in DOMAIN queue[g] : queue[g][i] = CLOSE) \/ thing = CLOSE
    <3>1. queue[g] \in Seq(Msgs \cup {CLOSE})
      BY <2>2
    <3>2. (\E i \in DOMAIN Append(queue[g], thing) : Append(queue[g], thing)[i] = CLOSE)
             <=> (\E i \in DOMAIN queue[g] : queue[g][i] = CLOSE) \/ thing = CLOSE
      BY <3>1, <2>5
    <3> QED BY <3>2, <2>3, Zenon
  <2>7. \A h \in Gens : (\E i \in DOMAIN queue'[h] : queue'[h][i] = CLOSE) =>
           (\E i \in DOMAIN queue[h] : queue[h][i] = CLOSE) \/ (h = g /\ thing = CLOSE)
    BY <2>3, <2>9, Zenon
  <2> QED BY <1>2, <2>3, <2>4, <2>6, <2>7
<1> QED BY <1>1, <1>2

(* Steps the manager does not make: they end no task that was not told to  *)
(* close, start none, and look nothing up while the registry is locked.    *)
LEMMA ManagerQuiet ==
    ASSUME IInv, TypeOK', Closers', Logins', LoginSeesOpenEntity', UNCHANGED managerQuiet,
           \A g \in Gens : task'[g] = "run" => task[g] = "run",
           \A g \in Gens : task[g] = "run" /\ ~ToldToClose(g) => task'[g] = "run",
           \A g \in Gens : task[g] = "none" => task'[g] = "none",
           \A g \in Gens : loop[g] = "none" => loop'[g] = "none",
           \A g \in Gens : g > made => from_channel'[g] = <<>>,
           \A c \in Conns : Reading(c)' => Reading(c) \/ Readable
    PROVE  IInv'
<1>1. /\ UNCHANGED <<unread, handled, pc, msg, closing, asking, entitys, senders,
                     made, id_of, told, restarts>>
      /\ \A g \in Gens : ToldToClose(g)' <=> ToldToClose(g)
  BY DEF managerQuiet, kafkaVars, managerVars, ToldToClose
<1>2. Steady'
  BY <1>1 DEF IInv, Steady, Readable
<1>3. Owners'
  <2>1. \A id \in Ids : Current(id)' = Current(id) /\ Current(id) \in Gens \cup {NONE}
    BY <1>1 DEF IInv, TypeOK, Current
  <2>2. ASSUME NEW id \in Ids, NEW g \in Gens, g = Current(id)
        PROVE  g <= made' /\ id_of'[g] = id /\ task'[g] = "run" /\ ~ToldToClose(g)'
    <3>1. g <= made /\ id_of[g] = id /\ task[g] = "run" /\ ~ToldToClose(g)
      BY <2>2, IdsAssumption DEF IInv, Owners, Gens
    <3> QED BY <1>1, <3>1
  <2>3. \A id \in Ids, g \in Gens :
           g = Current(id)' => g <= made' /\ id_of'[g] = id /\ task'[g] = "run" /\ ~ToldToClose(g)'
    BY <2>1, <2>2
  <2> QED BY <2>1, <2>3 DEF Owners
<1>4. Unborn'
  BY <1>1 DEF IInv, Unborn
<1>5. RegistriesAgree' /\ NoOrphanTask'
  BY <1>1 DEF IInv, RegistriesAgree, NoOrphanTask
<1> QED BY <1>2, <1>3, <1>4, <1>5 DEF IInv

(* The entity's task goes on, or it ends because it was told to.           *)
LEMMA EntityKeeps == ASSUME IInv, NEW g \in Gens, EntityStep(g) PROVE IInv'
<1>9. ASSUME UNCHANGED from_channel PROVE \A h \in Gens : h > made => from_channel'[h] = <<>>
  BY <1>9 DEF IInv, Unborn
<1>1. CASE Handle(g)
  <2>1. /\ task[g] = "run" /\ queue[g] # <<>> /\ queue' = [queue EXCEPT ![g] = Tail(@)]
        /\ UNCHANGED <<managerQuiet, loop, from_channel, entityVars, connVars>>
    BY <1>1 DEF Handle, Awake
  <2>2. queue[g] \in Seq(Msgs \cup {CLOSE}) /\ Len(queue[g]) <= QueueCap
    BY DEF IInv, TypeOK
  <2>3. /\ Tail(queue[g]) \in Seq(Msgs \cup {CLOSE}) /\ Len(Tail(queue[g])) = Len(queue[g]) - 1
        /\ \A i \in DOMAIN Tail(queue[g]) : i+1 \in DOMAIN queue[g] /\ Tail(queue[g])[i] = queue[g][i+1]
    BY <2>1, <2>2
  <2>4. /\ queue'[g] = Tail(queue[g]) /\ queue' \in [Gens -> Seq(Msgs \cup {CLOSE})]
        /\ \A h \in Gens : h # g => queue'[h] = queue[h]
    BY <2>1, <2>3 DEF IInv, TypeOK
  <2>5. \A h \in Gens : Len(queue'[h]) <= QueueCap
    <3>1. Len(queue'[g]) <= QueueCap
      BY <2>2, <2>3, <2>4, NumbersAssumption
    <3>2. \A h \in Gens : Len(queue[h]) <= QueueCap
      BY DEF IInv, TypeOK
    <3> QED BY <2>4, <3>1, <3>2
  <2>6. /\ UNCHANGED <<unread, handled, pc, msg, closing, asking, entitys, senders, made,
                        id_of, told, task, connecting, attached, parked, phase, found, wanted, restarts>>
        /\ UNCHANGED <<loop, from_channel>>
    BY <2>1 DEF managerQuiet, kafkaVars, managerVars, entityVars, connVars
  <2>7. TypeOK'
    BY <2>4, <2>5, <2>6 DEF IInv, TypeOK
  <2>9. Closers'
    <3>1. \A h \in Gens : (ToldToClose(h)' <=> ToldToClose(h)) /\ task'[h] = task[h]
      BY <2>1 DEF ToldToClose, managerQuiet, entityVars
    <3>2. \A h \in Gens : (\E i \in DOMAIN queue'[h] : queue'[h][i] = CLOSE)
                             => (\E i \in DOMAIN queue[h] : queue[h][i] = CLOSE)
      <4>1. (\E i \in DOMAIN queue'[g] : queue'[g][i] = CLOSE)
               => (\E i \in DOMAIN queue[g] : queue[g][i] = CLOSE)
        BY <2>3, <2>4
      <4> QED BY <2>4, <4>1
    <3> QED BY <3>1, <3>2 DEF IInv, Closers
  <2>8. Logins' /\ LoginSeesOpenEntity'
    BY <2>1 DEF IInv, Logins, LoginSeesOpenEntity, Reading, ToldToClose, managerQuiet, managerVars, connVars
  <2> QED BY <2>1, <2>7, <2>8, <2>9, <1>9, ManagerQuiet DEF entityVars, connVars, Reading
<1>2. ASSUME NEW to \in {"closing", "gone"}, task' = [task EXCEPT ![g] = to], TypeOK',
             task[g] \in {"run", "closing"}, ToldToClose(g),
             \A h \in Gens : queue'[h] = queue[h] \/ queue'[h] = <<>>,
             \A h \in Gens : from_channel'[h] = from_channel[h] \/ from_channel'[h] = <<>>,
             UNCHANGED <<managerQuiet, loop, connVars>>
      PROVE  IInv'
  <2>1. \A h \in Gens : ToldToClose(h)' <=> ToldToClose(h)
    BY <1>2 DEF ToldToClose, managerQuiet
  <2>2. \A h \in Gens : task'[h] = IF h = g THEN to ELSE task[h]
    BY <1>2 DEF IInv, TypeOK
  <2>3. Closers'
    BY <1>2, <2>1, <2>2 DEF IInv, Closers
  <2>4. Logins' /\ LoginSeesOpenEntity'
    BY <1>2 DEF IInv, Logins, LoginSeesOpenEntity, Reading, ToldToClose, managerQuiet, managerVars, connVars
  <2>5. \A h \in Gens : h > made => from_channel'[h] = <<>>
    BY <1>2 DEF IInv, Unborn
  <2> QED BY <1>2, <2>2, <2>3, <2>4, <2>5, ManagerQuiet DEF connVars, Reading
<1>3. CASE HandleClose(g)
  <2>1. ToldToClose(g)
    <3>1. queue[g] \in Seq(Msgs \cup {CLOSE}) /\ queue[g] # <<>> /\ Head(queue[g]) = CLOSE
      BY <1>3 DEF HandleClose, IInv, TypeOK
    <3>2. 1 \in DOMAIN queue[g] /\ queue[g][1] = CLOSE
      BY <3>1
    <3> QED BY <3>2 DEF IInv, Closers
  <2>2. TypeOK'
    BY <1>3 DEF HandleClose, IInv, TypeOK, managerQuiet, kafkaVars, managerVars, connVars
  <2> QED BY <1>2, <1>3, <2>1, <2>2 DEF HandleClose, Awake
<1>4. CASE Stop(g)
  <2>1. ToldToClose(g)
    BY <1>4 DEF Stop, IInv, Closers
  <2>2. /\ queue' = [queue EXCEPT ![g] = <<>>] /\ task' = [task EXCEPT ![g] = "gone"]
        /\ from_channel' = [from_channel EXCEPT ![g] = <<>>] /\ attached' = [attached EXCEPT ![g] = {}]
        /\ UNCHANGED <<managerQuiet, loop, connecting, parked, connVars>>
    BY <1>4 DEF Stop
  <2>3. /\ queue' \in [Gens -> Seq(Msgs \cup {CLOSE})] /\ \A h \in Gens : Len(queue'[h]) <= QueueCap
        /\ \A h \in Gens : queue'[h] = queue[h] \/ queue'[h] = <<>>
    <3>1. queue \in [Gens -> Seq(Msgs \cup {CLOSE})] /\ <<>> \in Seq(Msgs \cup {CLOSE})
      BY QueueTypes DEF IInv, TypeOK
    <3>2. /\ queue' \in [Gens -> Seq(Msgs \cup {CLOSE})]
          /\ \A h \in Gens : queue'[h] = IF h = g THEN <<>> ELSE queue[h]
      BY <2>2, <3>1
    <3>3. Len(<<>>) = 0 /\ \A h \in Gens : Len(queue[h]) <= QueueCap
      BY DEF IInv, TypeOK
    <3>4. \A h \in Gens : queue'[h] = queue[h] \/ queue'[h] = <<>>
      BY <3>2
    <3>5. 0 <= QueueCap
      BY NumbersAssumption
    <3>6. \A h \in Gens : Len(queue'[h]) <= QueueCap
      BY <3>3, <3>4, <3>5
    <3> QED BY <3>2, <3>4, <3>6
  <2>5. from_channel' \in [Gens -> Seq(Signal)]
    <3>1. from_channel \in [Gens -> Seq(Signal)] /\ <<>> \in Seq(Signal)
      BY QueueTypes DEF IInv, TypeOK, Signal
    <3> QED BY <2>2, <3>1
  <2>6. \A h \in Gens : from_channel'[h] = IF h = g THEN <<>> ELSE from_channel[h]
    BY <2>2 DEF IInv, TypeOK
  <2>7. \A h \in Gens : loop'[h] # "none" => Len(from_channel'[h]) <= ReadLimit
    BY <2>2, <2>6, NumbersAssumption DEF IInv, TypeOK
  <2>4. TypeOK'
    BY <2>2, <2>3, <2>5, <2>7 DEF Signal, IInv, TypeOK, managerQuiet, kafkaVars, managerVars, connVars
  <2> QED BY <1>2, <1>4, <2>1, <2>2, <2>3, <2>4, <2>6 DEF Stop
<1>5. ASSUME NEW type \in {"Connect", "Terminate"}, FromChannel(g, type), attached' \in [Gens -> SUBSET Conns],
             connecting' \in [Gens -> Conns \cup {NONE}],
             UNCHANGED <<managerQuiet, queue, task, loop, parked, connVars>>
      PROVE  IInv'
  <2>1. from_channel \in [Gens -> Seq(Signal)] /\ from_channel[g] \in Seq(Signal)
    BY DEF IInv, TypeOK, Signal
  <2>2. /\ from_channel[g] # <<>> /\ from_channel' = [from_channel EXCEPT ![g] = Tail(@)]
        /\ task[g] = "run"
    BY <1>5 DEF FromChannel, Awake
  <2>3. Tail(from_channel[g]) \in Seq(Signal) /\ Len(Tail(from_channel[g])) <= Len(from_channel[g])
    BY <2>1, <2>2
  <2>4. /\ from_channel' \in [Gens -> Seq(Signal)]
        /\ \A h \in Gens : from_channel'[h] = IF h = g THEN Tail(from_channel[g]) ELSE from_channel[h]
    BY <2>1, <2>2, <2>3
  <2>5. \A h \in Gens : loop'[h] # "none" => Len(from_channel'[h]) <= ReadLimit
    <3>1. \A h \in Gens : loop[h] # "none" => Len(from_channel[h]) <= ReadLimit
      BY DEF IInv, TypeOK
    <3>2. \A h \in Gens : Len(from_channel'[h]) \in Nat /\ Len(from_channel'[h]) <= Len(from_channel[h])
      BY <2>1, <2>3, <2>4
    <3>3. \A h \in Gens : Len(from_channel[h]) \in Nat
      BY <2>1
    <3> QED BY <1>5, <3>1, <3>2, <3>3, NumbersAssumption
  <2>6. TypeOK'
    BY <1>5, <2>4, <2>5 DEF Signal, IInv, TypeOK, managerQuiet, kafkaVars, managerVars, connVars
  <2>7. Closers' /\ Logins' /\ LoginSeesOpenEntity'
    BY <1>5 DEF IInv, Closers, Logins, LoginSeesOpenEntity, Reading, ToldToClose, managerQuiet,
                managerVars, connVars
  <2>8. \A h \in Gens : h > made => from_channel'[h] = <<>>
    <3>1. ~(g > made)
      BY <2>2 DEF IInv, Unborn
    <3> QED BY <2>4, <3>1 DEF IInv, Unborn
  <2> QED BY <1>5, <2>6, <2>7, <2>8, ManagerQuiet DEF connVars, Reading
<1>6. ASSUME NEW type \in {"Connect", "Terminate"}, FromChannel(g, type)
      PROVE  Head(from_channel[g]).c \in Conns
  <2>1. from_channel[g] \in Seq(Signal) /\ from_channel[g] # <<>>
    BY <1>6 DEF FromChannel, IInv, TypeOK, Signal
  <2>2. Head(from_channel[g]) \in Signal
    BY <2>1, QueueTypes
  <2> QED BY <2>2 DEF Signal
<1>7. CASE TakeConnect(g)
  BY <1>5, <1>6, <1>7 DEF TakeConnect, IInv, TypeOK
<1>10. CASE HandleConnect(g)
  <2>1. /\ attached' = [attached EXCEPT ![g] = @ \cup ({connecting[g]} \cap parked)]
        /\ parked' = parked \ {connecting[g]} /\ connecting' = [connecting EXCEPT ![g] = NONE]
        /\ UNCHANGED <<managerQuiet, queue, task, loop, from_channel, connVars>>
    BY <1>10 DEF HandleConnect
  <2>2. TypeOK'
    BY <2>1 DEF IInv, TypeOK, managerQuiet, kafkaVars, managerVars, connVars
  <2>3. Closers' /\ Logins' /\ LoginSeesOpenEntity'
    BY <2>1 DEF IInv, Closers, Logins, LoginSeesOpenEntity, Reading, ToldToClose, managerQuiet,
                managerVars, connVars
  <2> QED BY <2>1, <2>2, <2>3, <1>9, ManagerQuiet DEF connVars, Reading
<1>8. CASE HandleTerminate(g)
  BY <1>5, <1>6, <1>8 DEF HandleTerminate, IInv, TypeOK
<1> QED BY <1>1, <1>3, <1>4, <1>7, <1>8, <1>10 DEF EntityStep

(* continued_connect dials for the id of its entity.                       *)
LEMMA LoopKeeps == ASSUME IInv, NEW g \in Gens, Reconnect(g) \/ LoopEnds(g) PROVE IInv'
<1>1. CASE Reconnect(g)
  <2>1. /\ loop[g] = "run" /\ UNCHANGED <<managerQuiet, queue, loop, from_channel, entityVars, found>>
    BY <1>1 DEF Reconnect
  <2>2. PICK S \in SUBSET Free :
           /\ phase' = [c \in Conns |-> IF c \in S THEN "dialing" ELSE phase[c]]
           /\ wanted' = [c \in Conns |-> IF c \in S THEN id_of[g] ELSE wanted[c]]
    BY <1>1 DEF Reconnect
  <2>3. id_of[g] \in Ids
    BY <2>1 DEF IInv, Unborn
  <2>4. TypeOK'
    BY <2>1, <2>2, <2>3 DEF IInv, TypeOK, managerQuiet, kafkaVars, managerVars, entityVars
  <2>5. Logins' /\ LoginSeesOpenEntity'
    BY <2>1, <2>2, <2>3 DEF IInv, Logins, LoginSeesOpenEntity, Reading, ToldToClose, managerQuiet, managerVars
  <2>6. Closers'
    BY <2>1 DEF IInv, Closers, ToldToClose, managerQuiet, entityVars
  <2>7. \A c \in Conns : Reading(c)' => Reading(c)
    BY <2>2 DEF Reading
  <2>8. \A h \in Gens : h > made => from_channel'[h] = <<>>
    BY <2>1 DEF IInv, Unborn
  <2> QED BY <2>1, <2>4, <2>5, <2>6, <2>7, <2>8, ManagerQuiet DEF entityVars
<1>2. CASE LoopEnds(g)
  <2>1. /\ loop[g] = "run" /\ loop' = [loop EXCEPT ![g] = "ended"]
        /\ UNCHANGED <<managerQuiet, queue, from_channel, entityVars, connVars>>
    BY <1>2 DEF LoopEnds
  <2>2. TypeOK'
    BY <2>1 DEF IInv, TypeOK, managerQuiet, kafkaVars, managerVars, entityVars, connVars
  <2>3. Closers' /\ Logins' /\ LoginSeesOpenEntity'
    BY <2>1 DEF IInv, Closers, Logins, LoginSeesOpenEntity, Reading, ToldToClose, managerQuiet, managerVars,
                entityVars, connVars
  <2>4. \A h \in Gens : loop[h] = "none" => loop'[h] = "none"
    BY <2>1 DEF IInv, TypeOK
  <2>5. \A h \in Gens : h > made => from_channel'[h] = <<>>
    BY <2>1 DEF IInv, Unborn
  <2> QED BY <2>1, <2>2, <2>3, <2>4, <2>5, ManagerQuiet DEF entityVars, connVars, Reading
<1> QED BY <1>1, <1>2

(* What a connection tells its entity is a signal, and it waits for a place*)
(* first.                                                                  *)
LEMMA NotifyType ==
    ASSUME TypeOK, NEW g \in Gens, NEW type \in {"Connect", "Terminate"}, NEW c \in Conns,
           Notify(g, type, c)
    PROVE  /\ from_channel' \in [Gens -> Seq(Signal)]
           /\ \A h \in Gens : loop[h] # "none" => Len(from_channel'[h]) <= ReadLimit
           /\ \A h \in Gens : h # g => from_channel'[h] = from_channel[h]
<1>1. /\ from_channel \in [Gens -> Seq(Signal)] /\ from_channel[g] \in Seq(Signal)
      /\ \A h \in Gens : loop[h] # "none" => Len(from_channel[h]) <= ReadLimit
  BY DEF TypeOK, Signal
<1>2. CASE Gone(g)
  BY <1>1, <1>2 DEF Notify
<1>3. CASE ~Gone(g)
  <2>1. PICK signal \in Signal : signal = [type |-> type, c |-> c]
    BY DEF Signal
  <2>2. from_channel' = [from_channel EXCEPT ![g] = Append(@, signal)]
    BY <1>3, <2>1 DEF Notify
  <2>3. Append(from_channel[g], signal) \in Seq(Signal)
        /\ Len(Append(from_channel[g], signal)) = Len(from_channel[g]) + 1 /\ Len(from_channel[g]) \in Nat
    BY <1>1
  <2>4. loop[g] # "none" => Len(from_channel[g]) < ReadLimit
    BY <1>3 DEF Notify, HasPlace, Server
  <2>5. /\ from_channel' \in [Gens -> Seq(Signal)] /\ from_channel'[g] = Append(from_channel[g], signal)
        /\ \A h \in Gens : h # g => from_channel'[h] = from_channel[h]
    BY <1>1, <2>2, <2>3
  <2>6. loop[g] # "none" => Len(from_channel'[g]) <= ReadLimit
    <3>1. ReadLimit \in Nat
      BY NumbersAssumption
    <3>2. /\ Len(from_channel'[g]) = Len(from_channel[g]) + 1 /\ Len(from_channel[g]) \in Nat
          /\ loop[g] # "none" => Len(from_channel[g]) < ReadLimit
      BY ONLY <2>3, <2>4, <2>5
    <3> QED BY ONLY <3>1, <3>2
  <2>7. \A h \in Gens : loop[h] # "none" => Len(from_channel'[h]) <= ReadLimit
    BY ONLY <1>1, <2>5, <2>6
  <2> QED BY <2>5, <2>7
<1> QED BY <1>2, <1>3

(* A login finds the entity its id has, and holds the lock from then on.   *)
LEMMA ConnectionKeeps == ASSUME IInv, NEW c \in Conns, ChannelStep(c) \/ PeerStep(c) PROVE IInv'
<1>1. ASSUME UNCHANGED connQuiet, TypeOK', Logins', LoginSeesOpenEntity',
             \A g \in Gens : g > made => from_channel'[g] = <<>>,
             \A d \in Conns : Reading(d)' => Reading(d) \/ Readable
      PROVE  IInv'
  <2>1. Closers'
    BY <1>1 DEF IInv, Closers, ToldToClose, connQuiet, managerQuiet
  <2>2. UNCHANGED <<managerQuiet, loop, task>>
    BY <1>1 DEF connQuiet
  <2> QED BY <1>1, <2>1, <2>2, ManagerQuiet
<1>2. ASSUME UNCHANGED from_channel
      PROVE  /\ from_channel' \in [Gens -> Seq(Signal)]
             /\ \A g \in Gens : loop[g] # "none" => Len(from_channel'[g]) <= ReadLimit
             /\ \A g \in Gens : g > made => from_channel'[g] = <<>>
  BY <1>2 DEF IInv, TypeOK, Signal, Unborn
<1>3. ASSUME NEW type \in {"Connect", "Terminate"}, found[c] \in Gens, found[c] <= made,
             Notify(found[c], type, c)
      PROVE  /\ from_channel' \in [Gens -> Seq(Signal)]
             /\ \A g \in Gens : loop[g] # "none" => Len(from_channel'[g]) <= ReadLimit
             /\ \A g \in Gens : g > made => from_channel'[g] = <<>>
  <2>1. made \in Nat
    BY NumbersAssumption DEF IInv, TypeOK
  <2>2. TypeOK /\ \A g \in Gens : g > made => from_channel[g] = <<>> /\ g # found[c]
    BY <1>3, <2>1 DEF IInv, Unborn, Gens
  <2>3. PICK g \in Gens : g = found[c]
    BY <1>3
  <2>4. Notify(g, type, c)
    BY <1>3, <2>3
  <2>5. /\ from_channel' \in [Gens -> Seq(Signal)]
        /\ \A h \in Gens : loop[h] # "none" => Len(from_channel'[h]) <= ReadLimit
        /\ \A h \in Gens : h # g => from_channel'[h] = from_channel[h]
    BY <2>2, <2>4, NotifyType
  <2> QED BY <2>2, <2>3, <2>5
(* The connection goes on or ends without a lookup.                        *)
<1>4. ASSUME NEW to \in {"accepted", "login", "up", "dropped", "ended"}, phase' = [phase EXCEPT ![c] = to],
             to = "login" => phase[c] = "checked",
             to \in {"login", "up", "dropped"} => found[c] \in Gens /\ found[c] <= made,
             to \in {"accepted", "login", "up", "dropped"} => UNCHANGED <<found, wanted>>,
             to = "ended" => /\ found' = [found EXCEPT ![c] = NONE]
                             /\ wanted' = [wanted EXCEPT ![c] = NONE],
             parked' \subseteq Conns, UNCHANGED connQuiet,
             from_channel' \in [Gens -> Seq(Signal)],
             \A g \in Gens : loop[g] # "none" => Len(from_channel'[g]) <= ReadLimit,
             \A g \in Gens : g > made => from_channel'[g] = <<>>
      PROVE  IInv'
  <2>1. /\ found' \in [Conns -> Gens \cup {NONE}] /\ wanted' \in [Conns -> Ids \cup {NONE}]
        /\ \A d \in Conns : d # c => /\ found'[d] = found[d] /\ wanted'[d] = wanted[d]
                                     /\ phase'[d] = phase[d]
        /\ phase'[c] = to
        /\ to = "login" => found'[c] = found[c] /\ wanted'[c] = wanted[c]
    BY <1>4 DEF IInv, TypeOK
  <2>2. TypeOK'
    BY <1>4, <2>1 DEF connQuiet, managerQuiet, kafkaVars, managerVars, IInv, TypeOK, Signal
  <2>3. Logins'
    <3>1. UNCHANGED made
      BY <1>4 DEF connQuiet, managerQuiet, managerVars
    <3>2. ASSUME NEW d \in Conns, d # c
          PROVE  /\ phase'[d] \in {"dialing", "checked", "login"} => wanted'[d] \in Ids
                 /\ phase'[d] \in {"checked", "login", "up", "dropped"} => found'[d] \in Gens /\ found'[d] <= made
      BY <3>2, <2>1 DEF IInv, Logins
    <3>3. /\ phase'[c] \in {"dialing", "checked", "login"} => wanted'[c] \in Ids
          /\ phase'[c] \in {"checked", "login", "up", "dropped"} => found'[c] \in Gens /\ found'[c] <= made
      BY <1>4, <2>1 DEF IInv, Logins
    <3> QED BY <3>1, <3>2, <3>3 DEF Logins
  <2>4. \A d \in Conns : Reading(d)' => Reading(d) /\ found'[d] = found[d] /\ wanted'[d] = wanted[d]
    BY <1>4, <2>1 DEF Reading
  <2>5. LoginSeesOpenEntity'
    <3>1. UNCHANGED <<entitys, senders, told>>
      BY <1>4 DEF connQuiet, managerQuiet, managerVars
    <3>2. LoginSeesOpenEntity
      BY DEF IInv
    <3> QED BY <2>4, <3>1, <3>2 DEF LoginSeesOpenEntity, ToldToClose
  <2> QED BY <1>1, <1>4, <2>2, <2>3, <2>4, <2>5
<1>5. /\ parked \subseteq Conns /\ parked \cup {c} \subseteq Conns
      /\ phase[c] \in {"checked", "login", "up", "dropped"} => found[c] \in Gens /\ found[c] <= made
  BY DEF IInv, TypeOK, Logins
<1>6. CASE Accept(c)
  BY <1>2, <1>4, <1>6 DEF Accept, Moves, IInv, TypeOK
<1>7. CASE Unanswered(c) \/ LoginRefused(c) \/ HandlesDropped(c)
  <2>1. /\ phase' = [phase EXCEPT ![c] = "ended"] /\ found' = [found EXCEPT ![c] = NONE]
        /\ wanted' = [wanted EXCEPT ![c] = NONE]
    BY <1>7 DEF Unanswered, LoginRefused, HandlesDropped, Over, Moves
  <2>2. UNCHANGED connQuiet /\ UNCHANGED from_channel /\ parked' = parked
    BY <1>7 DEF Unanswered, LoginRefused, HandlesDropped
  <2>3. parked' \subseteq Conns
    BY <1>5, <2>2
  <2>4. /\ from_channel' \in [Gens -> Seq(Signal)]
        /\ \A g \in Gens : loop[g] # "none" => Len(from_channel'[g]) <= ReadLimit
        /\ \A g \in Gens : g > made => from_channel'[g] = <<>>
    BY <1>2, <2>2
  <2> QED BY <1>4, <2>1, <2>2, <2>3, <2>4
<1>8. CASE Park(c)
  <2>1. /\ phase[c] = "checked" /\ phase' = [phase EXCEPT ![c] = "login"]
        /\ UNCHANGED <<found, wanted>>
    BY <1>8 DEF Park, Moves
  <2>2. UNCHANGED connQuiet /\ parked' \subseteq Conns
    BY <1>5, <1>8 DEF Park
  <2>3. found[c] \in Gens /\ found[c] <= made
    BY <1>5, <2>1
  <2>4. /\ from_channel' \in [Gens -> Seq(Signal)]
        /\ \A g \in Gens : loop[g] # "none" => Len(from_channel'[g]) <= ReadLimit
        /\ \A g \in Gens : g > made => from_channel'[g] = <<>>
    BY <1>2, <1>8, <2>3 DEF Park
  <2> QED BY <1>4, <2>1, <2>2, <2>3, <2>4
<1>9. CASE Announce(c)
  <2>1. /\ phase[c] = "login" /\ phase' = [phase EXCEPT ![c] = "up"]
        /\ UNCHANGED <<found, wanted>>
    BY <1>9 DEF Announce, Moves
  <2>2. UNCHANGED connQuiet /\ parked' \subseteq Conns
    BY <1>5, <1>9 DEF Announce
  <2>3. found[c] \in Gens /\ found[c] <= made
    BY <1>5, <2>1
  <2>4. /\ from_channel' \in [Gens -> Seq(Signal)]
        /\ \A g \in Gens : loop[g] # "none" => Len(from_channel'[g]) <= ReadLimit
        /\ \A g \in Gens : g > made => from_channel'[g] = <<>>
    BY <1>3, <1>9, <2>3 DEF Announce
  <2> QED BY <1>4, <2>1, <2>2, <2>3, <2>4
<1>10. CASE Ends(c)
  <2>1. /\ phase[c] = "up" /\ phase' = [phase EXCEPT ![c] = "dropped"]
        /\ UNCHANGED <<found, wanted>>
    BY <1>10 DEF Ends, Moves
  <2>2. UNCHANGED connQuiet /\ parked' \subseteq Conns
    BY <1>5, <1>10 DEF Ends
  <2>3. found[c] \in Gens /\ found[c] <= made
    BY <1>5, <2>1
  <2>4. /\ from_channel' \in [Gens -> Seq(Signal)]
        /\ \A g \in Gens : loop[g] # "none" => Len(from_channel'[g]) <= ReadLimit
        /\ \A g \in Gens : g > made => from_channel'[g] = <<>>
    BY <1>2, <1>10, <2>3 DEF Ends
  <2> QED BY <1>4, <2>1, <2>2, <2>3, <2>4
<1>11. CASE DropSends(c)
  <2>1. /\ phase[c] = "dropped" /\ phase' = [phase EXCEPT ![c] = "ended"]
        /\ found' = [found EXCEPT ![c] = NONE] /\ wanted' = [wanted EXCEPT ![c] = NONE]
    BY <1>11 DEF DropSends, Over, Moves
  <2>2. UNCHANGED connQuiet /\ parked' \subseteq Conns
    BY <1>5, <1>11 DEF DropSends
  <2>3. found[c] \in Gens /\ found[c] <= made
    BY <1>5, <2>1
  <2>4. /\ from_channel' \in [Gens -> Seq(Signal)]
        /\ \A g \in Gens : loop[g] # "none" => Len(from_channel'[g]) <= ReadLimit
        /\ \A g \in Gens : g > made => from_channel'[g] = <<>>
    BY <1>3, <1>11, <2>3 DEF DropSends
  <2> QED BY <1>4, <2>1, <2>2, <2>3, <2>4
<1>12. ASSUME NEW id \in Ids, LoginCheck(c, id) PROVE IInv'
  <2>1. /\ Readable /\ entitys[id] # NONE
        /\ phase' = [phase EXCEPT ![c] = "checked"]
        /\ found' = [found EXCEPT ![c] = entitys[id]] /\ wanted' = [wanted EXCEPT ![c] = id]
        /\ UNCHANGED <<connQuiet, from_channel, parked>>
    BY <1>12 DEF LoginCheck, Moves, Accepts
  <2>2. PICK g \in Gens : g = entitys[id]
    BY <2>1 DEF IInv, TypeOK
  <2>3. senders[id] = g /\ g <= made /\ ~ToldToClose(g)
    <3>1. pc # "close" /\ Current(id) = senders[id]
      BY <2>1 DEF Readable, Current
    <3>2. senders[id] = g
      BY <3>1, <2>2 DEF IInv, RegistriesAgree
    <3>3. g # NONE
      BY IdsAssumption DEF Gens
    <3> QED BY <3>1, <3>2, <3>3 DEF IInv, Owners
  <2>4. /\ found' \in [Conns -> Gens \cup {NONE}] /\ wanted' \in [Conns -> Ids \cup {NONE}]
        /\ phase'[c] = "checked" /\ found'[c] = g /\ wanted'[c] = id
        /\ \A d \in Conns : d # c => /\ found'[d] = found[d] /\ wanted'[d] = wanted[d]
                                     /\ phase'[d] = phase[d]
    BY <2>1, <2>2 DEF IInv, TypeOK
  <2>5. TypeOK'
    BY <2>1, <2>4 DEF connQuiet, managerQuiet, kafkaVars, managerVars, IInv, TypeOK
  <2>6. UNCHANGED <<entitys, senders, made>> /\ \A h \in Gens : ToldToClose(h)' <=> ToldToClose(h)
    BY <2>1 DEF ToldToClose, connQuiet, managerQuiet, managerVars
  <2>7. Logins'
    BY <2>3, <2>4, <2>6 DEF IInv, Logins
  <2>8. ASSUME NEW d \in Conns, NEW h \in Gens, Reading(d)', h = found'[d]
        PROVE  senders[wanted'[d]] = h /\ entitys[wanted'[d]] = h /\ ~ToldToClose(h)
    <3>1. CASE d = c
      BY <3>1, <2>2, <2>3, <2>4, <2>8
    <3>2. CASE d # c
      BY <3>2, <2>4, <2>8 DEF IInv, LoginSeesOpenEntity, Reading
    <3> QED BY <3>1, <3>2
  <2>9. \A d \in Conns : Reading(d)' => found'[d] \in Gens
    BY <2>7 DEF Logins, Reading
  <2>10. LoginSeesOpenEntity'
    <3>1. ASSUME NEW d \in Conns, Reading(d)'
          PROVE  (senders[wanted[d]] = found[d] /\ entitys[wanted[d]] = found[d] /\ ~ToldToClose(found[d]))'
      <4>1. PICK h \in Gens : h = found'[d]
        BY <2>9, <3>1
      <4>2. senders[wanted'[d]] = h /\ entitys[wanted'[d]] = h /\ ~ToldToClose(h)'
        BY <2>6, <2>8, <3>1, <4>1
      <4> QED BY <2>6, <4>1, <4>2 DEF ToldToClose
    <3> QED BY <3>1 DEF LoginSeesOpenEntity
  <2> QED BY <1>1, <1>2, <2>1, <2>5, <2>7, <2>10
<1> QED BY <1>6, <1>7, <1>8, <1>9, <1>10, <1>11, <1>12 DEF ChannelStep, PeerStep

(* The manager takes a record and sends it on, without the lock.           *)
LEMMA UnlockedKeeps ==
    ASSUME IInv, TypeOK', pc \in {"idle", "send", "ask"}, pc' \in {"idle", "send", "ask", "lock"},
           pc' = "idle" <=> msg' = NONE, pc' = "ask" => \A g \in asking' : \E id \in Ids : senders[id] = g,
           UNCHANGED <<closing, entitys, senders, made, id_of, loop, from_channel, entityVars, connVars>>,
           \A g \in Gens : ToldToClose(g)' <=> ToldToClose(g),
           \A g \in Gens : (\E i \in DOMAIN queue'[g] : queue'[g][i] = CLOSE)
                             => (\E i \in DOMAIN queue[g] : queue[g][i] = CLOSE),
           \A g \in Gens : g > made => told'[g] = told[g]
    PROVE  IInv'
<1>1. UNCHANGED <<task, phase, found, wanted>> /\ pc # "close" /\ pc' # "close"
  BY DEF entityVars, connVars
<1>2. Steady' /\ Closers'
  BY <1>1 DEF IInv, Steady, Closers
<1>3. Owners'
  <2>1. ASSUME NEW id \in Ids, NEW g \in Gens, senders[id] = g
        PROVE  g <= made' /\ id_of'[g] = id /\ task'[g] = "run" /\ ~ToldToClose(g)'
    <3>1. Current(id) = g /\ g # NONE
      BY <1>1, <2>1, IdsAssumption DEF Current, Gens
    <3> QED BY <1>1, <3>1 DEF IInv, Owners
  <2>2. \A id \in Ids : Current(id)' = senders[id] /\ senders[id] \in Gens \cup {NONE}
    BY <1>1 DEF Current, IInv, TypeOK
  <2> QED BY <2>1, <2>2 DEF Owners
<1>4. Unborn' /\ Logins' /\ RegistriesAgree'
  BY <1>1 DEF IInv, Unborn, Logins, RegistriesAgree
<1>5. NoOrphanTask'
  BY <1>1 DEF IInv, NoOrphanTask
<1>6. LoginSeesOpenEntity'
  <2>1. \A c \in Conns : Reading(c) => found[c] \in Gens
    BY DEF IInv, Logins, Reading
  <2> QED BY <1>1, <2>1 DEF IInv, LoginSeesOpenEntity, Reading, ToldToClose
<1> QED BY <1>2, <1>3, <1>4, <1>5, <1>6 DEF IInv

(* The record decides where the manager goes.                              *)
LEMMA TakeKeeps == ASSUME IInv, NEW m \in Msgs, Take(m) PROVE IInv'
<1>1. /\ pc = "idle" /\ m \in unread /\ unread' = unread \ {m} /\ msg' = m
      /\ pc' = CASE Topic[m] \in {"passage", "account", "remove"} -> "lock"
                 [] Topic[m] = "send" -> "send"
                 [] Topic[m] = "state" -> "ask"
      /\ asking' = IF Topic[m] = "state" THEN Asked(m) ELSE {}
      /\ UNCHANGED <<handled, closing, entitys, senders, made, id_of, queue, loop,
                     from_channel, entityVars, connVars, restarts, told>>
  BY DEF Take
<1>2. pc' \in {"lock", "send", "ask"}
  BY <1>1, MsgsAssumption DEF Topics
<1>3. asking' \subseteq Gens /\ \A g \in asking' : \E id \in Ids : senders[id] = g
  BY <1>1, MsgsAssumption DEF Asked, IInv, TypeOK
<1>4. TypeOK'
  BY <1>1, <1>2, <1>3 DEF IInv, TypeOK, entityVars, connVars
<1>5. \A g \in Gens : ToldToClose(g)' <=> ToldToClose(g)
  BY <1>1 DEF ToldToClose
<1> QED BY <1>1, <1>2, <1>3, <1>4, <1>5, MsgsAssumption, UnlockedKeeps DEF entityVars, connVars

(* The end of a record, with or without a thing put into a queue.          *)
LEMMA DoneKeeps ==
    ASSUME IInv, pc \in {"send", "ask"}, Done, UNCHANGED <<queue, told>>,
           UNCHANGED <<closing, asking, entitys, senders, made, id_of, loop, from_channel,
                       entityVars, connVars, restarts>>
    PROVE  IInv'
<1>1. /\ pc' = "idle" /\ msg' = NONE /\ handled' = handled \cup {msg}
      /\ UNCHANGED unread
      /\ UNCHANGED <<task, connecting, attached, parked, phase, found, wanted>>
  BY DEF Done, entityVars, connVars
<1>2. msg \in Msgs
  BY DEF IInv, TypeOK, Steady
<1>3. TypeOK'
  BY <1>1, <1>2 DEF IInv, TypeOK
<1>4. \A g \in Gens : ToldToClose(g)' <=> ToldToClose(g)
  BY DEF ToldToClose
<1> QED BY <1>1, <1>3, <1>4, UnlockedKeeps

(* Only an entity of the registry is sent anything, and never "close".     *)
LEMMA SendKeeps == ASSUME IInv, Forward \/ Skip \/ AllAsked \/ \E g \in Gens : Ask(g) PROVE IInv'
<1>1. CASE Skip \/ AllAsked
  BY <1>1, DoneKeeps DEF Skip, AllAsked
<1>2. ASSUME NEW g \in Gens, NEW id \in Ids, senders[id] = g, Put(g, msg), pc \in {"send", "ask"},
             pc' \in {"idle", "ask"}, pc' = "idle" <=> msg' = NONE, msg' \in {msg, NONE},
             pc' = "ask" => asking' \subseteq asking /\ pc = "ask", asking' \subseteq asking,
             handled' \subseteq Msgs,
             UNCHANGED <<unread, closing, entitys, senders, made, id_of, loop,
                         from_channel, entityVars, connVars, restarts>>
      PROVE  IInv'
  <2>1. msg \in Msgs /\ msg # CLOSE
    BY <1>2, MsgsAssumption DEF IInv, TypeOK, Steady, CLOSE
  <2>2. g <= made
    <3>1. Current(id) = g /\ g # NONE
      BY <1>2, IdsAssumption DEF Current, Gens
    <3> QED BY <3>1 DEF IInv, Owners
  <2>3. /\ queue' \in [Gens -> Seq(Msgs \cup {CLOSE})] /\ \A h \in Gens : Len(queue'[h]) <= QueueCap
        /\ told' \in [Gens -> Seq(Msgs \cup {CLOSE})]
        /\ \A h \in Gens : h # g => told'[h] = told[h]
        /\ \A h \in Gens : ToldToClose(h)' <=> ToldToClose(h)
        /\ \A h \in Gens : (\E i \in DOMAIN queue'[h] : queue'[h][i] = CLOSE) =>
              (\E i \in DOMAIN queue[h] : queue[h][i] = CLOSE)
    <3>1. msg \in Msgs \cup {CLOSE} /\ TypeOK /\ Put(g, msg)
      BY <1>2, <2>1 DEF IInv
    <3>2. /\ queue' \in [Gens -> Seq(Msgs \cup {CLOSE})] /\ \A h \in Gens : Len(queue'[h]) <= QueueCap
          /\ told' \in [Gens -> Seq(Msgs \cup {CLOSE})]
          /\ \A h \in Gens : h # g => queue'[h] = queue[h] /\ told'[h] = told[h]
          /\ \A h \in Gens : ToldToClose(h)' <=> ToldToClose(h) \/ (h = g /\ msg = CLOSE /\ ~Gone(g))
          /\ \A h \in Gens : (\E i \in DOMAIN queue'[h] : queue'[h][i] = CLOSE) =>
                (\E i \in DOMAIN queue[h] : queue[h][i] = CLOSE) \/ (h = g /\ msg = CLOSE /\ ~Gone(g))
      BY <3>1, PutEffect
    <3> QED BY <3>2, <2>1
  <2>4. TypeOK'
    <3>1. /\ pc' \in {"idle", "send", "ask", "lock", "close", "create"} /\ msg' \in Msgs \cup {NONE}
          /\ asking' \subseteq Gens /\ handled' \in SUBSET Msgs
      BY <1>2, <2>1 DEF IInv, TypeOK
    <3>2. UNCHANGED <<task, connecting, attached, parked, phase, found, wanted>>
      BY <1>2 DEF entityVars, connVars
    <3> QED BY <1>2, <3>1, <3>2, <2>3 DEF IInv, TypeOK
  <2>6. \A h \in Gens : h > made => told'[h] = told[h]
    BY <2>2, <2>3 DEF IInv, TypeOK, Gens
  <2>7. pc' = "ask" => \A h \in asking' : \E i \in Ids : senders[i] = h
    BY <1>2 DEF IInv, Steady
  <2> QED BY <1>2, <2>3, <2>4, <2>6, <2>7, UnlockedKeeps
<1>3. CASE Forward
  <2>1. msg \in Msgs /\ To[msg] \in Ids /\ senders[To[msg]] \in Gens /\ handled' \subseteq Msgs
    BY <1>3, MsgsAssumption DEF Forward, Done, IInv, TypeOK, Steady
  <2> QED BY <1>2, <1>3, <2>1 DEF Forward, Done
<1>4. ASSUME NEW g \in Gens, Ask(g) PROVE IInv'
  <2>1. PICK id \in Ids : senders[id] = g
    BY <1>4 DEF Ask, IInv, Steady
  <2> QED BY <1>2, <1>4, <2>1 DEF Ask, IInv, TypeOK, Steady, kafkaVars
<1> QED BY <1>1, <1>3, <1>4

(* The lock is granted when no login reads the registry.                   *)
LEMMA LockKeeps == ASSUME IInv, LockRegistry PROVE IInv'
<1>1. /\ pc = "lock" /\ \A c \in Conns : ~Reading(c)
      /\ closing' = IF entitys[To[msg]] # NONE THEN senders[To[msg]] ELSE NONE
      /\ senders' = IF closing' # NONE THEN [senders EXCEPT ![To[msg]] = NONE] ELSE senders
      /\ entitys' = IF closing' # NONE THEN entitys ELSE [entitys EXCEPT ![To[msg]] = NONE]
      /\ pc' = IF closing' # NONE THEN "close" ELSE "create"
      /\ UNCHANGED <<kafkaVars, msg, asking, made, id_of, queue, loop,
                     from_channel, entityVars, connVars, restarts, told>>
  BY DEF LockRegistry
<1>2. UNCHANGED <<unread, handled, task, connecting, attached, parked, phase, found, wanted>>
  BY <1>1 DEF kafkaVars, entityVars, connVars
<1>3. msg \in Msgs /\ To[msg] \in Ids /\ entitys[To[msg]] = senders[To[msg]] /\ senders[To[msg]] \in Gens \cup {NONE}
  BY <1>1, MsgsAssumption DEF IInv, TypeOK, Steady, RegistriesAgree
<1>4. /\ closing' = senders[To[msg]]
      /\ senders' = [senders EXCEPT ![To[msg]] = NONE] /\ senders \in [Ids -> Gens \cup {NONE}]
      /\ entitys' = IF closing' # NONE THEN entitys ELSE [entitys EXCEPT ![To[msg]] = NONE]
      /\ entitys' = entitys /\ entitys \in [Ids -> Gens \cup {NONE}]
  <2>1. senders \in [Ids -> Gens \cup {NONE}] /\ entitys \in [Ids -> Gens \cup {NONE}]
    BY DEF IInv, TypeOK
  <2>2. closing' = senders[To[msg]]
    BY <1>1, <1>3
  <2>3. senders' = [senders EXCEPT ![To[msg]] = NONE]
    BY <1>1, <1>3, <2>1, <2>2
  <2>4. entitys' = entitys
    BY <1>1, <1>3, <2>1, <2>2
  <2> QED BY <1>1, <2>1, <2>2, <2>3, <2>4
<1>5. \A g \in Gens : ToldToClose(g)' <=> ToldToClose(g)
  BY <1>1 DEF ToldToClose
<1>6. TypeOK'
  BY <1>1, <1>2, <1>3, <1>4 DEF IInv, TypeOK
<1>7. Steady'
  BY <1>1, <1>2, <1>3, <1>4 DEF IInv, Steady, Reading
<1>8. Owners'
  <2>1. ASSUME NEW id \in Ids, NEW g \in Gens, Current(id) = g
        PROVE  g <= made' /\ id_of'[g] = id /\ task'[g] = "run" /\ ~ToldToClose(g)'
    BY <1>1, <1>2, <1>5, <2>1, IdsAssumption DEF IInv, Owners, Gens
  <2>2. \A id \in Ids : Current(id)' = Current(id) /\ Current(id) \in Gens \cup {NONE}
    BY <1>1, <1>3, <1>4 DEF Current, IInv, TypeOK
  <2> QED BY <2>1, <2>2 DEF Owners
<1>9. Closers' /\ Unborn' /\ Logins'
  BY <1>1, <1>2, <1>5 DEF IInv, Closers, Unborn, Logins
<1>10. RegistriesAgree'
  BY <1>1, <1>3, <1>4 DEF IInv, RegistriesAgree
<1>11. NoOrphanTask'
  <2>1. ASSUME NEW g \in Gens, task[g] = "run", senders[id_of[g]] = g
        PROVE  senders'[id_of[g]] = g \/ (pc' = "close" /\ closing' = g)
    <3>2. id_of[g] \in Ids
      BY <2>1 DEF IInv, Unborn
    <3>3. CASE id_of[g] = To[msg]
      BY <3>3, <1>1, <1>4, <2>1, IdsAssumption DEF Gens
    <3>4. CASE id_of[g] # To[msg]
      BY <3>2, <3>4, <1>4, <2>1
    <3> QED BY <3>3, <3>4
  <2> QED BY <2>1, <1>1, <1>2, <1>5 DEF IInv, NoOrphanTask
<1>12. LoginSeesOpenEntity'
  BY <1>1, <1>2 DEF LoginSeesOpenEntity, Reading
<1> QED BY <1>6, <1>7, <1>8, <1>9, <1>10, <1>11, <1>12 DEF IInv

(* The entity was never told to close before, and is no more of its id.    *)
LEMMA CloseKeeps == ASSUME IInv, TellClose PROVE IInv'
<1>1. /\ pc = "close" /\ Put(closing, CLOSE)
      /\ entitys' = [entitys EXCEPT ![To[msg]] = NONE]
      /\ pc' = "create" /\ closing' = NONE
      /\ UNCHANGED <<kafkaVars, msg, asking, senders, made, id_of, loop, from_channel,
                     entityVars, connVars, restarts>>
  BY DEF TellClose
<1>2. UNCHANGED <<unread, handled, task, connecting, attached, parked, phase, found, wanted>>
  BY <1>1 DEF kafkaVars, entityVars, connVars
<1>3. /\ msg \in Msgs /\ To[msg] \in Ids /\ closing \in Gens
      /\ senders[To[msg]] = NONE /\ \A c \in Conns : ~Reading(c)
  BY <1>1, MsgsAssumption DEF IInv, TypeOK, Steady
<1>4. closing <= made /\ id_of[closing] = To[msg] /\ task[closing] = "run" /\ ~Gone(closing)
  <2>1. Current(To[msg]) = closing /\ closing # NONE
    BY <1>1, <1>3, IdsAssumption DEF Current, Gens
  <2> QED BY <1>3, <2>1 DEF IInv, Owners, Gone
<1>5. /\ queue' \in [Gens -> Seq(Msgs \cup {CLOSE})] /\ \A h \in Gens : Len(queue'[h]) <= QueueCap
      /\ told' \in [Gens -> Seq(Msgs \cup {CLOSE})]
      /\ \A h \in Gens : h # closing => told'[h] = told[h]
      /\ \A h \in Gens : ToldToClose(h)' <=> ToldToClose(h) \/ h = closing
      /\ \A h \in Gens : (\E i \in DOMAIN queue'[h] : queue'[h][i] = CLOSE) =>
            (\E i \in DOMAIN queue[h] : queue[h][i] = CLOSE) \/ h = closing
  BY <1>1, <1>3, <1>4, PutEffect DEF IInv
<1>6. TypeOK'
  BY <1>1, <1>2, <1>5 DEF IInv, TypeOK
<1>7. Steady' /\ Closers' /\ Logins'
  BY <1>1, <1>2, <1>3, <1>5 DEF IInv, Steady, Closers, Logins, Reading
<1>8. Owners'
  <2>1. ASSUME NEW id \in Ids, NEW g \in Gens, senders[id] = g
        PROVE  g <= made' /\ id_of'[g] = id /\ task'[g] = "run" /\ ~ToldToClose(g)'
    <3>1. id # To[msg] /\ Current(id) = g /\ g # NONE
      BY <1>3, <2>1, IdsAssumption DEF Current, Gens
    <3>2. g <= made /\ id_of[g] = id /\ task[g] = "run" /\ ~ToldToClose(g)
      BY <3>1 DEF IInv, Owners
    <3> QED BY <1>1, <1>2, <1>4, <1>5, <3>1, <3>2
  <2>2. \A id \in Ids : Current(id)' = senders[id] /\ senders[id] \in Gens \cup {NONE}
    BY <1>1 DEF Current, IInv, TypeOK
  <2> QED BY <2>1, <2>2 DEF Owners
<1>9. Unborn'
  BY <1>1, <1>2, <1>4, <1>5 DEF IInv, Unborn, Gens, TypeOK
<1>10. RegistriesAgree'
  BY <1>1, <1>3 DEF IInv, RegistriesAgree, TypeOK
<1>11. NoOrphanTask'
  BY <1>1, <1>2, <1>5 DEF IInv, NoOrphanTask
<1>12. LoginSeesOpenEntity'
  BY <1>2, <1>3 DEF LoginSeesOpenEntity, Reading
<1> QED BY <1>6, <1>7, <1>8, <1>9, <1>10, <1>11, <1>12 DEF IInv

(* A new entity is the first of its generation and the only one of its id. *)
LEMMA CreateKeeps == ASSUME IInv, NEW g \in Gens, Create(g) PROVE IInv'
<1>1. /\ pc = "create" /\ g = made + 1 /\ made' = g
      /\ id_of' = [id_of EXCEPT ![g] = To[msg]]
      /\ task' = [task EXCEPT ![g] = "run"]
      /\ loop' = [loop EXCEPT ![g] = IF Topic[msg] = "passage" THEN "run" ELSE "none"]
      /\ senders' = [senders EXCEPT ![To[msg]] = g]
      /\ entitys' = [entitys EXCEPT ![To[msg]] = g]
      /\ pc' = "idle" /\ msg' = NONE /\ handled' = handled \cup {msg}
      /\ UNCHANGED <<unread, closing, asking, queue, from_channel, connecting, attached, parked,
                     connVars, restarts, told>>
  BY DEF Create, Done
<1>2. UNCHANGED <<phase, found, wanted>>
  BY <1>1 DEF connVars
<1>3. msg \in Msgs /\ To[msg] \in Ids /\ senders[To[msg]] = NONE /\ \A c \in Conns : ~Reading(c)
  BY <1>1, MsgsAssumption DEF IInv, TypeOK, Steady
<1>4. \A h \in Gens : ToldToClose(h)' <=> ToldToClose(h)
  BY <1>1 DEF ToldToClose
<1>5. made \in Nat /\ MaxGens \in Nat /\ g > made /\ told[g] = <<>> /\ from_channel[g] = <<>> /\ task[g] = "none" /\ ~ToldToClose(g)
  <2>1. made \in Nat /\ MaxGens \in Nat /\ g > made
    BY <1>1, NumbersAssumption DEF IInv, TypeOK
  <2>2. told[g] = <<>> /\ from_channel[g] = <<>> /\ task[g] = "none"
    BY <2>1 DEF IInv, Unborn
  <2> QED BY <2>1, <2>2 DEF ToldToClose
<1>14. /\ id_of' \in [Gens -> Ids \cup {NONE}] /\ task' \in [Gens -> {"none", "run", "closing", "gone"}]
       /\ loop' \in [Gens -> {"none", "run", "ended"}]
       /\ senders' \in [Ids -> Gens \cup {NONE}] /\ entitys' \in [Ids -> Gens \cup {NONE}]
       /\ \A h \in Gens : /\ id_of'[h] = IF h = g THEN To[msg] ELSE id_of[h]
                          /\ task'[h] = IF h = g THEN "run" ELSE task[h]
                          /\ h # g => loop'[h] = loop[h]
       /\ \A id \in Ids : /\ senders'[id] = IF id = To[msg] THEN g ELSE senders[id]
                          /\ entitys'[id] = IF id = To[msg] THEN g ELSE entitys[id]
  BY <1>1, <1>3 DEF IInv, TypeOK
<1>6. TypeOK'
  <2>1. made' \in 0..MaxGens
    BY <1>1, <1>5 DEF Gens
  <2>2. handled' \in SUBSET Msgs /\ pc' \in {"idle"} /\ msg' \in {NONE}
    BY <1>1, <1>3 DEF IInv, TypeOK
  <2>3. UNCHANGED <<unread, closing, asking, queue, from_channel, connecting, attached, parked,
                    phase, found, wanted, restarts, told>>
    BY <1>1, <1>2
  <2>4. /\ {unread', handled'} \subseteq SUBSET Msgs /\ pc' = "idle" /\ msg' \in Msgs \cup {NONE}
        /\ closing' \in Gens \cup {NONE} /\ asking' \subseteq Gens
    BY <2>2, <2>3 DEF IInv, TypeOK
  <2>5. \A h \in Gens : loop'[h] # "none" => Len(from_channel'[h]) <= ReadLimit
    <3>1. \A h \in Gens : h # g /\ loop[h] # "none" => Len(from_channel[h]) <= ReadLimit
      BY DEF IInv, TypeOK
    <3>2. Len(from_channel'[g]) <= ReadLimit
      BY <1>5, <2>3, NumbersAssumption
    <3> QED BY <3>1, <3>2, <2>3, <1>14
  <2> QED BY <2>1, <2>3, <2>4, <2>5, <1>14 DEF IInv, TypeOK
<1>7. Steady'
  <2>1. closing = NONE
    BY <1>1 DEF IInv, Steady
  <2> QED BY <2>1, <1>1 DEF Steady
<1>8. Owners'
  <2>1. ASSUME NEW id \in Ids, NEW h \in Gens, senders'[id] = h
        PROVE  h <= made' /\ id_of'[h] = id /\ task'[h] = "run" /\ ~ToldToClose(h)'
    <3>1. CASE id = To[msg]
      BY <3>1, <2>1, <1>1, <1>4, <1>5, <1>14
    <3>2. CASE id # To[msg]
      <4>1. Current(id) = h /\ h # NONE
        BY <3>2, <2>1, <1>1, <1>14, IdsAssumption DEF Current, Gens
      <4>2. h <= made /\ id_of[h] = id /\ task[h] = "run" /\ ~ToldToClose(h)
        BY <4>1 DEF IInv, Owners
      <4>3. h # g /\ h <= made'
        BY <4>2, <1>1, <1>5 DEF Gens
      <4> QED BY <4>2, <4>3, <1>4, <1>14
    <3> QED BY <3>1, <3>2
  <2>2. \A id \in Ids : Current(id)' = senders'[id] /\ senders'[id] \in Gens \cup {NONE}
    BY <1>1, <1>6 DEF Current, TypeOK
  <2> QED BY <2>1, <2>2 DEF Owners
<1>9. Closers'
  BY <1>1, <1>4, <1>14 DEF IInv, Closers
<1>10. Unborn' /\ Logins'
  <2>1. ASSUME NEW h \in Gens
        PROVE  IF h > made' THEN /\ told[h] = <<>> /\ from_channel[h] = <<>>
                                 /\ task'[h] = "none" /\ loop'[h] = "none"
                            ELSE id_of'[h] \in Ids
    <3>1. CASE h = g
      BY <3>1, <1>1, <1>3, <1>5, <1>14 DEF Gens
    <3>2. CASE h # g
      <4>1. h > made' <=> h > made
        BY <3>2, <1>1, <1>5 DEF Gens
      <4> QED BY <3>2, <4>1, <1>14 DEF IInv, Unborn
    <3> QED BY <3>1, <3>2
  <2>2. Unborn'
    BY <2>1, <1>1 DEF Unborn
  <2>3. \A h \in Gens : h <= made => h <= made'
    BY <1>1, <1>5 DEF Gens
  <2> QED BY <2>2, <2>3, <1>2 DEF IInv, Logins
<1>11. RegistriesAgree'
  BY <1>1, <1>3 DEF IInv, RegistriesAgree, TypeOK
<1>12. NoOrphanTask'
  <2>1. ASSUME NEW h \in Gens, task'[h] = "run"
        PROVE  senders'[id_of'[h]] = h \/ ToldToClose(h)
    <3>1. CASE h = g
      BY <3>1, <1>1, <1>3 DEF IInv, TypeOK
    <3>2. CASE h # g
      <4>1. task[h] = "run" /\ id_of'[h] = id_of[h]
        BY <3>2, <2>1, <1>1 DEF IInv, TypeOK
      <4>2. senders[id_of[h]] = h \/ ToldToClose(h)
        BY <4>1, <1>1 DEF IInv, NoOrphanTask
      <4>3. h # NONE /\ id_of[h] \in Ids
        BY <4>1, IdsAssumption DEF IInv, Unborn, Gens
      <4> QED BY <4>1, <4>2, <4>3, <1>1, <1>3 DEF IInv, TypeOK
    <3> QED BY <3>1, <3>2
  <2> QED BY <2>1, <1>4 DEF NoOrphanTask
<1>13. LoginSeesOpenEntity'
  BY <1>2, <1>3 DEF LoginSeesOpenEntity, Reading
<1> QED BY <1>6, <1>7, <1>8, <1>9, <1>10, <1>11, <1>12, <1>13 DEF IInv

(* The lock is released without a new entity.                              *)
LEMMA ReleaseKeeps == ASSUME IInv, Release PROVE IInv'
<1>1. /\ pc = "create" /\ pc' = "idle" /\ msg' = NONE /\ handled' = handled \cup {msg}
      /\ UNCHANGED <<unread, closing, asking, entitys, senders, made, id_of, queue,
                     told, loop, from_channel, entityVars, connVars, restarts>>
  BY DEF Release, Done
<1>2. UNCHANGED <<task, connecting, attached, parked, phase, found, wanted>>
  BY <1>1 DEF entityVars, connVars
<1>3. msg \in Msgs /\ \A h \in Gens : ToldToClose(h)' <=> ToldToClose(h)
  BY <1>1 DEF ToldToClose, IInv, Steady, TypeOK
<1>4. TypeOK' /\ Steady'
  <2>1. TypeOK
    BY DEF IInv
  <2>2. handled' \in SUBSET Msgs /\ pc' = "idle" /\ msg' = NONE
    BY <1>1, <1>3, <2>1 DEF TypeOK
  <2>3. TypeOK'
    BY <1>1, <1>2, <2>1, <2>2 DEF TypeOK
  <2>5. closing' = NONE
    BY <1>1 DEF IInv, Steady
  <2>6. Steady'
    BY <2>2, <2>5 DEF Steady
  <2> QED BY <2>3, <2>6
<1>5. Owners'
  <2>1. ASSUME NEW id \in Ids, NEW g \in Gens, senders[id] = g
        PROVE  g <= made' /\ id_of'[g] = id /\ task'[g] = "run" /\ ~ToldToClose(g)'
    <3>1. Current(id) = g /\ g # NONE
      BY <1>1, <2>1, IdsAssumption DEF Current, Gens
    <3> QED BY <1>1, <1>2, <1>3, <3>1 DEF IInv, Owners
  <2>2. \A id \in Ids : Current(id)' = senders[id] /\ senders[id] \in Gens \cup {NONE}
    BY <1>1 DEF Current, IInv, TypeOK
  <2> QED BY <2>1, <2>2 DEF Owners
<1>6. Closers' /\ Unborn' /\ Logins' /\ RegistriesAgree' /\ NoOrphanTask'
  BY <1>1, <1>2, <1>3 DEF IInv, Closers, Unborn, Logins, RegistriesAgree, NoOrphanTask
<1>7. LoginSeesOpenEntity'
  BY <1>1, <1>2 DEF IInv, Steady, LoginSeesOpenEntity, Reading
<1> QED BY <1>4, <1>5, <1>6, <1>7 DEF IInv

(* After a restart no entity is left, and no connection.                   *)
LEMMA RestartKeeps == ASSUME IInv, Restart PROVE IInv'
<1>1. /\ restarts < MaxRestarts /\ restarts' = restarts + 1
      /\ unread' \subseteq Msgs /\ handled' \subseteq Msgs
      /\ pc' = "idle" /\ msg' = NONE /\ closing' = NONE /\ asking' = {}
      /\ entitys' = [id \in Ids |-> NONE] /\ senders' = [id \in Ids |-> NONE]
      /\ made' = 0 /\ id_of' = [g \in Gens |-> NONE]
      /\ queue' = [g \in Gens |-> <<>>] /\ told' = [g \in Gens |-> <<>>]
      /\ task' = [g \in Gens |-> "none"] /\ loop' = [g \in Gens |-> "none"]
      /\ from_channel' = [g \in Gens |-> <<>>] /\ connecting' = [g \in Gens |-> NONE]
      /\ attached' = [g \in Gens |-> {}] /\ parked' = {}
      /\ phase' = [c \in Conns |-> IF c \in Late THEN "free" ELSE "ended"]
      /\ found' = [c \in Conns |-> NONE] /\ wanted' = [c \in Conns |-> NONE]
  BY DEF Restart, None, IInv, TypeOK
<1>2. from_channel' \in [Gens -> Seq(Signal)] /\ \A g \in Gens : Len(from_channel'[g]) <= ReadLimit
  BY <1>1, QueueTypes, NumbersAssumption
<1>3. /\ queue' \in [Gens -> Seq(Msgs \cup {CLOSE})] /\ told' \in [Gens -> Seq(Msgs \cup {CLOSE})]
      /\ \A g \in Gens : Len(queue'[g]) <= QueueCap
  BY <1>1, NumbersAssumption
<1>4. restarts' \in 0..MaxRestarts /\ made' \in 0..MaxGens
  BY <1>1, NumbersAssumption DEF IInv, TypeOK
<1>5. TypeOK'
  BY <1>1, <1>2, <1>3, <1>4 DEF TypeOK, Signal
<1>6. Steady' /\ Owners' /\ RegistriesAgree'
  BY <1>1 DEF Steady, Owners, Current, RegistriesAgree
<1>7. Closers' /\ NoOrphanTask'
  BY <1>1 DEF Closers, NoOrphanTask
<1>8. Unborn'
  BY <1>1 DEF Unborn, Gens
<1>9. Logins' /\ LoginSeesOpenEntity'
  BY <1>1 DEF Logins, LoginSeesOpenEntity, Reading
<1> QED BY <1>5, <1>6, <1>7, <1>8, <1>9 DEF IInv

(* The process starts without entities.                                    *)
LEMMA InitIInv == Init => IInv
<1> SUFFICES ASSUME Init PROVE IInv
  OBVIOUS
<1>1. /\ unread = Msgs /\ handled = {}
      /\ pc = "idle" /\ msg = NONE /\ closing = NONE /\ asking = {}
      /\ entitys = [id \in Ids |-> NONE] /\ senders = [id \in Ids |-> NONE]
      /\ made = 0 /\ id_of = [g \in Gens |-> NONE]
      /\ queue = [g \in Gens |-> <<>>] /\ told = [g \in Gens |-> <<>>]
      /\ task = [g \in Gens |-> "none"] /\ loop = [g \in Gens |-> "none"]
      /\ from_channel = [g \in Gens |-> <<>>] /\ connecting = [g \in Gens |-> NONE]
      /\ attached = [g \in Gens |-> {}] /\ parked = {}
      /\ phase = [c \in Conns |-> "free"] /\ found = [c \in Conns |-> NONE]
      /\ wanted = [c \in Conns |-> NONE] /\ restarts = 0
  BY DEF Init, None
<1>2. from_channel \in [Gens -> Seq(Signal)] /\ \A g \in Gens : Len(from_channel[g]) <= ReadLimit
  BY <1>1, QueueTypes, NumbersAssumption
<1>3. /\ queue \in [Gens -> Seq(Msgs \cup {CLOSE})] /\ told \in [Gens -> Seq(Msgs \cup {CLOSE})]
      /\ \A g \in Gens : Len(queue[g]) <= QueueCap
  BY <1>1, NumbersAssumption
<1>4. TypeOK
  BY <1>1, <1>2, <1>3, NumbersAssumption DEF TypeOK, Signal
<1>5. Steady /\ Owners /\ RegistriesAgree
  BY <1>1, MsgsAssumption DEF Steady, Reading, Owners, Current, RegistriesAgree
<1>6. Closers /\ NoOrphanTask /\ Unborn
  BY <1>1 DEF Closers, NoOrphanTask, Unborn, Gens
<1>7. Logins /\ LoginSeesOpenEntity
  BY <1>1 DEF Logins, LoginSeesOpenEntity, Reading
<1> QED BY <1>4, <1>5, <1>6, <1>7 DEF IInv

(* A step of something else.                                               *)
LEMMA StutterKeeps == ASSUME IInv, UNCHANGED vars PROVE IInv'
<1>1. UNCHANGED <<unread, handled, pc, msg, closing, asking, entitys, senders, made, id_of,
                  queue, task, loop, from_channel, connecting, attached, parked, phase, found, wanted, restarts, told>>
  BY DEF vars, kafkaVars, managerVars, entityVars, connVars
<1>2. TypeOK' /\ Steady' /\ Logins'
  BY <1>1 DEF IInv, TypeOK, Steady, Reading, Logins
<1>4. Owners' /\ Closers' /\ Unborn'
  BY <1>1 DEF IInv, Owners, Current, ToldToClose, Closers, Unborn
<1>3. RegistriesAgree' /\ NoOrphanTask' /\ LoginSeesOpenEntity'
  BY <1>1 DEF IInv, RegistriesAgree, NoOrphanTask, LoginSeesOpenEntity, Reading, ToldToClose
<1> QED BY <1>2, <1>3, <1>4 DEF IInv

(* Every step of the program, whoever makes it.                            *)
LEMMA StepKeeps == ASSUME IInv, [Next]_vars PROVE IInv'
<1>1. CASE ManagerStep
  BY <1>1, TakeKeeps, SendKeeps, LockKeeps, CloseKeeps, ReleaseKeeps, CreateKeeps DEF ManagerStep
<1>2. ASSUME NEW g \in Gens, EntityStep(g) \/ Reconnect(g) \/ LoopEnds(g) PROVE IInv'
  BY <1>2, EntityKeeps, LoopKeeps
<1>3. ASSUME NEW c \in Conns, ChannelStep(c) \/ PeerStep(c) PROVE IInv'
  BY <1>3, ConnectionKeeps
<1> QED BY <1>1, <1>2, <1>3, RestartKeeps, StutterKeeps DEF Next

(* The invariant of every behaviour of the manager.                        *)
THEOREM Invariance == Spec => []IInv
BY InitIInv, StepKeeps, PTL DEF Spec

(* Every variable keeps its type, and no queue is ever longer than it may. *)
THEOREM TypeCorrect == Spec => []TypeOK
BY Invariance, PTL DEF IInv

(* The two maps of the manager agree.                                      *)
THEOREM MapsAgree == Spec => []RegistriesAgree
BY Invariance, PTL DEF IInv

(* An entity that runs can be told to close, or was.                       *)
THEOREM EveryTaskIsReached == Spec => []NoOrphanTask
BY Invariance, PTL DEF IInv

(* A login that passed its check announces itself to the entity of its id. *)
THEOREM LoginsAreCurrent == Spec => []LoginSeesOpenEntity
BY Invariance, PTL DEF IInv
---------------------------------------------------------------------------
(* Records a restart lost: read, but neither handled nor in hand.          *)
Lost == Msgs \ (unread \cup handled \cup {msg})

(* A set that gains one element at most.                                   *)
LEMMA OneMore ==
    ASSUME NEW A \in SUBSET Msgs, NEW B \in SUBSET Msgs, NEW x, B \subseteq A \cup {x}
    PROVE  /\ Cardinality(A) \in Nat /\ Cardinality(B) <= Cardinality(A) + 1
           /\ B \subseteq A => Cardinality(B) <= Cardinality(A)
<1>1. IsFiniteSet(A) /\ IsFiniteSet(A \cup {x})
  BY MsgsAssumption, FS_Subset, FS_AddElement
<1>2. Cardinality(A \cup {x}) <= Cardinality(A) + 1 /\ Cardinality(A) \in Nat /\ Cardinality(A \cup {x}) \in Nat
  BY <1>1, FS_AddElement, FS_CardinalityType
<1>3. Cardinality(B) <= Cardinality(A \cup {x}) /\ Cardinality(B) \in Nat
  BY <1>1, FS_Subset, FS_CardinalityType
<1>4. B \subseteq A => Cardinality(B) <= Cardinality(A)
  BY <1>1, FS_Subset
<1> QED BY <1>2, <1>3, <1>4

(* No step but a restart loses a record, and a restart loses the one that  *)
(* is in hand.                                                             *)
LEMMA LostStep ==
    ASSUME IInv, [Next]_vars
    PROVE  \/ Lost' \subseteq Lost /\ restarts' = restarts
           \/ Lost' \subseteq Lost \cup {msg} /\ restarts' = restarts + 1
<1>1. CASE UNCHANGED <<unread, handled, msg, restarts>>
  BY <1>1 DEF Lost
<1>2. ASSUME UNCHANGED <<kafkaVars, msg, restarts>> PROVE UNCHANGED <<unread, handled, msg, restarts>>
  BY <1>2 DEF kafkaVars
<1>3. ASSUME UNCHANGED managerQuiet PROVE UNCHANGED <<unread, handled, msg, restarts>>
  BY <1>3 DEF managerQuiet, kafkaVars, managerVars
<1>4. ASSUME NEW m \in Msgs, Take(m) PROVE Lost' \subseteq Lost /\ restarts' = restarts
  <2>1. msg = NONE /\ msg' = m /\ unread' = unread \ {m} /\ UNCHANGED <<handled, restarts>>
    BY <1>4 DEF Take, IInv, Steady
  <2> QED BY <2>1, MsgsAssumption DEF Lost
<1>5. ASSUME Done, restarts' = restarts PROVE Lost' \subseteq Lost /\ restarts' = restarts
  BY <1>5 DEF Done, Lost
<1>6. CASE ManagerStep
  <2>1. CASE Forward \/ Skip \/ AllAsked \/ Release
    BY <2>1, <1>5 DEF Forward, Skip, AllAsked, Release
  <2>2. ASSUME NEW g \in Gens, Create(g) PROVE Lost' \subseteq Lost /\ restarts' = restarts
    BY <2>2, <1>5 DEF Create
  <2>3. ASSUME NEW g \in Gens, Ask(g) PROVE UNCHANGED <<unread, handled, msg, restarts>>
    BY <2>3, <1>2 DEF Ask
  <2>4. CASE LockRegistry \/ TellClose
    BY <2>4, <1>1, <1>2 DEF LockRegistry, TellClose
  <2> QED BY <1>1, <1>4, <1>6, <2>1, <2>2, <2>3, <2>4 DEF ManagerStep
<1>7. ASSUME NEW g \in Gens, EntityStep(g) \/ Reconnect(g) \/ LoopEnds(g) PROVE UNCHANGED managerQuiet
  BY <1>7 DEF EntityStep, Handle, HandleClose, Stop, TakeConnect, HandleConnect, HandleTerminate,
              Reconnect, LoopEnds
<1>8. ASSUME NEW c \in Conns, ChannelStep(c) \/ PeerStep(c) PROVE UNCHANGED managerQuiet
  <2>1. UNCHANGED connQuiet
    BY <1>8 DEF ChannelStep, PeerStep, Park, Announce, DropSends, HandlesDropped, Accept, Unanswered,
                LoginCheck, LoginRefused, Ends
  <2> QED BY <2>1 DEF connQuiet
<1>10. CASE Restart
  <2>1. PICK S \in SUBSET (Msgs \ unread) : unread' = Msgs \ S
    BY <1>10 DEF Restart, Committed
  <2>3. msg' = NONE /\ handled' = handled \ unread' /\ restarts' = restarts + 1
    BY <1>10 DEF Restart
  <2>2. Lost' \subseteq Lost \cup {msg}
    BY <2>1, <2>3 DEF Lost
  <2> QED BY <2>2, <2>3
<1>11. CASE UNCHANGED vars
  BY <1>11, <1>1 DEF vars, kafkaVars, managerVars
<1> QED BY <1>1, <1>3, <1>6, <1>7, <1>8, <1>10, <1>11 DEF Next

(* However often the process dies, each time loses at most the record that *)
(* the manager had in hand.                                                *)
THEOREM RecordsSurvive == Spec => []LostOnePerRestart
<1>1. Init => LostOnePerRestart
  <2> SUFFICES ASSUME Init PROVE LostOnePerRestart
    OBVIOUS
  <2>1. Lost = {} /\ restarts = 0
    BY DEF Init, Lost
  <2> QED BY <2>1, FS_EmptySet DEF LostOnePerRestart, Lost
<1>2. LostOnePerRestart /\ IInv /\ IInv' /\ [Next]_vars => LostOnePerRestart'
  <2> SUFFICES ASSUME LostOnePerRestart, IInv, [Next]_vars PROVE LostOnePerRestart'
    OBVIOUS
  <2>1. Cardinality(Lost) <= restarts /\ restarts \in Nat
    BY DEF LostOnePerRestart, Lost, IInv, TypeOK
  <2>2. Lost \in SUBSET Msgs /\ Lost' \in SUBSET Msgs
    BY DEF Lost
  <2>3. CASE Lost' \subseteq Lost /\ restarts' = restarts
    BY <2>1, <2>2, <2>3, OneMore DEF LostOnePerRestart, Lost
  <2>4. CASE Lost' \subseteq Lost \cup {msg} /\ restarts' = restarts + 1
    <3>1. Cardinality(Lost') <= Cardinality(Lost) + 1 /\ Cardinality(Lost) \in Nat
      BY <2>2, <2>4, OneMore
    <3>2. Cardinality(Lost') <= restarts'
      BY <3>1, <2>1, <2>4, FS_CardinalityType, FS_Subset, MsgsAssumption, <2>2
    <3> QED BY <3>2 DEF LostOnePerRestart, Lost
  <2> QED BY <2>3, <2>4, LostStep
<1> QED BY <1>1, <1>2, Invariance, PTL DEF Spec
---------------------------------------------------------------------------
(* Steps that leave the registry as it is.                                 *)
LEMMA RegistryStutters ==
    ASSUME UNCHANGED <<told, senders, pc, msg, closing>>
    PROVE  UNCHANGED Registry!registryVars
BY DEF Registry!registryVars

(* Every step tells, closes or opens as EntityRegistry does, or is none of *)
(* its steps: the entity that gets a thing is the current one of an id.    *)
LEMMA RegistryStep ==
    ASSUME IInv, IInv', [Next]_vars
    PROVE  [Registry!Next]_(Registry!registryVars)
<1> DEFINE current == [id \in Ids |-> IF pc = "close" /\ To[msg] = id THEN closing ELSE senders[id]]
<1>1. ASSUME UNCHANGED managerQuiet PROVE UNCHANGED Registry!registryVars
  BY <1>1, RegistryStutters DEF managerQuiet, managerVars
<1>2. ASSUME NEW id \in Ids, NEW g \in Gens, current[id] = g
      PROVE  g # NONE /\ g <= made /\ ~Gone(g)
  <2>1. Current(id) = g /\ g # NONE
    BY <1>2, IdsAssumption DEF Current, Gens
  <2> QED BY <2>1 DEF IInv, Owners, Gone
<1>3. ASSUME NEW m \in Msgs, Take(m) PROVE UNCHANGED Registry!registryVars
  <2>1. pc = "idle" /\ pc' # "close" /\ UNCHANGED <<told, senders>>
    BY <1>3, MsgsAssumption DEF Take, Topics
  <2> QED BY <2>1 DEF Registry!registryVars
<1>4. CASE Skip \/ AllAsked \/ Release
  <2>1. pc # "close" /\ pc' = "idle" /\ UNCHANGED <<told, senders>>
    BY <1>4 DEF Skip, AllAsked, Release, Done
  <2> QED BY <2>1 DEF Registry!registryVars
<1>5. ASSUME NEW id \in Ids, NEW g \in Gens, senders[id] = g, Put(g, msg), msg \in Msgs,
             pc # "close", pc' # "close", UNCHANGED senders
      PROVE  Registry!Next
  <2>1. current[id] = g /\ UNCHANGED current
    BY <1>5
  <2>2. told' = [told EXCEPT ![g] = Append(@, msg)]
    BY <1>2, <1>5, <2>1 DEF Put
  <2>3. Registry!Tell(id, msg)
    BY <1>2, <2>1, <2>2 DEF Registry!Tell
  <2> QED BY <1>5, <2>3 DEF Registry!Next
<1>6. CASE Forward
  <2>1. msg \in Msgs /\ To[msg] \in Ids /\ senders[To[msg]] \in Gens
    BY <1>6, MsgsAssumption DEF Forward, IInv, TypeOK, Steady
  <2> QED BY <1>5, <1>6, <2>1 DEF Forward, Done
<1>7. ASSUME NEW g \in Gens, Ask(g) PROVE Registry!Next
  <2>1. PICK id \in Ids : senders[id] = g
    BY <1>7 DEF Ask, IInv, Steady
  <2>2. msg \in Msgs
    BY <1>7 DEF Ask, IInv, TypeOK, Steady
  <2> QED BY <1>5, <1>7, <2>1, <2>2 DEF Ask
<1>8. CASE LockRegistry
  <2>1. /\ pc = "lock" /\ msg \in Msgs /\ To[msg] \in Ids /\ msg' = msg /\ told' = told
        /\ entitys[To[msg]] = senders[To[msg]]
    BY <1>8, MsgsAssumption DEF LockRegistry, IInv, TypeOK, Steady, RegistriesAgree
  <2>2. /\ closing' = senders[To[msg]]
        /\ senders' = IF closing' # NONE THEN [senders EXCEPT ![To[msg]] = NONE] ELSE senders
        /\ pc' = IF closing' # NONE THEN "close" ELSE "create"
    BY <1>8, <2>1 DEF LockRegistry
  <2>3. senders \in [Ids -> Gens \cup {NONE}]
    BY DEF IInv, TypeOK
  <2>4. \A id \in Ids : (IF pc' = "close" /\ To[msg'] = id THEN closing' ELSE senders'[id]) = senders[id]
    BY <2>1, <2>2, <2>3
  <2>5. UNCHANGED current
    BY <2>1, <2>4
  <2> QED BY <2>1, <2>5 DEF Registry!registryVars
<1>9. CASE TellClose
  <2>1. /\ pc = "close" /\ Put(closing, CLOSE) /\ pc' = "create" /\ UNCHANGED <<msg, senders>>
        /\ msg \in Msgs /\ To[msg] \in Ids /\ closing \in Gens /\ senders[To[msg]] = NONE
    BY <1>9, MsgsAssumption DEF TellClose, IInv, TypeOK, Steady
  <2>2. current[To[msg]] = closing /\ closing # NONE /\ ~Gone(closing)
    BY <1>2, <2>1
  <2>3. told' = [told EXCEPT ![closing] = Append(@, CLOSE)]
    BY <2>1, <2>2 DEF Put
  <2>4. current' = [current EXCEPT ![To[msg]] = NONE]
    BY <2>1
  <2>5. PICK id \in Ids : id = To[msg]
    BY <2>1
  <2>6. Registry!Close(id)
    BY <2>2, <2>3, <2>4, <2>5 DEF Registry!Close
  <2> QED BY <2>6 DEF Registry!Next
<1>10. ASSUME NEW g \in Gens, Create(g) PROVE Registry!Next
  <2>1. /\ pc = "create" /\ pc' = "idle" /\ g = made + 1 /\ told' = told
        /\ senders' = [senders EXCEPT ![To[msg]] = g]
    BY <1>10 DEF Create, Done
  <2>2. msg \in Msgs /\ To[msg] \in Ids /\ senders[To[msg]] = NONE /\ made \in Nat
    BY <2>1, MsgsAssumption, NumbersAssumption DEF IInv, TypeOK, Steady
  <2>3. told[g] = <<>>
    BY <2>1, <2>2 DEF IInv, Unborn
  <2>4. current[To[msg]] = NONE /\ \A id \in Ids : current[id] # g
    BY <1>2, <2>1, <2>2 DEF Gens
  <2>5. current' = [current EXCEPT ![To[msg]] = g]
    BY <2>1, <2>2 DEF IInv, TypeOK
  <2>6. Registry!Open(To[msg], g)
    BY <2>1, <2>3, <2>4, <2>5 DEF Registry!Open
  <2> QED BY <2>2, <2>6 DEF Registry!Next
<1>11. ASSUME NEW g \in Gens, EntityStep(g) \/ Reconnect(g) \/ LoopEnds(g) PROVE UNCHANGED managerQuiet
  BY <1>11 DEF EntityStep, Handle, HandleClose, Stop, TakeConnect, HandleConnect, HandleTerminate,
              Reconnect, LoopEnds
<1>12. ASSUME NEW c \in Conns, ChannelStep(c) \/ PeerStep(c) PROVE UNCHANGED managerQuiet
  <2>1. UNCHANGED connQuiet
    BY <1>12 DEF ChannelStep, PeerStep, Park, Announce, DropSends, HandlesDropped, Accept, Unanswered,
                 LoginCheck, LoginRefused, Ends
  <2> QED BY <2>1 DEF connQuiet
<1>13. CASE UNCHANGED vars
  BY <1>13, RegistryStutters DEF vars, managerVars
<1>14. CASE Restart
  <2>1. pc' = "idle" /\ senders' = [id \in Ids |-> NONE] /\ told' = [g \in Gens |-> <<>>]
    BY <1>14 DEF Restart, None
  <2>2. current' = [id \in Ids |-> NONE]
    BY <2>1
  <2>3. Registry!Restart
    BY <2>1, <2>2 DEF Registry!Restart
  <2> QED BY <2>3 DEF Registry!Next
<1>15. CASE ManagerStep
  BY <1>3, <1>4, <1>6, <1>7, <1>8, <1>9, <1>10, <1>15 DEF ManagerStep
<1> QED BY <1>1, <1>11, <1>12, <1>13, <1>14, <1>15 DEF Next

(* The manager, its locks, queues and restarts keep what EntityRegistry    *)
(* promises: one entity per id, and nothing after "close".                 *)
THEOREM ManagerImplementsRegistry == Spec => ImplementsRegistry
<1>1. Init => Registry!Init
  BY DEF Init, None, Registry!Init
<1>2. IInv /\ IInv' /\ [Next]_vars => [Registry!Next]_(Registry!registryVars)
  BY RegistryStep
<1> QED BY <1>1, <1>2, Invariance, PTL DEF Spec, ImplementsRegistry, Registry!Spec
=============================================================================
