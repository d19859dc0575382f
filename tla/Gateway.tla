------------------------------ MODULE Gateway ------------------------------
(***************************************************************************)
(* One entity: its task, its connections, and the Kafka side as the        *)
(* environment that sends messages, asks for the state and closes the      *)
(* entity (src/src/entity/entity_manager.rs).                              *)
(***************************************************************************)
EXTENDS EntityRunning, Channel

CONSTANTS
    Requests,      \* what else the business side asks: subset of {"state", "close"}
    Timers         \* which timers run out: subset of {"answers", "days"}

ASSUME RequestsAssumption ==
    Requests \subseteq {"state", "close"} /\ Timers \subseteq {"answers", "days"}

VARIABLES
    registered,    \* the entity is in EntityManager.entitys
    unsent         \* Outs not taken from Kafka yet

vars == <<baseVars, entityVars, channelVars, registered, unsent>>

Init ==
    /\ InitEntity /\ InitChannel
    /\ from_manager = <<>> /\ from_channel = <<>>
    /\ priority = [c \in Channels |-> <<>>] /\ common = [c \in Channels |-> <<>>]
    /\ parked = {} /\ send_channels = <<>> /\ now_conn_num = 0
    /\ failed = {}
    /\ registered = TRUE /\ unsent = Outs
---------------------------------------------------------------------------
(* handle_queue_msg *)

ToEntity(msg) ==
    /\ from_manager' = Append(from_manager, msg)
    /\ UNCHANGED <<pc, from_channel, priority, common, parked, send_channels,
                   now_conn_num, phase, failed, entityVars, channelVars>>

(* "send.submit" | "send.deliver" | "send.report" *)
Send ==
    /\ registered
    /\ \E m \in unsent :
        /\ unsent' = unsent \ {m}
        /\ ToEntity([type |-> "send", m |-> m])
    /\ UNCHANGED registered

(* "passage.request.state".  Bound: one request waits at a time. *)
AskState ==
    /\ "state" \in Requests /\ registered
    /\ \A i \in DOMAIN from_manager : from_manager[i].type # "passage.request.state"
    /\ ToEntity([type |-> "passage.request.state"])
    /\ UNCHANGED <<registered, unsent>>

(* "*.remove", and the first half of "*.modify": entitys.write() excludes  *)
(* logins, which hold entitys.read() from the check until they announced.  *)
CloseEntity ==
    /\ "close" \in Requests /\ registered
    /\ \A c \in Channels : phase[c] \notin {"checked", "login"}
    /\ registered' = FALSE
    /\ ToEntity([type |-> "close"])
    /\ UNCHANGED unsent

ManagerStep == Send \/ AskState \/ CloseEntity

(* A login finds the entity in the registry. *)
Login(c) == registered /\ LoginCheck(c)

(* An answer to k can still come. *)
AnswerMayCome(k) ==
    \/ \E c \in Channels : k \in wire[c] \/ hand[c] = RespMsg(k, TRUE) \/ hand[c] = RespMsg(k, FALSE)
    \/ \E i \in DOMAIN from_channel : from_channel[i].type = "Resp" /\ from_channel[i].seq = k

(* The 30 seconds of an answer that is still on its way run out at most    *)
(* MaxTries - 1 times (a bound); those of an answer that cannot come any   *)
(* more always do.                                                         *)
AnswersTimeOut ==
    /\ "answers" \in Timers
    /\ \A k \in DOMAIN wait_receipt_map : AnswerMayCome(k) => tries[k[1]] < MaxTries[k[1]]
    /\ AnswersAge

DaysTimeOut == "days" \in Timers /\ DaysPass

EntityIdle == UNCHANGED <<entityVars, registered, unsent>>

Next ==
    \/ ManagerStep
    \/ EntityStep /\ UNCHANGED <<channelVars, registered, unsent>>
    \/ (AnswersTimeOut \/ DaysTimeOut) /\ UNCHANGED <<channelVars, registered, unsent>>
    \/ \E c \in Channels : (Login(c) \/ ChannelStep(c) \/ PeerStep(c)) /\ EntityIdle

Spec == Init /\ [][Next]_vars
===========================================================================
