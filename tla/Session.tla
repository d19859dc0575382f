------------------------------- MODULE Session -------------------------------
(***************************************************************************)
(* One connection between a server entity (the client: start_connect of    *)
(* channel.rs) and a listener (the server: start_server): the login and    *)
(* the choice of a protocol version, then frames in both directions, each  *)
(* written by the codec of one end and read by the codec of the other.     *)
(* Both ends run this code, as the programs of main_server.rs and          *)
(* main_test.rs do, and the listener speaks the client's protocol family.  *)
(*                                                                         *)
(* Queues, windows and resends are in module Channel; here a message is    *)
(* sent once, at any moment, and over the limit or not at will.            *)
(***************************************************************************)
EXTENDS Codecs

CONSTANTS
    Configs,       \* clients: name and version of the protocol, keys of the login
    Accounts,      \* listener's accounts: known, allow, auth, full
    Ip,            \* the client's address
    Messages,      \* Ends -> messages an end may have to send
    MaxSends,      \* bound: messages sent by one end
    NOSEQ          \* a number nobody gave out

Ends == {"client", "server"}
Peer(e) == IF e = "client" THEN "server" ELSE "client"

(* The names get_protocol knows, SMPP apart.                               *)
ASSUME ConfigsAssumption == \A c \in Configs : c.name \in {"CMPP", "SMGP", "SGIP"}
(* A login is not a message of the entity.  dests is the numbers a frame   *)
(* of the message takes: one for each receiver, one if it has none.        *)
ASSUME MessagesAssumption ==
    /\ DOMAIN Messages = Ends
    /\ \A e \in Ends : \A m \in Messages[e] :
          m.kind \in Kinds \ {"Connect"} /\ m.dests \in Nat \ {0} /\ m.len \in Nat
ASSUME NumbersAssumption == MaxSends \in Nat /\ NOSEQ \notin Nat

VARIABLES
    config, account,
    stage,         \* Ends -> where the channel's task is
    protocol,      \* Ends -> self.protocol, which encodes
    codec,         \* Ends -> framed.codec, which decodes
    wire,          \* Ends -> frames on their way to it
    deaf,          \* Ends -> the stream is out of step with the frames
    open,          \* Ends -> history: <<type, number>> of what took a number, not answered
    numbers,       \* Ends -> numbers given out by get_sequence_id
    sends          \* Ends -> messages sent

vars == <<config, account, stage, protocol, codec, wire, deaf, open, numbers, sends>>
setup == <<config, account>>

Init ==
    /\ config \in Configs /\ account \in Accounts
    /\ stage = [client |-> "connect", server |-> "wait_conn"]
    /\ protocol = [client |-> get_protocol(config.name, config.version),
                   server |-> FromName(config.name)]
    /\ codec = protocol
    /\ wire = [e \in Ends |-> <<>>] /\ deaf = [e \in Ends |-> FALSE]
    /\ open = [e \in Ends |-> {}] /\ numbers = [e \in Ends |-> 0]
    /\ sends = [e \in Ends |-> 0]
---------------------------------------------------------------------------
(* A frame on the wire has a number, and the status and version it states. *)
Letter(f, seq, status, version) == [f |-> f, seq |-> seq, status |-> status, version |-> version]

(* decode_read_msg on every frame there can be. *)
Login(keys) == [kind |-> "Connect", dests |-> 0, len |-> 0, keys |-> keys]
Business == UNION Range(Messages)
FramesOf(p) ==
    {Frame(p, "Connect", FALSE, Share(Login({}), 0))}
    \cup (UNION {Range(encode_message(p, m)) : m \in Business})
    \cup {Frame(p, kind, TRUE, Bare) : kind \in Kinds \ {"Terminate"}}
Frames == UNION {FramesOf(p) : p \in Protocols}
Readings == [p \in Protocols |-> [f \in Frames |-> Reading(p, f)]]
Read == {r \in UNION {Range(Readings[p]) : p \in Protocols} : r.kind # "no"}
decode(e, l) == Readings[codec[e]][l.f]
(* encode_message on every message, encode_receipt on every frame. *)
Encodings == [p \in Protocols |-> [m \in Business |-> encode_message(p, m)]]
Receipts == [p \in Protocols |-> [r \in Read |-> encode_receipt(p, r.kind, r.answer, r.keys)]]
TypeOf == [f \in Frames |-> LayoutOf(f).type[1]]

IsKind(r, kind, answer) == r.kind = kind /\ r.answer = answer

Working(e) == stage[e] \in {"work", "leaving"}
Ended(e) == stage[e] = "ended"

(* The task of an end returns or panics and its socket closes.  What is on *)
(* the way to the peer may be lost with it.                                *)
Close(e, w) ==
    /\ stage' = [stage EXCEPT ![e] = "ended"]
    /\ \/ wire' = [w EXCEPT ![e] = <<>>]
       \/ wire' = [x \in Ends |-> <<>>]
    /\ open' = [open EXCEPT ![e] = {}]
    /\ deaf' = [deaf EXCEPT ![e] = FALSE]
---------------------------------------------------------------------------
(* connect, first half *)

(* encode_connect of CMPP wants a login name of six bytes. *)
Nameable(p) == p \in Cmpp => "login_name_of_six" \in config.keys
Connects ==
    LET p == protocol["client"]
        fs == IF Nameable(p) THEN encode_message(p, Login(config.keys)) ELSE <<>>
    IN /\ stage["client"] = "connect"
       /\ IF fs = <<>>
          THEN Close("client", wire) /\ UNCHANGED numbers
          ELSE /\ wire' = [wire EXCEPT !["server"] =
                              Append(@, Letter(fs[1], 1, 0, config.version))]
               /\ stage' = [stage EXCEPT !["client"] = "await"]
               /\ numbers' = [numbers EXCEPT !["client"] = 1]
               /\ UNCHANGED <<deaf, open>>
       /\ UNCHANGED <<setup, protocol, codec, sends>>

(* An allowed address may leave octets open with 0. *)
check_addr_range(allow, ip) == \E a \in allow : \A i \in DOMAIN ip : a[i] \in {0, ip[i]}

(* handle_login, login and login_attach: the first check that fails names  *)
(* the status; the version is taken over before the channels are counted.  *)
Checks(p, version) == << <<account.known, "AuthError">>,
                         <<check_addr_range(account.allow, Ip), "AddError">>,
                         <<account.auth, "AuthError">>,
                         <<has(p, version), "VersionError">>,
                         <<~account.full, "OtherError">> >>
Failed(p, version) == {i \in DOMAIN Checks(p, version) : ~Checks(p, version)[i][1]}
LoginStatus(p, version) ==
    IF Failed(p, version) = {} THEN "Success"
    ELSE Checks(p, version)[Min(Failed(p, version))][2]
LoginProtocol(p, version) ==
    IF Failed(p, version) \subseteq {5} THEN match_version(p, version) ELSE p

(* wait_conn's answer, by the protocol of the end after the check. *)
LoginAnswer(p, l) ==
    LET status == LoginStatus(p, l.version)
        new == LoginProtocol(p, l.version)
        fs == Receipts[new][decode("server", l)]
    IN [i \in DOMAIN fs |-> Letter(fs[i], l.seq, get_status_id(new, status), l.version)]

(* The codec of the stream stays the listener's. *)
Accept_XKeepsCodec(new) == UNCHANGED codec
Accept(new) == codec' = [codec EXCEPT !["server"] = new]

Expected(l) == IsKind(decode("server", l), "Connect", FALSE) /\ decode("server", l).fits
WaitConn ==
    /\ stage["server"] = "wait_conn" /\ wire["server"] # <<>>
    /\ LET l == Head(wire["server"])
           p == protocol["server"]
           sent == [client |-> wire["client"] \o LoginAnswer(p, l), server |-> Tail(wire["server"])]
       IN \/ /\ ~Expected(l)
             /\ Close("server", wire)
             /\ UNCHANGED <<protocol, codec>>
          \/ /\ Expected(l)
             /\ protocol' = [protocol EXCEPT !["server"] = LoginProtocol(p, l.version)]
             /\ IF LoginStatus(p, l.version) = "Success"
                THEN /\ stage' = [stage EXCEPT !["server"] = "work"]
                     /\ wire' = sent
                     /\ Accept(LoginProtocol(p, l.version))
                     /\ UNCHANGED <<open, deaf>>
                ELSE Close("server", sent) /\ UNCHANGED codec
    /\ UNCHANGED <<setup, numbers, sends>>

(* No frame for three seconds. *)
WaitTimeout ==
    /\ stage["server"] = "wait_conn" /\ Close("server", wire)
    /\ UNCHANGED <<setup, protocol, codec, numbers, sends>>

(* connect, second half, and start_connect: without a place in its entity *)
(* start_work returns at once.  The answer of SGIP has no version.         *)
Accepted(l) ==
    /\ IsKind(decode("client", l), "Connect", TRUE) /\ decode("client", l).fits
    /\ get_status_enum(protocol["client"], l.status) = "Success"
Connected ==
    /\ stage["client"] = "await" /\ wire["client"] # <<>>
    /\ LET l == Head(wire["client"])
           p == protocol["client"]
           new == IF p = "SGIP" THEN p ELSE match_version(p, l.version)
       IN \/ /\ ~Accepted(l) /\ Close("client", wire)
             /\ UNCHANGED <<protocol, codec>>
          \/ /\ Accepted(l)
             /\ \/ /\ stage' = [stage EXCEPT !["client"] = "work"]
                   /\ wire' = [wire EXCEPT !["client"] = Tail(@)]
                   /\ protocol' = [protocol EXCEPT !["client"] = new]
                   /\ codec' = [codec EXCEPT !["client"] = new]
                   /\ UNCHANGED <<open, deaf>>
                \/ Close("client", wire) /\ UNCHANGED <<protocol, codec>>
    /\ UNCHANGED <<setup, numbers, sends>>
---------------------------------------------------------------------------
(* start_work *)

(* A report of SGIP takes no number: its head bears that of the message it *)
(* reports on.                                                             *)
Takes(p, m) == ~(p = "SGIP" /\ m.kind = "Report")

(* A message from the entity, all its parts in one write; one that cannot  *)
(* be encoded is dropped.  (SMGP lists every number of a Deliver twice for *)
(* the entity, which uses the first of the list.)  Bound: MaxSends.        *)
Send(e, m) ==
    LET fs == Encodings[protocol[e]][m]
        takes == Takes(protocol[e], m)
        seq(i) == IF takes THEN numbers[e] + 1 + (i - 1) * m.dests ELSE NOSEQ
    IN /\ stage[e] = "work" /\ sends[e] < MaxSends
       /\ sends' = [sends EXCEPT ![e] = @ + 1]
       /\ numbers' = [numbers EXCEPT ![e] = IF takes THEN @ + Len(fs) * m.dests ELSE @]
       /\ wire' = IF Ended(Peer(e)) THEN wire
                  ELSE [wire EXCEPT ![Peer(e)] =
                           @ \o [i \in DOMAIN fs |-> Letter(fs[i], seq(i), 0, 0)]]
       /\ open' = [open EXCEPT ![e] = @ \cup {<<TypeOf[fs[i]], seq(i)>> :
                        i \in {j \in DOMAIN fs : takes /\ m.kind # "Terminate"}}]
       /\ UNCHANGED <<setup, stage, protocol, codec, deaf>>

(* The receipt bears the number decoded; in SGIP the one computed back     *)
(* from the text of the number, which is another.                          *)
AnswerSeq(p, l) == IF p = "SGIP" THEN NOSEQ ELSE l.seq
AnswerTo(e, l, status) ==
    LET r == decode(e, l)
        fs == Receipts[protocol[e]][r]
    IN [i \in DOMAIN fs |->
           Letter(fs[i], AnswerSeq(protocol[e], l), get_status_id(protocol[e], status), 0)]

(* Submits beyond the window's limit are refused. *)
StatusesFor(r) ==
    IF IsKind(r, "Submit", FALSE) THEN {"Success", "TrafficRestrictions"} ELSE {"Success"}

Settled(e, l) ==
    LET r == decode(e, l)
    IN open' = [open EXCEPT ![e] = IF r.answer THEN @ \ {<<r.type, l.seq>>} ELSE @]

Reply(e, l, status) ==
    wire' = [wire EXCEPT ![e] = Tail(@),
                         ![Peer(e)] = IF Ended(Peer(e)) THEN @ ELSE @ \o AnswerTo(e, l, status)]

Listens(e) == Working(e) /\ ~deaf[e] /\ wire[e] # <<>>
(* A frame the decoder makes sense of; the entity, told of a Terminate,    *)
(* lets go of the channel.                                                 *)
Receive(e) ==
    /\ Listens(e)
    /\ LET l == Head(wire[e])
           r == decode(e, l)
       IN /\ r.kind # "no" /\ r.fits
          /\ \E status \in StatusesFor(r) : Reply(e, l, status)
          /\ Settled(e, l)
          /\ deaf' = [deaf EXCEPT ![e] = ~r.inStep]
          /\ stage' = [stage EXCEPT ![e] = IF IsKind(r, "Terminate", FALSE) THEN "leaving" ELSE @]
    /\ UNCHANGED <<setup, protocol, codec, numbers, sends>>

(* The decoder reports an error, or panics. *)
ReceiveBad(e) ==
    /\ Listens(e) /\ ~decode(e, Head(wire[e])).fits
    /\ Close(e, wire)
    /\ UNCHANGED <<setup, protocol, codec, numbers, sends>>

(* The entity lets go of the channel: after a Terminate or at its own close.*)
Leave(e) ==
    /\ stage[e] = "leaving" /\ Close(e, wire)
    /\ UNCHANGED <<setup, protocol, codec, numbers, sends>>
LetGo(e) ==
    /\ stage[e] = "work" /\ Close(e, wire)
    /\ UNCHANGED <<setup, protocol, codec, numbers, sends>>

(* The stream of an end is at its end, or fails for what is left over. *)
PeerGone(e) ==
    /\ stage[e] \in {"wait_conn", "await", "work", "leaving"} /\ Ended(Peer(e))
    /\ wire[e] = <<>> \/ deaf[e]
    /\ Close(e, wire)
    /\ UNCHANGED <<setup, protocol, codec, numbers, sends>>

(* Two heartbeats without a frame from the peer: one of the ends is deaf. *)
HeartbeatMissed(e) ==
    /\ Working(e) /\ \E x \in Ends : deaf[x]
    /\ Close(e, wire)
    /\ UNCHANGED <<setup, protocol, codec, numbers, sends>>

Next ==
    \/ Connects \/ WaitConn \/ WaitTimeout \/ Connected
    \/ \E e \in Ends : \E m \in Messages[e] : Send(e, m)
    \/ \E e \in Ends : \/ Receive(e) \/ ReceiveBad(e) \/ Leave(e) \/ LetGo(e)
                       \/ PeerGone(e) \/ HeartbeatMissed(e)

Spec == Init /\ [][Next]_vars

(* Tasks run, sockets report their end, timers fire; nobody has to send or *)
(* to close.                                                               *)
Fairness ==
    /\ WF_vars(Connects) /\ WF_vars(WaitConn \/ WaitTimeout) /\ WF_vars(Connected)
    /\ \A e \in Ends :
          /\ WF_vars(Receive(e)) /\ WF_vars(ReceiveBad(e)) /\ WF_vars(Leave(e))
          /\ WF_vars(PeerGone(e)) /\ WF_vars(HeartbeatMissed(e))
FairSpec == Spec /\ Fairness
---------------------------------------------------------------------------
(* Properties *)

(* What is on its way to e bears a number of the end that asks. *)
Numbered(e, l, given) == l.seq \in 1..given[IF l.f.answer THEN e ELSE Peer(e)] \cup {NOSEQ}

(* The state is well formed; in particular every version a client may be   *)
(* configured with yields a protocol that can encode (get_protocol), and a *)
(* number on the wire was given out by the end that asks.                  *)
TypeOK ==
    /\ config \in Configs /\ account \in Accounts
    /\ stage["client"] \in {"connect", "await", "work", "leaving", "ended"}
    /\ stage["server"] \in {"wait_conn", "work", "leaving", "ended"}
    /\ protocol \in [Ends -> Protocols] /\ codec \in [Ends -> Protocols]
    /\ deaf \in [Ends -> BOOLEAN] /\ sends \in [Ends -> 0..MaxSends]
    /\ numbers \in [Ends -> Nat]
    /\ \A e \in Ends : \A x \in open[e] : x[2] \in 1..numbers[e]
    /\ \A e \in Ends : \A i \in DOMAIN wire[e] :
          Numbered(e, wire[e][i], numbers) /\ wire[e][i].status \in 0..255

(* Once both ends work, what each writes and what each reads is the same   *)
(* protocol, whatever version the client came with: the listener changes   *)
(* its codec before it answers, the client after the answer.               *)
ProtocolsAgree ==
    Working("client") /\ Working("server") =>
        \E p \in Protocols : \A e \in Ends : protocol[e] = p /\ codec[e] = p

(* Frames of this code that this code does not read as they were written:  *)
(* the answer to a Deliver in SGIP (three bytes more than its length says),*)
(* that to a Deliver or a report in SMGP (an id of eight bytes is read as  *)
(* ten), the answer to a report in CMPP 2.0 (the status of four bytes is   *)
(* read as one), the report of SMGP (four bytes more than its length says) *)
(* and the one of CMPP 2.0 (its number is lost to the one it reports on).  *)
Misread(p, f) ==
    \/ p \in {"SGIP", "SMGP"} /\ f.answer /\ f.kind = "Deliver"
    \/ p \in {"SMGP", "CMPP32"} /\ f.kind = "Report"

(* The next frame an end reads, in the login as in the work after it, is   *)
(* one its codec knows, ends where it says it ends, and every field of it  *)
(* is read where the other end's codec wrote it, save the frames above.    *)
FramesUnderstood ==
    \A e \in Ends : ~Ended(e) /\ ~deaf[e] /\ wire[e] # <<>> =>
        LET l == Head(wire[e])
        IN \/ decode(e, l).kind # "no" /\ decode(e, l).understood
           \/ Misread(codec[e], l.f)

(* The answer an end reads next has the type and the number of a frame it  *)
(* sent and that was not answered yet.  In SGIP the number is another.     *)
AnswerFindsItsMessage ==
    \A e \in Ends : Listens(e) /\ codec[e] # "SGIP" =>
        LET l == Head(wire[e]) IN
        decode(e, l).answer => <<decode(e, l).type, l.seq>> \in open[e]

(* Messages whose answer never comes: all of SGIP, for its numbers, and    *)
(* the Submit of SMGP, whose receivers the decoder does not keep.          *)
Mute(e, x) == protocol[e] = "SGIP" \/ (protocol[e] = "SMGP" /\ x[1] = TypeIdSmgp["Submit"])

(* Every frame that was sent is answered or its connection ends: as only   *)
(* so many are sent, again and again nothing waits.                        *)
SentIsAnswered == \A e \in Ends : []<>(\A x \in open[e] : Mute(e, x))
=============================================================================
