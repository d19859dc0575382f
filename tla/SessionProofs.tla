---------------------------- MODULE SessionProofs ----------------------------
(***************************************************************************)
(* What holds of a connection between two ends of this code, for every     *)
(* set of clients, accounts and messages.                                  *)
(***************************************************************************)
EXTENDS Session, CodecProofs

(***************************************************************************)
(* Protocols, frames and receipts                                          *)
(***************************************************************************)

(* get_protocol knows a protocol for every name and version, of that name. *)
LEMMA ProtocolsKnown ==
    ASSUME NEW c \in Configs, NEW v
    PROVE  /\ get_protocol(c.name, v) \in Protocols /\ FromName(c.name) \in Protocols
           /\ Parse(get_protocol(c.name, v)) = c.name /\ Parse(FromName(c.name)) = c.name
BY ConfigsAssumption DEF get_protocol, FromName, Parse, Protocols, Cmpp

(* Nobody sends anything but the messages given. *)
LEMMA BusinessIs ==
    /\ \A e \in Ends : Messages[e] \subseteq Business
    /\ \A m \in Business : m.kind \in Kinds \ {"Connect"} /\ m.dests \in Nat \ {0} /\ m.len \in Nat
BY MessagesAssumption DEF Business, Range

(* Every frame there can be was written by a codec for a kind it knows. *)
LEMMA FramesAre ==
    ASSUME NEW f \in Frames
    PROVE  /\ f.p \in Protocols /\ f.kind \in Kinds
           /\ f.answer => f.kind # "Terminate"
           /\ ~f.answer => f.share \in Shares /\ (f.share.report <=> f.kind = "Report")
<1>1. PICK p \in Protocols : f \in FramesOf(p)
  BY DEF Frames
<1>2. CASE f = Frame(p, "Connect", FALSE, Share(Login({}), 0))
  <2> PICK m, d : m = Login({}) /\ d = Share(m, 0)
    OBVIOUS
  <2>1. m.dests \in Nat /\ m.len \in Nat /\ m.kind = "Connect"
    BY DEF Login
  <2>2. d \in Shares /\ (d.report <=> m.kind = "Report")
    BY <2>1, SharesAre
  <2>3. f.p = p /\ f.kind = "Connect" /\ ~f.answer /\ f.share = d
    BY <1>2 DEF Frame
  <2> QED
    BY <2>1, <2>2, <2>3 DEF Kinds
<1>3. CASE \E m \in Business : f \in Range(encode_message(p, m))
  <2>1. PICK m \in Business : f \in Range(encode_message(p, m))
    BY <1>3
  <2>2. PICK i \in DOMAIN encode_message(p, m) : f = encode_message(p, m)[i]
    BY <2>1 DEF Range
  <2>3. m.len \in Nat /\ m.kind \in Kinds /\ m.dests \in Nat
    BY BusinessIs
  <2>4. f.p = p /\ f.kind = m.kind /\ ~f.answer
    BY <2>2, <2>3, EncodedFrames
  <2>5. f.share \in Shares /\ (f.share.report <=> m.kind = "Report")
    BY <2>2, <2>3, EncodedShares
  <2> QED
    BY <2>3, <2>4, <2>5
<1>4. CASE \E kind \in Kinds \ {"Terminate"} : f = Frame(p, kind, TRUE, Bare)
  BY <1>4 DEF Frame
<1> QED
  BY <1>1, <1>2, <1>3, <1>4 DEF FramesOf

(* What a connection uses of the tables. *)
LEMMA SentFrames ==
    ASSUME NEW p \in Protocols, NEW m \in Business
    PROVE  /\ Encodings[p][m] = encode_message(p, m)
           /\ Encodings[p][m] \in Seq(Frames)
           /\ \A i \in DOMAIN Encodings[p][m] :
                 /\ Encodings[p][m][i].p = p /\ Encodings[p][m][i].kind = m.kind
                 /\ ~Encodings[p][m][i].answer
<1>1. Encodings[p][m] = encode_message(p, m)
  BY DEF Encodings
<1>2. Range(encode_message(p, m)) \subseteq Frames
  <2>1. Range(encode_message(p, m)) \subseteq FramesOf(p)
    BY DEF FramesOf
  <2> QED
    BY <2>1 DEF Frames
<1>3. m.len \in Nat
  BY BusinessIs
<1>4. encode_message(p, m) \in Seq(Range(encode_message(p, m)))
  BY <1>3, EncodedFrames
<1>5. encode_message(p, m) \in Seq(Frames)
  BY <1>2, <1>4
<1>6. \A i \in DOMAIN encode_message(p, m) :
         /\ encode_message(p, m)[i].p = p /\ encode_message(p, m)[i].kind = m.kind
         /\ ~encode_message(p, m)[i].answer
  BY <1>3, EncodedFrames
<1> QED
  BY <1>1, <1>5, <1>6

LEMMA DecodedFrames ==
    ASSUME NEW p \in Protocols, NEW q \in Protocols, NEW f \in Frames
    PROVE  /\ Readings[p][f] = Reading(p, f)
           /\ TypeOf[f] = LayoutOf(f).type[1]
           /\ Reading(p, f).kind # "no" =>
                 Receipts[q][Reading(p, f)] =
                    encode_receipt(q, Reading(p, f).kind, Reading(p, f).answer, Reading(p, f).keys)
<1>1. Readings[p][f] = Reading(p, f) /\ Readings[p][f] \in Range(Readings[p])
  BY DEF Readings, Range
<1>2. TypeOf[f] = LayoutOf(f).type[1]
  BY DEF TypeOf
<1>3. Reading(p, f).kind # "no" => Reading(p, f) \in Read
  BY <1>1 DEF Read
<1>4. \A r \in Read : Receipts[q][r] = encode_receipt(q, r.kind, r.answer, r.keys)
  BY DEF Receipts
<1> QED
  BY <1>1, <1>2, <1>3, <1>4

Receipt(p, kind) == Frame(p, kind, TRUE, Bare)

(* A receipt: at most one frame, an answer, and none to a Terminate. *)
LEMMA ReceiptFrames ==
    ASSUME NEW q \in Protocols, NEW kind \in Kinds, NEW answer, NEW keys
    PROVE  /\ encode_receipt(q, kind, answer, keys) \in Seq(Frames)
           /\ encode_receipt(q, kind, answer, keys) # <<>> =>
                 /\ ~answer /\ kind # "Terminate"
                 /\ encode_receipt(q, kind, answer, keys) = <<Receipt(q, kind)>>
                 /\ Receipt(q, kind) \in Frames
<1>1. CASE HasReceipt(kind, answer) /\ ReceiptOf(q, kind).needs \subseteq keys
  <2>1. kind \in Kinds \ {"Terminate"} /\ ~answer
    BY <1>1 DEF HasReceipt
  <2>2. Receipt(q, kind) \in FramesOf(q)
    BY <2>1 DEF FramesOf, Receipt
  <2>4. Receipt(q, kind) \in Frames
    BY <2>2 DEF Frames
  <2>3. encode_receipt(q, kind, answer, keys) = <<Receipt(q, kind)>>
    BY <1>1, Zenon DEF encode_receipt, Receipt
  <2>5. <<Receipt(q, kind)>> \in Seq(Frames)
    <3>1. \A f \in Frames : <<f>> \in Seq(Frames)
      OBVIOUS
    <3> QED
      BY <2>4, <3>1, Zenon
  <2>6. ~answer /\ kind # "Terminate"
    BY <2>1
  <2> QED
    BY <2>3, <2>4, <2>5, <2>6
<1>2. CASE ~(HasReceipt(kind, answer) /\ ReceiptOf(q, kind).needs \subseteq keys)
  <2>1. encode_receipt(q, kind, answer, keys) = <<>>
    BY <1>2 DEF encode_receipt
  <2> QED
    BY <2>1
<1> QED
  BY <1>1, <1>2

(***************************************************************************)
(* The invariant                                                           *)
(***************************************************************************)

Versions == {0} \cup {c.version : c \in Configs}
Letters == [f : Frames, seq : Nat \cup {NOSEQ}, status : 0..255, version : Versions]
Stages == {"connect", "await", "wait_conn", "work", "leaving", "ended"}

(* The protocol both ends come to. *)
Agreed == get_protocol(config.name, config.version)

Shapes ==
    /\ TypeOK
    /\ stage \in [Ends -> Stages]
    /\ wire \in [Ends -> Seq(Letters)]
    /\ DOMAIN open = Ends

(* The client speaks the protocol it is configured with from the start and *)
(* its login tells the listener of it; until the listener took the login,  *)
(* nothing else is on the wire, and the answer, that tells it back, is     *)
(* read before anything else is written.                                   *)
Handshake ==
    /\ protocol["client"] = Agreed /\ codec["client"] = Agreed
    /\ stage["client"] = "connect" =>
          /\ \A e \in Ends : wire[e] = <<>>
          /\ ~Working("server") /\ numbers["client"] = 0
    /\ stage["client"] = "await" =>
          /\ Working("server") \/ wire["client"] # <<>> => wire["server"] = <<>>
          /\ \A i \in DOMAIN wire["client"] :
                wire["client"][i].f.answer => i = 1 /\ wire["client"][i].version = config.version
    /\ stage["server"] = "wait_conn" =>
          /\ protocol["server"] = FromName(config.name) /\ codec["server"] = protocol["server"]
          /\ wire["client"] = <<>> /\ ~Working("client")
          /\ Len(wire["server"]) <= 1
          /\ \A i \in DOMAIN wire["server"] : wire["server"][i].version = config.version
    /\ Working("server") => protocol["server"] = Agreed /\ codec["server"] = Agreed

HInv == Shapes /\ Handshake

LEMMA HandshakeAgrees == HInv => ProtocolsAgree
<1> SUFFICES ASSUME HInv, Working("client"), Working("server")
             PROVE  \E p \in Protocols : \A e \in Ends : protocol[e] = p /\ codec[e] = p
  BY DEF ProtocolsAgree
<1>1. Agreed \in Protocols
  BY ProtocolsKnown DEF HInv, Shapes, TypeOK, Agreed
<1>2. \A e \in Ends : protocol[e] = Agreed /\ codec[e] = Agreed
  BY DEF HInv, Handshake, Ends
<1> QED
  BY <1>1, <1>2

LEMMA InitShapes == Init => HInv
<1> SUFFICES ASSUME Init PROVE HInv
  OBVIOUS
<1>1. config \in Configs
  BY DEF Init
<1>2. protocol \in [Ends -> Protocols] /\ codec \in [Ends -> Protocols]
      /\ protocol["client"] = Agreed /\ codec["client"] = Agreed
      /\ protocol["server"] = FromName(config.name) /\ codec["server"] = FromName(config.name)
  BY <1>1, ProtocolsKnown DEF Init, Agreed, Ends
<1>3. stage \in [Ends -> Stages] /\ stage["client"] = "connect" /\ stage["server"] = "wait_conn"
  BY DEF Init, Ends, Stages
<1>4. wire \in [Ends -> Seq(Letters)] /\ \A e \in Ends : wire[e] = <<>>
  BY DEF Init
<1>5. deaf \in [Ends -> BOOLEAN] /\ sends \in [Ends -> 0..MaxSends] /\ numbers \in [Ends -> Nat]
      /\ DOMAIN open = Ends /\ (\A e \in Ends : open[e] = {})
  BY NumbersAssumption DEF Init
<1>6. TypeOK
  BY <1>1, <1>2, <1>3, <1>4, <1>5 DEF TypeOK, Init
<1>7. Handshake
  BY <1>2, <1>3, <1>4 DEF Handshake, Working, Ends, Init
<1> QED
  BY <1>3, <1>4, <1>5, <1>6, <1>7 DEF HInv, Shapes

(* An end that closes leaves the wires as they were or emptied. *)
LEMMA CloseKeeps ==
    ASSUME HInv, NEW e \in Ends, Close(e, wire),
           UNCHANGED <<setup, protocol, codec, numbers, sends>>
    PROVE  HInv'
<1> USE DEF HInv, Shapes
<1>1. /\ stage' \in [Ends -> Stages] /\ stage'[e] = "ended"
      /\ \A x \in Ends : x # e => stage'[x] = stage[x]
  BY DEF Close, Stages
<1>2. /\ wire' \in [Ends -> Seq(Letters)]
      /\ \A x \in Ends : wire'[x] = wire[x] \/ wire'[x] = <<>>
      /\ wire'[e] = <<>>
  <2>1. CASE wire' = [wire EXCEPT ![e] = <<>>]
    BY <2>1
  <2>2. CASE wire' = [x \in Ends |-> <<>>]
    BY <2>2
  <2> QED
    BY <2>1, <2>2 DEF Close
<1>3. DOMAIN open' = Ends /\ (\A x \in Ends : open'[x] \subseteq open[x])
      /\ deaf' \in [Ends -> BOOLEAN]
  BY DEF Close, TypeOK
<1>4. UNCHANGED <<config, account, protocol, codec, numbers, sends>>
  BY DEF setup
<1>5. \A x \in Ends : \A y \in open'[x] : y[2] \in 1..numbers'[x]
  BY <1>3, <1>4 DEF TypeOK
<1>6. \A x \in Ends : \A i \in DOMAIN wire'[x] :
         Numbered(x, wire'[x][i], numbers') /\ wire'[x][i].status \in 0..255
  <2> SUFFICES ASSUME NEW x \in Ends, NEW i \in DOMAIN wire'[x]
               PROVE  Numbered(x, wire'[x][i], numbers') /\ wire'[x][i].status \in 0..255
    OBVIOUS
  <2>1. wire'[x] = wire[x]
    BY <1>2
  <2> QED
    BY <1>4, <2>1 DEF TypeOK
<1>7. /\ stage'["client"] \in {"connect", "await", "work", "leaving", "ended"}
      /\ stage'["server"] \in {"wait_conn", "work", "leaving", "ended"}
  BY <1>1 DEF TypeOK, Ends
<1>8. TypeOK'
  BY <1>3, <1>4, <1>5, <1>6, <1>7 DEF TypeOK
<1>9. Handshake'
  BY <1>1, <1>2, <1>4 DEF Handshake, Working, Ends, Agreed
<1> QED
  BY <1>1, <1>2, <1>3, <1>8, <1>9

(* A letter stays well numbered when more numbers are given out. *)
LEMMA NumbersGrow ==
    ASSUME NEW e \in Ends, NEW l, NEW n \in [Ends -> Nat], NEW k \in [Ends -> Nat],
           \A x \in Ends : n[x] <= k[x], Numbered(e, l, n)
    PROVE  Numbered(e, l, k)
<1>1. (IF l.f.answer THEN e ELSE Peer(e)) \in Ends
  BY DEF Peer, Ends
<1> QED
  BY <1>1 DEF Numbered

(* Letters that were on the wire, and well numbered ones, are well numbered. *)
LEMMA LettersNumbered ==
    ASSUME Shapes, wire' \in [Ends -> Seq(Letters)], numbers' \in [Ends -> Nat],
           \A x \in Ends : numbers[x] <= numbers'[x],
           \A x \in Ends : \A i \in DOMAIN wire'[x] :
              \/ \E j \in DOMAIN wire[x] : wire'[x][i] = wire[x][j]
              \/ Numbered(x, wire'[x][i], numbers')
    PROVE  \A x \in Ends : \A i \in DOMAIN wire'[x] :
              Numbered(x, wire'[x][i], numbers') /\ wire'[x][i].status \in 0..255
<1> SUFFICES ASSUME NEW x \in Ends, NEW i \in DOMAIN wire'[x]
             PROVE  Numbered(x, wire'[x][i], numbers') /\ wire'[x][i].status \in 0..255
  OBVIOUS
<1>1. wire'[x][i].status \in 0..255
  <2>1. wire'[x] \in Seq(Letters)
    OBVIOUS
  <2>2. wire'[x][i] \in Letters
    BY <2>1
  <2> QED
    BY <2>2 DEF Letters
<1>2. CASE \E j \in DOMAIN wire[x] : wire'[x][i] = wire[x][j]
  <2>1. PICK j \in DOMAIN wire[x] : wire'[x][i] = wire[x][j]
    BY <1>2
  <2>2. Numbered(x, wire[x][j], numbers) /\ numbers \in [Ends -> Nat]
    BY DEF Shapes, TypeOK
  <2>3. PICK l : l = wire[x][j]
    OBVIOUS
  <2>4. Numbered(x, l, numbers')
    BY <2>2, <2>3, NumbersGrow
  <2> QED
    BY <1>1, <2>1, <2>3, <2>4
<1>3. CASE Numbered(x, wire'[x][i], numbers')
  BY <1>1, <1>3
<1> QED
  BY <1>2, <1>3

(* The login of the client is all there is on the wires. *)
LoginFrame == Frame(Agreed, "Connect", FALSE, Share(Login({}), 0))
LEMMA ConnectsKeeps ==
    ASSUME HInv, Connects
    PROVE  /\ HInv' /\ \A e \in Ends : \A i \in DOMAIN wire'[e] : wire'[e][i].f = LoginFrame
<1> USE DEF HInv, Shapes
<1> DEFINE p == protocol["client"]
           m == Login(config.keys)
           fs == IF Nameable(p) THEN encode_message(p, m) ELSE <<>>
           l == Letter(fs[1], 1, 0, config.version)
<1>1. CASE fs = <<>>
  <2>1. Close("client", wire) /\ UNCHANGED <<setup, protocol, codec, numbers, sends>>
    BY <1>1 DEF Connects
  <2>2. \A e \in Ends : wire[e] = <<>>
    BY DEF Connects, Handshake
  <2>3. \A e \in Ends : wire'[e] = <<>>
    BY <2>1, <2>2 DEF Close
  <2>4. HInv'
    BY <2>1, CloseKeeps DEF Ends
  <2> QED
    BY <2>3, <2>4
<1>2. CASE fs # <<>>
  <2>1. /\ stage["client"] = "connect"
        /\ wire' = [wire EXCEPT !["server"] = Append(@, l)]
        /\ stage' = [stage EXCEPT !["client"] = "await"]
        /\ numbers' = [numbers EXCEPT !["client"] = 1]
        /\ UNCHANGED <<config, account, protocol, codec, deaf, open, sends>>
    BY <1>2 DEF Connects, setup
  <2>2. p \in Protocols /\ m.kind = "Connect" /\ m.len = 0
    BY DEF TypeOK, Ends, Login
  <2>3. fs = encode_message(p, m)
    BY <1>2
  <2>4. 1 \in DOMAIN fs /\ fs[1] = Frame(p, "Connect", FALSE, Share(m, 0))
    <3>1. Parts(m.len) = <<0>>
      BY <2>2 DEF Parts
    <3>2. fs = [i \in DOMAIN Parts(m.len) |-> Frame(p, m.kind, FALSE, Share(m, Parts(m.len)[i]))]
      BY <1>2, <2>3 DEF encode_message
    <3>3. Parts(m.len)[1] = 0 /\ DOMAIN Parts(m.len) = 1..1
      BY <3>1
    <3> HIDE DEF fs, m
    <3>4. DOMAIN fs = DOMAIN Parts(m.len) /\ 1 \in DOMAIN Parts(m.len)
      BY <3>2, <3>3
    <3>5. fs[1] = Frame(p, m.kind, FALSE, Share(m, Parts(m.len)[1]))
      BY <3>2, <3>4, Zenon
    <3>6. fs[1] = Frame(p, "Connect", FALSE, Share(m, 0))
      BY <2>2, <3>3, <3>5, Zenon
    <3> QED
      BY <3>4, <3>6, Zenon
  <2>5. Share(m, 0) = Share(Login({}), 0)
    BY DEF Share, Login
  <2>6. fs[1] \in Frames /\ ~fs[1].answer
    <3>1. fs[1] \in FramesOf(p)
      BY <2>4, <2>5 DEF FramesOf
    <3>2. ~fs[1].answer
      BY <2>4 DEF Frame
    <3> QED
      BY <2>2, <3>1, <3>2 DEF Frames
  <2>7. l \in Letters /\ l.version = config.version /\ l.f = fs[1] /\ l.seq = 1
    BY <2>6 DEF Letter, Letters, Versions, TypeOK
  <2> HIDE DEF l, fs, m
  <2>8. wire["server"] = <<>> /\ wire["client"] = <<>> /\ ~Working("server")
    BY <2>1 DEF Handshake, Ends
  <2>9. /\ wire' \in [Ends -> Seq(Letters)] /\ wire'["client"] = wire["client"]
        /\ wire'["server"] = <<l>>
    BY <2>1, <2>7, <2>8 DEF Ends
  <2>10. /\ stage' \in [Ends -> Stages] /\ stage'["client"] = "await"
         /\ stage'["server"] = stage["server"]
    BY <2>1 DEF Ends, Stages
  <2>11. /\ numbers' \in [Ends -> Nat] /\ numbers'["client"] = 1
         /\ numbers'["server"] = numbers["server"] /\ numbers["client"] = 0
    BY <2>1 DEF TypeOK, Ends, Handshake
  <2>12. \A x \in Ends : \A i \in DOMAIN wire'[x] :
            Numbered(x, wire'[x][i], numbers') /\ wire'[x][i].status \in 0..255
    <3>1. Numbered("server", l, numbers')
      BY <2>6, <2>7, <2>11 DEF Numbered, Peer
    <3>2. \A x \in Ends : numbers[x] <= numbers'[x]
      BY <2>11 DEF Ends, TypeOK
    <3>3. \A x \in Ends : \A i \in DOMAIN wire'[x] :
              \/ \E j \in DOMAIN wire[x] : wire'[x][i] = wire[x][j]
              \/ Numbered(x, wire'[x][i], numbers')
      BY <2>9, <3>1 DEF Ends
    <3> QED
      BY <2>9, <2>11, <3>2, <3>3, LettersNumbered, ZenonT(30)
  <2>13. TypeOK'
    <3>1. \A x \in Ends : \A y \in open'[x] : y[2] \in 1..numbers'[x]
      <4> SUFFICES ASSUME NEW x \in Ends, NEW y \in open[x] PROVE y[2] \in 1..numbers'[x]
        BY <2>1
      <4>1. y[2] \in 1..numbers[x] /\ numbers[x] \in Nat
        BY DEF TypeOK
      <4>2. numbers'[x] \in Nat /\ numbers[x] <= numbers'[x]
        BY <2>11 DEF Ends
      <4> QED
        BY <4>1, <4>2
    <3> QED
      BY <2>1, <2>10, <2>11, <2>12, <3>1 DEF TypeOK
  <2>14. Handshake'
    <3>1. ~Working("server")' /\ ~Working("client")'
      BY <2>8, <2>10 DEF Working
    <3>2. \A i \in DOMAIN wire'["server"] : wire'["server"][i].version = config.version
      BY <2>7, <2>9
    <3>3. Len(wire'["server"]) <= 1
      BY <2>9
    <3> QED
      BY <2>1, <2>8, <2>9, <2>10, <3>1, <3>2, <3>3 DEF Handshake, Agreed
  <2>15. l.f = LoginFrame
    <3>1. p = Agreed
      BY DEF Handshake
    <3> QED
      BY <2>4, <2>5, <2>7, <3>1 DEF LoginFrame
  <2>16. \A e \in Ends : \A i \in DOMAIN wire'[e] : wire'[e][i].f = LoginFrame
    BY <2>8, <2>9, <2>15 DEF Ends
  <2> QED
    BY <2>1, <2>9, <2>10, <2>13, <2>14, <2>16
<1> QED
  BY <1>1, <1>2

(* The letters of a receipt. *)
AnswerOf(q, r, seq, st, v) ==
    [i \in DOMAIN Receipts[q][r] |-> Letter(Receipts[q][r][i], seq, st, v)]

(* What answers there are to a request of a kind that came to e: at most   *)
(* one, by the number it is given.                                         *)
AnswersRight(e, l, answers, kind, q, seq, v) ==
    /\ answers \in Seq(Letters) /\ Len(answers) <= 1
    /\ answers # <<>> => ~l.f.answer /\ kind # "Terminate"
    /\ \A i \in DOMAIN answers :
          /\ i = 1 /\ answers[i].f = Receipt(q, kind) /\ answers[i].f.answer
          /\ answers[i].seq = seq /\ answers[i].version = v
          /\ Numbered(Peer(e), answers[i], numbers)

(* What answers a letter answers a request, by its number. *)
LEMMA AnswerLetters ==
    \A e \in Ends, l \in Letters : Numbered(e, l, numbers) =>
       \A p \in Protocols : Reading(p, l.f).kind # "no" =>
          \A q \in Protocols, seq \in {l.seq, NOSEQ}, st \in 0..255, v \in Versions :
             AnswersRight(e, l, AnswerOf(q, Reading(p, l.f), seq, st, v),
                          Reading(p, l.f).kind, q, seq, v)
<1> SUFFICES ASSUME NEW e \in Ends, NEW l \in Letters, Numbered(e, l, numbers),
                    NEW p \in Protocols, Reading(p, l.f).kind # "no",
                    NEW q \in Protocols, NEW seq \in {l.seq, NOSEQ}, NEW st \in 0..255,
                    NEW v \in Versions
             PROVE  AnswersRight(e, l, AnswerOf(q, Reading(p, l.f), seq, st, v),
                                 Reading(p, l.f).kind, q, seq, v)
  OBVIOUS
<1> PICK answers : answers = AnswerOf(q, Reading(p, l.f), seq, st, v)
  OBVIOUS
<1> SUFFICES AnswersRight(e, l, answers, Reading(p, l.f).kind, q, seq, v)
  OBVIOUS
<1> DEFINE r == Reading(p, l.f)
<1> PICK fs : fs = Receipts[q][r]
  OBVIOUS
<1>0. answers = [i \in DOMAIN fs |-> Letter(fs[i], seq, st, v)]
  BY DEF AnswerOf
<1>1. l.f \in Frames /\ l.seq \in Nat \cup {NOSEQ}
  BY DEF Letters
<1>2. r.kind \in Kinds
  BY <1>1, ReadingIs
<1>3. fs = encode_receipt(q, r.kind, r.answer, r.keys)
  BY <1>1, DecodedFrames
<1>4. fs # <<>> => /\ ~r.answer /\ r.kind # "Terminate"
                   /\ fs = <<Receipt(q, r.kind)>> /\ Receipt(q, r.kind) \in Frames
  BY <1>2, <1>3, ReceiptFrames
<1>5. r.answer <=> l.f.answer
  <2>1. l.f.p \in Protocols /\ l.f.kind \in Kinds /\ (l.f.answer => l.f.kind # "Terminate")
    BY <1>1, FramesAre
  <2> QED
    BY <2>1, AnswersAreSeen
<1>6. CASE fs = <<>>
  <2>1. answers = <<>>
    BY <1>0, <1>6
  <2>2. <<>> \in Seq(Letters) /\ Len(<<>>) <= 1 /\ DOMAIN <<>> = {}
    OBVIOUS
  <2> QED
    BY <2>1, <2>2 DEF AnswersRight
<1>7. CASE fs # <<>>
  <2> PICK f : f = Receipt(q, r.kind)
    OBVIOUS
  <2>1. fs = <<f>> /\ f \in Frames /\ ~l.f.answer /\ r.kind # "Terminate"
    BY <1>4, <1>5, <1>7
  <2>2. PICK a : a = Letter(f, seq, st, v)
    OBVIOUS
  <2>3. answers = <<a>> /\ DOMAIN answers = {1} /\ answers[1] = a
    <3>1. DOMAIN fs = 1..1 /\ fs[1] = f
      BY <2>1
    <3>2. answers[1] = a /\ DOMAIN answers = 1..1
      BY <1>0, <2>2, <3>1
    <3>3. answers = [i \in 1..1 |-> a]
      BY <1>0, <2>2, <3>1
    <3>4. \A x, y : y = [i \in 1..1 |-> x] => y = <<x>>
      OBVIOUS
    <3> QED
      BY <3>2, <3>3, <3>4
  <2>4. a \in Letters /\ a.f = f /\ a.seq = seq /\ a.version = v
    BY <1>1, <2>1, <2>2 DEF Letter, Letters
  <2>5. f.answer
    BY DEF Frame, Receipt
  <2>6. Numbered(Peer(e), a, numbers)
    <3>1. Peer(Peer(e)) = e /\ l.seq \in 1..numbers[Peer(e)] \cup {NOSEQ}
      BY <2>1 DEF Numbered, Peer, Ends
    <3> QED
      BY <2>4, <2>5, <3>1 DEF Numbered
  <2> QED
    BY <2>1, <2>3, <2>4, <2>5, <2>6 DEF AnswersRight
<1> QED
  BY <1>6, <1>7

(* A login is accepted iff no check failed. *)
LEMMA LoginStatusIs ==
    ASSUME NEW p, NEW v
    PROVE  /\ LoginStatus(p, v) \in Statuses
           /\ LoginStatus(p, v) = "Success" => Failed(p, v) = {}
<1> DEFINE S == Failed(p, v)
           names == <<"AuthError", "AddError", "AuthError", "VersionError", "OtherError">>
<1>1. DOMAIN Checks(p, v) = 1..5
  BY DEF Checks
<1>2. \A i \in 1..5 : Checks(p, v)[i][2] = names[i]
  <2>1. Checks(p, v)[1][2] = "AuthError"
    BY Zenon DEF Checks
  <2>2. Checks(p, v)[2][2] = "AddError"
    BY Zenon DEF Checks
  <2>3. Checks(p, v)[3][2] = "AuthError"
    BY Zenon DEF Checks
  <2>4. Checks(p, v)[4][2] = "VersionError"
    BY Zenon DEF Checks
  <2>5. Checks(p, v)[5][2] = "OtherError"
    BY Zenon DEF Checks
  <2> QED
    BY <2>1, <2>2, <2>3, <2>4, <2>5
<1>3. CASE S # {}
  <2>1. S \subseteq 1..5
    BY <1>1 DEF Failed
  <2>2. \E x \in S : \A y \in S : x <= y
    BY <1>3, <2>1
  <2>3. Min(S) \in S
    BY <2>2 DEF Min
  <2>4. LoginStatus(p, v) = names[Min(S)]
    BY <1>2, <1>3, <2>1, <2>3 DEF LoginStatus
  <2>5. names[Min(S)] \in Statuses \ {"Success"}
    BY <2>1, <2>3 DEF Statuses
  <2> QED
    BY <2>4, <2>5
<1>4. CASE S = {}
  <2>1. LoginStatus(p, v) = "Success"
    BY <1>4 DEF LoginStatus
  <2> QED
    BY <1>4, <2>1 DEF Statuses
<1> QED
  BY <1>3, <1>4

LEMMA StatusNumbers ==
    ASSUME NEW p \in Protocols, NEW status \in Statuses
    PROVE  get_status_id(p, status) \in 0..255
BY DEF get_status_id, StatusIdCmpp, StatusIdSmgp, StatusIdSgip, Protocols, Cmpp, Statuses

(* A login is taken: nothing is left to read, and nothing but its answer   *)
(* was written.                                                            *)
LEMMA WaitConnKeeps ==
    ASSUME HInv, WaitConn
    PROVE  /\ HInv' /\ wire'["server"] = <<>>
           /\ \A i \in DOMAIN wire'["client"] :
                 /\ wire'["client"][i].f.answer
                 /\ \E q \in {Agreed, FromName(config.name)} :
                       wire'["client"][i].f = Receipt(q, "Connect")
<1> USE DEF HInv, Shapes
<1> DEFINE l == Head(wire["server"])
           p == protocol["server"]
           new == LoginProtocol(p, l.version)
           answer == LoginAnswer(p, l)
           sent == [client |-> wire["client"] \o answer, server |-> Tail(wire["server"])]
<1>1. /\ stage["server"] = "wait_conn" /\ wire["server"] # <<>>
      /\ UNCHANGED <<config, account, numbers, sends>>
  BY DEF WaitConn, setup
<1>2. CASE ~Expected(l)
  <2>1. Close("server", wire) /\ UNCHANGED <<setup, protocol, codec, numbers, sends>>
    BY <1>2 DEF WaitConn
  <2>2. HInv'
    BY <2>1, CloseKeeps DEF Ends
  <2>3. wire["client"] = <<>>
    BY <1>1 DEF Handshake
  <2>4. wire'["server"] = <<>> /\ wire'["client"] = <<>>
    BY <2>1, <2>3 DEF Close, Ends
  <2> QED
    BY <2>2, <2>4
<1>3. CASE Expected(l)
  <2>1. /\ protocol' = [protocol EXCEPT !["server"] = new]
        /\ \/ /\ LoginStatus(p, l.version) = "Success"
              /\ stage' = [stage EXCEPT !["server"] = "work"] /\ wire' = sent
              /\ codec' = [codec EXCEPT !["server"] = new] /\ UNCHANGED <<open, deaf>>
           \/ Close("server", sent) /\ UNCHANGED codec
    BY <1>3 DEF WaitConn, Accept
  <2>2. wire["server"] \in Seq(Letters) /\ Len(wire["server"]) <= 1
    BY <1>1 DEF Handshake, Ends
  <2>3. /\ l = wire["server"][1] /\ 1 \in DOMAIN wire["server"] /\ l \in Letters
        /\ Tail(wire["server"]) = <<>>
    <3>1. \A s \in Seq(Letters) : s # <<>> /\ Len(s) <= 1 =>
             Head(s) = s[1] /\ 1 \in DOMAIN s /\ s[1] \in Letters /\ Tail(s) = <<>>
      OBVIOUS
    <3> QED
      BY <1>1, <2>2, <3>1
  <2>4. /\ p = FromName(config.name) /\ codec["server"] = p /\ p \in Protocols
        /\ wire["client"] = <<>> /\ ~Working("client") /\ l.version = config.version
        /\ config \in Configs
    BY <1>1, <2>3, ProtocolsKnown, ZenonT(30) DEF Handshake, TypeOK
  <2>5. new \in Protocols
    BY <2>4, VersionsKnown DEF LoginProtocol
  <2>6. /\ LoginStatus(p, l.version) = "Success" => new = Agreed
        /\ new \in {Agreed, FromName(config.name)}
    <3>1. LoginStatus(p, l.version) = "Success" => new = match_version(p, l.version)
      BY LoginStatusIs DEF LoginProtocol
    <3>2. match_version(p, l.version) = Agreed
      BY <2>4, ProtocolsKnown DEF match_version, Agreed
    <3>3. new \in {match_version(p, l.version), p}
      BY DEF LoginProtocol
    <3> QED
      BY <2>4, <3>1, <3>2, <3>3
  <2>7. /\ answer \in Seq(Letters) /\ Len(answer) <= 1
        /\ \A i \in DOMAIN answer :
              /\ i = 1 /\ answer[i].f.answer /\ answer[i].version = config.version
              /\ answer[i].f = Receipt(new, "Connect")
              /\ Numbered("client", answer[i], numbers)
    <3>2. PICK st : st = get_status_id(new, LoginStatus(p, l.version))
      OBVIOUS
    <3>3. st \in 0..255
      BY <2>5, <3>2, LoginStatusIs, StatusNumbers
    <3>4. decode("server", l) = Reading(p, l.f)
      BY <2>3, <2>4, DecodedFrames DEF decode, Letters
    <3>5. answer = AnswerOf(new, Reading(p, l.f), l.seq, st, l.version)
      BY <3>2, <3>4 DEF LoginAnswer, AnswerOf
    <3>6. Reading(p, l.f).kind = "Connect"
      BY <1>3, <3>4 DEF Expected, IsKind
    <3>7. Numbered("server", l, numbers)
      <4>1. "server" \in Ends /\ 1 \in DOMAIN wire["server"] /\ l = wire["server"][1]
        BY <2>3 DEF Ends
      <4>2. \A x \in Ends : \A i \in DOMAIN wire[x] : Numbered(x, wire[x][i], numbers)
        BY DEF TypeOK
      <4>3. Numbered("server", wire["server"][1], numbers)
        BY <4>1, <4>2, Zenon
      <4> QED
        BY ONLY <4>1, <4>3
    <3>8. "server" \in Ends /\ Peer("server") = "client" /\ l.version \in Versions
          /\ l.seq \in {l.seq, NOSEQ}
      BY <2>3 DEF Ends, Peer, Letters
    <3> HIDE DEF l, p, new, answer
    <3>9. AnswersRight("server", l, answer, "Connect", new, l.seq, l.version)
      <4>1. Reading(p, l.f).kind # "no"
        BY <3>6
      <4>2. \A q \in Protocols, n \in {l.seq, NOSEQ}, s \in 0..255, t \in Versions :
               AnswersRight("server", l, AnswerOf(q, Reading(p, l.f), n, s, t),
                            Reading(p, l.f).kind, q, n, t)
        <5>1. l \in Letters /\ p \in Protocols
          BY <2>3, <2>4
        <5> QED
          BY ONLY <3>7, <3>8, <4>1, <5>1, AnswerLetters, ZenonT(30)
      <4>3. AnswersRight("server", l, AnswerOf(new, Reading(p, l.f), l.seq, st, l.version),
                         Reading(p, l.f).kind, new, l.seq, l.version)
        BY <2>5, <3>3, <3>8, <4>2, Zenon
      <4> QED
        BY <3>5, <3>6, <4>3
    <3>10. \A i \in DOMAIN answer : Numbered("client", answer[i], numbers)
      BY <3>8, <3>9 DEF AnswersRight
    <3> QED
      BY <2>4, <3>9, <3>10 DEF AnswersRight
  <2> HIDE DEF answer, new, l
  <2>8. /\ wire' \in [Ends -> Seq(Letters)]
        /\ wire'["server"] = <<>>
        /\ wire'["client"] = <<>> \/ wire'["client"] = answer
    <3> PICK w : w = sent
      OBVIOUS
    <3>1. w["client"] = answer /\ w["server"] = <<>> /\ w \in [Ends -> Seq(Letters)]
      <4>1. \A s \in Seq(Letters) : <<>> \o s = s
        OBVIOUS
      <4>2. wire["client"] \o answer = answer
        BY <2>4, <2>7, <4>1
      <4>3. w = [client |-> answer, server |-> <<>>]
        BY <2>3, <4>2
      <4> HIDE DEF sent
      <4>4. w["client"] = answer /\ w["server"] = <<>> /\ DOMAIN w = Ends
        BY <4>3 DEF Ends
      <4>5. w["client"] \in Seq(Letters) /\ w["server"] \in Seq(Letters)
        <5>1. <<>> \in Seq(Letters)
          OBVIOUS
        <5> QED
          BY <2>7, <4>4, <5>1
      <4>6. w = [x \in Ends |-> w[x]]
        BY <4>3 DEF Ends
      <4>7. \A x \in Ends : w[x] \in Seq(Letters)
        BY ONLY <4>5 DEF Ends
      <4> QED
        BY ONLY <4>4, <4>6, <4>7
    <3>2. wire' = w \/ wire' = [w EXCEPT !["server"] = <<>>] \/ wire' = [x \in Ends |-> <<>>]
      BY <2>1 DEF Close
    <3> HIDE DEF sent
    <3>3. CASE wire' = w
      BY <3>1, <3>3
    <3>4. CASE wire' = [w EXCEPT !["server"] = <<>>]
      BY <3>1, <3>4 DEF Ends
    <3>5. CASE wire' = [x \in Ends |-> <<>>]
      BY <3>5 DEF Ends
    <3> QED
      BY <3>2, <3>3, <3>4, <3>5
  <2>9. /\ stage' \in [Ends -> Stages] /\ stage'["client"] = stage["client"]
        /\ stage'["server"] = "ended"
           \/ (/\ stage'["server"] = "work" /\ codec' = [codec EXCEPT !["server"] = Agreed]
               /\ new = Agreed)
    BY <2>1, <2>6 DEF Close, Ends, Stages
  <2>10. /\ protocol' \in [Ends -> Protocols] /\ protocol'["client"] = protocol["client"]
         /\ protocol'["server"] = new
         /\ codec' \in [Ends -> Protocols] /\ codec'["client"] = codec["client"]
    <3>1. protocol \in [Ends -> Protocols] /\ codec \in [Ends -> Protocols]
      BY DEF TypeOK
    <3>2. protocol' = [protocol EXCEPT !["server"] = new]
      BY <2>1
    <3>3. codec' = codec \/ codec' = [codec EXCEPT !["server"] = new]
      BY <2>1
    <3> QED
      BY ONLY <2>5, <3>1, <3>2, <3>3 DEF Ends
  <2>11. /\ DOMAIN open' = Ends /\ (\A x \in Ends : open'[x] \subseteq open[x])
         /\ deaf' \in [Ends -> BOOLEAN]
    BY <2>1 DEF Close, TypeOK
  <2>12. \A x \in Ends : \A i \in DOMAIN wire'[x] :
            Numbered(x, wire'[x][i], numbers') /\ wire'[x][i].status \in 0..255
    <3>1. \A x \in Ends : \A i \in DOMAIN wire'[x] : Numbered(x, wire'[x][i], numbers')
      BY <1>1, <2>7, <2>8 DEF Ends
    <3>2. numbers' \in [Ends -> Nat] /\ \A x \in Ends : numbers[x] <= numbers'[x]
      BY <1>1 DEF TypeOK
    <3> QED
      BY <2>8, <3>1, <3>2, LettersNumbered
  <2>13. TypeOK'
    <3>1. \A x \in Ends : \A y \in open'[x] : y[2] \in 1..numbers'[x]
      BY <1>1, <2>11 DEF TypeOK
    <3>2. /\ stage'["client"] \in {"connect", "await", "work", "leaving", "ended"}
          /\ stage'["server"] \in {"wait_conn", "work", "leaving", "ended"}
      BY <2>9 DEF TypeOK
    <3> QED
      BY <1>1, <2>10, <2>11, <2>12, <3>1, <3>2 DEF TypeOK
  <2>14. Handshake'
    <3>1. stage["client"] # "connect"
      BY <1>1 DEF Handshake, Ends
    <3>2. \A i \in DOMAIN wire'["client"] :
             i = 1 /\ wire'["client"][i].version = config'.version
      BY <1>1, <2>7, <2>8
    <3>3. Working("server")' => protocol'["server"] = Agreed' /\ codec'["server"] = Agreed'
      BY <1>1, <2>9, <2>10 DEF Working, Agreed, TypeOK, Ends
    <3>4. stage'["server"] # "wait_conn"
      BY <2>9
    <3>5. protocol'["client"] = Agreed' /\ codec'["client"] = Agreed'
      BY <1>1, <2>10 DEF Handshake, Agreed
    <3> QED
      BY <2>8, <2>9, <3>1, <3>2, <3>3, <3>4, <3>5 DEF Handshake
  <2>15. \A i \in DOMAIN wire'["client"] : \E q \in {Agreed, FromName(config.name)} :
            wire'["client"][i].f = Receipt(q, "Connect")
    BY <2>6, <2>7, <2>8
  <2> QED
    BY <2>7, <2>8, <2>9, <2>11, <2>13, <2>14, <2>15
<1> QED
  BY <1>2, <1>3

(* The client reads the answer to its login and stays with its protocol. *)
LEMMA ConnectedKeeps == HInv /\ Connected => HInv'
<1> SUFFICES ASSUME HInv, Connected PROVE HInv'
  OBVIOUS
<1> USE DEF HInv, Shapes
<1> DEFINE l == Head(wire["client"])
           p == protocol["client"]
           new == IF p = "SGIP" THEN p ELSE match_version(p, l.version)
<1>1. /\ stage["client"] = "await" /\ wire["client"] # <<>>
      /\ UNCHANGED <<config, account, numbers, sends>>
  BY DEF Connected, setup
<1>2. CASE Close("client", wire) /\ UNCHANGED <<protocol, codec>>
  BY <1>1, <1>2, CloseKeeps DEF Ends, setup
<1>3. CASE /\ Accepted(l)
           /\ stage' = [stage EXCEPT !["client"] = "work"]
           /\ wire' = [wire EXCEPT !["client"] = Tail(@)]
           /\ protocol' = [protocol EXCEPT !["client"] = new]
           /\ codec' = [codec EXCEPT !["client"] = new]
           /\ UNCHANGED <<open, deaf>>
  <2>1. wire["client"] \in Seq(Letters) /\ p \in Protocols
    BY DEF Ends, TypeOK
  <2>2. /\ l = wire["client"][1] /\ 1 \in DOMAIN wire["client"] /\ l \in Letters
        /\ Tail(wire["client"]) \in Seq(Letters)
        /\ \A i \in DOMAIN Tail(wire["client"]) :
              \E j \in DOMAIN wire["client"] : Tail(wire["client"])[i] = wire["client"][j]
    <3>1. \A s \in Seq(Letters) : s # <<>> =>
             /\ Head(s) = s[1] /\ 1 \in DOMAIN s /\ s[1] \in Letters /\ Tail(s) \in Seq(Letters)
             /\ \A i \in DOMAIN Tail(s) : i + 1 \in DOMAIN s /\ Tail(s)[i] = s[i + 1]
      OBVIOUS
    <3> QED
      BY <1>1, <2>1, <3>1
  <2>3. l.f.answer
    <3>1. codec["client"] \in Protocols /\ l.f \in Frames
      BY <2>2 DEF TypeOK, Ends, Letters
    <3>2. decode("client", l) = Reading(codec["client"], l.f)
      BY <3>1, DecodedFrames DEF decode
    <3>3. Reading(codec["client"], l.f).answer
      BY <1>3, <3>2, Zenon DEF Accepted, IsKind
    <3>4. l.f.p \in Protocols /\ l.f.kind \in Kinds /\ (l.f.answer => l.f.kind # "Terminate")
      BY <3>1, FramesAre
    <3> QED
      BY <3>1, <3>3, <3>4, AnswersAreSeen
  <2>4. l.version = config.version
    BY <1>1, <2>2, <2>3 DEF Handshake
  <2>5. new = p
    <3>1. Parse(p) = config.name /\ p = Agreed
      BY ProtocolsKnown DEF Handshake, Agreed, TypeOK
    <3> QED
      BY <2>4, <3>1 DEF match_version, Agreed
  <2> HIDE DEF new, l
  <2>6. UNCHANGED <<protocol, codec>>
    BY <1>3, <2>5 DEF TypeOK, Handshake, Ends
  <2>7. /\ stage' \in [Ends -> Stages] /\ stage'["client"] = "work"
        /\ stage'["server"] = stage["server"]
    BY <1>3 DEF Ends, Stages
  <2>8. /\ wire' \in [Ends -> Seq(Letters)] /\ wire'["server"] = wire["server"]
        /\ wire'["client"] = Tail(wire["client"])
    BY <1>3, <2>2 DEF Ends
  <2>9. \A x \in Ends : \A i \in DOMAIN wire'[x] :
           Numbered(x, wire'[x][i], numbers') /\ wire'[x][i].status \in 0..255
    <3>1. \A x \in Ends : \A i \in DOMAIN wire'[x] : \E j \in DOMAIN wire[x] : wire'[x][i] = wire[x][j]
      <4>1. \A i \in DOMAIN wire'["client"] :
               \E j \in DOMAIN wire["client"] : wire'["client"][i] = wire["client"][j]
        BY <2>2, <2>8
      <4>2. \A i \in DOMAIN wire'["server"] :
               \E j \in DOMAIN wire["server"] : wire'["server"][i] = wire["server"][j]
        BY <2>8
      <4> QED
        BY ONLY <4>1, <4>2 DEF Ends
    <3>2. numbers' \in [Ends -> Nat] /\ \A x \in Ends : numbers[x] <= numbers'[x]
      BY <1>1 DEF TypeOK
    <3> QED
      BY <2>8, <3>1, <3>2, LettersNumbered
  <2>10. TypeOK'
    BY <1>1, <1>3, <2>6, <2>7, <2>9 DEF TypeOK
  <2>11. stage["server"] # "wait_conn"
    BY <1>1 DEF Handshake
  <2>12. Handshake'
    BY <1>1, <2>6, <2>7, <2>11 DEF Handshake, Agreed, Working
  <2> QED
    BY <1>3, <2>7, <2>8, <2>10, <2>12
<1> QED
  BY <1>2, <1>3 DEF Connected

(* A step of an end that works, and stays at work, as far as it matters to *)
(* the handshake: requests go to the peer, or what came is answered.       *)
LEMMA WorkKeeps ==
    ASSUME HInv, NEW e \in Ends, Working(e), Working(e)',
           UNCHANGED <<config, account, protocol, codec>>,
           stage' \in [Ends -> Stages], stage'[Peer(e)] = stage[Peer(e)],
           wire' \in [Ends -> Seq(Letters)],
           DOMAIN open' = Ends, \A x \in Ends : \A y \in open'[x] : y[2] \in 1..numbers'[x],
           deaf' \in [Ends -> BOOLEAN], sends' \in [Ends -> 0..MaxSends],
           numbers' \in [Ends -> Nat], \A x \in Ends : numbers[x] <= numbers'[x],
           \A x \in Ends : \A i \in DOMAIN wire'[x] :
              \/ \E j \in DOMAIN wire[x] : wire'[x][i] = wire[x][j]
              \/ Numbered(x, wire'[x][i], numbers'),
           \/ wire[e] # <<>>
           \/ /\ wire'[e] = wire[e]
              /\ \A i \in DOMAIN wire'[Peer(e)] : wire'[Peer(e)][i].f.answer =>
                    i \in DOMAIN wire[Peer(e)] /\ wire'[Peer(e)][i] = wire[Peer(e)][i]
    PROVE  HInv'
<1> USE DEF HInv, Shapes
<1>1. \A x \in Ends : \A i \in DOMAIN wire'[x] :
         Numbered(x, wire'[x][i], numbers') /\ wire'[x][i].status \in 0..255
  BY LettersNumbered
<1>2. /\ stage'["client"] \in {"connect", "await", "work", "leaving", "ended"}
      /\ stage'["server"] \in {"wait_conn", "work", "leaving", "ended"}
  BY ZenonT(30) DEF TypeOK, Ends, Peer, Working
<1>3. TypeOK'
  BY <1>1, <1>2 DEF TypeOK
<1>4. Handshake'
  <2>1. CASE e = "client"
    <3>1. stage["server"] # "wait_conn" /\ stage'["server"] = stage["server"]
      BY <2>1 DEF Handshake, Peer
    <3> QED
      BY <2>1, <3>1 DEF Handshake, Agreed, Working
  <2>2. CASE e = "server"
    <3>1. stage'["client"] = stage["client"] /\ stage["client"] # "connect"
      BY <2>2 DEF Handshake, Peer
    <3>2. stage["server"] # "wait_conn" /\ stage'["server"] # "wait_conn"
      BY <2>2 DEF Working
    <3>3. stage["client"] = "await" =>
             /\ wire'["server"] = <<>>
             /\ \A i \in DOMAIN wire'["client"] :
                   wire'["client"][i].f.answer => i = 1 /\ wire'["client"][i].version = config.version
      BY <2>2 DEF Handshake, Peer
    <3> QED
      BY <2>2, <3>1, <3>2, <3>3 DEF Handshake, Agreed, Working
  <2> QED
    BY <2>1, <2>2 DEF Ends
<1> QED
  BY <1>3, <1>4

(* The numbers of the frames of a message follow each other. *)
LEMMA NumbersFollow ==
    ASSUME NEW n \in Nat, NEW d \in Nat \ {0}, NEW k \in Nat, NEW i \in 1..k
    PROVE  n + 1 + (i - 1) * d \in 1..(n + k * d)
<1>1. (i - 1) * d \in Nat /\ (i - 1) * d + d = i * d
  OBVIOUS
<1>2. i * d <= k * d
  OBVIOUS
<1>3. i * d \in Nat /\ k * d \in Nat
  OBVIOUS
<1> QED
  BY <1>1, <1>2, <1>3
(* The letters of a message's frames, after n numbers given out. *)
Sent(fs, n, d, takes) ==
    [i \in DOMAIN fs |-> Letter(fs[i], IF takes THEN n + 1 + (i - 1) * d ELSE NOSEQ, 0, 0)]
Given(fs, n, d, takes) == IF takes THEN n + Len(fs) * d ELSE n

SentRight(more, given, fs, n, d, takes) ==
    /\ more \in Seq(Letters) /\ DOMAIN more = DOMAIN fs
    /\ given \in Nat /\ n <= given
    /\ \A i \in DOMAIN fs :
          /\ more[i].f = fs[i]
          /\ more[i].seq = IF takes THEN n + 1 + (i - 1) * d ELSE NOSEQ
          /\ takes => more[i].seq \in 1..given

LEMMA SentLetters ==
    ASSUME NEW fs \in Seq(Frames), NEW n \in Nat, NEW d \in Nat \ {0}, NEW takes \in BOOLEAN
    PROVE  SentRight(Sent(fs, n, d, takes), Given(fs, n, d, takes), fs, n, d, takes)
<1> DEFINE seq(i) == IF takes THEN n + 1 + (i - 1) * d ELSE NOSEQ
           k == Len(fs)
<1>1. k \in Nat /\ DOMAIN fs = 1..k /\ \A i \in 1..k : fs[i] \in Frames
  OBVIOUS
<1>2. \A i \in 1..k : IF takes THEN seq(i) \in 1..(n + k * d) ELSE seq(i) = NOSEQ
  BY <1>1, NumbersFollow
<1>3. n + k * d \in Nat /\ n <= n + k * d
  <2>1. k * d \in Nat
    BY <1>1
  <2> QED
    BY <2>1
<1> HIDE DEF seq, k
<1>4. \A i \in 1..k : seq(i) \in Nat \cup {NOSEQ}
  BY <1>2, <1>3
<1> PICK s : s = [i \in 1..k |-> Letter(fs[i], seq(i), 0, 0)]
  OBVIOUS
<1>5. Sent(fs, n, d, takes) = s
  BY <1>1 DEF Sent, seq
<1>6. \A i \in 1..k : s[i] \in Letters /\ s[i].f = fs[i] /\ s[i].seq = seq(i)
  <2> SUFFICES ASSUME NEW i \in 1..k
               PROVE  s[i] \in Letters /\ s[i].f = fs[i] /\ s[i].seq = seq(i)
    OBVIOUS
  <2>1. s[i] = Letter(fs[i], seq(i), 0, 0)
    OBVIOUS
  <2>2. 0 \in Versions /\ 0 \in 0..255
    BY DEF Versions
  <2>3. \A f \in Frames, q \in Nat \cup {NOSEQ} :
           /\ Letter(f, q, 0, 0) \in Letters
           /\ Letter(f, q, 0, 0).f = f /\ Letter(f, q, 0, 0).seq = q
    BY <2>2 DEF Letter, Letters
  <2> QED
    BY <1>1, <1>4, <2>1, <2>3
<1>7. s \in Seq(Letters) /\ DOMAIN s = 1..k
  <2>1. s \in [1..k -> Letters]
    BY <1>6
  <2> QED
    BY <1>1, <2>1
<1> QED
  BY <1>1, <1>2, <1>3, <1>5, <1>6, <1>7 DEF SentRight, Given, seq, k

(* What is on a wire after more was written to it. *)
Joined(u, s, t) ==
    \A i \in DOMAIN u : \/ i \in DOMAIN s /\ u[i] = s[i]
                        \/ \E j \in DOMAIN t : u[i] = t[j]

LEMMA JoinedLetters ==
    ASSUME NEW s \in Seq(Letters), NEW t \in Seq(Letters)
    PROVE  Joined(s, s, t) /\ Joined(s \o t, s, t)
<1> SUFFICES ASSUME NEW u, u = s \/ u = s \o t PROVE Joined(u, s, t)
  OBVIOUS
<1> USE DEF Joined
<1>1. CASE u = s
  BY <1>1
<1>2. CASE u = s \o t
  <2>1. u \in Seq(Letters) /\ DOMAIN u = 1..(Len(s) + Len(t))
    BY <1>2
  <2>2. DOMAIN s = 1..Len(s) /\ DOMAIN t = 1..Len(t)
    OBVIOUS
  <2>3. ASSUME NEW i \in DOMAIN u, i \notin DOMAIN s
        PROVE  i - Len(s) \in DOMAIN t /\ u[i] = t[i - Len(s)]
    BY <1>2, <2>1, <2>2, <2>3
  <2>4. \A i \in DOMAIN s : u[i] = s[i]
    BY <1>2
  <2> QED
    BY <2>1, <2>3, <2>4
<1> QED
  BY <1>1, <1>2

LEMMA EndsAre == \A e \in Ends : /\ Peer(e) \in Ends /\ Peer(e) # e /\ Peer(Peer(e)) = e
                                 /\ Ends = {e, Peer(e)}
BY DEF Peer, Ends

(* A message is sent: its frames, the numbers given out for them, and what *)
(* is kept until an answer comes.                                          *)
FramesSent(e, m) == Encodings[protocol[e]][m]
LettersSent(e, m) == Sent(FramesSent(e, m), numbers[e], m.dests, Takes(protocol[e], m))
NumbersGiven(e, m) == Given(FramesSent(e, m), numbers[e], m.dests, Takes(protocol[e], m))

LEMMA SendIs ==
    ASSUME HInv, NEW e \in Ends, NEW m \in Messages[e],
           NEW fs, fs = FramesSent(e, m), NEW more, more = LettersSent(e, m),
           NEW given, given = NumbersGiven(e, m)
    PROVE  /\ m \in Business /\ m.dests \in Nat \ {0} /\ numbers[e] \in Nat
           /\ protocol[e] \in Protocols
           /\ fs \in Seq(Frames)
           /\ \A i \in DOMAIN fs : fs[i].p = protocol[e] /\ fs[i].kind = m.kind /\ ~fs[i].answer
           /\ SentRight(more, given, fs, numbers[e], m.dests, Takes(protocol[e], m))
<1>1. /\ m \in Business /\ m.dests \in Nat \ {0}
      /\ protocol[e] \in Protocols /\ numbers[e] \in Nat
  BY BusinessIs DEF HInv, Shapes, TypeOK
<1>2. /\ fs \in Seq(Frames)
      /\ \A i \in DOMAIN fs : fs[i].p = protocol[e] /\ fs[i].kind = m.kind /\ ~fs[i].answer
  BY <1>1, SentFrames DEF FramesSent
<1>3. SentRight(more, given, fs, numbers[e], m.dests, Takes(protocol[e], m))
  <2>1. Takes(protocol[e], m) \in BOOLEAN
    BY DEF Takes
  <2> QED
    BY <1>1, <1>2, <2>1, SentLetters DEF LettersSent, NumbersGiven
<1> QED
  BY <1>1, <1>2, <1>3

LEMMA SendKeeps ==
    ASSUME HInv, NEW e \in Ends, NEW m \in Messages[e], Send(e, m)
    PROVE  HInv'
<1> USE DEF HInv, Shapes
<1> DEFINE q == Peer(e)
<1> PICK fs : fs = FramesSent(e, m)
  OBVIOUS
<1> PICK more : more = LettersSent(e, m)
  OBVIOUS
<1> PICK given : given = NumbersGiven(e, m)
  OBVIOUS
<1> PICK takes : takes = Takes(protocol[e], m)
  OBVIOUS
<1>1. /\ stage[e] = "work" /\ sends[e] < MaxSends
      /\ sends' = [sends EXCEPT ![e] = @ + 1]
      /\ numbers' = [numbers EXCEPT ![e] = given]
      /\ wire' = IF Ended(q) THEN wire ELSE [wire EXCEPT ![q] = @ \o more]
      /\ open' = [open EXCEPT ![e] = @ \cup
            {<<TypeOf[fs[i]], IF takes THEN numbers[e] + 1 + (i - 1) * m.dests ELSE NOSEQ>> :
                 i \in {j \in DOMAIN fs : takes /\ m.kind # "Terminate"}}]
      /\ UNCHANGED <<config, account, stage, protocol, codec, deaf>>
  BY DEF Send, setup, Sent, Given, FramesSent, LettersSent, NumbersGiven
<1>2. m.dests \in Nat \ {0} /\ numbers[e] \in Nat
  BY SendIs
<1>3. fs \in Seq(Frames) /\ \A i \in DOMAIN fs : ~fs[i].answer
  BY SendIs
<1>4. /\ more \in Seq(Letters) /\ DOMAIN more = DOMAIN fs
      /\ given \in Nat /\ numbers[e] <= given
      /\ \A i \in DOMAIN fs :
            /\ more[i].f = fs[i]
            /\ more[i].seq = IF takes THEN numbers[e] + 1 + (i - 1) * m.dests ELSE NOSEQ
            /\ takes => more[i].seq \in 1..given
  <2>1. SentRight(more, given, fs, numbers[e], m.dests, takes)
    BY SendIs
  <2> QED
    BY <2>1 DEF SentRight
<1>5. q \in Ends /\ q # e /\ Peer(q) = e
  BY EndsAre
<1>6. /\ numbers' \in [Ends -> Nat] /\ \A x \in Ends : numbers[x] <= numbers'[x]
      /\ numbers'[e] = given
  BY <1>1, <1>4 DEF TypeOK
<1>7. /\ wire' \in [Ends -> Seq(Letters)] /\ wire'[e] = wire[e]
      /\ wire'[q] = wire[q] \/ wire'[q] = wire[q] \o more
  BY <1>1, <1>4, <1>5
<1>8. \A i \in DOMAIN wire'[q] :
         \/ i \in DOMAIN wire[q] /\ wire'[q][i] = wire[q][i]
         \/ \E j \in DOMAIN more : wire'[q][i] = more[j]
  <2>1. wire[q] \in Seq(Letters)
    BY <1>5
  <2>2. Joined(wire'[q], wire[q], more)
    BY <1>4, <1>7, <2>1, JoinedLetters
  <2> QED
    BY <2>2 DEF Joined
<1>9. \A j \in DOMAIN more : ~more[j].f.answer /\ Numbered(q, more[j], numbers')
  <2> SUFFICES ASSUME NEW j \in DOMAIN more
               PROVE  ~more[j].f.answer /\ Numbered(q, more[j], numbers')
    OBVIOUS
  <2>1. ~more[j].f.answer /\ more[j].seq \in 1..numbers'[e] \cup {NOSEQ}
    BY <1>3, <1>4, <1>6
  <2> QED
    BY <1>5, <2>1 DEF Numbered
<1>10. /\ DOMAIN open' = Ends
       /\ \A x \in Ends : \A y \in open'[x] : y[2] \in 1..numbers'[x]
  <2> SUFFICES ASSUME NEW x \in Ends, NEW y \in open'[x] PROVE y[2] \in 1..numbers'[x]
    BY <1>1
  <2>1. CASE y \in open[x]
    <3>1. y[2] \in 1..numbers[x]
      BY <2>1 DEF TypeOK
    <3>2. numbers[x] \in Nat /\ numbers'[x] \in Nat /\ numbers[x] <= numbers'[x]
      BY <1>6 DEF TypeOK
    <3> QED
      BY ONLY <3>1, <3>2
  <2>2. CASE y \notin open[x]
    <3>1. x = e
      BY <1>1, <2>2
    <3>2. PICK i \in DOMAIN fs : takes /\ y = <<TypeOf[fs[i]], numbers[e] + 1 + (i - 1) * m.dests>>
      BY <1>1, <2>2, <3>1
    <3> QED
      BY <1>4, <1>6, <3>1, <3>2
  <2> QED
    BY <2>1, <2>2
<1>11. sends' \in [Ends -> 0..MaxSends] /\ deaf' \in [Ends -> BOOLEAN]
  BY <1>1, NumbersAssumption DEF TypeOK
<1>12. Working(e) /\ Working(e)' /\ stage' \in [Ends -> Stages] /\ stage'[q] = stage[q]
  BY <1>1 DEF Working
<1>13. \A x \in Ends : \A i \in DOMAIN wire'[x] :
          \/ \E j \in DOMAIN wire[x] : wire'[x][i] = wire[x][j]
          \/ Numbered(x, wire'[x][i], numbers')
  <2> SUFFICES ASSUME NEW x \in Ends, NEW i \in DOMAIN wire'[x]
               PROVE  \/ \E j \in DOMAIN wire[x] : wire'[x][i] = wire[x][j]
                      \/ Numbered(x, wire'[x][i], numbers')
    OBVIOUS
  <2>1. CASE x = e
    BY <1>7, <2>1
  <2>2. CASE x = q
    <3>1. CASE \E j \in DOMAIN more : wire'[q][i] = more[j]
      BY <1>9, <2>2, <3>1
    <3> QED
      BY <1>8, <2>2, <3>1
  <2> QED
    BY <2>1, <2>2, EndsAre
<1>14. \A i \in DOMAIN wire'[q] : wire'[q][i].f.answer =>
          i \in DOMAIN wire[q] /\ wire'[q][i] = wire[q][i]
  BY <1>8, <1>9
<1> QED
  BY <1>1, <1>6, <1>7, <1>10, <1>11, <1>12, <1>13, <1>14, WorkKeeps

(* What is answered to a letter. *)
LEMMA AnswersAre ==
    ASSUME HInv, NEW e \in Ends, wire[e] # <<>>, NEW status \in Statuses,
           decode(e, Head(wire[e])).kind # "no"
    PROVE  /\ Head(wire[e]) \in Letters /\ Head(wire[e]) = wire[e][1] /\ 1 \in DOMAIN wire[e]
           /\ decode(e, Head(wire[e])) = Reading(codec[e], Head(wire[e]).f)
           /\ AnswersRight(e, Head(wire[e]), AnswerTo(e, Head(wire[e]), status),
                           Reading(codec[e], Head(wire[e]).f).kind, protocol[e],
                           AnswerSeq(protocol[e], Head(wire[e])), 0)
<1> USE DEF HInv, Shapes
<1> PICK l : l = Head(wire[e])
  OBVIOUS
<1>1. l \in Letters /\ l = wire[e][1] /\ 1 \in DOMAIN wire[e]
  <2>1. \A s \in Seq(Letters) : s # <<>> => /\ Head(s) = s[1] /\ 1 \in DOMAIN s /\ s[1] \in Letters
    OBVIOUS
  <2> QED
    BY <2>1
<1>2. protocol[e] \in Protocols /\ codec[e] \in Protocols /\ l.f \in Frames /\ Numbered(e, l, numbers)
  BY <1>1 DEF TypeOK, Letters
<1>3. decode(e, l) = Reading(codec[e], l.f)
  BY <1>2, DecodedFrames DEF decode
<1> PICK st : st = get_status_id(protocol[e], status)
  OBVIOUS
<1>4. st \in 0..255
  BY <1>2, StatusNumbers
<1>5. AnswerSeq(protocol[e], l) \in {l.seq, NOSEQ}
  BY DEF AnswerSeq
<1> PICK seq : seq = AnswerSeq(protocol[e], l)
  OBVIOUS
<1>6. AnswerTo(e, l, status) = AnswerOf(protocol[e], Reading(codec[e], l.f), seq, st, 0)
  BY <1>3 DEF AnswerTo, AnswerOf
<1>7. 0 \in Versions /\ Reading(codec[e], l.f).kind # "no"
  BY <1>3 DEF Versions
<1>8. AnswersRight(e, l, AnswerOf(protocol[e], Reading(codec[e], l.f), seq, st, 0),
                   Reading(codec[e], l.f).kind, protocol[e], seq, 0)
  <2> PICK p, c : p = protocol[e] /\ c = codec[e]
    OBVIOUS
  <2> PICK v : v = 0
    OBVIOUS
  <2>1. /\ p \in Protocols /\ c \in Protocols /\ v \in Versions
        /\ seq \in {l.seq, NOSEQ} /\ Reading(c, l.f).kind # "no"
    BY <1>2, <1>5, <1>7
  <2>2. \A q \in Protocols, n \in {l.seq, NOSEQ}, s \in 0..255, t \in Versions :
           AnswersRight(e, l, AnswerOf(q, Reading(c, l.f), n, s, t), Reading(c, l.f).kind, q, n, t)
    <3>1. l \in Letters /\ Numbered(e, l, numbers)
      BY <1>1, <1>2
    <3>2. c \in Protocols /\ Reading(c, l.f).kind # "no"
      BY <2>1
    <3> QED
      BY ONLY <3>1, <3>2, AnswerLetters, ZenonT(30)
  <2>3. AnswersRight(e, l, AnswerOf(p, Reading(c, l.f), seq, st, v),
                     Reading(c, l.f).kind, p, seq, v)
    BY ONLY <1>4, <2>1, <2>2, Zenon
  <2> QED
    BY <2>3
<1> QED
  BY <1>1, <1>3, <1>6, <1>8

(* A letter is taken and answered. *)
LEMMA ReceiveIs ==
    ASSUME HInv, NEW e \in Ends, Receive(e)
    PROVE  /\ Working(e) /\ wire[e] # <<>> /\ wire[e] \in Seq(Letters)
           /\ Head(wire[e]) = wire[e][1] /\ Head(wire[e]) \in Letters
           /\ decode(e, Head(wire[e])) = Reading(codec[e], Head(wire[e]).f)
           /\ Reading(codec[e], Head(wire[e]).f).kind # "no"
           /\ deaf' \in [Ends -> BOOLEAN]
           /\ Settled(e, Head(wire[e]))
           /\ stage' \in [Ends -> Stages] /\ stage'[Peer(e)] = stage[Peer(e)] /\ Working(e)'
           /\ UNCHANGED <<config, account, protocol, codec, numbers, sends>>
           /\ wire' \in [Ends -> Seq(Letters)] /\ wire'[e] = Tail(wire[e])
           /\ \E answers \in Seq(Letters) :
                 /\ wire'[Peer(e)] = wire[Peer(e)] \/ wire'[Peer(e)] = wire[Peer(e)] \o answers
                 /\ AnswersRight(e, Head(wire[e]), answers,
                                 Reading(codec[e], Head(wire[e]).f).kind, protocol[e],
                                 AnswerSeq(protocol[e], Head(wire[e])), 0)
<1> USE DEF HInv, Shapes
<1> DEFINE q == Peer(e)
           l == Head(wire[e])
           r == decode(e, l)
<1>1. /\ Working(e) /\ wire[e] # <<>> /\ r.kind # "no"
      /\ deaf' = [deaf EXCEPT ![e] = ~r.inStep]
      /\ Settled(e, l)
      /\ stage' = [stage EXCEPT ![e] = IF IsKind(r, "Terminate", FALSE) THEN "leaving" ELSE @]
      /\ UNCHANGED <<config, account, protocol, codec, numbers, sends>>
  BY DEF Receive, Listens, setup
<1>2. PICK status \in Statuses : Reply(e, l, status)
  BY DEF Receive, StatusesFor, Statuses
<1> PICK answers : answers = AnswerTo(e, l, status)
  OBVIOUS
<1>3. q \in Ends /\ q # e /\ Peer(q) = e
  BY EndsAre
<1>4. /\ l \in Letters /\ l = wire[e][1] /\ r = Reading(codec[e], l.f)
      /\ AnswersRight(e, l, answers, Reading(codec[e], l.f).kind, protocol[e],
                      AnswerSeq(protocol[e], l), 0)
  BY <1>1, AnswersAre
<1>5. answers \in Seq(Letters)
  BY <1>4 DEF AnswersRight
<1>6. wire[e] \in Seq(Letters) /\ wire[q] \in Seq(Letters)
  BY <1>3
<1>7. /\ wire' \in [Ends -> Seq(Letters)] /\ wire'[e] = Tail(wire[e])
      /\ wire'[q] = wire[q] \/ wire'[q] = wire[q] \o answers
  <2>2. Tail(wire[e]) \in Seq(Letters)
    BY <1>1, <1>6
  <2>3. wire' = [wire EXCEPT ![e] = Tail(@), ![q] = IF Ended(q) THEN @ ELSE @ \o answers]
    BY <1>2 DEF Reply
  <2> HIDE DEF l, r
  <2> PICK w : w = IF Ended(q) THEN wire[q] ELSE wire[q] \o answers
    OBVIOUS
  <2>4. w \in Seq(Letters)
    BY <1>5, <1>6
  <2>5. wire' = [wire EXCEPT ![e] = Tail(wire[e]), ![q] = w]
    BY <1>3, <2>3
  <2> QED
    BY <1>3, <2>2, <2>4, <2>5
<1> HIDE DEF l, r
<1>8. Working(e)' /\ stage' \in [Ends -> Stages] /\ stage'[q] = stage[q]
  BY <1>1, <1>3 DEF Working, Stages
<1>9. deaf' \in [Ends -> BOOLEAN]
  BY <1>1 DEF TypeOK
<1>10. Settled(e, l) /\ Working(e) /\ wire[e] # <<>> /\ Reading(codec[e], l.f).kind # "no"
       /\ UNCHANGED <<config, account, protocol, codec, numbers, sends>>
  BY <1>1, <1>4
<1> HIDE DEF HInv, Shapes
<1> QED
  BY <1>4, <1>5, <1>6, <1>7, <1>8, <1>9, <1>10 DEF l, r

LEMMA ReceiveKeeps ==
    ASSUME HInv, NEW e \in Ends, Receive(e)
    PROVE  HInv'
<1> USE DEF HInv, Shapes
<1> DEFINE q == Peer(e)
           l == Head(wire[e])
           r == decode(e, l)
<1>1. /\ Working(e) /\ wire[e] # <<>> /\ Settled(e, l)
      /\ UNCHANGED <<config, account, protocol, codec, numbers, sends>>
  BY ReceiveIs
<1>2. PICK answers \in Seq(Letters) :
         /\ wire'[q] = wire[q] \/ wire'[q] = wire[q] \o answers
         /\ AnswersRight(e, l, answers, Reading(codec[e], l.f).kind, protocol[e],
                         AnswerSeq(protocol[e], l), 0)
  BY ReceiveIs
<1>3. q \in Ends /\ q # e /\ Peer(q) = e
  BY EndsAre
<1>4. \A i \in DOMAIN answers : Numbered(q, answers[i], numbers)
  BY <1>2 DEF AnswersRight
<1>5. wire' \in [Ends -> Seq(Letters)] /\ wire'[e] = Tail(wire[e])
  BY ReceiveIs
<1> HIDE DEF l, r
<1>6. \A i \in DOMAIN wire'[q] :
         \/ \E j \in DOMAIN wire[q] : wire'[q][i] = wire[q][j]
         \/ \E j \in DOMAIN answers : wire'[q][i] = answers[j]
  <2>1. wire[q] \in Seq(Letters)
    BY <1>3
  <2>2. Joined(wire'[q], wire[q], answers)
    BY <1>2, <1>5, <2>1, JoinedLetters
  <2> QED
    BY <2>2 DEF Joined
<1>7. \A i \in DOMAIN wire'[e] : \E j \in DOMAIN wire[e] : wire'[e][i] = wire[e][j]
  <2>1. \A s \in Seq(Letters) : s # <<>> =>
           \A i \in DOMAIN Tail(s) : i + 1 \in DOMAIN s /\ Tail(s)[i] = s[i + 1]
    OBVIOUS
  <2> QED
    BY <1>1, <1>5, <2>1
<1>8. \A x \in Ends : \A i \in DOMAIN wire'[x] :
         \/ \E j \in DOMAIN wire[x] : wire'[x][i] = wire[x][j]
         \/ Numbered(x, wire'[x][i], numbers')
  <2>1. \A i \in DOMAIN wire'[q] :
           \/ \E j \in DOMAIN wire[q] : wire'[q][i] = wire[q][j]
           \/ Numbered(q, wire'[q][i], numbers')
    BY <1>1, <1>4, <1>6
  <2> SUFFICES ASSUME NEW x \in Ends, NEW i \in DOMAIN wire'[x]
               PROVE  \/ \E j \in DOMAIN wire[x] : wire'[x][i] = wire[x][j]
                      \/ Numbered(x, wire'[x][i], numbers')
    OBVIOUS
  <2>2. CASE x = e
    BY <1>7, <2>2
  <2>3. CASE x = q
    BY <2>1, <2>3
  <2> QED
    BY <2>2, <2>3, EndsAre
<1>9. /\ DOMAIN open' = Ends /\ \A x \in Ends : open'[x] \subseteq open[x]
      /\ \A x \in Ends : \A y \in open'[x] : y[2] \in 1..numbers'[x]
  <2>1. DOMAIN open' = Ends /\ \A x \in Ends : open'[x] \subseteq open[x]
    BY <1>1 DEF Settled
  <2> QED
    BY <1>1, <2>1 DEF TypeOK
<1>10. sends' \in [Ends -> 0..MaxSends]
       /\ numbers' \in [Ends -> Nat] /\ \A x \in Ends : numbers[x] <= numbers'[x]
  BY <1>1 DEF TypeOK
<1>11. Working(e)' /\ stage' \in [Ends -> Stages] /\ stage'[q] = stage[q] /\ deaf' \in [Ends -> BOOLEAN]
  BY ReceiveIs
<1> QED
  BY <1>1, <1>5, <1>8, <1>9, <1>10, <1>11, WorkKeeps

LEMMA HInvKeeps == HInv /\ [Next]_vars => HInv'
<1> SUFFICES ASSUME HInv, [Next]_vars PROVE HInv'
  OBVIOUS
<1>1. CASE Connects
  BY <1>1, ConnectsKeeps
<1>2. CASE WaitConn
  BY <1>2, WaitConnKeeps
<1>3. CASE WaitTimeout
  BY <1>3, CloseKeeps DEF WaitTimeout, Ends
<1>4. CASE Connected
  BY <1>4, ConnectedKeeps
<1>5. CASE \E e \in Ends : \E m \in Messages[e] : Send(e, m)
  BY <1>5, SendKeeps
<1>6. CASE \E e \in Ends : Receive(e)
  BY <1>6, ReceiveKeeps
<1>7. CASE \E e \in Ends : ReceiveBad(e) \/ Leave(e) \/ LetGo(e) \/ PeerGone(e) \/ HeartbeatMissed(e)
  <2>1. PICK e \in Ends : ReceiveBad(e) \/ Leave(e) \/ LetGo(e) \/ PeerGone(e) \/ HeartbeatMissed(e)
    BY <1>7
  <2>2. Close(e, wire) /\ UNCHANGED <<setup, protocol, codec, numbers, sends>>
    BY <2>1 DEF ReceiveBad, Leave, LetGo, PeerGone, HeartbeatMissed
  <2> QED
    BY <2>2, CloseKeeps
<1>8. CASE UNCHANGED vars
  <2>1. UNCHANGED <<config, account, stage, protocol, codec, wire, deaf, open, numbers, sends>>
    BY <1>8 DEF vars
  <2>2. TypeOK'
    <3>1. TypeOK
      BY DEF HInv, Shapes
    <3>2. /\ config' = config /\ account' = account /\ stage' = stage
          /\ protocol' = protocol /\ codec' = codec /\ wire' = wire /\ deaf' = deaf
          /\ open' = open /\ numbers' = numbers /\ sends' = sends
      BY <2>1
    <3>3. \A e \in Ends : \A i \in DOMAIN wire'[e] :
             Numbered(e, wire'[e][i], numbers') /\ wire'[e][i].status \in 0..255
      BY ONLY <3>1, <3>2 DEF TypeOK
    <3> QED
      BY ONLY <3>1, <3>2, <3>3 DEF TypeOK
  <2>3. Shapes'
    BY <2>1, <2>2 DEF HInv, Shapes
  <2>4. Handshake'
    <3>1. Agreed' = Agreed /\ Working("client")' = Working("client")
          /\ Working("server")' = Working("server")
      BY <2>1 DEF Agreed, Working
    <3> QED
      BY <2>1, <3>1 DEF HInv, Handshake
  <2> QED
    BY <2>3, <2>4 DEF HInv
<1> QED
  BY <1>1, <1>2, <1>3, <1>4, <1>5, <1>6, <1>7, <1>8 DEF Next

LEMMA HandshakeHolds == Spec => []HInv
<1>1. Init => HInv
  BY InitShapes
<1>2. HInv /\ [Next]_vars => HInv'
  BY HInvKeeps
<1> QED
  BY <1>1, <1>2, PTL DEF Spec

(* Every version a client may be configured with yields a protocol, every  *)
(* frame on its way was written by one, and the number it bears was given  *)
(* out by the end that asked.                                              *)
THEOREM TypeCorrect == Spec => []TypeOK
<1>1. HInv => TypeOK
  BY DEF HInv, Shapes
<1> QED
  BY <1>1, HandshakeHolds, PTL

(* Whatever version the client comes with, the two ends never work by two  *)
(* protocols, nor does one end write by one and read by another.           *)
THEOREM ProtocolsMeet == Spec => []ProtocolsAgree
<1>1. HInv => ProtocolsAgree
  BY HandshakeAgrees
<1> QED
  BY <1>1, HandshakeHolds, PTL

(***************************************************************************)
(* Answers and what they answer                                            *)
(***************************************************************************)

Key(l) == <<TypeOf[l.f], l.seq>>
(* A request the codec of p answers, or may drop: all but a Terminate. *)
Asked(p, l) == ~l.f.answer /\ get_type_enum(p, TypeOf[l.f]) # "Terminate"

(* All that is on its way to an end as an answer, and on its way from it   *)
(* as a request, is kept as not answered, and each has a number of its own.*)
Known(p, mine, theirs, opened) ==
    /\ \A i \in DOMAIN mine : mine[i].f.answer => Key(mine[i]) \in opened
    /\ \A i \in DOMAIN theirs : Asked(p, theirs[i]) => Key(theirs[i]) \in opened
Apart(p, mine, theirs) ==
    /\ \A i \in DOMAIN mine : \A j \in DOMAIN mine :
          mine[i].f.answer /\ mine[j].f.answer /\ mine[i].seq = mine[j].seq => i = j
    /\ \A i \in DOMAIN theirs : \A j \in DOMAIN theirs :
          Asked(p, theirs[i]) /\ Asked(p, theirs[j]) /\ theirs[i].seq = theirs[j].seq => i = j
    /\ \A i \in DOMAIN mine : \A j \in DOMAIN theirs :
          mine[i].f.answer /\ Asked(p, theirs[j]) => mine[i].seq # theirs[j].seq
Matched(p, mine, theirs, opened) == Known(p, mine, theirs, opened) /\ Apart(p, mine, theirs)

Matching ==
    Agreed # "SGIP" => \A e \in Ends : Working(e) => Matched(Agreed, wire[e], wire[Peer(e)], open[e])
AInv == HInv /\ Matching

(* A wire that breaks loses what is on it. *)
LEMMA LosingMatches ==
    ASSUME NEW p, NEW s, NEW t, NEW o, NEW s1, NEW t1,
           Matched(p, s, t, o), s1 = s \/ s1 = <<>>, t1 = t \/ t1 = <<>>
    PROVE  Matched(p, s1, t1, o)
BY DEF Matched, Known, Apart

(* A message is written: its requests have new numbers and are kept. *)
Used(s, t, n) ==
    /\ \A i \in DOMAIN s : s[i].f.answer => s[i].seq \in 1..n \cup {NOSEQ}
    /\ \A i \in DOMAIN t : ~t[i].f.answer => t[i].seq \in 1..n \cup {NOSEQ}
Fresh(p, more, n, opened) ==
    /\ \A i \in DOMAIN more :
          /\ more[i].seq \in Nat /\ more[i].seq > n
          /\ Asked(p, more[i]) => Key(more[i]) \in opened
    /\ \A i \in DOMAIN more : \A j \in DOMAIN more : more[i].seq = more[j].seq => i = j

LEMMA SendingMatches ==
    ASSUME NEW p, NEW s \in Seq(Letters), NEW t \in Seq(Letters), NEW o, Matched(p, s, t, o),
           NEW more \in Seq(Letters), NEW o1, NEW n \in Nat, o \subseteq o1,
           Used(s, t, n), Fresh(p, more, n, o1)
    PROVE  Matched(p, s, t \o more, o1)
<1> PICK u : u = t \o more
  OBVIOUS
<1> USE DEF Used, Fresh
<1>1. \A i \in DOMAIN u : \/ i \in DOMAIN t /\ u[i] = t[i]
                          \/ /\ i \notin DOMAIN t /\ i - Len(t) \in DOMAIN more
                             /\ u[i] = more[i - Len(t)]
  <2>1. u \in Seq(Letters) /\ DOMAIN u = 1..(Len(t) + Len(more))
    OBVIOUS
  <2>2. DOMAIN t = 1..Len(t) /\ DOMAIN more = 1..Len(more) /\ Len(t) \in Nat /\ Len(more) \in Nat
    OBVIOUS
  <2>3. ASSUME NEW i \in DOMAIN u, i \notin DOMAIN t
        PROVE  i - Len(t) \in DOMAIN more /\ u[i] = more[i - Len(t)]
    BY <2>1, <2>2, <2>3
  <2>4. \A i \in DOMAIN t : u[i] = t[i]
    OBVIOUS
  <2> QED
    BY <2>3, <2>4
<1>2. \A k \in 1..n \cup {NOSEQ} : ~(k \in Nat /\ k > n)
  BY NumbersAssumption
<1>3. Known(p, s, u, o1)
  BY <1>1 DEF Matched, Known
<1>4. \A i \in DOMAIN u : \A j \in DOMAIN u :
         Asked(p, u[i]) /\ Asked(p, u[j]) /\ u[i].seq = u[j].seq => i = j
  <2> SUFFICES ASSUME NEW i \in DOMAIN u, NEW j \in DOMAIN u, Asked(p, u[i]), Asked(p, u[j]),
                      u[i].seq = u[j].seq
               PROVE  i = j
    OBVIOUS
  <2>1. ~u[i].f.answer /\ ~u[j].f.answer
    BY DEF Asked
  <2>2. CASE i \in DOMAIN t /\ j \in DOMAIN t
    BY <1>1, <2>2 DEF Matched, Apart
  <2>3. CASE i \in DOMAIN t /\ j \notin DOMAIN t
    BY <1>1, <1>2, <2>1, <2>3
  <2>4. CASE i \notin DOMAIN t /\ j \in DOMAIN t
    BY <1>1, <1>2, <2>1, <2>4
  <2>5. CASE i \notin DOMAIN t /\ j \notin DOMAIN t
    <3>1. i - Len(t) = j - Len(t)
      BY <1>1, <2>5
    <3>2. i \in Int /\ j \in Int /\ Len(t) \in Int
      <4>1. u \in Seq(Letters)
        OBVIOUS
      <4> QED
        BY <4>1
    <3> QED
      BY <3>1, <3>2
  <2> QED
    BY <2>2, <2>3, <2>4, <2>5
<1>5. \A i \in DOMAIN s : \A j \in DOMAIN u : s[i].f.answer /\ Asked(p, u[j]) => s[i].seq # u[j].seq
  <2> SUFFICES ASSUME NEW i \in DOMAIN s, NEW j \in DOMAIN u, s[i].f.answer, Asked(p, u[j])
               PROVE  s[i].seq # u[j].seq
    OBVIOUS
  <2>1. CASE j \in DOMAIN t
    BY <1>1, <2>1 DEF Matched, Apart
  <2>2. CASE j \notin DOMAIN t
    BY <1>1, <1>2, <2>2
  <2> QED
    BY <2>1, <2>2
<1> QED
  BY <1>3, <1>4, <1>5 DEF Matched, Apart

(* An end takes the first letter that came to it: what it sends back are   *)
(* no requests of its own, and an answer closes no other request.          *)
LEMMA TakingMatches ==
    ASSUME NEW p, NEW s \in Seq(Letters), NEW t \in Seq(Letters), NEW o, Matched(p, s, t, o),
           s # <<>>, NEW more \in Seq(Letters), \A i \in DOMAIN more : more[i].f.answer,
           NEW t1, t1 = t \/ t1 = t \o more,
           NEW o1, o1 = o \/ (s[1].f.answer /\ o1 = o \ {Key(s[1])})
    PROVE  Matched(p, Tail(s), t1, o1)
<1> PICK s1 : s1 = Tail(s)
  OBVIOUS
<1>1. \A i \in DOMAIN s1 : i \in Nat /\ i + 1 \in DOMAIN s /\ i + 1 # 1 /\ s1[i] = s[i + 1]
  OBVIOUS
<1>2. \A j \in DOMAIN t1 : \/ j \in DOMAIN t /\ t1[j] = t[j]
                           \/ t1[j].f.answer
  <2>1. Joined(t1, t, more)
    BY JoinedLetters
  <2> QED
    BY <2>1 DEF Joined
<1>3. \A j \in DOMAIN t1 : Asked(p, t1[j]) => j \in DOMAIN t /\ t1[j] = t[j]
  BY <1>2 DEF Asked
<1>4. 1 \in DOMAIN s
  OBVIOUS
<1>5. \A i \in DOMAIN s1 : s1[i].f.answer => Key(s1[i]) \in o1
  <2> SUFFICES ASSUME NEW i \in DOMAIN s1, s1[i].f.answer PROVE Key(s1[i]) \in o1
    OBVIOUS
  <2>1. Key(s1[i]) \in o
    BY <1>1 DEF Matched, Known
  <2>2. s[1].f.answer => s1[i].seq # s[1].seq
    BY <1>1, <1>4 DEF Matched, Apart
  <2>3. s[1].f.answer => Key(s1[i]) # Key(s[1])
    BY <2>2 DEF Key
  <2> QED
    BY <2>1, <2>3
<1>6. \A j \in DOMAIN t1 : Asked(p, t1[j]) => Key(t1[j]) \in o1
  <2> SUFFICES ASSUME NEW j \in DOMAIN t1, Asked(p, t1[j]) PROVE Key(t1[j]) \in o1
    OBVIOUS
  <2>1. Key(t1[j]) \in o
    BY <1>3 DEF Matched, Known
  <2>2. s[1].f.answer => t1[j].seq # s[1].seq
    BY <1>3, <1>4 DEF Matched, Apart
  <2>3. s[1].f.answer => Key(t1[j]) # Key(s[1])
    BY <2>2 DEF Key
  <2> QED
    BY <2>1, <2>3
<1>7. Apart(p, s1, t1)
  <2>1. \A i \in DOMAIN s1 : \A j \in DOMAIN s1 :
           s1[i].f.answer /\ s1[j].f.answer /\ s1[i].seq = s1[j].seq => i = j
    <3> SUFFICES ASSUME NEW i \in DOMAIN s1, NEW j \in DOMAIN s1, s1[i].f.answer, s1[j].f.answer,
                        s1[i].seq = s1[j].seq
                 PROVE  i = j
      OBVIOUS
    <3>1. i + 1 = j + 1
      BY <1>1 DEF Matched, Apart
    <3> QED
      BY <1>1, <3>1
  <2>2. \A i \in DOMAIN t1 : \A j \in DOMAIN t1 :
           Asked(p, t1[i]) /\ Asked(p, t1[j]) /\ t1[i].seq = t1[j].seq => i = j
    BY <1>3 DEF Matched, Apart
  <2>3. \A i \in DOMAIN s1 : \A j \in DOMAIN t1 :
           s1[i].f.answer /\ Asked(p, t1[j]) => s1[i].seq # t1[j].seq
    BY <1>1, <1>3 DEF Matched, Apart
  <2> QED
    BY <2>1, <2>2, <2>3 DEF Apart
<1> QED
  BY <1>5, <1>6, <1>7 DEF Matched, Known
(* The peer takes a request and answers it by its type and number. *)
LEMMA AnsweringMatches ==
    ASSUME NEW p, NEW s \in Seq(Letters), NEW t \in Seq(Letters), NEW o, Matched(p, s, t, o),
           t # <<>>, NEW more \in Seq(Letters),
           \A i \in DOMAIN more : i = 1 /\ Asked(p, t[1]) /\ Key(more[i]) = Key(t[1]),
           NEW s1, s1 = s \/ s1 = s \o more
    PROVE  Matched(p, s1, Tail(t), o)
<1> PICK t1 : t1 = Tail(t)
  OBVIOUS
<1>1. 1 \in DOMAIN t /\ \A i \in DOMAIN t1 : i \in Nat /\ i + 1 \in DOMAIN t /\ i + 1 # 1 /\ t1[i] = t[i + 1]
  OBVIOUS
<1>2. /\ DOMAIN s = 1..Len(s) /\ Len(s) \in Nat
      /\ \A i \in DOMAIN s1 :
            \/ i \in DOMAIN s /\ s1[i] = s[i]
            \/ /\ i = Len(s) + 1 /\ i \notin DOMAIN s /\ 1 \in DOMAIN more
               /\ s1[i] = more[1]
  <2>1. DOMAIN s = 1..Len(s) /\ Len(s) \in Nat /\ DOMAIN more = 1..Len(more)
    OBVIOUS
  <2>2. CASE s1 = s
    BY <2>1, <2>2
  <2>3. CASE s1 = s \o more
    <3>1. s1 \in Seq(Letters) /\ DOMAIN s1 = 1..(Len(s) + Len(more)) /\ Len(more) \in Nat
      BY <2>3
    <3>2. ASSUME NEW i \in DOMAIN s1, i \notin DOMAIN s
          PROVE  i - Len(s) \in DOMAIN more /\ s1[i] = more[i - Len(s)] /\ i \in Nat
      BY <2>1, <2>3, <3>1, <3>2
    <3>3. \A i \in DOMAIN s : s1[i] = s[i]
      BY <2>3
    <3>4. ASSUME NEW i \in DOMAIN s1, i \notin DOMAIN s
          PROVE  i = Len(s) + 1 /\ 1 \in DOMAIN more /\ s1[i] = more[1]
      <4>1. i - Len(s) = 1 /\ i \in Nat
        BY <3>2, <3>4
      <4> QED
        BY <2>1, <3>2, <3>4, <4>1
    <3> QED
      BY <2>1, <3>3, <3>4
  <2> QED
    BY <2>2, <2>3
<1>3. 1 \in DOMAIN more => Asked(p, t[1]) /\ Key(more[1]) = Key(t[1]) /\ more[1].seq = t[1].seq
  BY DEF Key
<1>4. Known(p, s1, t1, o)
  <2>1. \A i \in DOMAIN s1 : s1[i].f.answer => Key(s1[i]) \in o
    BY <1>1, <1>2, <1>3 DEF Matched, Known
  <2>2. \A i \in DOMAIN t1 : Asked(p, t1[i]) => Key(t1[i]) \in o
    BY <1>1 DEF Matched, Known
  <2> QED
    BY <2>1, <2>2 DEF Known
<1>5. \A i \in DOMAIN s1 : \A j \in DOMAIN s1 :
         s1[i].f.answer /\ s1[j].f.answer /\ s1[i].seq = s1[j].seq => i = j
  <2> SUFFICES ASSUME NEW i \in DOMAIN s1, NEW j \in DOMAIN s1, s1[i].f.answer, s1[j].f.answer,
                      s1[i].seq = s1[j].seq
               PROVE  i = j
    OBVIOUS
  <2>1. CASE i \in DOMAIN s /\ j \in DOMAIN s
    BY <1>2, <2>1 DEF Matched, Apart
  <2>2. CASE i \notin DOMAIN s /\ j \notin DOMAIN s
    BY <1>2, <2>2
  <2>3. CASE i \in DOMAIN s /\ j \notin DOMAIN s
    <3>1. s[i].f.answer /\ s[i].seq = t[1].seq /\ Asked(p, t[1])
      BY <1>2, <1>3, <2>3
    <3> QED
      BY <1>1, <2>3, <3>1 DEF Matched, Apart
  <2>4. CASE i \notin DOMAIN s /\ j \in DOMAIN s
    <3>1. s[j].f.answer /\ s[j].seq = t[1].seq /\ Asked(p, t[1])
      BY <1>2, <1>3, <2>4
    <3> QED
      BY <1>1, <2>4, <3>1 DEF Matched, Apart
  <2> QED
    BY <2>1, <2>2, <2>3, <2>4
<1>6. \A i \in DOMAIN t1 : \A j \in DOMAIN t1 :
         Asked(p, t1[i]) /\ Asked(p, t1[j]) /\ t1[i].seq = t1[j].seq => i = j
  <2> SUFFICES ASSUME NEW i \in DOMAIN t1, NEW j \in DOMAIN t1, Asked(p, t1[i]), Asked(p, t1[j]),
                      t1[i].seq = t1[j].seq
               PROVE  i = j
    OBVIOUS
  <2>1. i + 1 = j + 1
    BY <1>1 DEF Matched, Apart
  <2> QED
    BY <1>1, <2>1
<1>7. \A i \in DOMAIN s1 : \A j \in DOMAIN t1 :
         s1[i].f.answer /\ Asked(p, t1[j]) => s1[i].seq # t1[j].seq
  <2> SUFFICES ASSUME NEW i \in DOMAIN s1, NEW j \in DOMAIN t1, s1[i].f.answer, Asked(p, t1[j])
               PROVE  s1[i].seq # t1[j].seq
    OBVIOUS
  <2>1. CASE i \in DOMAIN s
    BY <1>1, <1>2, <2>1 DEF Matched, Apart
  <2>2. CASE i \notin DOMAIN s
    <3>1. s1[i].seq = t[1].seq /\ Asked(p, t[1])
      BY <1>2, <1>3, <2>2
    <3>2. t1[j].seq # t[1].seq
      BY <1>1, <3>1 DEF Matched, Apart
    <3> QED
      BY <3>1, <3>2
  <2> QED
    BY <2>1, <2>2
<1> QED
  BY <1>4, <1>5, <1>6, <1>7 DEF Matched, Apart

(* A frame that gets an answer is one the sender keeps. *)
LEMMA AskedIsAnswered ==
    ASSUME NEW p \in Protocols, p # "SGIP", NEW l \in Letters,
           Reading(p, l.f).kind \notin {"no", "Terminate"}, ~l.f.answer,
           Receipt(p, Reading(p, l.f).kind) \in Frames
    PROVE  /\ Asked(p, l)
           /\ TypeOf[Receipt(p, Reading(p, l.f).kind)] = TypeOf[l.f]
<1> PICK f : f = l.f
  OBVIOUS
<1> DEFINE kind == Reading(p, f).kind
<1>1. f \in Frames /\ kind # "no" /\ kind # "Terminate"
  BY DEF Letters
<1>2. f.p \in Protocols /\ f.kind \in Kinds /\ (f.answer => f.kind # "Terminate")
  BY <1>1, FramesAre
<1>3. ~Reading(p, f).answer
  BY <1>2, AnswersAreSeen
<1>4. ReceiptOf(p, kind).type[1] = LayoutOf(f).type[1]
  BY <1>1, <1>3, ReceiptAnswersType
<1>5. TypeOf[f] = LayoutOf(f).type[1]
  BY <1>1, DecodedFrames
<1>6. TypeOf[Receipt(p, kind)] = ReceiptOf(p, kind).type[1]
  <2>1. LayoutOf(Receipt(p, kind)) = ReceiptOf(p, kind)
    BY Zenon DEF LayoutOf, Receipt, Frame
  <2>2. TypeOf[Receipt(p, kind)] = LayoutOf(Receipt(p, kind)).type[1]
    BY DecodedFrames
  <2> QED
    BY <2>1, <2>2
<1>7. get_type_enum(p, TypeOf[f]) # "Terminate"
  <2>1. kind = IF KindOf(p, LayoutOf(f)) = "Deliver" /\ ~Reading(p, f).answer /\ LayoutOf(f).share.report
               THEN "Report" ELSE KindOf(p, LayoutOf(f))
    BY <1>1, ReadingIs
  <2>2. KindOf(p, LayoutOf(f)) # "Terminate"
    BY <1>1, <2>1
  <2> QED
    BY <1>5, <2>2 DEF KindOf
<1> QED
  BY <1>4, <1>5, <1>6, <1>7 DEF Asked

(* The frames of a Terminate, and of nothing else, are typed as one. *)
LEMMA TerminateIsTyped ==
    ASSUME NEW p \in Protocols, p # "SGIP", NEW f \in Frames, f.p = p, ~f.answer, f.kind = "Terminate"
    PROVE  get_type_enum(p, TypeOf[f]) = "Terminate"
<1>1. LayoutOf(f) = PartOf(p, "Terminate", f.share)
  BY DEF LayoutOf
<1>2. Typed(p, "Terminate") = "Terminate" /\ "Terminate" \in Kinds
  BY DEF Typed, Kinds
<1>3. PartOf(p, "Terminate", f.share).type = <<get_type_id(p, Typed(p, "Terminate")), FALSE>>
  BY <1>2, PartTypes
<1>4. TypeOf[f] = get_type_id(p, "Terminate")
  <2>1. TypeOf[f] = LayoutOf(f).type[1]
    BY DecodedFrames
  <2> QED
    BY <1>1, <1>2, <1>3, <2>1
<1> QED
  BY <1>2, <1>4, TypesMatch
(* Requests of the peer do not matter to what an end waits for. *)
LEMMA GettingMatches ==
    ASSUME NEW p, NEW s \in Seq(Letters), NEW t, NEW o, Matched(p, s, t, o),
           NEW more \in Seq(Letters), \A i \in DOMAIN more : ~more[i].f.answer,
           NEW s1, s1 = s \/ s1 = s \o more
    PROVE  Matched(p, s1, t, o)
<1>1. \A i \in DOMAIN s1 : s1[i].f.answer => i \in DOMAIN s /\ s1[i] = s[i]
  <2>1. Joined(s1, s, more)
    BY JoinedLetters
  <2> QED
    BY <2>1 DEF Joined
<1> QED
  BY <1>1 DEF Matched, Known, Apart

LEMMA CloseMatches ==
    ASSUME AInv, NEW e \in Ends, Close(e, wire), UNCHANGED setup
    PROVE  Matching'
<1> SUFFICES ASSUME Agreed # "SGIP", NEW x \in Ends, Working(x)'
             PROVE  Matched(Agreed, wire'[x], wire'[Peer(x)], open'[x])
  BY DEF Matching, Agreed, setup
<1>1. stage \in [Ends -> Stages] /\ wire \in [Ends -> Seq(Letters)] /\ DOMAIN open = Ends
  BY DEF AInv, HInv, Shapes
<1>2. x # e /\ Working(x) /\ open'[x] = open[x]
  BY <1>1 DEF Close, Working
<1>3. \A y \in Ends : wire'[y] = wire[y] \/ wire'[y] = <<>>
  BY <1>1 DEF Close
<1>4. Matched(Agreed, wire[x], wire[Peer(x)], open[x])
  BY <1>2 DEF AInv, Matching
<1>5. Peer(x) \in Ends
  BY EndsAre
<1> QED
  BY <1>2, <1>3, <1>4, <1>5, LosingMatches

(* No end works yet, or the listener begins to, and nothing was asked. *)
LEMMA LoginMatches ==
    ASSUME AInv, Connects \/ WaitConn \/ Connected
    PROVE  Matching'
<1> USE DEF AInv
<1>1. stage \in [Ends -> Stages] /\ wire \in [Ends -> Seq(Letters)] /\ DOMAIN open = Ends
  BY DEF HInv, Shapes
<1>2. CASE Connects
  <2>1. stage["client"] = "connect" /\ ~Working("server")
    BY <1>2 DEF Connects, HInv, Handshake
  <2>2. stage' = [stage EXCEPT !["client"] = "ended"] \/ stage' = [stage EXCEPT !["client"] = "await"]
    BY <1>2 DEF Connects, Close
  <2>3. \A x \in Ends : ~Working(x)'
    BY <1>1, <2>1, <2>2 DEF Working, Ends
  <2> QED
    BY <2>3 DEF Matching
<1>3. CASE WaitConn
  <2>1. ~Working("client") /\ stage["server"] = "wait_conn"
    BY <1>3 DEF WaitConn, HInv, Handshake
  <2>2. stage'["client"] = stage["client"]
    BY <1>1, <1>3 DEF WaitConn, Close, Ends
  <2>3. ~Working("client")'
    BY <2>1, <2>2 DEF Working
  <2>4. wire'["server"] = <<>> /\ \A i \in DOMAIN wire'["client"] : wire'["client"][i].f.answer
    BY <1>3, WaitConnKeeps
  <2>5. \A p, o : Matched(p, wire'["server"], wire'["client"], o)
    BY <2>4 DEF Matched, Known, Apart, Asked
  <2> QED
    BY <2>3, <2>5 DEF Matching, Ends, Peer
<1>4. CASE Connected
  <2>1. stage["client"] = "await" /\ wire["client"] # <<>> /\ UNCHANGED setup
    BY <1>4 DEF Connected, setup
  <2>2. CASE Close("client", wire)
    BY <2>1, <2>2, CloseMatches DEF Ends
  <2>3. CASE wire' = [wire EXCEPT !["client"] = Tail(@)]
             /\ stage' = [stage EXCEPT !["client"] = "work"] /\ UNCHANGED open
    <3>1. wire'["client"] = Tail(wire["client"]) /\ wire'["server"] = <<>> /\ wire["server"] = <<>>
      BY <1>1, <2>1, <2>3 DEF HInv, Handshake, Ends
    <3>2. \A i \in DOMAIN wire["client"] : wire["client"][i].f.answer => i = 1
      BY <2>1 DEF HInv, Handshake
    <3>3. \A i \in DOMAIN Tail(wire["client"]) : ~Tail(wire["client"])[i].f.answer
      <4>1. \A s \in Seq(Letters) : s # <<>> =>
               \A i \in DOMAIN Tail(s) : i + 1 \in DOMAIN s /\ i + 1 # 1 /\ Tail(s)[i] = s[i + 1]
        OBVIOUS
      <4>2. wire["client"] \in Seq(Letters)
        BY <1>1 DEF Ends
      <4> QED
        BY <2>1, <3>2, <4>1, <4>2
    <3>4. \A p, o : Matched(p, wire'["client"], wire'["server"], o)
      BY <3>1, <3>3 DEF Matched, Known, Apart
    <3>5. ASSUME Agreed # "SGIP", Working("server")'
          PROVE  Matched(Agreed, wire'["server"], wire'["client"], open'["server"])
      <4>1. Working("server")
        BY <1>1, <2>3, <3>5 DEF Working, Ends
      <4>2. Matched(Agreed, wire["server"], wire["client"], open["server"])
        BY <3>5, <4>1 DEF Matching, Ends, Peer
      <4>3. wire["client"] \in Seq(Letters) /\ wire["server"] \in Seq(Letters) /\ <<>> \in Seq(Letters)
        BY <1>1 DEF Ends
      <4> PICK p, s, t, o, more :
             p = Agreed /\ s = wire["server"] /\ t = wire["client"] /\ o = open["server"] /\ more = <<>>
        OBVIOUS
      <4>4. /\ s \in Seq(Letters) /\ t \in Seq(Letters) /\ more \in Seq(Letters) /\ t # <<>>
            /\ Matched(p, s, t, o) /\ DOMAIN more = {}
        BY <2>1, <4>2, <4>3
      <4>5. Matched(p, s, Tail(t), o)
        BY ONLY <4>4, AnsweringMatches
      <4> QED
        BY <2>3, <3>1, <4>5
    <3> QED
      BY <2>1, <3>4, <3>5 DEF Matching, Ends, Peer, Agreed, setup
  <2> QED
    BY <1>4, <2>2, <2>3 DEF Connected
<1> QED
  BY <1>2, <1>3, <1>4

LEMMA SendMatches ==
    ASSUME AInv, NEW e \in Ends, NEW m \in Messages[e], Send(e, m)
    PROVE  Matching'
<1> DEFINE q == Peer(e)
<1> PICK fs : fs = FramesSent(e, m)
  OBVIOUS
<1> PICK more : more = LettersSent(e, m)
  OBVIOUS
<1> PICK given : given = NumbersGiven(e, m)
  OBVIOUS
<1> PICK takes : takes = Takes(protocol[e], m)
  OBVIOUS
<1>1. HInv /\ stage \in [Ends -> Stages] /\ wire \in [Ends -> Seq(Letters)] /\ DOMAIN open = Ends
  BY DEF AInv, HInv, Shapes
<1>2. /\ stage[e] = "work"
      /\ wire' = IF Ended(q) THEN wire ELSE [wire EXCEPT ![q] = @ \o more]
      /\ open' = [open EXCEPT ![e] = @ \cup
            {<<TypeOf[fs[i]], IF takes THEN numbers[e] + 1 + (i - 1) * m.dests ELSE NOSEQ>> :
                 i \in {j \in DOMAIN fs : takes /\ m.kind # "Terminate"}}]
      /\ UNCHANGED <<config, account, stage>>
  BY DEF Send, setup, Sent, FramesSent, LettersSent
<1>3. q \in Ends /\ q # e /\ Peer(q) = e /\ Ends = {e, q}
  BY EndsAre
<1>4. /\ m.dests \in Nat \ {0} /\ numbers[e] \in Nat /\ protocol[e] \in Protocols
      /\ fs \in Seq(Frames)
      /\ \A i \in DOMAIN fs : fs[i].p = protocol[e] /\ fs[i].kind = m.kind /\ ~fs[i].answer
      /\ SentRight(more, given, fs, numbers[e], m.dests, takes)
  BY <1>1, SendIs
<1>5. /\ more \in Seq(Letters) /\ DOMAIN more = DOMAIN fs
      /\ \A i \in DOMAIN fs :
            /\ more[i].f = fs[i]
            /\ takes => more[i].seq = numbers[e] + 1 + (i - 1) * m.dests
  BY <1>4 DEF SentRight
<1>6. \A i \in DOMAIN more : ~more[i].f.answer
  BY <1>4, <1>5
<1>7. wire'[e] = wire[e] /\ (wire'[q] = wire[q] \/ wire'[q] = wire[q] \o more)
      /\ wire[e] \in Seq(Letters) /\ wire[q] \in Seq(Letters)
  BY <1>1, <1>2, <1>3
<1>8. open'[q] = open[q] /\ open[e] \subseteq open'[e]
  BY <1>1, <1>2, <1>3
<1>9. protocol[e] = Agreed
  BY <1>1, <1>2 DEF HInv, Handshake, Working, Ends
<1>10. ASSUME Agreed # "SGIP", Working(q)
       PROVE  Matched(Agreed, wire'[q], wire'[e], open'[q])
  <2>1. Matched(Agreed, wire[q], wire[e], open[q])
    BY <1>3, <1>10 DEF AInv, Matching
  <2>2. Matched(Agreed, wire'[q], wire[e], open[q])
    BY <1>5, <1>6, <1>7, <2>1, GettingMatches
  <2> QED
    BY <1>7, <1>8, <2>2
<1>11. ASSUME Agreed # "SGIP"
       PROVE  Matched(Agreed, wire'[e], wire'[q], open'[e])
  <2> PICK n, d : n = numbers[e] /\ d = m.dests
    OBVIOUS
  <2>1. Matched(Agreed, wire[e], wire[q], open[e])
    BY <1>2, <1>11 DEF AInv, Matching, Working
  <2>2. /\ \A i \in DOMAIN wire[e] : wire[e][i].f.answer => wire[e][i].seq \in 1..n \cup {NOSEQ}
        /\ \A i \in DOMAIN wire[q] : ~wire[q][i].f.answer => wire[q][i].seq \in 1..n \cup {NOSEQ}
    BY <1>1, <1>3 DEF HInv, Shapes, TypeOK, Numbered
  <2>3. n \in Nat /\ d \in Nat \ {0} /\ takes
    BY <1>4, <1>9, <1>11 DEF Takes
  <2>4. \A i \in DOMAIN more : /\ i \in Nat \ {0} /\ more[i].seq = n + 1 + (i - 1) * d
                               /\ more[i].seq \in Nat /\ more[i].seq > n
    <3> SUFFICES ASSUME NEW i \in DOMAIN more
                 PROVE  /\ i \in Nat \ {0} /\ more[i].seq = n + 1 + (i - 1) * d
                        /\ more[i].seq \in Nat /\ more[i].seq > n
      OBVIOUS
    <3>1. i \in Nat \ {0}
      BY <1>5
    <3>2. more[i].seq = n + 1 + (i - 1) * d
      BY <1>5, <2>3
    <3>3. i - 1 \in Nat /\ d \in Nat
      BY <2>3, <3>1
    <3>4. (i - 1) * d \in Nat
      BY ONLY <3>3
    <3> QED
      BY <2>3, <3>1, <3>2, <3>4
  <2>5. \A i \in DOMAIN more : \A j \in DOMAIN more : more[i].seq = more[j].seq => i = j
    <3> SUFFICES ASSUME NEW i \in DOMAIN more, NEW j \in DOMAIN more, more[i].seq = more[j].seq
                 PROVE  i = j
      OBVIOUS
    <3>1. i \in Nat /\ j \in Nat /\ n + 1 + (i - 1) * d = n + 1 + (j - 1) * d
      BY <2>4
    <3> QED
      BY ONLY <2>3, <3>1
  <2>6. \A i \in DOMAIN more : Asked(Agreed, more[i]) => Key(more[i]) \in open'[e]
    <3> SUFFICES ASSUME NEW i \in DOMAIN more, Asked(Agreed, more[i])
                 PROVE  Key(more[i]) \in open'[e]
      OBVIOUS
    <3>1. more[i].f = fs[i] /\ fs[i] \in Frames /\ fs[i].p = Agreed /\ ~fs[i].answer /\ i \in DOMAIN fs
      BY <1>4, <1>5, <1>9
    <3>2. m.kind # "Terminate"
      <4>1. fs[i].kind = m.kind /\ Agreed \in Protocols
        BY <1>4, <1>5, <1>9
      <4>2. SUFFICES ASSUME fs[i].kind = "Terminate" PROVE FALSE
        BY <4>1
      <4>3. get_type_enum(Agreed, TypeOf[fs[i]]) = "Terminate"
        BY <1>11, <3>1, <4>1, <4>2, TerminateIsTyped
      <4> QED
        BY <3>1, <4>3 DEF Asked
    <3>3. <<TypeOf[fs[i]], numbers[e] + 1 + (i - 1) * m.dests>> \in open'[e]
      BY <1>1, <1>2, <2>3, <3>1, <3>2
    <3>4. Key(more[i]) = <<TypeOf[fs[i]], numbers[e] + 1 + (i - 1) * m.dests>>
      BY <1>5, <2>3, <3>1 DEF Key
    <3> QED
      BY <3>3, <3>4
  <2>7. Matched(Agreed, wire[e], wire[q] \o more, open'[e])
    <3>1. Used(wire[e], wire[q], n)
      BY <2>2 DEF Used
    <3>2. Fresh(Agreed, more, n, open'[e])
      BY <2>4, <2>5, <2>6 DEF Fresh
    <3> PICK p, s, t, o, o1 :
           p = Agreed /\ s = wire[e] /\ t = wire[q] /\ o = open[e] /\ o1 = open'[e]
      OBVIOUS
    <3>3. /\ s \in Seq(Letters) /\ t \in Seq(Letters) /\ more \in Seq(Letters) /\ n \in Nat
          /\ Matched(p, s, t, o) /\ o \subseteq o1 /\ Used(s, t, n) /\ Fresh(p, more, n, o1)
      BY <1>5, <1>7, <1>8, <2>1, <2>3, <3>1, <3>2
    <3>4. Matched(p, s, t \o more, o1)
      BY ONLY <3>3, SendingMatches
    <3> QED
      BY <3>4
  <2>8. Matched(Agreed, wire[e], wire[q], open'[e])
    BY <1>8, <2>1 DEF Matched, Known
  <2> QED
    BY <1>7, <2>7, <2>8
<1>12. Agreed' = Agreed /\ \A x \in Ends : Working(x)' = Working(x)
  BY <1>2 DEF Agreed, Working
<1> QED
  BY <1>3, <1>10, <1>11, <1>12 DEF Matching
LEMMA ReceiveMatches ==
    ASSUME AInv, NEW e \in Ends, Receive(e)
    PROVE  Matching'
<1> DEFINE q == Peer(e)
<1> PICK l : l = Head(wire[e])
  OBVIOUS
<1> PICK r : r = Reading(codec[e], l.f)
  OBVIOUS
<1>1. HInv /\ stage \in [Ends -> Stages] /\ wire \in [Ends -> Seq(Letters)] /\ DOMAIN open = Ends
      /\ codec[e] \in Protocols
  BY DEF AInv, HInv, Shapes, TypeOK
<1>2. /\ Working(e) /\ wire[e] # <<>> /\ wire[e] \in Seq(Letters)
      /\ l = wire[e][1] /\ l \in Letters /\ decode(e, l) = r /\ r.kind # "no"
      /\ Settled(e, l) /\ stage'[q] = stage[q]
      /\ UNCHANGED <<config, account, protocol, codec>>
      /\ wire' \in [Ends -> Seq(Letters)] /\ wire'[e] = Tail(wire[e])
  BY <1>1, ReceiveIs
<1>3. PICK answers \in Seq(Letters) :
         /\ wire'[q] = wire[q] \/ wire'[q] = wire[q] \o answers
         /\ AnswersRight(e, l, answers, r.kind, protocol[e], AnswerSeq(protocol[e], l), 0)
  BY <1>1, ReceiveIs
<1>4. q \in Ends /\ q # e /\ Peer(q) = e /\ Ends = {e, q}
  BY EndsAre
<1>5. protocol[e] = Agreed /\ codec[e] = Agreed
  BY <1>1, <1>2 DEF HInv, Handshake, Ends
<1>6. r.answer => l.f.answer /\ r.type = TypeOf[l.f]
  <2>1. l.f \in Frames
    BY <1>2 DEF Letters
  <2>2. l.f.p \in Protocols /\ l.f.kind \in Kinds /\ (l.f.answer => l.f.kind # "Terminate")
    BY <2>1, FramesAre
  <2>3. r.answer => l.f.answer
    BY <1>1, <2>2, AnswersAreSeen
  <2>4. r.type = LayoutOf(l.f).type[1]
    BY <1>1, <1>2, ReadingIs
  <2>5. TypeOf[l.f] = LayoutOf(l.f).type[1]
    BY <1>1, <2>1, DecodedFrames
  <2> QED
    BY <2>3, <2>4, <2>5
<1>7. \A i \in DOMAIN answers :
         /\ i = 1 /\ answers[i].f.answer /\ answers[i].f = Receipt(protocol[e], r.kind)
         /\ answers[i].seq = AnswerSeq(protocol[e], l)
         /\ ~l.f.answer /\ r.kind # "Terminate"
  <2> SUFFICES ASSUME NEW i \in DOMAIN answers
               PROVE  /\ i = 1 /\ answers[i].f.answer /\ answers[i].f = Receipt(protocol[e], r.kind)
                      /\ answers[i].seq = AnswerSeq(protocol[e], l)
                      /\ ~l.f.answer /\ r.kind # "Terminate"
    OBVIOUS
  <2>1. answers # <<>>
    OBVIOUS
  <2> QED
    BY <1>3, <2>1 DEF AnswersRight
<1>8. wire[q] \in Seq(Letters)
  BY <1>1, <1>4
<1>9. ASSUME Agreed # "SGIP"
      PROVE  Matched(Agreed, wire'[e], wire'[q], open'[e])
  <2> PICK p, s, t, o, t1, o1 :
         /\ p = Agreed /\ s = wire[e] /\ t = wire[q] /\ o = open[e]
         /\ t1 = wire'[q] /\ o1 = open'[e]
    OBVIOUS
  <2>1. o1 = o \/ (s[1].f.answer /\ o1 = o \ {Key(s[1])})
    <3>1. o1 = IF r.answer THEN o \ {<<r.type, l.seq>>} ELSE o
      BY <1>1, <1>2 DEF Settled
    <3>2. r.answer => s[1].f.answer /\ Key(s[1]) = <<r.type, l.seq>>
      BY <1>2, <1>6 DEF Key
    <3> QED
      BY <3>1, <3>2
  <2>2. /\ s \in Seq(Letters) /\ t \in Seq(Letters) /\ Matched(p, s, t, o) /\ s # <<>>
        /\ answers \in Seq(Letters) /\ (t1 = t \/ t1 = t \o answers)
        /\ \A i \in DOMAIN answers : answers[i].f.answer
    BY <1>2, <1>3, <1>7, <1>8, <1>9 DEF AInv, Matching
  <2>3. Matched(p, Tail(s), t1, o1)
    BY ONLY <2>1, <2>2, TakingMatches
  <2> QED
    BY <1>2, <2>3
<1>10. ASSUME Agreed # "SGIP", Working(q)
       PROVE  Matched(Agreed, wire'[q], wire'[e], open'[q])
  <2> PICK p, s, t, o, s1 :
         p = Agreed /\ s = wire[q] /\ t = wire[e] /\ o = open[q] /\ s1 = wire'[q]
    OBVIOUS
  <2>1. \A i \in DOMAIN answers : i = 1 /\ Asked(p, t[1]) /\ Key(answers[i]) = Key(t[1])
    <3> SUFFICES ASSUME NEW i \in DOMAIN answers
                 PROVE  i = 1 /\ Asked(p, t[1]) /\ Key(answers[i]) = Key(t[1])
      OBVIOUS
    <3>1. /\ i = 1 /\ answers[i].f = Receipt(p, r.kind) /\ answers[i].seq = l.seq
          /\ ~l.f.answer /\ r.kind # "Terminate"
      BY <1>5, <1>7, <1>10 DEF AnswerSeq
    <3>2. Receipt(p, r.kind) \in Frames
      <4>1. answers[i] \in Letters
        BY <1>3
      <4> QED
        BY <3>1, <4>1 DEF Letters
    <3>3. r = Reading(p, l.f) /\ p \in Protocols /\ p # "SGIP"
      BY <1>1, <1>5, <1>10
    <3>4. Asked(p, l) /\ TypeOf[Receipt(p, r.kind)] = TypeOf[l.f]
      BY <1>2, <3>1, <3>2, <3>3, AskedIsAnswered
    <3> QED
      BY <1>2, <3>1, <3>4 DEF Key
  <2>2. /\ s \in Seq(Letters) /\ t \in Seq(Letters) /\ Matched(p, s, t, o) /\ t # <<>>
        /\ answers \in Seq(Letters) /\ (s1 = s \/ s1 = s \o answers)
    BY <1>2, <1>3, <1>4, <1>8, <1>10 DEF AInv, Matching
  <2>3. Matched(p, s1, Tail(t), o)
    BY ONLY <2>1, <2>2, AnsweringMatches
  <2>4. open'[q] = open[q]
    BY <1>1, <1>2, <1>4 DEF Settled
  <2> QED
    BY <1>2, <2>3, <2>4
<1>11. Agreed' = Agreed /\ (Working(q)' => Working(q))
  BY <1>2 DEF Agreed, Working
<1> QED
  BY <1>4, <1>9, <1>10, <1>11 DEF Matching

LEMMA AnswersKeep == AInv /\ [Next]_vars => AInv'
<1> SUFFICES ASSUME AInv, [Next]_vars PROVE Matching'
  BY HInvKeeps DEF AInv
<1>1. CASE Connects \/ WaitConn \/ Connected
  BY <1>1, LoginMatches
<1>2. CASE WaitTimeout
  BY <1>2, CloseMatches DEF WaitTimeout, Ends
<1>3. CASE \E e \in Ends : \E m \in Messages[e] : Send(e, m)
  BY <1>3, SendMatches
<1>4. CASE \E e \in Ends : Receive(e)
  BY <1>4, ReceiveMatches
<1>5. CASE \E e \in Ends : ReceiveBad(e) \/ Leave(e) \/ LetGo(e) \/ PeerGone(e) \/ HeartbeatMissed(e)
  <2>1. PICK e \in Ends : ReceiveBad(e) \/ Leave(e) \/ LetGo(e) \/ PeerGone(e) \/ HeartbeatMissed(e)
    BY <1>5
  <2>2. Close(e, wire) /\ UNCHANGED setup
    BY <2>1 DEF ReceiveBad, Leave, LetGo, PeerGone, HeartbeatMissed
  <2> QED
    BY <2>2, CloseMatches
<1>6. CASE UNCHANGED vars
  BY <1>6 DEF AInv, Matching, Working, Agreed, vars
<1> QED
  BY <1>1, <1>2, <1>3, <1>4, <1>5, <1>6 DEF Next

LEMMA MatchingFinds == AInv => AnswerFindsItsMessage
<1> SUFFICES ASSUME AInv, NEW e \in Ends, Listens(e), codec[e] # "SGIP",
                    decode(e, Head(wire[e])).answer
             PROVE  <<decode(e, Head(wire[e])).type, Head(wire[e]).seq>> \in open[e]
  BY DEF AnswerFindsItsMessage
<1> PICK l : l = Head(wire[e])
  OBVIOUS
<1>1. Working(e) /\ wire[e] # <<>> /\ wire[e] \in Seq(Letters) /\ codec[e] \in Protocols
  BY DEF AInv, HInv, Shapes, TypeOK, Listens
<1>2. l = wire[e][1] /\ 1 \in DOMAIN wire[e] /\ l \in Letters
  <2>1. \A s \in Seq(Letters) : s # <<>> => Head(s) = s[1] /\ 1 \in DOMAIN s /\ s[1] \in Letters
    OBVIOUS
  <2> QED
    BY <1>1, <2>1
<1>3. codec[e] = Agreed
  BY <1>1 DEF AInv, HInv, Handshake, Ends
<1>4. l.f \in Frames
  BY <1>2 DEF Letters
<1>5. decode(e, l) = Reading(codec[e], l.f) /\ TypeOf[l.f] = LayoutOf(l.f).type[1]
  BY <1>1, <1>4, DecodedFrames DEF decode
<1>6. l.f.answer
  <2>1. l.f.p \in Protocols /\ l.f.kind \in Kinds /\ (l.f.answer => l.f.kind # "Terminate")
    BY <1>4, FramesAre
  <2> QED
    BY <1>1, <1>5, <2>1, AnswersAreSeen
<1>7. decode(e, l).type = TypeOf[l.f]
  <2>1. Decodes(codec[e], LayoutOf(l.f))
    BY <1>5 DEF Reading
  <2> QED
    BY <1>5, <2>1 DEF Reading
<1>8. Key(wire[e][1]) \in open[e]
  BY <1>1, <1>2, <1>3, <1>6 DEF AInv, Matching, Matched, Known
<1> QED
  BY <1>2, <1>7, <1>8 DEF Key

(* Save in SGIP, an answer that is read bears the type and the number of a *)
(* frame the end sent and nothing answered yet: a number is given once,    *)
(* the receipt takes over that of the request, and a Terminate has none.   *)
THEOREM AnswersFindTheirMessage == Spec => []AnswerFindsItsMessage
<1>1. Init => AInv
  <2>1. Init => Matching
    BY DEF Init, Matching, Working, Ends
  <2> QED
    BY <2>1, InitShapes DEF AInv
<1>2. AInv /\ [Next]_vars => AInv'
  BY AnswersKeep
<1>3. AInv => AnswerFindsItsMessage
  BY MatchingFinds
<1> QED
  BY <1>1, <1>2, <1>3, PTL DEF Spec

(***************************************************************************)
(* Frames and the codecs that meet them                                    *)
(***************************************************************************)

(* Whatever is on a wire was written by the protocol both come to, but for *)
(* a login's refusal, written by the listener's; the heartbeat of SGIP,    *)
(* which is a Submit, is never answered as a heartbeat; and the listener   *)
(* that still waits for a login finds nothing but a login.                 *)
Carried(f) ==
    /\ f.p = Agreed \/ (f.kind = "Connect" /\ f.p = FromName(config.name))
    /\ ~(f.answer /\ f.p = "SGIP" /\ f.kind = "ActiveTest")
Carrying ==
    /\ \A e \in Ends : \A i \in DOMAIN wire[e] : Carried(wire[e][i].f)
    /\ stage["server"] = "wait_conn" =>
          \A i \in DOMAIN wire["server"] : wire["server"][i].f.kind = "Connect"
CInv == HInv /\ Carrying

(* A step that writes nothing else, and writes nothing to a listener that  *)
(* still waits.                                                            *)
LEMMA CarryingOn ==
    ASSUME Carrying, config' = config,
           \A e \in Ends : \A i \in DOMAIN wire'[e] :
              (\E j \in DOMAIN wire[e] : wire'[e][i] = wire[e][j]) \/ Carried(wire'[e][i].f),
           stage'["server"] = "wait_conn" =>
              /\ stage["server"] = "wait_conn"
              /\ \A i \in DOMAIN wire'["server"] :
                    \E j \in DOMAIN wire["server"] : wire'["server"][i] = wire["server"][j]
    PROVE  Carrying'
<1>1. Agreed' = Agreed
  BY DEF Agreed
<1>2. \A e \in Ends : \A i \in DOMAIN wire'[e] : Carried(wire'[e][i].f)
  BY DEF Carrying
<1>3. (\A e \in Ends : \A i \in DOMAIN wire[e] : Carried(wire[e][i].f))'
  BY <1>1, <1>2 DEF Carried
<1>4. stage'["server"] = "wait_conn" =>
         \A i \in DOMAIN wire'["server"] : wire'["server"][i].f.kind = "Connect"
  BY DEF Carrying
<1> QED
  BY <1>3, <1>4 DEF Carrying

LEMMA CloseCarries ==
    ASSUME CInv, NEW e \in Ends, Close(e, wire), UNCHANGED setup
    PROVE  Carrying'
<1>1. stage \in [Ends -> Stages] /\ wire \in [Ends -> Seq(Letters)]
  BY DEF CInv, HInv, Shapes
<1>2. \A y \in Ends : wire'[y] = wire[y] \/ wire'[y] = <<>>
  BY <1>1 DEF Close
<1>3. \A x \in Ends : \A i \in DOMAIN wire'[x] : \E j \in DOMAIN wire[x] : wire'[x][i] = wire[x][j]
  BY <1>2
<1>4. stage'["server"] = "wait_conn" => stage["server"] = "wait_conn"
  BY <1>1 DEF Close, Ends
<1>5. config' = config /\ "server" \in Ends
  BY DEF setup, Ends
<1> QED
  BY <1>3, <1>4, <1>5, CarryingOn DEF CInv

LEMMA LoginCarries ==
    ASSUME CInv, Connects \/ WaitConn \/ Connected
    PROVE  Carrying'
<1> USE DEF CInv
<1>1. stage \in [Ends -> Stages] /\ wire \in [Ends -> Seq(Letters)]
  BY DEF HInv, Shapes
<1>2. CASE Connects
  <2>1. config' = config /\ Agreed' = Agreed
    BY <1>2 DEF Connects, setup, Agreed
  <2>2. LoginFrame.p = Agreed /\ LoginFrame.kind = "Connect" /\ ~LoginFrame.answer
    BY DEF LoginFrame, Frame
  <2>3. \A e \in Ends : \A i \in DOMAIN wire'[e] : wire'[e][i].f = LoginFrame
    BY <1>2, ConnectsKeeps
  <2>4. \A e \in Ends : \A i \in DOMAIN wire'[e] :
           /\ wire'[e][i].f.p = Agreed' /\ wire'[e][i].f.kind = "Connect" /\ ~wire'[e][i].f.answer
    BY <2>1, <2>2, <2>3
  <2> QED
    BY <2>4 DEF Carrying, Carried, Ends
<1>3. CASE WaitConn
  <2>1. config' = config /\ Agreed' = Agreed
    BY <1>3 DEF WaitConn, setup, Agreed
  <2>2. wire'["server"] = <<>>
        /\ \A i \in DOMAIN wire'["client"] : \E q \in {Agreed, FromName(config.name)} :
              wire'["client"][i].f = Receipt(q, "Connect")
    BY <1>3, WaitConnKeeps
  <2>3. \A q : Receipt(q, "Connect").p = q /\ Receipt(q, "Connect").kind = "Connect"
    BY DEF Receipt, Frame
  <2>4. \A i \in DOMAIN wire'["client"] :
           /\ wire'["client"][i].f.kind = "Connect"
           /\ wire'["client"][i].f.p \in {Agreed', FromName(config'.name)}
    BY <2>1, <2>2, <2>3
  <2>5. (\A i \in DOMAIN wire["client"] : Carried(wire["client"][i].f))'
    BY <2>4 DEF Carried
  <2>6. (\A i \in DOMAIN wire["server"] : Carried(wire["server"][i].f) /\ wire["server"][i].f.kind = "Connect")'
    BY <2>2
  <2>7. (\A e \in Ends : \A i \in DOMAIN wire[e] : Carried(wire[e][i].f))'
    BY <2>5, <2>6 DEF Ends
  <2> QED
    BY <2>6, <2>7 DEF Carrying
<1>4. CASE Connected
  <2>1. stage["client"] = "await" /\ wire["client"] # <<>> /\ UNCHANGED setup
    BY <1>4 DEF Connected, setup
  <2>2. CASE Close("client", wire)
    BY <2>1, <2>2, CloseCarries DEF Ends
  <2>3. CASE wire' = [wire EXCEPT !["client"] = Tail(@)]
             /\ stage' = [stage EXCEPT !["client"] = "work"]
    <3>1. wire'["client"] = Tail(wire["client"]) /\ wire'["server"] = wire["server"]
          /\ stage'["server"] = stage["server"] /\ config' = config
      BY <1>1, <2>1, <2>3 DEF Ends, setup
    <3>2. \A i \in DOMAIN Tail(wire["client"]) :
             \E j \in DOMAIN wire["client"] : Tail(wire["client"])[i] = wire["client"][j]
      <4>1. \A s \in Seq(Letters) : s # <<>> =>
               \A i \in DOMAIN Tail(s) : i + 1 \in DOMAIN s /\ Tail(s)[i] = s[i + 1]
        OBVIOUS
      <4>2. wire["client"] \in Seq(Letters)
        BY <1>1 DEF Ends
      <4> QED
        BY <2>1, <4>1, <4>2
    <3>3. \A x \in Ends : \A i \in DOMAIN wire'[x] : \E j \in DOMAIN wire[x] : wire'[x][i] = wire[x][j]
      <4>1. \A i \in DOMAIN wire'["client"] :
               \E j \in DOMAIN wire["client"] : wire'["client"][i] = wire["client"][j]
        BY <3>1, <3>2
      <4>2. \A i \in DOMAIN wire'["server"] :
               \E j \in DOMAIN wire["server"] : wire'["server"][i] = wire["server"][j]
        BY <3>1
      <4> QED
        BY ONLY <4>1, <4>2 DEF Ends
    <3> QED
      BY <3>1, <3>3, CarryingOn DEF Ends
  <2> QED
    BY <1>4, <2>2, <2>3 DEF Connected
<1> QED
  BY <1>2, <1>3, <1>4

(* An end that works finds a listener that works or has ended. *)
LEMMA WorkIsAfterLogin ==
    ASSUME HInv, NEW e \in Ends, Working(e)
    PROVE  /\ protocol[e] = Agreed /\ codec[e] = Agreed
           /\ stage["server"] # "wait_conn"
BY DEF HInv, Handshake, Ends, Working

(* What an end at work writes is its own protocol's. *)
LEMMA WritingCarries ==
    ASSUME CInv, NEW e \in Ends, Working(e), config' = config,
           wire' \in [Ends -> Seq(Letters)], stage'["server"] # "wait_conn",
           wire'[e] = wire[e] \/ (wire[e] # <<>> /\ wire'[e] = Tail(wire[e])),
           NEW more \in Seq(Letters),
           wire'[Peer(e)] = wire[Peer(e)] \/ wire'[Peer(e)] = wire[Peer(e)] \o more,
           \A i \in DOMAIN more : Carried(more[i].f)
    PROVE  Carrying'
<1> DEFINE q == Peer(e)
<1>1. q \in Ends /\ q # e /\ Peer(q) = e /\ Ends = {e, q}
  BY EndsAre
<1>2. wire[e] \in Seq(Letters) /\ wire[q] \in Seq(Letters)
  BY <1>1 DEF CInv, HInv, Shapes
<1>3. \A i \in DOMAIN wire'[q] :
         (\E j \in DOMAIN wire[q] : wire'[q][i] = wire[q][j]) \/ Carried(wire'[q][i].f)
  <2>1. Joined(wire'[q], wire[q], more)
    BY <1>2, JoinedLetters
  <2> QED
    BY <2>1 DEF Joined
<1>4. \A i \in DOMAIN wire'[e] : \E j \in DOMAIN wire[e] : wire'[e][i] = wire[e][j]
  <2>1. \A s \in Seq(Letters) : s # <<>> =>
           \A i \in DOMAIN Tail(s) : i + 1 \in DOMAIN s /\ Tail(s)[i] = s[i + 1]
    OBVIOUS
  <2> QED
    BY <1>2, <2>1
<1>5. \A x \in Ends : \A i \in DOMAIN wire'[x] :
         (\E j \in DOMAIN wire[x] : wire'[x][i] = wire[x][j]) \/ Carried(wire'[x][i].f)
  <2> SUFFICES ASSUME NEW x \in Ends, NEW i \in DOMAIN wire'[x]
               PROVE  (\E j \in DOMAIN wire[x] : wire'[x][i] = wire[x][j]) \/ Carried(wire'[x][i].f)
    OBVIOUS
  <2>1. CASE x = e
    BY <1>4, <2>1
  <2>2. CASE x = q
    BY <1>3, <2>2
  <2> QED
    BY <1>1, <2>1, <2>2
<1> QED
  BY <1>5, CarryingOn DEF CInv

LEMMA SendCarries ==
    ASSUME CInv, NEW e \in Ends, NEW m \in Messages[e], Send(e, m)
    PROVE  Carrying'
<1> DEFINE q == Peer(e)
<1> PICK fs : fs = FramesSent(e, m)
  OBVIOUS
<1> PICK more : more = LettersSent(e, m)
  OBVIOUS
<1>1. /\ stage[e] = "work" /\ UNCHANGED <<config, stage>>
      /\ wire' = IF Ended(q) THEN wire ELSE [wire EXCEPT ![q] = @ \o more]
  BY DEF Send, setup, Sent, FramesSent, LettersSent
<1>2. HInv /\ wire \in [Ends -> Seq(Letters)]
  BY DEF CInv, HInv, Shapes
<1>3. /\ fs \in Seq(Frames) /\ \A i \in DOMAIN fs : fs[i].p = protocol[e] /\ ~fs[i].answer
      /\ more \in Seq(Letters) /\ DOMAIN more = DOMAIN fs
      /\ \A i \in DOMAIN fs : more[i].f = fs[i]
  <2>1. SentRight(more, NumbersGiven(e, m), fs, numbers[e], m.dests, Takes(protocol[e], m))
    BY <1>2, SendIs
  <2> QED
    BY <1>2, <2>1, SendIs DEF SentRight
<1>4. q \in Ends /\ q # e
  BY EndsAre
<1>5. /\ wire' \in [Ends -> Seq(Letters)] /\ wire'[e] = wire[e]
      /\ wire'[q] = wire[q] \/ wire'[q] = wire[q] \o more
  BY <1>1, <1>2, <1>3, <1>4
<1>6. Working(e) /\ protocol[e] = Agreed /\ stage'["server"] # "wait_conn"
  BY <1>1, <1>2, WorkIsAfterLogin DEF Working
<1>7. \A i \in DOMAIN more : Carried(more[i].f)
  BY <1>3, <1>6 DEF Carried
<1> QED
  BY <1>1, <1>3, <1>5, <1>6, <1>7, WritingCarries

LEMMA ReceiveCarries ==
    ASSUME CInv, NEW e \in Ends, Receive(e)
    PROVE  Carrying'
<1> DEFINE q == Peer(e)
<1> PICK l : l = Head(wire[e])
  OBVIOUS
<1> PICK r : r = Reading(codec[e], l.f)
  OBVIOUS
<1>1. HInv /\ Carrying
  BY DEF CInv
<1>2. /\ Working(e) /\ wire[e] # <<>> /\ wire[e] \in Seq(Letters)
      /\ l = wire[e][1] /\ l \in Letters /\ r.kind # "no"
      /\ Working(e)' /\ stage'[q] = stage[q] /\ config' = config
      /\ wire' \in [Ends -> Seq(Letters)] /\ wire'[e] = Tail(wire[e])
  BY <1>1, ReceiveIs
<1>3. PICK answers \in Seq(Letters) :
         /\ wire'[q] = wire[q] \/ wire'[q] = wire[q] \o answers
         /\ AnswersRight(e, l, answers, r.kind, protocol[e], AnswerSeq(protocol[e], l), 0)
  BY <1>1, ReceiveIs
<1>4. protocol[e] = Agreed /\ codec[e] = Agreed /\ stage["server"] # "wait_conn"
  BY <1>1, <1>2, WorkIsAfterLogin
<1>5. stage'["server"] # "wait_conn"
  <2>1. CASE e = "server"
    BY <1>2, <2>1 DEF Working
  <2>2. CASE e = "client"
    BY <1>2, <1>4, <2>2 DEF Peer
  <2> QED
    BY <2>1, <2>2 DEF Ends
<1>6. 1 \in DOMAIN wire[e] /\ l.f \in Frames
  BY <1>2 DEF Letters
<1>7. l.f.kind \in Kinds
  BY <1>6, FramesAre
<1>8. Carried(l.f)
  BY <1>1, <1>2, <1>6 DEF Carrying
<1>9. Agreed = "SGIP" /\ ~l.f.answer => r.kind # "ActiveTest"
  <2> SUFFICES ASSUME Agreed = "SGIP", ~l.f.answer PROVE r.kind # "ActiveTest"
    OBVIOUS
  <2>1. config.name = "SGIP"
    BY <1>1, ProtocolsKnown DEF Agreed, HInv, Shapes, TypeOK, Parse, Cmpp
  <2>2. l.f.p = "SGIP"
    BY <1>8, <2>1 DEF Carried, FromName
  <2>3. r = Reading("SGIP", l.f)
    BY <1>4
  <2> QED
    BY <1>2, <1>7, <2>2, <2>3, HeartbeatIsSubmit
<1>10. \A i \in DOMAIN answers : Carried(answers[i].f)
  <2> SUFFICES ASSUME NEW i \in DOMAIN answers PROVE Carried(answers[i].f)
    OBVIOUS
  <2>1. answers # <<>>
    OBVIOUS
  <2>2. ~l.f.answer /\ answers[i].f = Receipt(Agreed, r.kind)
    BY <1>3, <1>4, <2>1 DEF AnswersRight
  <2>3. answers[i].f.p = Agreed /\ answers[i].f.kind = r.kind
    BY <2>2 DEF Receipt, Frame
  <2> QED
    BY <1>9, <2>2, <2>3 DEF Carried
<1> QED
  BY <1>2, <1>3, <1>5, <1>10, WritingCarries

LEMMA CarryingKeeps == CInv /\ [Next]_vars => CInv'
<1> SUFFICES ASSUME CInv, [Next]_vars PROVE Carrying'
  BY HInvKeeps DEF CInv
<1>1. CASE Connects \/ WaitConn \/ Connected
  BY <1>1, LoginCarries
<1>2. CASE WaitTimeout
  BY <1>2, CloseCarries DEF WaitTimeout, Ends
<1>3. CASE \E e \in Ends : \E m \in Messages[e] : Send(e, m)
  BY <1>3, SendCarries
<1>4. CASE \E e \in Ends : Receive(e)
  BY <1>4, ReceiveCarries
<1>5. CASE \E e \in Ends : ReceiveBad(e) \/ Leave(e) \/ LetGo(e) \/ PeerGone(e) \/ HeartbeatMissed(e)
  <2>1. PICK e \in Ends : ReceiveBad(e) \/ Leave(e) \/ LetGo(e) \/ PeerGone(e) \/ HeartbeatMissed(e)
    BY <1>5
  <2>2. Close(e, wire) /\ UNCHANGED setup
    BY <2>1 DEF ReceiveBad, Leave, LetGo, PeerGone, HeartbeatMissed
  <2> QED
    BY <2>2, CloseCarries
<1>6. CASE UNCHANGED vars
  <2>1. UNCHANGED <<config, stage, wire>>
    BY <1>6 DEF vars
  <2> QED
    BY <2>1, CarryingOn DEF CInv, Ends
<1> QED
  BY <1>1, <1>2, <1>3, <1>4, <1>5, <1>6 DEF Next

(* The codec that reads a frame is the one that wrote it, or one of its    *)
(* family that reads a login or the answer to one.                         *)
LEMMA CodecsMeet ==
    ASSUME CInv, NEW e \in Ends, ~Ended(e), NEW i \in DOMAIN wire[e]
    PROVE  LET f == wire[e][i].f
           IN f.p = codec[e] \/ (f.kind = "Connect" /\ Speaks(f.p, codec[e]))
<1> DEFINE f == wire[e][i].f
           listens == FromName(config.name)
<1>1. config \in Configs /\ HInv /\ Carrying
  BY DEF CInv, HInv, Shapes, TypeOK
<1>2. Speaks(Agreed, listens) /\ Speaks(listens, Agreed)
  BY <1>1, ConfigsAssumption DEF Speaks, Agreed, get_protocol, FromName, Cmpp
<1>3. f.p = Agreed \/ (f.kind = "Connect" /\ f.p = listens)
  BY <1>1 DEF Carrying, Carried
<1>4. CASE codec[e] = Agreed
  BY <1>2, <1>3, <1>4
<1>5. CASE codec[e] # Agreed
  <2>1. e = "server"
    BY <1>1, <1>5 DEF HInv, Handshake, Ends
  <2>2. stage[e] = "wait_conn"
    BY <1>1, <1>5, <2>1 DEF HInv, Handshake, Shapes, TypeOK, Working, Ended
  <2>3. codec[e] = listens /\ f.kind = "Connect"
    BY <1>1, <2>1, <2>2 DEF HInv, Handshake, Carrying
  <2> QED
    BY <1>2, <1>3, <2>3 DEF Speaks
<1> QED
  BY <1>4, <1>5

LEMMA CarryingUnderstood == CInv => FramesUnderstood
<1> SUFFICES ASSUME CInv, NEW e \in Ends, ~Ended(e), wire[e] # <<>>
             PROVE  \/ /\ decode(e, Head(wire[e])).kind # "no"
                       /\ decode(e, Head(wire[e])).understood
                    \/ Misread(codec[e], Head(wire[e]).f)
  BY DEF FramesUnderstood
<1> PICK l : l = Head(wire[e])
  OBVIOUS
<1> PICK f, q : f = l.f /\ q = codec[e]
  OBVIOUS
<1>1. HInv /\ Carrying /\ wire[e] \in Seq(Letters) /\ q \in Protocols
  BY DEF CInv, HInv, Shapes, TypeOK
<1>2. l = wire[e][1] /\ 1 \in DOMAIN wire[e] /\ l \in Letters
  <2>1. \A s \in Seq(Letters) : s # <<>> => Head(s) = s[1] /\ 1 \in DOMAIN s /\ s[1] \in Letters
    OBVIOUS
  <2> QED
    BY <1>1, <2>1
<1>3. f \in Frames /\ decode(e, l) = Reading(q, f)
  <2>1. f \in Frames
    BY <1>2 DEF Letters
  <2> QED
    BY <1>1, <2>1, DecodedFrames DEF decode
<1>4. Carried(f)
  BY <1>1, <1>2 DEF Carrying
<1>5. Written(f)
  BY <1>3, <1>4, FramesAre DEF Written, Carried
<1>6. f.p = q \/ (f.kind = "Connect" /\ Speaks(f.p, q))
  BY <1>2, CodecsMeet
<1>7. CASE Garbled(f)
  <2>1. f.p = q
    BY <1>6, <1>7 DEF Garbled
  <2>2. Misread(q, f)
    BY <1>7, <2>1 DEF Garbled, Misread
  <2> QED
    BY <2>2
<1>8. CASE ~Garbled(f)
  <2>1. Understood(q, LayoutOf(f))
    <3>1. CASE f.answer
      BY <1>1, <1>5, <1>6, <1>8, <3>1, AnswersAreRead
    <3>2. CASE ~f.answer
      BY <1>1, <1>5, <1>6, <1>8, <3>2, RequestsAreRead
    <3> QED
      BY <3>1, <3>2
  <2>2. Decodes(q, LayoutOf(f))
    BY <2>1 DEF Understood
  <2>3. Reading(q, f).kind = DecodedKind(q, LayoutOf(f)) /\ Reading(q, f).understood
    BY <2>1, <2>2 DEF Reading
  <2>4. DecodedKind(q, LayoutOf(f)) # "no"
    <3>1. KindOf(q, LayoutOf(f)) \in Kinds
      BY <1>1, <2>2, TypesKnown DEF Decodes, KindOf
    <3> QED
      BY <3>1 DEF DecodedKind, Kinds
  <2> QED
    BY <1>3, <2>3, <2>4
<1> QED
  BY <1>7, <1>8

(* Of every set of clients, accounts and messages: the next frame an end   *)
(* reads is one its codec knows, fits in what it declares, ends where it   *)
(* says it ends, and every field is read where it was written, save the    *)
(* frames Misread names.  So the two ends' choice of a version never lets  *)
(* one read the other by a wrong layout.                                   *)
THEOREM FramesAreUnderstood == Spec => []FramesUnderstood
<1>1. Init => CInv
  <2>1. Init => Carrying
    BY DEF Init, Carrying, Ends
  <2> QED
    BY <2>1, InitShapes DEF CInv
<1>2. CInv /\ [Next]_vars => CInv'
  BY CarryingKeeps
<1>3. CInv => FramesUnderstood
  BY CarryingUnderstood
<1> QED
  BY <1>1, <1>2, <1>3, PTL DEF Spec
=============================================================================
