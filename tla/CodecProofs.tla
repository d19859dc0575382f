------------------------------ MODULE CodecProofs ------------------------------
(***************************************************************************)
(* What the codecs write and read, for every length of a content and every *)
(* number of receivers.                                                    *)
(***************************************************************************)
EXTENDS Codecs, TLAPS, WellFoundedInduction

(***************************************************************************)
(* The tables of Codecs                                                    *)
(***************************************************************************)

(* A version a peer states gives a protocol. *)
LEMMA VersionsKnown ==
    ASSUME NEW p \in Protocols, NEW v
    PROVE  match_version(p, v) \in Protocols
BY DEF match_version, get_protocol, Parse, Protocols, Cmpp

(* A number of a type is one of the types the gateway handles, or unknown. *)
LEMMA TypesKnown ==
    ASSUME NEW p \in Protocols, NEW id
    PROVE  get_type_enum(p, id) \in Kinds \cup {"UNKNOWN"}
<1>1. CASE p \in Cmpp
  <2>1. p # "SMGP" /\ p # "SGIP"
    BY <1>1 DEF Cmpp
  <2> QED
    BY <1>1, <2>1, SMT DEF get_type_enum, TypeEnumCmpp, Kinds
<1>2. CASE p = "SMGP"
  <2>1. p \notin Cmpp
    BY <1>2 DEF Cmpp
  <2> QED
    BY <1>2, <2>1 DEF get_type_enum, TypeEnumSmgp, Kinds
<1>3. CASE p = "SGIP"
  <2>1. p \notin Cmpp
    BY <1>3 DEF Cmpp
  <2> QED
    BY <1>3, <2>1 DEF get_type_enum, TypeEnumSgip, Kinds
<1> QED
  BY <1>1, <1>2, <1>3 DEF Protocols, Cmpp

(* What a report, and the heartbeat of SGIP, are typed as. *)
Typed(p, kind) ==
    CASE kind = "Report" /\ p # "SGIP" -> "Deliver"
      [] kind = "ActiveTest" /\ p = "SGIP" -> "Submit"
      [] OTHER -> kind

IsRequest(y, p, kind) == \E n, l, s, b : y = Request(p, kind, n, l, s, b)
IsAnswer(y, p, kind) == \E n, l, b : y = Answer(p, kind, n, l, b)

(* The type of what an encoder writes. *)
LEMMA PartTypes ==
    ASSUME NEW p \in Protocols, NEW kind \in Kinds, NEW d
    PROVE  PartOf(p, kind, d).type = <<get_type_id(p, Typed(p, kind)), FALSE>>
<1>1. \A y, q, k : IsRequest(y, q, k) => y.type = <<get_type_id(q, k), FALSE>>
  <2>1. \A q, k, n, l, s, b : Request(q, k, n, l, s, b).type = <<get_type_id(q, k), FALSE>>
    BY DEF Request, Layout
  <2> QED
    BY <2>1, Zenon DEF IsRequest
<1>2. CASE kind = "Submit"
  <2>1. PartOf(p, kind, d) = Submit(p, d)
    BY <1>2 DEF PartOf
  <2>2. Typed(p, kind) = "Submit"
    BY <1>2 DEF Typed
  <2>3. IsRequest(Submit48(d), "CMPP48", "Submit")
    BY Zenon DEF IsRequest, Submit48
  <2>4. IsRequest(Submit32(d), "CMPP32", "Submit")
    BY Zenon DEF IsRequest, Submit32
  <2>5. IsRequest(SubmitSmgp(d), "SMGP", "Submit")
    BY ZenonT(30) DEF IsRequest, SubmitSmgp
  <2>6. IsRequest(SubmitSgip(d), "SGIP", "Submit")
    BY Zenon DEF IsRequest, SubmitSgip
  <2> QED
    BY <1>1, <1>2, <2>1, <2>2, <2>3, <2>4, <2>5, <2>6 DEF Submit, Protocols
<1>3. CASE kind = "Deliver"
  <2>1. PartOf(p, kind, d) = Deliver(p, d)
    BY <1>3 DEF PartOf
  <2>2. Typed(p, kind) = "Deliver"
    BY <1>3 DEF Typed
  <2>3. IsRequest(Deliver48(d), "CMPP48", "Deliver")
    BY Zenon DEF IsRequest, Deliver48
  <2>4. IsRequest(Deliver32(d), "CMPP32", "Deliver")
    BY Zenon DEF IsRequest, Deliver32
  <2>5. IsRequest(DeliverSmgp(d), "SMGP", "Deliver")
    BY Zenon DEF IsRequest, DeliverSmgp
  <2>6. IsRequest(DeliverSgip(d), "SGIP", "Deliver")
    BY Zenon DEF IsRequest, DeliverSgip
  <2> QED
    BY <1>1, <1>3, <2>1, <2>2, <2>3, <2>4, <2>5, <2>6 DEF Deliver, Protocols
<1>4. CASE kind = "Report"
  <2>1. PartOf(p, kind, d) = Report(p, d)
    BY <1>4 DEF PartOf
  <2>2. Typed(p, kind) = IF p = "SGIP" THEN "Report" ELSE "Deliver"
    BY <1>4 DEF Typed
  <2>3. IsRequest(Report48(d), "CMPP48", "Deliver")
    BY Zenon DEF IsRequest, Report48
  <2>4. IsRequest(Report32(d), "CMPP32", "Deliver")
    BY Zenon DEF IsRequest, Report32
  <2>5. IsRequest(ReportSmgp(d), "SMGP", "Deliver")
    BY Zenon DEF IsRequest, ReportSmgp
  <2>6. IsRequest(ReportSgip(d), "SGIP", "Report")
    BY Zenon DEF IsRequest, ReportSgip
  <2> QED
    BY <1>1, <1>4, <2>1, <2>2, <2>3, <2>4, <2>5, <2>6 DEF Report, Protocols
<1>5. CASE kind = "Connect"
  <2>1. PartOf(p, kind, d) = Connect(p)
    BY <1>5 DEF PartOf
  <2>2. Typed(p, kind) = "Connect"
    BY <1>5 DEF Typed
  <2>3. IsRequest(Connect48(p), p, "Connect")
    BY Zenon DEF IsRequest, Connect48
  <2>4. IsRequest(ConnectSmgp, "SMGP", "Connect")
    BY Zenon DEF IsRequest, ConnectSmgp
  <2>5. IsRequest(ConnectSgip, "SGIP", "Connect")
    BY Zenon DEF IsRequest, ConnectSgip
  <2> QED
    BY <1>1, <1>5, <2>1, <2>2, <2>3, <2>4, <2>5 DEF Connect, Protocols, Cmpp
<1>6. CASE kind = "ActiveTest"
  <2>1. PartOf(p, kind, d) = IF p = "SGIP" THEN ActiveTestSgip ELSE ActiveTest48(p)
    BY <1>6 DEF PartOf
  <2>2. Typed(p, kind) = IF p = "SGIP" THEN "Submit" ELSE "ActiveTest"
    BY <1>6 DEF Typed
  <2>3. /\ IsRequest(ActiveTestSgip, "SGIP", "Submit")
        /\ IsRequest(ActiveTest48(p), p, "ActiveTest")
    BY Zenon DEF IsRequest, ActiveTestSgip, ActiveTest48
  <2> QED
    BY <1>1, <1>6, <2>1, <2>2, <2>3
<1>7. CASE kind = "Terminate"
  <2>1. PartOf(p, kind, d) = IF p = "SGIP" THEN TerminateSgip ELSE Terminate48(p)
    BY <1>7 DEF PartOf
  <2>2. Typed(p, kind) = "Terminate"
    BY <1>7 DEF Typed
  <2>3. /\ IsRequest(TerminateSgip, "SGIP", "Terminate")
        /\ IsRequest(Terminate48(p), p, "Terminate")
    BY Zenon DEF IsRequest, TerminateSgip, Terminate48
  <2> QED
    BY <1>1, <1>7, <2>1, <2>2, <2>3
<1> QED
  BY <1>2, <1>3, <1>4, <1>5, <1>6, <1>7 DEF Kinds

(* The type of a receipt; none is typed as a heartbeat's Submit. *)
LEMMA ReceiptTypes ==
    ASSUME NEW p \in Protocols, NEW kind \in Kinds \ {"Terminate"}
    PROVE  ReceiptOf(p, kind).type =
               <<get_type_id(p, IF kind = "ActiveTest" THEN kind ELSE Typed(p, kind)), TRUE>>
<1>1. \A y, q, k : IsAnswer(y, q, k) => y.type = <<get_type_id(q, k), TRUE>>
  <2>1. \A q, k, n, l, b : Answer(q, k, n, l, b).type = <<get_type_id(q, k), TRUE>>
    BY DEF Answer, Layout
  <2> QED
    BY <2>1, Zenon DEF IsAnswer
<1>2. CASE kind = "Submit"
  <2>1. ReceiptOf(p, kind) = SubmitResp(p)
    BY <1>2 DEF ReceiptOf
  <2>2. Typed(p, kind) = "Submit"
    BY <1>2 DEF Typed
  <2>3. IsAnswer(SubmitResp48, "CMPP48", "Submit")
    BY Zenon DEF IsAnswer, SubmitResp48
  <2>4. IsAnswer(SubmitResp32, "CMPP32", "Submit")
    BY Zenon DEF IsAnswer, SubmitResp32
  <2>5. IsAnswer(SubmitRespSmgp, "SMGP", "Submit")
    BY Zenon DEF IsAnswer, SubmitRespSmgp
  <2>6. IsAnswer(SubmitRespSgip, "SGIP", "Submit")
    BY Zenon DEF IsAnswer, SubmitRespSgip
  <2> QED
    BY <1>1, <1>2, <2>1, <2>2, <2>3, <2>4, <2>5, <2>6 DEF SubmitResp, Protocols
<1>3. CASE kind = "Deliver"
  <2>1. ReceiptOf(p, kind) = DeliverResp(p)
    BY <1>3 DEF ReceiptOf
  <2>2. Typed(p, kind) = "Deliver"
    BY <1>3 DEF Typed
  <2>3. IsAnswer(DeliverResp48(p), p, "Deliver")
    BY Zenon DEF IsAnswer, DeliverResp48
  <2>4. IsAnswer(DeliverResp32, "CMPP32", "Deliver")
    BY Zenon DEF IsAnswer, DeliverResp32
  <2>5. IsAnswer(DeliverRespSgip, "SGIP", "Deliver")
    BY Zenon DEF IsAnswer, DeliverRespSgip
  <2>6. DeliverResp(p) = IF p = "CMPP32" THEN DeliverResp32 ELSE IF p = "SGIP" THEN DeliverRespSgip ELSE DeliverResp48(p)
    BY DEF DeliverResp, Protocols
  <2>7. IsAnswer(DeliverResp(p), p, "Deliver")
    BY <2>3, <2>4, <2>5, <2>6
  <2> QED
    BY <1>1, <1>3, <2>1, <2>2, <2>7
<1>4. CASE kind = "Report"
  <2>1. ReceiptOf(p, kind) = ReportResp(p)
    BY <1>4 DEF ReceiptOf
  <2>2. Typed(p, kind) = IF p = "SGIP" THEN "Report" ELSE "Deliver"
    BY <1>4 DEF Typed
  <2>3. /\ IsAnswer(ReportResp48(p), p, "Deliver")
        /\ IsAnswer(ReportRespSgip, "SGIP", "Report")
    BY Zenon DEF IsAnswer, ReportResp48, ReportRespSgip
  <2> QED
    BY <1>1, <1>4, <2>1, <2>2, <2>3 DEF ReportResp
<1>5. CASE kind = "Connect"
  <2>1. ReceiptOf(p, kind) = ConnectRep(p)
    BY <1>5 DEF ReceiptOf
  <2>2. Typed(p, kind) = "Connect"
    BY <1>5 DEF Typed
  <2>3. IsAnswer(ConnectRep48(p), p, "Connect")
    BY Zenon DEF IsAnswer, ConnectRep48
  <2>4. IsAnswer(ConnectRep32, "CMPP32", "Connect")
    BY Zenon DEF IsAnswer, ConnectRep32
  <2>5. IsAnswer(ConnectRepSgip, "SGIP", "Connect")
    BY Zenon DEF IsAnswer, ConnectRepSgip
  <2>6. ConnectRep(p) = IF p = "CMPP32" THEN ConnectRep32 ELSE IF p = "SGIP" THEN ConnectRepSgip ELSE ConnectRep48(p)
    BY DEF ConnectRep, Protocols
  <2>7. IsAnswer(ConnectRep(p), p, "Connect")
    BY <2>3, <2>4, <2>5, <2>6
  <2> QED
    BY <1>1, <1>5, <2>1, <2>2, <2>7
<1>6. CASE kind = "ActiveTest"
  <2>1. ReceiptOf(p, kind) = ActiveTestResp(p)
    BY <1>6 DEF ReceiptOf
  <2>3. /\ IsAnswer(ActiveTestResp(p), p, "ActiveTest")
    BY Zenon DEF IsAnswer, ActiveTestResp
  <2> QED
    BY <1>1, <1>6, <2>1, <2>3
<1> QED
  BY <1>2, <1>3, <1>4, <1>5, <1>6 DEF Kinds

(* The two type tables of a codec are inverse to each other. *)
LEMMA TypesMatch ==
    ASSUME NEW p \in Protocols
    PROVE  /\ \A k \in Kinds : get_type_enum(p, get_type_id(p, k)) = k
           /\ \A id : get_type_enum(p, id) # "UNKNOWN"
                      => get_type_id(p, get_type_enum(p, id)) = id
<1>1. CASE p \in Cmpp
  <2>1. p # "SMGP" /\ p # "SGIP"
    BY <1>1 DEF Cmpp
  <2>2. \A id : get_type_enum(p, id) = IF id \in DOMAIN TypeEnumCmpp THEN TypeEnumCmpp[id] ELSE "UNKNOWN"
    BY <1>1, <2>1 DEF get_type_enum
  <2>3. \A k : get_type_id(p, k) = TypeIdCmpp[k]
    BY <1>1, <2>1 DEF get_type_id
  <2>4. \A k \in Kinds : TypeIdCmpp[k] \in DOMAIN TypeEnumCmpp /\ TypeEnumCmpp[TypeIdCmpp[k]] = k
    BY SMT DEF TypeEnumCmpp, TypeIdCmpp, Kinds
  <2>5. \A id \in DOMAIN TypeEnumCmpp : TypeIdCmpp[TypeEnumCmpp[id]] = id
    BY SMT DEF TypeEnumCmpp, TypeIdCmpp
  <2> QED
    BY <2>2, <2>3, <2>4, <2>5
<1>2. CASE p = "SMGP"
  <2>1. p \notin Cmpp
    BY <1>2 DEF Cmpp
  <2>2. \A id : get_type_enum(p, id) = IF id \in DOMAIN TypeEnumSmgp THEN TypeEnumSmgp[id] ELSE "UNKNOWN"
    BY <1>2, <2>1 DEF get_type_enum
  <2>3. \A k : get_type_id(p, k) = TypeIdSmgp[k]
    BY <1>2, <2>1 DEF get_type_id
  <2>4. \A k \in Kinds : TypeIdSmgp[k] \in DOMAIN TypeEnumSmgp /\ TypeEnumSmgp[TypeIdSmgp[k]] = k
    BY SMT DEF TypeEnumSmgp, TypeIdSmgp, Kinds
  <2>5. \A id \in DOMAIN TypeEnumSmgp : TypeIdSmgp[TypeEnumSmgp[id]] = id
    BY SMT DEF TypeEnumSmgp, TypeIdSmgp
  <2> QED
    BY <2>2, <2>3, <2>4, <2>5
<1>3. CASE p = "SGIP"
  <2>1. p \notin Cmpp
    BY <1>3 DEF Cmpp
  <2>2. \A id : get_type_enum(p, id) = IF id \in DOMAIN TypeEnumSgip THEN TypeEnumSgip[id] ELSE "UNKNOWN"
    BY <1>3, <2>1 DEF get_type_enum
  <2>3. \A k : get_type_id(p, k) = TypeIdSgip[k]
    BY <1>3, <2>1 DEF get_type_id
  <2>4. \A k \in Kinds : TypeIdSgip[k] \in DOMAIN TypeEnumSgip /\ TypeEnumSgip[TypeIdSgip[k]] = k
    BY SMT DEF TypeEnumSgip, TypeIdSgip, Kinds
  <2>5. \A id \in DOMAIN TypeEnumSgip : TypeIdSgip[TypeEnumSgip[id]] = id
    BY SMT DEF TypeEnumSgip, TypeIdSgip
  <2> QED
    BY <2>2, <2>3, <2>4, <2>5
<1> QED
  BY <1>1, <1>2, <1>3 DEF Protocols, Cmpp

(* A decoder finds a frame to be an answer iff it was written as one. *)
LEMMA AnswersAreSeen ==
    ASSUME NEW p \in Protocols, NEW q \in Protocols, NEW f,
           f.p = q, f.kind \in Kinds, f.answer => f.kind # "Terminate"
    PROVE  /\ LayoutOf(f).type[2] <=> f.answer
           /\ Reading(p, f).kind # "no" => (Reading(p, f).answer <=> f.answer)
           /\ Reading(p, f).answer => f.answer
<1>1. LayoutOf(f).type[2] <=> f.answer
  <2>1. CASE f.answer
    <3>1. LayoutOf(f) = ReceiptOf(q, f.kind)
      BY <2>1 DEF LayoutOf
    <3>2. f.kind \in Kinds \ {"Terminate"}
      BY <2>1
    <3> DEFINE k == IF f.kind = "ActiveTest" THEN f.kind ELSE Typed(q, f.kind)
    <3>3. ReceiptOf(q, f.kind).type = <<get_type_id(q, k), TRUE>>
      BY <3>2, ReceiptTypes
    <3>4. LayoutOf(f).type[2]
      BY <3>1, <3>3
    <3> QED
      BY <2>1, <3>4
  <2>2. CASE ~f.answer
    <3>1. LayoutOf(f) = PartOf(q, f.kind, f.share)
      BY <2>2 DEF LayoutOf
    <3>3. PartOf(q, f.kind, f.share).type = <<get_type_id(q, Typed(q, f.kind)), FALSE>>
      BY PartTypes
    <3>4. ~LayoutOf(f).type[2]
      BY <3>1, <3>3
    <3> QED
      BY <2>2, <3>4
  <2> QED
    BY <2>1, <2>2
<1>2. CASE Decodes(p, LayoutOf(f))
  BY <1>1, <1>2 DEF Reading
<1>3. CASE ~Decodes(p, LayoutOf(f))
  BY <1>1, <1>3 DEF Reading
<1> QED
  BY <1>1, <1>2, <1>3

(* What a decoder makes of a frame: its type as it stands there, and a     *)
(* kind the gateway handles.                                               *)
LEMMA ReadingIs ==
    ASSUME NEW p \in Protocols, NEW f, Reading(p, f).kind # "no"
    PROVE  /\ Reading(p, f).kind \in Kinds
           /\ Reading(p, f).type = LayoutOf(f).type[1]
           /\ Reading(p, f).kind =
                 IF KindOf(p, LayoutOf(f)) = "Deliver" /\ ~Reading(p, f).answer /\ LayoutOf(f).share.report
                 THEN "Report" ELSE KindOf(p, LayoutOf(f))
           /\ KindOf(p, LayoutOf(f)) \in Kinds
           /\ KindOf(p, LayoutOf(f)) = "Report" => p = "SGIP"
<1>1. Decodes(p, LayoutOf(f))
  BY DEF Reading
<1>2. KindOf(p, LayoutOf(f)) \in Kinds
  BY <1>1, TypesKnown DEF Decodes, KindOf
<1>3. /\ Reading(p, f).kind = DecodedKind(p, LayoutOf(f))
      /\ Reading(p, f).type = LayoutOf(f).type[1]
      /\ Reading(p, f).answer = LayoutOf(f).type[2]
  BY <1>1 DEF Reading
<1>4. DecodedKind(p, LayoutOf(f)) \in Kinds
  BY <1>2 DEF DecodedKind, Kinds
<1>5. KindOf(p, LayoutOf(f)) = "Report" => p = "SGIP"
  BY <1>1 DEF Decodes
<1> QED
  BY <1>2, <1>3, <1>4, <1>5 DEF DecodedKind

(* The receipt for a frame is typed as the answer to that frame's type. *)
LEMMA ReceiptAnswersType ==
    ASSUME NEW p \in Protocols, p # "SGIP", NEW f,
           Reading(p, f).kind \notin {"no", "Terminate"}, ~Reading(p, f).answer
    PROVE  ReceiptOf(p, Reading(p, f).kind).type[1] = LayoutOf(f).type[1]
<1> DEFINE id == LayoutOf(f).type[1]
           kind == Reading(p, f).kind
<1>1. kind \in Kinds \ {"Terminate"} /\ KindOf(p, LayoutOf(f)) \in Kinds \ {"Report"}
      /\ kind = IF KindOf(p, LayoutOf(f)) = "Deliver" /\ LayoutOf(f).share.report
                THEN "Report" ELSE KindOf(p, LayoutOf(f))
  BY ReadingIs
<1>2. ReceiptOf(p, kind).type[1] = get_type_id(p, IF kind = "ActiveTest" THEN kind ELSE Typed(p, kind))
  <2>1. ReceiptOf(p, kind).type
            = <<get_type_id(p, IF kind = "ActiveTest" THEN kind ELSE Typed(p, kind)), TRUE>>
    BY <1>1, ReceiptTypes
  <2> QED
    BY <2>1
<1>3. (IF kind = "ActiveTest" THEN kind ELSE Typed(p, kind)) = KindOf(p, LayoutOf(f))
  BY <1>1 DEF Typed
<1>4. KindOf(p, LayoutOf(f)) = get_type_enum(p, id) /\ KindOf(p, LayoutOf(f)) # "UNKNOWN"
  <2>1. KindOf(p, LayoutOf(f)) # "UNKNOWN"
    BY <1>1 DEF Kinds
  <2> QED
    BY <2>1 DEF KindOf
<1>5. get_type_id(p, KindOf(p, LayoutOf(f))) = id
  BY <1>4, TypesMatch
<1> QED
  BY <1>2, <1>3, <1>5

(* The frames of a message: requests of its kind. *)
LEMMA EncodedFrames ==
    ASSUME NEW p \in Protocols, NEW m, m.len \in Nat
    PROVE  /\ \E n \in Nat : DOMAIN encode_message(p, m) = 1..n
           /\ encode_message(p, m) \in Seq(Range(encode_message(p, m)))
           /\ \A i \in DOMAIN encode_message(p, m) :
                 /\ encode_message(p, m)[i].p = p /\ encode_message(p, m)[i].kind = m.kind
                 /\ ~encode_message(p, m)[i].answer
<1> DEFINE fs == encode_message(p, m)
<1>1. \E n \in Nat : DOMAIN Parts(m.len) = 1..n
  <2>1. CASE m.len <= 140
    <3>1. DOMAIN Parts(m.len) = 1..1
      BY <2>1 DEF Parts
    <3> QED
      BY <3>1
  <2>2. CASE ~(m.len <= 140)
    <3>1. Ceil(m.len, 134) \in Nat
      BY DEF Ceil
    <3>2. DOMAIN Parts(m.len) = 1..Ceil(m.len, 134)
      BY <2>2 DEF Parts
    <3> QED
      BY <3>1, <3>2
  <2> QED
    BY <2>1, <2>2
<1>2. CASE PartOf(p, m.kind, Share(m, 0)).needs \subseteq m.keys
  <2>1. fs = [i \in DOMAIN Parts(m.len) |-> Frame(p, m.kind, FALSE, Share(m, Parts(m.len)[i]))]
    BY <1>2 DEF encode_message
  <2>2. \A i \in DOMAIN fs : fs[i] = Frame(p, m.kind, FALSE, Share(m, Parts(m.len)[i]))
    BY <2>1
  <2>3. \A i \in DOMAIN fs : fs[i].p = p /\ fs[i].kind = m.kind /\ ~fs[i].answer
    BY <2>2 DEF Frame
  <2>4. PICK n \in Nat : DOMAIN fs = 1..n
    BY <1>1, <2>1
  <2>5. fs \in [1..n -> Range(fs)]
    BY <2>1, <2>4 DEF Range
  <2> QED
    BY <2>3, <2>4, <2>5
<1>3. CASE ~(PartOf(p, m.kind, Share(m, 0)).needs \subseteq m.keys)
  <2>1. fs = <<>>
    BY <1>3 DEF encode_message
  <2>2. DOMAIN fs = 1..0 /\ 0 \in Nat
    BY <2>1
  <2> QED
    BY <2>1, <2>2
<1> QED
  BY <1>2, <1>3

(***************************************************************************)
(* Offsets and widths                                                      *)
(***************************************************************************)

(* Induction up to n, with a set for the formula. *)
LEMMA CountUp ==
    ASSUME NEW n \in Nat, NEW S, 0 \in S, \A k \in 0..(n - 1) : k \in S => k + 1 \in S
    PROVE  0..n \subseteq S
<1> DEFINE T == 0..n \ S
<1> SUFFICES ASSUME T # {} PROVE FALSE
  OBVIOUS
<1>1. IsWellFoundedOn({ss \in Nat \X Nat : ss[1] < ss[2]}, Nat)
  BY NatLessThanWellFounded, Zenon DEF OpToRel
<1>2. T \subseteq Nat
  OBVIOUS
<1>3. PICK k \in T : \A j \in T : <<j, k>> \notin {ss \in Nat \X Nat : ss[1] < ss[2]}
  <2> HIDE DEF T
  <2> QED
    BY <1>1, <1>2, WFMin, Zenon
<1>4. k # 0 /\ k - 1 \in 0..(n - 1) /\ k = (k - 1) + 1
  OBVIOUS
<1>5. <<k - 1, k>> \in {ss \in Nat \X Nat : ss[1] < ss[2]}
  BY <1>4
<1>6. k - 1 \notin T
  BY <1>3, <1>5, Zenon
<1> QED
  BY <1>4, <1>6

(* The equation Offsets is defined by has a solution. *)
Solves(at, n, w) == at = [i \in 0..n |-> IF i = 0 THEN 0 ELSE at[i - 1] + w[i][2]]

LEMMA Solvable ==
    ASSUME NEW w, NEW n \in Nat
    PROVE  \E at : Solves(at, n, w)
<1> DEFINE S == {k \in Nat : \E at : Solves(at, k, w)}
<1>1. 0 \in S
  <2>1. Solves([i \in 0..0 |-> 0], 0, w)
    BY DEF Solves
  <2> QED
    BY <2>1
<1>2. ASSUME NEW k \in 0..(n - 1), k \in S PROVE k + 1 \in S
  <2>1. PICK g : Solves(g, k, w)
    BY <1>2
  <2> DEFINE at == [i \in 0..(k + 1) |-> IF i = k + 1 THEN g[k] + w[k + 1][2] ELSE g[i]]
  <2>2. \A i \in 0..k : g[i] = IF i = 0 THEN 0 ELSE g[i - 1] + w[i][2]
    BY <2>1 DEF Solves
  <2>3. \A i \in 0..(k + 1) : at[i] = IF i = 0 THEN 0 ELSE at[i - 1] + w[i][2]
    BY <2>2
  <2>4. Solves(at, k + 1, w)
    BY <2>3 DEF Solves
  <2> QED
    BY <2>4
<1>3. 0..n \subseteq S
  <2> HIDE DEF S
  <2> QED
    BY <1>1, <1>2, CountUp
<1> QED
  BY <1>3

Names ==
    {"-", "type", "node", "seq", "login_name", "authenticator", "version", "timestamp",
     "can_write", "password", "status", "msg_id", "service_id", "udhi", "fmt", "sp_id",
     "valid_time", "at_time", "src_id", "dest_len", "dest_ids", "content_len", "total", "number",
     "content", "tp_udhi", "dest_id", "is_report", "receive_time", "passage_msg_id", "state",
     "submit_time", "done_time", "error_code", "result"}
Fields == Names \X Nat
Layouts == Seq(Fields)

(* What the cursor does. *)
Runs(at, s) ==
    /\ at[0] = 0 /\ \A i \in 0..Len(s) : at[i] \in Nat
    /\ \A i \in 1..Len(s) : at[i] = at[i - 1] + s[i][2]

LEMMA LayoutIs ==
    ASSUME NEW s \in Layouts
    PROVE  /\ Len(s) \in Nat /\ DOMAIN s = 1..Len(s)
           /\ \A i \in 1..Len(s) : s[i][2] \in Nat
BY DEF Layouts, Fields

LEMMA OffsetsRun ==
    ASSUME NEW s \in Layouts
    PROVE  Runs(Offsets(s), s)
<1>1. /\ Len(s) \in Nat /\ \A i \in 1..Len(s) : s[i][2] \in Nat
  BY LayoutIs
<1>2. Solves(Offsets(s), Len(s), s)
  <2>1. \E at : Solves(at, Len(s), s)
    BY <1>1, Solvable
  <2>2. Offsets(s) = CHOOSE at : Solves(at, Len(s), s)
    BY DEF Offsets, Solves
  <2> QED
    BY <2>1, <2>2
<1> PICK at : at = Offsets(s)
  OBVIOUS
<1>3. \A i \in 0..Len(s) : at[i] = IF i = 0 THEN 0 ELSE at[i - 1] + s[i][2]
  BY <1>2 DEF Solves
<1> DEFINE S == {i \in 0..Len(s) : at[i] \in Nat}
<1>4. 0..Len(s) \subseteq S
  <2>1. 0 \in S
    BY <1>1, <1>3
  <2>2. \A k \in 0..(Len(s) - 1) : k \in S => k + 1 \in S
    BY <1>1, <1>3, SMTT(30)
  <2> HIDE DEF S
  <2> QED
    BY <1>1, <2>1, <2>2, CountUp
<1> QED
  BY <1>1, <1>3, <1>4 DEF Runs

(* How far the cursor has come after each of the first fields. *)
LEMMA OffsetsCount ==
    ASSUME NEW s \in Layouts, NEW n \in 1..Len(s)
    PROVE  /\ Offsets(s)[n] = Offsets(s)[n - 1] + s[n][2]
           /\ Offsets(s)[n - 1] \in Nat /\ s[n][2] \in Nat
<1>1. Runs(Offsets(s), s) /\ Len(s) \in Nat /\ s[n][2] \in Nat
  BY OffsetsRun, LayoutIs
<1>2. n - 1 \in 0..Len(s)
  BY <1>1
<1> QED
  BY <1>1, <1>2 DEF Runs

(* The width of short layouts. *)
LEMMA Widths ==
    ASSUME NEW s \in Layouts
    PROVE  /\ Len(s) = 0 => Width(s) = 0
           /\ Len(s) = 1 => Width(s) = s[1][2]
           /\ Len(s) = 2 => Width(s) = s[1][2] + s[2][2]
           /\ Len(s) = 3 => Width(s) = s[1][2] + s[2][2] + s[3][2]
           /\ Len(s) = 4 => Width(s) = s[1][2] + s[2][2] + s[3][2] + s[4][2]
           /\ Len(s) = 5 => Width(s) = s[1][2] + s[2][2] + s[3][2] + s[4][2] + s[5][2]
           /\ Len(s) = 6 => Width(s) = s[1][2] + s[2][2] + s[3][2] + s[4][2] + s[5][2]
              + s[6][2]
           /\ Len(s) = 7 => Width(s) = s[1][2] + s[2][2] + s[3][2] + s[4][2] + s[5][2]
              + s[6][2] + s[7][2]
<1>1. Offsets(s)[0] = 0 /\ Width(s) = Offsets(s)[Len(s)] /\ Len(s) \in Nat
  BY OffsetsRun, LayoutIs DEF Runs, Width
<1> PICK at : at = Offsets(s)
  OBVIOUS
<1>2. \A n \in 1..Len(s) : at[n] = at[n - 1] + s[n][2] /\ at[n - 1] \in Nat /\ s[n][2] \in Nat
  BY OffsetsCount
<1>3. Len(s) = 1 => at[1] = s[1][2]
  BY <1>1, <1>2
<1>4. Len(s) = 2 => at[2] = s[1][2] + s[2][2]
  BY <1>1, <1>2
<1>5. Len(s) = 3 => at[3] = s[1][2] + s[2][2] + s[3][2]
  BY <1>1, <1>2
<1>6. Len(s) = 4 => at[4] = s[1][2] + s[2][2] + s[3][2] + s[4][2]
  BY <1>1, <1>2
<1>7. Len(s) = 5 => at[5] = s[1][2] + s[2][2] + s[3][2] + s[4][2] + s[5][2]
  BY <1>1, <1>2
<1>8. Len(s) = 6 => at[6] = s[1][2] + s[2][2] + s[3][2] + s[4][2] + s[5][2] + s[6][2]
  BY <1>1, <1>2
<1>9. Len(s) = 7 => at[7] = s[1][2] + s[2][2] + s[3][2] + s[4][2] + s[5][2] + s[6][2] + s[7][2]
  BY <1>1, <1>2
<1> QED
  BY <1>1, <1>2, <1>3, <1>4, <1>5, <1>6, <1>7, <1>8, <1>9

(* The width of 9 fields. *)
LEMMA Width9 ==
    ASSUME NEW s \in Layouts, Len(s) = 9
    PROVE  Width(s) = s[1][2] + s[2][2] + s[3][2] + s[4][2] + s[5][2] + s[6][2] + s[7][2]
              + s[8][2] + s[9][2]
<1>1. Offsets(s)[0] = 0 /\ Width(s) = Offsets(s)[Len(s)] /\ Len(s) \in Nat
  BY OffsetsRun, LayoutIs DEF Runs, Width
<1> PICK at : at = Offsets(s)
  OBVIOUS
<1>2. \A n \in 1..Len(s) : at[n] = at[n - 1] + s[n][2] /\ at[n - 1] \in Nat /\ s[n][2] \in Nat
  BY OffsetsCount
<1>3. at[5] = s[1][2] + s[2][2] + s[3][2] + s[4][2] + s[5][2]
  BY <1>1, <1>2
<1>4. at[9] = at[5] + s[6][2] + s[7][2] + s[8][2] + s[9][2]
  BY <1>1, <1>2
<1> QED
  BY <1>1, <1>2, <1>3, <1>4

(* The width of 10 fields. *)
LEMMA Width10 ==
    ASSUME NEW s \in Layouts, Len(s) = 10
    PROVE  Width(s) = s[1][2] + s[2][2] + s[3][2] + s[4][2] + s[5][2] + s[6][2] + s[7][2]
              + s[8][2] + s[9][2] + s[10][2]
<1>1. Offsets(s)[0] = 0 /\ Width(s) = Offsets(s)[Len(s)] /\ Len(s) \in Nat
  BY OffsetsRun, LayoutIs DEF Runs, Width
<1> PICK at : at = Offsets(s)
  OBVIOUS
<1>2. \A n \in 1..Len(s) : at[n] = at[n - 1] + s[n][2] /\ at[n - 1] \in Nat /\ s[n][2] \in Nat
  BY OffsetsCount
<1>3. at[5] = s[1][2] + s[2][2] + s[3][2] + s[4][2] + s[5][2]
  BY <1>1, <1>2
<1>4. at[10] = at[5] + s[6][2] + s[7][2] + s[8][2] + s[9][2] + s[10][2]
  BY <1>1, <1>2
<1> QED
  BY <1>1, <1>2, <1>3, <1>4

(* The width of 14 fields. *)
LEMMA Width14 ==
    ASSUME NEW s \in Layouts, Len(s) = 14
    PROVE  Width(s) = s[1][2] + s[2][2] + s[3][2] + s[4][2] + s[5][2] + s[6][2] + s[7][2]
              + s[8][2] + s[9][2] + s[10][2] + s[11][2] + s[12][2] + s[13][2] + s[14][2]
<1>1. Offsets(s)[0] = 0 /\ Width(s) = Offsets(s)[Len(s)] /\ Len(s) \in Nat
  BY OffsetsRun, LayoutIs DEF Runs, Width
<1> PICK at : at = Offsets(s)
  OBVIOUS
<1>2. \A n \in 1..Len(s) : at[n] = at[n - 1] + s[n][2] /\ at[n - 1] \in Nat /\ s[n][2] \in Nat
  BY OffsetsCount
<1>3. at[5] = s[1][2] + s[2][2] + s[3][2] + s[4][2] + s[5][2]
  BY <1>1, <1>2
<1>4. at[10] = at[5] + s[6][2] + s[7][2] + s[8][2] + s[9][2] + s[10][2]
  BY <1>1, <1>2
<1>5. at[14] = at[10] + s[11][2] + s[12][2] + s[13][2] + s[14][2]
  BY <1>1, <1>2
<1> QED
  BY <1>1, <1>2, <1>3, <1>4, <1>5

(* The width of 15 fields. *)
LEMMA Width15 ==
    ASSUME NEW s \in Layouts, Len(s) = 15
    PROVE  Width(s) = s[1][2] + s[2][2] + s[3][2] + s[4][2] + s[5][2] + s[6][2] + s[7][2]
              + s[8][2] + s[9][2] + s[10][2] + s[11][2] + s[12][2] + s[13][2] + s[14][2]
              + s[15][2]
<1>1. Offsets(s)[0] = 0 /\ Width(s) = Offsets(s)[Len(s)] /\ Len(s) \in Nat
  BY OffsetsRun, LayoutIs DEF Runs, Width
<1> PICK at : at = Offsets(s)
  OBVIOUS
<1>2. \A n \in 1..Len(s) : at[n] = at[n - 1] + s[n][2] /\ at[n - 1] \in Nat /\ s[n][2] \in Nat
  BY OffsetsCount
<1>3. at[5] = s[1][2] + s[2][2] + s[3][2] + s[4][2] + s[5][2]
  BY <1>1, <1>2
<1>4. at[10] = at[5] + s[6][2] + s[7][2] + s[8][2] + s[9][2] + s[10][2]
  BY <1>1, <1>2
<1>5. at[15] = at[10] + s[11][2] + s[12][2] + s[13][2] + s[14][2] + s[15][2]
  BY <1>1, <1>2
<1> QED
  BY <1>1, <1>2, <1>3, <1>4, <1>5

(* The width of 17 fields. *)
LEMMA Width17 ==
    ASSUME NEW s \in Layouts, Len(s) = 17
    PROVE  Width(s) = s[1][2] + s[2][2] + s[3][2] + s[4][2] + s[5][2] + s[6][2] + s[7][2]
              + s[8][2] + s[9][2] + s[10][2] + s[11][2] + s[12][2] + s[13][2] + s[14][2]
              + s[15][2] + s[16][2] + s[17][2]
<1>1. Offsets(s)[0] = 0 /\ Width(s) = Offsets(s)[Len(s)] /\ Len(s) \in Nat
  BY OffsetsRun, LayoutIs DEF Runs, Width
<1> PICK at : at = Offsets(s)
  OBVIOUS
<1>2. \A n \in 1..Len(s) : at[n] = at[n - 1] + s[n][2] /\ at[n - 1] \in Nat /\ s[n][2] \in Nat
  BY OffsetsCount
<1>3. at[5] = s[1][2] + s[2][2] + s[3][2] + s[4][2] + s[5][2]
  BY <1>1, <1>2
<1>4. at[10] = at[5] + s[6][2] + s[7][2] + s[8][2] + s[9][2] + s[10][2]
  BY <1>1, <1>2
<1>5. at[17] = at[10] + s[11][2] + s[12][2] + s[13][2] + s[14][2] + s[15][2] + s[16][2] + s[17][2]
  BY <1>1, <1>2
<1> QED
  BY <1>1, <1>2, <1>3, <1>4, <1>5

(* Two layouts that start with the same widths have the same offsets. *)
LEMMA OffsetsAgree ==
    ASSUME NEW r \in Layouts, NEW w \in Layouts, Len(r) <= Len(w),
           \A i \in 1..Len(r) : r[i][2] = w[i][2]
    PROVE  \A i \in 0..Len(r) : Offsets(r)[i] = Offsets(w)[i]
<1>1. Len(r) \in Nat /\ Len(w) \in Nat
  BY LayoutIs
<1> PICK at : at = Offsets(r)
  OBVIOUS
<1> PICK bt : bt = Offsets(w)
  OBVIOUS
<1>2. Runs(at, r) /\ Runs(bt, w)
  BY OffsetsRun
<1> DEFINE S == {i \in 0..Len(r) : at[i] = bt[i]}
<1>3. 0..Len(r) \subseteq S
  <2>1. 0 \in S
    BY <1>1, <1>2 DEF Runs
  <2>2. \A k \in 0..(Len(r) - 1) : k \in S => k + 1 \in S
    BY <1>1, <1>2 DEF Runs
  <2> HIDE DEF S
  <2> QED
    BY <1>1, <2>1, <2>2, CountUp
<1> QED
  BY <1>3

(* The cursor never goes back. *)
LEMMA OffsetsGrow ==
    ASSUME NEW s \in Layouts, NEW n \in 0..Len(s)
    PROVE  Offsets(s)[n] <= Width(s)
<1>1. Len(s) \in Nat /\ \A i \in 1..Len(s) : s[i][2] \in Nat
  BY LayoutIs
<1> PICK at : at = Offsets(s)
  OBVIOUS
<1>2. Runs(at, s)
  BY OffsetsRun
<1> DEFINE S == {k \in Nat : n + k <= Len(s) => at[n] <= at[n + k]}
<1>3. 0..(Len(s) - n) \subseteq S
  <2>1. 0 \in S
    BY <1>1, <1>2 DEF Runs
  <2>2. ASSUME NEW k \in 0..(Len(s) - n - 1), k \in S PROVE k + 1 \in S
    <3>1. n + k + 1 \in 1..Len(s) /\ n + k \in 0..Len(s) /\ n + k + 1 - 1 = n + k
      BY <1>1
    <3>2. at[n + k + 1] = at[n + k] + s[n + k + 1][2] /\ at[n + k] \in Nat /\ at[n] \in Nat
      BY <1>2, <3>1 DEF Runs
    <3>3. s[n + k + 1][2] \in Nat
      BY <1>1, <3>1
    <3>4. at[n] <= at[n + k]
      BY <2>2, <3>1
    <3>5. at[n] <= at[n + k + 1] /\ n + (k + 1) = n + k + 1
      BY <1>2, <3>1, <3>2, <3>3, <3>4 DEF Runs
    <3> QED
      BY <3>5
  <2>3. Len(s) - n \in Nat
    BY <1>1
  <2> HIDE DEF S
  <2> QED
    BY <2>1, <2>2, <2>3, CountUp
<1>4. Len(s) - n \in S
  <2>1. Len(s) - n \in 0..(Len(s) - n)
    BY <1>1
  <2> HIDE DEF S
  <2> QED
    BY <1>3, <2>1
<1>5. n + (Len(s) - n) = Len(s)
  BY <1>1
<1> QED
  BY <1>1, <1>4, <1>5 DEF Width

(* The widths of two layouts one after the other add up. *)
LEMMA WidthJoin ==
    ASSUME NEW a \in Layouts, NEW b \in Layouts
    PROVE  /\ a \o b \in Layouts
           /\ Width(a \o b) = Width(a) + Width(b)
           /\ Width(a) \in Nat /\ Width(b) \in Nat
<1> PICK c : c = a \o b
  OBVIOUS
<1>1. /\ Len(a) \in Nat /\ Len(b) \in Nat /\ c \in Layouts /\ Len(c) = Len(a) + Len(b)
      /\ \A i \in 1..Len(a) : c[i] = a[i]
      /\ \A j \in 1..Len(b) : c[Len(a) + j] = b[j]
  BY DEF Layouts
<1> PICK at : at = Offsets(a)
  OBVIOUS
<1> PICK bt : bt = Offsets(b)
  OBVIOUS
<1> PICK ct : ct = Offsets(c)
  OBVIOUS
<1>2. Runs(at, a) /\ Runs(bt, b) /\ Runs(ct, c)
  BY <1>1, OffsetsRun
<1>3. ct[Len(a)] = at[Len(a)]
  <2>1. Len(a) <= Len(c) /\ \A i \in 1..Len(a) : a[i][2] = c[i][2]
    BY <1>1
  <2>2. \A i \in 0..Len(a) : Offsets(a)[i] = Offsets(c)[i]
    BY <1>1, <2>1, OffsetsAgree
  <2> QED
    BY <1>1, <2>2
<1> DEFINE S == {j \in 0..Len(b) : ct[Len(a) + j] = at[Len(a)] + bt[j]}
<1>4. 0..Len(b) \subseteq S
  <2>1. 0 \in S
    BY <1>1, <1>2, <1>3, SMTT(30) DEF Runs
  <2>2. ASSUME NEW j \in 0..(Len(b) - 1), j \in S PROVE j + 1 \in S
    <3>1. j + 1 \in 1..Len(b) /\ Len(a) + j + 1 \in 1..Len(c) /\ Len(a) + (j + 1) = Len(a) + j + 1
          /\ j + 1 - 1 = j /\ Len(a) + j + 1 - 1 = Len(a) + j
      BY <1>1
    <3>2. ct[Len(a) + j + 1] = ct[Len(a) + j] + c[Len(a) + j + 1][2]
      BY <1>2, <3>1 DEF Runs
    <3>3. bt[j + 1] = bt[j] + b[j + 1][2] /\ bt[j] \in Nat /\ b[j + 1][2] \in Nat
      BY <1>2, <3>1, LayoutIs DEF Runs
    <3>4. c[Len(a) + j + 1] = b[j + 1]
      BY <1>1, <3>1
    <3>5. ct[Len(a) + j] = at[Len(a)] + bt[j]
      BY <2>2
    <3>6. at[Len(a)] \in Nat
      BY <1>1, <1>2 DEF Runs
    <3> QED
      BY <3>1, <3>2, <3>3, <3>4, <3>5, <3>6
  <2> HIDE DEF S
  <2> QED
    BY <1>1, <2>1, <2>2, CountUp
<1>5. ct[Len(a) + Len(b)] = at[Len(a)] + bt[Len(b)]
  BY <1>1, <1>4
<1>6. at[Len(a)] \in Nat /\ bt[Len(b)] \in Nat
  BY <1>1, <1>2 DEF Runs
<1> QED
  BY <1>1, <1>5, <1>6 DEF Width

(* What is read of a frame is where it was written, if the layout read has *)
(* the widths, and the names it cares for, of what was written.            *)
Within(r, w) ==
    /\ r \in Layouts /\ w \in Layouts /\ Len(r) <= Len(w)
    /\ \A i \in 1..Len(r) : r[i][2] = w[i][2] /\ r[i][1] \in {"-", w[i][1]}

LEMMA WithinAligned ==
    ASSUME NEW r, NEW w, Within(r, w)
    PROVE  Spans(r) \subseteq Spans(w) /\ Width(r) <= Width(w)
<1>1. /\ r \in Layouts /\ w \in Layouts /\ Len(r) \in Nat /\ Len(w) \in Nat /\ Len(r) <= Len(w)
      /\ DOMAIN r = 1..Len(r) /\ DOMAIN w = 1..Len(w)
  BY LayoutIs DEF Within
<1>2. \A i \in 0..Len(r) : Offsets(r)[i] = Offsets(w)[i]
  BY <1>1, OffsetsAgree DEF Within
<1>3. Spans(r) \subseteq Spans(w)
  <2> SUFFICES ASSUME NEW i \in 1..Len(r), r[i][1] # "-"
               PROVE  <<Offsets(r)[i - 1], r[i][1], r[i][2]>> \in Spans(w)
    BY <1>1 DEF Spans
  <2>1. i \in 1..Len(w) /\ i - 1 \in 0..Len(r) /\ r[i][2] = w[i][2] /\ r[i][1] = w[i][1]
    BY <1>1 DEF Within
  <2> QED
    BY <1>1, <1>2, <2>1 DEF Spans
<1>4. Width(r) <= Width(w)
  BY <1>1, <1>2, OffsetsGrow DEF Width
<1> QED
  BY <1>3, <1>4

LEMMA WithinItself ==
    ASSUME NEW a \in Layouts
    PROVE  Within(a, a)
BY LayoutIs DEF Within

(* The fields of two layouts one after the other. *)
LEMMA JoinIs ==
    ASSUME NEW a \in Layouts, NEW b \in Layouts
    PROVE  \E c : /\ c = a \o b /\ c \in Layouts /\ Len(c) = Len(a) + Len(b)
                  /\ \A i \in 1..Len(a) : c[i] = a[i]
                  /\ \A j \in 1..Len(b) : c[Len(a) + j] = b[j]
<1> PICK c : c = a \o b
  OBVIOUS
<1>1. /\ c \in Layouts /\ Len(c) = Len(a) + Len(b)
      /\ \A i \in 1..Len(a) : c[i] = a[i]
      /\ \A j \in 1..Len(b) : c[Len(a) + j] = b[j]
  BY DEF Layouts
<1> QED
  BY <1>1

LEMMA WithinJoin ==
    ASSUME NEW a, NEW b, NEW r, NEW w, Within(a, b), Len(a) = Len(b), Within(r, w)
    PROVE  Within(a \o r, b \o w)
<1>1. /\ a \in Layouts /\ b \in Layouts /\ r \in Layouts /\ w \in Layouts
      /\ Len(a) \in Nat /\ Len(r) \in Nat /\ Len(w) \in Nat /\ Len(r) <= Len(w)
  BY LayoutIs DEF Within
<1>2. PICK c : /\ c = a \o r /\ c \in Layouts /\ Len(c) = Len(a) + Len(r)
               /\ \A i \in 1..Len(a) : c[i] = a[i]
               /\ \A j \in 1..Len(r) : c[Len(a) + j] = r[j]
  BY <1>1, JoinIs
<1>3. PICK d : /\ d = b \o w /\ d \in Layouts /\ Len(d) = Len(b) + Len(w)
               /\ \A i \in 1..Len(b) : d[i] = b[i]
               /\ \A j \in 1..Len(w) : d[Len(b) + j] = w[j]
  BY <1>1, JoinIs
<1>4. ASSUME NEW i \in 1..Len(c)
      PROVE  c[i][2] = d[i][2] /\ c[i][1] \in {"-", d[i][1]}
  <2>1. CASE i <= Len(a)
    <3>1. i \in 1..Len(a)
      BY <2>1
    <3>2. c[i] = a[i] /\ d[i] = b[i]
      BY <1>2, <1>3, <3>1
    <3>3. a[i][2] = b[i][2] /\ a[i][1] \in {"-", b[i][1]}
      BY <3>1 DEF Within
    <3> QED
      BY <3>2, <3>3
  <2>2. CASE ~(i <= Len(a))
    <3>1. PICK j \in 1..Len(r) : i = Len(a) + j
      <4>1. i - Len(a) \in 1..Len(r) /\ i = Len(a) + (i - Len(a))
        BY <1>1, <1>2, <2>2
      <4> QED
        BY <4>1
    <3>2. j \in 1..Len(w)
      BY <1>1
    <3>3. c[i] = r[j] /\ d[i] = w[j]
      BY <1>2, <1>3, <3>1, <3>2
    <3>4. r[j][2] = w[j][2] /\ r[j][1] \in {"-", w[j][1]}
      BY DEF Within
    <3> QED
      BY <3>3, <3>4
  <2> QED
    BY <2>1, <2>2
<1>5. Len(c) <= Len(d)
  BY <1>1, <1>2, <1>3
<1> QED
  BY <1>2, <1>3, <1>4, <1>5 DEF Within

(* More may be written than is read. *)
LEMMA WithinMore ==
    ASSUME NEW r, NEW w, Within(r, w), NEW b \in Layouts
    PROVE  Within(r, w \o b)
<1>1. /\ r \in Layouts /\ w \in Layouts /\ Len(r) \in Nat /\ Len(w) \in Nat /\ Len(b) \in Nat
      /\ Len(r) <= Len(w)
  BY LayoutIs DEF Within
<1> PICK c : c = w \o b
  OBVIOUS
<1>2. /\ c \in Layouts /\ Len(c) = Len(w) + Len(b)
      /\ \A i \in 1..Len(w) : c[i] = w[i]
  BY <1>1 DEF Layouts
<1>3. ASSUME NEW i \in 1..Len(r)
      PROVE  r[i][2] = c[i][2] /\ r[i][1] \in {"-", c[i][1]}
  <2>1. i \in 1..Len(w) /\ r[i][2] = w[i][2] /\ r[i][1] \in {"-", w[i][1]}
    BY <1>1 DEF Within
  <2> QED
    BY <1>2, <2>1
<1>4. Len(r) <= Len(c)
  BY <1>1, <1>2
<1> QED
  BY <1>1, <1>2, <1>3, <1>4 DEF Within

(***************************************************************************)
(* What the encoders write and the decoders read                           *)
(***************************************************************************)

Shares == [dests : Nat, n : Nat, long : BOOLEAN, report : BOOLEAN]

LEMMA JoinAgain ==
    ASSUME NEW a \in Layouts, NEW b \in Layouts, NEW c \in Layouts
    PROVE  a \o (b \o c) = (a \o b) \o c
BY DEF Layouts

(* Fields written out, as what they are joined of. *)
LEMMA JoinedIs ==
    ASSUME NEW a \in Layouts, NEW b \in Layouts, NEW c \in Layouts,
           Len(c) = Len(a) + Len(b), \A i \in 1..Len(a) : c[i] = a[i],
           \A j \in 1..Len(b) : c[Len(a) + j] = b[j]
    PROVE  a \o b = c /\ Width(c) = Width(a) + Width(b) /\ Within(a, c)
<1>1. PICK e : /\ e = a \o b /\ e \in Layouts /\ Len(e) = Len(a) + Len(b)
               /\ \A i \in 1..Len(a) : e[i] = a[i]
               /\ \A j \in 1..Len(b) : e[Len(a) + j] = b[j]
  BY JoinIs
<1>2. Len(a) \in Nat /\ Len(b) \in Nat
  BY LayoutIs
<1>3. ASSUME NEW i \in 1..Len(c) PROVE e[i] = c[i]
  <2>1. CASE i <= Len(a)
    BY <1>1, <1>2, <2>1
  <2>2. CASE ~(i <= Len(a))
    <3>1. i - Len(a) \in 1..Len(b) /\ Len(a) + (i - Len(a)) = i
      BY <1>2, <2>2
    <3> QED
      BY <1>1, <3>1
  <2> QED
    BY <2>1, <2>2
<1>4. e = c
  BY <1>1, <1>3 DEF Layouts
<1>5. Width(a \o b) = Width(a) + Width(b) /\ Within(a, a \o b)
  BY WidthJoin, WithinItself, WithinMore
<1> QED
  BY <1>1, <1>4, <1>5

LEMMA NothingIs == <<>> \in Layouts /\ Width(<<>>) = 0
<1>1. <<>> \in Layouts /\ Len(<<>>) = 0
  BY DEF Layouts
<1> QED
  BY <1>1, Widths

HeaderLen(p) == IF p = "SGIP" THEN 20 ELSE 12

LEMMA HeaderIs ==
    ASSUME NEW p
    PROVE  Header(p) \in Layouts /\ Width(Header(p)) = HeaderLen(p)
<1> DEFINE a == << <<"-", 4>>, <<"type", 4>> >>
           b == << <<"node", 4>>, <<"seq", 8>> >>
           c == << <<"seq", 4>> >>
<1>1. a \in Layouts /\ b \in Layouts /\ c \in Layouts
  BY DEF Layouts, Fields, Names
<1>2. Width(a) = 8 /\ Width(b) = 12 /\ Width(c) = 4
  BY <1>1, Widths
<1>3. Header(p) = IF p = "SGIP" THEN a \o b ELSE a \o c
  BY DEF Header
<1> HIDE DEF a, b, c
<1>4. a \o b \in Layouts /\ Width(a \o b) = 20
  BY <1>1, <1>2, WidthJoin
<1>5. a \o c \in Layouts /\ Width(a \o c) = 12
  BY <1>1, <1>2, WidthJoin
<1> QED
  BY <1>3, <1>4, <1>5 DEF HeaderLen

LEMMA ContentIs ==
    ASSUME NEW d \in Shares
    PROVE  Content(d) \in Layouts /\ Width(Content(d)) = UdhLen(d) + d.n
<1> DEFINE a == << <<"-", 4>>, <<"total", 1>>, <<"number", 1>> >>
           c == << <<"content", d.n>> >>
<1>1. a \in Layouts /\ c \in Layouts /\ d.n \in Nat
  BY DEF Layouts, Fields, Names, Shares
<1>2. Width(a) = 6 /\ Width(c) = d.n
  BY <1>1, Widths
<1>3. Content(d) = Udh(d) \o c /\ Udh(d) = IF d.long THEN a ELSE <<>>
  BY DEF Content, Udh
<1> HIDE DEF a, c
<1>4. Udh(d) \in Layouts /\ Width(Udh(d)) = UdhLen(d)
  BY <1>1, <1>2, <1>3, NothingIs DEF UdhLen
<1>5. Udh(d) \o c \in Layouts /\ Width(Udh(d) \o c) = Width(Udh(d)) + Width(c)
  BY <1>1, <1>4, WidthJoin
<1> QED
  BY <1>2, <1>3, <1>4, <1>5

(* A body: fields, the content, more fields. *)
LEMMA BodyIs ==
    ASSUME NEW a \in Layouts, NEW d \in Shares, NEW t \in Layouts
    PROVE  /\ a \o Content(d) \in Layouts
           /\ a \o Content(d) \o t \in Layouts
           /\ Width(a \o Content(d) \o t) = Width(a) + UdhLen(d) + d.n + Width(t)
           /\ Within(a \o Content(d), a \o Content(d) \o t)
<1> PICK c : c = Content(d)
  OBVIOUS
<1>1. c \in Layouts /\ Width(c) = UdhLen(d) + d.n
  BY ContentIs
<1>2. /\ a \o c \in Layouts /\ Width(a \o c) = Width(a) + Width(c)
      /\ Width(a) \in Nat /\ Width(c) \in Nat
  BY <1>1, WidthJoin
<1>3. (a \o c) \o t \in Layouts /\ Width((a \o c) \o t) = Width(a \o c) + Width(t) /\ Width(t) \in Nat
  BY <1>2, WidthJoin
<1>4. Within(a \o c, (a \o c) \o t)
  BY <1>2, WithinItself, WithinMore
<1>5. d.n \in Nat /\ UdhLen(d) \in Nat
  BY DEF Shares, UdhLen
<1>6. Width((a \o c) \o t) = Width(a) + UdhLen(d) + d.n + Width(t)
  BY <1>1, <1>2, <1>3, <1>5
<1> QED
  BY <1>2, <1>3, <1>4, <1>6

(* The same with fields of the reader's own, and more after the content. *)
LEMMA BodyIsRead ==
    ASSUME NEW a \in Layouts, NEW b \in Layouts, NEW c \in Layouts, NEW t \in Layouts,
           NEW u, NEW v, Within(b, a), Len(a) = Len(b), Within(v, u)
    PROVE  Within(b \o c \o (t \o v), a \o c \o t \o u)
<1>1. PICK x : x = b \o c /\ x \in Layouts /\ Len(x) = Len(b) + Len(c)
  BY JoinIs
<1>2. PICK y : y = a \o c /\ y \in Layouts /\ Len(y) = Len(a) + Len(c)
  BY JoinIs
<1>3. Within(x, y) /\ Len(x) = Len(y)
  <2>1. Within(c, c)
    BY WithinItself
  <2>2. Within(b \o c, a \o c)
    BY <2>1, WithinJoin
  <2> QED
    BY <1>1, <1>2, <2>2
<1>4. v \in Layouts /\ u \in Layouts
  BY DEF Within
<1>5. PICK z : z = x \o t /\ Len(z) = Len(x) + Len(t)
  BY <1>1, JoinIs
<1>6. PICK w : w = y \o t /\ Len(w) = Len(y) + Len(t)
  BY <1>2, JoinIs
<1>7. Within(z, w) /\ Len(z) = Len(w)
  <2>1. Within(t, t)
    BY WithinItself
  <2>2. Within(x \o t, y \o t)
    BY <1>3, <2>1, WithinJoin
  <2> QED
    BY <1>3, <1>5, <1>6, <2>2
<1>8. Within(z \o v, w \o u)
  BY <1>7, WithinJoin
<1>9. z \o v = x \o (t \o v)
  BY <1>1, <1>4, <1>5, JoinAgain, SMTT(30)
<1> QED
  BY <1>1, <1>2, <1>6, <1>8, <1>9

(* A frame of p declares what is written, and r, read of what follows the  *)
(* header, is where it was written.                                        *)
Laid(p, y, r) ==
    \E body : /\ y.fields = Header(p) \o body /\ y.declared = HeaderLen(p) + Width(body)
              /\ Within(r, body)

LEMMA LaidIsRead ==
    ASSUME NEW p, NEW q, NEW y, NEW r, Laid(p, y, r), Header(q) = Header(p),
           Reads(q, y) = Header(q) \o r
    PROVE  Fits(q, y) /\ InStep(y) /\ Aligned(q, y)
<1>1. PICK body : /\ y.fields = Header(p) \o body /\ y.declared = HeaderLen(p) + Width(body)
                  /\ Within(r, body)
  BY DEF Laid
<1> PICK h : h = Header(p)
  OBVIOUS
<1>2. h \in Layouts /\ Width(h) = HeaderLen(p)
  BY HeaderIs
<1>3. r \in Layouts /\ body \in Layouts
  BY <1>1 DEF Within
<1>4. Width(h \o body) = HeaderLen(p) + Width(body)
  BY <1>2, <1>3, WidthJoin
<1>5. Within(h \o r, h \o body)
  BY <1>1, <1>2, WithinItself, WithinJoin
<1>6. Spans(h \o r) \subseteq Spans(h \o body) /\ Width(h \o r) <= Width(h \o body)
  BY <1>5, WithinAligned
<1>7. Fits(q, y)
  BY <1>1, <1>4, <1>6 DEF Fits
<1>8. InStep(y)
  BY <1>1, <1>4 DEF InStep
<1>9. Aligned(q, y)
  BY <1>1, <1>6 DEF Aligned
<1> QED
  BY <1>7, <1>8, <1>9

(* The logins. *)
LEMMA ConnectsLaid ==
    ASSUME NEW p \in Protocols
    PROVE  Laid(p, Connect(p), ReadConnect(p))
<1>1. CASE p \in Cmpp
  <2> DEFINE a == ReadConnect48
  <2>1. a \in Layouts /\ Len(a) = 5
    BY DEF ReadConnect48, Layouts, Fields, Names
  <2>2. Width(a) = 27
    BY <2>1, Widths DEF ReadConnect48
  <2>3. /\ Connect(p).fields = Header(p) \o a /\ Connect(p).declared = 39
        /\ ReadConnect(p) = a
    BY <1>1 DEF Connect, ReadConnect, Connect48, ReadConnect48, Request, Layout, Cmpp
  <2> HIDE DEF a
  <2>4. Within(a, a) /\ HeaderLen(p) = 12
    BY <1>1, <2>1, WithinItself DEF HeaderLen, Cmpp
  <2> QED
    BY <2>2, <2>3, <2>4 DEF Laid
<1>2. CASE p = "SMGP"
  <2> DEFINE a == ReadConnectSmgp
  <2>1. a \in Layouts /\ Len(a) = 6
    BY DEF ReadConnectSmgp, Layouts, Fields, Names
  <2>2. Width(a) = 30
    BY <2>1, Widths DEF ReadConnectSmgp
  <2>3. /\ Connect(p).fields = Header(p) \o a /\ Connect(p).declared = 42
        /\ ReadConnect(p) = a
    BY <1>2 DEF Connect, ReadConnect, ConnectSmgp, ReadConnectSmgp, Request, Layout, Cmpp
  <2> HIDE DEF a
  <2>4. Within(a, a) /\ HeaderLen(p) = 12
    BY <1>2, <2>1, WithinItself DEF HeaderLen
  <2> QED
    BY <2>2, <2>3, <2>4 DEF Laid
<1>3. CASE p = "SGIP"
  <2> DEFINE a == << <<"can_write", 1>>, <<"login_name", 16>>, <<"password", 16>> >>
             t == << <<"-", 8>> >>
             b == << <<"can_write", 1>>, <<"login_name", 16>>, <<"password", 16>>, <<"-", 8>> >>
  <2>1. a \in Layouts /\ Len(a) = 3 /\ b \in Layouts /\ Len(b) = 4
    BY DEF Layouts, Fields, Names
  <2>2. Width(b) = 41
    BY <2>1, Widths
  <2>3. /\ Connect(p).fields = Header(p) \o b /\ Connect(p).declared = 61
        /\ ReadConnect(p) = a
    BY <1>3 DEF Connect, ReadConnect, ConnectSgip, ReadConnectSgip, Request, Layout, Cmpp
  <2>4. Within(a, b) /\ HeaderLen(p) = 20
    BY <1>3, <2>1 DEF HeaderLen, Within
  <2> HIDE DEF a, b
  <2> QED
    BY <2>2, <2>3, <2>4 DEF Laid
<1> QED
  BY <1>1, <1>2, <1>3 DEF Protocols, Cmpp

LEMMA ConnectRepsLaid ==
    ASSUME NEW p \in Protocols
    PROVE  Laid(p, ConnectRep(p), IF p = "SGIP" THEN ReadConnectRepSgip ELSE ReadConnectRep(ConnectRep(p)))
<1>1. CASE p \in {"CMPP48", "SMGP"}
  <2> DEFINE a == << <<"status", 4>>, <<"-", 16>>, <<"version", 1>> >>
  <2>1. a \in Layouts /\ Len(a) = 3
    BY DEF Layouts, Fields, Names
  <2>2. Width(a) = 21
    BY <2>1, Widths
  <2>3. ConnectRep(p).fields = Header(p) \o a /\ ConnectRep(p).declared = 33
    BY <1>1 DEF ConnectRep, ConnectRep48, Answer, Layout
  <2>4. ReadConnectRep(ConnectRep(p)) = a
    BY <2>3 DEF ReadConnectRep
  <2> HIDE DEF a
  <2>5. Within(a, a) /\ HeaderLen(p) = 12
    BY <1>1, <2>1, WithinItself DEF HeaderLen
  <2> QED
    BY <1>1, <2>2, <2>3, <2>4, <2>5 DEF Laid
<1>2. CASE p = "CMPP32"
  <2> DEFINE a == << <<"status", 1>>, <<"-", 16>>, <<"version", 1>> >>
  <2>1. a \in Layouts /\ Len(a) = 3
    BY DEF Layouts, Fields, Names
  <2>2. Width(a) = 18
    BY <2>1, Widths
  <2>3. ConnectRep(p).fields = Header(p) \o a /\ ConnectRep(p).declared = 30
    BY <1>2 DEF ConnectRep, ConnectRep32, Answer, Layout
  <2>4. ReadConnectRep(ConnectRep(p)) = a
    BY <2>3 DEF ReadConnectRep
  <2> HIDE DEF a
  <2>5. Within(a, a) /\ HeaderLen(p) = 12
    BY <1>2, <2>1, WithinItself DEF HeaderLen
  <2> QED
    BY <1>2, <2>2, <2>3, <2>4, <2>5 DEF Laid
<1>3. CASE p = "SGIP"
  <2> DEFINE a == << <<"status", 1>> >>
             b == << <<"status", 1>>, <<"-", 8>> >>
  <2>1. a \in Layouts /\ Len(a) = 1 /\ b \in Layouts /\ Len(b) = 2
    BY DEF Layouts, Fields, Names
  <2>2. Width(b) = 9
    BY <2>1, Widths
  <2>3. /\ ConnectRep(p).fields = Header(p) \o b /\ ConnectRep(p).declared = 29
        /\ ReadConnectRepSgip = a
    BY <1>3 DEF ConnectRep, ConnectRepSgip, ReadConnectRepSgip, Answer, Layout
  <2>4. Within(a, b) /\ HeaderLen(p) = 20
    BY <1>3, <2>1 DEF HeaderLen, Within
  <2> HIDE DEF a, b
  <2> QED
    BY <1>3, <2>2, <2>3, <2>4 DEF Laid
<1> QED
  BY <1>1, <1>2, <1>3 DEF Protocols

(* The Submits: fields, the content and what follows it. *)
LEMMA SubmitsLaid ==
    ASSUME NEW p \in Protocols, NEW d \in Shares
    PROVE  Laid(p, Submit(p, d), ReadSubmit(p, d))
<1>1. CASE p = "CMPP48"
  <2> DEFINE a == << <<"msg_id", 8>>, <<"-", 4>>, <<"service_id", 10>>, <<"-", 35>>,
                     <<"udhi", 1>>, <<"fmt", 1>>, <<"sp_id", 6>>, <<"-", 8>>, <<"valid_time", 17>>,
                     <<"at_time", 17>>, <<"src_id", 21>>, <<"dest_len", 1>>,
                     <<"dest_ids", 32 * d.dests>>, <<"-", 1>>, <<"content_len", 1>> >>
             t == << <<"-", 20>> >>
  <2>1. a \in Layouts /\ Len(a) = 15 /\ t \in Layouts /\ Len(t) = 1
    BY DEF Layouts, Fields, Names, Shares
  <2>2. Width(a) = 131 + 32 * d.dests
    BY <2>1, Width15 DEF Shares
  <2>t. Width(t) = 20
    BY <2>1, Widths
  <2>3. /\ Submit(p, d).fields = Header(p) \o (a \o Content(d) \o t)
        /\ Submit(p, d).declared = 163 + d.dests * 32 + UdhLen(d) + d.n
        /\ ReadSubmit(p, d) = a \o Content(d)
    BY <1>1 DEF Submit, Submit48, ReadSubmit, ReadSubmit48, Request, Layout
  <2> HIDE DEF a, t
  <2>4. /\ Width(a \o Content(d) \o t) = 131 + 32 * d.dests + UdhLen(d) + d.n + 20
        /\ Within(a \o Content(d), a \o Content(d) \o t)
    BY <2>1, <2>2, <2>t, BodyIs
  <2>5. Submit(p, d).declared = HeaderLen(p) + Width(a \o Content(d) \o t)
    BY <1>1, <2>3, <2>4 DEF HeaderLen, UdhLen, Shares
  <2> QED
    BY <2>3, <2>4, <2>5 DEF Laid
<1>2. CASE p = "CMPP32"
  <2> DEFINE a == << <<"msg_id", 8>>, <<"-", 4>>, <<"service_id", 10>>, <<"-", 23>>,
                     <<"udhi", 1>>, <<"fmt", 1>>, <<"sp_id", 6>>, <<"-", 8>>, <<"valid_time", 17>>,
                     <<"at_time", 17>>, <<"src_id", 21>>, <<"dest_len", 1>>,
                     <<"dest_ids", 21 * d.dests>>, <<"content_len", 1>> >>
             t == << <<"-", 8>> >>
  <2>1. a \in Layouts /\ Len(a) = 14 /\ t \in Layouts /\ Len(t) = 1
    BY DEF Layouts, Fields, Names, Shares
  <2>2. Width(a) = 118 + 21 * d.dests
    BY <2>1, Width14 DEF Shares
  <2>t. Width(t) = 8
    BY <2>1, Widths
  <2>3. /\ Submit(p, d).fields = Header(p) \o (a \o Content(d) \o t)
        /\ Submit(p, d).declared = 138 + d.dests * 21 + UdhLen(d) + d.n
        /\ ReadSubmit(p, d) = a \o Content(d)
    BY <1>2 DEF Submit, Submit32, ReadSubmit, ReadSubmit32, Request, Layout
  <2> HIDE DEF a, t
  <2>4. /\ Width(a \o Content(d) \o t) = 118 + 21 * d.dests + UdhLen(d) + d.n + 8
        /\ Within(a \o Content(d), a \o Content(d) \o t)
    BY <2>1, <2>2, <2>t, BodyIs
  <2>5. Submit(p, d).declared = HeaderLen(p) + Width(a \o Content(d) \o t)
    BY <1>2, <2>3, <2>4 DEF HeaderLen, UdhLen, Shares
  <2> QED
    BY <2>3, <2>4, <2>5 DEF Laid
<1>3. CASE p = "SGIP"
  <2> DEFINE a == << <<"src_id", 21>>, <<"-", 21>>, <<"dest_len", 1>>,
                     <<"dest_ids", 21 * d.dests>>, <<"-", 65>>, <<"udhi", 1>>, <<"fmt", 1>>,
                     <<"-", 1>>, <<"content_len", 4>> >>
             t == << <<"-", 8>> >>
  <2>1. a \in Layouts /\ Len(a) = 9 /\ t \in Layouts /\ Len(t) = 1
    BY DEF Layouts, Fields, Names, Shares
  <2>2. Width(a) = 115 + 21 * d.dests /\ Width(t) = 8
    BY <2>1, Width9, Widths DEF Shares
  <2>3. /\ Submit(p, d).fields = Header(p) \o (a \o Content(d) \o t)
        /\ Submit(p, d).declared = 143 + d.dests * 21 + UdhLen(d) + d.n
        /\ ReadSubmit(p, d) = a \o Content(d)
    BY <1>3 DEF Submit, SubmitSgip, SubmitBodySgip, ReadSubmit, ReadSubmitSgip, Request, Layout
  <2> HIDE DEF a, t
  <2>4. /\ Width(a \o Content(d) \o t) = 115 + 21 * d.dests + UdhLen(d) + d.n + 8
        /\ Within(a \o Content(d), a \o Content(d) \o t)
    BY <2>1, <2>2, BodyIs
  <2>5. Submit(p, d).declared = HeaderLen(p) + Width(a \o Content(d) \o t)
    BY <1>3, <2>3, <2>4 DEF HeaderLen, UdhLen, Shares
  <2> QED
    BY <2>3, <2>4, <2>5 DEF Laid
<1>4. CASE p = "SMGP"
  <2> DEFINE a == << <<"-", 27>>, <<"fmt", 1>>, <<"valid_time", 17>>, <<"at_time", 17>>,
                     <<"src_id", 21>>, <<"-", 21>>, <<"dest_len", 1>>,
                     <<"dest_ids", 21 * d.dests>>, <<"content_len", 1>> >>
             b == << <<"-", 27>>, <<"fmt", 1>>, <<"valid_time", 17>>, <<"at_time", 17>>,
                     <<"src_id", 21>>, <<"-", 21>>, <<"dest_len", 1>>,
                     <<"-", 21 * d.dests>>, <<"content_len", 1>> >>
             t == << <<"-", 8>> >>
             u == << <<"tp_udhi", 5>>, <<"-", 10>> >>
             v == << <<"tp_udhi", 5>> >>
             c == Content(d)
             more == IF d.long THEN u ELSE <<>>
             tlv == IF d.long THEN v ELSE <<>>
  <2>1. /\ a \in Layouts /\ Len(a) = 9 /\ b \in Layouts /\ Len(b) = 9
        /\ t \in Layouts /\ Len(t) = 1 /\ u \in Layouts /\ Len(u) = 2 /\ v \in Layouts /\ Len(v) = 1
    BY DEF Layouts, Fields, Names, Shares
  <2>2. Width(a) = 106 + 21 * d.dests /\ Width(t) = 8 /\ Width(u) = 15
    BY <2>1, Width9, Widths, SMTT(30) DEF Shares
  <2>3. Within(b, a) /\ Within(v, u)
    BY <2>1 DEF Within
  <2>4. /\ Submit(p, d).fields = Header(p) \o (a \o c \o t \o more)
        /\ Submit(p, d).declared =
              126 + d.dests * 21 + UdhLen(d) + d.n + (IF d.long THEN 15 ELSE 0)
        /\ ReadSubmit(p, d) = b \o c \o (t \o tlv)
    BY <1>4 DEF Submit, SubmitSmgp, ReadSubmit, ReadSubmitSmgp, ReadTlvs, Request, Layout
  <2> HIDE DEF a, b, t, u, v
  <2>5. more \in Layouts /\ tlv \in Layouts /\ c \in Layouts
    BY <2>1, NothingIs, ContentIs
  <2>6. Width(more) = IF d.long THEN 15 ELSE 0
    BY <2>2, NothingIs
  <2>7. Within(tlv, more)
    BY <2>3, NothingIs, WithinItself
  <2> HIDE DEF c, more, tlv
  <2>8. Within(b \o c \o (t \o tlv), a \o c \o t \o more)
    BY <2>1, <2>3, <2>5, <2>7, BodyIsRead
  <2>9. a \o c \o t \in Layouts /\ Width(a \o c \o t) = 106 + 21 * d.dests + UdhLen(d) + d.n + 8
    BY <2>1, <2>2, BodyIs DEF c
  <2>10. Width(a \o c \o t \o more) = Width(a \o c \o t) + Width(more)
    BY <2>5, <2>9, WidthJoin
  <2>11. Submit(p, d).declared = HeaderLen(p) + Width(a \o c \o t \o more)
    BY <1>4, <2>4, <2>6, <2>9, <2>10 DEF HeaderLen, UdhLen, Shares
  <2> QED
    BY <2>4, <2>8, <2>11 DEF Laid
<1> QED
  BY <1>1, <1>2, <1>3, <1>4 DEF Protocols

(* The Delivers that are no reports. *)
LEMMA DeliversLaid ==
    ASSUME NEW p \in Protocols, NEW d \in Shares, ~d.report
    PROVE  Laid(p, Deliver(p, d), ReadDeliver(p, d))
<1>1. CASE p = "CMPP48"
  <2> DEFINE a == << <<"msg_id", 8>>, <<"dest_id", 21>>, <<"service_id", 10>>,
                     <<"-", 1>>, <<"udhi", 1>>, <<"fmt", 1>>, <<"src_id", 32>>,
                     <<"-", 1>>, <<"is_report", 1>>, <<"content_len", 1>> >>
             t == << <<"-", 20>> >>
  <2>1. a \in Layouts /\ Len(a) = 10 /\ t \in Layouts /\ Len(t) = 1
    BY DEF Layouts, Fields, Names
  <2>2. Width(a) = 77
    BY <2>1, Width10
  <2>3. Width(t) = 20
    BY <2>1, Widths
  <2>4. /\ Deliver(p, d).fields = Header(p) \o (a \o Content(d) \o t)
        /\ Deliver(p, d).declared = 109 + UdhLen(d) + d.n
    BY <1>1 DEF Deliver, Deliver48, Request, Layout
  <2>5. ReadDeliver(p, d) = a \o Content(d)
    <3> DEFINE b == << <<"msg_id", 8>>, <<"dest_id", 21>>, <<"service_id", 10>>,
                     <<"-", 1>>, <<"udhi", 1>>, <<"fmt", 1>>, <<"src_id", 32>>,
                     <<"-", 1>>, <<"is_report", 1>> >>
               l == << <<"content_len", 1>> >>
    <3>1. ReadDeliver(p, d) = b \o (l \o Content(d))
      BY <1>1 DEF ReadDeliver, ReadDeliver48
    <3>2. b \in Layouts /\ l \in Layouts /\ Content(d) \in Layouts
      BY ContentIs DEF Layouts, Fields, Names
    <3>3. Len(a) = Len(b) + Len(l) /\ \A i \in 1..Len(b) : a[i] = b[i]
      OBVIOUS
    <3>4. \A j \in 1..Len(l) : a[Len(b) + j] = l[j]
      OBVIOUS
    <3> HIDE DEF a, b, l
    <3>5. b \o l = a
      BY <2>1, <3>2, <3>3, <3>4, JoinedIs, Zenon
    <3>6. b \o (l \o Content(d)) = (b \o l) \o Content(d)
      BY <3>2, JoinAgain
    <3> QED
      BY <3>1, <3>5, <3>6
  <2> HIDE DEF a, t
  <2>6. /\ Width(a \o Content(d) \o t) = 77 + UdhLen(d) + d.n + 20
        /\ Within(a \o Content(d), a \o Content(d) \o t)
    BY <2>1, <2>2, <2>3, BodyIs
  <2>7. Deliver(p, d).declared = HeaderLen(p) + Width(a \o Content(d) \o t)
    BY <1>1, <2>4, <2>6 DEF HeaderLen, UdhLen, Shares
  <2> QED
    BY <2>4, <2>5, <2>6, <2>7 DEF Laid
<1>2. CASE p = "CMPP32"
  <2> DEFINE a == << <<"msg_id", 8>>, <<"dest_id", 21>>, <<"service_id", 10>>,
                     <<"-", 1>>, <<"udhi", 1>>, <<"fmt", 1>>, <<"src_id", 21>>,
                     <<"is_report", 1>>, <<"content_len", 1>> >>
             t == << <<"-", 8>> >>
  <2>1. a \in Layouts /\ Len(a) = 9 /\ t \in Layouts /\ Len(t) = 1
    BY DEF Layouts, Fields, Names
  <2>2. Width(a) = 65
    BY <2>1, Width9
  <2>3. Width(t) = 8
    BY <2>1, Widths
  <2>4. /\ Deliver(p, d).fields = Header(p) \o (a \o Content(d) \o t)
        /\ Deliver(p, d).declared = 85 + UdhLen(d) + d.n
    BY <1>2 DEF Deliver, Deliver32, Request, Layout
  <2>5. ReadDeliver(p, d) = a \o Content(d)
    <3> DEFINE b == << <<"msg_id", 8>>, <<"dest_id", 21>>, <<"service_id", 10>>,
                     <<"-", 1>>, <<"udhi", 1>>, <<"fmt", 1>>, <<"src_id", 21>>,
                     <<"is_report", 1>> >>
               l == << <<"content_len", 1>> >>
    <3>1. ReadDeliver(p, d) = b \o (l \o Content(d))
      BY <1>2 DEF ReadDeliver, ReadDeliver32
    <3>2. b \in Layouts /\ l \in Layouts /\ Content(d) \in Layouts
      BY ContentIs DEF Layouts, Fields, Names
    <3>3. Len(a) = Len(b) + Len(l) /\ \A i \in 1..Len(b) : a[i] = b[i]
      OBVIOUS
    <3>4. \A j \in 1..Len(l) : a[Len(b) + j] = l[j]
      OBVIOUS
    <3> HIDE DEF a, b, l
    <3>5. b \o l = a
      BY <2>1, <3>2, <3>3, <3>4, JoinedIs, Zenon
    <3>6. b \o (l \o Content(d)) = (b \o l) \o Content(d)
      BY <3>2, JoinAgain
    <3> QED
      BY <3>1, <3>5, <3>6
  <2> HIDE DEF a, t
  <2>6. /\ Width(a \o Content(d) \o t) = 65 + UdhLen(d) + d.n + 8
        /\ Within(a \o Content(d), a \o Content(d) \o t)
    BY <2>1, <2>2, <2>3, BodyIs
  <2>7. Deliver(p, d).declared = HeaderLen(p) + Width(a \o Content(d) \o t)
    BY <1>2, <2>4, <2>6 DEF HeaderLen, UdhLen, Shares
  <2> QED
    BY <2>4, <2>5, <2>6, <2>7 DEF Laid
<1>3. CASE p = "SGIP"
  <2> DEFINE a == << <<"src_id", 21>>, <<"dest_id", 21>>, <<"-", 1>>, <<"udhi", 1>>,
                     <<"fmt", 1>>, <<"content_len", 4>> >>
             t == << <<"-", 8>> >>
  <2>1. a \in Layouts /\ Len(a) = 6 /\ t \in Layouts /\ Len(t) = 1
    BY DEF Layouts, Fields, Names
  <2>2. Width(a) = 49
    BY <2>1, Widths
  <2>3. Width(t) = 8
    BY <2>1, Widths
  <2>4. /\ Deliver(p, d).fields = Header(p) \o (a \o Content(d) \o t)
        /\ Deliver(p, d).declared = 77 + UdhLen(d) + d.n
    BY <1>3 DEF Deliver, DeliverSgip, Request, Layout
  <2>5. ReadDeliver(p, d) = a \o Content(d)
    BY <1>3 DEF ReadDeliver, ReadDeliverSgip
  <2> HIDE DEF a, t
  <2>6. /\ Width(a \o Content(d) \o t) = 49 + UdhLen(d) + d.n + 8
        /\ Within(a \o Content(d), a \o Content(d) \o t)
    BY <2>1, <2>2, <2>3, BodyIs
  <2>7. Deliver(p, d).declared = HeaderLen(p) + Width(a \o Content(d) \o t)
    BY <1>3, <2>4, <2>6 DEF HeaderLen, UdhLen, Shares
  <2> QED
    BY <2>4, <2>5, <2>6, <2>7 DEF Laid
<1>4. CASE p = "SMGP"
  <2> DEFINE a == << <<"msg_id", 10>>, <<"is_report", 1>>, <<"fmt", 1>>, <<"receive_time", 14>>,
                     <<"src_id", 21>>, <<"dest_id", 21>>, <<"content_len", 1>> >>
             t == << <<"-", 8>> >>
             v == << <<"tp_udhi", 5>> >>
             c == Content(d)
             tlv == IF d.long THEN v ELSE <<>>
  <2>1. /\ a \in Layouts /\ Len(a) = 7 /\ t \in Layouts /\ Len(t) = 1
        /\ v \in Layouts /\ Len(v) = 1
    BY DEF Layouts, Fields, Names
  <2>2. Width(a) = 69
    BY <2>1, Widths
  <2>3. Width(t) = 8 /\ Width(v) = 5
    BY <2>1, Widths
  <2>4. /\ Deliver(p, d).fields = Header(p) \o (a \o c \o t \o tlv)
        /\ Deliver(p, d).declared = 89 + UdhLen(d) + d.n + (IF d.long THEN 5 ELSE 0)
    BY <1>4 DEF Deliver, DeliverSmgp, Request, Layout
  <2>5. c \in Layouts /\ tlv \in Layouts /\ Width(tlv) = IF d.long THEN 5 ELSE 0
    BY <2>1, <2>3, NothingIs, ContentIs
  <2>6. ReadDeliver(p, d) = a \o (c \o (t \o tlv))
    BY <1>4 DEF ReadDeliver, ReadDeliverSmgp, ReadTlvs
  <2> HIDE DEF a, t, v, c, tlv
  <2>7. t \o tlv \in Layouts
    BY <2>1, <2>5, WidthJoin
  <2>8. ReadDeliver(p, d) = a \o c \o (t \o tlv)
    <3> PICK x : x = t \o tlv
      OBVIOUS
    <3>1. a \o (c \o x) = a \o c \o x
      BY <2>1, <2>5, <2>7, JoinAgain
    <3> QED
      BY <2>6, <3>1
  <2>9. Within(a \o c \o (t \o tlv), a \o c \o t \o tlv)
    BY <2>1, <2>5, WithinItself, BodyIsRead
  <2>10. a \o c \o t \in Layouts /\ Width(a \o c \o t) = 69 + UdhLen(d) + d.n + 8
    BY <2>1, <2>2, <2>3, BodyIs DEF c
  <2>11. Width(a \o c \o t \o tlv) = Width(a \o c \o t) + Width(tlv)
    BY <2>5, <2>10, WidthJoin
  <2>12. Deliver(p, d).declared = HeaderLen(p) + Width(a \o c \o t \o tlv)
    BY <1>4, <2>4, <2>5, <2>10, <2>11 DEF HeaderLen, UdhLen, Shares
  <2> QED
    BY <2>4, <2>8, <2>9, <2>12 DEF Laid
<1> QED
  BY <1>1, <1>2, <1>3, <1>4 DEF Protocols

(* The reports of CMPP 3.0 and of SGIP, each where its decoder looks. *)
LEMMA ReportsLaid ==
    ASSUME NEW d \in Shares, d.report
    PROVE  /\ Laid("CMPP48", Report48(d), ReadDeliver48(d))
           /\ Laid("SGIP", ReportSgip(d), ReadReportSgip)
<1>1. Laid("CMPP48", Report48(d), ReadDeliver48(d))
  <2> DEFINE a == << <<"msg_id", 8>>, <<"dest_id", 21>>, <<"service_id", 10>>, <<"-", 1>>,
                     <<"udhi", 1>>, <<"fmt", 1>>, <<"src_id", 32>>, <<"-", 1>>, <<"is_report", 1>> >>
             b == << <<"-", 1>>, <<"passage_msg_id", 8>>, <<"state", 7>>, <<"submit_time", 10>>,
                     <<"done_time", 10>>, <<"src_id", 32>> >>
             t == << <<"-", 24>> >>
             s == << <<"msg_id", 8>>, <<"dest_id", 21>>, <<"service_id", 10>>, <<"-", 1>>,
                     <<"udhi", 1>>, <<"fmt", 1>>, <<"src_id", 32>>, <<"-", 1>>, <<"is_report", 1>>,
                     <<"-", 1>>, <<"passage_msg_id", 8>>, <<"state", 7>>, <<"submit_time", 10>>,
                     <<"done_time", 10>>, <<"src_id", 32>> >>
             body == << <<"msg_id", 8>>, <<"dest_id", 21>>, <<"service_id", 10>>, <<"-", 1>>,
                     <<"udhi", 1>>, <<"fmt", 1>>, <<"src_id", 32>>, <<"-", 1>>, <<"is_report", 1>>,
                     <<"-", 1>>, <<"passage_msg_id", 8>>, <<"state", 7>>, <<"submit_time", 10>>,
                     <<"done_time", 10>>, <<"src_id", 32>>, <<"-", 24>> >>
  <2>1. /\ a \in Layouts /\ Len(a) = 9 /\ b \in Layouts /\ Len(b) = 6
        /\ t \in Layouts /\ Len(t) = 1
    BY DEF Layouts, Fields, Names
  <2>2. Width(a) = 76
    BY <2>1, Width9
  <2>3. Width(b) = 68
    BY <2>1, Widths
  <2>4. Width(t) = 24
    BY <2>1, Widths
  <2>5. /\ Report48(d).fields = Header("CMPP48") \o body /\ Report48(d).declared = 180
        /\ ReadDeliver48(d) = a \o b
    BY DEF Report48, ReadDeliver48, Request, Layout
  <2>6. s \in Layouts /\ Len(s) = 15 /\ body \in Layouts /\ Len(body) = 16
    BY DEF Layouts, Fields, Names
  <2>7. Len(s) = Len(a) + Len(b) /\ \A i \in 1..Len(a) : s[i] = a[i]
    OBVIOUS
  <2>8. \A j \in 1..Len(b) : s[Len(a) + j] = b[j]
    OBVIOUS
  <2>9. Len(body) = Len(s) + Len(t) /\ \A i \in 1..Len(s) : body[i] = s[i]
    OBVIOUS
  <2>10. \A j \in 1..Len(t) : body[Len(s) + j] = t[j]
    OBVIOUS
  <2> HIDE DEF a, b, t, s, body
  <2>11. a \o b = s /\ Width(s) = Width(a) + Width(b)
    BY <2>1, <2>6, <2>7, <2>8, JoinedIs, ZenonT(40)
  <2>12. Width(body) = Width(s) + Width(t) /\ Within(s, body)
    BY <2>1, <2>6, <2>9, <2>10, JoinedIs, ZenonT(40)
  <2>13. HeaderLen("CMPP48") = 12
    BY DEF HeaderLen
  <2> QED
    BY <2>2, <2>3, <2>4, <2>5, <2>11, <2>12, <2>13, SMTT(30) DEF Laid
<1>2. Laid("SGIP", ReportSgip(d), ReadReportSgip)
  <2> DEFINE a == << <<"msg_id", 12>>, <<"-", 1>>, <<"src_id", 21>>, <<"state", 1>>,
                     <<"error_code", 1>> >>
             b == << <<"msg_id", 12>>, <<"-", 1>>, <<"src_id", 21>>, <<"state", 1>>,
                     <<"error_code", 1>>, <<"-", 8>> >>
  <2>1. a \in Layouts /\ Len(a) = 5 /\ b \in Layouts /\ Len(b) = 6
    BY DEF Layouts, Fields, Names
  <2>2. Width(b) = 44
    BY <2>1, Widths
  <2>3. /\ ReportSgip(d).fields = Header("SGIP") \o b /\ ReportSgip(d).declared = 64
        /\ ReadReportSgip = a
    BY DEF ReportSgip, ReadReportSgip, Request, Layout
  <2>4. Within(a, b) /\ HeaderLen("SGIP") = 20
    BY <2>1 DEF HeaderLen, Within
  <2> HIDE DEF a, b
  <2> QED
    BY <2>2, <2>3, <2>4 DEF Laid
<1> QED
  BY <1>1, <1>2

(* The answers. *)
LEMMA RepliesLaid ==
    /\ \A p \in Protocols : Laid(p, SubmitResp(p), ReadResp(p))
    /\ \A p \in Cmpp : Laid(p, DeliverResp(p), ReadResp(p))
    /\ Laid("CMPP48", ReportResp("CMPP48"), ReadResp48)
    /\ Laid("SGIP", ReportResp("SGIP"), ReadReportRespSgip)
<1> DEFINE a == << <<"msg_id", 8>>, <<"result", 4>> >>
           b == << <<"msg_id", 8>>, <<"result", 1>> >>
           c == << <<"msg_id", 10>>, <<"result", 4>> >>
           d == << <<"result", 1>>, <<"-", 8>> >>
           e == << <<"result", 1>> >>
<1>1. /\ a \in Layouts /\ Len(a) = 2 /\ b \in Layouts /\ Len(b) = 2 /\ c \in Layouts /\ Len(c) = 2
      /\ d \in Layouts /\ Len(d) = 2 /\ e \in Layouts /\ Len(e) = 1
  BY DEF Layouts, Fields, Names
<1>2. Width(a) = 12
  BY <1>1, Widths
<1>3. Width(b) = 9
  BY <1>1, Widths
<1>4. Width(c) = 14
  BY <1>1, Widths
<1>5. Width(d) = 9
  BY <1>1, Widths
<1>6. Within(e, d)
  BY <1>1 DEF Within
<1>7. /\ ReadResp48 = a /\ ReadResp32 = b /\ ReadRespSmgp = c
      /\ ReadRespSgip = e /\ ReadReportRespSgip = e
  BY DEF ReadResp48, ReadResp32, ReadRespSmgp, ReadRespSgip, ReadReportRespSgip
<1>8. HeaderLen("SGIP") = 20 /\ \A p \in Protocols \ {"SGIP"} : HeaderLen(p) = 12
  BY DEF HeaderLen
<1>9. SubmitResp48.fields = Header("CMPP48") \o a /\ SubmitResp48.declared = 24
  BY DEF SubmitResp48, Answer, Layout
<1>10. SubmitResp32.fields = Header("CMPP32") \o b /\ SubmitResp32.declared = 21
  BY DEF SubmitResp32, Answer, Layout
<1>11. SubmitRespSmgp.fields = Header("SMGP") \o c /\ SubmitRespSmgp.declared = 26
  BY DEF SubmitRespSmgp, Answer, Layout
<1>12. SubmitRespSgip.fields = Header("SGIP") \o d /\ SubmitRespSgip.declared = 29
  BY DEF SubmitRespSgip, Answer, Layout
<1>13. DeliverResp48("CMPP48").fields = Header("CMPP48") \o a /\ DeliverResp48("CMPP48").declared = 24
  BY DEF DeliverResp48, Answer, Layout
<1>14. DeliverResp32.fields = Header("CMPP32") \o b /\ DeliverResp32.declared = 21
  BY DEF DeliverResp32, Answer, Layout
<1>15. ReportResp48("CMPP48").fields = Header("CMPP48") \o a /\ ReportResp48("CMPP48").declared = 24
  BY DEF ReportResp48, Answer, Layout
<1>16. ReportRespSgip.fields = Header("SGIP") \o d /\ ReportRespSgip.declared = 29
  BY DEF ReportRespSgip, Answer, Layout
<1> HIDE DEF a, b, c, d, e
<1>17. Within(a, a) /\ Within(b, b) /\ Within(c, c)
  BY <1>1, WithinItself
<1>18. Laid("CMPP48", SubmitResp48, a)
  BY <1>2, <1>17, <1>8, <1>9 DEF Laid, Protocols
<1>19. Laid("CMPP32", SubmitResp32, b)
  BY <1>3, <1>17, <1>8, <1>10 DEF Laid, Protocols
<1>20. Laid("SMGP", SubmitRespSmgp, c)
  BY <1>4, <1>17, <1>8, <1>11 DEF Laid, Protocols
<1>21. Laid("SGIP", SubmitRespSgip, e)
  BY <1>5, <1>6, <1>8, <1>12 DEF Laid, Protocols
<1>22. Laid("CMPP48", DeliverResp48("CMPP48"), a)
  BY <1>2, <1>17, <1>8, <1>13 DEF Laid, Protocols
<1>23. Laid("CMPP32", DeliverResp32, b)
  BY <1>3, <1>17, <1>8, <1>14 DEF Laid, Protocols
<1>24. Laid("CMPP48", ReportResp48("CMPP48"), a)
  BY <1>2, <1>17, <1>8, <1>15 DEF Laid, Protocols
<1>25. Laid("SGIP", ReportRespSgip, e)
  BY <1>5, <1>6, <1>8, <1>16 DEF Laid, Protocols
<1>26. \A p \in Protocols : Laid(p, SubmitResp(p), ReadResp(p))
  BY <1>7, <1>18, <1>19, <1>20, <1>21 DEF Protocols, SubmitResp, ReadResp
<1>27. \A p \in Cmpp : Laid(p, DeliverResp(p), ReadResp(p))
  BY <1>7, <1>22, <1>23 DEF Cmpp, DeliverResp, ReadResp
<1>28. /\ Laid("CMPP48", ReportResp("CMPP48"), ReadResp48)
       /\ Laid("SGIP", ReportResp("SGIP"), ReadReportRespSgip)
  BY <1>7, <1>24, <1>25 DEF ReportResp
<1> QED
  BY <1>26, <1>27, <1>28

(* Frames without a body to read, and the heartbeat of SGIP. *)
LEMMA HeartbeatsLaid ==
    /\ \A p \in Protocols \ {"SGIP"} :
          /\ Laid(p, ActiveTest48(p), <<>>) /\ Laid(p, Terminate48(p), <<>>)
          /\ Laid(p, ActiveTestResp(p), <<>>)
    /\ Laid("SGIP", TerminateSgip, <<>>)
    /\ Laid("SGIP", ActiveTestSgip, ReadSubmitSgip(ActiveTestSgip.share))
<1>1. ASSUME NEW p \in Protocols \ {"SGIP"}
      PROVE  /\ Laid(p, ActiveTest48(p), <<>>) /\ Laid(p, Terminate48(p), <<>>)
             /\ Laid(p, ActiveTestResp(p), <<>>)
  <2> DEFINE a == << <<"-", 1>> >>
  <2>0. PICK z : z = <<>>
    OBVIOUS
  <2>1. a \in Layouts /\ Len(a) = 1 /\ z \in Layouts /\ Width(z) = 0 /\ Len(z) = 0
    BY <2>0, NothingIs DEF Layouts, Fields, Names
  <2>2. Width(a) = 1
    BY <2>1, Widths
  <2>3. Within(z, z) /\ Within(z, a)
    BY <2>1 DEF Within
  <2>4. /\ ActiveTest48(p).fields = Header(p) \o z /\ ActiveTest48(p).declared = 12
        /\ Terminate48(p).fields = Header(p) \o z /\ Terminate48(p).declared = 12
        /\ ActiveTestResp(p).fields = Header(p) \o a /\ ActiveTestResp(p).declared = 13
    BY <2>0 DEF ActiveTest48, Terminate48, ActiveTestResp, Request, Answer, Layout
  <2>5. HeaderLen(p) = 12
    BY DEF HeaderLen
  <2> HIDE DEF a
  <2>6. Laid(p, ActiveTest48(p), z)
    BY <2>1, <2>3, <2>4, <2>5 DEF Laid
  <2>7. Laid(p, Terminate48(p), z)
    BY <2>1, <2>3, <2>4, <2>5 DEF Laid
  <2>8. Laid(p, ActiveTestResp(p), z)
    BY <2>2, <2>3, <2>4, <2>5 DEF Laid
  <2> QED
    BY <2>0, <2>6, <2>7, <2>8
<1>2. Laid("SGIP", TerminateSgip, <<>>)
  <2>0. PICK z : z = <<>>
    OBVIOUS
  <2>1. z \in Layouts /\ Width(z) = 0 /\ Within(z, z)
    BY <2>0, NothingIs, WithinItself
  <2>2. TerminateSgip.fields = Header("SGIP") \o z /\ TerminateSgip.declared = 20
    BY <2>0 DEF TerminateSgip, Request, Layout
  <2>3. HeaderLen("SGIP") = 20
    BY DEF HeaderLen
  <2>4. Laid("SGIP", TerminateSgip, z)
    BY <2>1, <2>2, <2>3 DEF Laid
  <2> QED
    BY <2>0, <2>4
<1>3. Laid("SGIP", ActiveTestSgip, ReadSubmitSgip(ActiveTestSgip.share))
  <2> DEFINE d == [dests |-> 1, n |-> 4, long |-> FALSE, report |-> FALSE]
  <2>1. d \in Shares /\ d.dests = 1 /\ d.n = 4 /\ UdhLen(d) = 0
    BY DEF Shares, UdhLen
  <2>2. /\ ActiveTestSgip.fields = Header("SGIP") \o SubmitBodySgip(d)
        /\ ActiveTestSgip.declared = 164 + d.n /\ ActiveTestSgip.share = d
    BY DEF ActiveTestSgip, Request, Layout
  <2>3. /\ SubmitSgip(d).fields = Header("SGIP") \o SubmitBodySgip(d)
        /\ SubmitSgip(d).declared = 143 + d.dests * 21 + UdhLen(d) + d.n
    BY DEF SubmitSgip, Request, Layout
  <2> HIDE DEF d
  <2>4. Laid("SGIP", SubmitSgip(d), ReadSubmitSgip(d))
    BY <2>1, SubmitsLaid DEF Submit, ReadSubmit, Protocols
  <2>5. /\ ActiveTestSgip.fields = SubmitSgip(d).fields
        /\ ActiveTestSgip.declared = SubmitSgip(d).declared
    BY <2>1, <2>2, <2>3
  <2> QED
    BY <2>2, <2>4, <2>5 DEF Laid
<1> QED
  BY <1>1, <1>2, <1>3

(***************************************************************************)
(* Frames and their readers                                                *)
(***************************************************************************)

(* A codec makes sense of its own frames; those of CMPP share their types. *)
Speaks(p, q) == p = q \/ (p \in Cmpp /\ q \in Cmpp)

LEMMA TypesShared ==
    ASSUME NEW p \in Protocols, NEW q \in Protocols, Speaks(p, q), NEW k \in Kinds
    PROVE  get_type_enum(q, get_type_id(p, k)) = k /\ Header(q) = Header(p)
<1>1. get_type_enum(p, get_type_id(p, k)) = k
  BY TypesMatch
<1>2. CASE p = q
  BY <1>1, <1>2
<1>3. CASE p \in Cmpp /\ q \in Cmpp
  <2>1. p # "SGIP" /\ q # "SGIP" /\ p # "SMGP" /\ q # "SMGP"
    BY <1>3 DEF Cmpp
  <2>2. \A id : get_type_enum(q, id) = get_type_enum(p, id)
    BY <1>3, <2>1 DEF get_type_enum
  <2> QED
    BY <1>1, <2>1, <2>2 DEF Header
<1> QED
  BY <1>2, <1>3 DEF Speaks

(* A frame of a known type is understood if it is laid out as it is read. *)
LEMMA ReadWell ==
    ASSUME NEW p \in Protocols, NEW q \in Protocols, Speaks(p, q), NEW k \in Kinds, NEW b, NEW y,
           y.type = <<get_type_id(p, k), b>>, k = "Report" => q = "SGIP",
           Laid(p, y, BodyOf(q, k, b, y))
    PROVE  Understood(q, y)
<1>1. y.type[1] = get_type_id(p, k) /\ y.type[2] = b
  OBVIOUS
<1>2. get_type_enum(q, get_type_id(p, k)) = k /\ Header(q) = Header(p)
  BY TypesShared
<1>3. KindOf(q, y) = k
  BY <1>1, <1>2 DEF KindOf
<1>4. Decodes(q, y)
  BY <1>3 DEF Decodes, Kinds
<1>5. Reads(q, y) = Header(q) \o BodyOf(q, k, b, y)
  BY <1>1, <1>3 DEF Reads
<1>6. Fits(q, y) /\ InStep(y) /\ Aligned(q, y)
  BY <1>2, <1>5, LaidIsRead
<1> QED
  BY <1>4, <1>6 DEF Understood

(* Frames as the encoders write them.  The heartbeat of SGIP is a Submit,  *)
(* and is answered as one.                                                 *)
Written(f) ==
    /\ f.p \in Protocols /\ f.kind \in Kinds
    /\ f.answer => f.kind # "Terminate" /\ ~(f.p = "SGIP" /\ f.kind = "ActiveTest")
    /\ ~f.answer => f.share \in Shares /\ (f.share.report <=> f.kind = "Report")

(* The frames of this code that this code does not read as they were       *)
(* written, as FramesUnderstood of Session names them.                     *)
Garbled(f) ==
    \/ f.p \in {"SGIP", "SMGP"} /\ f.answer /\ f.kind = "Deliver"
    \/ f.p \in {"SMGP", "CMPP32"} /\ f.kind = "Report"

(* Every answer but these is read as it was written. *)
LEMMA AnswersAreRead ==
    ASSUME NEW q \in Protocols, NEW f, Written(f), f.answer, ~Garbled(f),
           f.p = q \/ (f.kind = "Connect" /\ Speaks(f.p, q))
    PROVE  Understood(q, LayoutOf(f))
<1> DEFINE p == f.p
           y == LayoutOf(f)
           k == IF f.kind = "ActiveTest" THEN f.kind ELSE Typed(p, f.kind)
<1>1. /\ p \in Protocols /\ f.kind \in Kinds \ {"Terminate"} /\ Speaks(p, q)
      /\ ~(p = "SGIP" /\ f.kind = "ActiveTest")
  BY DEF Written, Speaks
<1>2. y = ReceiptOf(p, f.kind) /\ y.type = <<get_type_id(p, k), TRUE>>
  <2>1. ReceiptOf(p, f.kind).type = <<get_type_id(p, k), TRUE>>
    BY <1>1, ReceiptTypes
  <2> QED
    BY <2>1 DEF LayoutOf
<1>3. k \in Kinds /\ (k = "Report" => q = "SGIP")
  BY <1>1 DEF Kinds, Typed
<1>4. Laid(p, y, BodyOf(q, k, TRUE, y))
  <2>1. CASE f.kind = "Connect"
    <3>1. y = ConnectRep(p) /\ k = "Connect"
      BY <1>2, <2>1 DEF ReceiptOf, Typed
    <3>2. BodyOf(q, "Connect", TRUE, y) = IF q = "SGIP" THEN ReadConnectRepSgip ELSE ReadConnectRep(y)
      BY DEF BodyOf
    <3>3. q = "SGIP" <=> p = "SGIP"
      BY <1>1 DEF Speaks, Cmpp
    <3>4. Laid(p, ConnectRep(p), IF p = "SGIP" THEN ReadConnectRepSgip ELSE ReadConnectRep(ConnectRep(p)))
      BY <1>1, ConnectRepsLaid
    <3> QED
      BY <3>1, <3>2, <3>3, <3>4
  <2>2. CASE f.kind = "Submit"
    <3>1. y = SubmitResp(p) /\ k = "Submit" /\ p = q
      BY <1>2, <2>2 DEF ReceiptOf, Typed
    <3>2. BodyOf(q, "Submit", TRUE, y) = ReadResp(q)
      BY DEF BodyOf
    <3> QED
      BY <1>1, <3>1, <3>2, RepliesLaid
  <2>3. CASE f.kind = "Deliver"
    <3>1. y = DeliverResp(p) /\ k = "Deliver" /\ p = q
      BY <1>2, <2>3 DEF ReceiptOf, Typed
    <3>2. BodyOf(q, "Deliver", TRUE, y) = ReadResp(q)
      BY DEF BodyOf
    <3>3. p \in Cmpp
      BY <1>1, <2>3 DEF Garbled, Protocols, Cmpp
    <3> QED
      BY <3>1, <3>2, <3>3, RepliesLaid
  <2>4. CASE f.kind = "Report"
    <3>1. y = ReportResp(p) /\ p = q
      BY <1>2, <2>4 DEF ReceiptOf
    <3>2. p \in {"CMPP48", "SGIP"}
      BY <1>1, <2>4 DEF Garbled, Protocols
    <3>3. CASE p = "CMPP48"
      <4>1. k = "Deliver"
        BY <2>4, <3>3 DEF Typed
      <4>2. BodyOf(q, "Deliver", TRUE, y) = ReadResp48
        BY <3>1, <3>3 DEF BodyOf, ReadResp
      <4> QED
        BY <3>1, <3>3, <4>1, <4>2, RepliesLaid
    <3>4. CASE p = "SGIP"
      <4>1. k = "Report"
        BY <2>4, <3>4 DEF Typed
      <4>2. BodyOf(q, "Report", TRUE, y) = ReadReportRespSgip
        BY DEF BodyOf
      <4> QED
        BY <3>1, <3>4, <4>1, <4>2, RepliesLaid
    <3> QED
      BY <3>2, <3>3, <3>4
  <2>5. CASE f.kind = "ActiveTest"
    <3>1. y = ActiveTestResp(p) /\ k = "ActiveTest"
      BY <1>2, <2>5 DEF ReceiptOf
    <3>2. BodyOf(q, "ActiveTest", TRUE, y) = <<>>
      BY DEF BodyOf
    <3> QED
      BY <1>1, <2>5, <3>1, <3>2, HeartbeatsLaid
  <2> QED
    BY <1>1, <2>1, <2>2, <2>3, <2>4, <2>5 DEF Kinds
<1> HIDE DEF p, y, k
<1>5. Understood(q, y)
  BY <1>1, <1>2, <1>3, <1>4, ReadWell DEF p
<1> QED
  BY <1>5 DEF y

(* Every request but those reports is. *)
LEMMA RequestsAreRead ==
    ASSUME NEW q \in Protocols, NEW f, Written(f), ~f.answer, ~Garbled(f),
           f.p = q \/ (f.kind = "Connect" /\ Speaks(f.p, q))
    PROVE  Understood(q, LayoutOf(f))
<1> DEFINE p == f.p
           y == LayoutOf(f)
           d == f.share
           k == Typed(p, f.kind)
<1>1. p \in Protocols /\ f.kind \in Kinds /\ Speaks(p, q) /\ d \in Shares /\ (d.report <=> f.kind = "Report")
  BY DEF Written, Speaks
<1>2. y = PartOf(p, f.kind, d) /\ y.type = <<get_type_id(p, k), FALSE>>
  <2>1. PartOf(p, f.kind, d).type = <<get_type_id(p, k), FALSE>>
    BY <1>1, PartTypes
  <2> QED
    BY <2>1 DEF LayoutOf
<1>3. k \in Kinds /\ (k = "Report" => q = "SGIP")
  BY <1>1 DEF Kinds, Typed, Speaks, Cmpp
<1>4. Laid(p, y, BodyOf(q, k, FALSE, y))
  <2>1. CASE f.kind = "Connect"
    <3>1. y = Connect(p) /\ k = "Connect"
      BY <1>2, <2>1 DEF PartOf, Typed
    <3>2. BodyOf(q, "Connect", FALSE, y) = ReadConnect(q)
      BY DEF BodyOf
    <3>3. ReadConnect(q) = ReadConnect(p)
      BY <1>1 DEF Speaks, Cmpp, ReadConnect
    <3> QED
      BY <1>1, <3>1, <3>2, <3>3, ConnectsLaid
  <2>2. CASE f.kind = "Submit"
    <3>1. y = Submit(p, d) /\ k = "Submit" /\ p = q
      BY <1>2, <2>2 DEF PartOf, Typed
    <3>2. BodyOf(q, "Submit", FALSE, y) = ReadSubmit(q, y.share)
      BY DEF BodyOf
    <3>3. Submit(p, d).share = d
      BY <1>1 DEF Submit, Submit48, Submit32, SubmitSmgp, SubmitSgip, Request, Layout, Protocols
    <3> QED
      BY <1>1, <3>1, <3>2, <3>3, SubmitsLaid
  <2>3. CASE f.kind = "Deliver"
    <3>1. y = Deliver(p, d) /\ k = "Deliver" /\ p = q
      BY <1>2, <2>3 DEF PartOf, Typed
    <3>2. BodyOf(q, "Deliver", FALSE, y) = ReadDeliver(q, y.share)
      BY DEF BodyOf
    <3>3. Deliver(p, d).share = d
      BY <1>1 DEF Deliver, Deliver48, Deliver32, DeliverSmgp, DeliverSgip, Request, Layout, Protocols
    <3> QED
      BY <1>1, <2>3, <3>1, <3>2, <3>3, DeliversLaid
  <2>4. CASE f.kind = "Report"
    <3>1. y = Report(p, d) /\ p = q
      BY <1>2, <2>4 DEF PartOf
    <3>2. p \in {"CMPP48", "SGIP"}
      BY <1>1, <2>4 DEF Garbled, Protocols
    <3>3. CASE p = "CMPP48"
      <4>1. k = "Deliver" /\ y = Report48(d)
        BY <2>4, <3>1, <3>3 DEF Typed, Report
      <4>2. Report48(d).share = d
        BY DEF Report48, Request, Layout
      <4>3. BodyOf(q, "Deliver", FALSE, y) = ReadDeliver48(y.share)
        BY <3>1, <3>3 DEF BodyOf, ReadDeliver
      <4> QED
        BY <1>1, <2>4, <3>3, <4>1, <4>2, <4>3, ReportsLaid
    <3>4. CASE p = "SGIP"
      <4>1. k = "Report" /\ y = ReportSgip(d)
        BY <2>4, <3>1, <3>4 DEF Typed, Report
      <4>2. BodyOf(q, "Report", FALSE, y) = ReadReportSgip
        BY DEF BodyOf
      <4> QED
        BY <1>1, <2>4, <3>4, <4>1, <4>2, ReportsLaid
    <3> QED
      BY <3>2, <3>3, <3>4
  <2>5. CASE f.kind = "ActiveTest"
    <3>1. CASE p # "SGIP"
      <4>1. y = ActiveTest48(p) /\ k = "ActiveTest"
        BY <1>2, <2>5, <3>1 DEF PartOf, Typed
      <4>2. BodyOf(q, "ActiveTest", FALSE, y) = <<>>
        BY DEF BodyOf
      <4> QED
        BY <1>1, <3>1, <4>1, <4>2, HeartbeatsLaid
    <3>2. CASE p = "SGIP"
      <4>1. y = ActiveTestSgip /\ k = "Submit" /\ q = "SGIP"
        BY <1>1, <1>2, <2>5, <3>2 DEF PartOf, Typed, Speaks, Cmpp
      <4>2. BodyOf(q, "Submit", FALSE, y) = ReadSubmitSgip(y.share)
        BY <4>1 DEF BodyOf, ReadSubmit
      <4> QED
        BY <3>2, <4>1, <4>2, HeartbeatsLaid
    <3> QED
      BY <3>1, <3>2
  <2>6. CASE f.kind = "Terminate"
    <3>1. y = (IF p = "SGIP" THEN TerminateSgip ELSE Terminate48(p)) /\ k = "Terminate"
      BY <1>2, <2>6 DEF PartOf, Typed
    <3>2. BodyOf(q, "Terminate", FALSE, y) = <<>>
      BY DEF BodyOf
    <3> QED
      BY <1>1, <3>1, <3>2, HeartbeatsLaid
  <2> QED
    BY <1>1, <2>1, <2>2, <2>3, <2>4, <2>5, <2>6 DEF Kinds
<1> HIDE DEF p, y, d, k
<1>5. Understood(q, y)
  BY <1>1, <1>2, <1>3, <1>4, ReadWell DEF p
<1> QED
  BY <1>5 DEF y

(* The shares of a message's frames. *)
LEMMA PartsAre ==
    ASSUME NEW n \in Nat
    PROVE  \A i \in DOMAIN Parts(n) : Parts(n)[i] \in Nat
<1>1. CASE n <= 140
  <2>1. Parts(n) = <<n>>
    BY <1>1 DEF Parts
  <2> QED
    BY <2>1
<1>2. CASE ~(n <= 140)
  <2> PICK k : k = Ceil(n, 134)
    OBVIOUS
  <2>1. k \in Nat /\ 134 * (k - 1) <= n
    BY DEF Ceil
  <2>2. Parts(n) = [i \in 1..k |-> IF i = k THEN n - 134 * (k - 1) ELSE 134]
    BY <1>2 DEF Parts
  <2>3. n - 134 * (k - 1) \in Nat
    BY <2>1
  <2> QED
    BY <2>2, <2>3
<1> QED
  BY <1>1, <1>2

LEMMA SharesAre ==
    ASSUME NEW m, m.dests \in Nat, NEW n \in Nat, m.len \in Nat
    PROVE  /\ Share(m, n) \in Shares
           /\ Share(m, n).report <=> m.kind = "Report"
<1>1. Share(m, n) \in Shares
  BY DEF Share, Shares
<1>2. Share(m, n).report <=> m.kind = "Report"
  BY DEF Share
<1> QED
  BY <1>1, <1>2, Zenon

LEMMA EncodedShares ==
    ASSUME NEW p, NEW m, m.dests \in Nat, m.len \in Nat, NEW i \in DOMAIN encode_message(p, m)
    PROVE  /\ encode_message(p, m)[i].share \in Shares
           /\ encode_message(p, m)[i].share.report <=> m.kind = "Report"
<1>1. encode_message(p, m)
         = [j \in DOMAIN Parts(m.len) |-> Frame(p, m.kind, FALSE, Share(m, Parts(m.len)[j]))]
  BY DEF encode_message
<1>2. i \in DOMAIN Parts(m.len) /\ Parts(m.len)[i] \in Nat
  BY <1>1, PartsAre
<1> PICK n : n = Parts(m.len)[i]
  OBVIOUS
<1>3. encode_message(p, m)[i] = Frame(p, m.kind, FALSE, Share(m, n))
  BY <1>1, <1>2
<1>4. encode_message(p, m)[i].share = Share(m, n)
  BY <1>3 DEF Frame
<1> QED
  BY <1>2, <1>4, SharesAre

(* The heartbeat of SGIP is read as a Submit. *)
LEMMA HeartbeatIsSubmit ==
    ASSUME NEW f, f.p = "SGIP", f.kind \in Kinds, ~f.answer, Reading("SGIP", f).kind # "no"
    PROVE  Reading("SGIP", f).kind # "ActiveTest"
<1> DEFINE k == Typed("SGIP", f.kind)
<1>1. "SGIP" \in Protocols /\ k \in Kinds /\ k # "ActiveTest"
  BY DEF Protocols, Typed, Kinds
<1>2. LayoutOf(f).type = <<get_type_id("SGIP", k), FALSE>>
  BY <1>1, PartTypes, ZenonT(40) DEF LayoutOf
<1> HIDE DEF k
<1>3. LayoutOf(f).type[1] = get_type_id("SGIP", k)
  BY <1>2
<1>4. KindOf("SGIP", LayoutOf(f)) = k
  BY <1>1, <1>3, TypesMatch DEF KindOf
<1> QED
  BY <1>1, <1>4, ReadingIs

(***************************************************************************)
(* The frames that are not read as they were written                       *)
(***************************************************************************)

(* A field that is read with a width it was not written with. *)
LEMMA OtherWidth ==
    ASSUME NEW r \in Layouts, NEW w \in Layouts, NEW i \in 1..Len(r), r[i][1] # "-",
           \A j \in 1..Len(w) : w[j][1] = r[i][1] => w[j][2] # r[i][2]
    PROVE  ~(Spans(r) \subseteq Spans(w))
<1>1. DOMAIN r = 1..Len(r) /\ DOMAIN w = 1..Len(w)
  BY LayoutIs
<1>2. <<Offsets(r)[i - 1], r[i][1], r[i][2]>> \in Spans(r)
  BY <1>1 DEF Spans
<1>3. <<Offsets(r)[i - 1], r[i][1], r[i][2]>> \notin Spans(w)
  BY <1>1 DEF Spans
<1> QED
  BY <1>2, <1>3

(* A field that is read where it was not written. *)
LEMMA OtherPlace ==
    ASSUME NEW r \in Layouts, NEW w \in Layouts, NEW i \in 1..Len(r), r[i][1] # "-",
           \A j \in 1..Len(w) : w[j][1] = r[i][1] => Offsets(w)[j - 1] # Offsets(r)[i - 1]
    PROVE  ~(Spans(r) \subseteq Spans(w))
<1>1. DOMAIN r = 1..Len(r) /\ DOMAIN w = 1..Len(w)
  BY LayoutIs
<1>2. <<Offsets(r)[i - 1], r[i][1], r[i][2]>> \in Spans(r)
  BY <1>1 DEF Spans
<1>3. <<Offsets(r)[i - 1], r[i][1], r[i][2]>> \notin Spans(w)
  BY <1>1 DEF Spans
<1> QED
  BY <1>2, <1>3

LEMMA HeaderFields ==
    ASSUME NEW p, p # "SGIP"
    PROVE  /\ Len(Header(p)) = 3
           /\ Header(p)[1] = <<"-", 4>> /\ Header(p)[2] = <<"type", 4>> /\ Header(p)[3] = <<"seq", 4>>
BY DEF Header

(* What is read of an answer typed as the answer to a Deliver. *)
LEMMA DeliverRepIs ==
    ASSUME NEW p \in {"SMGP", "CMPP32"}, NEW f, f.p = p, f.answer,
           f.kind = "Report" \/ (f.kind = "Deliver" /\ p = "SMGP")
    PROVE  LET b == << <<"msg_id", 8>>, <<"result", 4>> >>
           IN /\ LayoutOf(f).fields = Header(p) \o b /\ LayoutOf(f).declared = 24
              /\ Reads(p, LayoutOf(f)) = Header(p) \o ReadResp(p)
<1> DEFINE y == LayoutOf(f)
<1>1. p \in Protocols /\ f.kind \in Kinds \ {"Terminate"} /\ Typed(p, f.kind) = "Deliver"
  BY DEF Protocols, Kinds, Typed
<1>2. y = ReceiptOf(p, f.kind)
  BY DEF LayoutOf
<1>3. y.type = <<get_type_id(p, "Deliver"), TRUE>>
  BY <1>1, <1>2, ReceiptTypes
<1>4. y.type[1] = get_type_id(p, "Deliver") /\ y.type[2] = TRUE
  BY <1>3
<1>5. KindOf(p, y) = "Deliver"
  BY <1>1, <1>4, TypesMatch DEF KindOf, Kinds
<1>6. Reads(p, y) = Header(p) \o ReadResp(p)
  <2>1. BodyOf(p, "Deliver", TRUE, y) = ReadResp(p)
    BY DEF BodyOf
  <2> QED
    BY <1>4, <1>5, <2>1 DEF Reads
<1>7. y = DeliverResp48(p) \/ y = ReportResp48(p)
  BY <1>2 DEF ReceiptOf, DeliverResp, ReportResp
<1>8. /\ y.fields = Header(p) \o << <<"msg_id", 8>>, <<"result", 4>> >> /\ y.declared = 24
  <2> PICK b : b = << <<"msg_id", 8>>, <<"result", 4>> >>
    OBVIOUS
  <2>1. DeliverResp48(p).fields = Header(p) \o b /\ DeliverResp48(p).declared = 24
    BY DEF DeliverResp48, Answer, Layout
  <2>2. ReportResp48(p).fields = Header(p) \o b /\ ReportResp48(p).declared = 24
    BY DEF ReportResp48, Answer, Layout
  <2>3. y.fields = Header(p) \o b /\ y.declared = 24
    BY <1>7, <2>1, <2>2, Zenon
  <2> QED
    BY <2>3
<1> QED
  BY <1>6, <1>8

(* SGIP's answer to a Deliver is three bytes longer than it declares. *)
LEMMA DeliverRespSgipIsLonger == ~InStep(DeliverRespSgip)
<1> DEFINE b == << <<"result", 4>>, <<"-", 8>> >>
<1>1. b \in Layouts /\ Len(b) = 2
  BY DEF Layouts, Fields, Names
<1>2. Width(b) = 12
  BY <1>1, Widths
<1>3. DeliverRespSgip.fields = Header("SGIP") \o b /\ DeliverRespSgip.declared = 29
  BY DEF DeliverRespSgip, Answer, Layout
<1> HIDE DEF b
<1>4. Header("SGIP") \in Layouts /\ Width(Header("SGIP")) = 20
  BY HeaderIs DEF HeaderLen
<1>5. Width(Header("SGIP") \o b) = 32
  BY <1>1, <1>2, <1>4, WidthJoin
<1> QED
  BY <1>3, <1>5 DEF InStep

(* SMGP reads an id of ten bytes where eight were written. *)
LEMMA DeliverRepSmgpIsShort ==
    ASSUME NEW f, f.p = "SMGP", f.answer, f.kind \in {"Report", "Deliver"}
    PROVE  ~Fits("SMGP", LayoutOf(f))
<1> DEFINE c == << <<"msg_id", 10>>, <<"result", 4>> >>
<1>1. c \in Layouts /\ Len(c) = 2
  BY DEF Layouts, Fields, Names
<1>2. Width(c) = 14
  BY <1>1, Widths
<1>3. LayoutOf(f).declared = 24 /\ Reads("SMGP", LayoutOf(f)) = Header("SMGP") \o ReadResp("SMGP")
  BY DeliverRepIs
<1>4. ReadResp("SMGP") = c
  BY DEF ReadResp, ReadRespSmgp
<1> HIDE DEF c
<1>5. Header("SMGP") \in Layouts /\ Width(Header("SMGP")) = 12
  BY HeaderIs DEF HeaderLen
<1>6. Width(Header("SMGP") \o c) = 26
  BY <1>1, <1>2, <1>5, WidthJoin
<1>7. Width(Reads("SMGP", LayoutOf(f))) = 26
  BY <1>3, <1>4, <1>6, Zenon
<1>8. ~(26 <= 24)
  OBVIOUS
<1> QED
  BY <1>3, <1>7, <1>8, Zenon DEF Fits

(* CMPP 2.0 reads one byte of the status of four. *)
LEMMA ReportRepCmppIsWider ==
    ASSUME NEW f, f.p = "CMPP32", f.answer, f.kind = "Report"
    PROVE  ~Aligned("CMPP32", LayoutOf(f))
<1> DEFINE b == << <<"msg_id", 8>>, <<"result", 4>> >>
           c == << <<"msg_id", 8>>, <<"result", 1>> >>
<1>1. b \in Layouts /\ Len(b) = 2 /\ c \in Layouts /\ Len(c) = 2
  BY DEF Layouts, Fields, Names
<1>2. /\ LayoutOf(f).fields = Header("CMPP32") \o b
      /\ Reads("CMPP32", LayoutOf(f)) = Header("CMPP32") \o ReadResp("CMPP32")
  BY DeliverRepIs
<1>3. ReadResp("CMPP32") = c
  BY DEF ReadResp, ReadResp32
<1>4. c[2] = <<"result", 1>> /\ b[1] = <<"msg_id", 8>> /\ b[2] = <<"result", 4>>
  OBVIOUS
<1> HIDE DEF b, c
<1> PICK h : h = Header("CMPP32")
  OBVIOUS
<1>5. h \in Layouts
  BY HeaderIs
<1>6. Len(h) = 3 /\ h[1] = <<"-", 4>> /\ h[2] = <<"type", 4>> /\ h[3] = <<"seq", 4>>
  BY HeaderFields
<1>7. PICK w : /\ w = h \o b /\ w \in Layouts /\ Len(w) = Len(h) + Len(b)
               /\ \A i \in 1..Len(h) : w[i] = h[i]
               /\ \A j \in 1..Len(b) : w[Len(h) + j] = b[j]
  BY <1>1, <1>5, JoinIs
<1>8. PICK r : /\ r = h \o c /\ r \in Layouts /\ Len(r) = Len(h) + Len(c)
               /\ \A i \in 1..Len(h) : r[i] = h[i]
               /\ \A j \in 1..Len(c) : r[Len(h) + j] = c[j]
  BY <1>1, <1>5, JoinIs
<1>9. 5 \in 1..Len(r) /\ r[5] = <<"result", 1>>
  BY <1>1, <1>4, <1>6, <1>8
<1>10. Len(w) = 5 /\ w[1] = <<"-", 4>> /\ w[2] = <<"type", 4>> /\ w[3] = <<"seq", 4>>
       /\ w[4] = <<"msg_id", 8>> /\ w[5] = <<"result", 4>>
  BY <1>1, <1>4, <1>6, <1>7
<1>11. \A j \in 1..Len(w) : w[j][1] = r[5][1] => w[j][2] # r[5][2]
  <2>1. \A j \in 1..5 : j = 1 \/ j = 2 \/ j = 3 \/ j = 4 \/ j = 5
    OBVIOUS
  <2>2. r[5][1] = "result" /\ r[5][2] = 1
    BY <1>9
  <2>3. \A j \in 1..5 : w[j][1] = "result" => w[j][2] # 1
    BY <1>10, <2>1
  <2> QED
    BY <1>10, <2>2, <2>3
<1>12. ~(Spans(r) \subseteq Spans(w))
  <2> PICK i : i = 5
    OBVIOUS
  <2>1. i \in 1..Len(r) /\ r[i][1] # "-" /\ r \in Layouts /\ w \in Layouts
    BY <1>7, <1>8, <1>9
  <2>2. \A j \in 1..Len(w) : w[j][1] = r[i][1] => w[j][2] # r[i][2]
    BY <1>11
  <2> QED
    BY ONLY <2>1, <2>2, OtherWidth, Zenon
<1> QED
  BY <1>2, <1>3, <1>7, <1>8, <1>12 DEF Aligned

(* SMGP's report is four bytes longer than it declares. *)
LEMMA ReportSmgpIsLonger ==
    ASSUME NEW d
    PROVE  ~InStep(ReportSmgp(d))
<1> DEFINE a == << <<"msg_id", 10>>, <<"is_report", 1>>, <<"fmt", 1>>, <<"receive_time", 14>>,
                   <<"src_id", 21>>, <<"dest_id", 21>>, <<"content_len", 1>>, <<"-", 3>>,
                   <<"passage_msg_id", 10>>, <<"-", 32>> >>
           body == << <<"msg_id", 10>>, <<"is_report", 1>>, <<"fmt", 1>>, <<"receive_time", 14>>,
                   <<"src_id", 21>>, <<"dest_id", 21>>, <<"content_len", 1>>, <<"-", 3>>,
                   <<"passage_msg_id", 10>>, <<"-", 32>>, <<"submit_time", 10>>, <<"-", 11>>,
                   <<"done_time", 10>>, <<"-", 7>>, <<"state", 7>>, <<"-", 7>>,
                   <<"error_code", 3>>, <<"-", 6>> >>
           t == << <<"submit_time", 10>>, <<"-", 11>>, <<"done_time", 10>>, <<"-", 7>>,
                   <<"state", 7>>, <<"-", 7>> >>
           u == << <<"error_code", 3>>, <<"-", 6>> >>
           s == << <<"msg_id", 10>>, <<"is_report", 1>>, <<"fmt", 1>>, <<"receive_time", 14>>,
                   <<"src_id", 21>>, <<"dest_id", 21>>, <<"content_len", 1>>, <<"-", 3>>,
                   <<"passage_msg_id", 10>>, <<"-", 32>>, <<"submit_time", 10>>, <<"-", 11>>,
                   <<"done_time", 10>>, <<"-", 7>>, <<"state", 7>>, <<"-", 7>> >>
<1>1. a \in Layouts /\ Len(a) = 10
  BY DEF Layouts, Fields, Names
<1>2. t \in Layouts /\ Len(t) = 6 /\ u \in Layouts /\ Len(u) = 2
  BY DEF Layouts, Fields, Names
<1>3. s \in Layouts /\ Len(s) = 16
  BY DEF Layouts, Fields, Names
<1>4. body \in Layouts /\ Len(body) = 18
  BY DEF Layouts, Fields, Names
<1>5. Width(a) = 114
  BY <1>1, Width10
<1>6. Width(t) = 52
  BY <1>2, Widths
<1>7. Width(u) = 9
  BY <1>2, Widths
<1>8. Len(s) = Len(a) + Len(t) /\ \A i \in 1..Len(a) : s[i] = a[i]
  OBVIOUS
<1>9. \A j \in 1..Len(t) : s[Len(a) + j] = t[j]
  OBVIOUS
<1>10. Len(body) = Len(s) + Len(u) /\ \A i \in 1..Len(s) : body[i] = s[i]
  BY SMTT(30)
<1>11. \A j \in 1..Len(u) : body[Len(s) + j] = u[j]
  OBVIOUS
<1>12. ReportSmgp(d).fields = Header("SMGP") \o body /\ ReportSmgp(d).declared = 183
  BY DEF ReportSmgp, Request, Layout
<1> HIDE DEF a, t, u, s, body
<1>13. Width(s) = Width(a) + Width(t)
  BY <1>1, <1>2, <1>3, <1>8, <1>9, JoinedIs, Zenon
<1>14. Width(body) = Width(s) + Width(u)
  BY <1>2, <1>3, <1>4, <1>10, <1>11, JoinedIs, Zenon
<1>15. Header("SMGP") \in Layouts /\ Width(Header("SMGP")) = 12
  BY HeaderIs DEF HeaderLen
<1>16. Width(Header("SMGP") \o body) = 12 + Width(body)
  BY <1>4, <1>15, WidthJoin
<1> QED
  BY <1>5, <1>6, <1>7, <1>12, <1>13, <1>14, <1>16 DEF InStep

(* CMPP 2.0 reads the number its report is about into its own. *)
LEMMA ReportCmppIsElsewhere ==
    ASSUME NEW f, f.p = "CMPP32", ~f.answer, f.kind = "Report", f.share \in Shares, f.share.report
    PROVE  ~Aligned("CMPP32", LayoutOf(f))
<1> DEFINE d == f.share
           y == LayoutOf(f)
           a == << <<"msg_id", 8>>, <<"dest_id", 21>>, <<"service_id", 10>>, <<"-", 1>>,
                   <<"udhi", 1>>, <<"fmt", 1>>, <<"src_id", 21>>, <<"is_report", 1>> >>
           c == << <<"-", 1>>, <<"msg_id", 8>>, <<"state", 7>>, <<"submit_time", 10>>,
                   <<"done_time", 10>>, <<"src_id", 21>> >>
           body == << <<"msg_id", 8>>, <<"dest_id", 21>>, <<"service_id", 10>>, <<"-", 1>>,
                   <<"udhi", 1>>, <<"fmt", 1>>, <<"src_id", 21>>, <<"is_report", 1>>, <<"-", 1>>,
                   <<"passage_msg_id", 8>>, <<"state", 7>>, <<"submit_time", 10>>,
                   <<"done_time", 10>>, <<"src_id", 21>>, <<"-", 12>> >>
<1>1. y = Report32(d)
  BY DEF LayoutOf, PartOf, Report
<1>2. y.fields = Header("CMPP32") \o body /\ y.share = d
      /\ y.type[1] = get_type_id("CMPP32", "Deliver") /\ y.type[2] = FALSE
  <2> PICK z : z = body
    OBVIOUS
  <2>1. Report32(d).fields = Header("CMPP32") \o z
    BY DEF Report32, Request, Layout
  <2>2. Report32(d).share = d
    BY DEF Report32, Request, Layout
  <2>3. Report32(d).type = <<get_type_id("CMPP32", "Deliver"), FALSE>>
    BY DEF Report32, Request, Layout
  <2>4. y.type = <<get_type_id("CMPP32", "Deliver"), FALSE>>
    BY <1>1, <2>3
  <2>5. y.type[1] = get_type_id("CMPP32", "Deliver")
    BY <2>4
  <2>6. y.type[2] = FALSE
    BY <2>4
  <2> HIDE DEF body, y
  <2>7. y.fields = Header("CMPP32") \o body /\ y.share = d
    BY <1>1, <2>1, <2>2, Zenon
  <2> QED
    BY <2>5, <2>6, <2>7
<1>3. Reads("CMPP32", y) = Header("CMPP32") \o (a \o c)
  <2>1. KindOf("CMPP32", y) = "Deliver"
    BY <1>2, TypesMatch DEF KindOf, Kinds, Protocols
  <2>2. ReadDeliver32(d) = a \o c
    BY DEF ReadDeliver32
  <2>3. BodyOf("CMPP32", "Deliver", FALSE, y) = ReadDeliver32(d)
    BY <1>2 DEF BodyOf, ReadDeliver
  <2> HIDE DEF a, c, y
  <2> QED
    BY <1>2, <2>1, <2>2, <2>3, Zenon DEF Reads
<1>4. a \in Layouts /\ Len(a) = 8
  BY DEF Layouts, Fields, Names
<1>5. c \in Layouts /\ Len(c) = 6
  BY DEF Layouts, Fields, Names
<1>6. body \in Layouts /\ Len(body) = 15
  BY DEF Layouts, Fields, Names
<1>7. c[2] = <<"msg_id", 8>> /\ a[1] = <<"msg_id", 8>> /\ body[1] = <<"msg_id", 8>>
  OBVIOUS
<1>8. \A j \in 1..15 : body[j][1] = "msg_id" => j = 1
  OBVIOUS
<1> HIDE DEF a, c, body, y
<1> PICK h : h = Header("CMPP32")
  OBVIOUS
<1>9. h \in Layouts
  BY HeaderIs
<1>10. Len(h) = 3 /\ h[1] = <<"-", 4>> /\ h[2] = <<"type", 4>> /\ h[3] = <<"seq", 4>>
  BY HeaderFields
<1>11. PICK x : /\ x = a \o c /\ x \in Layouts /\ Len(x) = Len(a) + Len(c)
                /\ \A i \in 1..Len(a) : x[i] = a[i]
                /\ \A j \in 1..Len(c) : x[Len(a) + j] = c[j]
  BY <1>4, <1>5, JoinIs
<1>12. PICK r : /\ r = h \o x /\ r \in Layouts /\ Len(r) = Len(h) + Len(x)
                /\ \A i \in 1..Len(h) : r[i] = h[i]
                /\ \A j \in 1..Len(x) : r[Len(h) + j] = x[j]
  BY <1>9, <1>11, JoinIs
<1>13. PICK w : /\ w = h \o body /\ w \in Layouts /\ Len(w) = Len(h) + Len(body)
                /\ \A i \in 1..Len(h) : w[i] = h[i]
                /\ \A j \in 1..Len(body) : w[Len(h) + j] = body[j]
  BY <1>6, <1>9, JoinIs
<1>14. /\ Len(r) = 3 + Len(x) /\ \A i \in 1..3 : r[i] = h[i]
       /\ \A j \in 1..Len(x) : r[3 + j] = x[j]
  <2>1. Len(h) = 3
    BY <1>10
  <2>2. \A i \in 1..Len(h) : r[i] = h[i]
    BY <1>12
  <2>3. \A j \in 1..Len(x) : r[Len(h) + j] = x[j]
    BY <1>12
  <2>4. Len(r) = Len(h) + Len(x)
    BY <1>12
  <2> QED
    BY ONLY <2>1, <2>2, <2>3, <2>4, Zenon
<1>15. /\ Len(w) = 3 + Len(body) /\ \A i \in 1..3 : w[i] = h[i]
       /\ \A j \in 1..Len(body) : w[3 + j] = body[j]
  <2>1. Len(h) = 3
    BY <1>10
  <2>2. \A i \in 1..Len(h) : w[i] = h[i]
    BY <1>13
  <2>3. \A j \in 1..Len(body) : w[Len(h) + j] = body[j]
    BY <1>13
  <2>4. Len(w) = Len(h) + Len(body)
    BY <1>13
  <2> QED
    BY ONLY <2>1, <2>2, <2>3, <2>4, Zenon
<1>16. Len(x) = 14 /\ x[1] = <<"msg_id", 8>> /\ x[10] = <<"msg_id", 8>>
  BY <1>4, <1>5, <1>7, <1>11, SMTT(30)
<1>17. /\ Len(r) = 17 /\ r[4] = <<"msg_id", 8>> /\ r[13] = <<"msg_id", 8>>
       /\ r[1] = <<"-", 4>> /\ r[2] = <<"type", 4>> /\ r[3] = <<"seq", 4>>
  BY ONLY <1>10, <1>16, <1>14
<1>18. /\ Len(w) = 18 /\ w[1] = <<"-", 4>> /\ w[2] = <<"type", 4>> /\ w[3] = <<"seq", 4>>
       /\ \A j \in 1..18 : w[j][1] = "msg_id" => j = 4
  <2>1. Len(w) = 18 /\ w[1] = <<"-", 4>> /\ w[2] = <<"type", 4>> /\ w[3] = <<"seq", 4>>
    BY ONLY <1>6, <1>10, <1>15
  <2>2. ASSUME NEW j \in 1..18, w[j][1] = "msg_id" PROVE j = 4
    <3>1. CASE j <= 3
      <4>1. j = 1 \/ j = 2 \/ j = 3
        BY <3>1
      <4> QED
        BY <2>1, <2>2, <4>1
    <3>2. CASE ~(j <= 3)
      <4>1. j - 3 \in 1..15 /\ 3 + (j - 3) = j
        BY <3>2
      <4>2. w[j] = body[j - 3]
        BY ONLY <1>6, <1>15, <4>1
      <4>3. j - 3 = 1
        BY <1>8, <2>2, <4>1, <4>2
      <4> QED
        BY <4>3
    <3> QED
      BY <3>1, <3>2
  <2> QED
    BY <2>1, <2>2
<1>19. Offsets(w)[3] = 12
  <2> PICK at : at = Offsets(w)
    OBVIOUS
  <2>1. at[0] = 0
    BY <1>13, OffsetsRun DEF Runs
  <2>2. \A n \in 1..Len(w) : at[n] = at[n - 1] + w[n][2]
    BY <1>13, OffsetsCount
  <2> QED
    BY <1>18, <2>1, <2>2
<1>20. Offsets(r)[12] > 12
  <2> PICK at : at = Offsets(r)
    OBVIOUS
  <2>1. at[0] = 0
    BY <1>12, OffsetsRun DEF Runs
  <2>2. \A n \in 1..17 : at[n] = at[n - 1] + r[n][2] /\ at[n - 1] \in Nat /\ r[n][2] \in Nat
    BY <1>12, <1>17, OffsetsCount
  <2>3. at[4] = 20
    BY <1>17, <2>1, <2>2
  <2>4. at[8] >= at[4] /\ at[8] \in Nat
    BY <2>2
  <2>5. at[12] >= at[8] /\ at[12] \in Nat
    BY <2>2
  <2> QED
    BY <2>3, <2>4, <2>5
<1>21. ~(Spans(r) \subseteq Spans(w))
  <2> PICK i : i = 13
    OBVIOUS
  <2>1. i \in 1..Len(r) /\ r[i][1] # "-" /\ r \in Layouts /\ w \in Layouts
    BY <1>12, <1>13, <1>17
  <2>2. \A j \in 1..Len(w) : w[j][1] = r[i][1] => Offsets(w)[j - 1] # Offsets(r)[i - 1]
    <3> SUFFICES ASSUME NEW j \in 1..Len(w), w[j][1] = r[i][1]
                 PROVE  Offsets(w)[j - 1] # Offsets(r)[i - 1]
      OBVIOUS
    <3>1. j = 4
      BY <1>17, <1>18
    <3>2. j - 1 = 3 /\ i - 1 = 12
      BY <3>1
    <3> QED
      BY <1>19, <1>20, <3>2
  <2> QED
    BY ONLY <2>1, <2>2, OtherPlace, Zenon
<1>22. y.fields = w /\ Reads("CMPP32", y) = r
  BY <1>2, <1>3, <1>11, <1>12, <1>13
<1>23. ~Aligned("CMPP32", y)
  BY <1>21, <1>22 DEF Aligned
<1> QED
  BY <1>23 DEF y

(* The exception is exact: a frame read by the codec that wrote it is      *)
(* understood if and only if it is none of those that are garbled.         *)
THEOREM ReadAsWritten ==
    ASSUME NEW f, Written(f)
    PROVE  Understood(f.p, LayoutOf(f)) <=> ~Garbled(f)
<1>1. f.p \in Protocols /\ f.kind \in Kinds
  BY DEF Written
<1>2. ASSUME ~Garbled(f) PROVE Understood(f.p, LayoutOf(f))
  <2>1. CASE f.answer
    BY <1>1, <1>2, <2>1, AnswersAreRead
  <2>2. CASE ~f.answer
    BY <1>1, <1>2, <2>2, RequestsAreRead
  <2> QED
    BY <2>1, <2>2
<1>3. ASSUME Garbled(f) PROVE ~Understood(f.p, LayoutOf(f))
  <2>1. CASE f.p = "SGIP" /\ f.answer /\ f.kind = "Deliver"
    <3>1. LayoutOf(f) = DeliverRespSgip
      BY <2>1 DEF LayoutOf, ReceiptOf, DeliverResp
    <3> QED
      BY <3>1, DeliverRespSgipIsLonger DEF Understood
  <2>2. CASE f.p = "SMGP" /\ f.answer /\ f.kind \in {"Deliver", "Report"}
    <3>1. ~Fits("SMGP", LayoutOf(f))
      BY <2>2, DeliverRepSmgpIsShort
    <3> QED
      BY <2>2, <3>1 DEF Understood
  <2>3. CASE f.p = "SMGP" /\ ~f.answer /\ f.kind = "Report"
    <3>1. LayoutOf(f) = ReportSmgp(f.share)
      BY <2>3 DEF LayoutOf, PartOf, Report
    <3> QED
      BY <3>1, ReportSmgpIsLonger DEF Understood
  <2>4. CASE f.p = "CMPP32" /\ f.answer /\ f.kind = "Report"
    <3>1. ~Aligned("CMPP32", LayoutOf(f))
      BY <2>4, ReportRepCmppIsWider
    <3> QED
      BY <2>4, <3>1 DEF Understood
  <2>5. CASE f.p = "CMPP32" /\ ~f.answer /\ f.kind = "Report"
    <3>1. ~Aligned("CMPP32", LayoutOf(f))
      BY <2>5, ReportCmppIsElsewhere DEF Written
    <3> QED
      BY <2>5, <3>1 DEF Understood
  <2> QED
    BY <1>3, <2>1, <2>2, <2>3, <2>4, <2>5 DEF Garbled
<1> QED
  BY <1>2, <1>3
=============================================================================
