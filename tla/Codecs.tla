------------------------------- MODULE Codecs -------------------------------
(***************************************************************************)
(* What the codecs of src/src/protocol write and read: type numbers,       *)
(* status numbers and the frames' layouts.  A layout is a sequence of      *)
(* <<field, width in bytes>>; "-" stands for bytes nobody looks at.  The   *)
(* values of the fields are left out: a field is read well when it is read *)
(* where it was written.  SMPP, whose implementation is empty, is left out.*)
(***************************************************************************)
EXTENDS Integers, Sequences, SequencesExt

Protocols == {"CMPP48", "CMPP32", "SMGP", "SGIP"}
Cmpp == {"CMPP48", "CMPP32"}

(* The types the gateway handles; the answer to one is <<type, TRUE>>.     *)
Kinds == {"Connect", "Terminate", "Submit", "Deliver", "Report", "ActiveTest"}
Statuses == {"Success", "MessageError", "AddError", "AuthError", "VersionError",
             "TrafficRestrictions", "OtherError"}

(* get_type_id: the number without the bit 0x80000000 of an answer. *)
TypeIdCmpp == [Connect |-> 1, Terminate |-> 2, Submit |-> 4, Deliver |-> 5,
               Report |-> 16777221, ActiveTest |-> 8]
TypeIdSmgp == [Connect |-> 1, Terminate |-> 6, Submit |-> 2, Deliver |-> 3,
               Report |-> 5, ActiveTest |-> 4]
TypeIdSgip == [Connect |-> 1, Terminate |-> 2, Submit |-> 3, Deliver |-> 4,
               Report |-> 5, ActiveTest |-> 9]
get_type_id(p, kind) ==
    CASE p \in Cmpp -> TypeIdCmpp[kind] [] p = "SMGP" -> TypeIdSmgp[kind]
      [] p = "SGIP" -> TypeIdSgip[kind]

(* get_type_enum: types nobody sends (Query, Cancel, Fwd ...) are UNKNOWN, *)
(* which a decoder refuses like them.                                      *)
TypeEnumCmpp == [id \in {1, 2, 4, 5, 8, 16777221} |->
    CASE id = 4 -> "Submit" [] id = 5 -> "Deliver" [] id = 16777221 -> "Report"
      [] id = 1 -> "Connect" [] id = 2 -> "Terminate" [] id = 8 -> "ActiveTest"]
TypeEnumSmgp == [id \in 1..6 |->
    CASE id = 2 -> "Submit" [] id = 3 -> "Deliver" [] id = 5 -> "Report"
      [] id = 4 -> "ActiveTest" [] id = 1 -> "Connect" [] id = 6 -> "Terminate"]
TypeEnumSgip == [id \in {1, 2, 3, 4, 5, 9} |->
    CASE id = 3 -> "Submit" [] id = 4 -> "Deliver" [] id = 5 -> "Report"
      [] id = 1 -> "Connect" [] id = 2 -> "Terminate" [] id = 9 -> "ActiveTest"]
get_type_enum(p, id) ==
    LET table == CASE p \in Cmpp -> TypeEnumCmpp [] p = "SMGP" -> TypeEnumSmgp
                   [] p = "SGIP" -> TypeEnumSgip
    IN IF id \in DOMAIN table THEN table[id] ELSE "UNKNOWN"

StatusIdCmpp == [Success |-> 0, MessageError |-> 1, AddError |-> 2, AuthError |-> 3,
                 VersionError |-> 4, TrafficRestrictions |-> 8, OtherError |-> 5]
StatusIdSmgp == [Success |-> 0, MessageError |-> 3, AddError |-> 2, AuthError |-> 21,
                 VersionError |-> 29, TrafficRestrictions |-> 134, OtherError |-> 5]
StatusIdSgip == [Success |-> 0, MessageError |-> 7, AddError |-> 2, AuthError |-> 1,
                 VersionError |-> 4, TrafficRestrictions |-> 101, OtherError |-> 5]
get_status_id(p, status) ==
    CASE p \in Cmpp -> StatusIdCmpp[status] [] p = "SMGP" -> StatusIdSmgp[status]
      [] p = "SGIP" -> StatusIdSgip[status]

StatusEnumCmpp == (0 :> "Success" @@ 1 :> "MessageError" @@ 2 :> "AddError" @@ 3 :> "AuthError"
                   @@ 4 :> "VersionError" @@ 8 :> "TrafficRestrictions")
StatusEnumSmgp == (0 :> "Success" @@ 3 :> "MessageError" @@ 2 :> "AddError" @@ 21 :> "AuthError"
                   @@ 29 :> "VersionError" @@ 134 :> "TrafficRestrictions")
StatusEnumSgip == (0 :> "Success" @@ 7 :> "MessageError" @@ 2 :> "AddError" @@ 1 :> "AuthError"
                   @@ 4 :> "VersionError" @@ 101 :> "TrafficRestrictions")
get_status_enum(p, v) ==
    LET table == CASE p \in Cmpp -> StatusEnumCmpp [] p = "SMGP" -> StatusEnumSmgp
                   [] p = "SGIP" -> StatusEnumSgip
    IN IF v \in DOMAIN table THEN table[v] ELSE "OtherError"

(* The code by which an answer says that the peer is over its limit. *)
SpeedLimitCmpp(code) == code = 8
SpeedLimitSmgp(code) == code = 75
SpeedLimitSgip(code) == code = 88
(* The decoder of CMPP 2.0 does not ask. *)
is_speed_limit(p, code) ==
    \/ p = "CMPP48" /\ SpeedLimitCmpp(code)
    \/ p = "SMGP" /\ SpeedLimitSmgp(code)
    \/ p = "SGIP" /\ SpeedLimitSgip(code)

(* Protocol versions *)
FromName(name) == IF name = "CMPP" THEN "CMPP48" ELSE name
Parse(p) == IF p \in Cmpp THEN "CMPP" ELSE p
(* Without the last arm of the match. *)
get_protocol_XNoDefault(name, version) ==
    IF name = "CMPP" THEN IF version = 32 THEN "CMPP32" ELSE IF version = 48 THEN "CMPP48" ELSE "None"
    ELSE name
get_protocol(name, version) ==
    IF name = "CMPP" THEN IF version = 32 THEN "CMPP32" ELSE "CMPP48" ELSE name
match_version(p, version) == get_protocol(Parse(p), version)
has(p, version) == p \in Cmpp => version \in {32, 48}
---------------------------------------------------------------------------
(* Long contents: more than 140 bytes go out in parts of up to 134 behind  *)
(* a header of six bytes.                                                  *)

Ceil(n, d) == (n + d - 1) \div d
Parts(n) ==
    IF n <= 140 THEN <<n>>
    ELSE LET k == Ceil(n, 134)
         IN [i \in 1..k |-> IF i = k THEN n - 134 * (k - 1) ELSE 134]

(* One frame's share d of a message: its receivers, its n bytes of content,*)
(* whether it is a part, whether it is a state report.                     *)
Share(m, n) == [dests |-> m.dests, n |-> n, long |-> m.len > 140, report |-> m.kind = "Report"]
Bare == [dests |-> 0, n |-> 0, long |-> FALSE, report |-> FALSE]

UdhLen(d) == IF d.long THEN 6 ELSE 0
Udh(d) == IF d.long THEN << <<"-", 4>>, <<"total", 1>>, <<"number", 1>> >> ELSE <<>>
Content(d) == Udh(d) \o << <<"content", d.n>> >>
---------------------------------------------------------------------------
(* Encoders.  needs are the keys without which they fail. *)

Header(p) == << <<"-", 4>>, <<"type", 4>> >>
             \o IF p = "SGIP" THEN << <<"node", 4>>, <<"seq", 8>> >> ELSE << <<"seq", 4>> >>
Layout(p, kind, answer, needs, declared, d, body) ==
    [type |-> <<get_type_id(p, kind), answer>>,
     needs |-> needs, declared |-> declared, share |-> d, fields |-> Header(p) \o body]
Request(p, kind, needs, declared, d, body) == Layout(p, kind, FALSE, needs, declared, d, body)
Answer(p, kind, needs, declared, body) == Layout(p, kind, TRUE, needs, declared, Bare, body)

Connect48(p) == Request(p, "Connect", {"login_name", "password", "version"}, 39, Bare,
    << <<"login_name", 6>>, <<"-", 8>>, <<"authenticator", 8>>, <<"version", 1>>,
       <<"timestamp", 4>> >>)
ConnectSmgp == Request("SMGP", "Connect", {"login_name", "password", "version"}, 42, Bare,
    << <<"login_name", 8>>, <<"-", 8>>, <<"authenticator", 8>>, <<"-", 1>>,
       <<"timestamp", 4>>, <<"version", 1>> >>)
ConnectSgip == Request("SGIP", "Connect", {"login_name", "password", "sp_id"}, 61, Bare,
    << <<"can_write", 1>>, <<"login_name", 16>>, <<"password", 16>>, <<"-", 8>> >>)

ConnectRep48(p) == Answer(p, "Connect", {"seq", "version"}, 33,
    << <<"status", 4>>, <<"-", 16>>, <<"version", 1>> >>)
ConnectRep32 == Answer("CMPP32", "Connect", {"seq", "version"}, 30,
    << <<"status", 1>>, <<"-", 16>>, <<"version", 1>> >>)
ConnectRepSgip == Answer("SGIP", "Connect", {"node"}, 29, << <<"status", 1>>, <<"-", 8>> >>)

Submit48(d) == Request("CMPP48", "Submit",
    {"content", "service_id", "sp_id", "src_id", "dest_ids", "msg_ids"},
    163 + d.dests * 32 + UdhLen(d) + d.n, d,
    << <<"msg_id", 8>>, <<"-", 4>>, <<"service_id", 10>>, <<"-", 35>>, <<"udhi", 1>>,
       <<"fmt", 1>>, <<"sp_id", 6>>, <<"-", 8>>, <<"valid_time", 17>>, <<"at_time", 17>>,
       <<"src_id", 21>>, <<"dest_len", 1>>, <<"dest_ids", 32 * d.dests>>, <<"-", 1>>,
       <<"content_len", 1>> >> \o Content(d) \o << <<"-", 20>> >>)
(* A length two bytes short. *)
Submit32_X136(d) == Request("CMPP32", "Submit",
    {"content", "service_id", "sp_id", "src_id", "dest_ids", "msg_ids"},
    136 + d.dests * 21 + UdhLen(d) + d.n, d,
    << <<"msg_id", 8>>, <<"-", 4>>, <<"service_id", 10>>, <<"-", 23>>, <<"udhi", 1>>,
       <<"fmt", 1>>, <<"sp_id", 6>>, <<"-", 8>>, <<"valid_time", 17>>, <<"at_time", 17>>,
       <<"src_id", 21>>, <<"dest_len", 1>>, <<"dest_ids", 21 * d.dests>>,
       <<"content_len", 1>> >> \o Content(d) \o << <<"-", 8>> >>)
Submit32(d) == Request("CMPP32", "Submit",
    {"content", "service_id", "sp_id", "src_id", "dest_ids", "msg_ids"},
    138 + d.dests * 21 + UdhLen(d) + d.n, d,
    << <<"msg_id", 8>>, <<"-", 4>>, <<"service_id", 10>>, <<"-", 23>>, <<"udhi", 1>>,
       <<"fmt", 1>>, <<"sp_id", 6>>, <<"-", 8>>, <<"valid_time", 17>>, <<"at_time", 17>>,
       <<"src_id", 21>>, <<"dest_len", 1>>, <<"dest_ids", 21 * d.dests>>,
       <<"content_len", 1>> >> \o Content(d) \o << <<"-", 8>> >>)
(* A part of a long message ends with the optional fields TPUdhi, PkTotal  *)
(* and PkNumber.                                                           *)
SubmitSmgp(d) == Request("SMGP", "Submit",
    {"content", "service_id", "src_id", "dest_ids", "msg_ids"},
    126 + d.dests * 21 + UdhLen(d) + d.n + (IF d.long THEN 15 ELSE 0), d,
    << <<"-", 27>>, <<"fmt", 1>>, <<"valid_time", 17>>, <<"at_time", 17>>, <<"src_id", 21>>,
       <<"-", 21>>, <<"dest_len", 1>>, <<"dest_ids", 21 * d.dests>>, <<"content_len", 1>> >>
    \o Content(d) \o << <<"-", 8>> >>
    \o IF d.long THEN << <<"tp_udhi", 5>>, <<"-", 10>> >> ELSE <<>>)
SubmitBodySgip(d) ==
    << <<"src_id", 21>>, <<"-", 21>>, <<"dest_len", 1>>, <<"dest_ids", 21 * d.dests>>,
       <<"-", 65>>, <<"udhi", 1>>, <<"fmt", 1>>, <<"-", 1>>, <<"content_len", 4>> >>
    \o Content(d) \o << <<"-", 8>> >>
SubmitSgip(d) == Request("SGIP", "Submit",
    {"content", "service_id", "sp_id", "node_id", "src_id", "dest_ids"},
    143 + d.dests * 21 + UdhLen(d) + d.n, d, SubmitBodySgip(d))

Deliver48(d) == Request("CMPP48", "Deliver",
    {"msg_id", "content", "service_id", "src_id", "dest_id"}, 109 + UdhLen(d) + d.n, d,
    << <<"msg_id", 8>>, <<"dest_id", 21>>, <<"service_id", 10>>, <<"-", 1>>, <<"udhi", 1>>,
       <<"fmt", 1>>, <<"src_id", 32>>, <<"-", 1>>, <<"is_report", 1>>, <<"content_len", 1>> >>
    \o Content(d) \o << <<"-", 20>> >>)
Deliver32(d) == Request("CMPP32", "Deliver",
    {"content", "service_id", "src_id", "dest_id"}, 85 + UdhLen(d) + d.n, d,
    << <<"msg_id", 8>>, <<"dest_id", 21>>, <<"service_id", 10>>, <<"-", 1>>, <<"udhi", 1>>,
       <<"fmt", 1>>, <<"src_id", 21>>, <<"is_report", 1>>, <<"content_len", 1>> >>
    \o Content(d) \o << <<"-", 8>> >>)
DeliverSmgp(d) == Request("SMGP", "Deliver",
    {"msg_id", "receive_time", "content", "src_id", "dest_id"},
    89 + UdhLen(d) + d.n + (IF d.long THEN 5 ELSE 0), d,
    << <<"msg_id", 10>>, <<"is_report", 1>>, <<"fmt", 1>>, <<"receive_time", 14>>,
       <<"src_id", 21>>, <<"dest_id", 21>>, <<"content_len", 1>> >>
    \o Content(d) \o << <<"-", 8>> >> \o IF d.long THEN << <<"tp_udhi", 5>> >> ELSE <<>>)
DeliverSgip(d) == Request("SGIP", "Deliver", {"node_id", "content", "src_id", "dest_id"},
    77 + UdhLen(d) + d.n, d,
    << <<"src_id", 21>>, <<"dest_id", 21>>, <<"-", 1>>, <<"udhi", 1>>, <<"fmt", 1>>,
       <<"content_len", 4>> >> \o Content(d) \o << <<"-", 8>> >>)

Report48(d) == Request("CMPP48", "Deliver",
    {"msg_id", "service_id", "state", "submit_time", "done_time", "src_id", "dest_id"}, 180, d,
    << <<"msg_id", 8>>, <<"dest_id", 21>>, <<"service_id", 10>>, <<"-", 1>>, <<"udhi", 1>>,
       <<"fmt", 1>>, <<"src_id", 32>>, <<"-", 1>>, <<"is_report", 1>>, <<"-", 1>>,
       <<"passage_msg_id", 8>>, <<"state", 7>>, <<"submit_time", 10>>, <<"done_time", 10>>,
       <<"src_id", 32>>, <<"-", 24>> >>)
Report32(d) == Request("CMPP32", "Deliver",
    {"msg_id", "service_id", "state", "submit_time", "done_time", "src_id", "dest_id"}, 145, d,
    << <<"msg_id", 8>>, <<"dest_id", 21>>, <<"service_id", 10>>, <<"-", 1>>, <<"udhi", 1>>,
       <<"fmt", 1>>, <<"src_id", 21>>, <<"is_report", 1>>, <<"-", 1>>,
       <<"passage_msg_id", 8>>, <<"state", 7>>, <<"submit_time", 10>>, <<"done_time", 10>>,
       <<"src_id", 21>>, <<"-", 12>> >>)
(* The content is text; it is written four bytes longer than declared. *)
ReportSmgp(d) == Request("SMGP", "Deliver",
    {"msg_id", "receive_time", "state", "submit_time", "done_time", "src_id", "dest_id"}, 183, d,
    << <<"msg_id", 10>>, <<"is_report", 1>>, <<"fmt", 1>>, <<"receive_time", 14>>,
       <<"src_id", 21>>, <<"dest_id", 21>>, <<"content_len", 1>>, <<"-", 3>>,
       <<"passage_msg_id", 10>>, <<"-", 32>>, <<"submit_time", 10>>, <<"-", 11>>,
       <<"done_time", 10>>, <<"-", 7>>, <<"state", 7>>, <<"-", 7>>, <<"error_code", 3>>,
       <<"-", 6>> >>)
ReportSgip(d) == Request("SGIP", "Report",
    {"msg_id", "passage_msg_id", "state", "error_code", "src_id"}, 64, d,
    << <<"msg_id", 12>>, <<"-", 1>>, <<"src_id", 21>>, <<"state", 1>>, <<"error_code", 1>>,
       <<"-", 8>> >>)

ActiveTest48(p) == Request(p, "ActiveTest", {}, 12, Bare, <<>>)
(* "A message that cannot be sent": a Submit of four bytes to one number.  *)
ActiveTestSgip ==
    LET d == [dests |-> 1, n |-> 4, long |-> FALSE, report |-> FALSE]
    IN Request("SGIP", "Submit", {}, 164 + d.n, d, SubmitBodySgip(d))
Terminate48(p) == Request(p, "Terminate", {}, 12, Bare, <<>>)
TerminateSgip == Request("SGIP", "Terminate", {"node"}, 20, Bare, <<>>)

(* Typed as the answer to a Deliver. *)
SubmitResp48_XDeliver == Answer("CMPP48", "Deliver", {"seq", "dest_ids"}, 24,
    << <<"msg_id", 8>>, <<"result", 4>> >>)
SubmitResp48 == Answer("CMPP48", "Submit", {"seq", "dest_ids"}, 24,
    << <<"msg_id", 8>>, <<"result", 4>> >>)
SubmitResp32 == Answer("CMPP32", "Submit", {"seq", "dest_ids"}, 21,
    << <<"msg_id", 8>>, <<"result", 1>> >>)
SubmitRespSmgp == Answer("SMGP", "Submit", {"seq", "dest_ids"}, 26,
    << <<"msg_id", 10>>, <<"result", 4>> >>)
SubmitRespSgip == Answer("SGIP", "Submit", {"msg_id"}, 29, << <<"result", 1>>, <<"-", 8>> >>)

DeliverResp48(p) == Answer(p, "Deliver", {"seq", "msg_id"}, 24,
    << <<"msg_id", 8>>, <<"result", 4>> >>)
DeliverResp32 == Answer("CMPP32", "Deliver", {"seq", "msg_id"}, 21,
    << <<"msg_id", 8>>, <<"result", 1>> >>)
DeliverRespSgip == Answer("SGIP", "Deliver", {"msg_id"}, 29, << <<"result", 4>>, <<"-", 8>> >>)

(* The answer to a report is typed as one to a Deliver, except in SGIP. *)
ReportResp48(p) == Answer(p, "Deliver", {"seq", "msg_id"}, 24,
    << <<"msg_id", 8>>, <<"result", 4>> >>)
ReportRespSgip == Answer("SGIP", "Report", {"msg_id"}, 29, << <<"result", 1>>, <<"-", 8>> >>)

ActiveTestResp(p) == Answer(p, "ActiveTest", {"seq"}, 13, << <<"-", 1>> >>)
---------------------------------------------------------------------------
(* encode_message and encode_receipt *)

Submit(p, d) == CASE p = "CMPP48" -> Submit48(d) [] p = "CMPP32" -> Submit32(d)
                  [] p = "SMGP" -> SubmitSmgp(d) [] p = "SGIP" -> SubmitSgip(d)
Deliver(p, d) == CASE p = "CMPP48" -> Deliver48(d) [] p = "CMPP32" -> Deliver32(d)
                   [] p = "SMGP" -> DeliverSmgp(d) [] p = "SGIP" -> DeliverSgip(d)
Report(p, d) == CASE p = "CMPP48" -> Report48(d) [] p = "CMPP32" -> Report32(d)
                  [] p = "SMGP" -> ReportSmgp(d) [] p = "SGIP" -> ReportSgip(d)

Connect(p) == CASE p = "SGIP" -> ConnectSgip [] p = "SMGP" -> ConnectSmgp
                [] p \in Cmpp -> Connect48(p)

PartOf(p, kind, d) ==
    CASE kind = "Submit" -> Submit(p, d) [] kind = "Deliver" -> Deliver(p, d)
      [] kind = "Report" -> Report(p, d) [] kind = "Connect" -> Connect(p)
      [] kind = "ActiveTest" -> IF p = "SGIP" THEN ActiveTestSgip ELSE ActiveTest48(p)
      [] kind = "Terminate" -> IF p = "SGIP" THEN TerminateSgip ELSE Terminate48(p)

ConnectRep(p) == CASE p = "CMPP32" -> ConnectRep32 [] p = "SGIP" -> ConnectRepSgip
                   [] p \in {"CMPP48", "SMGP"} -> ConnectRep48(p)
SubmitResp(p) == CASE p = "CMPP48" -> SubmitResp48 [] p = "CMPP32" -> SubmitResp32
                   [] p = "SMGP" -> SubmitRespSmgp [] p = "SGIP" -> SubmitRespSgip
DeliverResp(p) == CASE p = "CMPP32" -> DeliverResp32 [] p = "SGIP" -> DeliverRespSgip
                    [] p \in {"CMPP48", "SMGP"} -> DeliverResp48(p)
ReportResp(p) == IF p = "SGIP" THEN ReportRespSgip ELSE ReportResp48(p)
ReceiptOf(p, kind) ==
    CASE kind = "Connect" -> ConnectRep(p) [] kind = "Submit" -> SubmitResp(p)
      [] kind = "Deliver" -> DeliverResp(p) [] kind = "Report" -> ReportResp(p)
      [] kind = "ActiveTest" -> ActiveTestResp(p)

(* A frame, and how it is laid out. *)
Frame(p, kind, answer, d) == [p |-> p, kind |-> kind, answer |-> answer, share |-> d]
LayoutOf(f) == IF f.answer THEN ReceiptOf(f.p, f.kind) ELSE PartOf(f.p, f.kind, f.share)

(* The frames of a message, none when a key it needs is missing. *)
encode_message(p, m) ==
    IF PartOf(p, m.kind, Share(m, 0)).needs \subseteq m.keys
    THEN [i \in DOMAIN Parts(m.len) |-> Frame(p, m.kind, FALSE, Share(m, Parts(m.len)[i]))]
    ELSE <<>>

(* The heartbeat goes unanswered. *)
HasReceipt_XNoActiveTest(kind, answer) ==
    ~answer /\ kind \notin {"Terminate", "UNKNOWN", "ActiveTest"}
(* Answers and Terminate get no receipt. *)
HasReceipt(kind, answer) == ~answer /\ kind \notin {"Terminate", "UNKNOWN"}
encode_receipt(p, kind, answer, keys) ==
    IF HasReceipt(kind, answer) /\ ReceiptOf(p, kind).needs \subseteq keys
    THEN <<Frame(p, kind, TRUE, Bare)>> ELSE <<>>
---------------------------------------------------------------------------
(* Decoders: what they read, in order.  The codec has taken the length,    *)
(* decode_read_msg takes the type and four bytes, the sequence number or,  *)
(* in SGIP, the node; the decoders of SGIP take the number.                *)

ReadConnect48 == << <<"login_name", 6>>, <<"-", 8>>, <<"authenticator", 8>>, <<"version", 1>>,
                    <<"timestamp", 4>> >>
ReadConnectSmgp == << <<"login_name", 8>>, <<"-", 8>>, <<"authenticator", 8>>, <<"-", 1>>,
                      <<"timestamp", 4>>, <<"version", 1>> >>
ReadConnectSgip == << <<"can_write", 1>>, <<"login_name", 16>>, <<"password", 16>> >>

(* The status has one byte in the shorter answer of CMPP 2.0. *)
ReadConnectRep(y) == << <<"status", IF y.declared - 12 < 21 THEN 1 ELSE 4>>, <<"-", 16>>,
                        <<"version", 1>> >>
ReadConnectRepSgip == << <<"status", 1>> >>

ReadSubmit48(d) == << <<"msg_id", 8>>, <<"-", 4>>, <<"service_id", 10>>, <<"-", 35>>,
    <<"udhi", 1>>, <<"fmt", 1>>, <<"sp_id", 6>>, <<"-", 8>>, <<"valid_time", 17>>,
    <<"at_time", 17>>, <<"src_id", 21>>, <<"dest_len", 1>>, <<"dest_ids", 32 * d.dests>>,
    <<"-", 1>>, <<"content_len", 1>> >> \o Content(d)
ReadSubmit32(d) == << <<"msg_id", 8>>, <<"-", 4>>, <<"service_id", 10>>, <<"-", 23>>,
    <<"udhi", 1>>, <<"fmt", 1>>, <<"sp_id", 6>>, <<"-", 8>>, <<"valid_time", 17>>,
    <<"at_time", 17>>, <<"src_id", 21>>, <<"dest_len", 1>>, <<"dest_ids", 21 * d.dests>>,
    <<"content_len", 1>> >> \o Content(d)
ReadTlvs(d) == << <<"-", 8>> >> \o IF d.long THEN << <<"tp_udhi", 5>> >> ELSE <<>>
(* The receivers are read but not kept. *)
ReadSubmitSmgp(d) == << <<"-", 27>>, <<"fmt", 1>>, <<"valid_time", 17>>, <<"at_time", 17>>,
    <<"src_id", 21>>, <<"-", 21>>, <<"dest_len", 1>>, <<"-", 21 * d.dests>>,
    <<"content_len", 1>> >> \o Content(d) \o ReadTlvs(d)
ReadSubmitSgip(d) == << <<"src_id", 21>>, <<"-", 21>>, <<"dest_len", 1>>,
    <<"dest_ids", 21 * d.dests>>, <<"-", 65>>, <<"udhi", 1>>, <<"fmt", 1>>, <<"-", 1>>,
    <<"content_len", 4>> >> \o Content(d)

ReadDeliver48(d) == << <<"msg_id", 8>>, <<"dest_id", 21>>, <<"service_id", 10>>, <<"-", 1>>,
    <<"udhi", 1>>, <<"fmt", 1>>, <<"src_id", 32>>, <<"-", 1>>, <<"is_report", 1>> >>
    \o IF d.report
       THEN << <<"-", 1>>, <<"passage_msg_id", 8>>, <<"state", 7>>, <<"submit_time", 10>>,
               <<"done_time", 10>>, <<"src_id", 32>> >>
       ELSE << <<"content_len", 1>> >> \o Content(d)
ReadDeliver32(d) == << <<"msg_id", 8>>, <<"dest_id", 21>>, <<"service_id", 10>>, <<"-", 1>>,
    <<"udhi", 1>>, <<"fmt", 1>>, <<"src_id", 21>>, <<"is_report", 1>> >>
    \o IF d.report
       THEN << <<"-", 1>>, <<"msg_id", 8>>, <<"state", 7>>, <<"submit_time", 10>>,
               <<"done_time", 10>>, <<"src_id", 21>> >>
       ELSE << <<"content_len", 1>> >> \o Content(d)
(* Of a report, the text of 102 bytes, and eight bytes after it. *)
ReadDeliverSmgp(d) == << <<"msg_id", 10>>, <<"is_report", 1>>, <<"fmt", 1>>,
    <<"receive_time", 14>>, <<"src_id", 21>>, <<"dest_id", 21>>, <<"content_len", 1>> >>
    \o IF d.report
       THEN << <<"-", 3>>, <<"passage_msg_id", 10>>, <<"-", 31>>, <<"submit_time", 10>>,
               <<"-", 11>>, <<"done_time", 10>>, <<"-", 6>>, <<"state", 7>>, <<"-", 5>>,
               <<"error_code", 3>>, <<"-", 6>>, <<"-", 8>> >>
       ELSE Content(d) \o ReadTlvs(d)
ReadDeliverSgip(d) == << <<"src_id", 21>>, <<"dest_id", 21>>, <<"-", 1>>, <<"udhi", 1>>,
    <<"fmt", 1>>, <<"content_len", 4>> >> \o Content(d)
ReadReportSgip == << <<"msg_id", 12>>, <<"-", 1>>, <<"src_id", 21>>, <<"state", 1>>,
                     <<"error_code", 1>> >>

ReadResp48 == << <<"msg_id", 8>>, <<"result", 4>> >>
ReadResp32 == << <<"msg_id", 8>>, <<"result", 1>> >>
ReadRespSmgp == << <<"msg_id", 10>>, <<"result", 4>> >>
ReadRespSgip == << <<"result", 1>> >>
ReadReportRespSgip == << <<"result", 1>> >>

ReadConnect(p) == CASE p = "SGIP" -> ReadConnectSgip [] p = "SMGP" -> ReadConnectSmgp
                    [] p \in Cmpp -> ReadConnect48
ReadSubmit(p, d) == CASE p = "CMPP48" -> ReadSubmit48(d) [] p = "CMPP32" -> ReadSubmit32(d)
                      [] p = "SMGP" -> ReadSubmitSmgp(d) [] p = "SGIP" -> ReadSubmitSgip(d)
ReadDeliver(p, d) == CASE p = "CMPP48" -> ReadDeliver48(d) [] p = "CMPP32" -> ReadDeliver32(d)
                       [] p = "SMGP" -> ReadDeliverSmgp(d) [] p = "SGIP" -> ReadDeliverSgip(d)
ReadResp(p) == CASE p = "CMPP48" -> ReadResp48 [] p = "CMPP32" -> ReadResp32
                 [] p = "SMGP" -> ReadRespSmgp [] p = "SGIP" -> ReadRespSgip
(* decode_read_msg: the layout read after the header, by the type found.   *)
BodyOf(p, kind, answer, y) ==
    CASE kind \in {"ActiveTest", "Terminate"} -> <<>>
      [] kind = "Connect" /\ ~answer -> ReadConnect(p)
      [] kind = "Connect" /\ answer -> IF p = "SGIP" THEN ReadConnectRepSgip ELSE ReadConnectRep(y)
      [] kind = "Submit" /\ ~answer -> ReadSubmit(p, y.share)
      [] kind = "Deliver" /\ ~answer -> ReadDeliver(p, y.share)
      [] kind \in {"Submit", "Deliver"} /\ answer -> ReadResp(p)
      [] kind = "Report" -> IF answer THEN ReadReportRespSgip ELSE ReadReportSgip

KindOf(p, y) == get_type_enum(p, y.type[1])
(* A report is a Deliver everywhere but in SGIP, where it is one of its own. *)
Decodes(p, y) == KindOf(p, y) # "UNKNOWN" /\ (KindOf(p, y) = "Report" => p = "SGIP")
Reads(p, y) == Header(p) \o BodyOf(p, KindOf(p, y), y.type[2], y)

(* Where the field after the i-th begins, as the cursor moves. *)
Offsets(fields) ==
    LET at[i \in 0..Len(fields)] == IF i = 0 THEN 0 ELSE at[i - 1] + fields[i][2] IN at
Width(fields) == Offsets(fields)[Len(fields)]
Spans(fields) ==
    {<<Offsets(fields)[i - 1], fields[i][1], fields[i][2]>> :
        i \in {j \in DOMAIN fields : fields[j][1] # "-"}}

(* A read past the end of what the frame declared panics. *)
Fits(p, y) == Width(Reads(p, y)) <= y.declared
(* Bytes written after the declared end stay before the next frame.        *)
InStep(y) == y.declared = Width(y.fields)
(* What is read stands where it was written. *)
Aligned(p, y) == Spans(Reads(p, y)) \subseteq Spans(y.fields)
Understood(p, y) == Decodes(p, y) /\ Fits(p, y) /\ InStep(y) /\ Aligned(p, y)

(* The decoded message. *)
DecodedKind(p, y) ==
    IF KindOf(p, y) = "Deliver" /\ ~y.type[2] /\ y.share.report THEN "Report" ELSE KindOf(p, y)
DecodedKeys(p, y) ==
    {field[1] : field \in Range(Reads(p, y))}
    \cup IF p = "SGIP" THEN {"msg_id", "version"} ELSE {}

(* All that reading comes to, "no" for a frame the decoder refuses. *)
Reading(p, f) ==
    LET y == LayoutOf(f) IN
    IF ~Decodes(p, y) THEN [kind |-> "no", answer |-> FALSE, fits |-> FALSE]
    ELSE [kind |-> DecodedKind(p, y), answer |-> y.type[2], type |-> y.type[1],
          keys |-> DecodedKeys(p, y), fits |-> Fits(p, y), inStep |-> InStep(y),
          understood |-> Understood(p, y)]
=============================================================================
