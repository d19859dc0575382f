----------------------------- MODULE MCSession -----------------------------
(* Instance of Session for TLC. *)
EXTENDS Session

LoginKeys == {"login_name", "login_name_of_six", "password", "version", "sp_id"}
Config(name, version) == [name |-> name, version |-> version, keys |-> LoginKeys]
(* Version 33 is one that no protocol has. *)
MCConfigs ==
    {Config("CMPP", 48), Config("CMPP", 32), Config("CMPP", 33), Config("SMGP", 30),
     Config("SGIP", 12), [Config("CMPP", 48) EXCEPT !.keys = @ \ {"login_name_of_six"}]}

MCIp == <<10, 1, 2, 3>>
Account(known, allow, auth, full) == [known |-> known, allow |-> allow, auth |-> auth, full |-> full]
Here == {<<172, 16, 0, 0>>, <<10, 1, 0, 0>>}
MCAccounts ==
    {Account(TRUE, Here, TRUE, FALSE), Account(TRUE, Here, TRUE, TRUE),
     Account(FALSE, Here, TRUE, FALSE), Account(TRUE, {<<10, 1, 2, 4>>}, TRUE, FALSE),
     Account(TRUE, Here, FALSE, FALSE)}

BusinessKeys ==
    {"content", "service_id", "sp_id", "node_id", "src_id", "dest_id", "dest_ids", "msg_id",
     "msg_ids", "passage_msg_id", "receive_time", "state", "submit_time", "done_time",
     "error_code"}
Message(kind, dests, len) == [kind |-> kind, dests |-> dests, len |-> len, keys |-> BusinessKeys]
(* What the channel and the entity make up themselves has no keys. *)
Control(kind) == [kind |-> kind, dests |-> 1, len |-> 0, keys |-> {}]
MCMessages ==
    [client |-> {Message("Submit", 1, 20), Message("Submit", 2, 150), Control("ActiveTest"),
                 Control("Terminate")},
     server |-> {Message("Deliver", 1, 20), Message("Deliver", 1, 150), Message("Report", 1, 0),
                 Control("Terminate")}]
===========================================================================
