---------------------------- MODULE MCOfonoPlugin ----------------------------
(* Two modems; a SIM with one internet context and two for MMS, and one     *)
(* without contexts.                                                        *)
EXTENDS OfonoPlugin

ModemList == <<"modem1", "modem2">>
SimStates ==
    {("modem1" :> "imsi1") @@ ("modem2" :> NoImsi),
     ("modem1" :> "imsi2") @@ ("modem2" :> "imsi1"),
     ("modem1" :> NoImsi) @@ ("modem2" :> NoImsi)}
SimOf == [p \in {"internet1", "mms1", "mms2"} |-> "imsi1"]
MmsList == <<"mms1", "mms2">>
RequestSet == {NoImsi, "imsi1", "imsi2"}

AnyCall == InCalls \cup OutCalls
Noticed == AnyCall \ {"connman proxy", "context proxy", "add mms"}
Heeded == (AnyCall \cup IdleSources) \ {"modems done", "get contexts"}
=============================================================================
