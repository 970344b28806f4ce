------------------------------- MODULE MCPort ------------------------------
(***************************************************************************)
(* Cables, messages and public functions for the runs of one port.         *)
(***************************************************************************)
EXTENDS PDPortProps

Cable(k, f) == [kind |-> k, flip |-> f]
Src == {Cable("src", 0)}
Snk == {Cable("snk", 0)}
Drp == {Cable("drp", 0)}
SrcOrSnk == Src \cup Snk
\* One cable of each kind, but for the dual role port, which acts as one of the others.
AnyCable ==
    {Cable("src", 0), Cable("snk", 1), Cable("dts", 1), Cable("ts", 0), Cable("audio", 0)}

Ctrl(t) == [type |-> t]
Fixed(fs) == [fixed |-> 1, flags |-> fs]
SourceCap(mv) == [type |-> "SOURCE_CAP", mv |-> mv, pdo0 |-> Fixed({})]
Request(n) == [type |-> "REQUEST", cnt |-> 1,
               rdo |-> [pos |-> 1, op_ma |-> n, max_ma |-> n, mismatch |-> 0]]
SinkCap == [type |-> "SINK_CAP", pdo0 |-> Fixed({"PARTNER_DR_POWER"})]
Vdm(t) == [type |-> "VENDOR_DEF", cmdt |-> t]
Bist == [type |-> "BIST", mode2 |-> 1]

\* What a source may send to a sink.
SinkMsgs ==
    {Ctrl(t) : t \in {"ACCEPT", "REJECT", "WAIT", "PS_RDY", "SOFT_RESET"}}
        \cup {SourceCap(<<5000>>)}
\* What a sink may send to a source: a request it can satisfy, one it cannot.
SourceMsgs == {Ctrl("SOFT_RESET"), Request(10), Request(200), SinkCap}
\* What matters to a power swap.
SwapMsgs == {Ctrl("ACCEPT"), Ctrl("PS_RDY"), Request(10), Request(200)}
\* What both roles take to reach a contract.
ContractMsgs == SwapMsgs \cup {SourceCap(<<5000>>)}
\* What any of these partners may send to a port that negotiates and sends VDMs.
WorldMsgs ==
    {Ctrl("PS_RDY"), Request(200), SourceCap(<<5000>>), Bist, Vdm("ACK"), Vdm("RSP_BUSY")}
\* Offers of different length.
OfferMsgs == {SourceCap(<<5000>>), SourceCap(<<5000, 9000>>)}

ToggleOn == {"TOGGLE_ON"}
ForceSource == {"FORCE_SOURCE"}
BothSwaps == {"pd_request_power_swap", "pd_request_data_swap"}
WorldApis ==
    {"TOGGLE_ON", "pd_soft_reset", "pd_set_new_power_request", "pd_send_vdm",
     "pd_ping_enable"}
=============================================================================
