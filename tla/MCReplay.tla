------------------------------- MODULE MCReplay -------------------------------
(***************************************************************************)
(* The replay of a CSV file and a PCAP file, and the parsers of both.      *)
(* They share no state: in each behaviour one of them takes its steps and  *)
(* the others stay as they were.                                           *)
(***************************************************************************)
EXTENDS Replay, Formats

CONSTANTS csv, pcap

VARIABLE part

MCSource == {csv, pcap}
MCPcap == {pcap}
MCJitters == {{0}, {0, 1}}
MCPaths == <<csv, pcap>>
MCContents == {<<>>, <<"x">>, <<" ", "x">>, <<"x", ",", "x">>}

\* Packets without bytes, with some, and with more than there is room for.
MCPackets == [time : {3, 5}, length : {0, 2, 3}]

MCInit ==
    /\ Init /\ FormatsInit
    /\ part \in {"replay", "csv", "pcap"}
    /\ part # "replay" => jitter = {0} /\ records = [s \in Source |-> <<>>]

ReplayStep == part = "replay" /\ Next /\ UNCHANGED <<part, formatVars>>
CsvStep == part = "csv" /\ CsvNext /\ UNCHANGED <<part, vars>>
PcapStep == part = "pcap" /\ PcapNext /\ UNCHANGED <<part, vars>>

\* The fairness of Replay, where it takes its steps.
MCSpec ==
    /\ MCInit /\ [][ReplayStep \/ CsvStep \/ PcapStep]_<<part, vars, formatVars>>
    /\ WF_vars(part = "replay" /\ Next)
=============================================================================
