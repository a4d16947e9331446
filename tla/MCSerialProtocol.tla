-------------------------- MODULE MCSerialProtocol --------------------------
(* The clients of the run.                                                  *)
EXTENDS SerialProtocol

\* Every page is written in packets, two bytes at every offset, and read back.
Chunk(page, offset) == <<Write(page, offset, <<7, 9>>), Request("p", page, 0, npage_size[page], <<>>)>>

PacketClients ==
    UNION {{Client("packets", Chunk(p, o), <<>>) : o \in 0..npage_size[p] - 2} : p \in Pages}

\* The same in the legacy way: set the page, write a byte, read the page.
Legacy(page, offset) ==
    <<Request("P", page, 0, 0, <<>>), Request("W", page, offset, 0, <<7>>),
      Request("V", page, 0, 0, <<>>)>>

LegacyClients ==
    UNION {{Client("packets", Legacy(p, o), <<>>) : o \in 0..npage_size[p] - 1} : p \in Pages}

\* Requests that follow each other byte by byte.
TunerPlans ==
    {<<Write(8, 47, <<5, 6>>), Request("b", 8, 0, 0, <<>>), Request("d", 8, 0, 0, <<>>)>>,
     <<Request("t", 0, 0, 0, <<200, 0, 0, 2, 44, 1, 0, 250>>), Plain("A")>>,
     <<Request("t", 2, 0, 0, <<10, 20, 30, 40>>), Request("P", 11, 0, 0, <<>>),
       Request("W", 11, 271, 0, <<4>>), Request("V", 11, 0, 0, <<>>)>>}

TunerClients == {Client("bytes", plan, <<>>) : plan \in TunerPlans}

\* What clients that verify want, over a line that loses bytes.
Wants == {<<9, 3, <<1>>>>, <<2, 258, <<1, 2>>>>}

VerifyingClients == {Client("bytes", Rewrite(v), v) : v \in Wants}

MCClients ==
    PacketClients \cup LegacyClients \cup TunerClients \cup VerifyingClients
        \cup {Client("datalogger", <<>>, <<>>)}

\* The hypothesis of what is proved of the logger's use.
ASSUME RunAssumption == LossStartsNoLogger
=============================================================================
