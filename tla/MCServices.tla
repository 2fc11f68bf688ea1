---------------------------- MODULE MCServices ----------------------------
(***************************************************************************)
(* Services for TLC: what a configuration file can not write down.         *)
(***************************************************************************)
EXTENDS Services

\* One urgent session and two of the same lower rank.
MCRank == [s \in Sessions |-> IF s = "s1" THEN 0 ELSE 1]

\* The first message of a sender addresses the bot.
MCDirect == {<<s, 1>> : s \in Senders}
=============================================================================
