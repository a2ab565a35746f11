------------------------------ MODULE Channels ------------------------------
(***************************************************************************)
(* From the queue name of a job to its redis key and back.  A name is a    *)
(* sequence of symbols: letters, the three that RedisKeyspaceFormater      *)
(* treats specially, and the hyphen it writes.                             *)
(***************************************************************************)
EXTENDS Naturals, Sequences, FiniteSetsExt

CONSTANTS
    QueueChannels,          \* the list buildQueue has made
    QueueChannelDefault

ASSUME ChannelsAssumption ==
    /\ QueueChannels \in Seq(Seq(STRING))
    /\ QueueChannelDefault \in Range(QueueChannels)

\* The letters that have a lower case of their own.
Lower == [A |-> "a", B |-> "b"]

\* What becomes of a symbol that is not removed.
Formatted(s) == IF s = " " THEN "-" ELSE IF s \in DOMAIN Lower THEN Lower[s] ELSE s

\* Mutant: the separator of the key stays in the name.
FormaterKeepsColon(name) ==
    LET first[n \in 0 .. Len(name)] ==
            IF n = 0 THEN <<>>
            ELSE IF name[n] = "," THEN first[n - 1]
            ELSE Append(first[n - 1], Formatted(name[n]))
    IN  first[Len(name)]

\* first[n] is what the first n symbols become.
RedisKeyspaceFormater(name) ==
    LET first[n \in 0 .. Len(name)] ==
            IF n = 0 THEN <<>>
            ELSE IF name[n] \in {":", ","} THEN first[n - 1]
            ELSE Append(first[n - 1], Formatted(name[n]))
    IN  first[Len(name)]

\* Mutant: any name becomes a channel.
RouteUnchecked(name) == IF name = <<>> THEN QueueChannelDefault ELSE RedisKeyspaceFormater(name)

\* The channel Dispatch puts a job on.
Route(name) ==
    LET channel == RedisKeyspaceFormater(name)
    IN  IF name # <<>> /\ channel \in Range(QueueChannels) THEN channel ELSE QueueChannelDefault

\* The channel a scanner reads out of queues:<channel>:pending:<id>, the third
\* part from the end.
KeyQueue(channel) ==
    LET colons == {i \in DOMAIN channel : channel[i] = ":"}
    IN  IF colons = {} THEN channel ELSE SubSeq(channel, Max(colons) + 1, Len(channel))

\* The RENAME of a claim finds the key only if the scanner rebuilds its name.
Claimable(channel) == KeyQueue(channel) = channel
=============================================================================
