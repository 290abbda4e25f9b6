--------------------------- MODULE MCSocketInput ----------------------------
EXTENDS SocketInput, SequencesExt

\* parts: the items of a packet that get a frame, by their sizes, from index 1 on
Packet(parts, main) ==
    [j \in 1..Len(parts) |-> [index |-> j, size |-> parts[j]]] \o <<[index |-> 0, size |-> main]>>
\* find_xpra_header sees the main frames of less than MaxFirstSize bytes, and the last byte of
\* the payloads of the others
Stream(noise, ssh, packets) ==
    LET sequence == FlattenSeq(packets)
        start == [f \in 1..Len(sequence) + 1 |->
            FoldSeq(LAMBDA frm, pos : pos + HeaderSize + frm.size, noise + 1, SubSeq(sequence, 1, f - 1))]
        seen == {f \in 1..Len(sequence) : sequence[f].index = 0 /\ sequence[f].size < MaxFirstSize}
    IN
    [noise |-> noise, ssh |-> ssh, frames |-> sequence, start |-> start,
     looks |-> {start[f] : f \in seen} \cup {start[f + 1] - 1 : f \in (1..Len(sequence)) \ seen},
     last |-> [i \in 1..Len(packets) |-> Len(FlattenSeq(SubSeq(packets, 1, i)))]]

\* frames of one byte and more, parts, noise with and without ssh, and what is refused: too
\* many parts, an index too high, a packet too big until the limit is raised, or for good,
\* at once or after its header, an empty part
MCStreams == {
    Stream(0, FALSE, <<Packet(<<1, 2>>, 1), Packet(<<>>, 2)>>),
    Stream(2, TRUE, <<Packet(<<>>, 1), Packet(<<1>>, 2)>>),
    Stream(2, FALSE, <<Packet(<<>>, 1)>>),
    Stream(0, FALSE, <<Packet(<<1, 1, 1>>, 1)>>),
    Stream(0, FALSE, <<<<[index |-> 5, size |-> 1]>> \o Packet(<<>>, 1)>>),
    Stream(0, FALSE, <<Packet(<<>>, 1), Packet(<<>>, 4)>>),
    Stream(0, FALSE, <<Packet(<<>>, 1), Packet(<<>>, 5)>>),
    Stream(0, FALSE, <<Packet(<<>>, 1), Packet(<<0>>, 1)>>)}
=============================================================================
