------------------------------ MODULE MmapRing ------------------------------
(***************************************************************************)
(* The shared memory area through which a server on the same host hands    *)
(* window pixels to its client (xpra/net/mmap/io.py).  The first 8 bytes    *)
(* hold two indexes: data_start, written by the client only, and data_end, *)
(* written by the server only.  Everything after them is a ring.           *)
(*                                                                         *)
(* Four actors: the server's encode thread (mmap_write), the connection    *)
(* carrying the chunk lists of the draw packets in order, the client's     *)
(* draw thread (mmap_read), and the client's UI thread, which paints a     *)
(* zero-copy buffer and only then moves data_start past it.                *)
(***************************************************************************)
EXTENDS Integers, Sequences, FiniteSets

CONSTANTS
    MmapSize,       \* size of the area, header included
    Sizes,          \* the sizes of the pixel buffers to send
    AlwaysWrap,     \* the ALWAYS_WRAP environment switch
    MaxOutstanding  \* bound: buffers written and not yet released

HEADER == 8

ASSUME MmapAssumption ==
    /\ MmapSize \in Nat /\ MmapSize > HEADER
    /\ Sizes \subseteq Nat \ {0}
    /\ AlwaysWrap \in BOOLEAN
    /\ MaxOutstanding \in Nat

VARIABLES
    dataStart,  \* S: the client has released everything up to here
    dataEnd,    \* E: the server has written up to here
    writer,     \* the encode thread inside mmap_write: <<>> or <<[start, size]>>
    drawPackets, \* chunk lists sent in draw packets, not yet seen by the draw thread
    ui,         \* UI callbacks, each [chunks |-> still to paint, end |-> new S]
    filled,     \* history: some write took all of the free space
    overtook,   \* history: data_start was moved while a UI callback was pending
    leaked      \* history: drawing the latest packet failed, its space is not freed

ringVars == <<dataStart, dataEnd, writer, drawPackets, ui, filled, overtook, leaked>>

----------------------------------------------------------------------------
(* Chunks: pairs <<offset, length>>.                                        *)

Chunk == (0..MmapSize) \X (0..MmapSize)
ChunkEnd(c) == c[1] + c[2]
LastEnd(chunks) == ChunkEnd(chunks[Len(chunks)])
Bytes(chunks) == UNION {c[1]..(ChunkEnd(c) - 1) : c \in {chunks[i] : i \in 1..Len(chunks)}}

\* the indexes of a new area are zero: both are read as at least 8
Index(v) == IF v < HEADER THEN HEADER ELSE v

\* size of the free space that starts at data_end
FirstChunk(start, end) == IF end < start THEN start - end ELSE MmapSize - end

\* mmap_write's `available`, and what mmap_free_size returns
Available(start, end) ==
    IF end < start THEN start - end ELSE (MmapSize - end) + (start - HEADER)

\* plenty of space before data_start: leave the rest of the area unused
StartAgain(start, end, size) ==
    /\ ~AlwaysWrap
    /\ 2 * Available(start, end) >= MmapSize
    /\ Available(start, end) >= 3 * size
    /\ size < start - HEADER

\* mutant: wraps around to the header
WriteChunksOverHeader(start, end, size) ==
    LET chunk == FirstChunk(start, end) IN
    IF size < chunk THEN <<<<end, size>>>>
    ELSE IF StartAgain(start, end, size) THEN <<<<HEADER, size>>>>
    ELSE <<<<end, chunk>>, <<0, size - chunk>>>>

\* the chunks that mmap_write uses for `size` bytes that fit
WriteChunks(start, end, size) ==
    LET chunk == FirstChunk(start, end) IN
    IF size < chunk THEN <<<<end, size>>>>
    ELSE IF StartAgain(start, end, size) THEN <<<<HEADER, size>>>>
    ELSE <<<<end, chunk>>, <<HEADER, size - chunk>>>>

Outstanding == Len(drawPackets) + Len(ui)

----------------------------------------------------------------------------
RingInit ==
    /\ dataStart = 0
    /\ dataEnd = 0
    /\ writer = <<>>
    /\ drawPackets = <<>>
    /\ ui = <<>>
    /\ filled = FALSE
    /\ overtook = FALSE
    /\ leaked = FALSE

\* mmap_write samples data_start and finds that the buffer fits
WriteBegin(size) ==
    /\ writer = <<>>
    /\ Outstanding < MaxOutstanding
    /\ size <= MmapSize - HEADER
    /\ size <= Available(Index(dataStart), Index(dataEnd))
    /\ writer' = <<[start |-> Index(dataStart), size |-> size]>>
    /\ UNCHANGED <<dataStart, dataEnd, drawPackets, ui, filled, overtook, leaked>>

\* a buffer that does not fit is refused and goes out with another encoding
WriteFull(size) ==
    /\ writer = <<>>
    /\ size > MmapSize - HEADER \/ size > Available(Index(dataStart), Index(dataEnd))
    /\ UNCHANGED ringVars

\* the pixels are copied, data_end is stored and the draw packet is sent;
\* the client may have moved data_start since it was sampled
WriteEnd ==
    /\ writer # <<>>
    /\ LET w == writer[1]
           chunks == WriteChunks(w.start, Index(dataEnd), w.size)
       IN  /\ dataEnd' = LastEnd(chunks)
           /\ drawPackets' = Append(drawPackets, chunks)
           /\ filled' = (filled \/ w.size = Available(w.start, Index(dataEnd)))
    /\ writer' = <<>>
    /\ UNCHANGED <<dataStart, ui, overtook, leaked>>

\* mutant: the zero-copy reader moves data_start as soon as it has the buffer
ReadZeroCopyEager ==
    /\ drawPackets # <<>>
    /\ Len(Head(drawPackets)) = 1
    /\ drawPackets' = Tail(drawPackets)
    /\ dataStart' = LastEnd(Head(drawPackets))
    /\ ui' = Append(ui, [chunks |-> Head(drawPackets), end |-> LastEnd(Head(drawPackets))])
    /\ leaked' = FALSE
    /\ UNCHANGED <<dataEnd, writer, filled, overtook>>

\* one chunk: a zero-copy buffer, data_start moves when the UI thread is done
ReadZeroCopy ==
    /\ drawPackets # <<>>
    /\ Len(Head(drawPackets)) = 1
    /\ drawPackets' = Tail(drawPackets)
    /\ ui' = Append(ui, [chunks |-> Head(drawPackets), end |-> LastEnd(Head(drawPackets))])
    /\ leaked' = FALSE
    /\ UNCHANGED <<dataStart, dataEnd, writer, filled, overtook>>

\* several chunks: joined into a copy, data_start moves at once
ReadCopy ==
    /\ drawPackets # <<>>
    /\ Len(Head(drawPackets)) > 1
    /\ drawPackets' = Tail(drawPackets)
    /\ dataStart' = LastEnd(Head(drawPackets))
    /\ overtook' = (overtook \/ ui # <<>>)
    /\ leaked' = FALSE
    /\ UNCHANGED <<dataEnd, writer, ui, filled>>

\* mutant: drops the packet of a lost window without freeing its space
DrawWindowGoneNoFree ==
    /\ drawPackets # <<>>
    /\ drawPackets' = Tail(drawPackets)
    /\ leaked' = FALSE
    /\ UNCHANGED <<dataStart, dataEnd, writer, ui, filled, overtook>>

\* the window is gone: nothing to paint, but draw_cleanup frees the space
DrawWindowGone ==
    /\ drawPackets # <<>>
    /\ drawPackets' = Tail(drawPackets)
    /\ ui' = Append(ui, [chunks |-> <<>>, end |-> LastEnd(Head(drawPackets))])
    /\ leaked' = FALSE
    /\ UNCHANGED <<dataStart, dataEnd, writer, filled, overtook>>

\* drawing raises before the buffer is read: nothing frees the space
DrawError ==
    /\ drawPackets # <<>>
    /\ drawPackets' = Tail(drawPackets)
    /\ leaked' = TRUE
    /\ UNCHANGED <<dataStart, dataEnd, writer, ui, filled, overtook>>

\* the UI thread has painted the oldest buffer: free_mem, or draw_cleanup
UIRelease ==
    /\ ui # <<>>
    /\ dataStart' = Head(ui).end
    /\ ui' = Tail(ui)
    /\ UNCHANGED <<dataEnd, writer, drawPackets, filled, overtook, leaked>>

RingNext ==
    \/ \E size \in Sizes : WriteBegin(size)
    \/ \E size \in Sizes : WriteFull(size)
    \/ WriteEnd
    \/ ReadZeroCopy
    \/ ReadCopy
    \/ DrawWindowGone
    \/ DrawError
    \/ UIRelease

RingSpec == RingInit /\ [][RingNext]_ringVars

----------------------------------------------------------------------------
(* Properties.                                                              *)

RingTypeOK ==
    /\ dataStart \in 0..MmapSize
    /\ dataEnd \in 0..MmapSize
    /\ writer = <<>> \/ (Len(writer) = 1 /\ writer[1].start \in HEADER..MmapSize
                                         /\ writer[1].size \in Sizes)
    /\ \A i \in 1..Len(drawPackets) : \A j \in 1..Len(drawPackets[i]) : drawPackets[i][j] \in Chunk
    /\ \A i \in 1..Len(ui) : ui[i].end \in 0..MmapSize
    /\ filled \in BOOLEAN /\ overtook \in BOOLEAN /\ leaked \in BOOLEAN

\* Every buffer handed over lies inside the area and never over the two shared
\* indexes, however the reads and writes of mmap_read and mmap_write interleave.
InsideArea ==
    \A i \in 1..Len(drawPackets) : Bytes(drawPackets[i]) \subseteq HEADER..(MmapSize - 1)

\* the buffers whose bytes must still be intact, oldest first
Live == [i \in 1..Len(ui) |-> ui[i].chunks] \o drawPackets

Disjoint == \A i, j \in 1..Len(Live) : i # j => Bytes(Live[i]) \cap Bytes(Live[j]) = {}

\* mmap_write never overwrites a buffer the client has yet to read or paint, as
\* long as no write has used up the free space to the last byte and no copied
\* read has moved data_start past a buffer still waiting for the UI thread.
NoOverwrite == ~filled /\ ~overtook => Disjoint

\* Once the client has gone through every draw packet, all of the area is free
\* again (data_start has caught up with data_end), unless drawing the last packet
\* raised before its buffer was released or a copied read went out of turn.
DrainedIsFree ==
    (writer = <<>> /\ drawPackets = <<>> /\ ui = <<>> /\ ~overtook /\ ~leaked)
        => Index(dataStart) = Index(dataEnd)

\* NoOverwrite without its first proviso: the diagrams in mmap_write say that it
\* writes over the available space, from E to S, and over nothing else.
NoOverwriteWhenFilled == ~overtook => Disjoint

\* NoOverwrite without its second proviso: mmap_read says that it can only move data_start
\* after the buffer has been used.
NoOverwriteWhenCopied == ~filled => Disjoint
=============================================================================
