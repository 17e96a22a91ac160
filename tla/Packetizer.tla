------------------------------ MODULE Packetizer ------------------------------
(***************************************************************************)
(* The threads of stream.cpp that send what the encoders have made:        *)
(* videoBroadcastThread() cuts frames into packets, blocks and shards,     *)
(* audioBroadcastThread() adds parity to every four packets.  Both serve   *)
(* all sessions from one queue; a packet refers to its session by a plain  *)
(* pointer.  A client puts together what it gets by the numbers in it.     *)
(***************************************************************************)
EXTENDS Naturals, Sequences, FiniteSets

CONSTANTS
    Sessions,
    Sizes,        \* of frames, in bytes, with everything that is replaced in a key frame
    Percentages,  \* config::stream.fec_percentage
    Minimum,      \* of each session: x-nv-vqos[0].fec.minRequiredFecPackets
    VideoSeqs, AudioSeqs,   \* 2^16, the numbers there are; small in a model
    Capacity,     \* of both queues
    Makes,        \* bounds what the encoders make: pairs of numbers of frames and audio packets
    Nil

VARIABLES
    alive,      \* sessions that have not been joined
    video, audio,           \* the queues
    left,       \* what they may still make
    percentage,
    lowseq, sequenceNumber, \* of each session
    shards,     \* of each session: the numbers of the audio packets in shards_p
    base,       \* baseSequenceNumber
    frame,      \* history: the blocks of the last frame sent to each session
    parity,     \* history: the last audio block that got its parity: base and packets
    gap,        \* history: a frame did not follow the one before it
    ended,      \* broadcast_shutdown
    undefined   \* history: a packet of a session that is no more was sent

vars == <<alive, video, audio, left, percentage, lowseq, sequenceNumber, shards, base, frame, parity,
          gap, ended, undefined>>

RTPA_DATA_SHARDS == 4
DATA_SHARDS_MAX == 255
MAX_FEC_BLOCKS == 3
HeaderSize == 32            \* sizeof(video_packet_raw_t)
Blocksize == 1024 + 16      \* packetsize and MAX_RTP_HEADER_SIZE
FrameHeader == 8            \* "\0017charss"

Up(a, b) == (a + b - 1) \div b

Init ==
    /\ alive = Sessions /\ video = <<>> /\ audio = <<>> /\ left \in Makes
    /\ percentage \in Percentages
    /\ lowseq = [s \in Sessions |-> 0] /\ sequenceNumber = [s \in Sessions |-> 0]
    /\ shards = [s \in Sessions |-> [n \in 0 .. RTPA_DATA_SHARDS - 1 |-> Nil]]
    /\ base = [s \in Sessions |-> Nil]
    /\ frame = [s \in Sessions |-> <<>>] /\ parity = [s \in Sessions |-> Nil]
    /\ gap = FALSE /\ ended = FALSE /\ undefined = FALSE

-----------------------------------------------------------------------------
(* What a frame becomes.                                                   *)

\* insert(): a header before every slice; the last slice may be short.
Inserted(size) ==
    LET data == size + FrameHeader
    IN  Up(data, Blocksize - HeaderSize) * HeaderSize + data

\* The ranges of bytes that are encoded each for itself.
Threshold == 90 * Blocksize
AlignedNot(size) == size \div MAX_FEC_BLOCKS
Aligned(size) == Up(size \div MAX_FEC_BLOCKS, Blocksize) * Blocksize
Blocks(size) ==
    IF size > Threshold
    THEN LET a == Aligned(size) IN << <<0, a>>, <<a, 2 * a>>, <<2 * a, size>> >>
    ELSE << <<0, size>> >>

\* fec::encode()
Encoded(size, least) ==
    LET data   == Up(size, Blocksize)
        plain  == Up(data * percentage, 100)
        par    == IF plain < least THEN least ELSE plain
        told   == IF plain < least THEN (100 * par) \div data ELSE percentage
        skip   == data + par > DATA_SHARDS_MAX
    IN  [data |-> data, shards |-> IF skip THEN data ELSE data + par,
         percentage |-> IF skip THEN 0 ELSE told]

\* The shards of the first blocks: none, those of one and so on.
Counted(codes) ==
    LET shardsOf[n \in 0 .. Len(codes)] == IF n = 0 THEN 0 ELSE shardsOf[n - 1] + codes[n].shards
    IN  shardsOf

\* The blocks as they go out, the first number of each with it.
Sent(s, size, seq) ==
    LET r == Blocks(Inserted(size))
        e == [n \in DOMAIN r |-> Encoded(r[n][2] - r[n][1], Minimum[s])]
    IN  [n \in DOMAIN r |-> [from |-> r[n][1], to |-> r[n][2], code |-> e[n],
                             first |-> (seq + Counted(e)[n - 1]) % VideoSeqs]]

Next1(blocks) == LET b == blocks[Len(blocks)] IN (b.first + b.code.shards) % VideoSeqs

-----------------------------------------------------------------------------
\* raise(): a queue that is full is emptied first.
Put(q, x) == IF Len(q) = Capacity THEN <<x>> ELSE Append(q, x)

\* The encoders, which belong to sessions that are not joined.
Encode(s) ==
    /\ s \in alive /\ ~ended
    /\ \/ /\ left[1] > 0 /\ left' = <<left[1] - 1, left[2]>>
          /\ \E z \in Sizes : video' = Put(video, <<s, z>>)
          /\ UNCHANGED audio
       \/ /\ left[2] > 0 /\ left' = <<left[1], left[2] - 1>>
          /\ audio' = Put(audio, s) /\ UNCHANGED video
    /\ UNCHANGED <<alive, percentage, lowseq, sequenceNumber, shards, base, frame, parity, gap, ended,
                   undefined>>

\* join() leaves what is in the queues there.
Join(s) ==
    /\ s \in alive /\ alive' = alive \ {s}
    /\ UNCHANGED <<video, audio, left, percentage, lowseq, sequenceNumber, shards, base, frame, parity,
                   gap, ended, undefined>>

SendVideo ==
    /\ video # <<>> /\ ~ended
    /\ LET s == video[1][1] IN
         IF s \notin alive
         THEN undefined' = TRUE /\ UNCHANGED <<lowseq, frame, gap>>
         ELSE /\ frame' = [frame EXCEPT ![s] = Sent(s, video[1][2], lowseq[s])]
              /\ gap' = (gap \/ (frame[s] # <<>> /\ frame'[s][1].first # Next1(frame[s])))
              /\ lowseq' = [lowseq EXCEPT ![s] = Next1(frame'[s])]
              /\ UNCHANGED undefined
    /\ video' = Tail(video)
    /\ UNCHANGED <<alive, audio, left, percentage, sequenceNumber, shards, base, parity, ended>>

\* The slot that a packet is kept in, for the parity.
Slot(n) == n % RTPA_DATA_SHARDS

SendAudio ==
    /\ audio # <<>> /\ ~ended
    /\ LET s == audio[1]
           n == sequenceNumber[s]
       IN  IF s \notin alive
           THEN undefined' = TRUE /\ UNCHANGED <<sequenceNumber, shards, base, parity>>
           ELSE /\ sequenceNumber' = [sequenceNumber EXCEPT ![s] = (n + 1) % AudioSeqs]
                /\ shards' = [shards EXCEPT ![s][Slot(n)] = n]
                /\ base' = [base EXCEPT ![s] = IF Slot(n) = 0 THEN n ELSE @]
                /\ parity' = [parity EXCEPT ![s] = IF Slot(n + 1) = 0
                                                   THEN <<base'[s], shards'[s], n + 1>> ELSE @]
                /\ UNCHANGED undefined
    /\ audio' = Tail(audio)
    /\ UNCHANGED <<alive, video, left, percentage, lowseq, frame, gap, ended>>

\* encode_audio() fails, or somebody ends the broadcasts: what is in the queues stays there.
EndAll ==
    /\ ~ended /\ ended' = TRUE
    /\ UNCHANGED <<alive, video, audio, left, percentage, lowseq, sequenceNumber, shards, base, frame,
                   parity, gap, undefined>>

Next == ~undefined /\
    (SendVideo \/ SendAudio \/ EndAll \/ \E s \in Sessions : Encode(s) \/ Join(s))

Spec == Init /\ [][Next]_vars

-----------------------------------------------------------------------------
TypeOK ==
    /\ alive \subseteq Sessions /\ left \in Nat \X Nat
    /\ lowseq \in [Sessions -> 0 .. VideoSeqs - 1] /\ sequenceNumber \in [Sessions -> 0 .. AudioSeqs - 1]

\* videoBroadcastThread(): the blocks hold every packet of the frame once and whole: they
\* follow each other, none is empty, and only the last one may end in a short packet.
FramesAreWhole ==
    \A s \in Sessions : LET b == frame[s] IN b # <<>> =>
        /\ b[1].from = 0
        /\ \A n \in DOMAIN b : b[n].from < b[n].to
        /\ \A n \in 1 .. Len(b) - 1 : b[n].to = b[n + 1].from /\ b[n].to % Blocksize = 0

\* fec::encode(), fecInfo: with parity there are no more shards than the code can have, and
\* a client that computes the parity as encode() does from the percentage it is told gets
\* what there is.  Three things are not promised, because the code does not check them: the
\* number of packets has 10 bits, and does not fit only for frames of more than 3 * 1023
\* packets; the percentage has 8 bits, and does not fit only for clients that demand more
\* than two packets of parity; and the percentage of parity that was raised to what a client
\* demands is rounded down, which such clients see from 101 packets on.
Raised(s, c) == Up(c.data * percentage, 100) < Minimum[s]
Demanding(s) == Minimum[s] > 2
ParityIsKnown ==
    \A s \in Sessions : \A n \in DOMAIN frame[s] : LET c == frame[s][n].code IN
        /\ c.shards > c.data => c.shards <= DATA_SHARDS_MAX
        /\ c.data >= 1024 => frame[s][Len(frame[s])].to > 3 * 1023 * Blocksize
        /\ c.percentage >= 256 => Demanding(s)
        /\ c.percentage < 256 /\ (Raised(s, c) /\ Demanding(s) => c.data <= 100) =>
               Up(c.data * c.percentage, 100) = c.shards - c.data

\* A client sees no gap in the numbers, whatever is sent to others and whatever was lost
\* before it had a number.
NumbersFollow == ~gap

\* audioBroadcastThread(): parity is that of the four packets it names, of one session.
ParityIsOfItsPackets ==
    \A s \in Sessions : parity[s] # Nil =>
        LET b == parity[s][1] IN
            /\ parity[s][2] = [n \in 0 .. RTPA_DATA_SHARDS - 1 |-> b + n]
            /\ parity[s][3] = b + RTPA_DATA_SHARDS

-----------------------------------------------------------------------------
(* What the properties rest on.                                            *)

\* The queues hold what sessions made.
QueuesAreMade == video \in Seq(Sessions \X Sizes) /\ audio \in Seq(Sessions) /\ percentage \in Percentages

\* A session's next number is the one after its last frame, which is as it was cut.
FramesWereSent ==
    \A s \in Sessions : frame[s] # <<>> =>
        /\ \E z \in Sizes, seq \in 0 .. VideoSeqs - 1 : frame[s] = Sent(s, z, seq)
        /\ lowseq[s] = Next1(frame[s])

\* Below the slot of its next packet a session keeps the packets since the last parity.
ShardsAreNew ==
    \A s \in Sessions : LET n == sequenceNumber[s] IN
        /\ \A m \in 0 .. RTPA_DATA_SHARDS - 1 : m < Slot(n) => shards[s][m] = n - Slot(n) + m
        /\ Slot(n) # 0 => base[s] = n - Slot(n)

IInv ==
    /\ TypeOK /\ QueuesAreMade /\ FramesWereSent /\ ShardsAreNew /\ NumbersFollow /\ ParityIsOfItsPackets
    /\ shards \in [Sessions -> [0 .. RTPA_DATA_SHARDS - 1 -> Nat \cup {Nil}]]
    /\ DOMAIN base = Sessions /\ DOMAIN frame = Sessions /\ DOMAIN parity = Sessions
=============================================================================
