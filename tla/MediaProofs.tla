----------------------------- MODULE MediaProofs -----------------------------
(***************************************************************************)
(* Proofs about what clients see: the packets of Packetizer and the        *)
(* displays of X11Capture, DmabufCapture and DuplicationCapture, as parts  *)
(* of Parts, for every value of their constants.                           *)
(***************************************************************************)
EXTENDS Parts, SequenceTheorems, FiniteSetTheorems, WellFoundedInduction, TLAPS

-----------------------------------------------------------------------------
(* The parts side by side.                                                 *)

\* A step is one of the part, and leaves it the part.
LEMMA OnlyThePart ==
    ASSUME NEW p, NEW n, Only(p, n)
    PROVE  part = p /\ part' = part
BY DEF Only

\* A step is one of the part that runs, or none.
LEMMA StepOfMedia ==
    ASSUME [Next]_vars
    PROVE  /\ part' = part
           /\ part = "packets" => Packets!Next \/ UNCHANGED vars
           /\ part = "screen" => Screen!Next \/ UNCHANGED vars
           /\ part = "dmabuf" => Dmabuf!Next \/ UNCHANGED vars
           /\ part = "desktop" => Desktop!Next \/ UNCHANGED vars
<1>1. CASE Next
  BY <1>1, OnlyThePart DEF Next, ControlNext, AudioNext, SyncNext, QueueNext, MailboxNext,
    PadsNext, RivalsNext, ProbeNext, PairNext, PacketsNext, FilesNext, StateNext, ProgNext,
    ScreenNext, DmabufNext, DesktopNext, WasapiNext, RtspNext, VigemNext
<1>2. CASE UNCHANGED vars
  BY <1>2 DEF vars
<1> QED BY <1>1, <1>2

\* What starts is the part.
LEMMA StartOfMedia ==
    ASSUME Init
    PROVE  /\ part = "packets" => Packets!Init
           /\ part = "screen" => Screen!Init
           /\ part = "dmabuf" => Dmabuf!Init
           /\ part = "desktop" => Desktop!Init
BY DEF Init, Starts

\* Some natural numbers have a least one.
LEMMA LeastOfSome ==
    ASSUME NEW S, S \subseteq Nat, S # {}
    PROVE  \E i \in S : \A j \in S : i <= j
<1>1. IsWellFoundedOn(OpToRel(<, Nat), Nat)
  BY NatLessThanWellFounded
<1>2. PICK i \in S : \A j \in S : ~(<<j, i>> \in OpToRel(<, Nat))
  BY <1>1, WFMin, Zenon
<1>3. \A j \in S : ~(j < i)
  BY <1>2, Zenon DEF OpToRel
<1> QED BY <1>3

-----------------------------------------------------------------------------
(* Packetizer: how a frame is cut.                                         *)

\* Bytes in blocks of 1008 and headers of 32.
LEMMA PacketsInserted ==
    ASSUME NEW z \in FrameSizes
    PROVE  Packets!Inserted(z) \in Nat /\ Packets!Inserted(z) > 0
BY PacketsAssumption, SMT DEF Packets!Inserted, Packets!Up, Packets!Blocksize, Packets!HeaderSize, Packets!FrameHeader

\* What a block may have: some bytes, more than 10 bits of packets only if the frame is large.
Holds(n, size) == n \in Nat /\ n > 0 /\ (n > 1023 * 1040 => size > 3 * 1023 * 1040)

\* A frame is one block, or three that follow each other and end with a packet.
LEMMA PacketsCut ==
    ASSUME NEW size \in Nat, size > 0
    PROVE  LET r == Packets!Blocks(size) IN
             /\ Len(r) \in {1, 3} /\ DOMAIN r = 1 .. Len(r) /\ r[1][1] = 0 /\ r[Len(r)][2] = size
             /\ \A n \in DOMAIN r : r[n][1] \in Nat /\ r[n][2] \in Nat /\ Holds(r[n][2] - r[n][1], size)
             /\ \A n \in 1 .. Len(r) - 1 : r[n][2] = r[n + 1][1] /\ r[n][2] % 1040 = 0
<1> DEFINE u == (size \div 3 + 1039) \div 1040
           a == u * 1040
<1>1. CASE size > Packets!Threshold
  <2>1. size > 93600
    BY <1>1, SMT DEF Packets!Threshold, Packets!Blocksize
  <2>2. u \in Nat /\ u > 0 /\ size - 2 * a > 0
    BY <2>1, SMT
  <2>3. a \in Nat /\ a > 0 /\ a % 1040 = 0 /\ (2 * a) % 1040 = 0
    BY <2>2, SMT
  <2>4. Packets!Aligned(size) = a
    BY <2>1, SMT DEF Packets!Aligned, Packets!Up, Packets!Blocksize, Packets!MAX_FEC_BLOCKS
  <2>5. size <= 3 * 1023 * 1040 => a <= 1023 * 1040 /\ size - 2 * a <= 1023 * 1040
    BY <2>1, SMT
  <2> HIDE DEF a, u
  <2>6. Packets!Blocks(size) = << <<0, a>>, <<a, 2 * a>>, <<2 * a, size>> >>
    BY <1>1, <2>4 DEF Packets!Blocks
  <2>7. Holds(a, size) /\ Holds(2 * a - a, size) /\ Holds(size - 2 * a, size)
    BY <2>2, <2>3, <2>5, SMT DEF Holds
  <2>8. Holds(a - 0, size)
    BY <2>3, <2>7
  <2> HIDE DEF Holds
  <2> QED BY <2>3, <2>6, <2>7, <2>8
<1>2. CASE ~(size > Packets!Threshold)
  <2>1. size <= 93600
    BY <1>2, SMT DEF Packets!Threshold, Packets!Blocksize
  <2>2. Holds(size - 0, size)
    BY <2>1, SMT DEF Holds
  <2> QED BY <1>2, <2>2 DEF Packets!Blocks
<1> QED BY <1>1, <1>2

\* A number divided by another one.
LEMMA Quotient ==
    ASSUME NEW x \in Nat, NEW y \in Nat \ {0}
    PROVE  x \div y \in Nat /\ y * (x \div y) <= x /\ x < y * (x \div y) + y
BY SMT

\* A block's packets are told with the percentage that gives the parity there is, unless a
\* client demands more than two packets of it.
LEMMA PacketsEncoded ==
    ASSUME NEW n \in Nat, n > 0, NEW m \in Nat, v5 \in Percentages
    PROVE  LET c == Packets!Encoded(n, m) IN
             /\ c.data = Packets!Up(n, 1040) /\ c.data \in Nat /\ c.data > 0
             /\ c.shards \in Nat /\ c.percentage \in Nat
             /\ c.shards > c.data => c.shards <= 255
             /\ c.percentage >= 256 => m > 2
             /\ (Packets!Up(c.data * v5, 100) < m /\ m > 2 => c.data <= 100) =>
                    Packets!Up(c.data * c.percentage, 100) = c.shards - c.data
<1> DEFINE c == Packets!Encoded(n, m)
           d == Packets!Up(n, 1040)
           x == d * v5
           plain == (x + 99) \div 100
           par == IF plain < m THEN m ELSE plain
           told == IF plain < m THEN (100 * par) \div d ELSE v5
<1>1. d \in Nat /\ d > 0
  BY SMT DEF Packets!Up
<1>2. v5 \in Nat /\ v5 > 0 /\ v5 < 256
  BY PacketsAssumption, SMT
<1>3. Packets!Up(x, 100) = plain
  BY <1>1, <1>2, SMT DEF Packets!Up
<1>4. c = [data |-> d, shards |-> IF d + par > 255 THEN d ELSE d + par,
           percentage |-> IF d + par > 255 THEN 0 ELSE told]
  BY <1>3 DEF Packets!Encoded, Packets!DATA_SHARDS_MAX, Packets!Blocksize
<1>5. d * 0 = 0 /\ Packets!Up(0, 100) = 0
  BY <1>1, SMT DEF Packets!Up
<1> HIDE DEF d
<1>6. x \in Nat /\ d <= x
  BY <1>1, <1>2, SMT
<1>b. c.data = d /\ Packets!Up(c.data * v5, 100) = plain
  BY <1>3, <1>4
<1> HIDE DEF x
<1>7. plain \in Nat /\ plain > 0 /\ plain * 100 >= x /\ (plain = 1 => x <= 100)
  BY <1>1, <1>6, SMT
<1> HIDE DEF plain
<1>8. CASE d + par > 255
  <2>1. c.data = d /\ c.shards = d /\ c.percentage = 0
    BY <1>4, <1>8
  <2> QED BY <1>1, <1>5, <2>1 DEF d
<1>9. CASE ~(d + par > 255) /\ plain < m
  <2>1. par = m /\ d + m <= 255 /\ m > plain /\ m > 0
    BY <1>1, <1>7, <1>9
  <2>2. c.data = d /\ c.shards = d + m /\ c.percentage = (100 * m) \div d
    BY <1>4, <1>9, <2>1
  <2> DEFINE q == (100 * m) \div d
             y == d * q
  <2>3. q \in Nat /\ d * q <= 100 * m /\ 100 * m < d * q + d
    BY <1>1, Quotient
  <2>4. m <= 2 => d <= 100
    BY <1>1, <1>6, <1>7, <2>1
  <2>5. m <= 2 => q <= 200
    BY <1>1, <2>3, SMT
  <2> HIDE DEF q
  <2>6. y \in Nat /\ y <= 100 * m /\ 100 * m < y + d
    BY <1>1, <2>3, SMT
  <2> HIDE DEF y
  <2>7. d <= 100 => Packets!Up(y, 100) = m
    BY <1>1, <2>1, <2>6, SMT DEF Packets!Up
  <2>8. d <= 100 => Packets!Up(c.data * c.percentage, 100) = m
    BY <2>2, <2>7 DEF y, q
  <2>9. c.percentage = q
    BY <2>2 DEF q
  <2>10. (d + m) - d = m /\ d + m <= 255 /\ d + m > d
    BY <1>1, <2>1, SMT
  <2>11. (plain < m /\ m > 2 => d <= 100) => d <= 100
    BY <2>1, <2>4
  <2>12. (plain < m /\ m > 2 => d <= 100) => Packets!Up(c.data * c.percentage, 100) = c.shards - c.data
    BY <2>2, <2>8, <2>10, <2>11
  <2>13. c.percentage \in Nat /\ (c.percentage >= 256 => m > 2)
    BY <2>3, <2>5, <2>9
  <2>14. c.data \in Nat /\ c.data > 0 /\ c.shards \in Nat /\ (c.shards > c.data => c.shards <= 255)
    BY <1>1, <2>2, <2>10
  <2> QED BY <1>b, <2>12, <2>13, <2>14 DEF d
<1>10. CASE ~(d + par > 255) /\ ~(plain < m)
  <2>1. c.data = d /\ c.shards = d + plain /\ c.percentage = v5 /\ d + plain <= 255
    BY <1>1, <1>4, <1>7, <1>10
  <2>2. Packets!Up(c.data * c.percentage, 100) = plain
    BY <1>3, <2>1 DEF x
  <2> QED BY <1>1, <1>2, <1>7, <2>1, <2>2 DEF d
<1> QED BY <1>8, <1>9, <1>10

\* What the first blocks have adds up.
LEMMA PacketsCounted ==
    ASSUME NEW e, Len(e) \in {1, 3}, \A n \in 1 .. Len(e) : e[n].shards \in Nat
    PROVE  /\ Packets!Counted(e)[0] = 0
           /\ \A n \in 0 .. Len(e) : Packets!Counted(e)[n] \in Nat
<1> DEFINE Sums(f) == f = [n \in 0 .. Len(e) |-> IF n = 0 THEN 0 ELSE f[n - 1] + e[n].shards]
           total == [n \in 0 .. Len(e) |-> IF n = 0 THEN 0 ELSE IF n = 1 THEN e[1].shards
                                      ELSE IF n = 2 THEN e[1].shards + e[2].shards
                                      ELSE e[1].shards + e[2].shards + e[3].shards]
<1>1. Sums(total)
  OBVIOUS
<1>2. Packets!Counted(e) = CHOOSE f : Sums(f)
  BY DEF Packets!Counted
<1>3. Sums(Packets!Counted(e))
  BY <1>1, <1>2, Zenon
<1> DEFINE f == Packets!Counted(e)
<1> HIDE DEF f
<1>4. \A n \in 0 .. Len(e) : f[n] = IF n = 0 THEN 0 ELSE f[n - 1] + e[n].shards
  BY <1>3, Zenon DEF f
<1>5. CASE Len(e) = 1
  BY <1>4, <1>5 DEF f
<1>6. CASE Len(e) = 3
  <2>1. f[0] = 0 /\ f[1] \in Nat /\ e[2].shards \in Nat /\ e[3].shards \in Nat
    BY <1>4, <1>6
  <2>2. f[2] \in Nat
    BY <1>4, <1>6, <2>1
  <2>3. f[3] \in Nat
    BY <1>4, <1>6, <2>1, <2>2
  <2>4. \A n \in 0 .. Len(e) : n = 0 \/ n = 1 \/ n = 2 \/ n = 3
    BY <1>6
  <2> QED BY <2>1, <2>2, <2>3, <2>4 DEF f
<1> QED BY <1>5, <1>6

\* The blocks that are sent: what each of them says, and the numbers they start with.
PacketsWhole(b) ==
    /\ b[1].from = 0
    /\ \A n \in DOMAIN b : b[n].from < b[n].to
    /\ \A n \in 1 .. Len(b) - 1 : b[n].to = b[n + 1].from /\ b[n].to % 1040 = 0
CodeIsKnown(c, m, size) ==
    /\ c.shards > c.data => c.shards <= 255
    /\ c.data >= 1024 => size > 3 * 1023 * 1040
    /\ c.percentage >= 256 => m > 2
    /\ (Packets!Up(c.data * v5, 100) < m /\ m > 2 => c.data <= 100) =>
           Packets!Up(c.data * c.percentage, 100) = c.shards - c.data
PacketsKnown(b, m) == \A n \in DOMAIN b : CodeIsKnown(b[n].code, m, b[Len(b)].to)

\* A frame that is sent is whole, and starts with the number that was next.
LEMMA PacketsSent ==
    ASSUME NEW s \in PacketSessions, NEW z \in FrameSizes, NEW q \in 0 .. VideoSeqs - 1, v5 \in Percentages
    PROVE  LET b == Packets!Sent(s, z, q) IN
             /\ b # <<>> /\ b[1].first = q /\ Packets!Next1(b) \in 0 .. VideoSeqs - 1
             /\ PacketsWhole(b) /\ PacketsKnown(b, MinimumParity[s])
<1> DEFINE size == Packets!Inserted(z)
           m == MinimumParity[s]
           r == Packets!Blocks(size)
           e == [n \in DOMAIN r |-> Packets!Encoded(r[n][2] - r[n][1], m)]
           b == Packets!Sent(s, z, q)
           f == Packets!Counted(e)
<1>0. size \in Nat /\ size > 0 /\ m \in Nat
  BY PacketsInserted, PacketsAssumption
<1>1. /\ Len(r) \in {1, 3} /\ DOMAIN r = 1 .. Len(r) /\ r[Len(r)][2] = size
      /\ r[1][1] = 0 /\ \A n \in DOMAIN r : r[n][1] \in Nat /\ r[n][2] \in Nat /\ Holds(r[n][2] - r[n][1], size)
      /\ \A n \in 1 .. Len(r) - 1 : r[n][2] = r[n + 1][1] /\ r[n][2] % 1040 = 0
  BY <1>0, PacketsCut, SMTT(30)
<1>2. b = [n \in DOMAIN r |-> [from |-> r[n][1], to |-> r[n][2], code |-> e[n],
                               first |-> (q + f[n - 1]) % VideoSeqs]]
  BY DEF Packets!Sent
<1> HIDE DEF r, b, size, m
<1>3. \A n \in DOMAIN r : e[n] = Packets!Encoded(r[n][2] - r[n][1], m)
  OBVIOUS
<1>4. DOMAIN e = 1 .. Len(r) /\ Len(e) = Len(r) /\ DOMAIN r = 1 .. Len(e) /\ Len(e) \in {1, 3}
  BY <1>1
<1>5. \A n \in DOMAIN r :
        /\ e[n].data \in Nat /\ e[n].shards \in Nat
        /\ e[n].data = Packets!Up(r[n][2] - r[n][1], 1040)
        /\ e[n].shards > e[n].data => e[n].shards <= 255
        /\ e[n].percentage >= 256 => m > 2
        /\ (Packets!Up(e[n].data * v5, 100) < m /\ m > 2 => e[n].data <= 100) =>
               Packets!Up(e[n].data * e[n].percentage, 100) = e[n].shards - e[n].data
  <2> SUFFICES ASSUME NEW n \in DOMAIN r
               PROVE  /\ e[n].data \in Nat /\ e[n].shards \in Nat
                      /\ e[n].data = Packets!Up(r[n][2] - r[n][1], 1040)
                      /\ e[n].shards > e[n].data => e[n].shards <= 255
                      /\ e[n].percentage >= 256 => m > 2
                      /\ (Packets!Up(e[n].data * v5, 100) < m /\ m > 2 => e[n].data <= 100) =>
                             Packets!Up(e[n].data * e[n].percentage, 100) = e[n].shards - e[n].data
    OBVIOUS
  <2>1. r[n][2] - r[n][1] \in Nat /\ r[n][2] - r[n][1] > 0
    BY <1>1 DEF Holds
  <2>2. e[n] = Packets!Encoded(r[n][2] - r[n][1], m)
    BY <1>3
  <2> HIDE DEF e
  <2> QED BY <1>0, <2>1, <2>2, PacketsEncoded
<1>c. \A n \in DOMAIN r : e[n].data >= 1024 => size > 3 * 1023 * 1040
  <2> SUFFICES ASSUME NEW n \in DOMAIN r, e[n].data >= 1024
               PROVE  size > 3 * 1023 * 1040
    OBVIOUS
  <2>1. r[n][2] - r[n][1] \in Nat /\ (r[n][2] - r[n][1] > 1023 * 1040 => size > 3 * 1023 * 1040)
    BY <1>1 DEF Holds
  <2>2. ASSUME NEW k \in Nat, Packets!Up(k, 1040) >= 1024
        PROVE  k > 1023 * 1040
    BY <2>2, SMT DEF Packets!Up
  <2>3. Packets!Up(r[n][2] - r[n][1], 1040) >= 1024
    BY <1>5
  <2> HIDE DEF e
  <2> QED BY <2>1, <2>2, <2>3
<1> HIDE DEF e
<1>a. Len(e) \in {1, 3} /\ \A n \in 1 .. Len(e) : e[n].shards \in Nat
  <2>1. DOMAIN r = 1 .. Len(e)
    BY <1>4
  <2>2. \A n \in DOMAIN r : e[n].shards \in Nat
    BY <1>5
  <2>3. Len(e) \in {1, 3}
    BY <1>4
  <2> QED BY <2>1, <2>2, <2>3
<1>6. f[0] = 0 /\ \A n \in 0 .. Len(e) : f[n] \in Nat
  BY <1>a, PacketsCounted
<1> HIDE DEF f
<1>7. DOMAIN b = 1 .. Len(r) /\ Len(b) = Len(r)
  BY <1>1, <1>2
<1>8. \A n \in DOMAIN b : /\ b[n].from = r[n][1] /\ b[n].to = r[n][2] /\ b[n].code = e[n]
                          /\ b[n].first = (q + f[n - 1]) % VideoSeqs
  BY <1>1, <1>2, <1>7
<1>9. VideoSeqs \in Nat \ {0} /\ q % VideoSeqs = q
  BY PacketsAssumption
<1>10. b # <<>> /\ b[1].first = q
  BY <1>1, <1>6, <1>7, <1>8, <1>9
<1>11. PacketsWhole(b)
  <2>1. b[1].from = 0
    BY <1>1, <1>7, <1>8
  <2>2. \A n \in DOMAIN b : b[n].from < b[n].to
    BY <1>1, <1>7, <1>8, SMTT(30) DEF Holds
  <2>3. ASSUME NEW n \in 1 .. Len(b) - 1 PROVE b[n].to = b[n + 1].from /\ b[n].to % 1040 = 0
    <3>1. n \in DOMAIN b /\ n + 1 \in DOMAIN b /\ n \in 1 .. Len(r) - 1
      BY <1>1, <1>7
    <3>2. b[n].to = r[n][2] /\ b[n + 1].from = r[n + 1][1]
      BY <1>8, <3>1
    <3> QED BY <1>1, <3>1, <3>2
  <2> QED BY <2>1, <2>2, <2>3 DEF PacketsWhole
<1>12. PacketsKnown(b, m)
  <2>1. b[Len(b)].to = size
    <3>1. Len(r) \in DOMAIN b /\ Len(b) = Len(r)
      BY <1>1, <1>7
    <3>2. b[Len(r)].to = r[Len(r)][2]
      BY <1>8, <3>1
    <3> QED BY <1>1, <3>1, <3>2
  <2>2. \A n \in DOMAIN b : n \in DOMAIN r /\ b[n].code = e[n]
    BY <1>1, <1>7, <1>8
  <2>3. \A n \in DOMAIN r : CodeIsKnown(e[n], m, size)
    <3> SUFFICES ASSUME NEW n \in DOMAIN r PROVE CodeIsKnown(e[n], m, size)
      OBVIOUS
    <3>1. e[n].data >= 1024 => size > 3 * 1023 * 1040
      BY <1>c
    <3>2. /\ e[n].shards > e[n].data => e[n].shards <= 255
          /\ e[n].percentage >= 256 => m > 2
          /\ (Packets!Up(e[n].data * v5, 100) < m /\ m > 2 => e[n].data <= 100) =>
                 Packets!Up(e[n].data * e[n].percentage, 100) = e[n].shards - e[n].data
      BY <1>5
    <3> DEFINE c == e[n]
    <3>3. /\ c.shards > c.data => c.shards <= 255
          /\ c.data >= 1024 => size > 3 * 1023 * 1040
          /\ c.percentage >= 256 => m > 2
          /\ (Packets!Up(c.data * v5, 100) < m /\ m > 2 => c.data <= 100) =>
                 Packets!Up(c.data * c.percentage, 100) = c.shards - c.data
      BY <3>1, <3>2
    <3> HIDE DEF c
    <3>4. CodeIsKnown(c, m, size)
      BY <3>3 DEF CodeIsKnown
    <3> QED BY <3>4 DEF c
  <2> QED BY <2>1, <2>2, <2>3, Zenon DEF PacketsKnown
<1>13. Packets!Next1(b) \in 0 .. VideoSeqs - 1
  <2> DEFINE l == Len(b)
  <2>1. l \in 1 .. Len(r) /\ l \in DOMAIN b /\ l - 1 \in 0 .. Len(e)
    BY <1>1, <1>4, <1>7
  <2>2. f[l - 1] \in Nat /\ e[l].shards \in Nat
    BY <1>1, <1>5, <1>6, <2>1
  <2>3. (q + f[l - 1]) % VideoSeqs \in Nat
    BY <1>9, <2>2
  <2>4. (((q + f[l - 1]) % VideoSeqs) + e[l].shards) % VideoSeqs \in 0 .. VideoSeqs - 1
    BY <1>9, <2>2, <2>3, SMTT(30)
  <2> QED BY <1>8, <2>1, <2>4 DEF Packets!Next1
<1> QED BY <1>10, <1>11, <1>12, <1>13 DEF b, m

-----------------------------------------------------------------------------
(* Packetizer: frames and packets follow.                                  *)

\* Nothing has been sent at first.
LEMMA PacketsInit == Packets!Init => Packets!IInv
<1> SUFFICES ASSUME Packets!Init PROVE Packets!IInv
  OBVIOUS
<1> USE PacketsAssumption DEF Packets!Init
<1>1. Packets!TypeOK
  BY DEF Packets!TypeOK
<1>2. Packets!QueuesAreMade
  BY DEF Packets!QueuesAreMade
<1>3. Packets!FramesWereSent /\ Packets!NumbersFollow /\ Packets!ParityIsOfItsPackets
  BY DEF Packets!FramesWereSent, Packets!NumbersFollow, Packets!ParityIsOfItsPackets
<1>4. Packets!ShardsAreNew
  BY DEF Packets!ShardsAreNew, Packets!Slot, Packets!RTPA_DATA_SHARDS
<1> QED BY <1>1, <1>2, <1>3, <1>4 DEF Packets!IInv, Packets!RTPA_DATA_SHARDS

\* What changes neither frames nor packets keeps the invariant.
LEMMA PacketsStutters ==
    ASSUME Packets!IInv, Packets!TypeOK', Packets!QueuesAreMade',
           UNCHANGED <<v5, v6, v7, v8, v9, v10, v11, v12>>
    PROVE  Packets!IInv'
<1>1. \A p, y, q : Packets!Sent(p, y, q)' = Packets!Sent(p, y, q)
  BY DEF Packets!Sent, Packets!Encoded
<1>2. \A t : Packets!Next1(v10[t])' = Packets!Next1(v10[t])
  BY DEF Packets!Next1
<1>3. Packets!FramesWereSent'
  BY <1>1, <1>2 DEF Packets!IInv, Packets!FramesWereSent
<1>4. Packets!ShardsAreNew' /\ Packets!ParityIsOfItsPackets' /\ Packets!NumbersFollow'
  BY DEF Packets!IInv, Packets!ShardsAreNew, Packets!ParityIsOfItsPackets, Packets!Slot, Packets!NumbersFollow
<1> QED BY <1>3, <1>4 DEF Packets!IInv

\* A queue takes what is made; when it is full it keeps that alone.
LEMMA PacketsPut ==
    ASSUME NEW S, NEW x \in S, NEW q \in Seq(S)
    PROVE  Packets!Put(q, x) \in Seq(S)
BY AppendProperties DEF Packets!Put

\* Encoders that make something, and a session that ends
LEMMA PacketsMade ==
    ASSUME NEW s \in PacketSessions, Packets!IInv, Packets!Encode(s) \/ Packets!Join(s)
    PROVE  Packets!IInv'
<1>1. UNCHANGED <<v5, v6, v7, v8, v9, v10, v11, v12>>
  BY DEF Packets!Encode, Packets!Join
<1>2. Packets!TypeOK'
  <2>1. v1' \subseteq PacketSessions
    BY DEF Packets!Encode, Packets!Join, Packets!IInv, Packets!TypeOK
  <2>2. v4' \in Nat \X Nat
    <3>1. v4 \in Nat \X Nat
      BY DEF Packets!IInv, Packets!TypeOK
    <3>2. v4' = v4 \/ (v4[1] > 0 /\ v4' = <<v4[1] - 1, v4[2]>>) \/ (v4[2] > 0 /\ v4' = <<v4[1], v4[2] - 1>>)
      BY DEF Packets!Encode, Packets!Join
    <3> QED BY <3>1, <3>2
  <2> QED BY <1>1, <2>1, <2>2 DEF Packets!IInv, Packets!TypeOK
<1>3. v2' \in Seq(PacketSessions \X FrameSizes) /\ v3' \in Seq(PacketSessions)
  <2>1. v2 \in Seq(PacketSessions \X FrameSizes) /\ v3 \in Seq(PacketSessions)
    BY DEF Packets!IInv, Packets!QueuesAreMade
  <2>2. ASSUME NEW z \in FrameSizes PROVE Packets!Put(v2, <<s, z>>) \in Seq(PacketSessions \X FrameSizes)
    BY <2>1, PacketsPut
  <2>3. Packets!Put(v3, s) \in Seq(PacketSessions)
    BY <2>1, PacketsPut
  <2> QED BY <2>1, <2>2, <2>3 DEF Packets!Encode, Packets!Join
<1>4. Packets!QueuesAreMade'
  BY <1>1, <1>3 DEF Packets!IInv, Packets!QueuesAreMade
<1> QED BY <1>1, <1>2, <1>4, PacketsStutters

\* videoBroadcastThread(): the frame starts with the number after the last one.
LEMMA PacketsVideo ==
    ASSUME Packets!IInv, Packets!SendVideo
    PROVE  Packets!IInv'
<1>1. v2 \in Seq(PacketSessions \X FrameSizes) /\ v2 # <<>> /\ v2' = Tail(v2) /\ v3 \in Seq(PacketSessions)
      /\ v5 \in Percentages
  BY DEF Packets!IInv, Packets!QueuesAreMade, Packets!SendVideo
<1> DEFINE s == v2[1][1]
           z == v2[1][2]
           b == Packets!Sent(s, z, v6[s])
<1>2. s \in PacketSessions /\ z \in FrameSizes /\ Tail(v2) \in Seq(PacketSessions \X FrameSizes)
  BY <1>1
<1>3. UNCHANGED <<v1, v3, v4, v5, v7, v8, v9, v11>>
  BY DEF Packets!SendVideo
<1>4. Packets!QueuesAreMade'
  BY <1>1, <1>2, <1>3 DEF Packets!QueuesAreMade
<1>5. CASE s \notin v1
  <2>1. UNCHANGED <<v6, v10, v12>>
    BY <1>5 DEF Packets!SendVideo
  <2>2. Packets!TypeOK'
    BY <1>3, <2>1 DEF Packets!IInv, Packets!TypeOK
  <2> QED BY <1>3, <1>4, <2>1, <2>2, PacketsStutters
<1>6. CASE s \in v1
  <2>1. v6 \in [PacketSessions -> 0 .. VideoSeqs - 1] /\ v6[s] \in 0 .. VideoSeqs - 1 /\ DOMAIN v10 = PacketSessions
    BY <1>2 DEF Packets!IInv, Packets!TypeOK
  <2>2. b # <<>> /\ b[1].first = v6[s] /\ Packets!Next1(b) \in 0 .. VideoSeqs - 1
    BY <1>1, <1>2, <2>1, PacketsSent
  <2> HIDE DEF s, z
  <2>3. v10' = [v10 EXCEPT ![s] = b] /\ v6' = [v6 EXCEPT ![s] = Packets!Next1(v10'[s])]
        /\ v12' = (v12 \/ (v10[s] # <<>> /\ v10'[s][1].first # Packets!Next1(v10[s])))
    BY <1>6, Zenon DEF Packets!SendVideo, s, z
  <2>4. v10'[s] = b /\ v6' = [v6 EXCEPT ![s] = Packets!Next1(b)]
    BY <1>2, <2>1, <2>3
  <2>5. v12 = FALSE /\ (v10[s] # <<>> => v6[s] = Packets!Next1(v10[s]))
    BY <1>2 DEF Packets!IInv, Packets!NumbersFollow, Packets!FramesWereSent
  <2>6. Packets!NumbersFollow'
    BY <2>2, <2>3, <2>4, <2>5, Zenon DEF Packets!NumbersFollow
  <2>7. Packets!TypeOK'
    BY <1>2, <1>3, <2>1, <2>2, <2>4 DEF Packets!IInv, Packets!TypeOK
  <2>8. Packets!FramesWereSent'
    <3> SUFFICES ASSUME NEW t \in PacketSessions, v10'[t] # <<>>
                 PROVE  /\ \E y \in FrameSizes, q \in 0 .. VideoSeqs - 1 : v10'[t] = Packets!Sent(t, y, q)'
                        /\ v6'[t] = Packets!Next1(v10[t])'
      BY Zenon DEF Packets!FramesWereSent
    <3>1. \A p, y, q : Packets!Sent(p, y, q)' = Packets!Sent(p, y, q)
      BY <1>3 DEF Packets!Sent, Packets!Encoded
    <3>2. Packets!Next1(v10[t])' = Packets!Next1(v10'[t])
      BY DEF Packets!Next1
    <3>3. CASE t = s
      BY <1>2, <2>1, <2>4, <3>1, <3>2, <3>3
    <3>4. CASE t # s
      BY <2>1, <2>3, <2>4, <3>1, <3>2, <3>4 DEF Packets!IInv, Packets!FramesWereSent
    <3> QED BY <3>3, <3>4
  <2>9. Packets!ShardsAreNew' /\ Packets!ParityIsOfItsPackets'
    BY <1>3 DEF Packets!IInv, Packets!ShardsAreNew, Packets!ParityIsOfItsPackets, Packets!Slot
  <2>10. DOMAIN v10' = PacketSessions
    BY <2>1, <2>3
  <2> QED BY <1>3, <1>4, <2>6, <2>7, <2>8, <2>9, <2>10 DEF Packets!IInv
<1> QED BY <1>5, <1>6

\* Numbers follow each other, and begin again after the last one.
LEMMA NextNumber ==
    ASSUME NEW size \in Nat \ {0}, NEW n \in 0 .. size - 1
    PROVE  /\ (n + 1) % size \in 0 .. size - 1
           /\ (n + 1) % size = n + 1 \/ (n + 1 = size /\ (n + 1) % size = 0)
<1>1. size % size = 0 /\ \A x \in 0 .. size - 1 : x % size = x
  BY SMT
<1>2. CASE n + 1 = size
  BY <1>1, <1>2
<1>3. CASE n + 1 # size
  BY <1>1, <1>3
<1> QED BY <1>2, <1>3

\* audioBroadcastThread(): the fourth packet in a row completes what the parity is of.
LEMMA PacketsAudio ==
    ASSUME Packets!IInv, Packets!SendAudio
    PROVE  Packets!IInv'
<1>1. v3 \in Seq(PacketSessions) /\ v3 # <<>> /\ v3' = Tail(v3)
  BY DEF Packets!IInv, Packets!QueuesAreMade, Packets!SendAudio
<1> DEFINE s == v3[1]
           n == v7[s]
<1>2. s \in PacketSessions /\ Tail(v3) \in Seq(PacketSessions)
  BY <1>1
<1>3. UNCHANGED <<v1, v2, v4, v5, v6, v10, v12>>
  BY DEF Packets!SendAudio
<1>4. Packets!QueuesAreMade'
  BY <1>1, <1>2, <1>3 DEF Packets!IInv, Packets!QueuesAreMade
<1>5. CASE s \notin v1
  <2>1. UNCHANGED <<v7, v8, v9, v11>>
    BY <1>5 DEF Packets!SendAudio
  <2>2. Packets!TypeOK'
    BY <1>3, <2>1 DEF Packets!IInv, Packets!TypeOK
  <2> QED BY <1>3, <1>4, <2>1, <2>2, PacketsStutters
<1>6. CASE s \in v1
  <2>1. /\ v7' = [v7 EXCEPT ![s] = (n + 1) % AudioSeqs]
        /\ v8' = [v8 EXCEPT ![s][Packets!Slot(n)] = n]
        /\ v9' = [v9 EXCEPT ![s] = IF Packets!Slot(n) = 0 THEN n ELSE v9[s]]
        /\ v11' = [v11 EXCEPT ![s] = IF Packets!Slot(n + 1) = 0
                                     THEN <<v9'[s], v8'[s], n + 1>> ELSE v11[s]]
    BY <1>6 DEF Packets!SendAudio
  <2> HIDE DEF s, n
  <2>2. /\ v7 \in [PacketSessions -> 0 .. AudioSeqs - 1] /\ n = v7[s] /\ n \in 0 .. AudioSeqs - 1
        /\ v8 \in [PacketSessions -> [0 .. 3 -> Nat \cup {Nil}]] /\ v8[s] \in [0 .. 3 -> Nat \cup {Nil}]
        /\ DOMAIN v9 = PacketSessions /\ DOMAIN v11 = PacketSessions
    BY <1>2 DEF Packets!IInv, Packets!TypeOK, Packets!RTPA_DATA_SHARDS, n
  <2>3. n \in Nat /\ n % 4 \in 0 .. 3 /\ Packets!Slot(n) = n % 4 /\ Packets!Slot(n + 1) = (n + 1) % 4
    BY <2>2, PacketsAssumption DEF Packets!Slot, Packets!RTPA_DATA_SHARDS
  <2>4. /\ \A m \in 0 .. 3 : m < n % 4 => v8[s][m] = n - (n % 4) + m
        /\ n % 4 # 0 => v9[s] = n - (n % 4)
    <3>1. /\ \A m \in 0 .. 3 : m < Packets!Slot(v7[s]) => v8[s][m] = v7[s] - Packets!Slot(v7[s]) + m
          /\ Packets!Slot(v7[s]) # 0 => v9[s] = v7[s] - Packets!Slot(v7[s])
      BY <1>2 DEF Packets!IInv, Packets!ShardsAreNew, Packets!RTPA_DATA_SHARDS
    <3> QED BY <2>2, <2>3, <3>1
  <2>5. v8' = [v8 EXCEPT ![s] = [v8[s] EXCEPT ![n % 4] = n]]
    BY <1>2, <2>1, <2>2, <2>3
  <2>6. /\ v8'[s] = [v8[s] EXCEPT ![n % 4] = n] /\ v7'[s] = (n + 1) % AudioSeqs
        /\ v9'[s] = IF n % 4 = 0 THEN n ELSE v9[s]
        /\ v11'[s] = IF (n + 1) % 4 = 0 THEN <<v9'[s], v8'[s], n + 1>> ELSE v11[s]
        /\ \A t \in PacketSessions : t # s => v7'[t] = v7[t] /\ v8'[t] = v8[t] /\ v9'[t] = v9[t] /\ v11'[t] = v11[t]
    BY <1>2, <2>1, <2>2, <2>3, <2>5
  <2>7. v8'[s] \in [0 .. 3 -> Nat \cup {Nil}] /\ v8'[s][n % 4] = n /\ \A m \in 0 .. 3 : m # n % 4 => v8'[s][m] = v8[s][m]
    BY <2>2, <2>3, <2>6
  <2>8. (n + 1) % AudioSeqs \in 0 .. AudioSeqs - 1 /\ ((n + 1) % AudioSeqs = n + 1 \/ (n + 1 = AudioSeqs /\ (n + 1) % AudioSeqs = 0))
    <3>1. AudioSeqs \in Nat \ {0} /\ n \in 0 .. AudioSeqs - 1
      BY <2>2, PacketsAssumption
    <3> QED BY <3>1, NextNumber
  <2>9. v7' \in [PacketSessions -> 0 .. AudioSeqs - 1] /\ v8' \in [PacketSessions -> [0 .. 3 -> Nat \cup {Nil}]]
        /\ DOMAIN v9' = PacketSessions /\ DOMAIN v11' = PacketSessions
    BY <2>1, <2>2, <2>5, <2>6, <2>7, <2>8
  <2> DEFINE k == (n + 1) % AudioSeqs
  <2>a. k \in Nat /\ (k = n + 1 \/ (n + 1 = AudioSeqs /\ k = 0)) /\ AudioSeqs \in Nat /\ AudioSeqs % 4 = 0
    BY <2>8, PacketsAssumption
  <2> HIDE DEF k
  <2>10. /\ k % 4 = (n + 1) % 4 /\ (k % 4 # 0 => k = n + 1)
         /\ n % 4 < 3 => (n + 1) % 4 = (n % 4) + 1
         /\ n % 4 = 3 => (n + 1) % 4 = 0
    BY <2>3, <2>a
  <2>11. /\ \A m \in 0 .. 3 : m < k % 4 => v8'[s][m] = k - (k % 4) + m
         /\ k % 4 # 0 => v9'[s] = k - (k % 4)
    <3>1. CASE k % 4 = 0
      BY <3>1
    <3>2. CASE k % 4 # 0
      <4>1. k = n + 1 /\ n % 4 < 3 /\ k % 4 = (n % 4) + 1 /\ k - (k % 4) = n - (n % 4)
        BY <2>3, <2>10, <3>2
      <4> QED BY <2>3, <2>4, <2>6, <2>7, <4>1
    <3> QED BY <3>1, <3>2
  <2>12. Packets!ShardsAreNew'
    <3> SUFFICES ASSUME NEW t \in PacketSessions
                 PROVE  /\ \A m \in 0 .. 3 : m < v7'[t] % 4 => v8'[t][m] = v7'[t] - (v7'[t] % 4) + m
                        /\ v7'[t] % 4 # 0 => v9'[t] = v7'[t] - (v7'[t] % 4)
      BY DEF Packets!ShardsAreNew, Packets!Slot, Packets!RTPA_DATA_SHARDS
    <3>1. CASE t = s
      BY <2>6, <2>11, <3>1 DEF k
    <3>2. CASE t # s
      <4>1. /\ \A m \in 0 .. 3 : m < v7[t] % 4 => v8[t][m] = v7[t] - (v7[t] % 4) + m
            /\ v7[t] % 4 # 0 => v9[t] = v7[t] - (v7[t] % 4)
        BY DEF Packets!IInv, Packets!ShardsAreNew, Packets!Slot, Packets!RTPA_DATA_SHARDS
      <4> QED BY <2>6, <3>2, <4>1
    <3> QED BY <3>1, <3>2
  <2>13. Packets!ParityIsOfItsPackets'
    <3> SUFFICES ASSUME NEW t \in PacketSessions, v11'[t] # Nil
                 PROVE  /\ v11'[t][2] = [m \in 0 .. 3 |-> v11'[t][1] + m] /\ v11'[t][3] = v11'[t][1] + 4
      BY DEF Packets!ParityIsOfItsPackets, Packets!RTPA_DATA_SHARDS
    <3>1. CASE t = s /\ (n + 1) % 4 = 0
      <4>1. n % 4 = 3 /\ v9'[s] = n - 3
        BY <2>3, <2>4, <2>6, <2>10, <3>1
      <4>2. \A m \in 0 .. 3 : v8'[s][m] = n - 3 + m
        BY <2>3, <2>4, <2>7, <4>1
      <4>3. v8'[s] = [m \in 0 .. 3 |-> n - 3 + m]
        BY <2>7, <4>2
      <4>4. v11'[s] = <<n - 3, v8'[s], n + 1>>
        BY <2>6, <3>1, <4>1
      <4> QED BY <2>3, <3>1, <4>3, <4>4
    <3>2. CASE ~(t = s /\ (n + 1) % 4 = 0)
      <4>1. v11'[t] = v11[t]
        BY <2>6, <3>2
      <4> QED BY <4>1 DEF Packets!IInv, Packets!ParityIsOfItsPackets, Packets!RTPA_DATA_SHARDS
    <3> QED BY <3>1, <3>2
  <2>14. Packets!TypeOK'
    BY <1>3, <2>9 DEF Packets!IInv, Packets!TypeOK
  <2>15. Packets!FramesWereSent' /\ Packets!NumbersFollow'
    <3>1. \A p, y, q : Packets!Sent(p, y, q)' = Packets!Sent(p, y, q)
      BY <1>3 DEF Packets!Sent, Packets!Encoded
    <3>2. \A t : Packets!Next1(v10[t])' = Packets!Next1(v10[t])
      BY <1>3 DEF Packets!Next1
    <3> QED BY <1>3, <3>1, <3>2 DEF Packets!IInv, Packets!FramesWereSent, Packets!NumbersFollow
  <2>16. v8' \in [PacketSessions -> [0 .. Packets!RTPA_DATA_SHARDS - 1 -> Nat \cup {Nil}]]
    BY <2>9 DEF Packets!RTPA_DATA_SHARDS
  <2>17. DOMAIN v10' = PacketSessions
    BY <1>3 DEF Packets!IInv
  <2> QED BY <1>4, <2>9, <2>12, <2>13, <2>14, <2>15, <2>16, <2>17 DEF Packets!IInv
<1> QED BY <1>5, <1>6

\* A step of the packets
LEMMA PacketsStep == Packets!IInv /\ Packets!Next => Packets!IInv'
<1> SUFFICES ASSUME Packets!IInv, Packets!Next PROVE Packets!IInv'
  OBVIOUS
<1>1. CASE Packets!EndAll
  <2>1. Packets!TypeOK' /\ Packets!QueuesAreMade' /\ UNCHANGED <<v5, v6, v7, v8, v9, v10, v11, v12>>
    BY <1>1 DEF Packets!EndAll, Packets!IInv, Packets!TypeOK, Packets!QueuesAreMade
  <2> QED BY <2>1, PacketsStutters
<1> QED BY <1>1, PacketsMade, PacketsVideo, PacketsAudio DEF Packets!Next

\* The invariant of Packetizer holds always.
LEMMA PacketsInvariant == Spec => [](part = "packets" => Packets!IInv)
<1>1. Init => (part = "packets" => Packets!IInv)
  BY StartOfMedia, PacketsInit
<1>2. (part = "packets" => Packets!IInv) /\ [Next]_vars => (part = "packets" => Packets!IInv)'
  <2>1. Packets!IInv /\ UNCHANGED vars => Packets!IInv'
    <3> SUFFICES ASSUME Packets!IInv, UNCHANGED vars PROVE Packets!IInv'
      OBVIOUS
    <3>1. UNCHANGED <<v5, v6, v7, v8, v9, v10, v11, v12>> /\ Packets!TypeOK' /\ Packets!QueuesAreMade'
      BY DEF vars, Packets!IInv, Packets!TypeOK, Packets!QueuesAreMade
    <3> QED BY <3>1, PacketsStutters
  <2> QED BY <2>1, StepOfMedia, PacketsStep
<1> QED BY <1>1, <1>2, PTL DEF Spec

\* A client can put together what it is sent, of whatever size the frames are, whatever parity
\* clients demand and however many sessions there are (stream.cpp, videoBroadcastThread() and
\* audioBroadcastThread()): frames are cut without a gap, no number is left out, and the parity
\* of four packets, or of a block, is the one the client is told of; only frames of more than
\* 3 * 1023 packets, or a demand for more than two packets of parity, make numbers that do not
\* fit, or a percentage that is rounded too far down.
THEOREM PacketsStayWhole == Spec => []PacketsAreWhole
<1>1. (part = "packets" => Packets!IInv) => PacketsAreWhole
  <2> SUFFICES ASSUME part = "packets", Packets!IInv
               PROVE  /\ Packets!TypeOK /\ Packets!FramesAreWhole /\ Packets!ParityIsKnown
                      /\ Packets!NumbersFollow /\ Packets!ParityIsOfItsPackets
    BY DEF PacketsAreWhole
  <2>1. Packets!TypeOK /\ Packets!NumbersFollow /\ Packets!ParityIsOfItsPackets
    BY DEF Packets!IInv
  <2>2. ASSUME NEW s \in PacketSessions, v10[s] # <<>>
        PROVE  PacketsWhole(v10[s]) /\ PacketsKnown(v10[s], MinimumParity[s])
    <3>1. PICK z \in FrameSizes, q \in 0 .. VideoSeqs - 1 : v10[s] = Packets!Sent(s, z, q)
      BY <2>2 DEF Packets!IInv, Packets!FramesWereSent
    <3>2. v5 \in Percentages
      BY DEF Packets!IInv, Packets!QueuesAreMade
    <3> QED BY <3>1, <3>2, PacketsSent
  <2>3. Packets!FramesAreWhole
    BY <2>2 DEF Packets!FramesAreWhole, PacketsWhole, Packets!Blocksize
  <2>4. Packets!ParityIsKnown
    <3> SUFFICES ASSUME NEW s \in PacketSessions, NEW n \in DOMAIN v10[s]
                 PROVE  LET c == v10[s][n].code IN
                          /\ c.shards > c.data => c.shards <= Packets!DATA_SHARDS_MAX
                          /\ c.data >= 1024 => v10[s][Len(v10[s])].to > 3 * 1023 * Packets!Blocksize
                          /\ c.percentage >= 256 => Packets!Demanding(s)
                          /\ c.percentage < 256 /\ (Packets!Raised(s, c) /\ Packets!Demanding(s) => c.data <= 100) =>
                                 Packets!Up(c.data * c.percentage, 100) = c.shards - c.data
      BY DEF Packets!ParityIsKnown
    <3>1. v10[s] # <<>>
      OBVIOUS
    <3> QED BY <2>2, <3>1 DEF PacketsKnown, CodeIsKnown, Packets!DATA_SHARDS_MAX, Packets!Blocksize, Packets!Raised, Packets!Demanding
  <2> QED BY <2>1, <2>3, <2>4
<1> QED BY <1>1, PacketsInvariant, PTL

-----------------------------------------------------------------------------
(* X11Capture: one task for each display with shared memory.               *)

\* An instance counts the members of a set as we do.
LEMMA ScreenCardinality ==
    ASSUME NEW S
    PROVE  Screen!Cardinality(S) = Cardinality(S) /\ (Screen!IsFiniteSet(S) <=> IsFiniteSet(S))
BY Zenon DEF Screen!Cardinality, Cardinality, Screen!IsFiniteSet, IsFiniteSet

\* A set with one element more
LEMMA OneMore ==
    ASSUME NEW S, NEW x, IsFiniteSet(S)
    PROVE  /\ IsFiniteSet(S \cup {x}) /\ Cardinality(S \cup {x}) <= Cardinality(S) + 1
           /\ Cardinality(S \cup {x}) \in Nat
<1>1. IsFiniteSet(S \cup {x}) /\ Cardinality(S) \in Nat
  BY FS_AddElement, FS_CardinalityType
<1> QED BY <1>1, FS_AddElement, FS_CardinalityType

\* A new task gets an address that no other one has, as long as there is a place for one.
LEMMA ScreenFresh ==
    ASSUME IsFiniteSet(v9), Screen!TypeOK, Cardinality(v9) < MaxDisplays + MaxOthers
    PROVE  Screen!Fresh \in TaskAddresses /\ Screen!Fresh \notin Screen!InUse
<1> DEFINE S == {t[1] : t \in v9}
           U == Screen!InUse
           F == TaskAddresses \ U
           f == [t \in v9 |-> t[1]]
<1>1. f \in Surjection(v9, S)
  BY DEF Surjection
<1>2. IsFiniteSet(S) /\ Cardinality(S) <= Cardinality(v9) /\ Cardinality(S) \in Nat /\ Cardinality(v9) \in Nat
  BY <1>1, FS_Surjection, FS_CardinalityType
<1> HIDE DEF S
<1>3. PICK x : U \subseteq S \cup {x}
  BY DEF Screen!InUse, S
<1>4. /\ IsFiniteSet(S \cup {x}) /\ Cardinality(S \cup {x}) <= Cardinality(S) + 1
      /\ Cardinality(S \cup {x}) \in Nat
  BY <1>2, FS_AddElement, FS_CardinalityType
<1>5. IsFiniteSet(U) /\ Cardinality(U) <= Cardinality(S \cup {x}) /\ Cardinality(U) \in Nat
  BY <1>3, <1>4, FS_Subset, FS_CardinalityType
<1> HIDE DEF U
<1>6. F # {}
  <2> SUFFICES ASSUME F = {} PROVE FALSE
    OBVIOUS
  <2>1. TaskAddresses \in SUBSET U
    OBVIOUS
  <2>2. Cardinality(TaskAddresses) <= Cardinality(U) /\ Cardinality(TaskAddresses) \in Nat
    BY <1>5, <2>1, FS_Subset, FS_CardinalityType, ScreenAssumption
  <2> QED BY <1>2, <1>4, <1>5, <2>2, ScreenAssumption
<1>7. F \subseteq Nat
  BY ScreenAssumption
<1> HIDE DEF F
<1>8. \E a \in F : \A b \in F : a <= b
  BY <1>6, <1>7, LeastOfSome
<1>9. Screen!Lowest(F) \in F
  BY <1>8, Zenon DEF Screen!Lowest
<1> QED BY <1>9, Zenon DEF Screen!Fresh, F, U

\* Nothing is open, and no task waits.
LEMMA ScreenInit == Screen!Init => Screen!IInv
<1> SUFFICES ASSUME Screen!Init PROVE Screen!IInv
  OBVIOUS
<1> USE ScreenAssumption DEF Screen!Init
<1>1. Screen!TypeOK
  BY DEF Screen!TypeOK, Screen!InUse
<1>2. Screen!AddressesDiffer /\ Screen!OneRefreshes /\ Screen!DisplayIsThere /\ Screen!OnlyPlainIsUndefined
  BY DEF Screen!AddressesDiffer, Screen!OneRefreshes, Screen!DisplayIsThere, Screen!OnlyPlainIsUndefined,
    Screen!Refreshing
<1>3. Screen!TasksAreCounted
  BY FS_EmptySet, ScreenCardinality DEF Screen!TasksAreCounted, Screen!Running
<1> QED BY <1>1, <1>2, <1>3 DEF Screen!IInv

\* What concerns no task keeps the invariant.
LEMMA ScreenStutters ==
    ASSUME Screen!IInv, UNCHANGED <<v3, v4, v8, v9, v10, v12, v14>>, v1' \in Layouts,
           Screen!DisplayIsThere', Screen!OnlyPlainIsUndefined'
    PROVE  Screen!IInv'
<1> USE DEF Screen!IInv
<1>1. Screen!TypeOK'
  BY DEF Screen!TypeOK, Screen!InUse
<1>2. Screen!AddressesDiffer' /\ Screen!OneRefreshes'
  BY DEF Screen!AddressesDiffer, Screen!OneRefreshes, Screen!Refreshing, Screen!Running, Screen!Mine
<1>3. Screen!TasksAreCounted'
  BY DEF Screen!TasksAreCounted, Screen!Running
<1> QED BY <1>1, <1>2, <1>3

\* The capture thread takes an image, or finds that the screen is another one.
LEMMA ScreenCaptures ==
    ASSUME Screen!IInv,
           \/ Screen!SnapshotShm \/ Screen!RefreshPlain \/ Screen!GetImage \/ Screen!Stop
           \/ \E l \in Layouts : Screen!Rearrange(l)
    PROVE  Screen!IInv'
<1>1. UNCHANGED <<v3, v4, v8, v9, v10, v12, v14>> /\ v1' \in Layouts
  BY DEF Screen!SnapshotShm, Screen!RefreshPlain, Screen!GetImage, Screen!Stop, Screen!Rearrange,
    Screen!poolVars, Screen!bounds, Screen!IInv, Screen!TypeOK
<1> USE DEF Screen!IInv, Screen!DisplayIsThere, Screen!OnlyPlainIsUndefined
<1>2. CASE Screen!SnapshotShm
  BY <1>1, <1>2, ScreenStutters, Zenon DEF Screen!SnapshotShm
<1>3. CASE Screen!RefreshPlain
  <2>1. v3' # Nil /\ ~v4' /\ v15' = v15 /\ (v11' => Screen!screen = v6) /\ (v5' => Screen!screen # v6)
    BY <1>3, Zenon DEF Screen!RefreshPlain
  <2> QED BY <1>1, <2>1, ScreenStutters, Zenon
<1>4. CASE Screen!GetImage
  <2>1. ~v11' /\ ~v4' /\ v3' = v3 /\ v5' = v5
    BY <1>4, Zenon DEF Screen!GetImage
  <2> QED BY <1>1, <2>1, ScreenStutters, Zenon
<1>5. CASE Screen!Stop
  <2>1. v3 # Nil /\ ~v11 /\ UNCHANGED <<v3, v4, v11, v15>>
    BY <1>5 DEF Screen!Stop
  <2> QED BY <1>1, <2>1, ScreenStutters
<1>6. ASSUME NEW l \in Layouts, Screen!Rearrange(l) PROVE Screen!IInv'
  <2>1. UNCHANGED <<v3, v4, v5, v11, v15>>
    BY <1>6 DEF Screen!Rearrange
  <2> QED BY <1>1, <2>1, ScreenStutters
<1> QED BY <1>2, <1>3, <1>4, <1>5, <1>6

\* A display is opened, and has a task with shared memory.
LEMMA ScreenOpen ==
    ASSUME Screen!IInv, ~v15, NEW b \in BOOLEAN, NEW n \in 0 .. 2, Screen!Open(b, n)
    PROVE  Screen!IInv'
<1> USE ScreenAssumption
<1>1. /\ v3 = Nil /\ v12 < MaxDisplays /\ v12' = v12 + 1 /\ v3' = v12' /\ (v4' <=> b)
      /\ IF b THEN v8' = Screen!Fresh /\ v9' = v9 \cup {<<Screen!Fresh, v3'>>} ELSE UNCHANGED <<v8, v9>>
      /\ UNCHANGED <<v1, v10, v11, v13, v14, v15>>
  BY DEF Screen!Open
<1>2. v12 \in 0 .. MaxDisplays /\ v14 \in 0 .. MaxOthers /\ v3' \in 1 .. v12' /\ v3' # Nil /\ v12' \in 0 .. MaxDisplays
  BY <1>1 DEF Screen!IInv, Screen!TypeOK
<1>3. IsFiniteSet(v9) /\ Cardinality(v9) \in Nat /\ Cardinality(v9) <= v14 + v12
      /\ ~Screen!Running("refresh") /\ ~Screen!Running("push") /\ ~Screen!Running("assign") /\ ~Screen!Refreshing
  <2>1. ~Screen!Refreshing
    BY <1>1 DEF Screen!IInv, Screen!OneRefreshes
  <2>2. ~Screen!Running("refresh") /\ ~Screen!Running("push") /\ ~Screen!Running("assign")
    BY <2>1 DEF Screen!Refreshing, Screen!Running
  <2> QED BY <2>1, <2>2, ScreenCardinality, FS_CardinalityType DEF Screen!IInv, Screen!TasksAreCounted
<1>4. Cardinality(v9) < MaxDisplays + MaxOthers
  BY <1>1, <1>2, <1>3
<1> DEFINE a == Screen!Fresh
<1>5. a \in TaskAddresses /\ a \notin Screen!InUse
  BY <1>3, <1>4, ScreenFresh DEF Screen!IInv
<1> HIDE DEF a
<1>6. /\ ~Screen!Running("refresh")' /\ ~Screen!Running("push")' /\ ~Screen!Running("assign")' /\ ~Screen!Refreshing'
      /\ v9 \subseteq TaskAddresses \X {0}
  <2>1. \A t \in v9 : t \in TaskAddresses \X (0 .. MaxDisplays) /\ t[2] \in {0, Nil}
    BY <1>1 DEF Screen!IInv, Screen!TypeOK, Screen!OneRefreshes
  <2>2. \A t \in v9 : t \in TaskAddresses \X {0}
    BY <2>1
  <2> QED BY <1>1, <1>3, <2>2 DEF Screen!Running, Screen!Refreshing
<1>7. v9' = IF b THEN v9 \cup {<<a, v3'>>} ELSE v9
  BY <1>1 DEF a
<1>8. Screen!TypeOK'
  BY <1>1, <1>2, <1>5, <1>7 DEF Screen!IInv, Screen!TypeOK, Screen!InUse
<1>9. Screen!AddressesDiffer'
  <2>1. \A t \in v9 : t[1] # a
    BY <1>5 DEF Screen!InUse
  <2>2. v10 # Nil => v10.task[1] # a
    BY <1>5 DEF Screen!InUse
  <2> QED BY <1>1, <1>7, <2>1, <2>2 DEF Screen!IInv, Screen!AddressesDiffer
<1>10. Screen!OneRefreshes'
  <2>1. Screen!Mine' = IF b THEN {<<a, v3'>>} ELSE {}
    BY <1>2, <1>6, <1>7 DEF Screen!Mine
  <2>2. v8' = IF b THEN a ELSE v8
    BY <1>1 DEF a
  <2>3. \A t \in v9' : t[2] \in {0, v3'}
    BY <1>6, <1>7
  <2> QED BY <1>1, <1>2, <1>6, <2>1, <2>2, <2>3 DEF Screen!OneRefreshes
<1>11. Screen!DisplayIsThere' /\ Screen!OnlyPlainIsUndefined'
  <2>1. ~v11 /\ v11' = v11 /\ v15' = v15
    BY <1>1 DEF Screen!IInv, Screen!DisplayIsThere
  <2> QED BY <1>2, <2>1, Zenon DEF Screen!DisplayIsThere, Screen!OnlyPlainIsUndefined
<1>12. Screen!TasksAreCounted'
  <2>1. IsFiniteSet(v9') /\ Cardinality(v9') <= Cardinality(v9) + 1 /\ Cardinality(v9') \in Nat
    <3>1. /\ IsFiniteSet(v9 \cup {<<a, v3'>>}) /\ Cardinality(v9 \cup {<<a, v3'>>}) <= Cardinality(v9) + 1
          /\ Cardinality(v9 \cup {<<a, v3'>>}) \in Nat
      BY <1>3, OneMore, Zenon
    <3> QED BY <1>3, <1>7, <3>1
  <2>2. Cardinality(v9') <= v14' + v12'
    BY <1>1, <1>2, <1>3, <2>1
  <2> QED BY <1>6, <2>1, <2>2, ScreenCardinality DEF Screen!TasksAreCounted
<1> QED BY <1>8, <1>9, <1>10, <1>11, <1>12 DEF Screen!IInv

\* What runs is a task, at one of its steps.
LEMMA ScreenRunning ==
    ASSUME Screen!TypeOK, v10 # Nil
    PROVE  /\ v10.task \in TaskAddresses \X (0 .. MaxDisplays) /\ v10.next \in TaskAddresses \cup {Nil}
           /\ v10.step \in {"refresh", "push", "assign", "end"}
BY DEF Screen!TypeOK, Screen!At

\* A step that is put down is a step.
LEMMA ScreenAt ==
    ASSUME NEW t \in TaskAddresses \X (0 .. MaxDisplays), NEW n \in TaskAddresses \cup {Nil},
           NEW i \in {"refresh", "push", "assign", "end"}
    PROVE  /\ Screen!At(t, i, n) # Nil /\ Screen!At(t, i, n).task = t /\ Screen!At(t, i, n).step = i
           /\ Screen!At(t, i, n).next = n
<1>1. PICK a \in TaskAddresses, d \in 0 .. MaxDisplays : t = <<a, d>>
  OBVIOUS
<1>2. [task |-> <<a, d>>, step |-> i, next |-> n] # Nil
  BY ScreenAssumption
<1> QED BY <1>1, <1>2 DEF Screen!At

\* The pool's thread goes on with a task, of this display or of somebody else.
LEMMA ScreenRefreshes ==
    ASSUME Screen!IInv, Screen!Refresh
    PROVE  Screen!IInv'
<1>1. /\ v10 # Nil /\ v10.step = "refresh" /\ v10' = Screen!At(v10.task, "push", Nil)
      /\ UNCHANGED <<v1, v3, v4, v5, v8, v9, v11, v12, v14>> /\ (v15' => v15 \/ v3 # v10.task[2])
  BY DEF Screen!Refresh, Screen!Running, Screen!Uses, Screen!bounds
<1> DEFINE t == v10.task
<1>2. t \in TaskAddresses \X (0 .. MaxDisplays)
  BY <1>1, ScreenRunning DEF Screen!IInv
<1> HIDE DEF t
<1>3. v10' = Screen!At(t, "push", Nil) /\ v10' # Nil /\ v10'.task = t /\ v10'.step = "push"
  BY <1>1, <1>2, ScreenAt DEF t
<1>4. v3 = t[2] /\ v3 # Nil /\ v4 /\ v8 = t[1]
  BY <1>1 DEF Screen!IInv, Screen!OneRefreshes, Screen!Refreshing, t
<1>5. Screen!InUse' = Screen!InUse
  BY <1>1, <1>3 DEF Screen!InUse, t
<1>6. Screen!TypeOK'
  BY <1>1, <1>2, <1>3, <1>5 DEF Screen!IInv, Screen!TypeOK
<1>7. Screen!AddressesDiffer'
  BY <1>1, <1>3 DEF Screen!IInv, Screen!AddressesDiffer, t
<1>8. Screen!OneRefreshes'
  <2>1. Screen!Running("refresh") /\ Screen!Running("push")'
    BY <1>1, <1>3 DEF Screen!Running
  <2>2. Screen!Mine' = Screen!Mine
    BY <1>1 DEF Screen!Mine
  <2> QED BY <1>1, <1>3, <1>4, <2>1, <2>2 DEF Screen!IInv, Screen!OneRefreshes
<1>9. Screen!DisplayIsThere' /\ Screen!OnlyPlainIsUndefined'
  BY <1>1, <1>4, Zenon DEF Screen!IInv, Screen!DisplayIsThere, Screen!OnlyPlainIsUndefined, t
<1>10. Screen!TasksAreCounted'
  BY <1>1, <1>3 DEF Screen!IInv, Screen!TasksAreCounted, Screen!Running
<1> QED BY <1>6, <1>7, <1>8, <1>9, <1>10 DEF Screen!IInv

\* ... and takes one that waits.
LEMMA ScreenRun ==
    ASSUME Screen!IInv, NEW t \in v9, Screen!Run(t)
    PROVE  Screen!IInv'
<1> DEFINE i == IF t[2] = 0 THEN "end" ELSE "refresh"
<1>1. /\ v10 = Nil /\ v9' = v9 \ {t} /\ v10' = Screen!At(t, i, Nil)
      /\ UNCHANGED <<v1, v3, v4, v5, v8, v11, v12, v14, v15>>
  BY DEF Screen!Run, Screen!bounds
<1>2. t \in TaskAddresses \X (0 .. MaxDisplays) /\ t[2] \in Nat
  BY DEF Screen!IInv, Screen!TypeOK
<1>3. v10' # Nil /\ v10'.task = t /\ v10'.step = i
  BY <1>1, <1>2, ScreenAt
<1>4. Screen!InUse' \subseteq Screen!InUse
  BY <1>1, <1>3 DEF Screen!InUse
<1>5. Screen!TypeOK'
  BY <1>1, <1>2, <1>4 DEF Screen!IInv, Screen!TypeOK
<1>6. Screen!AddressesDiffer'
  BY <1>1, <1>3 DEF Screen!IInv, Screen!AddressesDiffer
<1>7. ~Screen!Refreshing /\ ~Screen!Running("refresh") /\ ~Screen!Running("push") /\ ~Screen!Running("assign")
  BY <1>1 DEF Screen!Refreshing, Screen!Running
<1>8. /\ t[2] = 0 => /\ ~Screen!Refreshing' /\ ~Screen!Running("refresh")' /\ ~Screen!Running("push")'
                     /\ ~Screen!Running("assign")'
      /\ t[2] # 0 => Screen!Refreshing' /\ Screen!Running("refresh")' /\ ~Screen!Running("push")'
  BY <1>3 DEF Screen!Refreshing, Screen!Running
<1>9. Screen!OneRefreshes'
  <2>1. t[2] \in {0, v3} /\ \A u \in v9' : u[2] \in {0, v3'}
    BY <1>1 DEF Screen!IInv, Screen!OneRefreshes
  <2>2. v3 # Nil => v3 \in Nat /\ v3 # 0
    BY DEF Screen!IInv, Screen!TypeOK
  <2>3. Screen!Mine' = Screen!Mine \ {t}
    BY <1>1 DEF Screen!Mine
  <2>4. CASE t[2] = 0
    <3>1. v3 # Nil => Screen!Mine' = Screen!Mine
      BY <2>2, <2>3, <2>4 DEF Screen!Mine
    <3> QED BY <1>1, <1>7, <1>8, <2>1, <2>4, <3>1 DEF Screen!IInv, Screen!OneRefreshes
  <2>5. CASE t[2] # 0
    <3>1. v3 = t[2] /\ v3 # Nil /\ t \in Screen!Mine
      BY <1>2, <2>1, <2>5, ScreenAssumption DEF Screen!Mine
    <3>2. v4 /\ Screen!Mine = {<<v8, v3>>} /\ t = <<v8, v3>>
      BY <1>7, <3>1 DEF Screen!IInv, Screen!OneRefreshes
    <3>3. Screen!Mine' = {} /\ v8 = t[1]
      BY <2>3, <3>2
    <3> QED BY <1>1, <1>3, <1>8, <2>1, <2>5, <3>1, <3>2, <3>3 DEF Screen!OneRefreshes
  <2> QED BY <2>4, <2>5
<1>10. Screen!DisplayIsThere' /\ Screen!OnlyPlainIsUndefined'
  BY <1>1, Zenon DEF Screen!IInv, Screen!DisplayIsThere, Screen!OnlyPlainIsUndefined
<1>11. Screen!TasksAreCounted'
  <2>1. IsFiniteSet(v9) /\ Cardinality(v9) \in Nat /\ Cardinality(v9) <= v14 + v12
    BY <1>7, ScreenCardinality, FS_CardinalityType DEF Screen!IInv, Screen!TasksAreCounted
  <2>2. IsFiniteSet(v9') /\ Cardinality(v9') = Cardinality(v9) - 1
    BY <1>1, <2>1, FS_RemoveElement
  <2>3. v14 \in Nat /\ v12 \in Nat
    BY DEF Screen!IInv, Screen!TypeOK
  <2>4. Cardinality(v9') + 1 <= v14' + v12' /\ Cardinality(v9') <= v14' + v12'
    BY <1>1, <2>1, <2>2, <2>3
  <2> QED BY <1>8, <2>1, <2>2, <2>4, ScreenCardinality DEF Screen!TasksAreCounted
<1> QED BY <1>5, <1>6, <1>9, <1>10, <1>11 DEF Screen!IInv

\* ... pushes the next one before it ends.
LEMMA ScreenPushes ==
    ASSUME Screen!IInv, Screen!PushDelayed
    PROVE  Screen!IInv'
<1> DEFINE a == Screen!Fresh
           t == v10.task
<1>1. /\ v10 # Nil /\ v10.step = "push" /\ v10' = Screen!At(t, "assign", a) /\ v9' = v9 \cup {<<a, t[2]>>}
      /\ UNCHANGED <<v1, v3, v4, v5, v8, v11, v12, v14, v15>>
  BY DEF Screen!PushDelayed, Screen!Running, Screen!bounds
<1>2. t \in TaskAddresses \X (0 .. MaxDisplays)
  BY <1>1, ScreenRunning DEF Screen!IInv
<1>3. IsFiniteSet(v9) /\ Cardinality(v9) \in Nat /\ Cardinality(v9) + 1 <= v14 + v12
      /\ v12 \in 0 .. MaxDisplays /\ v14 \in 0 .. MaxOthers
  <2>1. Screen!Running("push")
    BY <1>1 DEF Screen!Running
  <2> QED BY <2>1, ScreenCardinality, FS_CardinalityType DEF Screen!IInv, Screen!TasksAreCounted, Screen!TypeOK
<1>4. Cardinality(v9) < MaxDisplays + MaxOthers
  BY <1>3, ScreenAssumption
<1>5. a \in TaskAddresses /\ a \notin Screen!InUse
  BY <1>3, <1>4, ScreenFresh DEF Screen!IInv
<1>6. v3 = t[2] /\ v3 # Nil /\ v4 /\ v8 = t[1] /\ Screen!Mine = {} /\ \A u \in v9 : u[2] \in {0, v3}
  <2>1. Screen!Running("push") /\ Screen!Refreshing
    BY <1>1 DEF Screen!Running, Screen!Refreshing
  <2> QED BY <2>1 DEF Screen!IInv, Screen!OneRefreshes
<1> HIDE DEF a, t
<1>7. v10' # Nil /\ v10'.task = t /\ v10'.step = "assign" /\ v10'.next = a
  BY <1>1, <1>2, <1>5, ScreenAt
<1>8. Screen!TypeOK'
  <2>1. Screen!InUse' \subseteq Screen!InUse \cup {a}
    BY <1>1, <1>7 DEF Screen!InUse, t
  <2> QED BY <1>1, <1>2, <1>5, <2>1 DEF Screen!IInv, Screen!TypeOK
<1>9. Screen!AddressesDiffer'
  <2>1. (\A u \in v9 : u[1] # a) /\ t[1] # a /\ \A u \in v9 : u[1] # t[1]
    BY <1>1, <1>5 DEF Screen!InUse, Screen!IInv, Screen!AddressesDiffer, t
  <2> QED BY <1>1, <1>7, <2>1 DEF Screen!IInv, Screen!AddressesDiffer
<1>10. Screen!OneRefreshes'
  <2>1. Screen!Mine' = {<<a, v3>>}
    BY <1>1, <1>6 DEF Screen!Mine
  <2>2. ~Screen!Running("refresh")' /\ ~Screen!Running("push")' /\ Screen!Running("assign")' /\ Screen!Refreshing'
    BY <1>7 DEF Screen!Running, Screen!Refreshing
  <2> QED BY <1>1, <1>6, <1>7, <2>1, <2>2 DEF Screen!OneRefreshes
<1>11. Screen!DisplayIsThere' /\ Screen!OnlyPlainIsUndefined'
  BY <1>1, Zenon DEF Screen!IInv, Screen!DisplayIsThere, Screen!OnlyPlainIsUndefined
<1>12. Screen!TasksAreCounted'
  <2>1. IsFiniteSet(v9') /\ Cardinality(v9') <= Cardinality(v9) + 1 /\ Cardinality(v9') \in Nat
    <3>1. /\ IsFiniteSet(v9 \cup {<<a, t[2]>>}) /\ Cardinality(v9 \cup {<<a, t[2]>>}) <= Cardinality(v9) + 1
          /\ Cardinality(v9 \cup {<<a, t[2]>>}) \in Nat
      BY <1>3, OneMore, Zenon
    <3> QED BY <1>1, <3>1
  <2>2. Cardinality(v9') <= v14' + v12'
    BY <1>1, <1>3, <2>1
  <2>3. ~Screen!Running("refresh")' /\ ~Screen!Running("push")'
    BY <1>7 DEF Screen!Running
  <2> QED BY <2>1, <2>2, <2>3, ScreenCardinality DEF Screen!TasksAreCounted
<1> QED BY <1>8, <1>9, <1>10, <1>11, <1>12 DEF Screen!IInv

\* ... and has the display remember it.
LEMMA ScreenAssigns ==
    ASSUME Screen!IInv, Screen!Assign
    PROVE  Screen!IInv'
<1> DEFINE t == v10.task
           a == v10.next
<1>1. /\ v10 # Nil /\ v10.step = "assign" /\ v10' = Screen!At(t, "end", a) /\ v8' = a
      /\ UNCHANGED <<v1, v3, v4, v5, v9, v11, v12, v14>> /\ (v15' => v15 \/ v3 # v10.task[2])
  BY DEF Screen!Assign, Screen!Running, Screen!Uses, Screen!bounds
<1>2. t \in TaskAddresses \X (0 .. MaxDisplays) /\ a \in TaskAddresses \cup {Nil}
  BY <1>1, ScreenRunning DEF Screen!IInv
<1>3. Screen!Running("assign") /\ Screen!Refreshing /\ ~Screen!Running("refresh") /\ ~Screen!Running("push")
  BY <1>1 DEF Screen!Running, Screen!Refreshing
<1>4. v3 = t[2] /\ v3 # Nil /\ v4 /\ Screen!Mine = {<<a, v3>>} /\ \A u \in v9 : u[2] \in {0, v3}
  BY <1>3 DEF Screen!IInv, Screen!OneRefreshes
<1> HIDE DEF a, t
<1>5. v10' # Nil /\ v10'.task = t /\ v10'.step = "end" /\ v10'.next = a
  BY <1>1, <1>2, ScreenAt
<1>6. /\ ~Screen!Running("refresh")' /\ ~Screen!Running("push")' /\ ~Screen!Running("assign")'
      /\ ~Screen!Refreshing'
  BY <1>5 DEF Screen!Running, Screen!Refreshing
<1>7. Screen!TypeOK'
  <2>1. Screen!InUse' = Screen!InUse
    BY <1>1, <1>5 DEF Screen!InUse, t
  <2> QED BY <1>1, <1>2, <2>1 DEF Screen!IInv, Screen!TypeOK
<1>8. Screen!AddressesDiffer'
  BY <1>1, <1>5 DEF Screen!IInv, Screen!AddressesDiffer, t
<1>9. Screen!OneRefreshes'
  <2>1. Screen!Mine' = {<<a, v3>>}
    BY <1>1, <1>4 DEF Screen!Mine
  <2> QED BY <1>1, <1>4, <1>6, <2>1 DEF Screen!OneRefreshes
<1>10. Screen!DisplayIsThere' /\ Screen!OnlyPlainIsUndefined'
  BY <1>1, <1>4, Zenon DEF Screen!IInv, Screen!DisplayIsThere, Screen!OnlyPlainIsUndefined, t
<1>11. Screen!TasksAreCounted'
  <2>1. Screen!TasksAreCounted /\ v9' = v9 /\ v14' = v14 /\ v12' = v12
    BY <1>1 DEF Screen!IInv
  <2> QED BY <1>3, <1>6, <2>1 DEF Screen!TasksAreCounted
<1> QED BY <1>7, <1>8, <1>9, <1>10, <1>11 DEF Screen!IInv

\* A task that has run is freed.
LEMMA ScreenEnds ==
    ASSUME Screen!IInv, Screen!EndTask
    PROVE  Screen!IInv'
<1>1. /\ v10 # Nil /\ v10.step = "end" /\ v10' = Nil
      /\ UNCHANGED <<v1, v3, v4, v5, v8, v9, v11, v12, v14, v15>>
  BY DEF Screen!EndTask, Screen!Running, Screen!bounds
<1>2. /\ ~Screen!Running("refresh") /\ ~Screen!Running("push") /\ ~Screen!Running("assign") /\ ~Screen!Refreshing
      /\ ~Screen!Running("refresh")' /\ ~Screen!Running("push")' /\ ~Screen!Running("assign")' /\ ~Screen!Refreshing'
  BY <1>1 DEF Screen!Running, Screen!Refreshing
<1>3. Screen!TypeOK'
  <2>1. Screen!InUse' \subseteq Screen!InUse
    BY <1>1 DEF Screen!InUse
  <2> QED BY <1>1, <2>1 DEF Screen!IInv, Screen!TypeOK
<1>4. Screen!AddressesDiffer'
  BY <1>1 DEF Screen!IInv, Screen!AddressesDiffer
<1>5. Screen!OneRefreshes'
  <2>1. Screen!Mine' = Screen!Mine
    BY <1>1 DEF Screen!Mine
  <2> QED BY <1>1, <1>2, <2>1 DEF Screen!IInv, Screen!OneRefreshes
<1>6. Screen!DisplayIsThere' /\ Screen!OnlyPlainIsUndefined'
  BY <1>1, Zenon DEF Screen!IInv, Screen!DisplayIsThere, Screen!OnlyPlainIsUndefined
<1>7. Screen!TasksAreCounted'
  BY <1>1, <1>2 DEF Screen!IInv, Screen!TasksAreCounted
<1> QED BY <1>3, <1>4, <1>5, <1>6, <1>7 DEF Screen!IInv

\* Others use the pool too.
LEMMA ScreenOthers ==
    ASSUME Screen!IInv, Screen!PushOther
    PROVE  Screen!IInv'
<1> DEFINE a == Screen!Fresh
<1>1. /\ v14 < MaxOthers /\ v14' = v14 + 1 /\ v9' = v9 \cup {<<a, 0>>}
      /\ UNCHANGED <<v1, v3, v4, v5, v8, v10, v11, v12, v15>>
  BY DEF Screen!PushOther
<1> DEFINE more == IF Screen!Running("refresh") \/ Screen!Running("push") THEN 1 ELSE 0
<1>2. IsFiniteSet(v9) /\ Cardinality(v9) \in Nat /\ Cardinality(v9) + more <= v14 + v12
      /\ v12 \in 0 .. MaxDisplays /\ v14 \in 0 .. MaxOthers
  BY ScreenCardinality, FS_CardinalityType DEF Screen!IInv, Screen!TasksAreCounted, Screen!TypeOK
<1>3. more \in {0, 1}
  OBVIOUS
<1> HIDE DEF more
<1>4. Cardinality(v9) < MaxDisplays + MaxOthers
  BY <1>1, <1>2, <1>3, ScreenAssumption
<1>5. a \in TaskAddresses /\ a \notin Screen!InUse
  BY <1>2, <1>4, ScreenFresh DEF Screen!IInv
<1> HIDE DEF a
<1>6. Screen!TypeOK'
  <2>1. Screen!InUse' \subseteq Screen!InUse \cup {a}
    BY <1>1 DEF Screen!InUse
  <2>2. v9' \subseteq TaskAddresses \X (0 .. MaxDisplays) /\ v14' \in 0 .. MaxOthers
    BY <1>1, <1>2, <1>5, ScreenAssumption DEF Screen!IInv, Screen!TypeOK
  <2> QED BY <1>1, <1>2, <1>5, <2>1, <2>2 DEF Screen!IInv, Screen!TypeOK
<1>7. Screen!AddressesDiffer'
  <2>1. (\A u \in v9 : u[1] # a) /\ (v10 # Nil => v10.task[1] # a)
    BY <1>5 DEF Screen!InUse
  <2> QED BY <1>1, <2>1 DEF Screen!IInv, Screen!AddressesDiffer
<1>8. Screen!OneRefreshes'
  <2>1. v3 # 0 \/ v3 = Nil
    BY DEF Screen!IInv, Screen!TypeOK
  <2>2. v3 # Nil => Screen!Mine' = Screen!Mine
    BY <1>1, <2>1 DEF Screen!Mine
  <2> QED BY <1>1, <2>2 DEF Screen!IInv, Screen!OneRefreshes, Screen!Refreshing, Screen!Running
<1>9. Screen!DisplayIsThere' /\ Screen!OnlyPlainIsUndefined'
  BY <1>1, Zenon DEF Screen!IInv, Screen!DisplayIsThere, Screen!OnlyPlainIsUndefined
<1>10. Screen!TasksAreCounted'
  <2>1. IsFiniteSet(v9') /\ Cardinality(v9') <= Cardinality(v9) + 1 /\ Cardinality(v9') \in Nat
    <3>1. /\ IsFiniteSet(v9 \cup {<<a, 0>>}) /\ Cardinality(v9 \cup {<<a, 0>>}) <= Cardinality(v9) + 1
          /\ Cardinality(v9 \cup {<<a, 0>>}) \in Nat
      BY <1>2, OneMore, Zenon
    <3> QED BY <1>1, <3>1
  <2>2. Cardinality(v9') + more <= v14' + v12'
    BY <1>1, <1>2, <1>3, <2>1
  <2>3. more' = more
    BY <1>1 DEF more, Screen!Running
  <2> QED BY <2>1, <2>2, <2>3, ScreenCardinality DEF Screen!TasksAreCounted, more
<1> QED BY <1>6, <1>7, <1>8, <1>9, <1>10 DEF Screen!IInv

\* The destructor has caught its task, if there was one.
LEMMA ScreenDestroys ==
    ASSUME Screen!IInv, Screen!Destroy
    PROVE  Screen!IInv'
<1>1. /\ v5 /\ ~v5' /\ v3' = Nil /\ v9' = IF v4 THEN v9 \ Screen!Cancelled ELSE v9
      /\ v4 => Screen!Cancelled # {}
      /\ UNCHANGED <<v1, v4, v8, v10, v11, v12, v14, v15>>
  BY DEF Screen!Destroy, Screen!bounds, Screen!Caught
<1>2. v3 # Nil /\ v3 \in Nat /\ v3 # 0 /\ ~v11
  BY <1>1 DEF Screen!IInv, Screen!DisplayIsThere, Screen!TypeOK
<1>3. ~Screen!Refreshing /\ \A t \in v9' : t[2] = 0
  <2>1. CASE ~v4
    BY <1>1, <1>2, <2>1 DEF Screen!IInv, Screen!OneRefreshes, Screen!Mine
  <2>2. CASE v4
    <3>1. PICK t \in v9 : t[1] = v8
      BY <1>1, <2>2 DEF Screen!Cancelled
    <3>2. ~Screen!Refreshing
      BY <3>1 DEF Screen!IInv, Screen!OneRefreshes, Screen!AddressesDiffer, Screen!Refreshing
    <3>3. ~Screen!Running("refresh") /\ ~Screen!Running("push") /\ ~Screen!Running("assign")
      BY <3>2 DEF Screen!Running, Screen!Refreshing
    <3>4. Screen!Mine = {<<v8, v3>>} /\ \A u \in v9 : u[2] \in {0, v3}
      BY <1>2, <2>2, <3>3 DEF Screen!IInv, Screen!OneRefreshes
    <3>5. \A u \in v9' : u[2] # v3
      BY <1>1, <2>2, <3>4 DEF Screen!Cancelled, Screen!Mine
    <3>6. \A u \in v9' : u \in v9
      BY <1>1
    <3> QED BY <3>2, <3>4, <3>5, <3>6
  <2> QED BY <2>1, <2>2
<1>4. /\ ~Screen!Refreshing' /\ ~Screen!Running("refresh") /\ ~Screen!Running("push")
      /\ ~Screen!Running("refresh")' /\ ~Screen!Running("push")'
  BY <1>1, <1>3 DEF Screen!Refreshing, Screen!Running
<1>5. v9' \subseteq v9
  BY <1>1
<1>6. Screen!TypeOK'
  <2>1. Screen!InUse' \subseteq Screen!InUse
    BY <1>1, <1>5 DEF Screen!InUse
  <2> QED BY <1>1, <1>5, <2>1 DEF Screen!IInv, Screen!TypeOK
<1>7. Screen!AddressesDiffer'
  BY <1>1, <1>5 DEF Screen!IInv, Screen!AddressesDiffer
<1>8. Screen!OneRefreshes'
  BY <1>1, <1>3, <1>4 DEF Screen!OneRefreshes
<1>9. Screen!DisplayIsThere' /\ Screen!OnlyPlainIsUndefined'
  BY <1>1, <1>2 DEF Screen!IInv, Screen!DisplayIsThere, Screen!OnlyPlainIsUndefined
<1>10. Screen!TasksAreCounted'
  <2>1. IsFiniteSet(v9) /\ Cardinality(v9) \in Nat /\ Cardinality(v9) <= v14 + v12 /\ v14 \in Nat /\ v12 \in Nat
    BY <1>4, ScreenCardinality, FS_CardinalityType DEF Screen!IInv, Screen!TasksAreCounted, Screen!TypeOK
  <2>2. IsFiniteSet(v9') /\ Cardinality(v9') <= Cardinality(v9) /\ Cardinality(v9') \in Nat
    BY <1>5, <2>1, FS_Subset, FS_CardinalityType
  <2>3. Cardinality(v9') <= v14' + v12'
    BY <1>1, <2>1, <2>2
  <2> QED BY <1>4, <2>2, <2>3, ScreenCardinality DEF Screen!TasksAreCounted
<1> QED BY <1>6, <1>7, <1>8, <1>9, <1>10 DEF Screen!IInv

\* A step of the display
LEMMA ScreenStep == Screen!IInv /\ Screen!Next => Screen!IInv'
<1> SUFFICES ASSUME Screen!IInv, Screen!Next PROVE Screen!IInv'
  OBVIOUS
<1>1. ~v15
  BY DEF Screen!Next
<1> QED BY <1>1, ScreenCaptures, ScreenOpen, ScreenRefreshes, ScreenRun, ScreenPushes, ScreenAssigns, ScreenEnds,
      ScreenOthers, ScreenDestroys, Zenon DEF Screen!Next

\* The invariant of X11Capture holds always.
LEMMA ScreenInvariant == Spec => [](part = "screen" => Screen!IInv)
<1>1. Init => (part = "screen" => Screen!IInv)
  BY StartOfMedia, ScreenInit
<1>2. (part = "screen" => Screen!IInv) /\ [Next]_vars => (part = "screen" => Screen!IInv)'
  <2>1. Screen!IInv /\ UNCHANGED vars => Screen!IInv'
    <3> SUFFICES ASSUME Screen!IInv, UNCHANGED vars PROVE Screen!IInv'
      OBVIOUS
    <3>1. UNCHANGED <<v3, v4, v8, v9, v10, v12, v14>> /\ v1' \in Layouts
      BY DEF vars, Screen!IInv, Screen!TypeOK
    <3>2. Screen!DisplayIsThere' /\ Screen!OnlyPlainIsUndefined'
      BY DEF vars, Screen!IInv, Screen!DisplayIsThere, Screen!OnlyPlainIsUndefined
    <3> QED BY <3>1, <3>2, ScreenStutters
  <2> QED BY <2>1, StepOfMedia, ScreenStep
<1> QED BY <1>1, <1>2, PTL DEF Spec

\* What is captured belongs to the display that is open (x11grab.cpp): its task ends with
\* it, and what it cancels is its own.
ScreenIsCurrent ==
    part = "screen" =>
        /\ Screen!TypeOK /\ Screen!RefreshEndsWithItsDisplay
        /\ Screen!CancelHitsItsOwn /\ Screen!OnlyPlainIsUndefined
LEMMA ScreenStaysCurrent == Spec => []ScreenIsCurrent
<1>1. (part = "screen" => Screen!IInv) => ScreenIsCurrent
  <2> SUFFICES ASSUME Screen!IInv
               PROVE  /\ Screen!TypeOK /\ Screen!RefreshEndsWithItsDisplay
                      /\ Screen!CancelHitsItsOwn /\ Screen!OnlyPlainIsUndefined
    BY DEF ScreenIsCurrent
  <2>1. Screen!TypeOK /\ Screen!OnlyPlainIsUndefined
    BY DEF Screen!IInv
  <2>2. Screen!RefreshEndsWithItsDisplay
    BY DEF Screen!IInv, Screen!OneRefreshes, Screen!Refreshing, Screen!RefreshEndsWithItsDisplay
  <2>3. Screen!CancelHitsItsOwn
    <3> SUFFICES ASSUME v3 # Nil, v4, NEW t \in v9, t[1] = v8
                 PROVE  t[2] = v3
      BY DEF Screen!CancelHitsItsOwn, Screen!Cancelled
    <3>1. ~Screen!Refreshing
      BY DEF Screen!IInv, Screen!OneRefreshes, Screen!AddressesDiffer, Screen!Refreshing
    <3>2. Screen!Mine = {<<v8, v3>>}
      BY <3>1 DEF Screen!IInv, Screen!OneRefreshes, Screen!Running, Screen!Refreshing
    <3>3. <<v8, v3>> \in v9
      BY <3>2 DEF Screen!Mine
    <3> QED BY <3>3 DEF Screen!IInv, Screen!AddressesDiffer
  <2> QED BY <2>1, <2>2, <2>3
<1> QED BY <1>1, ScreenInvariant, PTL

-----------------------------------------------------------------------------
(* DmabufCapture: the names of the outputs.                                *)

\* DmabufCapture counts as everybody does.
LEMMA DmabufCardinality ==
    ASSUME NEW S
    PROVE  Dmabuf!Cardinality(S) = Cardinality(S)
BY Zenon DEF Dmabuf!Cardinality, Cardinality, Dmabuf!IsFiniteSet, IsFiniteSet

\* Outputs are numbers.
LEMMA OutputsAreNumbers ==
    /\ Cardinality(Outputs) \in Nat /\ IsFiniteSet(Outputs)
    /\ Outputs \subseteq Nat /\ \A o : o \in Outputs <=> o \in 1 .. Cardinality(Outputs)
<1>1. IsFiniteSet(Outputs) /\ Outputs = 1 .. Cardinality(Outputs)
  BY DmabufAssumption, Zenon
<1>2. Cardinality(Outputs) \in Nat
  BY <1>1, FS_CardinalityType
<1>3. \A o : o \in Outputs <=> o \in 1 .. Cardinality(Outputs)
  BY <1>1, Zenon
<1> QED BY <1>1, <1>2, <1>3

\* The monitors below a number
Monitors(m) == {p \in Outputs : p < m /\ Dmabuf!IsMonitor(p)}

LEMMA MonitorsBelow ==
    ASSUME NEW m
    PROVE  \A p : p \in Monitors(m) <=> p \in Outputs /\ p < m /\ Dmabuf!IsMonitor(p)
BY Zenon DEF Monitors

LEMMA MonitorsAreCounted ==
    ASSUME NEW m
    PROVE  /\ IsFiniteSet(Monitors(m)) /\ Cardinality(Monitors(m)) \in Nat
           /\ Dmabuf!Before(m) = Cardinality(Monitors(m))
<1>1. IsFiniteSet(Outputs) /\ Monitors(m) \in SUBSET Outputs
  BY OutputsAreNumbers, Zenon DEF Monitors
<1>2. IsFiniteSet(Monitors(m)) /\ Cardinality(Monitors(m)) \in Nat
  BY <1>1, FS_Subset, FS_CardinalityType
<1>3. Dmabuf!Before(m) = Dmabuf!Cardinality(Monitors(m))
  BY Zenon DEF Dmabuf!Before, Monitors
<1> QED BY <1>2, <1>3, DmabufCardinality

\* Monitors are in the order of their numbers.
LEMMA MonitorsAreInOrder ==
    ASSUME NEW p \in Outputs, NEW q \in Nat, Dmabuf!IsMonitor(p), p < q
    PROVE  Dmabuf!Before(p) < Dmabuf!Before(q)
<1>1. p \in Nat /\ Outputs \subseteq Nat
  BY OutputsAreNumbers
<1>2. Monitors(p) \in SUBSET Monitors(q) /\ p \in Monitors(q) /\ p \notin Monitors(p)
  <2>1. (\A r \in Outputs : r < p => r < q) /\ ~(p < p)
    BY <1>1
  <2> QED BY <1>1, <2>1, MonitorsBelow, Zenon
<1>3. Cardinality(Monitors(p)) <= Cardinality(Monitors(q)) /\ Cardinality(Monitors(p)) # Cardinality(Monitors(q))
  BY <1>2, MonitorsAreCounted, FS_Subset
<1> QED BY <1>3, MonitorsAreCounted

\* Each place is that of one of them.
LEMMA MonitorsHavePlaces ==
    ASSUME NEW m \in Nat, NEW k \in Nat, k < Cardinality(Monitors(m))
    PROVE  \E p \in Monitors(m) : Dmabuf!Before(p) = k
<1> DEFINE c == Cardinality(Monitors(m))
           f == [p \in Monitors(m) |-> Dmabuf!Before(p)]
<1>1. Outputs \subseteq Nat /\ Monitors(m) \subseteq Outputs /\ c \in Nat /\ IsFiniteSet(Monitors(m))
  BY OutputsAreNumbers, MonitorsAreCounted DEF Monitors
<1>2. \A p \in Monitors(m) : Dmabuf!Before(p) \in 0 .. c - 1
  <2> SUFFICES ASSUME NEW p \in Monitors(m) PROVE Dmabuf!Before(p) \in 0 .. c - 1
    OBVIOUS
  <2>1. p \in Outputs /\ p < m /\ Dmabuf!IsMonitor(p)
    BY DEF Monitors
  <2>2. Dmabuf!Before(p) < Dmabuf!Before(m)
    BY <2>1, MonitorsAreInOrder
  <2> QED BY <2>2, MonitorsAreCounted
<1>3. \A p, q \in Monitors(m) : Dmabuf!Before(p) = Dmabuf!Before(q) => p = q
  <2> SUFFICES ASSUME NEW p \in Monitors(m), NEW q \in Monitors(m), Dmabuf!Before(p) = Dmabuf!Before(q) PROVE p = q
    OBVIOUS
  <2>1. p \in Outputs /\ q \in Outputs /\ p \in Nat /\ q \in Nat /\ Dmabuf!IsMonitor(p) /\ Dmabuf!IsMonitor(q)
    BY <1>1 DEF Monitors
  <2>2. Dmabuf!Before(p) \in Nat
    BY MonitorsAreCounted
  <2>3. ~(p < q) /\ ~(q < p)
    BY <2>1, <2>2, MonitorsAreInOrder
  <2> QED BY <2>1, <2>3
<1> HIDE DEF c
<1>4. f \in Injection(Monitors(m), 0 .. c - 1)
  BY <1>2, <1>3 DEF Injection, IsInjective
<1>5. IsFiniteSet(0 .. c - 1) /\ Cardinality(0 .. c - 1) = c
  BY <1>1, FS_Interval
<1>6. Cardinality(Monitors(m)) = Cardinality(0 .. c - 1)
  BY <1>5 DEF c
<1>7. f \in Surjection(Monitors(m), 0 .. c - 1)
  BY <1>4, <1>5, <1>6, FS_Injection
<1>8. k \in 0 .. c - 1
  BY <1>1 DEF c
<1> QED BY <1>7, <1>8 DEF Surjection

\* The names are those of the monitors, each at its place.
NamesOf(n) == [k \in 1 .. Cardinality(Monitors(n + 1)) |-> CHOOSE p \in Monitors(n + 1) : Dmabuf!Before(p) = k - 1]
LEMMA NamesOfOne ==
    ASSUME NEW n \in 1 .. Cardinality(Outputs)
    PROVE  NamesOf(n) = IF Dmabuf!IsMonitor(n) THEN Append(NamesOf(n - 1), n) ELSE NamesOf(n - 1)
<1>1. n \in Outputs /\ Outputs \subseteq Nat /\ n \in Nat /\ (n - 1) + 1 = n
  BY OutputsAreNumbers
<1>2. CASE ~Dmabuf!IsMonitor(n)
  <2>1. Monitors(n + 1) = Monitors(n)
    <3>1. \A p \in Outputs : (p < n + 1 <=> p < n \/ p = n)
      BY <1>1
    <3>2. \A p : p \in Monitors(n + 1) <=> p \in Monitors(n)
      BY <1>2, <3>1, MonitorsBelow, Zenon
    <3> QED BY <3>2, MonitorsBelow, Zenon DEF Monitors
  <2> QED BY <1>1, <1>2, <2>1 DEF NamesOf
<1>3. CASE Dmabuf!IsMonitor(n)
  <2> DEFINE c == Cardinality(Monitors(n))
             s == NamesOf(n - 1)
  <2>1. Monitors(n + 1) = Monitors(n) \cup {n} /\ n \notin Monitors(n)
    <3>1. \A p \in Outputs : (p < n + 1 <=> p < n \/ p = n) /\ ~(n < n)
      BY <1>1
    <3>2. \A p : p \in Monitors(n + 1) <=> p \in Monitors(n) \/ p = n
      BY <1>1, <1>3, <3>1, MonitorsBelow
    <3> QED BY <1>1, <3>1, <3>2, MonitorsBelow, Zenon
  <2>2. IsFiniteSet(Monitors(n)) /\ c \in Nat
    BY MonitorsAreCounted
  <2>3. Cardinality(Monitors(n + 1)) = c + 1
    BY <2>1, <2>2, FS_AddElement
  <2>4. Dmabuf!Before(n) = c /\ c + 1 - 1 = c
    BY <2>2, MonitorsAreCounted
  <2>5. \A p \in Monitors(n) : Dmabuf!Before(p) < c
    <3> SUFFICES ASSUME NEW p \in Monitors(n) PROVE Dmabuf!Before(p) < c
      OBVIOUS
    <3>1. p \in Outputs /\ p < n /\ Dmabuf!IsMonitor(p)
      BY DEF Monitors
    <3> QED BY <1>1, <2>4, <3>1, MonitorsAreInOrder
  <2>6. s = [k \in 1 .. c |-> CHOOSE p \in Monitors(n) : Dmabuf!Before(p) = k - 1]
    BY <1>1 DEF NamesOf
  <2> HIDE DEF c, s
  <2>7. Append(s, n) = [k \in 1 .. c + 1 |-> IF k \in 1 .. c THEN s[k] ELSE n]
    BY <2>2, <2>6
  <2>8. ASSUME NEW k \in 1 .. c
        PROVE  (CHOOSE p \in Monitors(n + 1) : Dmabuf!Before(p) = k - 1) = CHOOSE p \in Monitors(n) : Dmabuf!Before(p) = k - 1
    <3>1. \A p : (p \in Monitors(n + 1) /\ Dmabuf!Before(p) = k - 1) <=> (p \in Monitors(n) /\ Dmabuf!Before(p) = k - 1)
      BY <2>1, <2>2, <2>4
    <3> QED BY <3>1, Zenon
  <2>9. (CHOOSE p \in Monitors(n + 1) : Dmabuf!Before(p) = c) = n
    <3>1. \A p \in Monitors(n + 1) : Dmabuf!Before(p) = c => p = n
      BY <2>1, <2>2, <2>5
    <3>2. n \in Monitors(n + 1) /\ Dmabuf!Before(n) = c
      BY <2>1, <2>4
    <3> QED BY <3>1, <3>2, Zenon
  <2>10. NamesOf(n) = [k \in 1 .. c + 1 |-> CHOOSE p \in Monitors(n + 1) : Dmabuf!Before(p) = k - 1]
    BY <2>3 DEF NamesOf
  <2>11. \A k \in 1 .. c + 1 : k \in 1 .. c \/ k = c + 1
    BY <2>2
  <2>12. \A k \in 1 .. c + 1 : (CHOOSE p \in Monitors(n + 1) : Dmabuf!Before(p) = k - 1) = IF k \in 1 .. c THEN s[k] ELSE n
    <3> SUFFICES ASSUME NEW k \in 1 .. c + 1
                 PROVE (CHOOSE p \in Monitors(n + 1) : Dmabuf!Before(p) = k - 1) = IF k \in 1 .. c THEN s[k] ELSE n
      OBVIOUS
    <3>1. CASE k \in 1 .. c
      <4>1. s[k] = CHOOSE p \in Monitors(n) : Dmabuf!Before(p) = k - 1
        BY <2>6, <3>1
      <4> QED BY <2>8, <3>1, <4>1
    <3>2. CASE k \notin 1 .. c
      <4>1. k = c + 1 /\ k - 1 = c
        BY <2>2, <2>4, <2>11, <3>2
      <4> QED BY <2>9, <3>2, <4>1
    <3> QED BY <3>1, <3>2
  <2>13. NamesOf(n) = Append(s, n)
    BY <2>7, <2>10, <2>12
  <2> QED BY <1>3, <2>13 DEF s
<1> QED BY <1>2, <1>3

LEMMA NamesAreOfMonitors == Dmabuf!Names = NamesOf(Cardinality(Outputs))
<1> DEFINE K == Cardinality(Outputs)
           Grows(f) == f = [n \in 0 .. K |-> IF n = 0 THEN <<>>
                            ELSE IF Dmabuf!IsMonitor(n) THEN Append(f[n - 1], n) ELSE f[n - 1]]
           f == Dmabuf!MonitorsUpTo
           g == [n \in 0 .. K |-> NamesOf(n)]
<1>1. K \in Nat
  BY OutputsAreNumbers
<1>2. Dmabuf!Cardinality(Outputs) = K
  BY DmabufCardinality
<1>3. NamesOf(0) = <<>>
  <2>1. Monitors(0 + 1) = {}
    BY OutputsAreNumbers DEF Monitors
  <2>2. Cardinality(Monitors(0 + 1)) = 0
    BY <2>1, FS_EmptySet
  <2> QED BY <2>2 DEF NamesOf
<1> HIDE DEF K
<1>4. \A n \in 0 .. K : n # 0 => n - 1 \in 0 .. K /\ n \in 1 .. K
  BY <1>1
<1>5. Grows(g)
  <2>1. \A n \in 0 .. K : NamesOf(n) = IF n = 0 THEN <<>>
                           ELSE IF Dmabuf!IsMonitor(n) THEN Append(g[n - 1], n) ELSE g[n - 1]
    <3> SUFFICES ASSUME NEW n \in 0 .. K
                 PROVE  NamesOf(n) = IF n = 0 THEN <<>>
                           ELSE IF Dmabuf!IsMonitor(n) THEN Append(g[n - 1], n) ELSE g[n - 1]
      OBVIOUS
    <3>1. n # 0 => g[n - 1] = NamesOf(n - 1)
      BY <1>4
    <3>2. n # 0 => n \in 1 .. Cardinality(Outputs)
      BY <1>4 DEF K
    <3> QED BY <1>3, <3>1, <3>2, NamesOfOne
  <2> QED BY <2>1
<1>6. f = CHOOSE h : Grows(h)
  BY <1>2 DEF Dmabuf!MonitorsUpTo
<1>7. Grows(f)
  BY <1>5, <1>6, Zenon
<1> HIDE DEF f
<1>8. \A n \in 0 .. K : f[n] = IF n = 0 THEN <<>>
                            ELSE IF Dmabuf!IsMonitor(n) THEN Append(f[n - 1], n) ELSE f[n - 1]
  BY <1>7, Zenon
<1>9. \A n \in 0 .. K : g[n] = IF n = 0 THEN <<>>
                            ELSE IF Dmabuf!IsMonitor(n) THEN Append(g[n - 1], n) ELSE g[n - 1]
  BY <1>5, Zenon
<1>10. \A n \in 0 .. K : g[n] = NamesOf(n)
  OBVIOUS
<1> HIDE DEF g, Grows
<1>11. \A n \in 0 .. K : f[n] = g[n]
  <2> DEFINE S == {n \in 0 .. K : f[n] # g[n]}
  <2> SUFFICES ASSUME S # {} PROVE FALSE
    OBVIOUS
  <2>1. S \subseteq Nat
    BY <1>1
  <2>2. PICK n \in S : \A j \in S : n <= j
    BY <2>1, LeastOfSome
  <2>3. n \in 0 .. K /\ f[n] # g[n]
    OBVIOUS
  <2>4. n # 0
    BY <1>8, <1>9, <2>3
  <2>5. n - 1 \in 0 .. K /\ n - 1 \notin S
    BY <1>1, <1>4, <2>2, <2>3, <2>4
  <2>6. f[n - 1] = g[n - 1]
    BY <2>5
  <2> QED BY <1>8, <1>9, <2>3, <2>4, <2>6
<1>12. Dmabuf!Names = f[K]
  BY <1>2 DEF Dmabuf!Names, f
<1> QED BY <1>1, <1>10, <1>11, <1>12 DEF K

\* A name opens the monitor that it stood for.
LEMMA NamesOpen ==
    ASSUME NEW n \in Nat, v3 = Dmabuf!Names, n < Len(v3)
    PROVE  Dmabuf!Found(n) = {v3[n + 1]}
<1> DEFINE K == Cardinality(Outputs)
           M == Monitors(K + 1)
           o == CHOOSE p \in M : Dmabuf!Before(p) = n
<1>1. K \in Nat
  BY OutputsAreNumbers
<1>2. v3 = [k \in 1 .. Cardinality(M) |-> CHOOSE p \in M : Dmabuf!Before(p) = k - 1] /\ Cardinality(M) \in Nat
  BY NamesAreOfMonitors, MonitorsAreCounted DEF NamesOf
<1>3. M = {p \in Outputs : Dmabuf!IsMonitor(p)}
  BY <1>1, OutputsAreNumbers DEF Monitors
<1> HIDE DEF M
<1>4. Len(v3) = Cardinality(M) /\ n < Cardinality(M) /\ n + 1 \in 1 .. Cardinality(M) /\ (n + 1) - 1 = n
  BY <1>2
<1>5. v3[n + 1] = o
  BY <1>2, <1>4
<1>6. \E p \in M : Dmabuf!Before(p) = n
  BY <1>1, <1>4, MonitorsHavePlaces DEF M
<1>7. o \in M /\ Dmabuf!Before(o) = n
  BY <1>6, Zenon
<1> HIDE DEF o
<1>8. ASSUME NEW p \in M, Dmabuf!Before(p) = n PROVE p = o
  <2>1. p \in Outputs /\ o \in Outputs /\ p \in Nat /\ o \in Nat /\ Dmabuf!IsMonitor(p) /\ Dmabuf!IsMonitor(o)
    BY <1>3, <1>7, OutputsAreNumbers
  <2>2. ~(p < o) /\ ~(o < p)
    BY <1>7, <1>8, <2>1, MonitorsAreInOrder
  <2> QED BY <2>1, <2>2
<1>9. Dmabuf!At(n) = {o}
  BY <1>3, <1>7, <1>8 DEF Dmabuf!At
<1> QED BY <1>5, <1>9 DEF Dmabuf!Found

-----------------------------------------------------------------------------
(* DmabufCapture: the owners of the descriptors.                           *)

\* Nothing is open at first.
LEMMA DmabufInit == Dmabuf!Init => Dmabuf!IInv
<1> SUFFICES ASSUME Dmabuf!Init PROVE Dmabuf!IInv
  OBVIOUS
<1> USE DEF Dmabuf!Init
<1>1. Dmabuf!TypeOK
  BY DEF Dmabuf!TypeOK, Dmabuf!Off
<1>2. Dmabuf!OpenAreOwned /\ Dmabuf!OwnedAreOpen
  BY DEF Dmabuf!OpenAreOwned, Dmabuf!OwnedAreOpen, Dmabuf!NextFrame
<1>3. Dmabuf!AnswersAreKept
  BY Zenon DEF Dmabuf!AnswersAreKept
<1>4. Dmabuf!FramesFitTheDisplay /\ Dmabuf!NamesAreCurrent /\ Dmabuf!NamesFindTheirMonitor
  BY DEF Dmabuf!FramesFitTheDisplay, Dmabuf!NamesAreCurrent, Dmabuf!NamesFindTheirMonitor
<1> QED BY <1>1, <1>2, <1>3, <1>4 DEF Dmabuf!IInv

\* As images and the frame that is kept own all that is open, another descriptor is free.
LEMMA DmabufFresh ==
    ASSUME NEW f, NEW k, v7 \in [Buffers -> Descriptors \cup {0}],
           \A d \in Descriptors : f[d] # Nil => k = d \/ \E i \in Buffers : v7[i] = d
    PROVE  Dmabuf!Fresh(f) \in Descriptors /\ f[Dmabuf!Fresh(f)] = Nil /\ Dmabuf!Fresh(f) # 0
<1> DEFINE S == {v7[i] : i \in Buffers}
           g == [i \in Buffers |-> v7[i]]
           F == Dmabuf!Free(f)
<1>1. g \in Surjection(Buffers, S)
  BY DEF Surjection
<1>2. IsFiniteSet(Buffers) /\ IsFiniteSet(Descriptors) /\ Descriptors \subseteq Nat \ {0}
      /\ Cardinality(Descriptors) >= Cardinality(Buffers) + 2
  BY DmabufAssumption, Zenon
<1>3. /\ IsFiniteSet(S) /\ Cardinality(S) <= Cardinality(Buffers) /\ Cardinality(S) \in Nat
      /\ Cardinality(Buffers) \in Nat /\ Cardinality(Descriptors) \in Nat
  BY <1>1, <1>2, FS_Surjection, FS_CardinalityType
<1>4. \A i \in Buffers : v7[i] \in S
  OBVIOUS
<1> HIDE DEF S
<1>5. /\ IsFiniteSet(S \cup {k}) /\ Cardinality(S \cup {k}) <= Cardinality(S) + 1
      /\ Cardinality(S \cup {k}) \in Nat
  BY <1>3, OneMore, Zenon
<1>6. F # {}
  <2> SUFFICES ASSUME F = {} PROVE FALSE
    OBVIOUS
  <2>1. Descriptors \in SUBSET (S \cup {k})
    BY <1>4 DEF Dmabuf!Free
  <2>2. Cardinality(Descriptors) <= Cardinality(S \cup {k})
    BY <1>5, <2>1, FS_Subset
  <2> QED BY <1>2, <1>3, <1>5, <2>2
<1>7. F \subseteq Nat
  BY <1>2 DEF Dmabuf!Free
<1>8. \E d \in F : \A e \in F : d <= e
  BY <1>6, <1>7, LeastOfSome
<1>9. Dmabuf!Fresh(f) \in F
  BY <1>8, Zenon DEF Dmabuf!Fresh
<1> QED BY <1>2, <1>9 DEF Dmabuf!Free

\* The names are of the monitors that are there.
LEMMA DmabufNames ==
    ASSUME UNCHANGED <<v1, v2>>
    PROVE  Dmabuf!Names' = Dmabuf!Names
BY DEF Dmabuf!Names, Dmabuf!MonitorsUpTo, Dmabuf!IsMonitor, Dmabuf!Plane, Dmabuf!Connected

\* An open display stays what it is, also when it is over.
LEMMA DmabufOver ==
    ASSUME Dmabuf!IInv, v4 # Nil, Dmabuf!Over \/ v4' = v4
    PROVE  /\ v4' # Nil /\ v4'.output = v4.output /\ v4'.meant = v4.meant
           /\ v4'.size = v4.size /\ v4'.owns = v4.owns
<1>1. v4.output \in Outputs /\ v4.size \in OutputSizes /\ v4.owns \in BOOLEAN /\ v4.meant = v4.output
  BY DEF Dmabuf!IInv, Dmabuf!TypeOK, Dmabuf!NamesFindTheirMonitor
<1>2. CASE Dmabuf!Over
  <2>1. v4' = [output |-> v4.output, meant |-> v4.output, size |-> v4.size, owns |-> v4.owns, over |-> TRUE]
    BY <1>1, <1>2 DEF Dmabuf!Over, Dmabuf!Opened
  <2>2. v4' # Nil
    BY <1>1, <2>1, DmabufAssumption, Zenon
  <2> QED BY <1>1, <2>1, <2>2
<1> QED BY <1>2

\* What keeps the names and the display keeps what they say.
LEMMA DmabufNamesKept ==
    ASSUME Dmabuf!IInv, UNCHANGED <<v1, v2, v3>>,
           v4 # Nil => v4' = Nil \/ (v4'.output = v4.output /\ v4'.meant = v4.meant),
           v4 = Nil => v4' = Nil
    PROVE  Dmabuf!NamesAreCurrent' /\ Dmabuf!NamesFindTheirMonitor'
<1>1. Dmabuf!NamesAreCurrent'
  BY DmabufNames DEF Dmabuf!IInv, Dmabuf!NamesAreCurrent
<1>2. Dmabuf!NamesFindTheirMonitor'
  BY DEF Dmabuf!IInv, Dmabuf!NamesFindTheirMonitor
<1> QED BY <1>1, <1>2

\* What leaves descriptors, images and the display alone keeps the invariant.
LEMMA DmabufStutters ==
    ASSUME Dmabuf!IInv, UNCHANGED <<v4, v5, v6, v7, v8, v9, v10, v11, v16>>,
           v2' \in [Outputs -> OutputSizes \cup {0}], v12' \in {"waiting", "ready", "reinit"},
           Dmabuf!AnswersAreKept', Dmabuf!NamesAreCurrent'
    PROVE  Dmabuf!IInv'
<1>1. Dmabuf!TypeOK'
  BY DEF Dmabuf!IInv, Dmabuf!TypeOK, Dmabuf!Off
<1>2. Dmabuf!OpenAreOwned' /\ Dmabuf!OwnedAreOpen'
  BY DEF Dmabuf!IInv, Dmabuf!OpenAreOwned, Dmabuf!OwnedAreOpen, Dmabuf!NextFrame
<1>3. Dmabuf!FramesFitTheDisplay' /\ Dmabuf!NamesFindTheirMonitor'
  BY DEF Dmabuf!IInv, Dmabuf!FramesFitTheDisplay, Dmabuf!NamesFindTheirMonitor
<1> QED BY <1>1, <1>2, <1>3 DEF Dmabuf!IInv

\* Names are listed, an answer is waited for or has not come in time, and outputs change.
LEMMA DmabufAsks ==
    ASSUME Dmabuf!IInv,
           Dmabuf!List \/ Dmabuf!Listen \/ Dmabuf!Timeout
           \/ \E o \in Outputs, z \in OutputSizes \cup {0} : Dmabuf!Change(o, z)
    PROVE  Dmabuf!IInv'
<1>0. v2 \in [Outputs -> OutputSizes \cup {0}] /\ v12 \in {"waiting", "ready", "reinit"}
  BY DEF Dmabuf!IInv, Dmabuf!TypeOK, Dmabuf!Off
<1>1. CASE Dmabuf!List
  <2>1. v3' = Dmabuf!Names /\ UNCHANGED <<v1, v2, v4, v5, v6, v7, v8, v9, v10, v11, v12, v13, v16>>
    BY <1>1 DEF Dmabuf!List, Dmabuf!images, Dmabuf!dmabuf
  <2>2. Dmabuf!AnswersAreKept'
    BY <2>1, Zenon DEF Dmabuf!IInv, Dmabuf!AnswersAreKept
  <2>3. Dmabuf!NamesAreCurrent'
    BY <2>1, DmabufNames DEF Dmabuf!NamesAreCurrent
  <2> QED BY <1>0, <2>1, <2>2, <2>3, DmabufStutters
<1>2. CASE Dmabuf!Listen
  <2>1. /\ v1 = "wlr" /\ v4 # Nil /\ v12' = "waiting"
        /\ UNCHANGED <<v1, v2, v3, v4, v5, v6, v7, v8, v9, v10, v11, v16>>
    BY <1>2 DEF Dmabuf!Listen, Dmabuf!Captures, Dmabuf!images, Dmabuf!world
  <2>2. Dmabuf!AnswersAreKept'
    BY <2>1 DEF Dmabuf!AnswersAreKept
  <2>3. Dmabuf!NamesAreCurrent'
    BY <2>1, DmabufNames DEF Dmabuf!IInv, Dmabuf!NamesAreCurrent
  <2> QED BY <1>0, <2>1, <2>2, <2>3, DmabufStutters
<1>3. CASE Dmabuf!Timeout
  <2>1. v13' = FALSE /\ UNCHANGED <<v1, v2, v3, v4, v5, v6, v7, v8, v9, v10, v11, v12, v16>>
    BY <1>3 DEF Dmabuf!Timeout, Dmabuf!images, Dmabuf!world
  <2>2. Dmabuf!AnswersAreKept'
    BY <2>1 DEF Dmabuf!AnswersAreKept
  <2>3. Dmabuf!NamesAreCurrent'
    BY <2>1, DmabufNames DEF Dmabuf!IInv, Dmabuf!NamesAreCurrent
  <2> QED BY <1>0, <2>1, <2>2, <2>3, DmabufStutters
<1>4. ASSUME NEW o \in Outputs, NEW z \in OutputSizes \cup {0}, Dmabuf!Change(o, z)
      PROVE  Dmabuf!IInv'
  <2>1. /\ v2' = [v2 EXCEPT ![o] = z] /\ v3' = <<>>
        /\ UNCHANGED <<v1, v4, v5, v6, v7, v8, v9, v10, v11, v12, v13, v16>>
    BY <1>4 DEF Dmabuf!Change, Dmabuf!images, Dmabuf!dmabuf
  <2>2. Dmabuf!AnswersAreKept'
    BY <2>1, Zenon DEF Dmabuf!IInv, Dmabuf!AnswersAreKept
  <2>3. Dmabuf!NamesAreCurrent'
    BY <2>1 DEF Dmabuf!NamesAreCurrent
  <2> QED BY <1>0, <2>1, <2>2, <2>3, DmabufStutters
<1> QED BY <1>1, <1>2, <1>3, <1>4

\* A display opens the monitor that its name stood for, and dmabuf_t is a new one.
LEMMA DmabufOpens ==
    ASSUME Dmabuf!IInv, NEW n \in 0 .. Cardinality(Outputs), NEW owns \in BOOLEAN, Dmabuf!OpenDisplay(n, owns)
    PROVE  Dmabuf!IInv'
<1>1. /\ v4 = Nil /\ n < Len(v3)
      /\ UNCHANGED <<v1, v2, v3, v6, v7, v8, v13, v16>>
      /\ v9' = <<0, 0>> /\ v11' = 0 /\ v10' = 1 /\ v12' = "ready"
  BY DEF Dmabuf!OpenDisplay, Dmabuf!world, Dmabuf!FreshDmabuf
<1>2. n \in Nat /\ v3 = Dmabuf!Names
  <2>1. v3 # <<>>
    BY <1>1, OutputsAreNumbers
  <2> QED BY <2>1, OutputsAreNumbers DEF Dmabuf!IInv, Dmabuf!NamesAreCurrent
<1> DEFINE o == v3[n + 1]
<1>3. Dmabuf!Found(n) = {o}
  BY <1>1, <1>2, NamesOpen
<1> HIDE DEF o
<1>4. v4' = Dmabuf!Opened(o, o, v2[o], owns, FALSE) /\ v5' = Buffers \ v6
  BY <1>3 DEF Dmabuf!OpenDisplay, o
<1>5. o \in Outputs /\ v2[o] \in OutputSizes
  <2>1. o \in Dmabuf!At(n) \/ o \in Dmabuf!At(0)
    BY <1>3 DEF Dmabuf!Found
  <2>2. o \in Outputs /\ Dmabuf!IsMonitor(o)
    BY <2>1 DEF Dmabuf!At
  <2>3. v2[o] # 0
    BY <2>2 DEF Dmabuf!IsMonitor, Dmabuf!Plane, Dmabuf!Connected, Dmabuf!Off
  <2> QED BY <2>2, <2>3 DEF Dmabuf!IInv, Dmabuf!TypeOK, Dmabuf!Off
<1>6. /\ v4'.output = o /\ v4'.meant = o /\ v4'.size = v2[o] /\ v4'.owns = owns
  BY <1>4 DEF Dmabuf!Opened
<1>7. v6 \subseteq Buffers /\ ~v13 /\ v9[v10] = 0
  BY <1>1 DEF Dmabuf!IInv, Dmabuf!TypeOK, Dmabuf!AnswersAreKept, Dmabuf!OpenAreOwned
<1>8. Dmabuf!TypeOK'
  <2>1. v4'.output \in Outputs /\ v4'.size \in OutputSizes /\ v4'.owns \in BOOLEAN
    BY <1>5, <1>6
  <2>2. v5' \cup v6' \subseteq Buffers
    BY <1>1, <1>4, <1>7
  <2>3. v9' \in [{1, 2} -> Descriptors \cup {0}] /\ v10' \in {1, 2}
    BY <1>1
  <2> QED BY <1>1, <2>1, <2>2, <2>3 DEF Dmabuf!IInv, Dmabuf!TypeOK
<1>9. Dmabuf!OpenAreOwned'
  <2>1. 0 \notin Descriptors
    BY DmabufAssumption, Zenon
  <2> QED BY <1>1, <1>7, <2>1 DEF Dmabuf!IInv, Dmabuf!OpenAreOwned, Dmabuf!NextFrame
<1>10. Dmabuf!OwnedAreOpen'
  BY <1>1, <1>7 DEF Dmabuf!IInv, Dmabuf!OwnedAreOpen
<1>11. Dmabuf!AnswersAreKept'
  BY <1>1, <1>7 DEF Dmabuf!AnswersAreKept
<1>12. Dmabuf!FramesFitTheDisplay'
  BY <1>1, <1>4 DEF Dmabuf!FramesFitTheDisplay
<1>13. Dmabuf!NamesAreCurrent'
  BY <1>1, DmabufNames DEF Dmabuf!IInv, Dmabuf!NamesAreCurrent
<1>14. Dmabuf!NamesFindTheirMonitor'
  BY <1>6 DEF Dmabuf!NamesFindTheirMonitor
<1> QED BY <1>8, <1>9, <1>10, <1>11, <1>12, <1>13, <1>14 DEF Dmabuf!IInv

\* What is closed is not open.
LEMMA DmabufClosed ==
    ASSUME NEW f, NEW S
    PROVE  \A d \in Descriptors : Dmabuf!Closed(f, S)[d] = IF d \in S THEN Nil ELSE f[d]
BY DEF Dmabuf!Closed

\* A display closes what it owns, and its images what they own.
LEMMA DmabufCloses ==
    ASSUME Dmabuf!IInv, Dmabuf!CloseDisplay
    PROVE  Dmabuf!IInv'
<1> DEFINE S == {v7[i] : i \in Buffers \ v6} \cup {v9[1], v9[2]}
<1>1. /\ v4 # Nil /\ ~v13 /\ v4' = Nil /\ v5' = {} /\ v8' = Dmabuf!Closed(v8, S)
      /\ v7' = [i \in Buffers |-> IF i \in v6 THEN v7[i] ELSE 0]
      /\ UNCHANGED <<v1, v2, v3, v6, v13, v16>>
      /\ v9' = <<0, 0>> /\ v11' = 0 /\ v10' = 1 /\ v12' = "ready"
  BY DEF Dmabuf!CloseDisplay, Dmabuf!world, Dmabuf!FreshDmabuf
<1>2. /\ v7 \in [Buffers -> Descriptors \cup {0}] /\ v8 \in [Descriptors -> OutputSizes \cup {Nil}]
      /\ v10 \in {1, 2} /\ v9 \in [{1, 2} -> Descriptors \cup {0}] /\ v6 \subseteq Buffers /\ v9[3 - v10] = 0
  BY DEF Dmabuf!IInv, Dmabuf!TypeOK, Dmabuf!OpenAreOwned, Dmabuf!NextFrame
<1>3. 0 \notin Descriptors
  BY DmabufAssumption, Zenon
<1>4. \A d \in Descriptors : v8'[d] = IF d \in S THEN Nil ELSE v8[d]
  BY <1>1, DmabufClosed
<1>5. \A d \in Descriptors : d \in S <=> d = v9[v10] \/ \E i \in Buffers : i \notin v6 /\ v7[i] = d
  BY <1>2, <1>3
<1>6. v8' \in [Descriptors -> OutputSizes \cup {Nil}]
  BY <1>1, <1>2 DEF Dmabuf!Closed
<1> HIDE DEF S
<1>7. Dmabuf!TypeOK'
  BY <1>1, <1>2, <1>6 DEF Dmabuf!IInv, Dmabuf!TypeOK
<1>8. Dmabuf!OpenAreOwned'
  <2>1. ASSUME NEW d \in Descriptors, v8'[d] # Nil PROVE \E i \in Buffers : v7'[i] = d
    <3>1. d \notin S /\ v8[d] # Nil
      BY <1>4, <2>1
    <3>2. PICK i \in Buffers : v7[i] = d
      BY <1>5, <3>1 DEF Dmabuf!IInv, Dmabuf!OpenAreOwned
    <3>3. i \in v6
      BY <1>5, <3>1, <3>2
    <3> QED BY <1>1, <3>2, <3>3
  <2> QED BY <1>1, <2>1 DEF Dmabuf!OpenAreOwned, Dmabuf!NextFrame
<1>9. Dmabuf!OwnedAreOpen'
  <2> SUFFICES ASSUME ~v16, NEW i \in Buffers, v7'[i] # 0
               PROVE  /\ v8'[v7'[i]] # Nil
                      /\ \A j \in Buffers : v7'[j] = v7'[i] => j = i
    BY <1>1 DEF Dmabuf!OwnedAreOpen
  <2>1. i \in v6 /\ v7'[i] = v7[i] /\ v7[i] \in Descriptors /\ v7[i] # 0
    BY <1>1, <1>2
  <2>2. v8[v7[i]] # Nil /\ v9[v10] # v7[i] /\ \A j \in Buffers : v7[j] = v7[i] => j = i
    BY <2>1 DEF Dmabuf!IInv, Dmabuf!OwnedAreOpen
  <2>3. v7[i] \notin S
    BY <1>5, <2>1, <2>2
  <2>4. \A j \in Buffers : v7'[j] = v7[i] => v7[j] = v7[i]
    BY <1>1, <2>1
  <2> QED BY <1>4, <2>1, <2>2, <2>3, <2>4
<1>10. Dmabuf!AnswersAreKept'
  BY <1>1 DEF Dmabuf!AnswersAreKept
<1>11. Dmabuf!FramesFitTheDisplay' /\ Dmabuf!NamesAreCurrent' /\ Dmabuf!NamesFindTheirMonitor'
  BY <1>1, DmabufNamesKept DEF Dmabuf!FramesFitTheDisplay
<1> QED BY <1>7, <1>8, <1>9, <1>10, <1>11 DEF Dmabuf!IInv

\* The values there are
LEMMA DmabufTyped ==
    ASSUME Dmabuf!IInv
    PROVE  /\ v7 \in [Buffers -> Descriptors \cup {0}] /\ v8 \in [Descriptors -> OutputSizes \cup {Nil}]
           /\ v10 \in {1, 2} /\ v9 \in [{1, 2} -> Descriptors \cup {0}] /\ v9[3 - v10] = 0
           /\ v9[v10] \in Descriptors \cup {0}
           /\ v5 \subseteq Buffers /\ v6 \subseteq Buffers /\ v2 \in [Outputs -> OutputSizes \cup {0}]
           /\ 0 \notin Descriptors /\ Nil \notin OutputSizes /\ 0 \notin OutputSizes
<1>1. 0 \notin Descriptors /\ Nil \notin OutputSizes /\ 0 \notin OutputSizes
  BY DmabufAssumption, Zenon
<1> QED BY <1>1 DEF Dmabuf!IInv, Dmabuf!TypeOK, Dmabuf!OpenAreOwned, Dmabuf!NextFrame, Dmabuf!Off

\* An image closes what it had and names x, which is free then and, but for a change of
\* KMS's plane, open.
ImageNames(i, x, z) ==
    /\ x \in Descriptors \cup {0} /\ (x # 0 => v8[x] = Nil \/ x = v7[i])
    /\ v7' = [v7 EXCEPT ![i] = x] /\ UNCHANGED <<v9, v10>>
    /\ \A d \in Descriptors : v8'[d] = IF d = x THEN z ELSE IF d = v7[i] THEN Nil ELSE v8[d]
    /\ ~v16' => ~v16 /\ (x # 0 => z # Nil)
OthersKept(i) ==
    /\ \A d \in Descriptors : v8'[d] # Nil => v9'[v10'] = d \/ \E j \in Buffers : v7'[j] = d
    /\ Dmabuf!OwnedAreOpen'
    /\ ~v16' => /\ v9[v10] # 0 => v8'[v9[v10]] = v8[v9[v10]]
                /\ \A j \in Buffers : j # i /\ v7[j] # 0 => v8'[v7[j]] = v8[v7[j]]
LEMMA DmabufImage ==
    ASSUME Dmabuf!IInv, NEW i \in Buffers, NEW x, NEW z, ImageNames(i, x, z)
    PROVE  OthersKept(i)
<1> USE DEF ImageNames
<1> DEFINE k == v9[v10]
<1>1. /\ v7 \in [Buffers -> Descriptors \cup {0}] /\ k \in Descriptors \cup {0} /\ 0 \notin Descriptors
      /\ v9'[v10'] = k
  BY DmabufTyped
<1> HIDE DEF k
<1>2. v7'[i] = x /\ \A j \in Buffers : j # i => v7'[j] = v7[j]
  BY <1>1
<1>3. \A d \in Descriptors : v8[d] # Nil => k = d \/ \E j \in Buffers : v7[j] = d
  BY DEF Dmabuf!IInv, Dmabuf!OpenAreOwned, k
<1>4. ~v16 => /\ k # 0 => v8[k] # Nil
              /\ \A j \in Buffers : v7[j] # 0 => /\ v8[v7[j]] # Nil /\ k # v7[j]
                                                 /\ \A l \in Buffers : v7[l] = v7[j] => l = j
  BY DEF Dmabuf!IInv, Dmabuf!OwnedAreOpen, k
<1>5. ASSUME NEW d \in Descriptors, v8'[d] # Nil
      PROVE  k = d \/ \E j \in Buffers : v7'[j] = d
  <2>1. CASE d = x
    BY <1>2, <2>1
  <2>2. CASE d # x
    BY <1>2, <1>3, <1>5, <2>2
  <2> QED BY <2>1, <2>2
<1>6. ASSUME ~v16', k # 0 PROVE v8'[k] = v8[k] /\ v8[k] # Nil /\ k # x
  <2>1. k \in Descriptors /\ v8[k] # Nil /\ k # v7[i]
    BY <1>1, <1>4, <1>6
  <2>2. k # x
    BY <1>6, <2>1
  <2> QED BY <2>1, <2>2
<1>7. ASSUME ~v16', NEW j \in Buffers, j # i, v7[j] # 0
      PROVE  v8'[v7[j]] = v8[v7[j]] /\ v8[v7[j]] # Nil /\ v7[j] # x
  <2>1. v7[j] \in Descriptors /\ v8[v7[j]] # Nil /\ v7[i] # v7[j]
    BY <1>1, <1>4, <1>7
  <2>2. v7[j] # x
    BY <1>7, <2>1
  <2> QED BY <2>1, <2>2
<1>8. Dmabuf!OwnedAreOpen'
  <2> SUFFICES ASSUME ~v16'
               PROVE  /\ k # 0 => v8'[k] # Nil
                      /\ \A j \in Buffers : v7'[j] # 0 =>
                            /\ v8'[v7'[j]] # Nil /\ k # v7'[j]
                            /\ \A l \in Buffers : v7'[l] = v7'[j] => l = j
    BY <1>1 DEF Dmabuf!OwnedAreOpen
  <2>1. k # 0 => v8'[k] # Nil
    BY <1>6
  <2>2. ASSUME x # 0
        PROVE  v8'[x] # Nil /\ k # x /\ \A l \in Buffers : v7'[l] = x => l = i
    <3>1. x \in Descriptors /\ z # Nil
      BY <2>2
    <3>2. k # x
      BY <1>6, <2>2
    <3>3. ASSUME NEW l \in Buffers, v7'[l] = x, l # i PROVE FALSE
      BY <1>2, <1>7, <2>2, <3>3
    <3> QED BY <3>1, <3>2, <3>3
  <2>3. ASSUME NEW j \in Buffers, j # i, v7[j] # 0
        PROVE  v8'[v7[j]] # Nil /\ k # v7[j] /\ \A l \in Buffers : v7'[l] = v7[j] => l = j
    <3>1. v8'[v7[j]] # Nil /\ k # v7[j] /\ v7[j] # x
      BY <1>4, <1>7, <2>3
    <3>2. \A l \in Buffers : v7'[l] = v7[j] => l = j
      BY <1>2, <1>4, <2>3, <3>1
    <3> QED BY <3>1, <3>2
  <2> QED BY <1>2, <2>1, <2>2, <2>3
<1> QED BY <1>1, <1>5, <1>6, <1>7, <1>8 DEF k, OthersKept

\* An image names a plane's frame.
LEMMA DmabufSnapshots ==
    ASSUME Dmabuf!IInv, NEW i \in Buffers, Dmabuf!SnapshotVram(i)
    PROVE  Dmabuf!IInv'
<1> DEFINE s == v2[v4.output]
           f == Dmabuf!Reset(i)
           x == Dmabuf!Fresh(f)
<1>1. /\ v1 = "kms" /\ v4 # Nil /\ i \in v5 /\ i \notin v6 /\ v4.owns
      /\ UNCHANGED <<v1, v2, v3, v5, v9, v10, v11, v12, v13>>
  BY DEF Dmabuf!SnapshotVram, Dmabuf!Captures, Dmabuf!Idle, Dmabuf!world, Dmabuf!dmabuf
<1>2. IF s = v4.size THEN v6' = v6 \cup {i} /\ v4' = v4 ELSE Dmabuf!Over /\ v6' = v6
  BY DEF Dmabuf!SnapshotVram, Dmabuf!Refreshed
<1>3. v4' # Nil /\ v4'.output = v4.output /\ v4'.meant = v4.meant /\ v4'.size = v4.size /\ v4'.owns = v4.owns
  BY <1>1, <1>2, DmabufOver
<1>4. v4.output \in Outputs /\ v4.size \in OutputSizes /\ v4.owns \in BOOLEAN /\ s \in OutputSizes \cup {0}
  BY <1>1, DmabufTyped DEF Dmabuf!IInv, Dmabuf!TypeOK
<1>5. \A d \in Descriptors : f[d] = IF d = v7[i] THEN Nil ELSE v8[d]
  BY DmabufClosed DEF Dmabuf!Reset
<1>6. x \in Descriptors /\ f[x] = Nil /\ x # 0
  <2>1. \A d \in Descriptors : f[d] # Nil => v9[v10] = d \/ \E j \in Buffers : v7[j] = d
    BY <1>5 DEF Dmabuf!IInv, Dmabuf!OpenAreOwned
  <2>2. v7 \in [Buffers -> Descriptors \cup {0}]
    BY DmabufTyped
  <2> HIDE DEF f
  <2> QED BY <2>1, <2>2, DmabufFresh
<1>7. CASE v17'
  <2>1. UNCHANGED <<v7, v8, v16>> /\ s = 0
    BY <1>7 DEF Dmabuf!SnapshotVram, Dmabuf!Refreshed, Dmabuf!Off
  <2>2. v6' = v6
    BY <1>2, <1>4, <2>1, DmabufTyped
  <2>3. Dmabuf!TypeOK'
    BY <1>1, <1>3, <1>4, <2>1, <2>2 DEF Dmabuf!IInv, Dmabuf!TypeOK
  <2>4. Dmabuf!OpenAreOwned' /\ Dmabuf!OwnedAreOpen'
    BY <1>1, <1>3, <2>1 DEF Dmabuf!IInv, Dmabuf!OpenAreOwned, Dmabuf!OwnedAreOpen, Dmabuf!NextFrame
  <2>5. Dmabuf!AnswersAreKept'
    BY <1>1 DEF Dmabuf!IInv, Dmabuf!AnswersAreKept
  <2>6. Dmabuf!FramesFitTheDisplay'
    BY <1>1, <1>3, <2>1, <2>2 DEF Dmabuf!IInv, Dmabuf!FramesFitTheDisplay
  <2>7. Dmabuf!NamesAreCurrent' /\ Dmabuf!NamesFindTheirMonitor'
    BY <1>1, <1>3, DmabufNamesKept
  <2> QED BY <2>3, <2>4, <2>5, <2>6, <2>7 DEF Dmabuf!IInv
<1>8. CASE ~v17'
  <2> DEFINE z == IF s = v4.size THEN s ELSE Nil
  <2>1. /\ v8' = IF s = v4.size THEN Dmabuf!Exported(i) ELSE f
        /\ v7' = [v7 EXCEPT ![i] = x] /\ (~v16' => ~v16 /\ s = v4.size)
    BY <1>8 DEF Dmabuf!SnapshotVram
  <2>2. Dmabuf!Exported(i) = [f EXCEPT ![x] = s]
    BY DEF Dmabuf!Exported
  <2>3. f \in [Descriptors -> OutputSizes \cup {Nil}]
    BY DmabufTyped DEF Dmabuf!Reset, Dmabuf!Closed
  <2> HIDE DEF f, x, s
  <2>4. /\ \A d \in Descriptors : v8'[d] = IF d = x THEN z ELSE IF d = v7[i] THEN Nil ELSE v8[d]
        /\ v8' \in [Descriptors -> OutputSizes \cup {Nil}]
    BY <1>4, <1>5, <1>6, <2>1, <2>2, <2>3
  <2>5. (x # 0 => v8[x] = Nil \/ x = v7[i]) /\ (~v16' => ~v16 /\ (x # 0 => z # Nil))
    BY <1>4, <1>5, <1>6, <2>1, DmabufTyped
  <2>6. x \in Descriptors \cup {0} /\ UNCHANGED <<v9, v10>>
    BY <1>1, <1>6
  <2>7. z = s \/ v16'
    BY <2>1
  <2> HIDE DEF z
  <2>8. OthersKept(i)
    <3>1. ImageNames(i, x, z)
      BY <2>1, <2>4, <2>5, <2>6, Zenon DEF ImageNames
    <3> QED BY <3>1, DmabufImage, Zenon
  <2>9. Dmabuf!TypeOK'
    <3>1. v6' \subseteq Buffers /\ v7' \in [Buffers -> Descriptors \cup {0}]
      BY <1>2, <2>1, <2>6, DmabufTyped
    <3> QED BY <1>1, <1>3, <1>4, <2>4, <3>1 DEF Dmabuf!IInv, Dmabuf!TypeOK
  <2>10. Dmabuf!OpenAreOwned'
    BY <1>1, <1>3, <2>8 DEF Dmabuf!IInv, Dmabuf!OpenAreOwned, Dmabuf!NextFrame, OthersKept
  <2>11. Dmabuf!AnswersAreKept'
    BY <1>1 DEF Dmabuf!IInv, Dmabuf!AnswersAreKept
  <2>12. Dmabuf!FramesFitTheDisplay'
    <3> SUFFICES ASSUME NEW j \in v6', j \in v5'
                 PROVE  v7'[j] # 0 /\ (~v16' => v8'[v7'[j]] = v4'.size)
      BY DEF Dmabuf!FramesFitTheDisplay
    <3>1. j \in Buffers /\ j \in v5
      BY <1>1, DmabufTyped
    <3>2. CASE j = i
      <4>1. v7'[i] = x /\ s = v4.size
        BY <1>1, <1>2, <2>1, <3>2, DmabufTyped
      <4> QED BY <1>3, <1>6, <2>4, <2>7, <3>2, <4>1
    <3>3. CASE j # i
      <4>1. j \in v6 /\ v7'[j] = v7[j]
        BY <1>2, <2>1, <3>1, <3>3, DmabufTyped
      <4>2. v7[j] # 0 /\ (~v16 => v8[v7[j]] = v4.size)
        BY <1>1, <3>1, <4>1 DEF Dmabuf!IInv, Dmabuf!FramesFitTheDisplay
      <4> QED BY <1>3, <2>1, <2>8, <3>1, <3>3, <4>1, <4>2 DEF OthersKept
    <3> QED BY <3>2, <3>3
  <2>13. Dmabuf!NamesAreCurrent' /\ Dmabuf!NamesFindTheirMonitor'
    BY <1>1, <1>3, DmabufNamesKept
  <2> QED BY <2>8, <2>9, <2>10, <2>11, <2>12, <2>13 DEF Dmabuf!IInv, OthersKept
<1> QED BY <1>7, <1>8

\* The image closes what it had and names nothing, as snapshot() fails or its encoder was the last to
\* have it.
LEMMA DmabufDrops ==
    ASSUME Dmabuf!IInv, NEW i \in Buffers, Dmabuf!SnapshotFails(i) \/ Dmabuf!Release(i)
    PROVE  Dmabuf!IInv'
<1>1. /\ UNCHANGED <<v1, v2, v3, v5, v9, v10, v11, v12, v13, v16>>
      /\ v4 # Nil => v4' # Nil /\ v4'.output = v4.output /\ v4'.meant = v4.meant /\ v4'.size = v4.size
                     /\ v4'.owns = v4.owns
      /\ v4 = Nil => v4' = Nil
  BY DmabufOver DEF Dmabuf!SnapshotFails, Dmabuf!Release, Dmabuf!world, Dmabuf!dmabuf, Dmabuf!Captures
<1>2. /\ v6' \subseteq v6 /\ (i \in v5 => i \notin v6')
      /\ \/ UNCHANGED <<v7, v8>>
         \/ v7' = [v7 EXCEPT ![i] = 0] /\ v8' = Dmabuf!Closed(v8, {v7[i]})
  BY DEF Dmabuf!SnapshotFails, Dmabuf!Release, Dmabuf!Idle, Dmabuf!Reset
<1>3. /\ v6' \subseteq Buffers /\ v7' \in [Buffers -> Descriptors \cup {0}]
      /\ v8' \in [Descriptors -> OutputSizes \cup {Nil}]
  BY <1>2, DmabufTyped DEF Dmabuf!Closed
<1>4. Dmabuf!TypeOK'
  BY <1>1, <1>3 DEF Dmabuf!IInv, Dmabuf!TypeOK
<1>5. OthersKept(i)
  <2>1. CASE UNCHANGED <<v7, v8>>
    BY <1>1, <2>1 DEF Dmabuf!IInv, Dmabuf!OpenAreOwned, Dmabuf!OwnedAreOpen, OthersKept
  <2>2. CASE v7' = [v7 EXCEPT ![i] = 0] /\ v8' = Dmabuf!Closed(v8, {v7[i]})
    <3>1. ImageNames(i, 0, Nil)
      BY <1>1, <2>2, DmabufClosed, DmabufTyped DEF ImageNames
    <3> QED BY <3>1, DmabufImage, Zenon
  <2> QED BY <1>2, <2>1, <2>2
<1>6. Dmabuf!OpenAreOwned' /\ Dmabuf!OwnedAreOpen'
  BY <1>1, <1>5 DEF Dmabuf!IInv, Dmabuf!OpenAreOwned, Dmabuf!NextFrame, OthersKept
<1>7. Dmabuf!AnswersAreKept'
  <2>1. ASSUME v13, v12 = "ready" PROVE v9[v10] # 0 /\ (~v16 => v8'[v9[v10]] = v11)
    BY <1>1, <1>5, <2>1 DEF Dmabuf!IInv, Dmabuf!AnswersAreKept, OthersKept
  <2>2. v13 => v1 = "wlr" /\ v4 # Nil
    BY DEF Dmabuf!IInv, Dmabuf!AnswersAreKept
  <2> QED BY <1>1, <2>1, <2>2, Zenon DEF Dmabuf!AnswersAreKept
<1>8. Dmabuf!FramesFitTheDisplay'
  <2> SUFFICES ASSUME v4 # Nil, v4.owns, NEW j \in v6', j \in v5
               PROVE  v7'[j] # 0 /\ (~v16 => v8'[v7'[j]] = v4.size)
    BY <1>1 DEF Dmabuf!FramesFitTheDisplay
  <2>1. j # i /\ j \in v6 /\ j \in Buffers
    BY <1>2, <1>3
  <2>2. v7'[j] = v7[j]
    BY <1>2, <2>1, DmabufTyped
  <2>3. v7[j] # 0 /\ (~v16 => v8[v7[j]] = v4.size)
    BY <2>1 DEF Dmabuf!IInv, Dmabuf!FramesFitTheDisplay
  <2> QED BY <1>1, <1>5, <2>1, <2>2, <2>3 DEF OthersKept
<1>9. Dmabuf!NamesAreCurrent' /\ Dmabuf!NamesFindTheirMonitor'
  BY <1>1, DmabufNamesKept
<1> QED BY <1>4, <1>6, <1>7, <1>8, <1>9 DEF Dmabuf!IInv

\* A frame that is copied changes no descriptor.
LEMMA DmabufCopies ==
    ASSUME Dmabuf!IInv, NEW i \in Buffers, Dmabuf!SnapshotRam(i) \/ Dmabuf!AnsweredRam(i)
    PROVE  Dmabuf!IInv'
<1>1. /\ UNCHANGED <<v1, v2, v3, v5, v7, v8, v9, v10, v11, v12, v16>>
      /\ i \in v5 /\ v6' \subseteq v6 \cup {i} /\ v4 # Nil /\ ~v4.owns
  <2>1. v13 => v4 # Nil
    BY DEF Dmabuf!IInv, Dmabuf!AnswersAreKept
  <2> QED BY <2>1 DEF Dmabuf!SnapshotRam, Dmabuf!AnsweredRam, Dmabuf!Delivered, Dmabuf!Refreshed, Dmabuf!Idle,
        Dmabuf!Captures, Dmabuf!world, Dmabuf!dmabuf
<1>2. v4' # Nil /\ v4'.output = v4.output /\ v4'.meant = v4.meant /\ v4'.size = v4.size /\ v4'.owns = v4.owns
  BY <1>1, DmabufOver DEF Dmabuf!SnapshotRam, Dmabuf!AnsweredRam, Dmabuf!Delivered, Dmabuf!Refreshed
<1>3. v13' => v13
  BY Zenon DEF Dmabuf!SnapshotRam, Dmabuf!AnsweredRam, Dmabuf!Delivered, Dmabuf!dmabuf
<1>4. Dmabuf!TypeOK'
  <2>1. v6' \subseteq Buffers
    BY <1>1, DmabufTyped
  <2> QED BY <1>1, <1>2, <2>1 DEF Dmabuf!IInv, Dmabuf!TypeOK
<1>5. Dmabuf!OpenAreOwned' /\ Dmabuf!OwnedAreOpen'
  BY <1>1, <1>2 DEF Dmabuf!IInv, Dmabuf!OpenAreOwned, Dmabuf!OwnedAreOpen, Dmabuf!NextFrame
<1>6. Dmabuf!AnswersAreKept'
  BY <1>1, <1>2, <1>3, Zenon DEF Dmabuf!IInv, Dmabuf!AnswersAreKept
<1>7. Dmabuf!FramesFitTheDisplay'
  BY <1>1, <1>2 DEF Dmabuf!FramesFitTheDisplay
<1>8. Dmabuf!NamesAreCurrent' /\ Dmabuf!NamesFindTheirMonitor'
  BY <1>1, <1>2, DmabufNamesKept
<1> QED BY <1>4, <1>5, <1>6, <1>7, <1>8 DEF Dmabuf!IInv

\* The image closes what it had and takes the answer's frame over.
LEMMA DmabufTakes ==
    ASSUME Dmabuf!IInv, NEW i \in Buffers, Dmabuf!AnsweredVram(i)
    PROVE  Dmabuf!IInv'
<1> DEFINE k == v9[v10]
<1>1. /\ v13 /\ v4 # Nil /\ v4.owns /\ i \in v5 /\ i \notin v6 /\ v13' = FALSE
      /\ UNCHANGED <<v1, v2, v3, v5, v10, v11, v12, v16>>
  BY DEF Dmabuf!IInv, Dmabuf!AnswersAreKept, Dmabuf!AnsweredVram, Dmabuf!Delivered, Dmabuf!Idle, Dmabuf!world
<1>2. v4' # Nil /\ v4'.output = v4.output /\ v4'.meant = v4.meant /\ v4'.size = v4.size /\ v4'.owns = v4.owns
  BY <1>1, DmabufOver DEF Dmabuf!AnsweredVram, Dmabuf!Delivered
<1>3. Dmabuf!AnswersAreKept'
  BY <1>1 DEF Dmabuf!AnswersAreKept
<1>4. Dmabuf!NamesAreCurrent' /\ Dmabuf!NamesFindTheirMonitor'
  BY <1>1, <1>2, DmabufNamesKept
<1>5. CASE ~Dmabuf!Fits
  <2>1. UNCHANGED <<v6, v7, v8, v9>>
    BY <1>5 DEF Dmabuf!AnsweredVram, Dmabuf!Delivered
  <2>2. Dmabuf!TypeOK'
    BY <1>1, <1>2, <2>1 DEF Dmabuf!IInv, Dmabuf!TypeOK
  <2>3. Dmabuf!OpenAreOwned' /\ Dmabuf!OwnedAreOpen'
    BY <1>1, <1>2, <2>1 DEF Dmabuf!IInv, Dmabuf!OpenAreOwned, Dmabuf!OwnedAreOpen, Dmabuf!NextFrame
  <2>4. Dmabuf!FramesFitTheDisplay'
    BY <1>1, <1>2, <2>1 DEF Dmabuf!IInv, Dmabuf!FramesFitTheDisplay
  <2> QED BY <1>3, <1>4, <2>2, <2>3, <2>4 DEF Dmabuf!IInv
<1>6. CASE Dmabuf!Fits
  <2>1. /\ v6' = v6 \cup {i} /\ v8' = Dmabuf!Closed(v8, {v7[i]}) /\ v7' = [v7 EXCEPT ![i] = k]
        /\ v9' = [v9 EXCEPT ![v10] = 0] /\ v11 = v4.size
    BY <1>6 DEF Dmabuf!AnsweredVram, Dmabuf!Delivered, Dmabuf!Fits
  <2>2. k # 0 /\ (~v16 => v8[k] = v11)
    BY <1>1, <1>6 DEF Dmabuf!IInv, Dmabuf!AnswersAreKept, Dmabuf!Fits
  <2>3. \A d \in Descriptors : v8'[d] = IF d = v7[i] THEN Nil ELSE v8[d]
    BY <2>1, DmabufClosed
  <2>4. k \in Descriptors /\ v7 \in [Buffers -> Descriptors \cup {0}]
    BY <2>2, DmabufTyped
  <2>5. v9'[v10'] = 0 /\ v9'[3 - v10'] = 0 /\ v9' \in [{1, 2} -> Descriptors \cup {0}]
    BY <1>1, <2>1, DmabufTyped
  <2>6. \A d \in Descriptors : v8[d] # Nil => k = d \/ \E j \in Buffers : v7[j] = d
    BY DEF Dmabuf!IInv, Dmabuf!OpenAreOwned
  <2>7. ~v16 => /\ v8[k] # Nil
                /\ \A j \in Buffers : v7[j] # 0 => /\ v8[v7[j]] # Nil /\ k # v7[j]
                                                   /\ \A l \in Buffers : v7[l] = v7[j] => l = j
    BY <2>2 DEF Dmabuf!IInv, Dmabuf!OwnedAreOpen
  <2> HIDE DEF k
  <2>8. v7'[i] = k /\ \A j \in Buffers : j # i => v7'[j] = v7[j]
    BY <2>1, <2>4
  <2>9. Dmabuf!TypeOK'
    <3>1. v6' \subseteq Buffers /\ v7' \in [Buffers -> Descriptors \cup {0}]
      BY <2>1, <2>4, DmabufTyped
    <3>2. v8' \in [Descriptors -> OutputSizes \cup {Nil}]
      BY <2>1, DmabufTyped DEF Dmabuf!Closed
    <3> QED BY <1>1, <1>2, <2>5, <3>1, <3>2 DEF Dmabuf!IInv, Dmabuf!TypeOK
  <2>10. Dmabuf!OpenAreOwned'
    <3>1. ASSUME NEW d \in Descriptors, v8'[d] # Nil PROVE \E j \in Buffers : v7'[j] = d
      <4>1. d # v7[i] /\ v8[d] # Nil
        BY <2>3, <3>1
      <4> QED BY <2>6, <2>8, <4>1
    <3> QED BY <1>2, <2>5, <3>1 DEF Dmabuf!OpenAreOwned, Dmabuf!NextFrame
  <2>11. ASSUME ~v16, NEW j \in Buffers, j # i, v7[j] # 0
         PROVE  v8'[v7[j]] = v8[v7[j]] /\ v8[v7[j]] # Nil /\ k # v7[j] /\ \A l \in Buffers : v7[l] = v7[j] => l = j
    <3>1. v7[j] \in Descriptors /\ v8[v7[j]] # Nil /\ v7[i] # v7[j] /\ k # v7[j]
          /\ \A l \in Buffers : v7[l] = v7[j] => l = j
      BY <2>4, <2>7, <2>11
    <3> QED BY <2>3, <3>1
  <2>12. ASSUME ~v16 PROVE v8'[k] = v8[k] /\ v8[k] # Nil
    BY <2>2, <2>3, <2>4, <2>7, <2>12
  <2>13. Dmabuf!OwnedAreOpen'
    <3> SUFFICES ASSUME ~v16, NEW j \in Buffers, v7'[j] # 0
                 PROVE  v8'[v7'[j]] # Nil /\ \A l \in Buffers : v7'[l] = v7'[j] => l = j
      BY <1>1, <2>5 DEF Dmabuf!OwnedAreOpen
    <3>1. CASE j = i
      <4>1. ASSUME NEW l \in Buffers, l # i, v7'[l] = k PROVE FALSE
        BY <2>2, <2>8, <2>11, <4>1
      <4> QED BY <2>8, <2>12, <3>1, <4>1
    <3>2. CASE j # i
      <4>1. v7'[j] = v7[j] /\ v7[j] # 0
        BY <2>8, <3>2
      <4>2. v8'[v7[j]] # Nil /\ k # v7[j] /\ \A l \in Buffers : v7[l] = v7[j] => l = j
        BY <2>11, <3>2, <4>1
      <4> QED BY <2>8, <4>1, <4>2
    <3> QED BY <3>1, <3>2
  <2>14. Dmabuf!FramesFitTheDisplay'
    <3> SUFFICES ASSUME NEW j \in v6', j \in v5
                 PROVE  v7'[j] # 0 /\ (~v16 => v8'[v7'[j]] = v4.size)
      BY <1>1, <1>2 DEF Dmabuf!FramesFitTheDisplay
    <3>1. CASE j = i
      BY <2>1, <2>2, <2>8, <2>12, <3>1
    <3>2. CASE j # i
      <4>1. j \in v6 /\ j \in Buffers
        BY <2>1, <3>2, DmabufTyped
      <4>2. v7'[j] = v7[j] /\ v7[j] # 0 /\ (~v16 => v8[v7[j]] = v4.size)
        BY <1>1, <2>8, <3>2, <4>1 DEF Dmabuf!IInv, Dmabuf!FramesFitTheDisplay
      <4> QED BY <2>11, <3>2, <4>1, <4>2
    <3> QED BY <3>1, <3>2
  <2> QED BY <1>3, <1>4, <2>9, <2>10, <2>13, <2>14 DEF Dmabuf!IInv
<1> QED BY <1>5, <1>6

\* The compositor's frame comes in the place of the one before.
LEMMA DmabufReady ==
    ASSUME Dmabuf!IInv, Dmabuf!Ready
    PROVE  Dmabuf!IInv'
<1> DEFINE k == v9[v10]
           x == Dmabuf!Fresh(v8)
           s == v2[v4.output]
<1>1. /\ v13 /\ s # 0 /\ v12' = "ready" /\ v11' = s /\ v10' = 3 - v10
      /\ v9' = [v9 EXCEPT ![3 - v10] = x, ![v10] = 0]
      /\ v8' = Dmabuf!Closed([v8 EXCEPT ![x] = s], {k})
      /\ UNCHANGED <<v1, v2, v3, v4, v5, v6, v7, v13, v16>>
  BY DEF Dmabuf!Ready, Dmabuf!NextFrame, Dmabuf!Received, Dmabuf!Off, Dmabuf!images, Dmabuf!world
<1>2. v1 = "wlr" /\ v4 # Nil
  BY <1>1 DEF Dmabuf!IInv, Dmabuf!AnswersAreKept
<1>3. s \in OutputSizes /\ s # Nil
  <2>1. v4.output \in Outputs
    BY <1>2 DEF Dmabuf!IInv, Dmabuf!TypeOK
  <2> QED BY <1>1, <2>1, DmabufTyped
<1>4. /\ \A d \in Descriptors : v8[d] # Nil => k = d \/ \E j \in Buffers : v7[j] = d
      /\ v7 \in [Buffers -> Descriptors \cup {0}] /\ k \in Descriptors \cup {0}
  BY DmabufTyped DEF Dmabuf!IInv, Dmabuf!OpenAreOwned
<1>5. x \in Descriptors /\ v8[x] = Nil /\ x # 0
  <2> HIDE DEF k
  <2> QED BY <1>4, DmabufFresh
<1>6. ~v16 => /\ k # 0 => v8[k] # Nil
              /\ \A j \in Buffers : v7[j] # 0 => /\ v8[v7[j]] # Nil /\ k # v7[j]
                                                 /\ \A l \in Buffers : v7[l] = v7[j] => l = j
  BY DEF Dmabuf!IInv, Dmabuf!OwnedAreOpen
<1> HIDE DEF k, x, s
<1>7. v9'[v10'] = x /\ v9'[3 - v10'] = 0 /\ v9' \in [{1, 2} -> Descriptors \cup {0}] /\ v10' \in {1, 2}
  <2>1. v10 \in {1, 2} /\ v9 \in [{1, 2} -> Descriptors \cup {0}]
    BY DmabufTyped
  <2>2. CASE v10 = 1
    BY <1>1, <1>5, <2>1, <2>2
  <2>3. CASE v10 = 2
    BY <1>1, <1>5, <2>1, <2>3
  <2> QED BY <2>1, <2>2, <2>3
<1>8. /\ \A d \in Descriptors : v8'[d] = IF d = k THEN Nil ELSE IF d = x THEN s ELSE v8[d]
      /\ v8' \in [Descriptors -> OutputSizes \cup {Nil}]
  <2>1. \A d \in Descriptors : [v8 EXCEPT ![x] = s][d] = IF d = x THEN s ELSE v8[d]
    BY DmabufTyped
  <2>2. v8 \in [Descriptors -> OutputSizes \cup {Nil}]
    BY DmabufTyped
  <2> QED BY <1>1, <1>3, <2>1, <2>2 DEF Dmabuf!Closed
<1>9. Dmabuf!TypeOK'
  BY <1>1, <1>7, <1>8 DEF Dmabuf!IInv, Dmabuf!TypeOK
<1>10. Dmabuf!OpenAreOwned'
  BY <1>1, <1>2, <1>4, <1>7, <1>8 DEF Dmabuf!OpenAreOwned, Dmabuf!NextFrame
<1>11. ASSUME ~v16 PROVE v8'[x] = s
  <2>1. k # x
    BY <1>5, <1>6, <1>11
  <2> QED BY <1>5, <1>8, <2>1
<1>12. ASSUME ~v16, NEW j \in Buffers, v7[j] # 0
       PROVE  v8'[v7[j]] = v8[v7[j]] /\ v8[v7[j]] # Nil /\ x # v7[j] /\ \A l \in Buffers : v7[l] = v7[j] => l = j
  <2>1. v7[j] \in Descriptors /\ v8[v7[j]] # Nil /\ k # v7[j] /\ \A l \in Buffers : v7[l] = v7[j] => l = j
    BY <1>4, <1>6, <1>12
  <2>2. x # v7[j]
    BY <1>5, <2>1
  <2> QED BY <1>8, <2>1, <2>2
<1>13. Dmabuf!OwnedAreOpen'
  BY <1>1, <1>3, <1>7, <1>11, <1>12 DEF Dmabuf!OwnedAreOpen
<1>14. Dmabuf!AnswersAreKept'
  BY <1>1, <1>2, <1>5, <1>7, <1>11 DEF Dmabuf!AnswersAreKept
<1>15. Dmabuf!FramesFitTheDisplay'
  <2> SUFFICES ASSUME v4.owns, NEW j \in v6, j \in v5
               PROVE  v7[j] # 0 /\ (~v16 => v8'[v7[j]] = v4.size)
    BY <1>1 DEF Dmabuf!FramesFitTheDisplay
  <2>1. v7[j] # 0 /\ (~v16 => v8[v7[j]] = v4.size) /\ j \in Buffers
    BY <1>2, DmabufTyped DEF Dmabuf!IInv, Dmabuf!FramesFitTheDisplay
  <2> QED BY <1>12, <2>1
<1>16. Dmabuf!NamesAreCurrent' /\ Dmabuf!NamesFindTheirMonitor'
  BY <1>1, DmabufNamesKept
<1> QED BY <1>9, <1>10, <1>13, <1>14, <1>15, <1>16 DEF Dmabuf!IInv

\* There is no other frame that cancel() could destroy.
LEMMA DmabufCancels ==
    ASSUME Dmabuf!IInv, Dmabuf!Cancel
    PROVE  Dmabuf!IInv'
<1>1. /\ v13 /\ v12' = "reinit"
      /\ v9' = [v9 EXCEPT ![3 - v10] = 0] /\ v8' = Dmabuf!Closed(v8, {v9[3 - v10]})
      /\ UNCHANGED <<v1, v2, v3, v4, v5, v6, v7, v10, v11, v13, v16>>
  BY DEF Dmabuf!Cancel, Dmabuf!NextFrame, Dmabuf!images, Dmabuf!world
<1>2. v9' = v9
  BY <1>1, DmabufTyped
<1>3. v8' = v8
  <2>1. v9[3 - v10] = 0 /\ 0 \notin Descriptors /\ v8 \in [Descriptors -> OutputSizes \cup {Nil}]
    BY DmabufTyped
  <2>2. v8' = [d \in Descriptors |-> v8[d]]
    BY <1>1, <2>1 DEF Dmabuf!Closed
  <2> QED BY <2>1, <2>2
<1>4. Dmabuf!AnswersAreKept'
  BY <1>1 DEF Dmabuf!IInv, Dmabuf!AnswersAreKept
<1>5. Dmabuf!NamesAreCurrent'
  BY <1>1, DmabufNames DEF Dmabuf!IInv, Dmabuf!NamesAreCurrent
<1>6. v2' \in [Outputs -> OutputSizes \cup {0}]
  BY <1>1, DmabufTyped
<1> QED BY <1>1, <1>2, <1>3, <1>4, <1>5, <1>6, DmabufStutters

\* A step of the frames
LEMMA DmabufStep == Dmabuf!IInv /\ Dmabuf!Next => Dmabuf!IInv'
<1> SUFFICES ASSUME Dmabuf!IInv, Dmabuf!Next PROVE Dmabuf!IInv'
  OBVIOUS
<1>1. Dmabuf!Cardinality(Outputs) = Cardinality(Outputs)
  BY DmabufCardinality
<1>2. \/ Dmabuf!List \/ Dmabuf!CloseDisplay \/ Dmabuf!Listen \/ Dmabuf!Ready \/ Dmabuf!Cancel \/ Dmabuf!Timeout
      \/ \E n \in 0 .. Cardinality(Outputs), owns \in BOOLEAN : Dmabuf!OpenDisplay(n, owns)
      \/ \E i \in Buffers : Dmabuf!SnapshotVram(i) \/ Dmabuf!SnapshotRam(i) \/ Dmabuf!SnapshotFails(i)
                         \/ Dmabuf!AnsweredVram(i) \/ Dmabuf!AnsweredRam(i) \/ Dmabuf!Release(i)
      \/ \E o \in Outputs, z \in OutputSizes \cup {0} : Dmabuf!Change(o, z)
  BY <1>1, Zenon DEF Dmabuf!Next, Dmabuf!Off
<1> QED BY <1>2, DmabufAsks, DmabufOpens, DmabufCloses, DmabufReady, DmabufCancels, DmabufSnapshots, DmabufDrops,
      DmabufCopies, DmabufTakes, Zenon

\* The invariant of DmabufCapture holds always.
LEMMA DmabufInvariant == Spec => [](part = "dmabuf" => Dmabuf!IInv)
<1>1. Init => (part = "dmabuf" => Dmabuf!IInv)
  BY StartOfMedia, DmabufInit
<1>2. (part = "dmabuf" => Dmabuf!IInv) /\ [Next]_vars => (part = "dmabuf" => Dmabuf!IInv)'
  <2>1. Dmabuf!IInv /\ UNCHANGED vars => Dmabuf!IInv'
    <3> SUFFICES ASSUME Dmabuf!IInv, UNCHANGED vars PROVE Dmabuf!IInv'
      OBVIOUS
    <3>1. UNCHANGED <<v1, v2, v3, v4, v5, v6, v7, v8, v9, v10, v11, v12, v13, v16>>
      BY DEF vars
    <3>2. Dmabuf!AnswersAreKept'
      BY <3>1, Zenon DEF Dmabuf!IInv, Dmabuf!AnswersAreKept
    <3>3. Dmabuf!NamesAreCurrent'
      BY <3>1, DmabufNames DEF Dmabuf!IInv, Dmabuf!NamesAreCurrent
    <3>4. v2' \in [Outputs -> OutputSizes \cup {0}] /\ v12' \in {"waiting", "ready", "reinit"}
      BY <3>1, DmabufTyped DEF Dmabuf!IInv, Dmabuf!TypeOK
    <3> QED BY <3>1, <3>2, <3>3, <3>4, DmabufStutters
  <2> QED BY <2>1, StepOfMedia, DmabufStep
<1> QED BY <1>1, <1>2, PTL DEF Spec

\* Who has a descriptor.
LEMMA DmabufOwners ==
    ASSUME Dmabuf!IInv, ~v16, NEW d \in Descriptors
    PROVE  Dmabuf!Cardinality(Dmabuf!Owners(d)) = IF v8[d] = Nil THEN 0 ELSE 1
<1> DEFINE O == Dmabuf!Owners(d)
           k == v9[v10]
<1>1. O = {<<"image", i>> : i \in {j \in Buffers : v7[j] = d}} \cup {<<"frame", f>> : f \in {g \in {1, 2} : v9[g] = d}}
  BY DEF Dmabuf!Owners
<1>2. d # 0 /\ v10 \in {1, 2} /\ v9[3 - v10] = 0 /\ v7 \in [Buffers -> Descriptors \cup {0}]
  BY DmabufTyped
<1>3. {g \in {1, 2} : v9[g] = d} = IF k = d THEN {v10} ELSE {}
  <2>1. CASE v10 = 1
    BY <1>2, <2>1
  <2>2. CASE v10 = 2
    BY <1>2, <2>2
  <2> QED BY <1>2, <2>1, <2>2
<1>4. /\ v8[d] # Nil => k = d \/ \E i \in Buffers : v7[i] = d
      /\ k # 0 => v8[k] # Nil
      /\ \A j \in Buffers : v7[j] # 0 => /\ v8[v7[j]] # Nil /\ k # v7[j]
                                         /\ \A l \in Buffers : v7[l] = v7[j] => l = j
  BY DEF Dmabuf!IInv, Dmabuf!OpenAreOwned, Dmabuf!OwnedAreOpen
<1> HIDE DEF k
<1>5. CASE v8[d] = Nil
  <2>1. k # d /\ \A i \in Buffers : v7[i] # d
    BY <1>2, <1>4, <1>5
  <2>2. O = {}
    BY <1>1, <1>3, <2>1
  <2> QED BY <1>5, <2>2, DmabufCardinality, FS_EmptySet
<1>6. CASE v8[d] # Nil
  <2>1. \E w : O = {w}
    <3>1. CASE k = d
      <4>1. \A i \in Buffers : v7[i] # d
        BY <1>2, <1>4, <3>1
      <4>2. O = {<<"frame", v10>>}
        BY <1>1, <1>3, <3>1, <4>1
      <4> QED BY <4>2
    <3>2. CASE k # d
      <4>1. PICK i \in Buffers : v7[i] = d
        BY <1>4, <1>6, <3>2
      <4>2. {j \in Buffers : v7[j] = d} = {i}
        BY <1>2, <1>4, <4>1
      <4>3. O = {<<"image", i>>}
        BY <1>1, <1>3, <3>2, <4>2
      <4> QED BY <4>3
    <3> QED BY <3>1, <3>2
  <2>2. Cardinality(O) = 1
    BY <2>1, FS_Singleton
  <2> QED BY <1>6, <2>2, DmabufCardinality
<1> QED BY <1>5, <1>6

\* Frames that are descriptors (kmsgrab.cpp, wlgrab.cpp): each that is open has one owner, an
\* encoder's is open and fits its display, whose name was that of its monitor.
DmabufIsCurrent ==
    part = "dmabuf" =>
        /\ Dmabuf!TypeOK /\ Dmabuf!DescriptorsHaveOneOwner
        /\ Dmabuf!FramesFitTheDisplay /\ Dmabuf!NamesFindTheirMonitor
LEMMA DmabufStaysCurrent == Spec => []DmabufIsCurrent
<1>1. (part = "dmabuf" => Dmabuf!IInv) => DmabufIsCurrent
  <2>1. Dmabuf!IInv => Dmabuf!DescriptorsHaveOneOwner
    BY DmabufOwners DEF Dmabuf!DescriptorsHaveOneOwner
  <2> QED BY <2>1 DEF Dmabuf!IInv, DmabufIsCurrent
<1> QED BY <1>1, DmabufInvariant, PTL

-----------------------------------------------------------------------------
(* DuplicationCapture: what is told, known and shown.                      *)

\* What a display knows, and what clients see
Knowledge == [picture : Nat \cup {Nil}, place : PointerPlaces \cup {0}, visible : BOOLEAN,
              shape : PointerShapes \cup {Nil}, over : BOOLEAN]
Images == [picture : Nat, place : PointerPlaces, visible : BOOLEAN, shape : PointerShapes, over : {FALSE}]
Scenes == [picture : Nat, place : PointerPlaces, visible : BOOLEAN, shape : PointerShapes]

LEMMA DesktopTyped ==
    ASSUME Desktop!IInv
    PROVE  /\ v1 \in {"ram", "vram"} /\ v5 \subseteq {"picture", "place", "shape"}
           /\ v6 \in Scenes /\ v8 \in {Nil} \cup Knowledge /\ v10 \in {Nil} \cup Images
           /\ v2 \in BOOLEAN /\ v3 \in BOOLEAN /\ v4 \in BOOLEAN /\ v7 \in BOOLEAN /\ v9 \in BOOLEAN /\ v11 \in BOOLEAN
<1>1. Desktop!TypeOK
  BY DEF Desktop!IInv
<1>2. v2 \in BOOLEAN /\ v3 \in BOOLEAN /\ v4 \in BOOLEAN /\ v7 \in BOOLEAN /\ v9 \in BOOLEAN /\ v11 \in BOOLEAN
  BY <1>1, Zenon DEF Desktop!TypeOK
<1> QED BY <1>1, <1>2, Zenon DEF Desktop!TypeOK, Desktop!Everything, Scenes, Knowledge, Images

\* What is known
IsKnown(r, p, x, b, s, o) == r.picture = p /\ r.place = x /\ r.visible = b /\ r.shape = s /\ r.over = o
LEMMA KnownFields ==
    ASSUME NEW p, NEW x, NEW b, NEW s, NEW o
    PROVE  IsKnown(Desktop!Known(p, x, b, s, o), p, x, b, s, o)
BY DEF Desktop!Known, IsKnown

LEMMA KnownTyped ==
    ASSUME NEW p \in Nat \cup {Nil}, NEW x \in PointerPlaces \cup {0}, NEW b \in BOOLEAN,
           NEW s \in PointerShapes \cup {Nil}, NEW o \in BOOLEAN
    PROVE  Desktop!Known(p, x, b, s, o) \in Knowledge /\ Desktop!Known(p, x, b, s, o) # Nil
<1>1. Nil \notin Knowledge
  BY DesktopAssumption, Zenon DEF Knowledge
<1> QED BY <1>1 DEF Desktop!Known, Knowledge

\* Nothing is known at first.
LEMMA DesktopInit == Desktop!Init => Desktop!IInv
<1> SUFFICES ASSUME Desktop!Init PROVE Desktop!IInv
  OBVIOUS
<1> USE DEF Desktop!Init
<1>1. v6 \in Scenes
  BY DEF Scenes
<1>2. Desktop!TypeOK
  BY <1>1, Zenon DEF Desktop!TypeOK, Scenes
<1>3. Desktop!FramesAreReturned /\ Desktop!KnownIsCurrent /\ Desktop!ShownFollows
  BY Zenon DEF Desktop!FramesAreReturned, Desktop!KnownIsCurrent, Desktop!ShownFollows
<1> QED BY <1>2, <1>3 DEF Desktop!IInv

\* When something happens DXGI will tell it.
LEMMA DesktopHappens ==
    ASSUME Desktop!IInv, NEW d \in Scenes, NEW n \in {"picture", "place", "shape"}, Desktop!Happens(d, n),
           n # "picture" => d.picture = v6.picture,
           n # "shape" => d.shape = v6.shape,
           n # "place" => d.place = v6.place /\ d.visible = v6.visible
    PROVE  Desktop!IInv'
<1>1. /\ v6' = d /\ v5' = (IF v8 = Nil THEN v5 ELSE v5 \cup {n})
      /\ UNCHANGED <<v1, v2, v3, v4, v7, v8, v9, v10, v11>>
  BY DEF Desktop!Happens
<1>2. Desktop!TypeOK'
  <2>1. v5' \subseteq {"picture", "place", "shape"}
    BY <1>1, DesktopTyped
  <2>2. v6' \in Scenes
    BY <1>1
  <2> QED BY <1>1, <2>1, <2>2, Zenon DEF Desktop!IInv, Desktop!TypeOK, Desktop!Everything, Scenes
<1>3. Desktop!FramesAreReturned'
  BY <1>1, Zenon DEF Desktop!IInv, Desktop!FramesAreReturned
<1>4. v8 # Nil => /\ \A m \in {"picture", "place", "shape"} : m \notin v5' => m \notin v5 /\ m # n
  BY <1>1
<1>5. Desktop!KnownIsCurrent'
  BY <1>1, <1>4, Zenon DEF Desktop!IInv, Desktop!KnownIsCurrent
<1>6. Desktop!ShownFollows'
  BY <1>1, <1>4, Zenon DEF Desktop!IInv, Desktop!ShownFollows
<1> QED BY <1>2, <1>3, <1>5, <1>6 DEF Desktop!IInv

\* The picture, the pointer's place and its shape
LEMMA DesktopTells ==
    ASSUME Desktop!IInv,
           \/ Desktop!Present
           \/ \E x \in PointerPlaces, v \in BOOLEAN : Desktop!Move(x, v)
           \/ \E s \in PointerShapes : Desktop!Shape(s)
    PROVE  Desktop!IInv'
<1>1. v6 \in Scenes
  BY DesktopTyped
<1>2. CASE Desktop!Present
  <2> DEFINE d == Desktop!Scene(v6.picture + 1, v6.place, v6.visible, v6.shape)
  <2>1. d \in Scenes /\ d.shape = v6.shape /\ d.place = v6.place /\ d.visible = v6.visible
    BY <1>1 DEF Scenes, Desktop!Scene
  <2>2. Desktop!Happens(d, "picture")
    BY <1>2 DEF Desktop!Present
  <2> HIDE DEF d
  <2> QED BY <2>1, <2>2, DesktopHappens
<1>3. ASSUME NEW x \in PointerPlaces, NEW v \in BOOLEAN, Desktop!Move(x, v)
      PROVE  Desktop!IInv'
  <2> DEFINE d == Desktop!Scene(v6.picture, x, v, v6.shape)
  <2>1. d \in Scenes /\ d.shape = v6.shape /\ d.picture = v6.picture
    BY <1>1 DEF Scenes, Desktop!Scene
  <2>2. Desktop!Happens(d, "place")
    BY <1>3 DEF Desktop!Move
  <2> HIDE DEF d
  <2> QED BY <2>1, <2>2, DesktopHappens
<1>4. ASSUME NEW s \in PointerShapes, Desktop!Shape(s)
      PROVE  Desktop!IInv'
  <2> DEFINE d == Desktop!Scene(v6.picture, v6.place, v6.visible, s)
  <2>1. d \in Scenes /\ d.picture = v6.picture /\ d.place = v6.place /\ d.visible = v6.visible
    BY <1>1 DEF Scenes, Desktop!Scene
  <2>2. Desktop!Happens(d, "shape")
    BY <1>4 DEF Desktop!Shape
  <2> HIDE DEF d
  <2> QED BY <2>1, <2>2, DesktopHappens
<1> QED BY <1>2, <1>3, <1>4

\* The desktop is switched, or clients want the pointer no more.
LEMMA DesktopSwitches ==
    ASSUME Desktop!IInv, Desktop!Toggle \/ \E a \in BOOLEAN : Desktop!Switch(a)
    PROVE  Desktop!IInv'
<1>1. CASE Desktop!Toggle
  <2>1. v11' = TRUE /\ v7' = ~v7 /\ UNCHANGED <<v1, v2, v3, v4, v5, v6, v8, v9, v10>>
    BY <1>1, Zenon DEF Desktop!Toggle
  <2>2. v7' \in BOOLEAN /\ v11' \in BOOLEAN
    BY <2>1, Zenon
  <2>3. Desktop!TypeOK'
    BY <2>1, <2>2, Zenon DEF Desktop!IInv, Desktop!TypeOK
  <2>4. Desktop!FramesAreReturned' /\ Desktop!KnownIsCurrent' /\ Desktop!ShownFollows'
    BY <2>1, Zenon DEF Desktop!IInv, Desktop!FramesAreReturned, Desktop!KnownIsCurrent, Desktop!ShownFollows
  <2> QED BY <2>3, <2>4 DEF Desktop!IInv
<1>2. ASSUME NEW a \in BOOLEAN, Desktop!Switch(a) PROVE Desktop!IInv'
  <2>1. v2' = a /\ v3' = (v8 # Nil) /\ UNCHANGED <<v1, v4, v5, v6, v7, v8, v9, v10, v11>>
    BY <1>2, Zenon DEF Desktop!Switch
  <2>2. v2' \in BOOLEAN /\ v3' \in BOOLEAN
    BY <2>1, Zenon
  <2>3. Desktop!TypeOK'
    BY <2>1, <2>2, Zenon DEF Desktop!IInv, Desktop!TypeOK
  <2>4. Desktop!FramesAreReturned' /\ Desktop!KnownIsCurrent' /\ Desktop!ShownFollows'
    BY <2>1, Zenon DEF Desktop!IInv, Desktop!FramesAreReturned, Desktop!KnownIsCurrent, Desktop!ShownFollows
  <2> QED BY <2>3, <2>4 DEF Desktop!IInv
<1> QED BY <1>1, <1>2

\* A display that is over, or was told nothing, need not know more.
LEMMA DesktopOver ==
    ASSUME Desktop!IInv, v8 # Nil, Desktop!Over \/ (v8' = v8 /\ v5' = v5),
           UNCHANGED <<v1, v6, v7, v10, v11>>
    PROVE  /\ v8' # Nil /\ v8' \in Knowledge
           /\ Desktop!KnownIsCurrent' /\ Desktop!ShownFollows'
<1>1. v8 \in Knowledge
  BY DesktopTyped
<1>2. CASE v8' = v8 /\ v5' = v5
  BY <1>1, <1>2, Zenon DEF Desktop!IInv, Desktop!KnownIsCurrent, Desktop!ShownFollows
<1>3. CASE Desktop!Over
  <2>1. /\ v8.picture \in Nat \cup {Nil} /\ v8.place \in PointerPlaces \cup {0} /\ v8.visible \in BOOLEAN
        /\ v8.shape \in PointerShapes \cup {Nil}
    BY <1>1 DEF Knowledge
  <2>2. v8' = Desktop!Known(v8.picture, v8.place, v8.visible, v8.shape, TRUE)
    BY <1>3 DEF Desktop!Over
  <2>3. v8' # Nil /\ v8' \in Knowledge
    BY <2>1, <2>2, KnownTyped, Zenon
  <2>4. v8'.over
    <3>1. IsKnown(v8', v8.picture, v8.place, v8.visible, v8.shape, TRUE)
      BY <2>2, KnownFields, Zenon
    <3> QED BY <3>1, Zenon DEF IsKnown
  <2> QED BY <2>3, <2>4 DEF Desktop!KnownIsCurrent, Desktop!ShownFollows
<1> QED BY <1>2, <1>3

\* What the frames' own steps leave alone
LEMMA DesktopTypes ==
    ASSUME Desktop!IInv, UNCHANGED <<v1, v6>>, v5' \subseteq {"picture", "place", "shape"},
           v8' \in {Nil} \cup Knowledge, v10' \in {Nil} \cup Images,
           v2' \in BOOLEAN, v3' \in BOOLEAN, v4' \in BOOLEAN, v7' \in BOOLEAN, v9' \in BOOLEAN, v11' \in BOOLEAN
    PROVE  Desktop!TypeOK'
<1>1. v1' \in {"ram", "vram"} /\ v6' \in Scenes
  BY DesktopTyped
<1>2. {v2, v3, v4, v9, v7, v11}' \subseteq BOOLEAN
  BY Zenon
<1> QED BY <1>1, <1>2, Zenon DEF Desktop!TypeOK, Desktop!Everything, Scenes, Knowledge, Images

\* A display opens and will be told everything.
LEMMA DesktopOpens ==
    ASSUME Desktop!IInv, Desktop!OpenDisplay
    PROVE  Desktop!IInv'
<1>1. /\ v8 = Nil /\ v8' = Desktop!Blank /\ v5' = {"picture", "place", "shape"}
      /\ UNCHANGED <<v1, v2, v4, v6, v7, v10, v11>>
  BY DEF Desktop!OpenDisplay, Desktop!Everything
<1>2. v3' \in BOOLEAN /\ v9' \in BOOLEAN /\ ~v9'
  BY Zenon DEF Desktop!OpenDisplay
<1>3. v8' \in Knowledge /\ v8' # Nil
  <2>1. Nil \in Nat \cup {Nil} /\ 0 \in PointerPlaces \cup {0} /\ FALSE \in BOOLEAN /\ Nil \in PointerShapes \cup {Nil}
    BY Zenon
  <2> QED BY <1>1, <2>1, KnownTyped, Zenon DEF Desktop!Blank
<1>4. Desktop!TypeOK'
  <2>1. v2' \in BOOLEAN /\ v4' \in BOOLEAN /\ v7' \in BOOLEAN /\ v11' \in BOOLEAN
    BY <1>1, DesktopTyped, Zenon
  <2>2. v10' \in {Nil} \cup Images /\ v8' \in {Nil} \cup Knowledge /\ v5' \subseteq {"picture", "place", "shape"}
    BY <1>1, <1>3, DesktopTyped
  <2> QED BY <1>1, <1>2, <2>1, <2>2, DesktopTypes
<1>5. Desktop!FramesAreReturned'
  <2>1. ~v4
    BY <1>1 DEF Desktop!IInv, Desktop!FramesAreReturned
  <2> QED BY <1>1, <1>2, <1>3, <2>1, Zenon DEF Desktop!FramesAreReturned
<1>6. Desktop!KnownIsCurrent' /\ Desktop!ShownFollows'
  BY <1>1 DEF Desktop!KnownIsCurrent, Desktop!ShownFollows
<1> QED BY <1>4, <1>5, <1>6 DEF Desktop!IInv

\* It gives a frame back, finds none or goes.
LEMMA DesktopReturns ==
    ASSUME Desktop!IInv,
           \/ Desktop!CloseDisplay \/ Desktop!NoFrame
           \/ \E a \in {"ok", "timeout", "lost", "error"} : Desktop!ReleaseFrame(a)
    PROVE  Desktop!IInv'
<1>1. UNCHANGED <<v1, v2, v3, v6, v7, v10, v11>>
  BY DEF Desktop!CloseDisplay, Desktop!NoFrame, Desktop!ReleaseFrame, Desktop!host
<1>2. v2' \in BOOLEAN /\ v3' \in BOOLEAN /\ v7' \in BOOLEAN /\ v11' \in BOOLEAN
  BY <1>1, DesktopTyped, Zenon
<1>3. v10' \in {Nil} \cup Images /\ v5 \subseteq {"picture", "place", "shape"}
  BY <1>1, DesktopTyped
<1>4. CASE Desktop!CloseDisplay
  <2>1. v8' = Nil /\ v4' = FALSE /\ v9' = FALSE /\ v5' = {}
    BY <1>4, Zenon DEF Desktop!CloseDisplay
  <2>2. v4' \in BOOLEAN /\ v9' \in BOOLEAN
    BY <2>1, Zenon
  <2>3. Desktop!TypeOK'
    <3>1. v5' \subseteq {"picture", "place", "shape"} /\ v8' \in {Nil} \cup Knowledge
      BY <2>1
    <3> QED BY <1>1, <1>2, <1>3, <2>2, <3>1, DesktopTypes
  <2>4. Desktop!FramesAreReturned'
    BY <2>1, Zenon DEF Desktop!FramesAreReturned
  <2>5. Desktop!KnownIsCurrent' /\ Desktop!ShownFollows'
    BY <2>1 DEF Desktop!KnownIsCurrent, Desktop!ShownFollows
  <2> QED BY <2>3, <2>4, <2>5 DEF Desktop!IInv
<1>5. ASSUME Desktop!NoFrame \/ \E a \in {"ok", "timeout", "lost", "error"} : Desktop!ReleaseFrame(a)
      PROVE  Desktop!IInv'
  <2>1. v8 # Nil /\ (Desktop!Over \/ v8' = v8) /\ v5' = v5
    BY <1>5 DEF Desktop!NoFrame, Desktop!ReleaseFrame, Desktop!Idle
  <2>2. v8' # Nil /\ v8' \in Knowledge /\ Desktop!KnownIsCurrent' /\ Desktop!ShownFollows'
    BY <1>1, <2>1, DesktopOver
  <2>3. v4' \in BOOLEAN /\ v9' \in BOOLEAN /\ (v4' <=> v9')
    <3>1. CASE Desktop!NoFrame
      <4>1. v4' = v4 /\ v9' = v9
        BY <3>1 DEF Desktop!NoFrame
      <4> QED BY <4>1, DesktopTyped, Zenon DEF Desktop!IInv, Desktop!FramesAreReturned
    <3>2. ASSUME NEW a \in {"ok", "timeout", "lost", "error"}, Desktop!ReleaseFrame(a)
          PROVE  v4' \in BOOLEAN /\ v9' \in BOOLEAN /\ (v4' <=> v9')
      <4> DEFINE b == a \in {"timeout", "error"}
      <4>1. v4' = b /\ v9' = b
        BY <3>2, Zenon DEF Desktop!ReleaseFrame
      <4>2. b \in BOOLEAN
        OBVIOUS
      <4> HIDE DEF b
      <4> QED BY <4>1, <4>2, Zenon
    <3> QED BY <1>5, <3>1, <3>2
  <2>4. Desktop!TypeOK'
    <3>1. v5' \subseteq {"picture", "place", "shape"} /\ v8' \in {Nil} \cup Knowledge
      BY <1>3, <2>1, <2>2
    <3> QED BY <1>1, <1>2, <1>3, <2>3, <3>1, DesktopTypes
  <2>5. Desktop!FramesAreReturned'
    BY <2>2, <2>3, Zenon DEF Desktop!FramesAreReturned
  <2> QED BY <2>2, <2>4, <2>5 DEF Desktop!IInv
<1> QED BY <1>4, <1>5

\* A call of Direct3D fails.
LEMMA DesktopFails ==
    ASSUME Desktop!IInv, Desktop!SnapshotFails
    PROVE  Desktop!IInv'
<1>1. UNCHANGED <<v1, v2, v3, v6, v7, v10, v11>> /\ v8 # Nil /\ Desktop!Over /\ v5' = {}
  BY DEF Desktop!SnapshotFails, Desktop!AcquireFrame, Desktop!Idle, Desktop!host
<1>2. v4' = TRUE /\ v9' = TRUE
  BY Zenon DEF Desktop!SnapshotFails, Desktop!AcquireFrame
<1>3. v8' # Nil /\ v8' \in Knowledge /\ Desktop!KnownIsCurrent' /\ Desktop!ShownFollows'
  BY <1>1, DesktopOver
<1>4. Desktop!TypeOK'
  <2>1. v2' \in BOOLEAN /\ v3' \in BOOLEAN /\ v7' \in BOOLEAN /\ v11' \in BOOLEAN /\ v4' \in BOOLEAN /\ v9' \in BOOLEAN
    BY <1>1, <1>2, DesktopTyped, Zenon
  <2>2. v10' \in {Nil} \cup Images /\ v8' \in {Nil} \cup Knowledge /\ v5' \subseteq {"picture", "place", "shape"}
    BY <1>1, <1>3, DesktopTyped
  <2> QED BY <1>1, <2>1, <2>2, DesktopTypes
<1>5. Desktop!FramesAreReturned'
  BY <1>2, <1>3, Zenon DEF Desktop!FramesAreReturned
<1> QED BY <1>3, <1>4, <1>5 DEF Desktop!IInv

\* A frame tells what is new, and clients see it unless nothing of it is to be seen.
LEMMA DesktopSnapshots ==
    ASSUME Desktop!IInv, Desktop!Snapshot
    PROVE  Desktop!IInv'
<1> DEFINE picture == IF "picture" \in v5 THEN v6.picture ELSE v8.picture
           place == IF "place" \in v5 THEN v6.place ELSE v8.place
           visible == IF "place" \in v5 THEN v6.visible /\ (v1 = "vram" => v7) ELSE v8.visible
           shape == IF "shape" \in v5 THEN v6.shape ELSE v8.shape
           seen == Desktop!Pointed(v5)
<1>1. /\ UNCHANGED <<v1, v2, v3, v6, v7>> /\ v8 # Nil /\ ~v8.over /\ v5' = {}
      /\ v8' = Desktop!Known(picture, place, visible, shape, FALSE)
  BY DEF Desktop!Snapshot, Desktop!AcquireFrame, Desktop!Idle, Desktop!host, Desktop!Told
<1>2. v4' = TRUE /\ v9' = TRUE
  BY Zenon DEF Desktop!Snapshot, Desktop!AcquireFrame
<1>3. \/ /\ v5 # {} /\ v10' = Desktop!Known(v8'.picture, v8'.place, seen, v8'.shape, FALSE)
         /\ v11' = (v11 /\ v1 = "vram" /\ "place" \notin v5)
      \/ "picture" \notin v5 /\ v10' = v10 /\ v11' = (v11 \/ (v1 = "ram" /\ v5 # {})) /\ (v1 = "vram" => v5 = {})
  BY DEF Desktop!Snapshot, Desktop!Updates
<1>4. v8 \in Knowledge /\ v6 \in Scenes /\ v10 \in {Nil} \cup Images /\ v1 \in {"ram", "vram"}
  BY <1>1, DesktopTyped
<1>5. v7 \in BOOLEAN /\ v11 \in BOOLEAN /\ v6.visible \in BOOLEAN /\ v8.visible \in BOOLEAN
  BY <1>4, DesktopTyped DEF Knowledge, Scenes
<1>6. visible \in BOOLEAN
  BY <1>5, Zenon
<1>7. picture = v6.picture /\ place = v6.place /\ shape = v6.shape
  BY <1>1 DEF Desktop!IInv, Desktop!KnownIsCurrent
<1>8. /\ v1 = "ram" => (visible <=> v6.visible)
      /\ v1 = "vram" /\ (~v11 \/ "place" \in v5) => (visible <=> v6.visible /\ v7)
  <2>1. CASE "place" \in v5
    BY <2>1
  <2>2. CASE "place" \notin v5
    BY <1>1, <2>2, Zenon DEF Desktop!IInv, Desktop!KnownIsCurrent
  <2> QED BY <2>1, <2>2
<1>9. v6.picture \in Nat /\ v6.place \in PointerPlaces /\ v6.shape \in PointerShapes
  BY <1>4 DEF Scenes
<1> HIDE DEF picture, place, visible, shape, seen
<1>10. /\ v8' # Nil /\ v8' \in Knowledge /\ v8'.picture = v6.picture /\ v8'.place = v6.place
       /\ v8'.shape = v6.shape /\ v8'.visible = visible
  <2>1. /\ picture \in Nat \cup {Nil} /\ place \in PointerPlaces \cup {0} /\ shape \in PointerShapes \cup {Nil}
        /\ FALSE \in BOOLEAN
    BY <1>7, <1>9
  <2>2. v8' # Nil /\ v8' \in Knowledge
    BY <1>1, <1>6, <2>1, KnownTyped, Zenon
  <2>3. IsKnown(v8', picture, place, visible, shape, FALSE)
    BY <1>1, KnownFields, Zenon
  <2> QED BY <1>7, <2>2, <2>3, Zenon DEF IsKnown
<1>11. seen \in BOOLEAN /\ (seen <=> visible /\ (v1 = "ram" => v7))
  <2>1. Desktop!Told(v5).visible = visible
    <3>1. Desktop!Told(v5) = Desktop!Known(picture, place, visible, shape, FALSE)
      BY Zenon DEF Desktop!Told, picture, place, visible, shape
    <3>2. IsKnown(Desktop!Told(v5), picture, place, visible, shape, FALSE)
      BY <3>1, KnownFields, Zenon
    <3> QED BY <3>2, Zenon DEF IsKnown
  <2> QED BY <1>6, <2>1, Zenon DEF Desktop!Pointed, seen
<1>12. v11' \in BOOLEAN
  BY <1>3, <1>5, Zenon
<1>13. ASSUME v10' = Desktop!Known(v8'.picture, v8'.place, seen, v8'.shape, FALSE)
       PROVE  /\ v10' \in Images /\ v10' # Nil /\ v10'.picture = v6.picture /\ v10'.place = v6.place
              /\ v10'.shape = v6.shape /\ (v10'.visible <=> seen)
  <2>1. v10' = Desktop!Known(v6.picture, v6.place, seen, v6.shape, FALSE)
    BY <1>10, <1>13
  <2>2. /\ v10'.picture = v6.picture /\ v10'.place = v6.place /\ v10'.shape = v6.shape /\ v10'.visible = seen
        /\ v10' # Nil
    <3>1. v6.picture \in Nat \cup {Nil} /\ v6.place \in PointerPlaces \cup {0} /\ v6.shape \in PointerShapes \cup {Nil}
          /\ FALSE \in BOOLEAN
      BY <1>9
    <3>2. v10' # Nil
      BY <1>11, <2>1, <3>1, KnownTyped, Zenon
    <3>3. IsKnown(v10', v6.picture, v6.place, seen, v6.shape, FALSE)
      BY <2>1, KnownFields, Zenon
    <3> QED BY <3>2, <3>3, Zenon DEF IsKnown
  <2>3. v10' \in Images
    BY <1>9, <1>11, <2>1 DEF Images, Desktop!Known
  <2> QED BY <2>2, <2>3, Zenon
<1>14. Desktop!TypeOK'
  <2>1. v2' \in BOOLEAN /\ v3' \in BOOLEAN /\ v7' \in BOOLEAN /\ v4' \in BOOLEAN /\ v9' \in BOOLEAN
    BY <1>1, <1>2, DesktopTyped, Zenon
  <2>2. v10' \in {Nil} \cup Images /\ v8' \in {Nil} \cup Knowledge /\ v5' \subseteq {"picture", "place", "shape"}
    BY <1>1, <1>3, <1>4, <1>10, <1>13
  <2> QED BY <1>1, <1>12, <2>1, <2>2, DesktopTypes
<1>15. Desktop!FramesAreReturned'
  BY <1>2, <1>10, Zenon DEF Desktop!FramesAreReturned
<1>16. ~v11' => ~v11 \/ (v1 = "vram" /\ "place" \in v5) \/ (v1 = "ram" /\ v5 # {})
  BY <1>3, <1>4, Zenon
<1>17. ~v11' /\ v1 = "vram" => (visible <=> v6.visible /\ v7)
  BY <1>8, <1>16, Zenon
<1>18. Desktop!KnownIsCurrent'
  BY <1>1, <1>8, <1>10, <1>17, Zenon DEF Desktop!KnownIsCurrent
<1>19. Desktop!ShownFollows'
  <2>1. CASE v10' = Desktop!Known(v8'.picture, v8'.place, seen, v8'.shape, FALSE)
    <3>1. ~v11' => (seen <=> v6.visible /\ v7)
      BY <1>4, <1>8, <1>11, <1>17
    <3> QED BY <1>1, <1>13, <2>1, <3>1, Zenon DEF Desktop!ShownFollows
  <2>2. CASE "picture" \notin v5 /\ v10' = v10 /\ v11' = (v11 \/ (v1 = "ram" /\ v5 # {})) /\ (v1 = "vram" => v5 = {})
    <3>1. ~v11' => ~v11 /\ v5 = {}
      BY <1>4, <2>2
    <3>2. "picture" \notin v5 => v10 # Nil /\ v10.picture = v6.picture
      BY <1>1 DEF Desktop!IInv, Desktop!ShownFollows
    <3>3. ASSUME ~v11', v10.visible PROVE v10.shape = v6.shape
      BY <1>1, <3>1, <3>3 DEF Desktop!IInv, Desktop!ShownFollows
    <3>4. ASSUME ~v11' PROVE (v10.visible <=> v6.visible /\ v7) /\ (v10.visible => v10.place = v6.place)
      <4>1. "place" \notin v5 /\ ~v11
        BY <3>1, <3>4
      <4> QED BY <1>1, <4>1, Zenon DEF Desktop!IInv, Desktop!ShownFollows
    <3> QED BY <1>1, <2>2, <3>2, <3>3, <3>4, Zenon DEF Desktop!ShownFollows
  <2> QED BY <1>3, <2>1, <2>2
<1> QED BY <1>14, <1>15, <1>18, <1>19 DEF Desktop!IInv

\* A step of the desktop
LEMMA DesktopStep == Desktop!IInv /\ Desktop!Next => Desktop!IInv'
BY DesktopTells, DesktopSwitches, DesktopOpens, DesktopReturns, DesktopSnapshots, DesktopFails, Zenon
  DEF Desktop!Next

\* The invariant of DuplicationCapture holds always.
LEMMA DesktopInvariant == Spec => [](part = "desktop" => Desktop!IInv)
<1>1. Init => (part = "desktop" => Desktop!IInv)
  BY StartOfMedia, DesktopInit
<1>2. (part = "desktop" => Desktop!IInv) /\ [Next]_vars => (part = "desktop" => Desktop!IInv)'
  <2>1. Desktop!IInv /\ UNCHANGED vars => Desktop!IInv'
    <3> SUFFICES ASSUME Desktop!IInv, UNCHANGED vars PROVE Desktop!IInv'
      OBVIOUS
    <3>1. UNCHANGED <<v1, v2, v3, v4, v5, v6, v7, v8, v9, v10, v11>>
      BY DEF vars
    <3>2. Desktop!TypeOK'
      BY <3>1, Zenon DEF Desktop!IInv, Desktop!TypeOK
    <3>3. Desktop!FramesAreReturned'
      BY <3>1, Zenon DEF Desktop!IInv, Desktop!FramesAreReturned
    <3>4. Desktop!KnownIsCurrent'
      BY <3>1, Zenon DEF Desktop!IInv, Desktop!KnownIsCurrent
    <3>5. Desktop!ShownFollows'
      BY <3>1, Zenon DEF Desktop!IInv, Desktop!ShownFollows
    <3> QED BY <3>2, <3>3, <3>4, <3>5, Zenon DEF Desktop!IInv
  <2> QED BY <2>1, StepOfMedia, DesktopStep
<1> QED BY <1>1, <1>2, PTL DEF Spec

-----------------------------------------------------------------------------
(* DuplicationCapture: the pointer.                                        *)

\* Just that part of a pointer is drawn that is on the desktop.
LEMMA PointerClipped ==
    ASSUME NEW x \in PointerPlaces
    PROVE  /\ Desktop!Written(x) = {c \in 0 .. DesktopWidth - 1 : c - x \in 0 .. PointerWidth - 1}
           /\ Desktop!Read(x) \subseteq 0 .. PointerWidth - 1 /\ Desktop!Delta(x) >= 0
<1> DEFINE W == DesktopWidth
           P == PointerWidth
           d == Desktop!Delta(x)
           i == Desktop!ImageSkip(x)
           k == Desktop!Skip(x)
<1>1. W \in Nat /\ P \in Nat /\ x \in Int /\ -P <= x /\ 2 * (x - W) <= P
  BY DesktopAssumption
<1>2. /\ i = (IF 0 < x THEN x ELSE 0) /\ k = (IF 0 < x THEN 0 ELSE -x)
      /\ d = IF x <= 0 THEN (IF P + x < W THEN P + x ELSE W)
             ELSE IF x <= W THEN (IF P < W - x THEN P ELSE W - x)
             ELSE (IF P - 2 * (x - W) < 0 THEN P - 2 * (x - W) ELSE 0)
  BY <1>1, SMT DEF Desktop!Delta, Desktop!ImageSkip, Desktop!CursorWidth, Desktop!Skip, Desktop!Truncate, Desktop!Least, Desktop!Most
<1>3. Desktop!Written(x) = {i + n : n \in 0 .. d - 1} /\ Desktop!Read(x) = {k + n : n \in 0 .. d - 1}
  BY DEF Desktop!Written, Desktop!Read
<1> HIDE DEF W, P, d, i, k
<1>4. d \in Nat /\ i \in Nat /\ k \in Nat
  BY <1>1, <1>2, SMT
<1>5. ASSUME NEW c PROVE c \in {i + n : n \in 0 .. d - 1} <=> c \in {b \in 0 .. W - 1 : b - x \in 0 .. P - 1}
  <2>1. c \in {i + n : n \in 0 .. d - 1} <=> c \in i .. i + d - 1
    <3>1. c \in i .. i + d - 1 => c - i \in 0 .. d - 1 /\ i + (c - i) = c
      BY <1>4, SMT
    <3>2. \A n \in 0 .. d - 1 : i + n \in i .. i + d - 1
      BY <1>4, SMT
    <3> QED BY <3>1, <3>2
  <2>2. c \in i .. i + d - 1 <=> c \in 0 .. W - 1 /\ c - x \in 0 .. P - 1
    BY <1>1, <1>2, <1>4, SMT
  <2> QED BY <2>1, <2>2
<1>6. {k + n : n \in 0 .. d - 1} \subseteq 0 .. P - 1
  <2>1. \A n \in 0 .. d - 1 : k + n \in 0 .. P - 1
    BY <1>1, <1>2, <1>4, SMT
  <2> QED BY <2>1
<1>7. {i + n : n \in 0 .. d - 1} = {b \in 0 .. W - 1 : b - x \in 0 .. P - 1}
  BY <1>5
<1> QED BY <1>3, <1>4, <1>6, <1>7 DEF W, P, d

\* After n pixels: those that invert are white, what they are next to is black, but for pixels that
\* come later.
Inverts(s, p) == p \in DOMAIN s /\ s[p] = "inverse"
Outlined(s, n, q) ==
    \E p \in 1 .. n : s[p] = "inverse" /\ (p = q + PointerColumns \/ (p = q + 1 /\ Desktop!Column(p) # 0))
Spilled(s, n, q) ==
    \E p \in 1 .. n : s[p] = "inverse" /\ (q = p + PointerColumns \/ (q = p + 1 /\ Desktop!Column(p) # PointerColumns - 1))
Pixel(s, n, q) ==
    IF q <= n THEN IF s[q] = "inverse" THEN "white"
                   ELSE IF s[q] = "transparent" /\ Outlined(s, n, q) THEN "black" ELSE s[q]
    ELSE IF Spilled(s, n, q) THEN "black" ELSE "unset"
DrawnAfter(s, n) == [q \in DOMAIN s |-> Pixel(s, n, q)]

LEMMA PixelsOfOne ==
    ASSUME NEW l \in Nat, NEW s, DOMAIN s = 1 .. l, NEW n \in 1 .. l
    PROVE  DrawnAfter(s, n) = Desktop!Draw(s, DrawnAfter(s, n - 1), n)
<1> DEFINE C == PointerColumns
           a == DrawnAfter(s, n - 1)
           right == Desktop!Column(n) # C - 1
           left == Desktop!Column(n) # 0
<1>1. C \in Nat \ {0} /\ n \in Nat /\ n \in DOMAIN s /\ n - 1 \in Nat
  BY DesktopAssumption
<1>2. DOMAIN a = DOMAIN s /\ \A q \in DOMAIN s : a[q] = Pixel(s, n - 1, q)
  BY DEF DrawnAfter
<1>a. \A q \in DOMAIN s : q \in Nat
  BY <1>1
<1>b. \A p : p \in 1 .. n <=> p \in 1 .. n - 1 \/ p = n
  BY <1>1
<1> HIDE DEF C
<1>3. CASE s[n] # "inverse"
  <2>1. Desktop!Draw(s, a, n) = [a EXCEPT ![n] = s[n]]
    BY <1>3 DEF Desktop!Draw
  <2>2. ASSUME NEW q \in DOMAIN s
        PROVE  Pixel(s, n, q) = IF q = n THEN s[n] ELSE Pixel(s, n - 1, q)
    <3>1. Outlined(s, n, q) <=> Outlined(s, n - 1, q)
      BY <1>b, <1>3 DEF Outlined
    <3>2. Spilled(s, n, q) <=> Spilled(s, n - 1, q)
      BY <1>b, <1>3 DEF Spilled
    <3>3. q # n => (q <= n <=> q <= n - 1)
      BY <1>1, <1>a
    <3>4. q = n => ~Outlined(s, n - 1, q)
      BY <1>1 DEF Outlined, C
    <3>5. n <= n
      BY <1>1
    <3> QED BY <1>3, <3>1, <3>2, <3>3, <3>4, <3>5 DEF Pixel
  <2> HIDE DEF a
  <2>3. DOMAIN [a EXCEPT ![n] = s[n]] = DOMAIN s /\ \A q \in DOMAIN s : [a EXCEPT ![n] = s[n]][q] = IF q = n THEN s[n] ELSE a[q]
    BY <1>2
  <2>4. [a EXCEPT ![n] = s[n]] = [q \in DOMAIN s |-> IF q = n THEN s[n] ELSE a[q]]
    BY <1>2
  <2>5. DrawnAfter(s, n) = [q \in DOMAIN s |-> IF q = n THEN s[n] ELSE a[q]]
    BY <1>2, <2>2 DEF DrawnAfter
  <2> QED BY <2>1, <2>4, <2>5 DEF a
<1>4. CASE s[n] = "inverse"
  <2> DEFINE New(q) == CASE q = n -> "white"
                         [] q = n + C \/ (q = n + 1 /\ right) -> "black"
                         [] (q = n - C \/ (q = n - 1 /\ left)) /\ a[q] = "transparent" -> "black"
                         [] OTHER -> a[q]
  <2>1. Desktop!Draw(s, a, n) = [q \in DOMAIN s |-> New(q)]
    BY <1>2, <1>4 DEF Desktop!Draw, C
  <2>2. ASSUME NEW q \in DOMAIN s PROVE Pixel(s, n, q) = New(q)
    <3>0. q \in Nat /\ C \in Nat /\ C # 0
      BY <1>1, <1>a
    <3>1. CASE q = n
      <4>1. Pixel(s, n, q) = "white"
        BY <1>1, <1>4, <3>1 DEF Pixel
      <4>2. n # n + C /\ n # n + 1 /\ n # n - C /\ n # n - 1
        BY <1>1
      <4> QED BY <3>1, <4>1, <4>2
    <3>2. CASE q > n
      <4>1. q # n /\ ~(q <= n) /\ ~(q <= n - 1) /\ q # n - C /\ q # n - 1
        BY <1>1, <3>0, <3>2
      <4>2. Spilled(s, n, q) <=> Spilled(s, n - 1, q) \/ q = n + C \/ (q = n + 1 /\ right)
        BY <1>b, <1>4 DEF Spilled, C
      <4>3. a[q] = IF Spilled(s, n - 1, q) THEN "black" ELSE "unset"
        BY <1>2, <4>1 DEF Pixel
      <4>4. Pixel(s, n, q) = IF Spilled(s, n, q) THEN "black" ELSE "unset"
        BY <4>1 DEF Pixel
      <4> HIDE DEF a, right, left
      <4> QED BY <4>1, <4>2, <4>3, <4>4
    <3>3. CASE q < n
      <4>1. q # n /\ q <= n /\ q <= n - 1 /\ q # n + C /\ q # n + 1 /\ (n = q + C <=> q = n - C) /\ (n = q + 1 <=> q = n - 1)
        BY <1>1, <3>0, <3>3
      <4>2. Outlined(s, n, q) <=> Outlined(s, n - 1, q) \/ q = n - C \/ (q = n - 1 /\ left)
        BY <1>b, <1>4, <4>1 DEF Outlined, C
      <4>3. a[q] = IF s[q] = "inverse" THEN "white" ELSE IF s[q] = "transparent" /\ Outlined(s, n - 1, q) THEN "black" ELSE s[q]
        BY <1>2, <4>1 DEF Pixel
      <4>4. Pixel(s, n, q) = IF s[q] = "inverse" THEN "white" ELSE IF s[q] = "transparent" /\ Outlined(s, n, q) THEN "black" ELSE s[q]
        BY <4>1 DEF Pixel
      <4> HIDE DEF a, right, left
      <4>5. a[q] = "transparent" <=> s[q] = "transparent" /\ ~Outlined(s, n - 1, q)
        BY <4>3
      <4>6. New(q) = IF (q = n - C \/ (q = n - 1 /\ left)) /\ a[q] = "transparent" THEN "black" ELSE a[q]
        BY <4>1
      <4> QED BY <4>2, <4>3, <4>4, <4>5, <4>6
    <3>4. q = n \/ q > n \/ q < n
      BY <1>1, <3>0
    <3> QED BY <3>1, <3>2, <3>3, <3>4
  <2> HIDE DEF New, a
  <2>3. DrawnAfter(s, n) = [q \in DOMAIN s |-> New(q)]
    BY <2>2 DEF DrawnAfter
  <2> QED BY <2>1, <2>3 DEF a
<1> QED BY <1>3, <1>4

\* The image is drawn pixel by pixel.
LEMMA PixelsDrawn ==
    ASSUME NEW l \in Nat, NEW s, DOMAIN s = 1 .. l, Len(s) = l
    PROVE  Desktop!CursorImage(s) = DrawnAfter(s, l)
<1> DEFINE Draws(f) == f = [n \in 0 .. l |-> IF n = 0 THEN [p \in DOMAIN s |-> "unset"] ELSE Desktop!Draw(s, f[n - 1], n)]
           f == Desktop!DrawnUpTo(s)
           g == [n \in 0 .. l |-> DrawnAfter(s, n)]
<1>1. DrawnAfter(s, 0) = [p \in DOMAIN s |-> "unset"]
  <2>1. \A q \in DOMAIN s : ~(q <= 0) /\ ~Spilled(s, 0, q)
    BY DEF Spilled
  <2> QED BY <2>1 DEF DrawnAfter, Pixel
<1>2. \A n \in 0 .. l : n # 0 => n - 1 \in 0 .. l /\ n \in 1 .. l
  OBVIOUS
<1>3. Draws(g)
  <2>1. ASSUME NEW n \in 0 .. l
        PROVE  DrawnAfter(s, n) = IF n = 0 THEN [p \in DOMAIN s |-> "unset"] ELSE Desktop!Draw(s, g[n - 1], n)
    <3>1. n # 0 => g[n - 1] = DrawnAfter(s, n - 1)
      BY <1>2
    <3>2. n # 0 => DrawnAfter(s, n) = Desktop!Draw(s, DrawnAfter(s, n - 1), n)
      BY <1>2, PixelsOfOne
    <3> QED BY <1>1, <3>1, <3>2
  <2> QED BY <2>1
<1>4. f = CHOOSE h : Draws(h)
  BY DEF Desktop!DrawnUpTo
<1>5. Draws(f)
  BY <1>3, <1>4, Zenon
<1> HIDE DEF f
<1>6. \A n \in 0 .. l : f[n] = IF n = 0 THEN [p \in DOMAIN s |-> "unset"] ELSE Desktop!Draw(s, f[n - 1], n)
  BY <1>5, Zenon
<1>7. \A n \in 0 .. l : g[n] = IF n = 0 THEN [p \in DOMAIN s |-> "unset"] ELSE Desktop!Draw(s, g[n - 1], n)
  BY <1>3, Zenon
<1>8. g[l] = DrawnAfter(s, l) /\ l \in 0 .. l
  OBVIOUS
<1> HIDE DEF g, Draws
<1>9. \A n \in 0 .. l : f[n] = g[n]
  <2> DEFINE S == {n \in 0 .. l : f[n] # g[n]}
  <2> SUFFICES ASSUME S # {} PROVE FALSE
    OBVIOUS
  <2>1. S \subseteq Nat
    OBVIOUS
  <2>2. PICK n \in S : \A j \in S : n <= j
    BY <2>1, LeastOfSome
  <2>3. n \in 0 .. l /\ f[n] # g[n]
    OBVIOUS
  <2>4. n # 0
    BY <1>6, <1>7, <2>3
  <2>5. n - 1 \in 0 .. l /\ n - 1 \notin S
    BY <1>2, <2>2, <2>3, <2>4
  <2>6. f[n - 1] = g[n - 1]
    BY <2>5
  <2> QED BY <1>6, <1>7, <2>3, <2>4, <2>6
<1> QED BY <1>8, <1>9 DEF Desktop!CursorImage, f

\* Pixels that invert are outlined on the left and above.
LEMMA PointerOutlined ==
    ASSUME NEW s \in PointerShapes
    PROVE  Desktop!CursorImage(s) =
             [p \in DOMAIN s |->
                CASE Inverts(s, p) -> "white"
                  [] s[p] = "transparent" /\ (Inverts(s, p + PointerColumns) \/ (Inverts(s, p + 1) /\ p % PointerColumns # 0)) -> "black"
                  [] OTHER -> s[p]]
<1> DEFINE l == Len(s)
           C == PointerColumns
<1>1. l \in Nat /\ DOMAIN s = 1 .. l /\ C \in Nat \ {0}
  <2>1. s \in Seq({"inverse", "white", "black", "transparent"}) /\ C \in Nat \ {0}
    BY DesktopAssumption, Zenon
  <2> QED BY <2>1
<1>2. Desktop!CursorImage(s) = [p \in DOMAIN s |-> Pixel(s, l, p)]
  BY <1>1, PixelsDrawn DEF DrawnAfter
<1> HIDE DEF l, C
<1>3. ASSUME NEW p \in DOMAIN s
      PROVE  Pixel(s, l, p) =
                CASE Inverts(s, p) -> "white"
                  [] s[p] = "transparent" /\ (Inverts(s, p + C) \/ (Inverts(s, p + 1) /\ p % C # 0)) -> "black"
                  [] OTHER -> s[p]
  <2>1. p <= l /\ p \in Nat /\ (p + 1) - 1 = p
    BY <1>1
  <2>2. Desktop!Column(p + 1) # 0 <=> p % C # 0
    BY <2>1 DEF Desktop!Column, C
  <2>3. Outlined(s, l, p) <=> Inverts(s, p + C) \/ (Inverts(s, p + 1) /\ p % C # 0)
    BY <1>1, <2>2 DEF Outlined, Inverts, C
  <2> QED BY <2>1, <2>3 DEF Pixel, Inverts
<1> QED BY <1>2, <1>3 DEF C

-----------------------------------------------------------------------------
(* What clients see is what their host shows.                              *)

\* A duplicated desktop (display_base.cpp, display_ram.cpp, display_vram.cpp): frames go back,
\* clients see what there is when nothing is new, and a pointer is drawn where it is.
DesktopIsCurrent ==
    part = "desktop" =>
        /\ Desktop!TypeOK /\ Desktop!FramesAreReturned /\ Desktop!ShownIsCurrent
        /\ Desktop!PointerIsClipped /\ Desktop!InverseIsOutlined
LEMMA DesktopStaysCurrent == Spec => []DesktopIsCurrent
<1>1. (part = "desktop" => Desktop!IInv) => DesktopIsCurrent
  <2> SUFFICES ASSUME Desktop!IInv
               PROVE  /\ Desktop!TypeOK /\ Desktop!FramesAreReturned /\ Desktop!ShownIsCurrent
                      /\ Desktop!PointerIsClipped /\ Desktop!InverseIsOutlined
    BY DEF DesktopIsCurrent
  <2>1. Desktop!TypeOK /\ Desktop!FramesAreReturned
    BY DEF Desktop!IInv
  <2>2. Desktop!ShownIsCurrent
    <3> SUFFICES ASSUME v8 # Nil, ~v8.over, v5 = {}
                 PROVE  /\ v10 # Nil /\ v10.picture = v6.picture
                        /\ ~v11 => (v10.visible <=> v6.visible /\ v7)
                        /\ ~v11 /\ v10.visible => v10.place = v6.place /\ v10.shape = v6.shape
      BY Zenon DEF Desktop!ShownIsCurrent
    <3>1. "picture" \notin v5 /\ "shape" \notin v5 /\ "place" \notin v5
      OBVIOUS
    <3> QED BY <3>1, Zenon DEF Desktop!IInv, Desktop!ShownFollows
  <2>3. Desktop!PointerIsClipped
    <3> SUFFICES ASSUME v10 # Nil
                 PROVE  /\ Desktop!Written(v10.place) = {c \in 0 .. DesktopWidth - 1 : c - v10.place \in 0 .. PointerWidth - 1}
                        /\ Desktop!Read(v10.place) \subseteq 0 .. PointerWidth - 1 /\ Desktop!Delta(v10.place) >= 0
      BY Zenon DEF Desktop!PointerIsClipped
    <3>1. v10.place \in PointerPlaces
      BY DesktopTyped DEF Images
    <3> QED BY <3>1, PointerClipped, Zenon
  <2>4. Desktop!InverseIsOutlined
    <3>1. ASSUME v8 # Nil, v8.shape # Nil PROVE v8.shape \in PointerShapes
      BY <3>1, DesktopTyped DEF Knowledge
    <3> QED BY <3>1, PointerOutlined, Zenon DEF Desktop!InverseIsOutlined, Inverts
  <2> QED BY <2>1, <2>2, <2>3, <2>4
<1> QED BY <1>1, DesktopInvariant, PTL

\* What clients see is what their host shows, from the display to the packets (x11grab.cpp,
\* kmsgrab.cpp, wlgrab.cpp, display_base.cpp, stream.cpp): for every number of displays,
\* images, frames and sizes that the assumptions allow.
THEOREM MediaStaysWhole == Spec => []MediaIsWhole
<1>1. PacketsAreWhole /\ ScreenIsCurrent /\ DmabufIsCurrent /\ DesktopIsCurrent => MediaIsWhole
  BY DEF MediaIsWhole, DisplaysAreCurrent, ScreenIsCurrent, DmabufIsCurrent, DesktopIsCurrent
<1> QED BY <1>1, PacketsStayWhole, ScreenStaysCurrent, DmabufStaysCurrent, DesktopStaysCurrent, PTL
=============================================================================
