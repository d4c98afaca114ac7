-------------------------- MODULE PacketFill_proofs --------------------------
(***************************************************************************)
(* What the setters leave to Send, for every set of byte values, every     *)
(* size and every sequence of calls.                                       *)
(***************************************************************************)
EXTENDS PacketFill, NumberLemmas

USE FillAssumption

\* A buffer of which some bytes may never have been written.
Buffers(size) == [1 .. size -> Byte \cup {Unset}]

----------------------------------------------------------------------------
(* The loop of SetFill.                                                    *)

\* The fill repeated behind the first bytes of a buffer.
TiledFrom(filled, b, fill, size) ==
    [i \in 1 .. size |->
        IF i <= filled THEN b[i] ELSE fill[((i - 1 - filled) % Len(fill)) + 1]]

\* A memcpy that stays in the buffer.
LEMMA CopiedFits ==
    ASSUME NEW size \in Nat, NEW b \in Buffers(size), NEW at \in 0 .. size,
           NEW fill \in Seq(Byte), NEW n \in 0 .. Len(fill)
    PROVE  /\ Copied(b, at, fill, n) \in Buffers(size)
           /\ \A i \in 1 .. size :
                  Copied(b, at, fill, n)[i] =
                      IF i - at \in 1 .. n THEN fill[i - at] ELSE b[i]
<1>1. DOMAIN b = 1 .. size
    BY DEF Buffers
<1>2. \A i \in 1 .. n : fill[i] \in Byte
    OBVIOUS
<1>3. \A i \in 1 .. size : b[i] \in Byte \cup {Unset}
    BY DEF Buffers
<1>4. Copied(b, at, fill, n) =
          [i \in 1 .. size |-> IF i - at \in 1 .. n THEN fill[i - at] ELSE b[i]]
    BY <1>1 DEF Copied
<1>5. \A i \in 1 .. size :
          (IF i - at \in 1 .. n THEN fill[i - at] ELSE b[i]) \in Byte \cup {Unset}
    BY <1>2, <1>3
<1> QED
    BY <1>4, <1>5 DEF Buffers

\* What is left to do after one more whole copy is what was left before it.
LEMMA CopyThenTile ==
    ASSUME NEW size \in Nat, NEW fill \in Seq(Byte), Len(fill) > 0,
           NEW filled \in 0 .. size, NEW b \in Buffers(size),
           filled + Len(fill) < size
    PROVE  TiledFrom(filled + Len(fill), Copied(b, filled, fill, Len(fill)), fill, size)
               = TiledFrom(filled, b, fill, size)
<1> DEFINE n == Len(fill)
           c == Copied(b, filled, fill, n)
<1>1. n \in Nat \ {0}
    OBVIOUS
<1>2. \A i \in 1 .. size : c[i] = IF i - filled \in 1 .. n THEN fill[i - filled] ELSE b[i]
    <2>1. n \in 0 .. n
        BY <1>1
    <2> QED
        BY <2>1, CopiedFits
<1> HIDE DEF n, c
<1>3. ASSUME NEW i \in 1 .. size
      PROVE  (IF i <= filled + n THEN c[i] ELSE fill[((i - 1 - (filled + n)) % n) + 1])
               = (IF i <= filled THEN b[i] ELSE fill[((i - 1 - filled) % n) + 1])
    <2>1. CASE i <= filled
        BY <1>1, <1>2, <2>1
    <2>2. CASE filled < i /\ i <= filled + n
        <3>1. c[i] = fill[i - filled]
            BY <1>1, <1>2, <2>2
        <3>2. i - 1 - filled \in 0 .. n - 1
            BY <1>1, <2>2
        <3>3. (i - 1 - filled) % n = i - 1 - filled
            BY <1>1, <3>2, ModSmall
        <3> QED
            BY <1>1, <2>2, <3>1, <3>3
    <2>3. CASE filled + n < i
        <3>1. i - 1 - (filled + n) \in Nat
            BY <1>1, <2>3
        <3>2. ((i - 1 - (filled + n)) + n) % n = (i - 1 - (filled + n)) % n
            BY <1>1, <3>1, ModPeriod
        <3>3. (i - 1 - (filled + n)) + n = i - 1 - filled
            BY <1>1
        <3>4. (i - 1 - filled) % n = (i - 1 - (filled + n)) % n
            BY <3>2, <3>3
        <3> QED
            BY <1>1, <2>3, <3>4
    <2> QED
        BY <1>1, <2>1, <2>2, <2>3
<1> QED
    BY <1>3 DEF TiledFrom, n, c

\* The last, perhaps partial, copy does all that is left.
LEMMA LastCopyTiles ==
    ASSUME NEW size \in Nat, NEW fill \in Seq(Byte), Len(fill) > 0,
           NEW filled \in 0 .. size, NEW b \in Buffers(size),
           ~(filled + Len(fill) < size)
    PROVE  Copied(b, filled, fill, size - filled) = TiledFrom(filled, b, fill, size)
<1> DEFINE n == Len(fill)
           c == Copied(b, filled, fill, size - filled)
<1>1. n \in Nat \ {0} /\ size - filled \in 0 .. n
    OBVIOUS
<1>2. /\ c \in Buffers(size)
      /\ \A i \in 1 .. size :
             c[i] = IF i - filled \in 1 .. size - filled THEN fill[i - filled] ELSE b[i]
    BY <1>1, CopiedFits
<1> HIDE DEF n, c
<1>3. ASSUME NEW i \in 1 .. size
      PROVE  c[i] = IF i <= filled THEN b[i] ELSE fill[((i - 1 - filled) % n) + 1]
    <2>1. CASE i <= filled
        BY <1>1, <1>2, <2>1
    <2>2. CASE filled < i
        <3>1. c[i] = fill[i - filled]
            BY <1>1, <1>2, <2>2
        <3>2. i - 1 - filled \in 0 .. n - 1
            BY <1>1, <2>2
        <3>3. (i - 1 - filled) % n = i - 1 - filled
            BY <1>1, <3>2, ModSmall
        <3> QED
            BY <1>1, <2>2, <3>1, <3>3
    <2> QED
        BY <2>1, <2>2
<1>4. c = [i \in 1 .. size |-> c[i]]
    BY <1>2 DEF Buffers
<1> QED
    BY <1>3, <1>4 DEF TiledFrom, n, c

\* A round of the loop whose later rounds are f.
RoundOf(f, round, fill, size) ==
    IF round[1] + Len(fill) < size
    THEN f[<<round[1] + Len(fill), Copied(round[2], round[1], fill, Len(fill))>>]
    ELSE Copied(round[2], round[1], fill, size - round[1])

LEMMA RoundGoesOn ==
    ASSUME NEW size \in Nat, NEW fill \in Seq(Byte), Len(fill) > 0,
           NEW round \in Rounds(size), round[1] + Len(fill) < size
    PROVE  <<round[1] + Len(fill), Copied(round[2], round[1], fill, Len(fill))>>
               \in Rounds(size)
<1>1. round[1] \in 0 .. size /\ round[2] \in Buffers(size)
    BY DEF Rounds, Buffers
<1>2. Len(fill) \in 0 .. Len(fill) /\ round[1] + Len(fill) \in 0 .. size
    BY <1>1
<1>3. Copied(round[2], round[1], fill, Len(fill)) \in Buffers(size)
    BY <1>1, <1>2, CopiedFits
<1> QED
    BY <1>2, <1>3 DEF Rounds, Buffers

\* The recursion of the loop has one solution, and it repeats the fill.  It is
\* unique because a round that left something else would be followed by one
\* with less to fill, so there would be none with the least to fill.
LEMMA LoopRepeats ==
    ASSUME NEW size \in Nat, NEW fill \in Seq(Byte), Len(fill) > 0
    PROVE  \E f : f = [round \in Rounds(size) |-> RoundOf(f, round, fill, size)]
<1> DEFINE g == [round \in Rounds(size) |-> TiledFrom(round[1], round[2], fill, size)]
<1>1. ASSUME NEW round \in Rounds(size)
      PROVE  RoundOf(g, round, fill, size) = TiledFrom(round[1], round[2], fill, size)
    <2>1. round[1] \in 0 .. size /\ round[2] \in Buffers(size)
        BY DEF Rounds, Buffers
    <2>2. CASE round[1] + Len(fill) < size
        <3> DEFINE next == <<round[1] + Len(fill), Copied(round[2], round[1], fill, Len(fill))>>
        <3>1. next \in Rounds(size)
            BY <2>1, <2>2, RoundGoesOn
        <3>2. g[next] = TiledFrom(next[1], next[2], fill, size)
            BY <3>1
        <3>3. g[next] = TiledFrom(round[1], round[2], fill, size)
            BY <2>1, <2>2, <3>2, CopyThenTile
        <3> QED
            BY <2>2, <3>3 DEF RoundOf
    <2>3. CASE ~(round[1] + Len(fill) < size)
        <3>1. Copied(round[2], round[1], fill, size - round[1])
                  = TiledFrom(round[1], round[2], fill, size)
            BY <2>1, <2>3, LastCopyTiles
        <3> QED
            BY <2>3, <3>1 DEF RoundOf
    <2> QED
        BY <2>2, <2>3
<1>2. g = [round \in Rounds(size) |-> RoundOf(g, round, fill, size)]
    BY <1>1
<1> QED
    BY <1>2

LEMMA RoundsAgree ==
    ASSUME NEW size \in Nat, NEW fill \in Seq(Byte), Len(fill) > 0, NEW f,
           f = [round \in Rounds(size) |-> RoundOf(f, round, fill, size)],
           NEW buffer \in Buffers(size)
    PROVE  f[<<0, buffer>>] = TiledFrom(0, buffer, fill, size)
<1> DEFINE Wrong(left) ==
               \E b \in Buffers(size) :
                   f[<<size - left, b>>] # TiledFrom(size - left, b, fill, size)
           T == {left \in 0 .. size : Wrong(left)}
<1>1. T = {}
    <2>1. SUFFICES ASSUME T # {} PROVE FALSE
        OBVIOUS
    <2>2. T \in SUBSET Nat
        OBVIOUS
    <2>3. PICK left \in T : \A other \in T : left <= other
        <3> HIDE DEF T
        <3> QED
            BY <2>1, <2>2, LeastElement
    <2>4. left \in 0 .. size /\ Wrong(left)
        OBVIOUS
    <2>5. PICK b \in Buffers(size) :
              f[<<size - left, b>>] # TiledFrom(size - left, b, fill, size)
        BY <2>4
    <2> DEFINE filled == size - left
    <2>6. filled \in 0 .. size
        BY <2>4
    <2>7. <<filled, b>> \in Rounds(size)
        BY <2>6 DEF Rounds, Buffers
    <2>8. f[<<filled, b>>] = RoundOf(f, <<filled, b>>, fill, size)
        BY <2>7
    <2>9. CASE filled + Len(fill) < size
        <3> DEFINE c == Copied(b, filled, fill, Len(fill))
                   less == left - Len(fill)
        <3>1. less \in 0 .. size /\ less < left /\ size - less = filled + Len(fill)
            BY <2>4, <2>9
        <3>2. c \in Buffers(size)
            BY <2>6, <2>9, CopiedFits
        <3> HIDE DEF c, less
        <3>3. less \notin T
            <4> HIDE DEF T
            <4> QED
                BY <2>3, <2>4, <3>1
        <3>4. f[<<size - less, c>>] = TiledFrom(size - less, c, fill, size)
            BY <3>1, <3>2, <3>3
        <3>5. f[<<filled, b>>] = f[<<filled + Len(fill), c>>]
            BY <2>8, <2>9 DEF RoundOf, c
        <3>6. TiledFrom(filled + Len(fill), c, fill, size) = TiledFrom(filled, b, fill, size)
            BY <2>6, <2>9, CopyThenTile DEF c
        <3> QED
            BY <2>5, <3>1, <3>4, <3>5, <3>6
    <2>10. CASE ~(filled + Len(fill) < size)
        <3>1. f[<<filled, b>>] = Copied(b, filled, fill, size - filled)
            BY <2>8, <2>10 DEF RoundOf
        <3> QED
            BY <2>5, <2>6, <2>10, <3>1, LastCopyTiles
    <2> QED
        BY <2>9, <2>10
<1>2. size \notin T
    <2> HIDE DEF T
    <2> QED
        BY <1>1
<1>3. size \in 0 .. size /\ size - size = 0
    OBVIOUS
<1> QED
    BY <1>2, <1>3

\* The sum in the condition of the loop does not overflow.
LEMMA SumFits ==
    ASSUME NEW size \in Sizes, NEW fill \in Seq(Byte), Len(fill) \in 1 .. MaxSize,
           NEW filled \in 0 .. size
    PROVE  U32(filled + Len(fill)) = filled + Len(fill)
<1>1. /\ WordMod \in Nat \ {0}
      /\ filled + Len(fill) \in 0 .. WordMod - 1
    BY DEF Sizes
<1> QED
    BY <1>1, ModSmall DEF U32

LEMMA TiledRepeats ==
    ASSUME NEW size \in Sizes, NEW fill \in Seq(Byte), Len(fill) \in 1 .. MaxSize,
           NEW buffer \in Buffers(size)
    PROVE  Tiled(buffer, fill, size) = Repeated(fill, size)
<1> DEFINE wordRound(f, round) ==
               IF U32(round[1] + Len(fill)) < size
               THEN f[<<round[1] + Len(fill), Copied(round[2], round[1], fill, Len(fill))>>]
               ELSE Copied(round[2], round[1], fill, size - round[1])
           F == CHOOSE f : f = [round \in Rounds(size) |-> wordRound(f, round)]
<1>1. Tiled(buffer, fill, size) = F[<<0, buffer>>]
    BY DEF Tiled
<1>2. size \in Nat /\ Len(fill) > 0
    BY DEF Sizes
<1>3. ASSUME NEW f
      PROVE  [round \in Rounds(size) |-> wordRound(f, round)]
                 = [round \in Rounds(size) |-> RoundOf(f, round, fill, size)]
    <2>1. ASSUME NEW round \in Rounds(size)
          PROVE  wordRound(f, round) = RoundOf(f, round, fill, size)
        <3>1. round[1] \in 0 .. size
            BY DEF Rounds
        <3>2. U32(round[1] + Len(fill)) = round[1] + Len(fill)
            BY <3>1, SumFits
        <3> QED
            BY <3>2 DEF RoundOf
    <2> QED
        BY <2>1
<1> HIDE DEF wordRound
<1>4. \E f : f = [round \in Rounds(size) |-> wordRound(f, round)]
    <2>1. PICK f : f = [round \in Rounds(size) |-> RoundOf(f, round, fill, size)]
        BY <1>2, LoopRepeats
    <2> QED
        BY <1>3, <2>1
<1>5. F = [round \in Rounds(size) |-> wordRound(F, round)]
    BY <1>4
<1> HIDE DEF F
<1>6. F = [round \in Rounds(size) |-> RoundOf(F, round, fill, size)]
    BY <1>3, <1>5
<1>7. F[<<0, buffer>>] = TiledFrom(0, buffer, fill, size)
    BY <1>2, <1>6, RoundsAgree
<1>8. TiledFrom(0, buffer, fill, size) = Repeated(fill, size)
    BY <1>2 DEF TiledFrom, Repeated
<1> QED
    BY <1>1, <1>7, <1>8

----------------------------------------------------------------------------
(* The setters.                                                            *)

\* The buffer has m_dataSize bytes, all of them written.
BufferWritten == m_data \in [1 .. m_dataSize -> Byte]

FillInv == TypeOK /\ SizesAgree /\ PayloadAsAsked /\ BufferWritten

LEMMA ResizedBuffer ==
    ASSUME FillInv, NEW size \in Nat
    PROVE  Resized(size) \in Buffers(size)
BY DEF FillInv, BufferWritten, Resized, NewBuffer, Buffers

LEMMA RepeatedBytes ==
    ASSUME NEW size \in Nat, NEW fill \in Seq(Byte), Len(fill) > 0
    PROVE  Repeated(fill, size) \in [1 .. size -> Byte]
<1>1. ASSUME NEW i \in 1 .. size PROVE fill[((i - 1) % Len(fill)) + 1] \in Byte
    <2>1. Len(fill) \in Nat \ {0} /\ i - 1 \in Int
        OBVIOUS
    <2>2. (i - 1) % Len(fill) \in 0 .. Len(fill) - 1
        BY <2>1, ModRange
    <2> QED
        BY <2>1, <2>2
<1> QED
    BY <1>1 DEF Repeated

\* A setter that leaves the payload it was asked for in the buffer is right.
LEMMA FillKeeps ==
    ASSUME NEW size \in Nat, NEW payload \in [1 .. size -> Byte],
           Fill(payload, size, payload)
    PROVE  FillInv'
<1>1. /\ m_data' = payload /\ asked' = payload
      /\ m_dataSize' = size /\ m_size' = size
    BY DEF Fill
<1>2. payload \in Seq(Byte) /\ Len(payload) = size
    OBVIOUS
<1>3. TypeOK'
    BY <1>1, <1>2 DEF TypeOK
<1>4. SizesAgree'
    BY <1>1, <1>2 DEF SizesAgree
<1>5. PayloadAsAsked'
    <2>1. CASE size = 0
        <3>1. payload = [i \in 1 .. 0 |-> Zero]
            BY <2>1
        <3> QED
            BY <1>1, <2>1, <3>1 DEF PayloadAsAsked, Payload
    <2>2. CASE size # 0
        BY <1>1, <2>2 DEF PayloadAsAsked, Payload
    <2> QED
        BY <2>1, <2>2
<1> QED
    BY <1>1, <1>3, <1>4, <1>5 DEF FillInv, BufferWritten

LEMMA SetDataSizeKeeps ==
    ASSUME NEW size \in Nat, SetDataSize(size)
    PROVE  FillInv'
<1>1. /\ m_data' = <<>> /\ asked' = [i \in 1 .. size |-> Zero]
      /\ m_dataSize' = 0 /\ m_size' = size
    BY DEF SetDataSize, ResetDataSize
<1>2. [i \in 1 .. size |-> Zero] \in Seq(Byte)
    BY DEF Byte
<1>3. TypeOK'
    BY <1>1, <1>2 DEF TypeOK
<1>4. BufferWritten'
    BY <1>1 DEF BufferWritten
<1> QED
    BY <1>1, <1>3, <1>4 DEF FillInv, SizesAgree, PayloadAsAsked, Payload

LEMMA SetFillStringKeeps ==
    ASSUME FillInv, NEW fill \in Fills, SetFillString(fill)
    PROVE  FillInv'
<1> DEFINE chars == Append(fill, Zero)
           size == Len(chars)
<1>1. fill \in Seq(Byte)
    BY DEF Fills, Byte, Sizes
<1>2. chars \in Seq(Byte) /\ size \in Nat
    BY <1>1 DEF Byte
<1>3. Resized(size) \in Buffers(size)
    BY <1>2, ResizedBuffer
<1>4. Fill(Copied(Resized(size), 0, chars, size), size, chars)
    BY DEF SetFillString
<1> HIDE DEF chars
<1>5. Copied(Resized(size), 0, chars, size) = chars
    <2>1. 0 \in 0 .. size /\ size \in 0 .. Len(chars)
        BY <1>2
    <2> DEFINE c == Copied(Resized(size), 0, chars, size)
    <2>2. /\ c \in Buffers(size)
          /\ \A i \in 1 .. size :
                 c[i] = IF i - 0 \in 1 .. size THEN chars[i - 0] ELSE Resized(size)[i]
        BY <1>2, <1>3, <2>1, CopiedFits
    <2> HIDE DEF c
    <2>3. \A i \in 1 .. size : c[i] = chars[i]
        BY <1>2, <2>2
    <2>4. c = [i \in 1 .. size |-> c[i]] /\ chars = [i \in 1 .. size |-> chars[i]]
        BY <1>2, <2>2 DEF Buffers
    <2> QED
        BY <2>3, <2>4 DEF c
<1>6. chars \in [1 .. size -> Byte]
    BY <1>2
<1> QED
    BY <1>2, <1>4, <1>5, <1>6, FillKeeps

LEMMA SetFillByteKeeps ==
    ASSUME FillInv, NEW byte \in Byte, NEW size \in Nat, SetFillByte(byte, size)
    PROVE  FillInv'
<1>1. Resized(size) \in Buffers(size)
    BY ResizedBuffer
<1>2. <<byte>> \in Seq(Byte) /\ Len(<<byte>>) = 1
    OBVIOUS
<1>3. Repeated(<<byte>>, size) = [i \in 1 .. size |-> byte]
    <2>1. \A i \in 1 .. size : (i - 1) % 1 = 0
        OBVIOUS
    <2> QED
        BY <2>1 DEF Repeated
<1>4. [i \in DOMAIN Resized(size) |-> byte] = Repeated(<<byte>>, size)
    BY <1>1, <1>3 DEF Buffers
<1>5. Fill(Repeated(<<byte>>, size), size, Repeated(<<byte>>, size))
    BY <1>4 DEF SetFillByte
<1>6. Repeated(<<byte>>, size) \in [1 .. size -> Byte]
    BY <1>3
<1> QED
    BY <1>5, <1>6, FillKeeps

LEMMA SetFillPatternKeeps ==
    ASSUME FillInv, NEW fill \in Patterns, NEW size \in Sizes, SetFillPattern(fill, size)
    PROVE  FillInv'
<1>1. fill \in Seq(Byte) /\ Len(fill) \in 1 .. MaxSize /\ size \in Nat
    <2>1. PICK n \in Sizes : fill \in [1 .. n -> Bytes]
        BY DEF Patterns, Fills
    <2>2. fill \in Seq(Byte) /\ Len(fill) = n
        BY <2>1 DEF Byte, Sizes
    <2>3. fill # <<>>
        BY DEF Patterns
    <2> QED
        BY <2>2, <2>3 DEF Sizes
<1>2. Resized(size) \in Buffers(size)
    BY <1>1, ResizedBuffer
<1>3. CASE Len(fill) >= size
    <2>1. 0 \in 0 .. size /\ ~(0 + Len(fill) < size) /\ size - 0 = size
        BY <1>1, <1>3
    <2>2. Copied(Resized(size), 0, fill, size) = TiledFrom(0, Resized(size), fill, size)
        BY <1>1, <1>2, <2>1, LastCopyTiles
    <2>3. TiledFrom(0, Resized(size), fill, size) = Repeated(fill, size)
        BY <1>1 DEF TiledFrom, Repeated
    <2>4. Fill(Repeated(fill, size), size, Repeated(fill, size))
        BY <1>1, <1>3, <2>2, <2>3 DEF SetFillPattern
    <2> QED
        BY <1>1, <2>4, RepeatedBytes, FillKeeps
<1>4. CASE Len(fill) < size
    <2>1. Tiled(Resized(size), fill, size) = Repeated(fill, size)
        BY <1>1, <1>2, TiledRepeats
    <2>2. Fill(Repeated(fill, size), size, Repeated(fill, size))
        BY <1>1, <1>4, <2>1 DEF SetFillPattern
    <2> QED
        BY <1>1, <2>2, RepeatedBytes, FillKeeps
<1> QED
    BY <1>1, <1>3, <1>4

\* Every setter keeps the invariant: none leaves the buffer too short, or
\* unwritten, for the next one.
THEOREM FillInvariant == Spec => []FillInv
<1>1. Init => FillInv
    <2> SUFFICES ASSUME Init PROVE FillInv
        OBVIOUS
    <2>1. m_size \in Nat
        BY DEF Init, Sizes
    <2>2. asked \in Seq(Byte)
        BY <2>1 DEF Init, Byte
    <2> QED
        BY <2>1, <2>2
        DEF Init, FillInv, TypeOK, SizesAgree, PayloadAsAsked, Payload, BufferWritten
<1>2. FillInv /\ [Next]_vars => FillInv'
    <2> SUFFICES ASSUME FillInv, [Next]_vars PROVE FillInv'
        OBVIOUS
    <2>1. ASSUME NEW size \in Sizes, SetDataSize(size) PROVE FillInv'
        BY <2>1, SetDataSizeKeeps DEF Sizes
    <2>2. ASSUME NEW fill \in Fills, SetFillString(fill) PROVE FillInv'
        BY <2>2, SetFillStringKeeps
    <2>3. ASSUME NEW byte \in Byte, NEW size \in Sizes, SetFillByte(byte, size)
          PROVE  FillInv'
        BY <2>3, SetFillByteKeeps DEF Sizes
    <2>4. ASSUME NEW fill \in Patterns, NEW size \in Sizes, SetFillPattern(fill, size)
          PROVE  FillInv'
        BY <2>4, SetFillPatternKeeps
    <2>5. CASE UNCHANGED vars
        BY <2>5 DEF vars, FillInv, TypeOK, SizesAgree, PayloadAsAsked, Payload, BufferWritten
    <2> QED
        BY <2>1, <2>2, <2>3, <2>4, <2>5 DEF Next
<1> QED
    BY <1>1, <1>2, PTL DEF Spec

\* Between two calls every byte of the buffer has been written, whatever its
\* size and whatever was called before.
THEOREM BytesAreWritten == Spec => []TypeOK
BY FillInvariant, PTL DEF FillInv

\* The assertions of Send hold after any calls.
THEOREM SizesStayEqual == Spec => []SizesAgree
BY FillInvariant, PTL DEF FillInv

\* Send sends what the last setter stands for: a string with its terminator,
\* a byte or a pattern repeated up to the size, or zeros.
THEOREM PayloadIsAsAsked == Spec => []PayloadAsAsked
BY FillInvariant, PTL DEF FillInv
===============================================================================
