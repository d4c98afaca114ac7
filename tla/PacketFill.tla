------------------------------ MODULE PacketFill ------------------------------
(***************************************************************************)
(* The payload of the client's datagrams.  The PacketSize attribute and    *)
(* the three SetFill functions may be used in any order, before the client *)
(* starts and while it runs; Send builds a packet from what they leave in  *)
(* m_data, m_dataSize and m_size.  A buffer of n bytes is a sequence of    *)
(* length n, the null pointer is the buffer without bytes.                 *)
(***************************************************************************)
EXTENDS Integers, Sequences

CONSTANTS
    Bytes,      \* byte values a fill is made of
    Zero,       \* the byte 0: terminates a C string, fills a plain ns3::Packet
    Unset,      \* a byte of an allocated buffer before it is written
    MaxSize,    \* bound of the model: the largest packet and fill
    WordMod     \* 2^32: sizes are uint32_t

\* A size is a number of bytes of a datagram: two of them do not overflow.
ASSUME FillAssumption ==
    /\ MaxSize \in Nat /\ WordMod \in Nat /\ 2 * MaxSize < WordMod
    /\ Unset \notin Bytes \cup {Zero}

VARIABLES m_data, m_dataSize, m_size,
          asked     \* the payload the last call of a setter stands for

vars == <<m_data, m_dataSize, m_size, asked>>

Byte  == Bytes \cup {Zero}
Sizes == 0 .. MaxSize
U32(n) == n % WordMod

\* The fills a caller may pass: strings, and patterns of at least one byte.
Fills == UNION {[1 .. n -> Bytes] : n \in Sizes}
Patterns == Fills \ {<<>>}

\* The payload each setter promises: its bytes repeated up to the size.
Repeated(fill, size) == [i \in 1 .. size |-> fill[((i - 1) % Len(fill)) + 1]]

----------------------------------------------------------------------------
(* The buffer.                                                             *)

\* new uint8_t [size]
NewBuffer(size) == [i \in 1 .. size |-> Unset]

\* The buffer a SetFill writes to: a new one if the size differs.
ComparedToPacketSize(size) == IF size # m_size THEN NewBuffer(size) ELSE m_data
Resized(size) == IF size # m_dataSize THEN NewBuffer(size) ELSE m_data

\* memcpy (&buffer[at], bytes, n).  What lies outside the buffer is not kept.
Copied(buffer, at, bytes, n) ==
    [i \in DOMAIN buffer |-> IF i - at \in 1 .. n THEN bytes[i - at] ELSE buffer[i]]

\* The rounds of the loop of SetFill: how much is filled, and the buffer.
Rounds(size) == (0 .. size) \X [1 .. size -> Byte \cup {Unset}]

\* All copies of the fill but the last one are whole.
WholeCopiesOnly(buffer, fill, size) ==
    LET fillFrom[round \in Rounds(size)] ==
            LET filled == round[1]
                copied(n) == Copied(round[2], filled, fill, n)
            IN  IF U32(filled + Len(fill)) < size
                THEN fillFrom[<<filled + Len(fill), copied(Len(fill))>>]
                ELSE round[2]
    IN  fillFrom[<<0, buffer>>]
Tiled(buffer, fill, size) ==
    LET fillFrom[round \in Rounds(size)] ==
            LET filled == round[1]
                copied(n) == Copied(round[2], filled, fill, n)
            IN  IF U32(filled + Len(fill)) < size
                THEN fillFrom[<<filled + Len(fill), copied(Len(fill))>>]
                ELSE copied(size - filled)
    IN  fillFrom[<<0, buffer>>]

----------------------------------------------------------------------------
(* The setters.                                                            *)

Init ==
    /\ m_data = <<>>
    /\ m_dataSize = 0
    /\ m_size \in Sizes         \* the attribute is set when it is constructed
    /\ asked = [i \in 1 .. m_size |-> Zero]

\* The size m_dataSize is left with by SetDataSize.
KeptDataSize  == m_dataSize
ResetDataSize == 0

\* The attribute PacketSize: the contents do not matter any more.
SetDataSize(dataSize) ==
    /\ m_data' = <<>>
    /\ m_dataSize' = ResetDataSize
    /\ m_size' = dataSize
    /\ asked' = [i \in 1 .. dataSize |-> Zero]

\* What every SetFill does once it knows the buffer it leaves.
Fill(buffer, size, payload) ==
    /\ m_data' = buffer
    /\ m_dataSize' = size
    /\ m_size' = size
    /\ asked' = payload

\* SetFill (std::string): the characters and the terminating zero.
SetFillString(fill) ==
    LET chars == Append(fill, Zero)
        size  == Len(chars)
    IN  Fill(Copied(Resized(size), 0, chars, size), size, chars)

\* SetFill (uint8_t, uint32_t): one byte repeated.
SetFillByte(byte, size) ==
    LET buffer == Resized(size)
    IN  Fill([i \in DOMAIN buffer |-> byte], size, Repeated(<<byte>>, size))

\* SetFill (uint8_t *, uint32_t, uint32_t): a pattern repeated.
SetFillPattern(fill, size) ==
    \/ /\ Len(fill) >= size
       /\ Fill(Copied(Resized(size), 0, fill, size), size, Repeated(fill, size))
    \/ /\ Len(fill) < size
       /\ Fill(Tiled(Resized(size), fill, size), size, Repeated(fill, size))

Next ==
    \/ \E size \in Sizes : SetDataSize(size)
    \/ \E fill \in Fills : SetFillString(fill)
    \/ \E byte \in Byte, size \in Sizes : SetFillByte(byte, size)
    \/ \E fill \in Patterns, size \in Sizes : SetFillPattern(fill, size)

Spec == Init /\ [][Next]_vars

----------------------------------------------------------------------------
\* The packet Send creates.
Payload == IF m_dataSize # 0 THEN m_data ELSE [i \in 1 .. m_size |-> Zero]

\* Between two calls every byte of the buffer has been written.
TypeOK ==
    /\ m_data \in Seq(Byte)
    /\ m_dataSize \in Nat
    /\ m_size \in Nat
    /\ asked \in Seq(Byte)

\* The assertions of Send hold after any sequence of setters: a packet with
\* contents has a buffer, and the buffer, m_dataSize and the PacketSize
\* attribute agree.
SizesAgree ==
    m_dataSize # 0 => m_dataSize = m_size /\ Len(m_data) = m_dataSize

\* Send sends what the last setter asked for: the buffer one SetFill leaves to
\* the next is never too short and no byte of an earlier fill, or of memory
\* that was never written, remains.
PayloadAsAsked == Payload = asked
===============================================================================
