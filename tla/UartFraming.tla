------------------------------ MODULE UartFraming ------------------------------
(***************************************************************************)
(* The four decoders of UART v1 frames, fed with the same bytes: the       *)
(* master's for its UART and for USB (BmsUart.cpp), the gateway's          *)
(* (Protocol.cpp) and the companion's (uartV1.ts).  First come bytes that  *)
(* are no frame, as after a reset in mid-frame or text on the USB console; *)
(* then heartbeats, one after another.                                     *)
(*                                                                         *)
(* A frame is two magic bytes, the version, the length, the payload and    *)
(* the CRC; type and sequence go with the version, and the CRC is one      *)
(* symbol, right exactly for the frame it was computed for.                *)
(***************************************************************************)
EXTENDS Sequences, SequencesExt, Naturals, FiniteSets

Magic0 == "F"
Magic1 == "B"
Version == "v1"
Empty == "0"             \* a length of 0
Full == "max"            \* the length kMaxPayloadBytes
Crc == "crc"             \* the CRC of a heartbeat
Bytes == {Magic0, Magic1, Version, Empty, Full, Crc}
MaxNoise == 6            \* bound on the bytes before the heartbeats
MaxPayload == 12         \* bound: the code's is 512

HeaderBytes == 4
CrcBytes == 1
Heartbeat == <<Magic0, Magic1, Version, Empty, Crc>>

VARIABLES
    noise,      \* the bytes of noise sent
    next,       \* the byte of the heartbeat to come, 0 before the first
    uart,       \* the master's UART decoder: the bytes it holds
    usb,        \* the master's USB candidate and expected length (0: none)
    gateway,    \* the gateway's StreamDecoder
    companion,  \* the companion's FrameDecoder: the bytes it holds
    missed      \* heartbeats since each decoder's last frame

vars == <<noise, next, uart, usb, gateway, companion, missed>>

Decoders == {"uart", "usb", "gateway", "companion"}
UsbSize == HeaderBytes + MaxPayload + CrcBytes
MaxMissed == 8           \* bound: heartbeats missed are not counted further

TypeOK ==
    /\ noise \in Seq(Bytes) /\ Len(noise) <= MaxNoise
    /\ next \in 0..Len(Heartbeat)
    /\ uart \in Seq(Bytes) /\ gateway \in Seq(Bytes) /\ companion \in Seq(Bytes)
    /\ usb.bytes \in Seq(Bytes) /\ usb.expected \in 0..UsbSize
    /\ Len(usb.bytes) <= UsbSize
    /\ missed \in [Decoders -> 0..MaxMissed]

\* The header at the head of the bytes: whether version and length will do.
LengthOf(bytes) == CASE bytes[4] = Empty -> 0
                     [] bytes[4] = Full -> MaxPayload
                     [] OTHER -> MaxPayload + 1
HeaderWrong(bytes) == bytes[3] # Version \/ LengthOf(bytes) > MaxPayload
Total(bytes) == HeaderBytes + LengthOf(bytes) + CrcBytes
CrcRight(bytes) == bytes = Heartbeat

-----------------------------------------------------------------------------
(* parseByteFromIsr and resetParser; StreamDecoder::consume and            *)
(* resetForNext are the same machine.  Its states are the lengths of what  *)
(* it holds.                                                               *)
resetParser(byte) == IF byte = Magic0 THEN <<Magic0>> ELSE <<>>

Parse(held, byte) ==
    LET bytes == Append(held, byte)
    IN  CASE held = <<>> -> [held |-> resetParser(byte), frame |-> FALSE]
          [] Len(held) = 1 ->
               [held |-> IF byte = Magic1 THEN bytes ELSE resetParser(byte),
                frame |-> FALSE]
          [] Len(bytes) = HeaderBytes /\ HeaderWrong(bytes) ->
               [held |-> resetParser(byte), frame |-> FALSE]
          [] Len(bytes) > HeaderBytes /\ Len(bytes) = Total(bytes) ->
               IF CrcRight(bytes) THEN [held |-> <<>>, frame |-> TRUE]
               ELSE [held |-> resetParser(byte), frame |-> FALSE]
          [] OTHER -> [held |-> bytes, frame |-> FALSE]

-----------------------------------------------------------------------------
(* The master's USB candidate: resynchroniseUsbCandidate looks for the     *)
(* next magic bytes in what it holds and goes on from there.               *)
NoCandidate == [bytes |-> <<>>, expected |-> 0]

From(bytes, index) == SubSeq(bytes, index, Len(bytes))

resynchroniseUsbCandidate(bytes) ==
    LET starts == {i \in 2..(Len(bytes) - 1) :
                     /\ bytes[i] = Magic0 /\ bytes[i + 1] = Magic1
                     /\ Len(bytes) - i + 1 >= HeaderBytes =>
                          ~HeaderWrong(From(bytes, i))}
        rest == From(bytes, CHOOSE i \in starts : \A j \in starts : i <= j)
    IN  IF starts # {}
        THEN [bytes |-> rest,
              expected |-> IF Len(rest) >= HeaderBytes THEN Total(rest) ELSE 0]
        ELSE IF bytes # <<>> /\ Last(bytes) = Magic0
        THEN [bytes |-> <<Magic0>>, expected |-> 0]
        ELSE NoCandidate

(* consumeUsbByteFromIsr: a byte that cannot begin a frame goes to the     *)
(* console                                                                 *)
First(byte) == IF byte = Magic0 THEN [bytes |-> <<byte>>, expected |-> 0]
               ELSE NoCandidate

Consume(held, byte) ==
    LET bytes == Append(held.bytes, byte)
        expected == IF Len(bytes) = HeaderBytes THEN Total(bytes) ELSE held.expected
        Go(candidate, frame) == [held |-> candidate, frame |-> frame]
    IN  CASE held.bytes = <<>> -> Go(First(byte), FALSE)
          [] Len(held.bytes) = 1 /\ byte # Magic1 -> Go(First(byte), FALSE)
          [] Len(held.bytes) >= UsbSize ->
               Go(resynchroniseUsbCandidate(held.bytes), FALSE)
          [] Len(bytes) = HeaderBytes /\ HeaderWrong(bytes) ->
               Go(resynchroniseUsbCandidate(bytes), FALSE)
          [] expected = 0 \/ Len(bytes) < expected ->
               Go([bytes |-> bytes, expected |-> expected], FALSE)
          [] Len(bytes) >= expected /\ expected # 0 ->
               IF Len(bytes) = expected /\ CrcRight(bytes)
               THEN Go(NoCandidate, TRUE)
               ELSE Go(resynchroniseUsbCandidate(bytes), FALSE)

-----------------------------------------------------------------------------
(* FrameDecoder.consume: everything up to the next magic bytes is dropped, *)
(* a wrong header or CRC drops one byte, and the loop goes on until it     *)
(* needs more bytes.  A chunk is one byte here, so that the loop's state   *)
(* at each call is as for the shortest chunks.                             *)
Found(bytes) == {i \in 1..(Len(bytes) - 1) :
                   bytes[i] = Magic0 /\ bytes[i + 1] = Magic1}

Pass(state) ==
    LET bytes == state.held
        starts == Found(bytes)
        rest == From(bytes, CHOOSE i \in starts : \A j \in starts : i <= j)
    IN  CASE Len(bytes) < 2 -> [state EXCEPT !.done = TRUE]
          [] Len(bytes) >= 2 /\ starts = {} ->
               [state EXCEPT !.held = IF Last(bytes) = Magic0 THEN <<Magic0>> ELSE <<>>,
                             !.done = TRUE]
          [] starts # {} /\ Len(rest) < HeaderBytes ->
               [state EXCEPT !.held = rest, !.done = TRUE]
          [] starts # {} /\ Len(rest) >= HeaderBytes /\ HeaderWrong(rest) ->
               [state EXCEPT !.held = Tail(rest)]
          [] starts # {} /\ Len(rest) >= HeaderBytes /\ ~HeaderWrong(rest) ->
               IF Len(rest) < Total(rest)
               THEN [state EXCEPT !.held = rest, !.done = TRUE]
               ELSE IF CrcRight(SubSeq(rest, 1, Total(rest)))
               THEN [state EXCEPT !.held = From(rest, Total(rest) + 1),
                                  !.frames = @ + 1]
               ELSE [state EXCEPT !.held = Tail(rest)]

\* Every pass but the last drops a byte.
FrameDecoder(held, byte) ==
    LET bytes == Append(held, byte)
    IN  FoldSeq(LAMBDA x, state : IF state.done THEN state ELSE Pass(state),
                [held |-> bytes, done |-> FALSE, frames |-> 0],
                Append(bytes, byte))

-----------------------------------------------------------------------------
Missed(d, frame, ends) ==
    IF frame THEN 0 ELSE IF ends /\ missed[d] < MaxMissed THEN missed[d] + 1
    ELSE missed[d]

Feed(byte, ends) ==
    LET u == Parse(uart, byte)
        g == Parse(gateway, byte)
        c == Consume(usb, byte)
        f == FrameDecoder(companion, byte)
    IN  /\ uart' = u.held /\ gateway' = g.held /\ usb' = c.held
        /\ companion' = f.held
        /\ missed' = [uart |-> Missed("uart", u.frame, ends),
                      gateway |-> Missed("gateway", g.frame, ends),
                      usb |-> Missed("usb", c.frame, ends),
                      companion |-> missed.companion + (IF ends THEN 1 ELSE 0)
                                    - f.frames]

Noise ==
    /\ next = 0 /\ Len(noise) < MaxNoise
    /\ \E byte \in Bytes \ {Crc} :
          /\ Feed(byte, FALSE)
          /\ noise' = Append(noise, byte)
    /\ UNCHANGED next

Heartbeats ==
    /\ Feed(Heartbeat[IF next = 0 THEN 1 ELSE next], next = Len(Heartbeat))
    /\ next' = IF next = 0 THEN 2 ELSE (next % Len(Heartbeat)) + 1
    /\ UNCHANGED noise

Init ==
    /\ noise = <<>> /\ next = 0
    /\ uart = <<>> /\ gateway = <<>> /\ companion = <<>> /\ usb = NoCandidate
    /\ missed = [d \in Decoders |-> 0]

Next == Noise \/ Heartbeats

Spec == Init /\ [][Next]_vars

-----------------------------------------------------------------------------
(* A decoder loses no heartbeat after bytes that hold no two magic bytes.  *)
(* Two magic bytes alone can cost the decoders that keep nothing the first *)
(* heartbeat; a header that announces a long frame costs the heartbeats    *)
(* that fill it, and no more.                                              *)
Holds(bytes) == \E i \in 1..Len(noise) :
                  IsPrefix(bytes, SubSeq(noise, i, Len(noise)))
LongFrame == <<Magic0, Magic1, Version, Full>>
Swallowed == (MaxPayload + CrcBytes) \div Len(Heartbeat) + 1

Resynchronises ==
    \A d \in Decoders :
        missed[d] <= IF Holds(LongFrame) THEN Swallowed
                     ELSE IF Holds(<<Magic0, Magic1>>) /\ d \in {"uart", "gateway"}
                     THEN 1 ELSE 0

(* The companion keeps what a false start swallowed and looks through it   *)
(* again: every heartbeat is handed on or still held.                      *)
CompanionLosesNothing ==
    missed.companion * Len(Heartbeat) <= Len(companion)
=============================================================================
