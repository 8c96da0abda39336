--------------------------- MODULE MapExtraction ---------------------------
(***************************************************************************)
(* MapPacketExtraction: the MAP channel behind the FARM-1 machine puts     *)
(* segmented space packets together again, unpacks blocked ones and        *)
(* forwards each through the TC store to the packet distributor.           *)
(*                                                                         *)
(* A packet is known by its number; a portion of its data by the packet's  *)
(* number and its own.  The frames come in the order the ground sent them: *)
(* on the sequence-controlled service all of them (module Cop1), on the    *)
(* bypass service with gaps.                                               *)
(***************************************************************************)
EXTENDS Integers, Sequences, FiniteSets, SequencesExt

CONSTANTS
    MaxPacketSize,  \* MAX_PACKET_SIZE, the size of packetBuffer
    Shapes,         \* segmented packets the ground sends: sequences of portion sizes
    BlockSizes,     \* how many packets a frame without segmentation yields
    MaxPackets      \* bound: packets the ground ever sends

ASSUME MapAssumption ==
    /\ MaxPacketSize \in Nat /\ MaxPackets \in Nat
    /\ \A s \in Shapes : s \in Seq(Nat) /\ Len(s) > 1
    /\ BlockSizes \subseteq Nat

VARIABLES
    lastSegmentationFlag,
    packetLength,
    packetBuffer,   \* the portions copied to the buffer, up to bufferPosition
    forwarded,      \* packets given to the distributor, each as its portions
    dropped,        \* packets the store or the distributor's queue refused
    sent,           \* the packets the ground has begun to send, as portion sizes
    portion,        \* portions of the last of them sent so far
    bypass          \* whether the ground sends BD frames, which may be missing

channelVars == <<lastSegmentationFlag, packetLength, packetBuffer, forwarded, dropped>>
senderVars == <<sent, portion, bypass>>
extractionVars == <<channelVars, senderVars>>

SegmentationFlags == {"NO_SEGMENTATION", "FIRST_PORTION", "CONTINUING_PORTION", "LAST_PORTION"}

MapInit ==
    /\ lastSegmentationFlag = "NO_SEGMENTATION"
    /\ packetLength = 0
    /\ packetBuffer = <<>>
    /\ forwarded = <<>> /\ dropped = {}
    /\ sent = <<>> /\ portion = 0 /\ bypass \in BOOLEAN

Portion(p, k) == [packet |-> p, portion |-> k]

-----------------------------------------------------------------------------
\* clearBuffers also resets lastSegmentationFlag, but extractPackets assigns
\* that member once more before it returns.
clearBuffers == packetLength' = 0 /\ packetBuffer' = <<>>

(* sendCompletePacket puts the packet in the store and a message in the      *)
(* distributor's queue.  Either may be full; extractPackets then reports OK   *)
(* all the same and the packet is gone.                                       *)
sendCompletePacket(portions) ==
    \/ forwarded' = Append(forwarded, portions) /\ UNCHANGED dropped
    \/ dropped' = dropped \cup {Last(portions).packet} /\ UNCHANGED forwarded

FirstPortion(data, size) ==
    /\ lastSegmentationFlag' = "FIRST_PORTION"
    /\ \/ /\ size <= MaxPacketSize
          /\ packetLength' = size
          /\ packetBuffer' = <<data>>
       \/ size > MaxPacketSize /\ clearBuffers
    /\ UNCHANGED <<forwarded, dropped>>

ExpectsMore == lastSegmentationFlag \in {"FIRST_PORTION", "CONTINUING_PORTION"}

\* Slips: bufferPosition is not advanced, so that the next portion overwrites
\* this one; the room in the buffer is checked with the old length only.
SlipStorePortion(data, size) ==
    /\ ExpectsMore /\ packetLength + size <= MaxPacketSize
    /\ lastSegmentationFlag' = "CONTINUING_PORTION"
    /\ packetLength' = packetLength + size
    /\ packetBuffer' = <<data>>
    /\ UNCHANGED <<forwarded, dropped>>

SlipStoreUnchecked(data, size) ==
    /\ ExpectsMore /\ packetLength <= MaxPacketSize
    /\ lastSegmentationFlag' = "CONTINUING_PORTION"
    /\ packetLength' = packetLength + size
    /\ packetBuffer' = Append(packetBuffer, data)
    /\ UNCHANGED <<forwarded, dropped>>

StorePortion(data, size) ==
    /\ ExpectsMore /\ packetLength + size <= MaxPacketSize
    /\ lastSegmentationFlag' = "CONTINUING_PORTION"
    /\ packetLength' = packetLength + size
    /\ packetBuffer' = Append(packetBuffer, data)
    /\ UNCHANGED <<forwarded, dropped>>

\* Slip: the buffer is not cleared after the packet, and another last portion
\* is accepted.
SlipCompletePacket(data, size) ==
    /\ ExpectsMore /\ packetLength + size <= MaxPacketSize
    /\ lastSegmentationFlag' = "CONTINUING_PORTION"
    /\ sendCompletePacket(Append(packetBuffer, data))
    /\ UNCHANGED <<packetLength, packetBuffer>>

CompletePacket(data, size) ==
    /\ ExpectsMore /\ packetLength + size <= MaxPacketSize
    /\ lastSegmentationFlag' = "LAST_PORTION"
    /\ sendCompletePacket(Append(packetBuffer, data))
    /\ clearBuffers

\* A portion that does not fit, or one without a beginning.
RefusePortion(flag, size) ==
    /\ ~ExpectsMore \/ packetLength + size > MaxPacketSize
    /\ lastSegmentationFlag' = flag
    /\ clearBuffers
    /\ UNCHANGED <<forwarded, dropped>>

\* The ways to pick packets of a block, in the order of the block.
Selections(block) ==
    UNION { { s \in [1..n -> block] : \A i, j \in 1..n : i < j => s[i] < s[j] } : n \in 0..Cardinality(block) }

\* unpackBlockingPackets on the packets of a frame: each is sent on its own,
\* and the store or the queue may refuse any of them.  Residual or corrupt
\* data behind them, or in place of them, is not forwarded.
unpackBlockingPackets(block) ==
    /\ lastSegmentationFlag' = "NO_SEGMENTATION"
    /\ \E kept \in Selections(block) :
          /\ dropped' = dropped \cup (block \ Range(kept))
          /\ forwarded' = forwarded \o [k \in DOMAIN kept |-> <<Portion(kept[k], 1)>>]
    /\ UNCHANGED <<packetLength, packetBuffer>>

-----------------------------------------------------------------------------
(* The frames, in the order they are sent.  One that does not arrive leaves  *)
(* the MAP channel as it was.                                                *)

Current == Len(sent)
PortionsToSend == IF sent = <<>> THEN 0 ELSE Len(Last(sent))
Idle == portion = PortionsToSend

BeginPacket(shape) ==
    /\ Idle /\ Current < MaxPackets
    /\ sent' = Append(sent, shape) /\ portion' = 0
    /\ UNCHANGED <<channelVars, bypass>>

BlockedFrame(n) ==
    /\ Idle /\ Current + n <= MaxPackets
    /\ sent' = sent \o [k \in 1..n |-> <<1>>]
    /\ portion' = IF n = 0 THEN portion ELSE 1
    /\ unpackBlockingPackets((Current + 1)..(Current + n))
    /\ UNCHANGED bypass

SegmentFrame ==
    /\ ~Idle
    /\ portion' = portion + 1
    /\ LET data == Portion(Current, portion')
           size == Last(sent)[portion']
           last == PortionsToSend
       IN  \/ portion' = 1 /\ FirstPortion(data, size)
           \/ portion' \in 2..(last - 1) /\ StorePortion(data, size)
           \/ portion' \in 2..(last - 1) /\ RefusePortion("CONTINUING_PORTION", size)
           \/ portion' = last /\ CompletePacket(data, size)
           \/ portion' = last /\ RefusePortion("LAST_PORTION", size)
    /\ UNCHANGED <<sent, bypass>>

MissingFrame ==
    /\ bypass /\ ~Idle
    /\ portion' = portion + 1
    /\ UNCHANGED <<channelVars, sent, bypass>>

MapNext ==
    \/ \E s \in Shapes : BeginPacket(s)
    \/ \E n \in BlockSizes : BlockedFrame(n)
    \/ SegmentFrame
    \/ MissingFrame

MapSpec == MapInit /\ [][MapNext]_extractionVars

-----------------------------------------------------------------------------
SizeOf(data) == sent[data.packet][data.portion]
Whole(p) == [k \in 1..Len(sent[p]) |-> Portion(p, k)]

Total(sizes) ==
    LET upTo[n \in 0..Len(sizes)] == IF n = 0 THEN 0 ELSE upTo[n - 1] + sizes[n]
    IN  upTo[Len(sizes)]

SizeOfAll(portions) == Total([k \in 1..Len(portions) |-> SizeOf(portions[k])])
Fits(p) == SizeOfAll(Whole(p)) <= MaxPacketSize

Precedes(d, e) ==
    \/ d.packet < e.packet
    \/ d.packet = e.packet /\ d.portion < e.portion

PortionsOf == [packet : Nat, portion : Nat]

MapTypeOK ==
    /\ lastSegmentationFlag \in SegmentationFlags /\ packetLength \in Nat
    /\ packetBuffer \in Seq(PortionsOf) /\ forwarded \in Seq(Seq(PortionsOf))
    /\ sent \in Seq(Seq(Nat)) /\ Len(sent) <= MaxPackets
    /\ portion \in 0..PortionsToSend /\ bypass \in BOOLEAN
    /\ dropped \subseteq 1..Len(sent)

(* Whatever comes in, however large and whatever is missing before it, the    *)
(* data copied to packetBuffer stays inside it, and packetLength is what has  *)
(* been copied, so that bufferPosition is where the next portion belongs.     *)
BufferInBounds ==
    /\ packetLength <= MaxPacketSize
    /\ packetLength = SizeOfAll(packetBuffer)

(* No portion is forwarded twice or before an older one, with frames missing  *)
(* and packets refused half-way.                                              *)
PortionsOnceInOrder ==
    \A i, j \in DOMAIN forwarded : \A k \in DOMAIN forwarded[i], l \in DOMAIN forwarded[j] :
        i < j \/ (i = j /\ k < l) => Precedes(forwarded[i][k], forwarded[j][l])

(* When no frame is missing, each packet that fits the buffer is, between     *)
(* packets, either forwarded whole or refused by the store or the queue, also *)
(* when packets before it did not fit and were broken off.                    *)
FittingPacketsAccounted ==
    Idle /\ ~bypass => \A p \in DOMAIN sent : Fits(p) =>
        (Whole(p) \in Range(forwarded)) # (p \in dropped)
=============================================================================
