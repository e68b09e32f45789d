------------------------------- MODULE Muxers -------------------------------
(* The container and packet formats of src/network: FlvMuxer, Fmp4Muxer,     *)
(* TsMuxer, RtpPacketizer and WebSocketFrame, as functions from an encoded   *)
(* frame to what is sent.  A NAL unit is a sequence of bytes whose first one *)
(* gives its type.  A serialized box is a sequence of fields, each with its  *)
(* width in bytes.                                                           *)
EXTENDS Integers, Sequences, SequencesExt

CONSTANTS
    NalUnits,           \* NAL units an encoder may give
    MaxNals,            \* bound: NAL units in a frame
    kMaxPayload,        \* TsMuxer: 184
    kMaxRtpPayload,     \* RtpPacketizer: 1400
    PayloadSizes,       \* bytes of a frame
    Lengths,            \* bytes of a parameter set, a tag or a message
    Stamps              \* time stamps at 90 kHz: <<t \div 2^30, t % 2^30>>

ASSUME MuxAssumption ==
    /\ kMaxPayload \in Nat /\ kMaxPayload > 8
    /\ kMaxRtpPayload \in Nat /\ kMaxRtpPayload > 2
    /\ PayloadSizes \subseteq Nat /\ Lengths \subseteq Nat
    /\ \A t \in Stamps : t[1] \in Int /\ t[2] \in 0..(2^30 - 1)
    /\ MaxNals \in Nat

VARIABLES
    frame,              \* [nals, codes]: NAL units and their start codes
    unit,               \* [size, pts, key]: an access unit by its size
    video_cc_, pat_cc_, pmt_cc_,    \* TsMuxer: continuity counters, 4 bits
    seq_,               \* RtpPacketizer: sequence number, 16 bits
    tables, tsPackets, rtpPackets   \* what the last calls gave

tsVars == <<video_cc_, pat_cc_, pmt_cc_, tables, tsPackets>>
rtpVars == <<seq_, rtpPackets>>
muxVars == <<frame, unit, tsVars, rtpVars>>

-----------------------------------------------------------------------------
(* Fields of a serialized structure: name, bytes and value; content that no *)
(* property looks at is only counted.  A value that does not fit loses its  *)
(* upper bits (no size here needs more than four bytes).                    *)
Bytes(n) == [name |-> "bytes", width |-> n, value |-> 0]
Field(name, width, value) ==
    [name |-> name, width |-> width,
     value |-> IF width < 4 THEN value % 256^width ELSE value]
Content(name, n) == [name |-> name, width |-> n, value |-> 0]

Size(fields) == FoldLeft(LAMBDA n, f : n + f.width, 0, fields)

-----------------------------------------------------------------------------
(* Annex B.                                                                 *)

StartCode(n) == [i \in 1..n |-> IF i = n THEN 1 ELSE 0]

AnnexB(f) == FlattenSeq([i \in DOMAIN f.nals |-> StartCode(f.codes[i])
                                                   \o f.nals[i]])

CodeAt(data, i, n) ==
    /\ i + n - 1 <= Len(data)
    /\ SubSeq(data, i, i + n - 1) = StartCode(n)

(* ParseAnnexB of FlvMuxer and Fmp4Muxer, from byte i on, the current unit  *)
(* having begun at `start` (0: none yet).                                   *)
RECURSIVE ParseFrom(_, _, _)
ParseFrom(data, i, start) ==
    LET ended == IF start # 0 /\ start < i THEN <<SubSeq(data, start, i - 1)>>
                 ELSE <<>>
    IN  IF i > Len(data) THEN ended
        ELSE IF CodeAt(data, i, 3) THEN ended \o ParseFrom(data, i + 3, i + 3)
        ELSE IF CodeAt(data, i, 4) THEN ended \o ParseFrom(data, i + 4, i + 4)
        ELSE ParseFrom(data, i + 1, start)

ParseAnnexB(data) == IF Len(data) < 4 THEN <<>> ELSE ParseFrom(data, 1, 0)

(* FindNalUnits of RtpPacketizer: the first start code, ...                 *)
RECURSIVE FirstUnit(_, _)
FirstUnit(data, i) ==
    IF i + 3 > Len(data) THEN i
    ELSE IF CodeAt(data, i, 3) THEN i + 3
    ELSE IF CodeAt(data, i, 4) THEN i + 4
    ELSE FirstUnit(data, i + 1)

(* ... then one unit after the other, empty ones too.                       *)
RECURSIVE UnitsFrom(_, _, _)
UnitsFrom(data, i, start) ==
    IF i + 2 > Len(data)
    THEN IF start <= Len(data) THEN <<SubSeq(data, start, Len(data))>> ELSE <<>>
    ELSE LET n == IF CodeAt(data, i, 3) THEN 3
                  ELSE IF CodeAt(data, i, 4) THEN 4 ELSE 0
         IN  IF n = 0 THEN UnitsFrom(data, i + 1, start)
             ELSE <<SubSeq(data, start, i - 1)>>
                    \o UnitsFrom(data, i + n, i + n)

FindNalUnits(data) ==
    LET i == FirstUnit(data, 1)
    IN  IF i > Len(data) THEN <<>> ELSE UnitsFrom(data, i, i)

H264NalType(header) == header % 32

IsParams(nal) == H264NalType(nal[1]) \in {7, 8}

(* ExtractSpsPps and ExtractH264Params: the first unit of each type.        *)
ExtractParams(data) ==
    [type \in {7, 8} |->
        LET found == SelectSeq(ParseAnnexB(data),
                               LAMBDA u : H264NalType(u[1]) = type)
        IN  IF found = <<>> THEN <<>> ELSE found[1]]

(* AnnexBToAvcc and AnnexBToMp4: each unit after its length, without the    *)
(* parameter sets.                                                          *)
AnnexBToMp4(data) ==
    LET slices == SelectSeq(ParseAnnexB(data), LAMBDA u : ~IsParams(u))
    IN  [i \in DOMAIN slices |-> [length |-> Len(slices[i]), nal |-> slices[i]]]

-----------------------------------------------------------------------------
(* TsMuxer.                                                                 *)

PesHeaderSize == 14

(* The bytes of the adaptation field of the first packet of a keyframe: the *)
(* length, the flags and, unless the stamp is negative, the PCR.  The       *)
(* payload gets the rest of the packet.                                     *)
Negative(pts) == pts[1] < 0
AdaptationField(first, key, pts) ==
    IF ~(first /\ key) THEN 0 ELSE IF Negative(pts) THEN 2 ELSE 8

(* Mutant: the field is not taken off the payload.                          *)
PayloadRoomWhole(field) == kMaxPayload

PayloadRoom(field) == kMaxPayload - field

(* PacketizePayload from an offset on.  A short packet is stuffed, in a     *)
(* field of its own if it has none: length is adaptation_field_length, -1   *)
(* without a field, and at the byte of the packet where the payload begins. *)
RECURSIVE PacketizePayload(_, _, _)
PacketizePayload(u, offset, cc) ==
    LET size == PesHeaderSize + u.size
        field == AdaptationField(offset = 0, u.key, u.pts)
        room == PayloadRoom(field)
        copied == IF size - offset < room THEN size - offset ELSE room
        adaptation == field + (room - copied)
    IN  IF offset >= size THEN <<>>
        ELSE <<[pusi |-> offset = 0, cc |-> cc, from |-> offset,
                copied |-> copied, length |-> adaptation - 1,
                at |-> 4 + adaptation]>>
             \o PacketizePayload(u, offset + copied, (cc + 1) % 16)

(* BuildPesHeader: 33 bits of the stamp, as unsigned, and their markers.    *)
PesStamp(pts) ==
    LET shift(n) == (pts[2] \div 2^n) % 256
    IN  << 32 + (pts[1] % 8) * 2 + 1,
           shift(22), (shift(14) \div 2) * 2 + 1, shift(7),
           ((pts[2] * 2) % 256) + 1 >>

(* The six bytes of the PCR, with its reserved bits and no extension.       *)
Pcr(pts) ==
    << (pts[1] % 8) * 32 + pts[2] \div 2^25, (pts[2] \div 2^17) % 256,
       (pts[2] \div 2^9) % 256, (pts[2] \div 2) % 256,
       (pts[2] % 2) * 128 + 126, 0 >>

(* How a receiver reads them.                                               *)
ReadStamp(b) ==
    << (b[1] % 16) \div 2,
       b[2] * 2^22 + (b[3] \div 2) * 2^15 + b[4] * 2^7 + (b[5] \div 2) >>
ReadPcr(b) ==
    << b[1] \div 32,
       (b[1] % 32) * 2^25 + b[2] * 2^17 + b[3] * 2^9 + b[4] * 2
          + b[5] \div 128 >>

(* An access unit; keyframes carry the PCR.                                 *)
WriteAccessUnit ==
    /\ unit.size > 0 /\ tsPackets = <<>>
    /\ tsPackets' = PacketizePayload(unit, 0, video_cc_)
    /\ video_cc_' = (video_cc_ + Len(tsPackets')) % 16
    /\ UNCHANGED <<frame, unit, pat_cc_, pmt_cc_, tables, rtpVars>>

(* The fields of a table and its bytes after section_length, the CRC among  *)
(* them.                                                                    *)
PatSection == <<Bytes(1), Bytes(1), Field("section_length", 2, 13), Bytes(2),
                Bytes(1), Bytes(2), Bytes(2), Bytes(2), Bytes(4)>>
PmtSection == <<Bytes(1), Bytes(1), Field("section_length", 2, 18), Bytes(2),
                Bytes(1), Bytes(2), Bytes(2), Bytes(2), Bytes(5), Bytes(4)>>

(* HlsService writes both at the beginning of a segment.                    *)
WritePsiTables ==
    /\ unit.size > 0 /\ unit.key /\ tables = <<>> /\ tsPackets = <<>>
    /\ pat_cc_' = (pat_cc_ + 1) % 16
    /\ pmt_cc_' = (pmt_cc_ + 1) % 16
    /\ tables' = <<[cc |-> pat_cc_, section |-> PatSection],
                   [cc |-> pmt_cc_, section |-> PmtSection]>>
    /\ UNCHANGED <<frame, unit, video_cc_, tsPackets, rtpVars>>

(* TsMuxer::Reset.                                                          *)
ResetMuxer ==
    /\ tsPackets # <<>>
    /\ video_cc_' = 0 /\ pat_cc_' = 0 /\ pmt_cc_' = 0
    /\ tsPackets' = <<>> /\ tables' = <<>>
    /\ UNCHANGED <<frame, unit, rtpVars>>

-----------------------------------------------------------------------------
(* RtpPacketizer.                                                           *)

Packet(seq, payload, marker) ==
    [seq |-> seq % 65536, payload |-> payload, marker |-> marker]

(* FU-A: indicator with the NRI bits, header with type, start and end bit.  *)
RECURSIVE Fragments(_, _, _, _)
Fragments(nal, from, seq, marker) ==
    LET left == Len(nal) - from + 1
        chunk == IF left < kMaxRtpPayload - 2 THEN left ELSE kMaxRtpPayload - 2
        last == chunk = left
        indicator == ((nal[1] \div 32) % 4) * 32 + 28
        header == (nal[1] % 32) + (IF from = 2 THEN 128 ELSE 0)
                                + (IF last THEN 64 ELSE 0)
    IN  IF left <= 0 THEN <<>>
        ELSE <<Packet(seq, <<indicator, header>>
                             \o SubSeq(nal, from, from + chunk - 1),
                      last /\ marker)>>
             \o Fragments(nal, from + chunk, seq + 1, marker)

PacketizeH264Nal(nal, seq, marker) ==
    IF nal = <<>> THEN <<>>
    ELSE IF Len(nal) <= kMaxRtpPayload THEN <<Packet(seq, nal, marker)>>
    ELSE Fragments(nal, 2, seq, marker)

RECURSIVE PacketizeAll(_, _)
PacketizeAll(nals, seq) ==
    IF nals = <<>> THEN <<>>
    ELSE LET packets == PacketizeH264Nal(nals[1], seq, Len(nals) = 1)
         IN  packets \o PacketizeAll(Tail(nals), seq + Len(packets))

Packetize ==
    /\ frame.nals # <<>> /\ rtpPackets = <<>>
    /\ rtpPackets' = PacketizeAll(FindNalUnits(AnnexB(frame)), seq_)
    /\ seq_' = (seq_ + Len(rtpPackets')) % 65536
    /\ UNCHANGED <<frame, unit, tsVars>>

(* How a receiver puts the units together again.                            *)
RECURSIVE Reassemble(_, _)
Reassemble(packets, nal) ==
    IF packets = <<>> THEN <<>>
    ELSE LET p == packets[1].payload
             body == SubSeq(p, 3, Len(p))
             begun == (p[1] \div 32) * 32 + (p[2] % 32)
         IN  IF p[1] % 32 # 28 THEN <<p>> \o Reassemble(Tail(packets), <<>>)
             ELSE LET all == (IF p[2] >= 128 THEN <<begun>> ELSE nal) \o body
                  IN  IF p[2] % 128 >= 64
                      THEN <<all>> \o Reassemble(Tail(packets), <<>>)
                      ELSE Reassemble(Tail(packets), all)

-----------------------------------------------------------------------------
(* WebSocketFrame: the length byte and the extended length.                 *)

BuildTextFrame(n) ==
    IF n < 126 THEN <<n, 0>> ELSE IF n <= 65535 THEN <<126, n>> ELSE <<127, n>>

(* No 64-bit length: the upper bits of a longer one are lost.               *)
BuildPongFrame(n) == IF n < 126 THEN <<n, 0>> ELSE <<126, n % 65536>>

(* ParseFrame: bytes consumed, 0 while the frame is not complete.           *)
ParseFrame(len, masked, available) ==
    LET pos == (IF len[1] = 126 THEN 4 ELSE IF len[1] = 127 THEN 10 ELSE 2)
               + (IF masked THEN 4 ELSE 0)
        payload == IF len[1] < 126 THEN len[1] ELSE len[2]
    IN  IF available < pos + payload THEN 0 ELSE pos + payload

-----------------------------------------------------------------------------
(* Fmp4Muxer: boxes.                                                        *)

MakeBox(type, payload) ==
    <<Field("size", 4, 8 + Size(payload)), Content(type, 4)>> \o payload
MakeFullBox(type, payload) == MakeBox(type, <<Bytes(4)>> \o payload)

MakeFtyp == MakeBox("ftyp", <<Bytes(4), Bytes(4), Bytes(16)>>)
MakeMvhd == MakeFullBox("mvhd", <<Bytes(16), Bytes(16), Bytes(36), Bytes(24),
                                  Bytes(4)>>)
MakeTkhd == MakeFullBox("tkhd", <<Bytes(20), Bytes(8), Bytes(8), Bytes(36),
                                  Bytes(8)>>)
MakeMdhd == MakeFullBox("mdhd", <<Bytes(16), Bytes(4)>>)
MakeHdlr == MakeFullBox("hdlr", <<Bytes(8), Bytes(12), Bytes(13)>>)
MakeVmhd == MakeFullBox("vmhd", <<Bytes(8)>>)
MakeDinf == MakeBox("dinf", MakeFullBox("dref", <<Bytes(4)>>
                                          \o MakeFullBox("url ", <<>>)))
MakeStbl(stsd) ==
    MakeBox("stbl", stsd \o MakeFullBox("stts", <<Bytes(4)>>)
                         \o MakeFullBox("stsc", <<Bytes(4)>>)
                         \o MakeFullBox("stsz", <<Bytes(8)>>)
                         \o MakeFullBox("stco", <<Bytes(4)>>))
MakeMinf(stsd) == MakeBox("minf", MakeVmhd \o MakeDinf \o MakeStbl(stsd))
MakeMdia(stsd) == MakeBox("mdia", MakeMdhd \o MakeHdlr \o MakeMinf(stsd))
MakeTrak(stsd) == MakeBox("trak", MakeTkhd \o MakeMdia(stsd))
MakeMvex == MakeBox("mvex", MakeFullBox("trex", <<Bytes(20)>>))
MakeMoov(stsd) == MakeBox("moov", MakeMvhd \o MakeTrak(stsd) \o MakeMvex)

(* A parameter set of n bytes after its length.                             *)
Prefixed(n) == <<Field("length", 2, n), Content("set", n)>>

MakeAvcC(sps, pps) ==
    MakeBox("avcC", <<Bytes(5), Bytes(1)>> \o Prefixed(sps) \o <<Bytes(1)>>
                      \o Prefixed(pps))
MakeAvc1Stsd(sps, pps) ==
    MakeFullBox("stsd", <<Bytes(4)>> \o MakeBox("avc1",
        <<Bytes(8), Bytes(16), Bytes(4), Bytes(8), Bytes(6), Bytes(32),
          Bytes(4)>> \o MakeAvcC(sps, pps)))
MakeHvcC(vps, sps, pps) ==
    MakeBox("hvcC", <<Bytes(13), Bytes(6), Bytes(4)>>
                      \o <<Bytes(3)>> \o Prefixed(vps)
                      \o <<Bytes(3)>> \o Prefixed(sps)
                      \o <<Bytes(3)>> \o Prefixed(pps))
MakeHev1Stsd(vps, sps, pps) ==
    MakeFullBox("stsd", <<Bytes(4)>> \o MakeBox("hev1",
        <<Bytes(8), Bytes(16), Bytes(4), Bytes(8), Bytes(6), Bytes(32),
          Bytes(4)>> \o MakeHvcC(vps, sps, pps)))

(* Empty without usable parameter sets; sps and pps are their sizes.        *)
MakeH264InitSegment(sps, pps) ==
    IF sps < 4 \/ pps = 0 THEN <<>>
    ELSE MakeFtyp \o MakeMoov(MakeAvc1Stsd(sps, pps))
MakeH265InitSegment(vps, sps, pps) ==
    IF vps = 0 \/ sps = 0 \/ pps = 0 THEN <<>>
    ELSE MakeFtyp \o MakeMoov(MakeHev1Stsd(vps, sps, pps))

(* The bytes before the field at byte offset `at` is written.               *)
RECURSIVE PutAt(_, _, _)
PutAt(fields, at, value) ==
    IF at = 0 THEN <<[fields[1] EXCEPT !.value = value]>> \o Tail(fields)
    ELSE IF at < fields[1].width THEN fields
    ELSE <<fields[1]>> \o PutAt(Tail(fields), at - fields[1].width, value)

Mfhd == MakeFullBox("mfhd", <<Bytes(4)>>)
Tfhd == MakeFullBox("tfhd", <<Bytes(4)>>)
Tfdt == MakeFullBox("tfdt", <<Bytes(8)>>)

(* Where MakeMoof expects the data_offset of the trun in the moof.          *)
OffsetInMoof == 8 + Size(Mfhd) + 8 + Size(Tfhd) + Size(Tfdt) + 8 + 4 + 4

(* The offset is known only when the moof is assembled, and put in then.    *)
MakeMoof(sample_size) ==
    LET trun == MakeFullBox("trun",
                  <<Field("sample_count", 4, 1), Field("data_offset", 4, 0),
                    Bytes(4), Field("sample_size", 4, sample_size), Bytes(4)>>)
        moof == MakeBox("moof", Mfhd \o MakeBox("traf", Tfhd \o Tfdt \o trun))
    IN  PutAt(moof, OffsetInMoof, Size(moof) + 8)

SampleSize(sample) == FoldLeft(LAMBDA n, u : n + 4 + u.length, 0, sample)

(* Nothing when the frame has only parameter sets.                          *)
MakeMediaSegment(data) ==
    LET n == SampleSize(AnnexBToMp4(data))
    IN  IF n = 0 THEN <<>>
        ELSE MakeMoof(n) \o MakeBox("mdat", <<Content("sample", n)>>)

-----------------------------------------------------------------------------
(* FlvMuxer: tags, with the size of the tag after each.                     *)

BuildFlvTag(body) ==
    <<Bytes(1), Field("DataSize", 3, Size(body)), Bytes(7)>> \o body
      \o <<Field("PreviousTagSize", 4, 11 + Size(body))>>

MakeSequenceHeaderTag(sps, pps) ==
    IF sps < 4 \/ pps = 0 THEN <<>>
    ELSE BuildFlvTag(<<Bytes(5), Bytes(5), Bytes(1)>> \o Prefixed(sps)
                       \o <<Bytes(1)>> \o Prefixed(pps))

MakeVideoTag(data) ==
    LET n == SampleSize(AnnexBToMp4(data))
    IN  IF n = 0 THEN <<>> ELSE BuildFlvTag(<<Bytes(5), Content("sample", n)>>)

MakeEndOfSequenceTag == BuildFlvTag(<<Bytes(5)>>)

-----------------------------------------------------------------------------
MuxNext == WritePsiTables \/ WriteAccessUnit \/ ResetMuxer \/ Packetize

(* A frame of NAL units or an access unit of a size, and counters about to  *)
(* wrap.                                                                    *)
NoFrame == [nals |-> <<>>, codes |-> <<>>]
NoUnit == [size |-> 0, pts |-> <<0, 0>>, key |-> FALSE]
FrameInputs ==
    UNION {[nals : [1..n -> NalUnits], codes : [1..n -> {3, 4}]] :
              n \in 1..MaxNals}
UnitInputs == [size : PayloadSizes, pts : Stamps, key : BOOLEAN]

MuxInit ==
    /\ \/ /\ frame \in FrameInputs /\ unit = NoUnit
          /\ seq_ \in {0, 65535} /\ video_cc_ = 0
       \/ /\ frame = NoFrame /\ unit \in UnitInputs
          /\ seq_ = 0 /\ video_cc_ \in {0, 14}
    /\ pat_cc_ = 0 /\ pmt_cc_ = 0
    /\ tables = <<>> /\ tsPackets = <<>> /\ rtpPackets = <<>>

(* What is packetized can be read back as it was, across the wrap of the    *)
(* counters.                                                                *)
PacketsLossless ==
    /\ frame.nals # <<>> => ParseAnnexB(AnnexB(frame)) = frame.nals
    /\ rtpPackets # <<>> =>
         /\ Reassemble(rtpPackets, <<>>) = frame.nals
         /\ \A i \in DOMAIN rtpPackets :
               /\ Len(rtpPackets[i].payload) <= kMaxRtpPayload
               /\ rtpPackets[i].marker <=> i = Len(rtpPackets)
               /\ i > 1 => rtpPackets[i].seq = (rtpPackets[i-1].seq + 1) % 65536
         /\ seq_ = (rtpPackets[Len(rtpPackets)].seq + 1) % 65536
    /\ tsPackets # <<>> =>
         /\ \A i \in DOMAIN tsPackets :
               /\ tsPackets[i].at = 5 + tsPackets[i].length
               /\ tsPackets[i].at + tsPackets[i].copied = 4 + kMaxPayload
               /\ i = 1 /\ unit.key =>
                     tsPackets[i].length >= IF Negative(unit.pts) THEN 1 ELSE 7
               /\ tsPackets[i].pusi <=> i = 1
               /\ i > 1 => /\ tsPackets[i].cc = (tsPackets[i-1].cc + 1) % 16
                           /\ tsPackets[i].from = tsPackets[i-1].from
                                                    + tsPackets[i-1].copied
         /\ LET end == tsPackets[Len(tsPackets)]
            IN  /\ end.from + end.copied = PesHeaderSize + unit.size
                /\ video_cc_ = (end.cc + 1) % 16
    /\ LET sent == <<unit.pts[1] % 8, unit.pts[2]>>
       IN  ReadStamp(PesStamp(unit.pts)) = sent /\ ReadPcr(Pcr(unit.pts)) = sent

(* A frame of n bytes with this length is taken off a buffer that holds it  *)
(* and something after it, and not before it is complete.                   *)
ReadAsWritten(length, n) ==
    \A masked \in BOOLEAN :
        LET header == (IF length[1] = 126 THEN 4
                       ELSE IF length[1] = 127 THEN 10 ELSE 2)
                      + (IF masked THEN 4 ELSE 0)
        IN  /\ ParseFrame(length, masked, header + n + 1) = header + n
            /\ ParseFrame(length, masked, header + n) = header + n
            /\ ParseFrame(length, masked, header + n - 1) = 0

(* The boxes that a box of this type contains begin after so many bytes.    *)
ContainerSkip(type) ==
    CASE type \in {"moov", "trak", "mdia", "minf", "dinf", "stbl", "mvex",
                   "moof", "traf"} -> 0
      [] type \in {"dref", "stsd"} -> 8
      [] type \in {"avc1", "hev1"} -> 78
      [] OTHER -> -1

RECURSIVE Skip(_, _)
Skip(fields, n) ==
    IF n <= 0 THEN fields ELSE Skip(Tail(fields), n - fields[1].width)

RECURSIVE Nests(_)
Nests(fields) ==
    IF fields = <<>> THEN TRUE
    ELSE LET after == Skip(fields, fields[1].value)
             own == SubSeq(fields, 3, Len(fields) - Len(after))
         IN  /\ fields[1].name = "size"
             /\ Size(fields) - Size(after) = fields[1].value
             /\ ContainerSkip(fields[2].name) >= 0 =>
                   Nests(Skip(own, ContainerSkip(fields[2].name)))
             /\ Nests(after)

(* The size after a tag leads back to its first byte, and DataSize leads to *)
(* the size.                                                                *)
TagFits(tag) ==
    tag # <<>> => /\ tag[2].value = Size(tag) - 15
                  /\ tag[Len(tag)].value = Size(tag) - 4

(* Every parameter set is as long as the field before it says.              *)
SetsFit(fields) ==
    \A i \in DOMAIN fields :
        fields[i].name = "set" => fields[i - 1].value = fields[i].width

(* The sizes and offsets that the formats write are those of their parts.   *)
BoxesNest ==
    /\ \A i \in DOMAIN tables :
          tables[i].section[3].value = Size(tables[i].section) - 4
    /\ frame.nals # <<>> =>
      LET params == ExtractParams(AnnexB(frame))
          sps == Len(params[7])
          pps == Len(params[8])
          media == MakeMediaSegment(AnnexB(frame))
          offset == {i \in DOMAIN media : media[i].name = "data_offset"}
          sample == {i \in DOMAIN media : media[i].name = "sample"}
      IN  /\ \A init \in {MakeH264InitSegment(sps, pps),
                            MakeH265InitSegment(sps, sps, pps)} :
                Nests(init) /\ SetsFit(init)
          /\ Nests(media)
          /\ \A i \in offset, j \in sample :
                media[i].value = Size(SubSeq(media, 1, j - 1))
          /\ TagFits(MakeSequenceHeaderTag(sps, pps))
          /\ SetsFit(MakeSequenceHeaderTag(sps, pps))
          /\ TagFits(MakeVideoTag(AnnexB(frame)))
          /\ TagFits(MakeEndOfSequenceTag)

(* Where the length fields end: a text message has no limit, a pong ends at *)
(* 65535 bytes, a parameter set too, and an FLV tag at 24 bits, although no *)
(* writer tests its length.                                                 *)
LengthsSound ==
    \A n \in Lengths :
        /\ ReadAsWritten(BuildTextFrame(n), n)
        /\ ReadAsWritten(BuildPongFrame(n), n) <=> n <= 65535
        /\ \A init \in {MakeH264InitSegment(n, 4), MakeH264InitSegment(4, n),
                         MakeH265InitSegment(4, n, 4)} :
              Nests(init) /\ (SetsFit(init) <=> init = <<>> \/ n <= 65535)
        /\ LET tag == MakeSequenceHeaderTag(n, 4)
           IN  SetsFit(tag) <=> tag = <<>> \/ n <= 65535
        /\ \A tag \in {BuildFlvTag(<<Content("sample", n)>>),
                       MakeSequenceHeaderTag(n, 4)} :
              /\ TagFits(tag) <=> tag = <<>> \/ Size(tag) - 15 < 2^24

(* Every format can be read back.  Every parser of Annex B finds exactly    *)
(* the NAL units the encoder gave, whatever the mix of start codes.  RTP    *)
(* packets fit, are numbered in sequence, give back the NAL units and mark  *)
(* the last of a frame; TS packets are full, continuous and carry every     *)
(* byte once, with an adaptation field of the length they say; 33 bits of a *)
(* time stamp survive in the PES header and in the PCR, negative ones and   *)
(* the wrap too.  Init and media segments are boxes that nest exactly, with *)
(* data_offset where the sample begins; FLV tags fit together; the          *)
(* section_length of PAT and PMT covers their rest.  Lengths are read as    *)
(* written, exactly as far as their fields reach.                           *)
FormatsSound == PacketsLossless /\ BoxesNest /\ LengthsSound
=============================================================================
