-------------------------------- MODULE Decoder --------------------------------
(***************************************************************************)
(* What avcodec_send_packet() and avcodec_receive_frame() do with the      *)
(* packets and frames an AVCodecContext holds (libavcodec/decode.c), for   *)
(* decoders that are not draining, not threaded and not of the             *)
(* receive_frame kind.  A packet is the sequence of the frames its decoder *)
(* gets out of it, with Corrupt(f) where a call of the decoder fails.      *)
(***************************************************************************)
EXTENDS Integers, Sequences

CONSTANT Corrupt(_)   \* a "frame" that stands for an error of the decoder

\* slot: bsf->buffer_pkt, in which a sent packet waits (a sequence of one
\* packet or none); rest: the frames still to decode from in_pkt; out:
\* buffer_frame, a frame decoded ahead by avcodec_send_packet() (one or none).
Context(slot, rest, out) == [slot |-> slot, rest |-> rest, out |-> out]

NewContext == Context(<<>>, <<>>, <<>>)

OK == "0"
EAGAIN == "AVERROR(EAGAIN)"
INVALIDDATA == "AVERROR_INVALIDDATA"

\* Every call returns its result, the context it leaves and the frame (one or
\* none) it gives.
Return(ret, codec, frame) == [ret |-> ret, codec |-> codec, frame |-> frame]

\* Mutant of DecodeFrom: the decoder's result is not checked.
DecodeFromUnchecked(slot, pkt, out) ==
  Return(OK, Context(slot, Tail(pkt), out), <<Head(pkt)>>)

\* One call of the decoder on in_pkt = pkt: an error drops the rest of the packet.
DecodeFrom(slot, pkt, out) ==
  IF Corrupt(Head(pkt))
  THEN Return(INVALIDDATA, Context(slot, <<>>, out), <<>>)
  ELSE Return(OK, Context(slot, Tail(pkt), out), <<Head(pkt)>>)

\* decode_receive_frame_internal(): go on with in_pkt, else take the packet
\* that waits; a packet without frames is consumed and nothing is left to do.
DecodeNext(slot, rest, out) ==
  LET nothing == slot = <<>> \/ Head(slot) = <<>>
  IN  CASE rest # <<>> -> DecodeFrom(slot, rest, out)
        [] rest = <<>> /\ nothing -> Return(EAGAIN, Context(<<>>, <<>>, out), <<>>)
        [] rest = <<>> /\ ~nothing -> DecodeFrom(<<>>, Head(slot), out)

\* avcodec_send_packet(): refused while the slot is full; otherwise a frame is
\* decoded ahead if none is waiting, and having none yet is no error.
SendPacket(codec, pkt) ==
  LET r == DecodeNext(<<pkt>>, codec.rest, <<>>)
  IN  CASE codec.slot # <<>> -> Return(EAGAIN, codec, <<>>)
        [] codec.slot = <<>> /\ codec.out # <<>> ->
             Return(OK, Context(<<pkt>>, codec.rest, codec.out), <<>>)
        [] codec.slot = <<>> /\ codec.out = <<>> ->
             Return(IF r.ret = EAGAIN THEN OK ELSE r.ret,
                    Context(r.codec.slot, r.codec.rest, r.frame), <<>>)

\* avcodec_receive_frame(): the frame decoded ahead, else one decoded now.
ReceiveFrame(codec) ==
  IF codec.out # <<>>
  THEN Return(OK, Context(codec.slot, codec.rest, <<>>), codec.out)
  ELSE DecodeNext(codec.slot, codec.rest, <<>>)
=============================================================================
