---------------------------- MODULE IrdaDecoder ----------------------------
(***************************************************************************)
(* lib/irda: the decoders of NEC and Samsung32, which are fed one timing   *)
(* at a time with the level it was measured at, against a remote control   *)
(* that sends frames and repeats at any distance, stops in the middle, and *)
(* corrupts bits.  The receiver's two interrupts alternate.                *)
(*                                                                         *)
(* A timing is the class of the duration that the tolerances tell apart;   *)
(* the bit timings of the two protocols fall into the same classes.  A     *)
(* byte is one bit wide here: a frame is the four of them, address, its    *)
(* inverse or copy, command and its inverse, where the code has 32 bits.   *)
(***************************************************************************)
EXTENDS Naturals, Sequences

CONSTANTS MaxItems \* the frames, repeats and disturbances a behaviour has

ASSUME IrdaAssumption == MaxItems \in Nat \ {0}

Protocols == {"samsung", "nec"}
Durations == {"9000", "4500", "2250", "1600", "560", "pause", "gap", "noise"}
DataBits == 4   \* databit_len, 32
TimingsMax == 6 \* the length of decoder->timings

Flip(b) == 1 - b
NoMessage == [protocol |-> "none", address |-> <<>>, command |-> 0, repeat |-> FALSE]

VARIABLES
  decoder,  \* the state of each protocol's decoder
  reported, \* what irda_decode returned for the last timing
  air,      \* the timings the remote still has to send
  level,    \* the level of the next timing: 1 is a space
  sending,  \* what the remote is sending: a frame, a repeat, or nothing
  lastSent, \* the protocol and bits of the last complete frame, if a repeat may follow
  expected, \* what the last timing should be reported as
  items,    \* how much was sent
  mistaken  \* history: the frame that is sent, or was sent last, began like a
            \* repeat that a decoder was waiting for

irdaVars == <<decoder, reported, air, level, sending, lastSent, expected, items, mistaken>>

-----------------------------------------------------------------------------
(* The common decoder.  d.timings is timings[0 .. timings_cnt - 1].        *)

Preamble(p) == IF p = "nec" THEN <<"9000", "4500">> ELSE <<"4500", "4500">>
Bit(b) == <<"560", IF b = 1 THEN "1600" ELSE "560">>

Drop(s, n) == SubSeq(s, n + 1, Len(s))
StartsWith(s, t) == Len(s) >= Len(t) /\ SubSeq(s, 1, Len(t)) = t

(* irda_check_preamble: a leading space is dropped, then pairs are dropped *)
(* up to and including the first that is a preamble.                       *)
BadAligned(d) == d.timings \* the leading space is kept
Aligned(d) ==
  IF (d.level + Len(d.timings) + 1) % 2 = 1 /\ d.timings # <<>>
  THEN Tail(d.timings) ELSE d.timings

CheckPreamble(p, d) ==
  LET t == Aligned(d)
      pairs == Len(t) \div 2
      matches == {k \in 1..pairs : SubSeq(t, 2 * k - 1, 2 * k) = Preamble(p)}
  IN IF matches = {}
     THEN [d EXCEPT !.timings = Drop(t, 2 * pairs), !.state = "wait"]
     ELSE LET k == CHOOSE m \in matches : \A n \in matches : m <= n
          IN [d EXCEPT !.timings = Drop(t, 2 * k), !.state = "decode", !.bits = <<>>]

(* One pass of the loop of irda_common_decode_pdwm.                        *)
PdwmPass(run) ==
  LET d == run.d
      stop == Len(d.bits) = DataBits /\ Len(d.timings) = 1
      bits == {b \in {0, 1} : StartsWith(d.timings, Bit(b))}
      With(status) == [status |-> status, d |-> d]
  IN IF run.status # "more" THEN run
     ELSE IF stop
     THEN IF d.timings[1] = "560"
          THEN [status |-> "ready", d |-> [d EXCEPT !.timings = <<>>]]
          ELSE With("error")
     ELSE IF Len(d.timings) < 2 THEN With("ok")
     ELSE IF bits = {} THEN With("error")
     ELSE [status |-> "more",
           d |-> [d EXCEPT !.bits = Append(d.bits, CHOOSE b \in bits : TRUE),
                           !.timings = Drop(d.timings, 2)]]

DecodePdwm(d) ==
  LET pass[n \in 0..(TimingsMax \div 2 + 1)] ==
        IF n = 0 THEN [status |-> "more", d |-> d] ELSE PdwmPass(pass[n - 1])
  IN pass[TimingsMax \div 2 + 1]

(* interpret_nec, interpret_samsung32.                                     *)
Interprets(p, bits) ==
  bits[4] = Flip(bits[3]) /\ (p = "samsung" => bits[1] = bits[2])

MessageOf(p, bits) ==
  [protocol |-> p,
   address |-> IF p = "nec" THEN <<bits[1], bits[2]>> ELSE <<bits[1]>>,
   command |-> bits[3], repeat |-> FALSE]

(* decode_repeat_nec, decode_repeat_samsung32.                             *)
RepeatTimings(p) ==
  IF p = "nec" THEN <<"pause", "9000", "2250", "560">>
  ELSE <<"pause", "4500", "4500", "560", "1600", "560">>

BadDecodeRepeat(p, d) == \* the timings stay after a repeat
  IF Len(d.timings) < Len(RepeatTimings(p)) THEN [status |-> "ok", d |-> d]
  ELSE IF d.timings = RepeatTimings(p) THEN [status |-> "ready", d |-> d]
  ELSE [status |-> "error", d |-> d]

DecodeRepeat(p, d) ==
  IF Len(d.timings) < Len(RepeatTimings(p)) THEN [status |-> "ok", d |-> d]
  ELSE IF d.timings = RepeatTimings(p)
  THEN [status |-> "ready", d |-> [d EXCEPT !.timings = <<>>]]
  ELSE [status |-> "error", d |-> d]

(* irda_common_decode: an error falls back to the search for a preamble in *)
(* the timings at hand.                                                    *)
Result(d, message) == [d |-> d, message |-> message]

StateDecode(p, run) ==
  CASE run.status = "error" -> Result(CheckPreamble(p, run.d), NoMessage)
    [] run.status = "ok"    -> Result(run.d, NoMessage)
    [] run.status = "ready" ->
         LET m == MessageOf(p, run.d.bits)
         IN IF Interprets(p, run.d.bits)
            THEN Result([run.d EXCEPT !.state = "repeat", !.message = m], m)
            ELSE Result([run.d EXCEPT !.state = "wait"], NoMessage)

StateProcessRepeat(p, run) ==
  CASE run.status = "error" -> Result(CheckPreamble(p, run.d), NoMessage)
    [] run.status = "ok"    -> Result(run.d, NoMessage)
    [] run.status = "ready" ->
         LET m == [run.d.message EXCEPT !.repeat = TRUE]
         IN Result([run.d EXCEPT !.message = m], m)

DecodeTiming(p, before, lvl, duration) ==
  LET d == [before EXCEPT !.level = lvl, !.timings = Append(before.timings, duration)]
  IN CASE d.state = "wait"   -> Result(CheckPreamble(p, d), NoMessage)
       [] d.state = "decode" -> StateDecode(p, DecodePdwm(d))
       [] d.state = "repeat" -> StateProcessRepeat(p, DecodeRepeat(p, d))

(* A level that does not alternate, which furi_assert rejects where it is  *)
(* compiled in, takes the place of all timings at hand.                    *)
CommonDecode(p, before, lvl, duration) ==
  LET b == IF before.level = lvl THEN [before EXCEPT !.timings = <<>>] ELSE before
  IN DecodeTiming(p, b, lvl, duration)

(* irda_decode feeds every decoder; the first one with a message wins.     *)
FirstMessage(results) ==
  IF results["samsung"].message # NoMessage THEN results["samsung"].message
  ELSE results["nec"].message

-----------------------------------------------------------------------------
(* The remote control.  irda_encoder_nec_encode, _samsung32_encode: a      *)
(* frame ends with a stop bit whose space is the silence that follows.     *)

Frame(p, bits) == Preamble(p) \o Bit(bits[1]) \o Bit(bits[2]) \o Bit(bits[3]) \o Bit(bits[4]) \o <<"560">>

Repeat(p) == Tail(RepeatTimings(p))

Bits == [1..DataBits -> {0, 1}]
Nothing == [kind |-> "nothing"]

IrdaInit ==
  /\ decoder = [p \in Protocols |->
       [state |-> "wait", timings |-> <<>>, level |-> 0, bits |-> <<>>, message |-> NoMessage]]
  /\ reported = NoMessage /\ expected = NoMessage
  /\ air = <<>> /\ level = 1
  /\ sending = Nothing
  /\ lastSent = Nothing
  /\ items = 0
  /\ mistaken = FALSE

Idle == air = <<>> /\ level = 1 /\ items < MaxItems

(* What begins like the repeat of a message the decoder has just returned: *)
(* the frame of Samsung32 differs from it only in its first bit, if that   *)
(* is not 1, or in coming late.                                            *)
AwaitsRepeat(d) == d.state = "repeat" /\ d.timings = <<>>

BeginsLikeRepeat(silence, p, bits) ==
  silence = "pause" /\ p = "samsung" /\ bits[1] = 1 /\ AwaitsRepeat(decoder["samsung"])

SendFrame ==
  /\ Idle
  /\ \E p \in Protocols, bits \in Bits, silence \in {"pause", "gap"} :
       /\ air' = <<silence>> \o Frame(p, bits)
       /\ sending' = [kind |-> "frame", protocol |-> p, bits |-> bits]
       /\ mistaken' = BeginsLikeRepeat(silence, p, bits)
  /\ lastSent' = Nothing
  /\ items' = items + 1
  /\ UNCHANGED <<decoder, reported, level, expected>>

SendRepeat ==
  /\ Idle /\ lastSent # Nothing
  /\ air' = <<"pause">> \o Repeat(lastSent.protocol)
  /\ sending' = [lastSent EXCEPT !.kind = "repeat"]
  /\ items' = items + 1
  /\ UNCHANGED <<decoder, reported, level, lastSent, expected, mistaken>>

(* A flash of light.                                                       *)
SendNoise ==
  /\ Idle
  /\ \E silence \in {"noise", "pause", "gap"} : air' = <<silence, "noise">>
  /\ sending' = Nothing
  /\ lastSent' = Nothing
  /\ items' = items + 1
  /\ UNCHANGED <<decoder, reported, level, expected, mistaken>>

(* The beam is interrupted: a space becomes a silence, and the frame or    *)
(* repeat is over.                                                         *)
Interrupt ==
  /\ level = 1 /\ air # <<>> /\ sending # Nothing
  /\ Head(air) \notin {"pause", "gap"}
  /\ air' = <<>>
  /\ sending' = Nothing
  /\ lastSent' = Nothing
  /\ UNCHANGED <<decoder, reported, level, expected, items, mistaken>>

(* What the protocols' descriptions call a valid frame.                    *)
WellFormed(p, bits) ==
  /\ {bits[3], bits[4]} = {0, 1}
  /\ p = "samsung" => bits[1] = bits[2]

Expected ==
  IF sending = Nothing THEN NoMessage
  ELSE IF ~WellFormed(sending.protocol, sending.bits) THEN NoMessage
  ELSE [MessageOf(sending.protocol, sending.bits) EXCEPT !.repeat = sending.kind = "repeat"]

(* An edge: the receiver's interrupt gives a timing to the decoders.       *)
Edge ==
  /\ air # <<>>
  /\ LET results == [p \in Protocols |-> CommonDecode(p, decoder[p], level, Head(air))]
     IN /\ decoder' = [p \in Protocols |-> results[p].d]
        /\ reported' = FirstMessage(results)
  /\ air' = Tail(air)
  /\ level' = 1 - level
  /\ expected' = IF Tail(air) = <<>> THEN Expected ELSE NoMessage
  /\ lastSent' = IF Tail(air) = <<>> /\ sending # Nothing
                 THEN [sending EXCEPT !.kind = "frame"] ELSE lastSent
  /\ sending' = IF Tail(air) = <<>> THEN Nothing ELSE sending
  /\ UNCHANGED <<items, mistaken>>

IrdaNext == SendFrame \/ SendRepeat \/ SendNoise \/ Interrupt \/ Edge

IrdaSpec == IrdaInit /\ [][IrdaNext]_irdaVars

-----------------------------------------------------------------------------
(* There is always room for the next timing in timings[6], which the       *)
(* code's furi_check, a comparison with the size in bytes, would not       *)
(* notice, and the bits never outgrow the data allocated for them.         *)
IrdaTypeOK ==
  /\ \A p \in Protocols :
       /\ decoder[p].state \in {"wait", "decode", "repeat"}
       /\ decoder[p].timings \in Seq(Durations) /\ Len(decoder[p].timings) < TimingsMax
       /\ decoder[p].bits \in Seq({0, 1}) /\ Len(decoder[p].bits) <= DataBits
  /\ air \in Seq(Durations)
  /\ level \in {0, 1}
  /\ items \in 0..MaxItems
  /\ mistaken \in BOOLEAN

(* After every timing irda_decode returns exactly what was sent: a message *)
(* at the stop bit of a whole valid frame, a repeat at the end of a repeat *)
(* of it, and nothing else, whatever was interrupted before and however    *)
(* soon it comes.  Excepted is a frame that was taken for a repeat from    *)
(* its beginning, with the repeats of it: EveryFrameIsReported fails.      *)
DecodesWhatWasSent == [][Edge /\ ~mistaken => reported' = expected']_irdaVars

(* What the decoder's tests expect of frames less than 150 ms apart: each  *)
(* is reported as a message of its own, and nothing else is.               *)
EveryFrameIsReported == reported = expected
=============================================================================
