------------------------------ MODULE IrdaProofs ------------------------------
(***************************************************************************)
(* Proofs about IrdaDecoder, for any number of frames, repeats and         *)
(* disturbances: the buffers do not overflow, and irda_decode returns      *)
(* exactly what was sent, unless a frame begins like a repeat that is      *)
(* waited for.  The first part is about any timings in any order (Keeps);  *)
(* the second follows a frame, a repeat and a disturbance through both     *)
(* decoders, one timing at a time (DecodeIInv).                            *)
(***************************************************************************)
EXTENDS IrdaDecoder, TLAPS

-----------------------------------------------------------------------------
(* IrdaDecoder.  What a decoder keeps between two timings: while it waits, *)
(* less than a pair; while it decodes, as many timings as a repeat that    *)
(* was none can leave, or what does not yet make a bit, and with four bits *)
(* nothing; while it waits for a repeat, less than one.  The receiver's    *)
(* edges alternate, so that no decoder ever hears a level twice.           *)
IrdaMessages ==
  [protocol : {"none"} \union Protocols, address : Seq({0, 1}), command : {0, 1}, repeat : BOOLEAN]

Decoders ==
  [state : {"wait", "decode", "repeat"}, timings : Seq(Durations), level : {0, 1},
   bits : Seq({0, 1}), message : IrdaMessages]

Keeps(p, d) ==
  /\ d \in Decoders
  /\ Len(d.bits) <= DataBits
  /\ d.state = "wait" => Len(d.timings) <= 1
  /\ d.state = "decode" => Len(d.timings) <= 4 /\ 2 * Len(d.bits) + Len(d.timings) <= 2 * DataBits
  /\ d.state = "repeat" => Len(d.timings) < Len(RepeatTimings(p))

IrdaIInv ==
  /\ \A p \in Protocols : Keeps(p, decoder[p])
  /\ air \in Seq(Durations) /\ level \in {0, 1} /\ items \in 0..MaxItems
  /\ decoder = [p \in Protocols |-> decoder[p]]
  /\ \A p \in Protocols : decoder[p].level # level
  /\ mistaken \in BOOLEAN

-----------------------------------------------------------------------------
(* Sequences.                                                              *)
LEMMA Dropped ==
  ASSUME NEW T, NEW s \in Seq(T), NEW n \in Nat, n <= Len(s)
  PROVE  Drop(s, n) \in Seq(T) /\ Len(Drop(s, n)) = Len(s) - n
BY DEF Drop

LEMMA TailType ==
  ASSUME NEW T, NEW s \in Seq(T), s # <<>>
  PROVE  /\ Tail(s) \in Seq(T) /\ Len(Tail(s)) = Len(s) - 1 /\ Len(s) \in Nat /\ Len(s) >= 1
         /\ Head(s) \in T
OBVIOUS

LEMMA AlignedType ==
  ASSUME NEW d \in Decoders
  PROVE  Aligned(d) \in Seq(Durations) /\ Len(Aligned(d)) <= Len(d.timings) /\ Len(Aligned(d)) \in Nat
<1>1. d.timings \in Seq(Durations)
  BY DEF Decoders
<1>2. d.timings # <<>> =>
        Tail(d.timings) \in Seq(Durations) /\ Len(Tail(d.timings)) = Len(d.timings) - 1
  BY <1>1, TailType
<1>3. Aligned(d) = d.timings \/ (d.timings # <<>> /\ Aligned(d) = Tail(d.timings))
  BY DEF Aligned
<1>4. QED
  BY <1>1, <1>2, <1>3

(* irda_check_preamble leaves what a waiting or decoding decoder keeps.    *)
LEMMA CheckPreambleKeeps ==
  ASSUME NEW p \in Protocols, NEW d \in Decoders, Len(d.timings) <= TimingsMax, Len(d.bits) <= DataBits
  PROVE  Keeps(p, CheckPreamble(p, d))
<1> DEFINE t == Aligned(d)
           pairs == Len(t) \div 2
           matches == {k \in 1..pairs : SubSeq(t, 2 * k - 1, 2 * k) = Preamble(p)}
           k == CHOOSE m \in matches : \A n \in matches : m <= n
<1>1. t \in Seq(Durations) /\ Len(t) <= 6 /\ Len(t) \in Nat
  BY AlignedType DEF TimingsMax, Decoders
<1>2. CheckPreamble(p, d) =
        IF matches = {} THEN [d EXCEPT !.timings = Drop(t, 2 * pairs), !.state = "wait"]
        ELSE [d EXCEPT !.timings = Drop(t, 2 * k), !.state = "decode", !.bits = <<>>]
  BY DEF CheckPreamble
<1> HIDE DEF t
<1>3. pairs \in 0..3 /\ Len(t) - 2 * pairs \in 0..1
  BY <1>1
<1>4. matches # {} => k \in 1..3 /\ 2 * k <= Len(t)
  <2>1. \A m \in matches : m \in 1..pairs
    OBVIOUS
  <2> HIDE DEF matches
  <2>2. ASSUME matches # {} PROVE \E m \in matches : \A n \in matches : m <= n
    <3>1. \A m \in matches : m \in {1, 2, 3}
      BY <1>3, <2>1
    <3>2. CASE 1 \in matches
      BY <3>1, <3>2
    <3>3. CASE 1 \notin matches /\ 2 \in matches
      BY <3>1, <3>3
    <3>4. CASE 1 \notin matches /\ 2 \notin matches
      BY <2>2, <3>1, <3>4
    <3>5. QED
      BY <3>2, <3>3, <3>4
  <2>3. matches # {} => k \in matches
    BY <2>2
  <2> HIDE DEF k
  <2>4. matches # {} => k \in 1..pairs
    BY <2>1, <2>3
  <2> HIDE DEF pairs
  <2>5. QED
    BY <1>1, <1>3, <2>4
<1> HIDE DEF matches, k
<1>5. CASE matches = {}
  <2>1. 2 * pairs \in Nat /\ 2 * pairs <= Len(t) /\ Len(t) - 2 * pairs <= 1
    BY <1>1, <1>3
  <2> HIDE DEF pairs
  <2> DEFINE u == Drop(t, 2 * pairs)
  <2>2. u \in Seq(Durations) /\ Len(u) = Len(t) - 2 * pairs
    BY <1>1, <2>1, Dropped
  <2>3. CheckPreamble(p, d) = [d EXCEPT !.timings = u, !.state = "wait"]
    BY <1>2, <1>5
  <2> HIDE DEF u
  <2>4. /\ CheckPreamble(p, d) \in Decoders /\ CheckPreamble(p, d).timings = u
        /\ CheckPreamble(p, d).state = "wait" /\ CheckPreamble(p, d).bits = d.bits
    BY <2>2, <2>3 DEF Decoders
  <2>5. QED
    BY <2>1, <2>2, <2>4 DEF Keeps
<1>6. CASE matches # {}
  <2> DEFINE u == Drop(t, 2 * k)
  <2>1. 2 * k \in Nat /\ 2 * k <= Len(t) /\ Len(t) - 2 * k <= 4 /\ Len(t) - 2 * k \in Nat
    BY <1>1, <1>4, <1>6
  <2>2. u \in Seq(Durations) /\ Len(u) = Len(t) - 2 * k
    BY <1>1, <2>1, Dropped
  <2>3. CheckPreamble(p, d) = [d EXCEPT !.timings = u, !.state = "decode", !.bits = <<>>]
    BY <1>2, <1>6
  <2> HIDE DEF u
  <2>4. /\ CheckPreamble(p, d) \in Decoders /\ CheckPreamble(p, d).timings = u
        /\ CheckPreamble(p, d).state = "decode" /\ CheckPreamble(p, d).bits = <<>>
    <3>1. <<>> \in Seq({0, 1})
      OBVIOUS
    <3>2. QED
      BY <2>2, <2>3, <3>1 DEF Decoders
  <2>5. QED
    BY <2>1, <2>2, <2>4 DEF Keeps, DataBits
<1>7. QED
  BY <1>5, <1>6

-----------------------------------------------------------------------------
(* A run of irda_common_decode_pdwm: what it returns, or how far it got    *)
(* after n passes.                                                         *)
RunOK(run, n) ==
  /\ run \in [status : {"more", "error", "ok", "ready"}, d : Decoders]
  /\ run.d.state = "decode" /\ Len(run.d.bits) <= DataBits
  /\ run.status = "more" =>
       Len(run.d.timings) + 2 * n <= 5 /\ 2 * Len(run.d.bits) + Len(run.d.timings) <= 2 * DataBits + 1
  /\ run.status = "error" => Len(run.d.timings) <= TimingsMax
  /\ run.status = "ok" =>
       Len(run.d.timings) <= 1 /\ 2 * Len(run.d.bits) + Len(run.d.timings) <= 2 * DataBits
  /\ run.status = "ready" => Len(run.d.timings) = 0 /\ Len(run.d.bits) = DataBits

LEMMA RunIsOK ==
  ASSUME NEW n, NEW e \in Decoders, e.state = "decode", Len(e.bits) <= 4
  PROVE  /\ Len(e.timings) + 2 * n <= 5 /\ 2 * Len(e.bits) + Len(e.timings) <= 9 =>
              RunOK([status |-> "more", d |-> e], n)
         /\ Len(e.timings) <= 6 => RunOK([status |-> "error", d |-> e], n)
         /\ Len(e.timings) <= 1 /\ 2 * Len(e.bits) + Len(e.timings) <= 8 =>
              RunOK([status |-> "ok", d |-> e], n)
         /\ Len(e.timings) = 0 /\ Len(e.bits) = 4 => RunOK([status |-> "ready", d |-> e], n)
<1>1. ASSUME NEW s \in {"more", "error", "ok", "ready"}
      PROVE  /\ [status |-> s, d |-> e].status = s /\ [status |-> s, d |-> e].d = e
             /\ [status |-> s, d |-> e] \in [status : {"more", "error", "ok", "ready"}, d : Decoders]
  OBVIOUS
<1>2. DataBits = 4 /\ TimingsMax = 6 /\ 2 * DataBits = 8 /\ 2 * DataBits + 1 = 9
  BY DEF DataBits, TimingsMax
<1>3. Len(e.timings) + 2 * n <= 5 /\ 2 * Len(e.bits) + Len(e.timings) <= 9 =>
        RunOK([status |-> "more", d |-> e], n)
  BY <1>1, <1>2 DEF RunOK
<1>4. Len(e.timings) <= 6 => RunOK([status |-> "error", d |-> e], n)
  BY <1>1, <1>2 DEF RunOK
<1>5. Len(e.timings) <= 1 /\ 2 * Len(e.bits) + Len(e.timings) <= 8 =>
        RunOK([status |-> "ok", d |-> e], n)
  BY <1>1, <1>2 DEF RunOK
<1>6. Len(e.timings) = 0 /\ Len(e.bits) = 4 => RunOK([status |-> "ready", d |-> e], n)
  BY <1>1, <1>2 DEF RunOK
<1>7. QED
  BY <1>3, <1>4, <1>5, <1>6

LEMMA PassOK ==
  ASSUME NEW run, NEW n \in Nat, RunOK(run, n)
  PROVE  RunOK(PdwmPass(run), n + 1)
<1> DEFINE d == run.d
           next == PdwmPass(run)
           bits == {b \in {0, 1} : StartsWith(d.timings, Bit(b))}
           b == CHOOSE x \in bits : TRUE
<1>1. /\ d \in Decoders /\ d.state = "decode" /\ d.timings \in Seq(Durations) /\ d.bits \in Seq({0, 1})
      /\ Len(d.timings) \in Nat /\ Len(d.bits) \in Nat /\ Len(d.bits) <= 4
      /\ run \in [status : {"more", "error", "ok", "ready"}, d : Decoders]
  BY DEF RunOK, Decoders, DataBits
<1> DEFINE lt == Len(d.timings)
           lb == Len(d.bits)
<1>5. lt \in Nat /\ lb \in Nat /\ n + 1 \in Nat
  BY <1>1
<1>2. CASE run.status # "more"
  BY <1>1, <1>2 DEF RunOK, PdwmPass
<1>3. CASE run.status = "more"
  <2>1. lt + 2 * n <= 5 /\ 2 * lb + lt <= 9
    <3>1. 2 * DataBits + 1 = 9
      BY DEF DataBits
    <3>2. QED
      BY <1>3, <3>1 DEF RunOK
  <2>2. \/ next = [status |-> "ready", d |-> [d EXCEPT !.timings = <<>>]] /\ Len(d.bits) = 4
        \/ next = [status |-> "error", d |-> d]
        \/ /\ next = [status |-> "ok", d |-> d] /\ Len(d.timings) < 2
           /\ ~(Len(d.bits) = 4 /\ Len(d.timings) = 1)
        \/ /\ bits # {} /\ Len(d.timings) >= 2
           /\ next = [status |-> "more",
                      d |-> [d EXCEPT !.bits = Append(d.bits, b), !.timings = Drop(d.timings, 2)]]
    BY <1>1, <1>3 DEF PdwmPass, DataBits
  <2>3. CASE next = [status |-> "ready", d |-> [d EXCEPT !.timings = <<>>]] /\ Len(d.bits) = 4
    <3> DEFINE e == [d EXCEPT !.timings = <<>>]
    <3>1. <<>> \in Seq(Durations) /\ Len(<<>>) = 0
      OBVIOUS
    <3>2. e \in Decoders /\ e.state = "decode" /\ e.bits = d.bits /\ e.timings = <<>>
      BY <1>1, <3>1 DEF Decoders
    <3> HIDE DEF e
    <3>3. next = [status |-> "ready", d |-> e]
      BY <2>3 DEF e
    <3>4. Len(e.timings) = 0 /\ Len(e.bits) = 4 /\ Len(e.bits) <= 4
      BY <1>1, <2>3, <3>1, <3>2
    <3>5. RunOK([status |-> "ready", d |-> e], n + 1)
      BY <3>2, <3>4, RunIsOK
    <3>6. QED
      BY <3>3, <3>5
  <2>4. CASE next = [status |-> "error", d |-> d]
    <3>1. lt <= 6
      <4> HIDE DEF lt, lb
      <4>1. QED
        BY <1>5, <2>1
    <3>2. QED
      BY <1>1, <1>5, <2>4, <3>1, RunIsOK
  <2>5. CASE /\ next = [status |-> "ok", d |-> d] /\ Len(d.timings) < 2
             /\ ~(Len(d.bits) = 4 /\ Len(d.timings) = 1)
    <3>1. lt <= 1 /\ 2 * lb + lt <= 8
      <4>1. lt < 2 /\ ~(lb = 4 /\ lt = 1) /\ lb <= 4
        BY <1>1, <2>5
      <4> HIDE DEF lt, lb
      <4>2. QED
        BY <1>5, <2>1, <4>1
    <3>2. QED
      BY <1>1, <1>5, <2>5, <3>1, RunIsOK
  <2>6. CASE /\ bits # {} /\ Len(d.timings) >= 2
             /\ next = [status |-> "more",
                        d |-> [d EXCEPT !.bits = Append(d.bits, b), !.timings = Drop(d.timings, 2)]]
    <3> DEFINE u == Drop(d.timings, 2)
               c == Append(d.bits, b)
               e == [d EXCEPT !.bits = c, !.timings = u]
    <3>1. b \in {0, 1}
      BY <2>6
    <3> HIDE DEF b
    <3>2. u \in Seq(Durations) /\ Len(u) = Len(d.timings) - 2
      BY <1>1, <2>6, Dropped
    <3>3. c \in Seq({0, 1}) /\ Len(c) = Len(d.bits) + 1
      BY <1>1, <3>1
    <3> HIDE DEF u, c
    <3>4. e \in Decoders /\ e.state = "decode" /\ e.bits = c /\ e.timings = u
      BY <1>1, <3>2, <3>3 DEF Decoders
    <3>5. next = [status |-> "more", d |-> e]
      BY <2>6 DEF u, c
    <3> HIDE DEF e
    <3>6. /\ Len(e.bits) <= 4 /\ Len(e.timings) + 2 * (n + 1) <= 5
          /\ 2 * Len(e.bits) + Len(e.timings) <= 9
      <4>1. Len(e.timings) = lt - 2 /\ Len(e.bits) = lb + 1 /\ lt >= 2
        BY <2>6, <3>2, <3>3, <3>4
      <4> HIDE DEF lt, lb
      <4>2. lb + 1 <= 4 /\ (lt - 2) + 2 * (n + 1) <= 5 /\ 2 * (lb + 1) + (lt - 2) <= 9
        BY <1>5, <2>1, <4>1
      <4>3. QED
        BY <4>1, <4>2
    <3>7. QED
      BY <1>5, <3>4, <3>5, <3>6, RunIsOK
  <2>7. QED
    BY <2>2, <2>3, <2>4, <2>5, <2>6
<1>4. QED
  BY <1>2, <1>3

(* The loop of irda_common_decode_pdwm makes four passes at most.          *)
LEMMA FourPasses ==
  ASSUME NEW d
  PROVE  DecodePdwm(d) = PdwmPass(PdwmPass(PdwmPass(PdwmPass([status |-> "more", d |-> d]))))
<1> DEFINE r0 == [status |-> "more", d |-> d]
           r1 == PdwmPass(r0)
           r2 == PdwmPass(r1)
           r3 == PdwmPass(r2)
           r4 == PdwmPass(r3)
           Def(g) == g = [n \in 0..4 |-> IF n = 0 THEN r0 ELSE PdwmPass(g[n - 1])]
           pass == CHOOSE g : Def(g)
           f == [n \in 0..4 |-> IF n = 0 THEN r0 ELSE IF n = 1 THEN r1 ELSE IF n = 2 THEN r2
                                ELSE IF n = 3 THEN r3 ELSE r4]
<1>1. TimingsMax \div 2 + 1 = 4
  BY DEF TimingsMax
<1>2. DecodePdwm(d) = pass[4]
  BY <1>1 DEF DecodePdwm
<1> HIDE DEF r0
<1>3. Def(f)
  <2> SUFFICES ASSUME NEW n \in 0..4
               PROVE  f[n] = IF n = 0 THEN r0 ELSE PdwmPass(f[n - 1])
    BY DEF Def
  <2>1. n \in {0, 1, 2, 3, 4}
    OBVIOUS
  <2>2. QED
    BY <2>1
<1>4. Def(pass)
  BY <1>3
<1> HIDE DEF pass
<1>5. /\ pass[0] = r0 /\ pass[1] = PdwmPass(pass[0]) /\ pass[2] = PdwmPass(pass[1])
      /\ pass[3] = PdwmPass(pass[2]) /\ pass[4] = PdwmPass(pass[3])
  BY <1>4
<1>6. QED
  BY <1>2, <1>5 DEF r0

(* A decoder in the middle of a frame takes one more timing.               *)
LEMMA DecodePdwmOK ==
  ASSUME NEW d \in Decoders, d.state = "decode", Len(d.timings) <= 5, Len(d.bits) <= 4,
         2 * Len(d.bits) + Len(d.timings) <= 9
  PROVE  RunOK(DecodePdwm(d), 4)
<1> DEFINE r0 == [status |-> "more", d |-> d]
<1>1. RunOK(r0, 0)
  <2>1. Len(d.timings) + 2 * 0 <= 5
    <3>1. Len(d.timings) \in Nat
      BY DEF Decoders
    <3>2. QED
      BY <3>1
  <2>2. QED
    BY <2>1, RunIsOK
<1> HIDE DEF r0
<1>2. RunOK(PdwmPass(r0), 0 + 1)
  BY <1>1, PassOK
<1>3. RunOK(PdwmPass(PdwmPass(r0)), (0 + 1) + 1)
  BY <1>2, PassOK
<1>4. RunOK(PdwmPass(PdwmPass(PdwmPass(r0))), ((0 + 1) + 1) + 1)
  BY <1>3, PassOK
<1>5. RunOK(PdwmPass(PdwmPass(PdwmPass(PdwmPass(r0)))), (((0 + 1) + 1) + 1) + 1)
  BY <1>4, PassOK
<1>6. (((0 + 1) + 1) + 1) + 1 = 4
  OBVIOUS
<1>7. QED
  BY <1>5, <1>6, FourPasses DEF r0

LEMMA MessageType ==
  ASSUME NEW p \in Protocols, NEW bits \in Seq({0, 1}), Len(bits) = 4
  PROVE  MessageOf(p, bits) \in IrdaMessages
<1>1. bits[1] \in {0, 1} /\ bits[2] \in {0, 1} /\ bits[3] \in {0, 1}
  BY SMTT(60)
<1>2. <<bits[1], bits[2]>> \in Seq({0, 1}) /\ <<bits[1]>> \in Seq({0, 1})
  BY <1>1
<1>3. QED
  BY <1>1, <1>2 DEF MessageOf, IrdaMessages

(* A run of irda_common_decode_pdwm that ended decides what is kept.       *)
LEMMA StateDecodeKeeps ==
  ASSUME NEW p \in Protocols, NEW run, RunOK(run, 4)
  PROVE  Keeps(p, StateDecode(p, run).d)
<1>1. /\ run.d \in Decoders /\ run.d.state = "decode" /\ Len(run.d.bits) <= DataBits
      /\ run.status \in {"more", "error", "ok", "ready"} /\ Len(run.d.timings) \in Nat
  BY DEF RunOK, Decoders
<1>2. run.status # "more"
  <2>1. run.status = "more" => Len(run.d.timings) + 2 * 4 <= 5
    BY DEF RunOK
  <2>2. QED
    BY <1>1, <2>1
<1>3. CASE run.status = "error"
  <2>1. StateDecode(p, run).d = CheckPreamble(p, run.d)
    BY <1>3 DEF StateDecode, Result
  <2>2. Len(run.d.timings) <= TimingsMax
    BY <1>3 DEF RunOK
  <2>3. QED
    BY <1>1, <2>1, <2>2, CheckPreambleKeeps
<1>4. CASE run.status = "ok"
  <2>1. StateDecode(p, run).d = run.d
    BY <1>4 DEF StateDecode, Result
  <2>2. Len(run.d.timings) <= 1 /\ 2 * Len(run.d.bits) + Len(run.d.timings) <= 2 * DataBits
    BY <1>4 DEF RunOK
  <2>3. Len(run.d.timings) <= 4
    BY <1>1, <2>2
  <2>4. QED
    BY <1>1, <2>1, <2>2, <2>3 DEF Keeps
<1>5. CASE run.status = "ready"
  <2> DEFINE m == MessageOf(p, run.d.bits)
  <2>1. Len(run.d.timings) = 0 /\ Len(run.d.bits) = 4
    BY <1>5 DEF RunOK, DataBits
  <2>2. m \in IrdaMessages
    BY <1>1, <2>1, MessageType DEF Decoders
  <2> HIDE DEF m
  <2>3. \/ StateDecode(p, run).d = [run.d EXCEPT !.state = "repeat", !.message = m]
        \/ StateDecode(p, run).d = [run.d EXCEPT !.state = "wait"]
    BY <1>5 DEF StateDecode, Result, m
  <2>4. /\ StateDecode(p, run).d \in Decoders /\ StateDecode(p, run).d.timings = run.d.timings
        /\ StateDecode(p, run).d.bits = run.d.bits
        /\ StateDecode(p, run).d.state \in {"repeat", "wait"}
    BY <1>1, <2>2, <2>3 DEF Decoders
  <2>5. 0 < Len(RepeatTimings(p)) /\ 0 <= 1
    BY DEF RepeatTimings
  <2>6. QED
    BY <1>1, <2>1, <2>4, <2>5 DEF Keeps
<1>6. QED
  BY <1>1, <1>2, <1>3, <1>4, <1>5

(* A decoder that waits for a repeat takes one more timing.                *)
LEMMA RepeatKeeps ==
  ASSUME NEW p \in Protocols, NEW d \in Decoders, d.state = "repeat", Len(d.bits) <= DataBits,
         Len(d.timings) <= Len(RepeatTimings(p))
  PROVE  Keeps(p, StateProcessRepeat(p, DecodeRepeat(p, d)).d)
<1> DEFINE run == DecodeRepeat(p, d)
<1>1. Len(RepeatTimings(p)) \in {4, 6} /\ Len(d.timings) \in Nat
  BY DEF RepeatTimings, Decoders
<1>2. CASE Len(d.timings) < Len(RepeatTimings(p))
  <2>1. run = [status |-> "ok", d |-> d]
    BY <1>2 DEF DecodeRepeat
  <2>2. StateProcessRepeat(p, run).d = d
    BY <2>1 DEF StateProcessRepeat, Result
  <2>3. QED
    BY <1>2, <2>2 DEF Keeps
<1>3. CASE ~(Len(d.timings) < Len(RepeatTimings(p))) /\ d.timings = RepeatTimings(p)
  <2> DEFINE e == [d EXCEPT !.timings = <<>>]
             m == [e.message EXCEPT !.repeat = TRUE]
             f == [e EXCEPT !.message = m]
  <2>1. run = [status |-> "ready", d |-> e]
    BY <1>3 DEF DecodeRepeat
  <2>2. StateProcessRepeat(p, run).d = f
    <3>1. run.status = "ready" /\ run.d = e
      BY <2>1
    <3> HIDE DEF run, e
    <3>2. StateProcessRepeat(p, run) =
            LET x == [run.d.message EXCEPT !.repeat = TRUE] IN Result([run.d EXCEPT !.message = x], x)
      BY <3>1 DEF StateProcessRepeat
    <3>3. QED
      BY <3>1, <3>2 DEF Result
  <2>3. <<>> \in Seq(Durations) /\ Len(<<>>) = 0
    OBVIOUS
  <2>4. /\ e \in Decoders /\ e.timings = <<>> /\ e.bits = d.bits /\ e.state = "repeat"
        /\ e.message \in IrdaMessages
    BY <2>3 DEF Decoders
  <2> HIDE DEF e
  <2>5. m \in IrdaMessages
    BY <2>4 DEF IrdaMessages
  <2> HIDE DEF m
  <2>6. f \in Decoders /\ f.timings = <<>> /\ f.bits = d.bits /\ f.state = "repeat"
    BY <2>4, <2>5 DEF Decoders
  <2> HIDE DEF f
  <2>7. Len(f.timings) < Len(RepeatTimings(p))
    <3>1. Len(f.timings) = 0
      BY <2>3, <2>6
    <3>2. Len(RepeatTimings(p)) = 4 \/ Len(RepeatTimings(p)) = 6
      BY <1>1
    <3> DEFINE l == Len(f.timings)
               n == Len(RepeatTimings(p))
    <3>3. l = 0 /\ (n = 4 \/ n = 6)
      BY <3>1, <3>2
    <3> HIDE DEF l, n
    <3>4. l < n
      BY <3>3
    <3>5. QED
      BY <3>4 DEF l, n
  <2>8. QED
    BY <2>2, <2>6, <2>7 DEF Keeps
<1>4. CASE ~(Len(d.timings) < Len(RepeatTimings(p))) /\ d.timings # RepeatTimings(p)
  <2>1. run = [status |-> "error", d |-> d]
    BY <1>4 DEF DecodeRepeat
  <2>2. StateProcessRepeat(p, run).d = CheckPreamble(p, d)
    BY <2>1 DEF StateProcessRepeat, Result
  <2>3. Len(d.timings) <= TimingsMax
    <3>1. TimingsMax = 6 /\ (Len(RepeatTimings(p)) = 4 \/ Len(RepeatTimings(p)) = 6)
      BY <1>1 DEF TimingsMax
    <3> DEFINE l == Len(d.timings)
    <3>2. l \in Nat /\ (l <= 4 \/ l <= 6)
      BY <1>1, <3>1
    <3> HIDE DEF l
    <3>3. l <= 6
      BY <3>2
    <3>4. QED
      BY <3>1, <3>3 DEF l
  <2>4. QED
    BY <2>2, <2>3, CheckPreambleKeeps
<1>5. QED
  BY <1>2, <1>3, <1>4

(* Every decoder remembers the level of the last timing.                   *)
LEMMA CheckPreambleLevel ==
  ASSUME NEW p, NEW d \in Decoders
  PROVE  CheckPreamble(p, d).level = d.level
BY DEF CheckPreamble, Decoders

LEMMA PassLevel ==
  ASSUME NEW run, run.d \in Decoders
  PROVE  PdwmPass(run).d.level = run.d.level
<1> DEFINE d == run.d
           bits == {b \in {0, 1} : StartsWith(d.timings, Bit(b))}
<1> DEFINE c == Append(d.bits, CHOOSE b \in bits : TRUE)
           t == Drop(d.timings, 2)
           e == [d EXCEPT !.timings = <<>>]
           f == [d EXCEPT !.bits = c, !.timings = t]
<1>1. \/ PdwmPass(run) = run
      \/ PdwmPass(run) = [status |-> "ready", d |-> e]
      \/ PdwmPass(run) = [status |-> "error", d |-> d]
      \/ PdwmPass(run) = [status |-> "ok", d |-> d]
      \/ PdwmPass(run) = [status |-> "more", d |-> f]
  BY DEF PdwmPass
<1> HIDE DEF c, t
<1>2. e.level = d.level /\ f.level = d.level
  BY DEF Decoders
<1> HIDE DEF e, f
<1>3. QED
  BY <1>1, <1>2

LEMMA DecodePdwmLevel ==
  ASSUME NEW d \in Decoders, d.state = "decode", Len(d.timings) <= 5, Len(d.bits) <= 4,
         2 * Len(d.bits) + Len(d.timings) <= 9
  PROVE  DecodePdwm(d).d.level = d.level
<1> DEFINE r0 == [status |-> "more", d |-> d]
<1>1. RunOK(r0, 0) /\ r0.d = d
  <2>1. Len(d.timings) + 2 * 0 <= 5
    <3>1. Len(d.timings) \in Nat
      BY DEF Decoders
    <3>2. QED
      BY <3>1
  <2>2. QED
    BY <2>1, RunIsOK
<1> HIDE DEF r0
<1>2. RunOK(PdwmPass(r0), 0 + 1)
  BY <1>1, PassOK
<1>3. RunOK(PdwmPass(PdwmPass(r0)), (0 + 1) + 1)
  BY <1>2, PassOK
<1>4. RunOK(PdwmPass(PdwmPass(PdwmPass(r0))), ((0 + 1) + 1) + 1)
  BY <1>3, PassOK
<1> DEFINE r1 == PdwmPass(r0)
           r2 == PdwmPass(r1)
           r3 == PdwmPass(r2)
<1>5. r0.d \in Decoders /\ r1.d \in Decoders /\ r2.d \in Decoders /\ r3.d \in Decoders
  BY <1>1, <1>2, <1>3, <1>4 DEF RunOK
<1>6. r1.d.level = r0.d.level
  BY <1>5, PassLevel
<1>7. r2.d.level = r1.d.level
  BY <1>5, PassLevel
<1>8. r3.d.level = r2.d.level
  BY <1>5, PassLevel
<1>9. PdwmPass(r3).d.level = r3.d.level
  BY <1>5, PassLevel
<1>10. QED
  BY <1>1, <1>6, <1>7, <1>8, <1>9, FourPasses DEF r0

LEMMA StateDecodeLevel ==
  ASSUME NEW p, NEW run, RunOK(run, 4)
  PROVE  StateDecode(p, run).d.level = run.d.level
<1>1. run.d \in Decoders /\ run.status \in {"more", "error", "ok", "ready"}
  BY DEF RunOK
<1>2. run.status # "more"
  <2>1. run.status = "more" => Len(run.d.timings) + 2 * 4 <= 5
    BY DEF RunOK
  <2>2. Len(run.d.timings) \in Nat
    BY <1>1 DEF Decoders
  <2>3. QED
    BY <2>1, <2>2
<1>3. CASE run.status = "error"
  BY <1>1, <1>3, CheckPreambleLevel DEF StateDecode, Result
<1>4. CASE run.status = "ok"
  BY <1>4 DEF StateDecode, Result
<1>5. CASE run.status = "ready"
  <2> DEFINE m == MessageOf(p, run.d.bits)
  <2>1. StateDecode(p, run).d \in {[run.d EXCEPT !.state = "repeat", !.message = m],
                                   [run.d EXCEPT !.state = "wait"]}
    BY <1>5 DEF StateDecode, Result
  <2> HIDE DEF m
  <2>2. QED
    BY <1>1, <2>1 DEF Decoders
<1>6. QED
  BY <1>1, <1>2, <1>3, <1>4, <1>5

LEMMA RepeatLevel ==
  ASSUME NEW p, NEW d \in Decoders
  PROVE  StateProcessRepeat(p, DecodeRepeat(p, d)).d.level = d.level
<1>1. \/ DecodeRepeat(p, d) = [status |-> "ok", d |-> d]
      \/ DecodeRepeat(p, d) = [status |-> "ready", d |-> [d EXCEPT !.timings = <<>>]]
      \/ DecodeRepeat(p, d) = [status |-> "error", d |-> d]
  BY DEF DecodeRepeat
<1>2. CASE DecodeRepeat(p, d) = [status |-> "ok", d |-> d]
  BY <1>2 DEF StateProcessRepeat, Result
<1>3. CASE DecodeRepeat(p, d) = [status |-> "ready", d |-> [d EXCEPT !.timings = <<>>]]
  <2> DEFINE e == [d EXCEPT !.timings = <<>>]
             m == [e.message EXCEPT !.repeat = TRUE]
  <2>1. StateProcessRepeat(p, DecodeRepeat(p, d)).d = [e EXCEPT !.message = m]
    <3> DEFINE run == DecodeRepeat(p, d)
    <3>1. run.status = "ready" /\ run.d = e
      BY <1>3
    <3> HIDE DEF run, e
    <3>2. StateProcessRepeat(p, run) =
            LET x == [run.d.message EXCEPT !.repeat = TRUE] IN Result([run.d EXCEPT !.message = x], x)
      BY <3>1 DEF StateProcessRepeat
    <3>3. QED
      BY <3>1, <3>2 DEF Result, run
  <2>2. e.level = d.level /\ e \in [{"state", "timings", "level", "bits", "message"} -> {e[f] : f \in DOMAIN e}]
    BY DEF Decoders
  <2> HIDE DEF e, m
  <2>3. [e EXCEPT !.message = m].level = e.level
    BY <2>2
  <2>4. QED
    BY <2>1, <2>2, <2>3
<1>4. CASE DecodeRepeat(p, d) = [status |-> "error", d |-> d]
  BY <1>4, CheckPreambleLevel DEF StateProcessRepeat, Result
<1>5. QED
  BY <1>1, <1>2, <1>3, <1>4

LEMMA DecodeTimingKeeps ==
  ASSUME NEW p \in Protocols, NEW before, Keeps(p, before), NEW lvl \in {0, 1}, NEW duration \in Durations
  PROVE  /\ Keeps(p, DecodeTiming(p, before, lvl, duration).d)
         /\ DecodeTiming(p, before, lvl, duration).d.level = lvl
<1> DEFINE u == Append(before.timings, duration)
           d == [before EXCEPT !.level = lvl, !.timings = u]
<1>1. /\ before \in Decoders /\ before.timings \in Seq(Durations) /\ Len(before.timings) \in Nat
      /\ Len(before.bits) \in Nat /\ Len(before.bits) <= DataBits
  BY DEF Keeps, Decoders
<1>2. u \in Seq(Durations) /\ Len(u) = Len(before.timings) + 1
  BY <1>1
<1> HIDE DEF u
<1>3. /\ d \in Decoders /\ d.state = before.state /\ d.bits = before.bits /\ d.timings = u
      /\ d.level = lvl
  BY <1>1, <1>2 DEF Decoders
<1>4. DecodeTiming(p, before, lvl, duration) =
        CASE d.state = "wait"   -> Result(CheckPreamble(p, d), NoMessage)
          [] d.state = "decode" -> StateDecode(p, DecodePdwm(d))
          [] d.state = "repeat" -> StateProcessRepeat(p, DecodeRepeat(p, d))
  BY DEF DecodeTiming, u
<1> HIDE DEF d
<1>5. CASE d.state = "wait"
  <2>1. DecodeTiming(p, before, lvl, duration).d = CheckPreamble(p, d)
    BY <1>4, <1>5 DEF Result
  <2>2. Len(d.timings) <= TimingsMax
    BY <1>1, <1>2, <1>3, <1>5 DEF Keeps, TimingsMax
  <2>3. QED
    BY <1>1, <1>3, <2>1, <2>2, CheckPreambleKeeps, CheckPreambleLevel
<1>6. CASE d.state = "decode"
  <2>1. DecodeTiming(p, before, lvl, duration) = StateDecode(p, DecodePdwm(d))
    BY <1>4, <1>6
  <2>2. Len(before.timings) <= 4 /\ 2 * Len(before.bits) + Len(before.timings) <= 8
    <3>1. 2 * DataBits = 8
      BY DEF DataBits
    <3>2. QED
      BY <1>3, <1>6, <3>1 DEF Keeps
  <2>3. Len(d.timings) <= 5 /\ Len(d.bits) <= 4 /\ 2 * Len(d.bits) + Len(d.timings) <= 9
    <3> DEFINE lt == Len(before.timings)
               lb == Len(before.bits)
    <3>1. lt \in Nat /\ lb \in Nat /\ lt <= 4 /\ lb <= 4 /\ 2 * lb + lt <= 8
      BY <1>1, <2>2 DEF DataBits
    <3>2. Len(d.timings) = lt + 1 /\ Len(d.bits) = lb
      BY <1>2, <1>3
    <3> HIDE DEF lt, lb
    <3>3. lt + 1 <= 5 /\ 2 * lb + (lt + 1) <= 9
      BY <3>1
    <3>4. QED
      BY <3>1, <3>2, <3>3
  <2>4. RunOK(DecodePdwm(d), 4) /\ DecodePdwm(d).d.level = lvl
    BY <1>3, <1>6, <2>3, DecodePdwmOK, DecodePdwmLevel
  <2> DEFINE run == DecodePdwm(d)
  <2> HIDE DEF run
  <2>5. Keeps(p, StateDecode(p, run).d) /\ StateDecode(p, run).d.level = run.d.level
    BY <2>4, StateDecodeKeeps, StateDecodeLevel DEF run
  <2>6. QED
    BY <2>1, <2>4, <2>5 DEF run
<1>7. CASE d.state = "repeat"
  <2>1. DecodeTiming(p, before, lvl, duration) = StateProcessRepeat(p, DecodeRepeat(p, d))
    BY <1>4, <1>7
  <2>2. Len(d.timings) <= Len(RepeatTimings(p))
    <3>1. Len(RepeatTimings(p)) \in Nat
      BY DEF RepeatTimings
    <3>2. QED
      BY <1>1, <1>2, <1>3, <1>7, <3>1 DEF Keeps
  <2>3. QED
    BY <1>1, <1>3, <1>7, <2>1, <2>2, RepeatKeeps, RepeatLevel
<1>8. QED
  BY <1>3, <1>5, <1>6, <1>7 DEF Decoders

-----------------------------------------------------------------------------
(* What the remote sends is made of timings.                               *)
LEMMA RepeatTimingsType ==
  ASSUME NEW p
  PROVE  /\ RepeatTimings(p) \in Seq(Durations) /\ RepeatTimings(p) # <<>>
         /\ Len(RepeatTimings(p)) = 4 \/ Len(RepeatTimings(p)) = 6
<1>1. {"pause", "9000", "4500", "2250", "1600", "560"} \subseteq Durations
  BY DEF Durations
<1>2. CASE p = "nec"
  <2>1. RepeatTimings(p) = <<"pause", "9000", "2250", "560">>
    BY <1>2 DEF RepeatTimings
  <2>2. <<"pause", "9000", "2250", "560">> \in Seq(Durations)
    BY <1>1
  <2>3. QED
    BY <2>1, <2>2
<1>3. CASE p # "nec"
  <2>1. RepeatTimings(p) = <<"pause", "4500", "4500", "560", "1600", "560">>
    BY <1>3 DEF RepeatTimings
  <2>2. <<"pause", "4500", "4500", "560", "1600", "560">> \in Seq(Durations)
    BY <1>1
  <2>3. QED
    BY <2>1, <2>2
<1>4. QED
  BY <1>2, <1>3

LEMMA AirType ==
  /\ \A p \in Protocols, bits \in Bits, x \in Durations : <<x>> \o Frame(p, bits) \in Seq(Durations)
  /\ \A p : <<"pause">> \o Repeat(p) \in Seq(Durations)
<1>1. \A b : Bit(b) \in Seq(Durations)
  BY DEF Bit, Durations
<1>2. \A p : Preamble(p) \in Seq(Durations)
  <2>1. {"9000", "4500"} \subseteq Durations
    BY DEF Durations
  <2>2. <<"9000", "4500">> \in Seq(Durations) /\ <<"4500", "4500">> \in Seq(Durations)
    BY <2>1
  <2>3. QED
    BY <2>2 DEF Preamble
<1>3. \A s, u \in Seq(Durations) : s \o u \in Seq(Durations)
  OBVIOUS
<1>4. <<"560">> \in Seq(Durations) /\ <<"pause">> \in Seq(Durations)
      /\ \A x \in Durations : <<x>> \in Seq(Durations)
  BY DEF Durations
<1>5. \A p, bits : Frame(p, bits) \in Seq(Durations)
  BY <1>1, <1>2, <1>3, <1>4 DEF Frame
<1>6. \A p : Repeat(p) \in Seq(Durations)
  <2> SUFFICES ASSUME NEW p PROVE Repeat(p) \in Seq(Durations)
    OBVIOUS
  <2>1. QED
    BY RepeatTimingsType, TailType DEF Repeat
<1>7. QED
  BY <1>3, <1>4, <1>5, <1>6

LEMMA IrdaIInvInit == IrdaInit => IrdaIInv
<1>1. SUFFICES ASSUME IrdaInit PROVE IrdaIInv
  OBVIOUS
<1> DEFINE d == [state |-> "wait", timings |-> <<>>, level |-> 0, bits |-> <<>>, message |-> NoMessage]
<1>2. NoMessage \in IrdaMessages
  BY DEF NoMessage, IrdaMessages
<1>3. <<>> \in Seq(Durations) /\ <<>> \in Seq({0, 1}) /\ Len(<<>>) = 0 /\ 0 <= DataBits /\ 0 <= 1
  BY DEF DataBits
<1>4. /\ d \in Decoders /\ d.state = "wait" /\ d.timings = <<>> /\ d.bits = <<>> /\ d.level = 0
  BY <1>2, <1>3 DEF Decoders
<1> HIDE DEF d
<1>5. \A p : Keeps(p, d)
  BY <1>3, <1>4 DEF Keeps
<1>6. decoder = [p \in Protocols |-> d]
  BY <1>1 DEF IrdaInit, d
<1>7. /\ air \in Seq(Durations) /\ level = 1 /\ items = 0 /\ mistaken \in BOOLEAN
  BY <1>1, <1>3 DEF IrdaInit
<1>8. 0 \in 0..MaxItems
  BY IrdaAssumption
<1>9. QED
  BY <1>4, <1>5, <1>6, <1>7, <1>8 DEF IrdaIInv

(* The decoders run only when there is an edge.                            *)
LEMMA SendKeeps ==
  ASSUME IrdaIInv, SendFrame \/ SendRepeat \/ SendNoise \/ Interrupt
  PROVE  IrdaIInv'
<1>1. UNCHANGED <<decoder, level>>
  BY DEF SendFrame, SendRepeat, SendNoise, Interrupt
<1>2. items' \in 0..MaxItems
  BY IrdaAssumption DEF SendFrame, SendRepeat, SendNoise, Interrupt, Idle, IrdaIInv
<1>3. air' \in Seq(Durations)
  <2>1. {"pause", "gap", "noise"} \subseteq Durations
    BY DEF Durations
  <2>2. CASE SendFrame
    BY <2>1, <2>2, AirType DEF SendFrame
  <2>3. CASE SendRepeat
    BY <2>3, AirType DEF SendRepeat
  <2>4. CASE SendNoise
    BY <2>1, <2>4 DEF SendNoise
  <2>5. CASE Interrupt
    BY <2>5 DEF Interrupt
  <2>6. QED
    BY <2>2, <2>3, <2>4, <2>5
<1>4. mistaken' \in BOOLEAN
  <2>1. CASE SendFrame
    BY <2>1 DEF SendFrame, BeginsLikeRepeat
  <2>2. CASE SendRepeat \/ SendNoise \/ Interrupt
    BY <2>2 DEF SendRepeat, SendNoise, Interrupt, IrdaIInv
  <2>3. QED
    BY <2>1, <2>2
<1>5. QED
  BY <1>1, <1>2, <1>3, <1>4 DEF IrdaIInv

LEMMA AlternatingLevel ==
  ASSUME IrdaIInv, NEW p \in Protocols, NEW x
  PROVE  CommonDecode(p, decoder[p], level, x) = DecodeTiming(p, decoder[p], level, x)
BY DEF IrdaIInv, CommonDecode

LEMMA EdgeKeeps == ASSUME IrdaIInv, Edge PROVE IrdaIInv'
<1>1. /\ decoder' = [p \in Protocols |-> CommonDecode(p, decoder[p], level, Head(air)).d]
      /\ air # <<>> /\ air' = Tail(air) /\ level' = 1 - level /\ UNCHANGED <<items, mistaken>>
  BY DEF Edge
<1>2. air' \in Seq(Durations) /\ Head(air) \in Durations
  BY <1>1, TailType DEF IrdaIInv
<1>3. \A p \in Protocols : Keeps(p, decoder'[p]) /\ decoder'[p].level = level
  <2> SUFFICES ASSUME NEW p \in Protocols PROVE Keeps(p, decoder'[p]) /\ decoder'[p].level = level
    OBVIOUS
  <2>1. Keeps(p, decoder[p]) /\ level \in {0, 1}
    BY DEF IrdaIInv
  <2>2. decoder'[p] = DecodeTiming(p, decoder[p], level, Head(air)).d
    BY <1>1, AlternatingLevel
  <2>3. QED
    BY <1>2, <2>1, <2>2, DecodeTimingKeeps
<1>4. level' \in {0, 1} /\ level' # level
  BY <1>1 DEF IrdaIInv
<1>5. QED
  BY <1>1, <1>2, <1>3, <1>4 DEF IrdaIInv

THEOREM IrdaInvariance == IrdaSpec => []IrdaIInv
<1>1. IrdaIInv /\ [IrdaNext]_irdaVars => IrdaIInv'
  <2>1. IrdaIInv /\ UNCHANGED irdaVars => IrdaIInv'
    BY DEF irdaVars, IrdaIInv
  <2>2. QED
    BY <2>1, SendKeeps, EdgeKeeps DEF IrdaNext
<1>2. QED
  BY <1>1, IrdaIInvInit, PTL DEF IrdaSpec

(* For any number of frames, repeats and disturbances: timings[6] always   *)
(* has room for the next timing, and a frame has no more than its bits.    *)
THEOREM IrdaBuffersFit == IrdaSpec => []IrdaTypeOK
<1>1. IrdaIInv => IrdaTypeOK
  <2> SUFFICES ASSUME IrdaIInv PROVE IrdaTypeOK
    OBVIOUS
  <2>1. ASSUME NEW p \in Protocols
        PROVE  /\ decoder[p].state \in {"wait", "decode", "repeat"}
               /\ decoder[p].timings \in Seq(Durations) /\ Len(decoder[p].timings) < TimingsMax
               /\ decoder[p].bits \in Seq({0, 1}) /\ Len(decoder[p].bits) <= DataBits
    <3>1. Keeps(p, decoder[p])
      BY DEF IrdaIInv
    <3> DEFINE l == Len(decoder[p].timings)
               n == Len(RepeatTimings(p))
    <3>2. n = 4 \/ n = 6
      BY RepeatTimingsType
    <3>3. decoder[p].timings \in Seq(Durations) /\ decoder[p].state \in {"wait", "decode", "repeat"}
      BY <3>1 DEF Keeps, Decoders
    <3>4. l \in Nat
      BY <3>3
    <3>5. \/ decoder[p].state = "wait" /\ l <= 1
          \/ decoder[p].state = "decode" /\ l <= 4
          \/ decoder[p].state = "repeat" /\ l < n
      BY <3>1, <3>3 DEF Keeps
    <3>6. l < TimingsMax
      <4> HIDE DEF l, n
      <4>1. QED
        BY <3>2, <3>4, <3>5 DEF TimingsMax
    <3>7. QED
      BY <3>1, <3>3, <3>6 DEF Keeps, Decoders
  <2>2. QED
    BY <2>1 DEF IrdaTypeOK, IrdaIInv
<1>2. QED
  BY <1>1, IrdaInvariance, PTL

-----------------------------------------------------------------------------
(* Timings one by one.                                                     *)
Waits(e, t) == e.state = "wait" /\ e.timings = t
Starts(e, t) == e.state = "decode" /\ e.timings = t /\ e.bits = <<>>
Space(b) == IF b = 1 THEN "1600" ELSE "560"
IsBit(x, y) == x = "560" /\ y \in {"560", "1600"}

LEMMA Elements ==
  ASSUME NEW T, NEW t \in Seq(T), NEW i \in Nat, i >= 1, i <= Len(t)
  PROVE  t[i] \in T
OBVIOUS

LEMMA SameElements ==
  ASSUME NEW T, NEW v \in Seq(T), NEW w \in Seq(T), Len(v) = Len(w), \A i \in 1..Len(w) : v[i] = w[i]
  PROVE  v = w
BY SMTT(60)

LEMMA UpToThree ==
  ASSUME NEW T, NEW t \in Seq(T)
  PROVE  /\ Len(t) = 0 => t = <<>>
         /\ Len(t) = 1 => t = <<t[1]>>
         /\ Len(t) = 2 => t = <<t[1], t[2]>>
         /\ Len(t) = 3 => t = <<t[1], t[2], t[3]>>
<1>1. Len(t) = 0 => t = <<>>
  OBVIOUS
<1>2. Len(t) = 1 => t = <<t[1]>>
  OBVIOUS
<1>3. Len(t) = 2 => t = <<t[1], t[2]>>
  OBVIOUS
<1>4. Len(t) = 3 => t = <<t[1], t[2], t[3]>>
  OBVIOUS
<1>5. QED
  BY <1>1, <1>2, <1>3, <1>4

LEMMA Slice ==
  ASSUME NEW T, NEW t \in Seq(T), NEW m \in Nat, NEW n \in Nat, n <= Len(t), m <= n
  PROVE  /\ SubSeq(t, m + 1, n) \in Seq(T) /\ Len(SubSeq(t, m + 1, n)) = n - m
         /\ \A i \in 1..n - m : SubSeq(t, m + 1, n)[i] = t[m + i]
<1>1. SubSeq(t, m + 1, n) \in Seq(T) /\ Len(SubSeq(t, m + 1, n)) = n - m
  OBVIOUS
<1>2. \A i \in 1..n - m : SubSeq(t, m + 1, n)[i] = t[m + i]
  OBVIOUS
<1>3. QED
  BY <1>1, <1>2

LEMMA Pairs ==
  ASSUME NEW T, NEW t \in Seq(T)
  PROVE  /\ Len(t) >= 2 => SubSeq(t, 1, 2) = <<t[1], t[2]>>
         /\ Len(t) >= 4 => SubSeq(t, 3, 4) = <<t[3], t[4]>>
<1>1. ASSUME Len(t) >= 2 PROVE SubSeq(t, 1, 2) = <<t[1], t[2]>>
  <2> DEFINE u == SubSeq(t, 0 + 1, 2)
  <2>1. u \in Seq(T) /\ Len(u) = 2 /\ u[1] = t[1] /\ u[2] = t[2]
    <3>1. u \in Seq(T) /\ Len(u) = 2 - 0 /\ \A i \in 1..2 - 0 : u[i] = t[0 + i]
      BY <1>1, Slice
    <3> HIDE DEF u
    <3>2. u[1] = t[0 + 1] /\ u[2] = t[0 + 2]
      BY <3>1
    <3>3. QED
      BY <3>1, <3>2
  <2>2. SubSeq(t, 1, 2) = u
    OBVIOUS
  <2> HIDE DEF u
  <2>3. QED
    BY <2>1, <2>2, UpToThree
<1>2. ASSUME Len(t) >= 4 PROVE SubSeq(t, 3, 4) = <<t[3], t[4]>>
  <2> DEFINE u == SubSeq(t, 2 + 1, 4)
  <2>1. u \in Seq(T) /\ Len(u) = 2 /\ u[1] = t[3] /\ u[2] = t[4]
    <3>1. u \in Seq(T) /\ Len(u) = 4 - 2 /\ \A i \in 1..4 - 2 : u[i] = t[2 + i]
      BY <1>2, Slice
    <3> HIDE DEF u
    <3>2. u[1] = t[2 + 1] /\ u[2] = t[2 + 2]
      BY <3>1
    <3>3. QED
      BY <3>1, <3>2
  <2>2. SubSeq(t, 3, 4) = u
    OBVIOUS
  <2> HIDE DEF u
  <2>3. QED
    BY <2>1, <2>2, UpToThree
<1>3. QED
  BY <1>1, <1>2

LEMMA Dropping ==
  ASSUME NEW T, NEW t \in Seq(T), NEW m \in Nat, NEW n \in Nat, Len(t) = m + n
  PROVE  /\ Drop(t, m) \in Seq(T) /\ Len(Drop(t, m)) = n
         /\ \A i \in 1..n : Drop(t, m)[i] = t[m + i]
<1>1. m <= m + n /\ (m + n) - m = n /\ m + n \in Nat
  OBVIOUS
<1>2. Drop(t, m) = SubSeq(t, m + 1, m + n)
  BY DEF Drop
<1>3. /\ SubSeq(t, m + 1, m + n) \in Seq(T) /\ Len(SubSeq(t, m + 1, m + n)) = (m + n) - m
      /\ \A i \in 1..(m + n) - m : SubSeq(t, m + 1, m + n)[i] = t[m + i]
  BY <1>1, Slice
<1>4. QED
  BY <1>1, <1>2, <1>3

LEMMA Drops ==
  ASSUME NEW T, NEW t \in Seq(T)
  PROVE  /\ Len(t) = 0 => Drop(t, 0) = <<>>
         /\ Len(t) = 1 => Drop(t, 0) = <<t[1]>>
         /\ Len(t) = 2 => Drop(t, 2) = <<>>
         /\ Len(t) = 3 => Drop(t, 2) = <<t[3]>>
         /\ Len(t) = 4 => Drop(t, 2) = <<t[3], t[4]>>
         /\ Len(t) = 5 => Drop(t, 2) = <<t[3], t[4], t[5]>>
         /\ Len(t) = 4 => Drop(t, 4) = <<>>
         /\ Len(t) = 5 => Drop(t, 4) = <<t[5]>>
<1>1. ASSUME NEW m \in Nat, NEW n \in 0..3, Len(t) = m + n
      PROVE  Drop(t, m) = CASE n = 0 -> <<>> [] n = 1 -> <<t[m + 1]>> [] n = 2 -> <<t[m + 1], t[m + 2]>>
                            [] n = 3 -> <<t[m + 1], t[m + 2], t[m + 3]>>
  <2> DEFINE w == Drop(t, m)
  <2>1. w \in Seq(T) /\ Len(w) = n /\ \A i \in 1..n : w[i] = t[m + i]
    <3>1. n \in Nat
      OBVIOUS
    <3>2. QED
      BY <1>1, <3>1, Dropping
  <2> HIDE DEF w
  <2>2. CASE n = 0
    BY <2>1, <2>2, UpToThree DEF w
  <2>3. CASE n = 1
    <3>1. w = <<w[1]>> /\ w[1] = t[m + 1]
      BY <2>1, <2>3, UpToThree
    <3>2. QED
      BY <2>3, <3>1 DEF w
  <2>4. CASE n = 2
    <3>1. w = <<w[1], w[2]>> /\ w[1] = t[m + 1] /\ w[2] = t[m + 2]
      BY <2>1, <2>4, UpToThree
    <3>2. QED
      BY <2>4, <3>1 DEF w
  <2>5. CASE n = 3
    <3>1. w = <<w[1], w[2], w[3]>> /\ w[1] = t[m + 1] /\ w[2] = t[m + 2] /\ w[3] = t[m + 3]
      BY <2>1, <2>5, UpToThree
    <3>2. QED
      BY <2>5, <3>1 DEF w
  <2>6. QED
    BY <2>2, <2>3, <2>4, <2>5
<1>2. Len(t) = 0 => Drop(t, 0) = <<>>
  <2>1. ASSUME Len(t) = 0 + 0
        PROVE  Drop(t, 0) = <<>>
    BY <1>1, <2>1
  <2>2. QED
    BY <2>1
<1>3. Len(t) = 1 => Drop(t, 0) = <<t[1]>>
  <2>1. ASSUME Len(t) = 0 + 1
        PROVE  Drop(t, 0) = <<t[0 + 1]>>
    BY <1>1, <2>1
  <2>2. QED
    BY <2>1
<1>4. Len(t) = 2 => Drop(t, 2) = <<>>
  <2>1. ASSUME Len(t) = 2 + 0
        PROVE  Drop(t, 2) = <<>>
    BY <1>1, <2>1
  <2>2. QED
    BY <2>1
<1>5. Len(t) = 3 => Drop(t, 2) = <<t[3]>>
  <2>1. ASSUME Len(t) = 2 + 1
        PROVE  Drop(t, 2) = <<t[2 + 1]>>
    BY <1>1, <2>1
  <2>2. QED
    BY <2>1
<1>6. Len(t) = 4 => Drop(t, 2) = <<t[3], t[4]>>
  <2>1. ASSUME Len(t) = 2 + 2
        PROVE  Drop(t, 2) = <<t[2 + 1], t[2 + 2]>>
    BY <1>1, <2>1
  <2>2. QED
    BY <2>1
<1>7. Len(t) = 5 => Drop(t, 2) = <<t[3], t[4], t[5]>>
  <2>1. ASSUME Len(t) = 2 + 3
        PROVE  Drop(t, 2) = <<t[2 + 1], t[2 + 2], t[2 + 3]>>
    BY <1>1, <2>1
  <2>2. QED
    BY <2>1
<1>8. Len(t) = 4 => Drop(t, 4) = <<>>
  <2>1. ASSUME Len(t) = 4 + 0
        PROVE  Drop(t, 4) = <<>>
    BY <1>1, <2>1
  <2>2. QED
    BY <2>1
<1>9. Len(t) = 5 => Drop(t, 4) = <<t[5]>>
  <2>1. ASSUME Len(t) = 4 + 1
        PROVE  Drop(t, 4) = <<t[4 + 1]>>
    BY <1>1, <2>1
  <2>2. QED
    BY <2>1
<1>10. QED
  BY <1>2, <1>3, <1>4, <1>5, <1>6, <1>7, <1>8, <1>9

LEMMA Tails ==
  ASSUME NEW T, NEW t \in Seq(T), t # <<>>
  PROVE  \A i \in 1..Len(t) - 1 : Tail(t)[i] = t[i + 1]
OBVIOUS

LEMMA Appended ==
  ASSUME NEW T, NEW t \in Seq(T), NEW x \in T
  PROVE  /\ Append(t, x) \in Seq(T) /\ Len(Append(t, x)) = Len(t) + 1 /\ Len(t) \in Nat
         /\ Append(t, x)[Len(t) + 1] = x
         /\ \A i \in 1..Len(t) : Append(t, x)[i] = t[i]
<1>1. Append(t, x) \in Seq(T) /\ Len(Append(t, x)) = Len(t) + 1 /\ Len(t) \in Nat
  OBVIOUS
<1>2. Append(t, x)[Len(t) + 1] = x
  OBVIOUS
<1>3. \A i \in 1..Len(t) : Append(t, x)[i] = t[i]
  OBVIOUS
<1>4. QED
  BY <1>1, <1>2, <1>3

-----------------------------------------------------------------------------
(* irda_check_preamble on what is aligned: the first pair that is a        *)
(* preamble starts a frame; without one the last mark stays.               *)
FirstPair(p, t) == Len(t) >= 2 /\ <<t[1], t[2]>> = Preamble(p)
SecondPair(p, t) == Len(t) >= 4 /\ <<t[3], t[4]>> = Preamble(p)

LEMMA Search ==
  ASSUME NEW p \in Protocols, NEW d \in Decoders, NEW t \in Seq(Durations), t = Aligned(d), Len(t) <= 5
  PROVE  LET e == CheckPreamble(p, d)
         IN /\ FirstPair(p, t) => Starts(e, Drop(t, 2))
            /\ ~FirstPair(p, t) /\ SecondPair(p, t) => Starts(e, Drop(t, 4))
            /\ ~FirstPair(p, t) /\ ~SecondPair(p, t) => Waits(e, Drop(t, 2 * (Len(t) \div 2)))
<1> DEFINE pairs == Len(t) \div 2
           matches == {k \in 1..pairs : SubSeq(t, 2 * k - 1, 2 * k) = Preamble(p)}
           k == CHOOSE m \in matches : \A n \in matches : m <= n
           e == CheckPreamble(p, d)
<1>1. e = IF matches = {} THEN [d EXCEPT !.timings = Drop(t, 2 * pairs), !.state = "wait"]
          ELSE [d EXCEPT !.timings = Drop(t, 2 * k), !.state = "decode", !.bits = <<>>]
  BY DEF CheckPreamble
<1>2. /\ pairs \in 0..2 /\ (pairs >= 1 <=> Len(t) >= 2) /\ (pairs >= 2 <=> Len(t) >= 4)
  <2> DEFINE n == Len(t)
  <2>1. n \in Nat /\ n <= 5
    OBVIOUS
  <2> HIDE DEF n
  <2>2. n \div 2 \in 0..2 /\ (n \div 2 >= 1 <=> n >= 2) /\ (n \div 2 >= 2 <=> n >= 4)
    BY <2>1
  <2>3. QED
    BY <2>2 DEF n
<1> HIDE DEF pairs
<1>3. 1 \in matches <=> FirstPair(p, t)
  <2>1. 1 \in 1..pairs <=> Len(t) >= 2
    BY <1>2
  <2>2. 2 * 1 - 1 = 1 /\ 2 * 1 = 2
    OBVIOUS
  <2>3. 1 \in matches <=> 1 \in 1..pairs /\ SubSeq(t, 1, 2) = Preamble(p)
    BY <2>2
  <2>4. QED
    BY <2>1, <2>3, Pairs DEF FirstPair
<1>4. 2 \in matches <=> SecondPair(p, t)
  <2>1. 2 \in 1..pairs <=> Len(t) >= 4
    BY <1>2
  <2>2. 2 * 2 - 1 = 3 /\ 2 * 2 = 4
    OBVIOUS
  <2>3. 2 \in matches <=> 2 \in 1..pairs /\ SubSeq(t, 3, 4) = Preamble(p)
    BY <2>2
  <2>4. QED
    BY <2>1, <2>3, Pairs DEF SecondPair
<1>5. matches \subseteq {1, 2}
  BY <1>2
<1> HIDE DEF matches
<1>6. 1 \in matches => k = 1
  <2>1. 1 \in matches => \A n \in matches : 1 <= n
    BY <1>5
  <2>2. \A m \in matches : m <= 1 => m = 1
    BY <1>5
  <2>3. QED
    BY <2>1, <2>2
<1>7. matches = {2} => k = 2
  OBVIOUS
<1> HIDE DEF k
<1>8. \A s, u : [d EXCEPT !.timings = u, !.state = s].state = s
                /\ [d EXCEPT !.timings = u, !.state = s].timings = u
  BY DEF Decoders
<1>9. \A s, u, b : /\ [d EXCEPT !.timings = u, !.state = s, !.bits = b].state = s
                   /\ [d EXCEPT !.timings = u, !.state = s, !.bits = b].timings = u
                   /\ [d EXCEPT !.timings = u, !.state = s, !.bits = b].bits = b
  BY DEF Decoders
<1> HIDE DEF e
<1>10. CASE FirstPair(p, t)
  <2>1. e = [d EXCEPT !.timings = Drop(t, 2 * 1), !.state = "decode", !.bits = <<>>]
    BY <1>1, <1>3, <1>6, <1>10
  <2>2. 2 * 1 = 2
    OBVIOUS
  <2>3. Starts(e, Drop(t, 2))
    BY <1>9, <2>1, <2>2 DEF Starts
  <2>4. QED
    BY <1>10, <2>3 DEF e
<1>11. CASE ~FirstPair(p, t) /\ SecondPair(p, t)
  <2>1. matches = {2}
    BY <1>3, <1>4, <1>5, <1>11
  <2>2. e = [d EXCEPT !.timings = Drop(t, 2 * 2), !.state = "decode", !.bits = <<>>]
    BY <1>1, <1>7, <2>1
  <2>3. 2 * 2 = 4
    OBVIOUS
  <2>4. Starts(e, Drop(t, 4))
    BY <1>9, <2>2, <2>3 DEF Starts
  <2>5. QED
    BY <1>11, <2>4 DEF e
<1>12. CASE ~FirstPair(p, t) /\ ~SecondPair(p, t)
  <2>1. matches = {}
    BY <1>3, <1>4, <1>5, <1>12
  <2>2. Waits(e, Drop(t, 2 * pairs))
    BY <1>1, <1>8, <2>1 DEF Waits
  <2>3. QED
    BY <1>12, <2>2 DEF e, pairs
<1>13. QED
  BY <1>10, <1>11, <1>12

(* After a space the aligned timings are pairs.                            *)
LEMMA SearchAfterSpace ==
  ASSUME NEW p \in Protocols, NEW d \in Decoders, d.level = 1
  PROVE  LET e == CheckPreamble(p, d)
             u == d.timings
         IN /\ Len(u) = 1 => Waits(e, <<>>)
            /\ Len(u) = 2 => IF <<u[1], u[2]>> = Preamble(p) THEN Starts(e, <<>>) ELSE Waits(e, <<>>)
            /\ Len(u) = 4 /\ <<u[1], u[2]>> # Preamble(p) =>
                 IF <<u[3], u[4]>> = Preamble(p) THEN Starts(e, <<>>) ELSE Waits(e, <<>>)
<1> DEFINE e == CheckPreamble(p, d)
           u == d.timings
<1>1. u \in Seq(Durations) /\ Len(u) \in Nat
  BY DEF Decoders
<1>2. CASE Len(u) = 1
  <2> DEFINE t == Tail(u)
  <2>1. (d.level + Len(u) + 1) % 2 = 1
    <3>1. d.level + Len(u) + 1 = 3
      BY <1>2
    <3>2. 3 % 2 = 1
      OBVIOUS
    <3>3. QED
      BY <3>1, <3>2
  <2>2. u # <<>>
    <3>1. u = <<>> => Len(u) = 0
      OBVIOUS
    <3>2. QED
      BY <1>2, <3>1
  <2>3. t \in Seq(Durations) /\ Len(t) = 0 /\ Len(t) <= 5
    <3>1. t \in Seq(Durations) /\ Len(t) = Len(u) - 1
      BY <1>1, <2>2, TailType
    <3> HIDE DEF t
    <3>2. Len(t) = 1 - 1
      BY <1>2, <3>1
    <3>3. Len(t) = 0
      BY <3>2
    <3>4. Len(t) <= 5
      BY <3>3
    <3>5. QED
      BY <3>1, <3>3, <3>4
  <2>4. t = Aligned(d)
    BY <2>1, <2>2 DEF Aligned
  <2> HIDE DEF t
  <2>5. ~FirstPair(p, t) /\ ~SecondPair(p, t)
    BY <2>3 DEF FirstPair, SecondPair
  <2>6. Waits(e, Drop(t, 2 * (Len(t) \div 2)))
    BY <2>3, <2>4, <2>5, Search
  <2>7. 2 * (Len(t) \div 2) = 0
    BY <2>3
  <2>8. Drop(t, 0) = <<>>
    BY <2>3, Drops
  <2>9. QED
    BY <1>2, <2>6, <2>7, <2>8
<1>3. CASE Len(u) = 2
  <2>1. ~((d.level + Len(u) + 1) % 2 = 1)
    BY <1>1, <1>3
  <2>2. Aligned(d) = u
    BY <2>1 DEF Aligned
  <2>3. FirstPair(p, u) <=> <<u[1], u[2]>> = Preamble(p)
    BY <1>3 DEF FirstPair
  <2>4. ~SecondPair(p, u)
    BY <1>3 DEF SecondPair
  <2>5. 2 * (Len(u) \div 2) = 2
    BY <1>3
  <2>6. Drop(u, 2) = <<>>
    BY <1>1, <1>3, Drops
  <2>7. Len(u) <= 5
    BY <1>3
  <2>8. /\ FirstPair(p, u) => Starts(e, Drop(u, 2))
        /\ ~FirstPair(p, u) /\ ~SecondPair(p, u) => Waits(e, Drop(u, 2 * (Len(u) \div 2)))
    BY <1>1, <2>2, <2>7, Search
  <2>9. QED
    BY <1>3, <2>3, <2>4, <2>5, <2>6, <2>8
<1>4. CASE Len(u) = 4 /\ <<u[1], u[2]>> # Preamble(p)
  <2>1. ~((d.level + Len(u) + 1) % 2 = 1)
    BY <1>1, <1>4
  <2>2. Aligned(d) = u
    BY <2>1 DEF Aligned
  <2>3. ~FirstPair(p, u)
    BY <1>4 DEF FirstPair
  <2>4. SecondPair(p, u) <=> <<u[3], u[4]>> = Preamble(p)
    BY <1>4 DEF SecondPair
  <2>5. 2 * (Len(u) \div 2) = 4
    BY <1>4
  <2>6. Drop(u, 4) = <<>>
    BY <1>1, <1>4, Drops
  <2>7. Len(u) <= 5
    BY <1>4
  <2>8. /\ ~FirstPair(p, u) /\ SecondPair(p, u) => Starts(e, Drop(u, 4))
        /\ ~FirstPair(p, u) /\ ~SecondPair(p, u) => Waits(e, Drop(u, 2 * (Len(u) \div 2)))
    BY <1>1, <2>2, <2>7, Search
  <2>9. QED
    BY <1>4, <2>3, <2>4, <2>5, <2>6, <2>8
<1>5. QED
  BY <1>2, <1>3, <1>4

(* After a mark a pair is preceded by a space, and the mark stays.         *)
LEMMA SearchAfterMark ==
  ASSUME NEW p \in Protocols, NEW d \in Decoders, d.level = 0
  PROVE  LET e == CheckPreamble(p, d)
             u == d.timings
         IN /\ Len(u) = 1 => Waits(e, <<u[1]>>)
            /\ Len(u) = 2 => Waits(e, <<u[2]>>)
            /\ Len(u) = 4 => IF <<u[2], u[3]>> = Preamble(p)
                             THEN Starts(e, <<u[4]>>) ELSE Waits(e, <<u[4]>>)
            /\ Len(u) = 6 => IF <<u[2], u[3]>> = Preamble(p) THEN Starts(e, <<u[4], u[5], u[6]>>)
                             ELSE IF <<u[4], u[5]>> = Preamble(p) THEN Starts(e, <<u[6]>>)
                             ELSE Waits(e, <<u[6]>>)
<1> DEFINE e == CheckPreamble(p, d)
           u == d.timings
           t == Tail(u)
<1>1. u \in Seq(Durations) /\ Len(u) \in Nat
  BY DEF Decoders
<1>2. CASE Len(u) = 1
  <2>1. ~((d.level + Len(u) + 1) % 2 = 1)
    BY <1>1, <1>2
  <2>2. Aligned(d) = u
    BY <2>1 DEF Aligned
  <2>3. ~FirstPair(p, u) /\ ~SecondPair(p, u)
    BY <1>2 DEF FirstPair, SecondPair
  <2>4. 2 * (Len(u) \div 2) = 0
    BY <1>2
  <2>5. Drop(u, 0) = <<u[1]>>
    BY <1>1, <1>2, Drops
  <2>6. Len(u) <= 5
    BY <1>2
  <2>7. Waits(e, Drop(u, 2 * (Len(u) \div 2)))
    BY <1>1, <2>2, <2>3, <2>6, Search
  <2>8. QED
    BY <1>2, <2>4, <2>5, <2>7
<1>3. ASSUME Len(u) \in {2, 4, 6}
      PROVE  /\ t \in Seq(Durations) /\ Len(t) = Len(u) - 1 /\ t = Aligned(d) /\ Len(t) <= 5
             /\ \A i \in 1..Len(u) - 1 : t[i] = u[i + 1]
  <2>1. (d.level + Len(u) + 1) % 2 = 1 /\ u # <<>>
    <3>1. d.level + Len(u) + 1 = 3 \/ d.level + Len(u) + 1 = 5 \/ d.level + Len(u) + 1 = 7
      <4> DEFINE n == Len(u)
      <4>1. n = 2 \/ n = 4 \/ n = 6
        BY <1>3
      <4> HIDE DEF n
      <4>2. 0 + n + 1 = 3 \/ 0 + n + 1 = 5 \/ 0 + n + 1 = 7
        BY <4>1
      <4>3. QED
        BY <4>2 DEF n
    <3>2. 3 % 2 = 1 /\ 5 % 2 = 1 /\ 7 % 2 = 1
      OBVIOUS
    <3>3. u # <<>>
      <4>1. u = <<>> => Len(u) = 0
        OBVIOUS
      <4> DEFINE n == Len(u)
      <4>2. n \in {2, 4, 6}
        BY <1>3
      <4> HIDE DEF n
      <4>3. n # 0
        BY <4>2
      <4>4. QED
        BY <4>1, <4>3 DEF n
    <3>4. QED
      BY <3>1, <3>2, <3>3
  <2>2. t \in Seq(Durations) /\ Len(t) = Len(u) - 1
    BY <1>1, <2>1, TailType
  <2>3. \A i \in 1..Len(u) - 1 : t[i] = u[i + 1]
    BY <1>1, <2>1, Tails
  <2>4. t = Aligned(d)
    BY <2>1 DEF Aligned
  <2>5. Len(t) <= 5
    <3> DEFINE n == Len(t)
    <3>1. n = 2 - 1 \/ n = 4 - 1 \/ n = 6 - 1
      BY <1>3, <2>2
    <3> HIDE DEF n
    <3>2. n <= 5
      BY <3>1
    <3>3. QED
      BY <3>2 DEF n
  <2>6. QED
    BY <2>2, <2>3, <2>4, <2>5
<1>4. CASE Len(u) = 2
  <2>1. /\ t \in Seq(Durations) /\ Len(t) = 1 /\ Len(t) <= 5 /\ t = Aligned(d) /\ t[1] = u[2]
    <3>1. /\ t \in Seq(Durations) /\ Len(t) = 2 - 1 /\ t = Aligned(d)
          /\ \A i \in 1..2 - 1 : t[i] = u[i + 1]
      BY <1>3, <1>4
    <3> HIDE DEF t
    <3>2. t[1] = u[1 + 1]
      BY <3>1
    <3>3. QED
      BY <3>1, <3>2
  <2> HIDE DEF t
  <2>2. ~FirstPair(p, t) /\ ~SecondPair(p, t)
    BY <2>1 DEF FirstPair, SecondPair
  <2>3. 2 * (Len(t) \div 2) = 0
    BY <2>1
  <2>4. Drop(t, 0) = <<u[2]>>
    BY <2>1, Drops
  <2>5. Waits(e, Drop(t, 2 * (Len(t) \div 2)))
    BY <2>1, <2>2, Search
  <2>6. QED
    BY <1>4, <2>3, <2>4, <2>5
<1>5. CASE Len(u) = 4
  <2>1. /\ t \in Seq(Durations) /\ Len(t) = 3 /\ Len(t) <= 5 /\ t = Aligned(d)
        /\ t[1] = u[2] /\ t[2] = u[3] /\ t[3] = u[4]
    <3>1. /\ t \in Seq(Durations) /\ Len(t) = 4 - 1 /\ t = Aligned(d)
          /\ \A i \in 1..4 - 1 : t[i] = u[i + 1]
      BY <1>3, <1>5
    <3> HIDE DEF t
    <3>2. t[1] = u[1 + 1] /\ t[2] = u[2 + 1] /\ t[3] = u[3 + 1]
      BY <3>1
    <3>3. QED
      BY <3>1, <3>2
  <2> HIDE DEF t
  <2>2. (FirstPair(p, t) <=> <<u[2], u[3]>> = Preamble(p)) /\ ~SecondPair(p, t)
    BY <2>1 DEF FirstPair, SecondPair
  <2>3. 2 * (Len(t) \div 2) = 2
    BY <2>1
  <2>4. Drop(t, 2) = <<u[4]>>
    BY <2>1, Drops
  <2>5. /\ FirstPair(p, t) => Starts(e, Drop(t, 2))
        /\ ~FirstPair(p, t) /\ ~SecondPair(p, t) => Waits(e, Drop(t, 2 * (Len(t) \div 2)))
    BY <2>1, Search
  <2>6. QED
    BY <1>5, <2>2, <2>3, <2>4, <2>5
<1>6. CASE Len(u) = 6
  <2>1. /\ t \in Seq(Durations) /\ Len(t) = 5 /\ Len(t) <= 5 /\ t = Aligned(d)
        /\ t[1] = u[2] /\ t[2] = u[3] /\ t[3] = u[4] /\ t[4] = u[5] /\ t[5] = u[6]
    <3>1. /\ t \in Seq(Durations) /\ Len(t) = 6 - 1 /\ t = Aligned(d)
          /\ \A i \in 1..6 - 1 : t[i] = u[i + 1]
      BY <1>3, <1>6
    <3> HIDE DEF t
    <3>2. /\ t[1] = u[1 + 1] /\ t[2] = u[2 + 1] /\ t[3] = u[3 + 1] /\ t[4] = u[4 + 1]
          /\ t[5] = u[5 + 1]
      BY <3>1
    <3>3. QED
      BY <3>1, <3>2
  <2> HIDE DEF t
  <2>2. /\ FirstPair(p, t) <=> <<u[2], u[3]>> = Preamble(p)
        /\ SecondPair(p, t) <=> <<u[4], u[5]>> = Preamble(p)
    BY <2>1 DEF FirstPair, SecondPair
  <2>3. 2 * (Len(t) \div 2) = 4
    BY <2>1
  <2>4. Drop(t, 2) = <<u[4], u[5], u[6]>>
    BY <2>1, Drops
  <2>5. Drop(t, 4) = <<u[6]>>
    BY <2>1, Drops
  <2>6. /\ FirstPair(p, t) => Starts(e, Drop(t, 2))
        /\ ~FirstPair(p, t) /\ SecondPair(p, t) => Starts(e, Drop(t, 4))
        /\ ~FirstPair(p, t) /\ ~SecondPair(p, t) => Waits(e, Drop(t, 2 * (Len(t) \div 2)))
    BY <2>1, Search
  <2>7. QED
    BY <1>6, <2>2, <2>3, <2>4, <2>5, <2>6
<1>7. QED
  BY <1>2, <1>4, <1>5, <1>6

-----------------------------------------------------------------------------
(* One pass of irda_common_decode_pdwm, case by case.                      *)
More(d) == [status |-> "more", d |-> d]
WithBit(d, v) == [d EXCEPT !.bits = Append(d.bits, v), !.timings = Drop(d.timings, 2)]

LEMMA PassFinished ==
  ASSUME NEW run, run.status # "more"
  PROVE  PdwmPass(run) = run
BY DEF PdwmPass

LEMMA PassShort ==
  ASSUME NEW d \in Decoders, Len(d.timings) < 2, ~(Len(d.bits) = 4 /\ Len(d.timings) = 1)
  PROVE  PdwmPass(More(d)) = [status |-> "ok", d |-> d]
BY DEF PdwmPass, More, DataBits

LEMMA PassStop ==
  ASSUME NEW d \in Decoders, Len(d.timings) = 1, Len(d.bits) = 4
  PROVE  PdwmPass(More(d)) = IF d.timings[1] = "560"
                             THEN [status |-> "ready", d |-> [d EXCEPT !.timings = <<>>]]
                             ELSE [status |-> "error", d |-> d]
BY DEF PdwmPass, More, DataBits

LEMMA FirstBit ==
  ASSUME NEW t \in Seq(Durations), Len(t) >= 2, NEW v \in {0, 1}
  PROVE  StartsWith(t, Bit(v)) <=> t[1] = "560" /\ t[2] = Space(v)
<1>1. Len(Bit(v)) = 2 /\ Bit(v) = <<"560", Space(v)>>
  BY DEF Bit, Space
<1>2. SubSeq(t, 1, 2) = <<t[1], t[2]>>
  BY Pairs
<1>3. StartsWith(t, Bit(v)) <=> <<t[1], t[2]>> = <<"560", Space(v)>>
  BY <1>1, <1>2 DEF StartsWith
<1>4. QED
  BY <1>3

LEMMA PassBit ==
  ASSUME NEW d \in Decoders, Len(d.timings) >= 2, NEW v \in {0, 1},
         d.timings[1] = "560", d.timings[2] = Space(v)
  PROVE  PdwmPass(More(d)) = More(WithBit(d, v))
<1> DEFINE bits == {b \in {0, 1} : StartsWith(d.timings, Bit(b))}
<1>1. d.timings \in Seq(Durations)
  BY DEF Decoders
<1>2. \A b \in {0, 1} : b \in bits <=> Space(b) = Space(v)
  BY <1>1, FirstBit
<1>3. bits = {v}
  BY <1>2 DEF Space
<1>4. ~(Len(d.bits) = DataBits /\ Len(d.timings) = 1) /\ ~(Len(d.timings) < 2)
  BY <1>1
<1> HIDE DEF bits
<1>5. (CHOOSE b \in bits : TRUE) = v /\ bits # {}
  BY <1>3
<1>6. PdwmPass(More(d)) =
        [status |-> "more",
         d |-> [d EXCEPT !.bits = Append(d.bits, CHOOSE b \in bits : TRUE), !.timings = Drop(d.timings, 2)]]
  BY <1>4, <1>5 DEF PdwmPass, More, bits
<1>7. QED
  BY <1>5, <1>6 DEF More, WithBit

LEMMA PassNoBit ==
  ASSUME NEW d \in Decoders, Len(d.timings) >= 2, ~IsBit(d.timings[1], d.timings[2])
  PROVE  PdwmPass(More(d)) = [status |-> "error", d |-> d]
<1> DEFINE bits == {b \in {0, 1} : StartsWith(d.timings, Bit(b))}
<1>1. d.timings \in Seq(Durations)
  BY DEF Decoders
<1>2. bits = {}
  BY <1>1, FirstBit DEF IsBit, Space
<1>3. ~(Len(d.bits) = DataBits /\ Len(d.timings) = 1) /\ ~(Len(d.timings) < 2)
  BY <1>1
<1>4. QED
  BY <1>2, <1>3 DEF PdwmPass, More

LEMMA WithBitType ==
  ASSUME NEW d \in Decoders, NEW v \in {0, 1}, Len(d.timings) >= 2
  PROVE  /\ WithBit(d, v) \in Decoders /\ WithBit(d, v).timings = Drop(d.timings, 2)
         /\ WithBit(d, v).bits = Append(d.bits, v) /\ WithBit(d, v).state = d.state
         /\ WithBit(d, v).level = d.level
<1> DEFINE u == Drop(d.timings, 2)
           c == Append(d.bits, v)
<1>1. d.timings \in Seq(Durations) /\ d.bits \in Seq({0, 1})
  BY DEF Decoders
<1>2. u \in Seq(Durations) /\ c \in Seq({0, 1})
  BY <1>1, Dropped
<1>3. WithBit(d, v) = [d EXCEPT !.bits = c, !.timings = u]
  BY DEF WithBit
<1> HIDE DEF u, c
<1>4. /\ WithBit(d, v) \in Decoders /\ WithBit(d, v).timings = u /\ WithBit(d, v).bits = c
      /\ WithBit(d, v).state = d.state /\ WithBit(d, v).level = d.level
  BY <1>2, <1>3 DEF Decoders
<1>5. QED
  BY <1>4 DEF u, c

-----------------------------------------------------------------------------
(* What one more timing does to a decoder in the middle of a frame.        *)
Decoded(p, d) == StateDecode(p, DecodePdwm(d))

LEMMA DecodedOnce ==
  ASSUME NEW d, PdwmPass(More(d)).status # "more"
  PROVE  DecodePdwm(d) = PdwmPass(More(d))
<1> DEFINE r == PdwmPass(More(d))
<1>1. PdwmPass(r) = r
  BY PassFinished
<1>2. DecodePdwm(d) = PdwmPass(PdwmPass(PdwmPass(r)))
  BY FourPasses DEF More
<1> HIDE DEF r
<1>3. DecodePdwm(d) = r
  BY <1>1, <1>2
<1>4. QED
  BY <1>3 DEF r

LEMMA DecodedTwice ==
  ASSUME NEW d, NEW e, PdwmPass(More(d)) = More(e), PdwmPass(More(e)).status # "more"
  PROVE  DecodePdwm(d) = PdwmPass(More(e))
<1> DEFINE r == PdwmPass(More(e))
<1>1. PdwmPass(r) = r
  BY PassFinished
<1>2. DecodePdwm(d) = PdwmPass(PdwmPass(r))
  BY FourPasses DEF More
<1> HIDE DEF r
<1>3. DecodePdwm(d) = r
  BY <1>1, <1>2
<1>4. QED
  BY <1>3 DEF r

LEMMA DecodedThrice ==
  ASSUME NEW d, NEW e, NEW f, PdwmPass(More(d)) = More(e), PdwmPass(More(e)) = More(f),
         PdwmPass(More(f)).status # "more"
  PROVE  DecodePdwm(d) = PdwmPass(More(f))
<1> DEFINE r == PdwmPass(More(f))
<1>1. PdwmPass(r) = r
  BY PassFinished
<1>2. DecodePdwm(d) = PdwmPass(r)
  BY FourPasses DEF More
<1> HIDE DEF r
<1>3. DecodePdwm(d) = r
  BY <1>1, <1>2
<1>4. QED
  BY <1>3 DEF r

LEMMA StateDecoded ==
  ASSUME NEW p, NEW d
  PROVE  /\ StateDecode(p, [status |-> "ok", d |-> d]) = Result(d, NoMessage)
         /\ StateDecode(p, [status |-> "error", d |-> d]) = Result(CheckPreamble(p, d), NoMessage)
<1>1. StateDecode(p, [status |-> "ok", d |-> d]) = Result(d, NoMessage)
  BY DEF StateDecode
<1>2. StateDecode(p, [status |-> "error", d |-> d]) = Result(CheckPreamble(p, d), NoMessage)
  BY DEF StateDecode
<1>3. QED
  BY <1>1, <1>2

LEMMA DecodedHalf ==
  ASSUME NEW p, NEW d \in Decoders, Len(d.timings) = 1, Len(d.bits) < 4
  PROVE  Decoded(p, d) = Result(d, NoMessage)
<1>1. Len(d.timings) < 2 /\ Len(d.bits) # 4
  <2>1. d.bits \in Seq({0, 1})
    BY DEF Decoders
  <2> DEFINE n == Len(d.bits)
  <2>2. n \in Nat /\ n < 4
    BY <2>1
  <2> HIDE DEF n
  <2>3. n # 4
    BY <2>2
  <2>4. Len(d.timings) < 2
    OBVIOUS
  <2>5. QED
    BY <2>3, <2>4 DEF n
<1>2. PdwmPass(More(d)) = [status |-> "ok", d |-> d]
  BY <1>1, PassShort
<1>3. DecodePdwm(d) = [status |-> "ok", d |-> d]
  BY <1>2, DecodedOnce
<1>4. QED
  BY <1>3, StateDecoded DEF Decoded

LEMMA DecodedNoBit ==
  ASSUME NEW p, NEW d \in Decoders,
         \/ Len(d.timings) >= 2 /\ ~IsBit(d.timings[1], d.timings[2])
         \/ Len(d.timings) = 1 /\ Len(d.bits) = 4 /\ d.timings[1] # "560"
  PROVE  Decoded(p, d) = Result(CheckPreamble(p, d), NoMessage)
<1>1. PdwmPass(More(d)) = [status |-> "error", d |-> d]
  BY PassNoBit, PassStop
<1>2. DecodePdwm(d) = [status |-> "error", d |-> d]
  BY <1>1, DecodedOnce
<1>3. QED
  BY <1>2, StateDecoded DEF Decoded

LEMMA DecodedBit ==
  ASSUME NEW p, NEW d \in Decoders, NEW v \in {0, 1},
         Len(d.timings) = 2, d.timings[1] = "560", d.timings[2] = Space(v)
  PROVE  /\ Decoded(p, d) = Result(WithBit(d, v), NoMessage)
         /\ WithBit(d, v).timings = <<>>
<1> DEFINE e == WithBit(d, v)
<1>1. Len(d.timings) >= 2 /\ d.timings \in Seq(Durations)
  BY DEF Decoders
<1>2. PdwmPass(More(d)) = More(e)
  BY <1>1, PassBit
<1>3. e \in Decoders /\ e.timings = Drop(d.timings, 2)
  BY <1>1, WithBitType
<1> HIDE DEF e
<1>4. e.timings = <<>>
  BY <1>1, <1>3, Drops
<1>5. Len(e.timings) < 2 /\ Len(e.timings) # 1
  BY <1>4
<1>6. PdwmPass(More(e)) = [status |-> "ok", d |-> e]
  BY <1>3, <1>5, PassShort
<1>7. DecodePdwm(d) = [status |-> "ok", d |-> e]
  BY <1>2, <1>6, DecodedTwice
<1>8. QED
  BY <1>4, <1>7, StateDecoded DEF Decoded, e

(* The timings left by a repeat that was none: one bit, then none.         *)
LEMMA DecodedBitThenNone ==
  ASSUME NEW p, NEW d \in Decoders, NEW v \in {0, 1},
         Len(d.timings) = 4, d.timings[1] = "560", d.timings[2] = Space(v),
         ~IsBit(d.timings[3], d.timings[4])
  PROVE  /\ Decoded(p, d) = Result(CheckPreamble(p, WithBit(d, v)), NoMessage)
         /\ WithBit(d, v).timings = <<d.timings[3], d.timings[4]>>
<1> DEFINE e == WithBit(d, v)
<1>1. Len(d.timings) >= 2 /\ d.timings \in Seq(Durations)
  BY DEF Decoders
<1>2. PdwmPass(More(d)) = More(e)
  BY <1>1, PassBit
<1>3. e \in Decoders /\ e.timings = Drop(d.timings, 2)
  BY <1>1, WithBitType
<1> HIDE DEF e
<1>4. e.timings = <<d.timings[3], d.timings[4]>>
  BY <1>1, <1>3, Drops
<1>5. Len(e.timings) >= 2 /\ e.timings[1] = d.timings[3] /\ e.timings[2] = d.timings[4]
  BY <1>4
<1>6. PdwmPass(More(e)) = [status |-> "error", d |-> e]
  BY <1>3, <1>5, PassNoBit
<1>7. DecodePdwm(d) = [status |-> "error", d |-> e]
  BY <1>2, <1>6, DecodedTwice
<1>8. QED
  BY <1>4, <1>7, StateDecoded DEF Decoded, e

LEMMA DecodedTwoBits ==
  ASSUME NEW p, NEW d \in Decoders, NEW v \in {0, 1}, NEW w \in {0, 1},
         Len(d.timings) = 4, d.timings[1] = "560", d.timings[2] = Space(v),
         d.timings[3] = "560", d.timings[4] = Space(w)
  PROVE  /\ Decoded(p, d) = Result(WithBit(WithBit(d, v), w), NoMessage)
         /\ WithBit(WithBit(d, v), w).timings = <<>>
<1> DEFINE e == WithBit(d, v)
           f == WithBit(e, w)
<1>1. Len(d.timings) >= 2 /\ d.timings \in Seq(Durations)
  BY DEF Decoders
<1>2. PdwmPass(More(d)) = More(e)
  BY <1>1, PassBit
<1>3. e \in Decoders /\ e.timings = Drop(d.timings, 2)
  BY <1>1, WithBitType
<1> HIDE DEF e
<1>4. e.timings = <<d.timings[3], d.timings[4]>>
  BY <1>1, <1>3, Drops
<1>5. /\ Len(e.timings) >= 2 /\ Len(e.timings) = 2 /\ e.timings[1] = "560" /\ e.timings[2] = Space(w)
      /\ e.timings \in Seq(Durations)
  <2>1. Len(e.timings) = 2 /\ e.timings[1] = d.timings[3] /\ e.timings[2] = d.timings[4]
    BY <1>4
  <2>2. e.timings \in Seq(Durations)
    BY <1>3 DEF Decoders
  <2>3. QED
    BY <2>1, <2>2
<1>6. PdwmPass(More(e)) = More(f)
  BY <1>3, <1>5, PassBit
<1>7. f \in Decoders /\ f.timings = Drop(e.timings, 2)
  BY <1>3, <1>5, WithBitType
<1> HIDE DEF f
<1>8. f.timings = <<>>
  BY <1>5, <1>7, Drops
<1>9. Len(f.timings) < 2 /\ Len(f.timings) # 1
  BY <1>8
<1>10. PdwmPass(More(f)) = [status |-> "ok", d |-> f]
  BY <1>7, <1>9, PassShort
<1>11. DecodePdwm(d) = [status |-> "ok", d |-> f]
  BY <1>2, <1>6, <1>10, DecodedThrice
<1>12. QED
  BY <1>8, <1>11, StateDecoded DEF Decoded, e, f

(* The stop bit: interpret_nec and interpret_samsung32 decide.             *)
LEMMA DecodedStop ==
  ASSUME NEW p, NEW d \in Decoders, Len(d.timings) = 1, Len(d.bits) = 4, d.timings[1] = "560"
  PROVE  LET r == Decoded(p, d)
             m == MessageOf(p, d.bits)
         IN /\ r.d.timings = <<>>
            /\ Interprets(p, d.bits) =>
                 r.message = m /\ r.d.state = "repeat" /\ r.d.message = m
            /\ ~Interprets(p, d.bits) => r.message = NoMessage /\ r.d.state = "wait"
<1> DEFINE e == [d EXCEPT !.timings = <<>>]
           m == MessageOf(p, d.bits)
<1>1. PdwmPass(More(d)) = [status |-> "ready", d |-> e]
  BY PassStop
<1>2. DecodePdwm(d) = [status |-> "ready", d |-> e]
  BY <1>1, DecodedOnce
<1>3. e.bits = d.bits /\ e.timings = <<>>
  BY DEF Decoders
<1>4. <<>> \in Seq(Durations)
  OBVIOUS
<1>5. e \in Decoders
  BY <1>4 DEF Decoders
<1> HIDE DEF e, m
<1>6. Decoded(p, d) = IF Interprets(p, e.bits)
                      THEN Result([e EXCEPT !.state = "repeat", !.message = m], m)
                      ELSE Result([e EXCEPT !.state = "wait"], NoMessage)
  <2> DEFINE run == DecodePdwm(d)
  <2>1. run.status = "ready" /\ run.d = e
    BY <1>2
  <2> HIDE DEF run
  <2>2. StateDecode(p, run) =
          LET x == MessageOf(p, run.d.bits)
          IN IF Interprets(p, run.d.bits)
             THEN Result([run.d EXCEPT !.state = "repeat", !.message = x], x)
             ELSE Result([run.d EXCEPT !.state = "wait"], NoMessage)
    BY <2>1 DEF StateDecode
  <2>3. QED
    BY <1>3, <2>1, <2>2 DEF Decoded, run, m
<1>7. /\ [e EXCEPT !.state = "repeat", !.message = m].timings = <<>>
      /\ [e EXCEPT !.state = "repeat", !.message = m].state = "repeat"
      /\ [e EXCEPT !.state = "repeat", !.message = m].message = m
      /\ [e EXCEPT !.state = "wait"].timings = <<>> /\ [e EXCEPT !.state = "wait"].state = "wait"
  BY <1>3, <1>5 DEF Decoders
<1>8. QED
  BY <1>3, <1>6, <1>7 DEF Result, m

-----------------------------------------------------------------------------
(* What a decoder knows while the remote is silent, and of a frame, a      *)
(* repeat or a disturbance of which it was given the first k timings.      *)
Silences == {"pause", "gap", "noise"}
Sent(s, q, bits) == <<s>> \o Frame(q, bits)
Begins(t, A, k) == Len(t) = k /\ \A i \in 1..k : t[i] = A[i]

(* At rest the last timing was a mark, or the decoder dropped everything.  *)
Resting(p, d) ==
  /\ d.state = "decode" =>
       \/ Len(d.timings) <= 1
       \/ Len(d.timings) = 3 /\ d.bits = <<>> /\ <<d.timings[1], d.timings[2]>> # Preamble(p)
  /\ d.state = "repeat" => Len(d.timings) \in {0, 2, 4}

(* After the silence s.                                                    *)
Silent(d, s) ==
  \/ d.state = "wait" /\ d.timings = <<>>
  \/ d.state = "decode" /\ d.timings = <<s>> /\ Len(d.bits) < 4
  \/ d.state = "repeat" /\ Len(d.timings) \in {1, 3, 5} /\ d.timings[Len(d.timings)] = s

(* After the silence s and the mark y.                                     *)
Marked(d, s, y) ==
  \/ d.state = "wait" /\ d.timings = <<y>>
  \/ /\ d.state = "decode" /\ d.bits = <<>> /\ Len(d.timings) = 3
     /\ d.timings[2] = s /\ d.timings[3] = y
  \/ d.state = "repeat" /\ d.timings = <<s, y>>
  \/ d.state = "repeat" /\ Len(d.timings) = 4 /\ d.timings[3] = s /\ d.timings[4] = y

(* From the preamble on: in step with a frame of its own protocol, past a  *)
(* frame of the other one, or still collecting what may be a repeat.       *)
Synced(d, bits, k) ==
  /\ d.state = "decode" /\ \A i \in 1..Len(d.bits) : d.bits[i] = bits[i]
  /\ \/ d.timings = <<>> /\ k = 2 * Len(d.bits) + 3
     \/ d.timings = <<"560">> /\ k = 2 * Len(d.bits) + 4
     \/ d.timings = <<"560", Space(bits[1]), "560">> /\ d.bits = <<>> /\ k = 6

Missed(d, k) == d.state = "wait" /\ d.timings = IF k \in {4, 6, 8, 10} THEN <<"560">> ELSE <<>>

Buffered(d, A, k) ==
  /\ d.state = "repeat"
  /\ \/ Begins(d.timings, A, k)
     \/ /\ k = 3 /\ Len(d.timings) = 5
        /\ d.timings[3] = A[1] /\ d.timings[4] = A[2] /\ d.timings[5] = A[3]

(* A frame after the silence s.  A decoder that was given just this frame  *)
(* and waits for a repeat will see that it is none.                        *)
Apart(p, s, q, bits) == s = "gap" \/ p # q \/ p = "nec" \/ bits[1] = 0

Follows(p, d, s, q, bits, k) ==
  \/ Buffered(d, Sent(s, q, bits), k)
  \/ p = q /\ Synced(d, bits, k)
  \/ p # q /\ Missed(d, k)

Hears(p, d, s, q, bits, k) ==
  /\ d.state = "repeat" /\ Len(d.timings) = k => Apart(p, s, q, bits)
  /\ k = 0 => Resting(p, d)
  /\ k = 1 => Silent(d, s)
  /\ k = 2 => Marked(d, s, Preamble(q)[1])
  /\ k > 2 => Follows(p, d, s, q, bits, k)

(* A frame that is taken for a repeat: its first six timings complete one, *)
(* and the next six are no repeat and hold no preamble.                    *)
Misled(d, bits, k) ==
  /\ d.state = "repeat"
  /\ k < 6 => Begins(d.timings, Sent("pause", "samsung", bits), k)
  /\ k >= 6 =>
       Len(d.timings) = k - 6 /\ \A i \in 1..Len(d.timings) : d.timings[i] \in {"560", "1600"}

HearsFrame(m, p, d, s, q, bits, k) ==
  IF m /\ p = "samsung" THEN Misled(d, bits, k) ELSE Hears(p, d, s, q, bits, k)

(* A repeat: the decoder of a valid frame collects it, unless it took the  *)
(* frame for a repeat, and the others do not wait for one.                 *)
Legit(p, q, bits) == p = q /\ Interprets(q, bits)
Knows(d, q, bits) ==
  [d.message EXCEPT !.repeat = TRUE] = [MessageOf(q, bits) EXCEPT !.repeat = TRUE]

Collects(d, q, bits, k) ==
  d.state = "repeat" /\ Begins(d.timings, RepeatTimings(q), k) /\ Knows(d, q, bits)

Overhears(p, d, y, k) ==
  /\ d.state # "repeat"
  /\ k = 0 => Resting(p, d)
  /\ k = 1 => Silent(d, "pause")
  /\ k = 2 => Waits(d, <<y>>)
  /\ k = 3 => d.timings = <<>> /\ (d.state = "decode" => d.bits = <<>>)
  /\ k = 4 => d.timings = <<"560">> /\ (d.state = "decode" => d.bits = <<>>)
  /\ k = 5 => d.timings = <<>> /\ (d.state = "decode" => Len(d.bits) <= 1)

HearsRepeat(m, p, d, q, bits, k) ==
  IF Legit(p, q, bits) /\ ~m THEN Collects(d, q, bits, k)
  ELSE Overhears(p, d, RepeatTimings(q)[2], k)

(* What is left to send, and the level of its first timing.                *)
Remains(t, A, k) ==
  t \in Seq(Durations) /\ Len(t) = Len(A) - k /\ \A i \in 1..Len(t) : t[i] = A[k + i]
LevelAt(k) == IF k \in {0, 2, 4, 6, 8, 10} THEN 1 ELSE 0

Quiet ==
  /\ air = <<>> /\ sending = Nothing /\ level = 1
  /\ \A p \in Protocols : Resting(p, decoder[p])
  /\ \/ lastSent = Nothing
     \/ \E q \in Protocols, bits \in Bits :
          /\ lastSent = [kind |-> "frame", protocol |-> q, bits |-> bits]
          /\ \A p \in Protocols : HearsRepeat(mistaken, p, decoder[p], q, bits, 0)

InFrame ==
  \E s \in {"pause", "gap"}, q \in Protocols, bits \in Bits, k \in 0..11 :
    /\ sending = [kind |-> "frame", protocol |-> q, bits |-> bits] /\ lastSent = Nothing
    /\ Remains(air, Sent(s, q, bits), k) /\ level = LevelAt(k)
    /\ mistaken => s = "pause" /\ q = "samsung" /\ bits[1] = 1
    /\ \A p \in Protocols : HearsFrame(mistaken, p, decoder[p], s, q, bits, k)

InRepeat ==
  \E q \in Protocols, bits \in Bits, k \in 0..5 :
    /\ sending = [kind |-> "repeat", protocol |-> q, bits |-> bits]
    /\ lastSent = [kind |-> "frame", protocol |-> q, bits |-> bits]
    /\ k < Len(RepeatTimings(q)) /\ Remains(air, RepeatTimings(q), k) /\ level = LevelAt(k)
    /\ \A p \in Protocols : HearsRepeat(mistaken, p, decoder[p], q, bits, k)

InNoise ==
  \E s \in Silences, k \in {0, 1} :
    /\ sending = Nothing /\ lastSent = Nothing
    /\ Remains(air, <<s, "noise">>, k) /\ level = LevelAt(k)
    /\ \A p \in Protocols : IF k = 0 THEN Resting(p, decoder[p]) ELSE Silent(decoder[p], s)

DecodeIInv ==
  /\ IrdaIInv
  /\ Quiet \/ InFrame \/ InRepeat \/ InNoise

-----------------------------------------------------------------------------
(* irda_common_decode, by the state of the decoder.                        *)
Fed(b, lvl, x) == [b EXCEPT !.level = lvl, !.timings = Append(b.timings, x)]
Repeated(p, d) == StateProcessRepeat(p, DecodeRepeat(p, d))

LEMMA FedType ==
  ASSUME NEW b \in Decoders, NEW lvl \in {0, 1}, NEW x \in Durations
  PROVE  LET d == Fed(b, lvl, x)
         IN /\ d \in Decoders /\ d.state = b.state /\ d.bits = b.bits /\ d.message = b.message
            /\ d.level = lvl /\ d.timings = Append(b.timings, x)
            /\ b.timings \in Seq(Durations) /\ d.timings \in Seq(Durations)
            /\ Len(b.timings) \in Nat /\ Len(d.timings) = Len(b.timings) + 1
            /\ d.timings[Len(b.timings) + 1] = x
            /\ \A i \in 1..Len(b.timings) : d.timings[i] = b.timings[i]
<1> DEFINE u == Append(b.timings, x)
           d == Fed(b, lvl, x)
<1>1. b.timings \in Seq(Durations)
  BY DEF Decoders
<1>2. /\ u \in Seq(Durations) /\ Len(u) = Len(b.timings) + 1 /\ Len(b.timings) \in Nat
      /\ u[Len(b.timings) + 1] = x /\ \A i \in 1..Len(b.timings) : u[i] = b.timings[i]
  BY <1>1, Appended
<1>3. d = [b EXCEPT !.level = lvl, !.timings = u]
  BY DEF Fed
<1> HIDE DEF u
<1>4. /\ d \in Decoders /\ d.state = b.state /\ d.bits = b.bits /\ d.message = b.message
      /\ d.level = lvl /\ d.timings = u
  BY <1>2, <1>3 DEF Decoders
<1> HIDE DEF d
<1>5. d.timings = Append(b.timings, x)
  BY <1>4 DEF u
<1>6. QED
  BY <1>1, <1>2, <1>4, <1>5 DEF d

LEMMA ByState ==
  ASSUME NEW p \in Protocols, NEW b \in Decoders, NEW lvl \in {0, 1}, NEW x \in Durations
  PROVE  LET d == Fed(b, lvl, x)
             r == DecodeTiming(p, b, lvl, x)
         IN /\ b.state = "wait" => r = Result(CheckPreamble(p, d), NoMessage)
            /\ b.state = "decode" => r = Decoded(p, d)
            /\ b.state = "repeat" => r = Repeated(p, d)
<1> DEFINE d == Fed(b, lvl, x)
<1>1. d.state = b.state
  BY FedType
<1>2. DecodeTiming(p, b, lvl, x) =
        CASE d.state = "wait"   -> Result(CheckPreamble(p, d), NoMessage)
          [] d.state = "decode" -> StateDecode(p, DecodePdwm(d))
          [] d.state = "repeat" -> StateProcessRepeat(p, DecodeRepeat(p, d))
  BY DEF DecodeTiming, Fed
<1> HIDE DEF d
<1>3. b.state = "wait" => DecodeTiming(p, b, lvl, x) = Result(CheckPreamble(p, d), NoMessage)
  BY <1>1, <1>2
<1>4. b.state = "decode" => DecodeTiming(p, b, lvl, x) = Decoded(p, d)
  BY <1>1, <1>2 DEF Decoded
<1>5. b.state = "repeat" => DecodeTiming(p, b, lvl, x) = Repeated(p, d)
  BY <1>1, <1>2 DEF Repeated
<1>6. QED
  BY <1>3, <1>4, <1>5 DEF d

LEMMA RepeatedMore ==
  ASSUME NEW p, NEW d, Len(d.timings) < Len(RepeatTimings(p))
  PROVE  Repeated(p, d) = Result(d, NoMessage)
<1>1. DecodeRepeat(p, d) = [status |-> "ok", d |-> d]
  BY DEF DecodeRepeat
<1>2. QED
  BY <1>1 DEF Repeated, StateProcessRepeat

LEMMA RepeatedNone ==
  ASSUME NEW p, NEW d, ~(Len(d.timings) < Len(RepeatTimings(p))), d.timings # RepeatTimings(p)
  PROVE  Repeated(p, d) = Result(CheckPreamble(p, d), NoMessage)
<1>1. DecodeRepeat(p, d) = [status |-> "error", d |-> d]
  BY DEF DecodeRepeat
<1>2. QED
  BY <1>1 DEF Repeated, StateProcessRepeat

LEMMA RepeatedWhole ==
  ASSUME NEW p, NEW d \in Decoders, d.timings = RepeatTimings(p)
  PROVE  LET r == Repeated(p, d)
             m == [d.message EXCEPT !.repeat = TRUE]
         IN /\ r.d.timings = <<>> /\ r.d.state = d.state
            /\ r.d.message = m /\ r.message = m
<1> DEFINE e == [d EXCEPT !.timings = <<>>]
           m == [e.message EXCEPT !.repeat = TRUE]
           run == DecodeRepeat(p, d)
<1>1. run = [status |-> "ready", d |-> e]
  <2>1. ~(Len(d.timings) < Len(RepeatTimings(p)))
    <3>1. Len(RepeatTimings(p)) = 4 \/ Len(RepeatTimings(p)) = 6
      BY RepeatTimingsType
    <3> DEFINE n == Len(RepeatTimings(p))
    <3>2. n \in Nat
      BY <3>1
    <3> HIDE DEF n
    <3>3. ~(n < n)
      BY <3>2
    <3>4. QED
      BY <3>3 DEF n
  <2>2. QED
    BY <2>1 DEF DecodeRepeat
<1>2. run.status = "ready" /\ run.d = e
  BY <1>1
<1>3. <<>> \in Seq(Durations)
  OBVIOUS
<1>4. e \in Decoders /\ e.timings = <<>> /\ e.state = d.state /\ e.message = d.message
  BY <1>3 DEF Decoders
<1> HIDE DEF e, run
<1>5. StateProcessRepeat(p, run) = Result([e EXCEPT !.message = m], m)
  <2>1. StateProcessRepeat(p, run) =
          LET x == [run.d.message EXCEPT !.repeat = TRUE] IN Result([run.d EXCEPT !.message = x], x)
    BY <1>2 DEF StateProcessRepeat
  <2>2. QED
    BY <1>2, <2>1
<1> HIDE DEF m
<1>6. /\ [e EXCEPT !.message = m].timings = <<>> /\ [e EXCEPT !.message = m].state = d.state
      /\ [e EXCEPT !.message = m].message = m
  BY <1>4 DEF Decoders
<1>7. m = [d.message EXCEPT !.repeat = TRUE]
  BY <1>4 DEF m
<1> DEFINE f == [e EXCEPT !.message = m]
<1>8. Repeated(p, d) = Result(f, m)
  BY <1>5 DEF Repeated, run
<1>9. f.timings = <<>> /\ f.state = d.state /\ f.message = m
  BY <1>6
<1> HIDE DEF f
<1>10. Repeated(p, d).d = f /\ Repeated(p, d).message = m
  BY <1>8 DEF Result
<1>11. QED
  BY <1>7, <1>9, <1>10

LEMMA Kept ==
  ASSUME NEW p \in Protocols, NEW b, Keeps(p, b)
  PROVE  /\ b \in Decoders /\ b.state \in {"wait", "decode", "repeat"}
         /\ b.timings \in Seq(Durations) /\ Len(b.timings) \in Nat
         /\ b.bits \in Seq({0, 1}) /\ Len(b.bits) \in Nat /\ Len(b.bits) <= 4
         /\ b.state = "wait" => Len(b.timings) \in {0, 1}
         /\ b.state = "decode" => Len(b.timings) <= 4 /\ 2 * Len(b.bits) + Len(b.timings) <= 8
         /\ b.state = "repeat" =>
              Len(b.timings) \in 0..5 /\ (p = "nec" => Len(b.timings) \in 0..3)
<1>1. b \in Decoders /\ b.state \in {"wait", "decode", "repeat"}
      /\ b.timings \in Seq(Durations) /\ b.bits \in Seq({0, 1})
  BY DEF Keeps, Decoders
<1> DEFINE n == Len(b.timings)
           j == Len(b.bits)
<1>2. n \in Nat /\ j \in Nat
  BY <1>1
<1>3. Len(RepeatTimings(p)) \in {4, 6} /\ (p = "nec" => Len(RepeatTimings(p)) = 4)
  BY DEF RepeatTimings
<1> DEFINE l == Len(RepeatTimings(p))
<1>4. /\ j <= 4 /\ (b.state = "wait" => n <= 1)
      /\ b.state = "decode" => n <= 4 /\ 2 * j + n <= 2 * 4
      /\ b.state = "repeat" => n < l
  BY DEF Keeps, DataBits
<1>5. l \in {4, 6} /\ (p = "nec" => l = 4)
  BY <1>3
<1> HIDE DEF n, j, l
<1>6. b.state = "wait" => n \in {0, 1}
  BY <1>2, <1>4
<1>7. b.state = "decode" => n <= 4 /\ 2 * j + n <= 8
  BY <1>2, <1>4
<1>8. b.state = "repeat" => n \in 0..5 /\ (p = "nec" => n \in 0..3)
  BY <1>2, <1>4, <1>5
<1>9. QED
  BY <1>1, <1>2, <1>4, <1>6, <1>7, <1>8 DEF n, j

-----------------------------------------------------------------------------
(* A silence, then a mark.                                                 *)
LEMMA NotSilence ==
  ASSUME NEW s \in Silences, NEW p
  PROVE  /\ s \in Durations /\ s # "560" /\ s # "1600" /\ s # "2250" /\ s # "4500" /\ s # "9000"
         /\ \A x : ~IsBit(s, x) /\ ~IsBit(x, s)
         /\ \A x : <<s, x>> # Preamble(p) /\ <<x, s>> # Preamble(p)
<1>1. s \in Durations /\ s # "560" /\ s # "1600" /\ s # "2250" /\ s # "4500" /\ s # "9000"
  BY DEF Silences, Durations
<1>2. \A x : <<s, x>> # Preamble(p) /\ <<x, s>> # Preamble(p)
  BY <1>1 DEF Preamble
<1>3. QED
  BY <1>1, <1>2 DEF IsBit

LEMMA SilenceStep ==
  ASSUME NEW p \in Protocols, NEW b, Keeps(p, b), Resting(p, b), NEW s \in Silences
  PROVE  LET r == DecodeTiming(p, b, 1, s)
         IN /\ r.message = NoMessage /\ Silent(r.d, s)
            /\ r.d.state = "repeat" =>
                 b.state = "repeat" /\ Len(r.d.timings) = Len(b.timings) + 1
<1> DEFINE d == Fed(b, 1, s)
           r == DecodeTiming(p, b, 1, s)
           u == d.timings
           n == Len(b.timings)
<1>1. /\ s \in Durations /\ s # "560" /\ \A x : ~IsBit(s, x) /\ ~IsBit(x, s)
      /\ \A x : <<s, x>> # Preamble(p) /\ <<x, s>> # Preamble(p)
  BY NotSilence
<1>2. /\ b \in Decoders /\ n \in Nat /\ Len(b.bits) \in Nat /\ Len(b.bits) <= 4
      /\ b.state \in {"wait", "decode", "repeat"}
  BY Kept
<1>3. /\ d \in Decoders /\ d.state = b.state /\ d.bits = b.bits /\ d.level = 1
      /\ u \in Seq(Durations) /\ Len(u) = n + 1 /\ u[n + 1] = s
      /\ \A i \in 1..n : u[i] = b.timings[i]
  BY <1>1, <1>2, FedType
<1>4. /\ b.state = "wait" => r = Result(CheckPreamble(p, d), NoMessage)
      /\ b.state = "decode" => r = Decoded(p, d)
      /\ b.state = "repeat" => r = Repeated(p, d)
  BY <1>1, <1>2, ByState
<1>5. \A e : Result(e, NoMessage).d = e /\ Result(e, NoMessage).message = NoMessage
  BY DEF Result
<1> HIDE DEF d, r
<1>6. SUFFICES ASSUME TRUE
               PROVE  \/ r = Result(CheckPreamble(p, d), NoMessage) /\ Waits(CheckPreamble(p, d), <<>>)
                      \/ /\ r.message = NoMessage /\ Silent(r.d, s)
                         /\ r.d.state = "repeat" =>
                              b.state = "repeat" /\ Len(r.d.timings) = n + 1
  BY <1>5 DEF Silent, Waits, r
<1>7. CASE b.state = "wait"
  <2>1. n \in {0, 1}
    BY <1>7, Kept
  <2>2. CASE n = 0
    <3>1. Len(u) = 1
      BY <1>3, <2>2
    <3>2. QED
      BY <1>3, <1>4, <1>7, <3>1, SearchAfterSpace
  <2>3. CASE n = 1
    <3>1. Len(u) = 2 /\ u[2] = s
      BY <1>3, <2>3
    <3>2. QED
      BY <1>1, <1>3, <1>4, <1>7, <3>1, SearchAfterSpace
  <2>4. QED
    BY <2>1, <2>2, <2>3
<1>8. CASE b.state = "decode"
  <2>1. \/ n = 0
        \/ n = 1
        \/ n = 3 /\ b.bits = <<>> /\ <<b.timings[1], b.timings[2]>> # Preamble(p)
    <3>1. \/ n <= 1
          \/ n = 3 /\ b.bits = <<>> /\ <<b.timings[1], b.timings[2]>> # Preamble(p)
      BY <1>8 DEF Resting
    <3>2. n \in Nat
      BY <1>2
    <3> HIDE DEF n
    <3>3. n <= 1 => n = 0 \/ n = 1
      BY <3>2
    <3>4. QED
      BY <3>1, <3>3
  <2>2. CASE n = 0
    <3>1. Len(u) = 1 /\ u[1] = s
      BY <1>3, <2>2
    <3>2. CASE Len(b.bits) = 4
      <4>1. r = Result(CheckPreamble(p, d), NoMessage)
        BY <1>1, <1>3, <1>4, <1>8, <3>1, <3>2, DecodedNoBit
      <4>2. QED
        BY <1>3, <3>1, <4>1, SearchAfterSpace
    <3>3. CASE Len(b.bits) # 4
      <4>1. Len(d.bits) < 4
        <5> DEFINE j == Len(b.bits)
        <5>1. j \in Nat /\ j <= 4 /\ j # 4
          BY <1>2, <3>3
        <5> HIDE DEF j
        <5>2. j < 4
          BY <5>1
        <5>3. QED
          BY <1>3, <5>2 DEF j
      <4>2. r = Result(d, NoMessage)
        BY <1>3, <1>4, <1>8, <3>1, <4>1, DecodedHalf
      <4>3. u = <<s>>
        BY <1>3, <3>1, UpToThree
      <4>4. Silent(d, s) /\ d.state # "repeat"
        BY <1>3, <1>8, <4>1, <4>3 DEF Silent
      <4>5. QED
        BY <1>5, <4>2, <4>4
    <3>4. QED
      BY <3>2, <3>3
  <2>3. CASE n = 1
    <3>1. Len(u) = 2 /\ Len(u) >= 2 /\ u[2] = s
      BY <1>3, <2>3
    <3>2. r = Result(CheckPreamble(p, d), NoMessage)
      BY <1>1, <1>3, <1>4, <1>8, <3>1, DecodedNoBit
    <3>3. QED
      BY <1>1, <1>3, <3>1, <3>2, SearchAfterSpace
  <2>4. CASE n = 3 /\ b.bits = <<>> /\ <<b.timings[1], b.timings[2]>> # Preamble(p)
    <3>1. /\ Len(u) = 4 /\ Len(u) >= 2 /\ u[4] = s /\ u[1] = b.timings[1] /\ u[2] = b.timings[2]
      BY <1>3, <2>4
    <3>2. CASE ~IsBit(u[1], u[2])
      <4>1. r = Result(CheckPreamble(p, d), NoMessage)
        BY <1>3, <1>4, <1>8, <3>1, <3>2, DecodedNoBit
      <4>2. QED
        BY <1>1, <1>3, <2>4, <3>1, <4>1, SearchAfterSpace
    <3>3. CASE IsBit(u[1], u[2])
      <4>1. PICK v \in {0, 1} : u[1] = "560" /\ u[2] = Space(v)
        <5>1. Space(0) = "560" /\ Space(1) = "1600"
          BY DEF Space
        <5>2. QED
          BY <3>3, <5>1 DEF IsBit
      <4> DEFINE e == WithBit(d, v)
      <4>2. r = Result(CheckPreamble(p, e), NoMessage) /\ e.timings = <<u[3], s>>
        BY <1>1, <1>3, <1>4, <1>8, <3>1, <4>1, DecodedBitThenNone
      <4>3. e \in Decoders /\ e.level = 1
        BY <1>3, <3>1, WithBitType
      <4> HIDE DEF e
      <4>4. Len(e.timings) = 2 /\ e.timings[1] = u[3] /\ e.timings[2] = s
        BY <4>2
      <4>5. Waits(CheckPreamble(p, e), <<>>)
        BY <1>1, <4>3, <4>4, SearchAfterSpace
      <4>6. QED
        BY <1>5, <4>2, <4>5 DEF Waits, Silent
    <3>4. QED
      BY <3>2, <3>3
  <2>5. QED
    BY <2>1, <2>2, <2>3, <2>4
<1>9. CASE b.state = "repeat"
  <2>1. n \in 0..5 /\ (p = "nec" => n \in 0..3) /\ n \in {0, 2, 4}
    BY <1>9, Kept DEF Resting
  <2>2. Len(u) < Len(RepeatTimings(p))
    <3>1. IF p = "nec" THEN Len(RepeatTimings(p)) = 4 ELSE Len(RepeatTimings(p)) = 6
      BY DEF RepeatTimings
    <3> DEFINE l == Len(RepeatTimings(p))
    <3>2. IF p = "nec" THEN l = 4 ELSE l = 6
      BY <3>1
    <3> HIDE DEF l, n
    <3>3. n + 1 < l
      BY <2>1, <3>2
    <3>4. QED
      BY <1>3, <3>3 DEF l
  <2>3. r = Result(d, NoMessage)
    BY <1>4, <1>9, <2>2, RepeatedMore
  <2>4. Len(u) \in {1, 3, 5} /\ u[Len(u)] = s
    <3>1. Len(u) = n + 1 /\ u[n + 1] = s
      BY <1>3
    <3> HIDE DEF n, u
    <3>2. n + 1 \in {1, 3, 5}
      BY <2>1
    <3>3. QED
      BY <3>1, <3>2
  <2>5. Silent(d, s)
    BY <1>3, <1>9, <2>4 DEF Silent
  <2>6. QED
    BY <1>3, <1>5, <1>9, <2>3, <2>5
<1>10. QED
  BY <1>2, <1>7, <1>8, <1>9

LEMMA PreambleIs ==
  ASSUME NEW p \in Protocols, NEW q \in Protocols
  PROVE  /\ Preamble(q)[1] \in {"9000", "4500"} /\ Preamble(q)[2] = "4500"
         /\ Preamble(q) = <<Preamble(q)[1], "4500">>
         /\ <<Preamble(q)[1], "4500">> = Preamble(p) <=> p = q
         /\ \A x : <<"560", x>> # Preamble(p) /\ <<x, "560">> # Preamble(p)
BY DEF Preamble, Protocols

LEMMA Joined ==
  ASSUME NEW t \in Seq(Durations), NEW u \in Seq(Durations)
  PROVE  /\ t \o u \in Seq(Durations) /\ Len(t \o u) = Len(t) + Len(u)
         /\ \A i \in 1..Len(t) : (t \o u)[i] = t[i]
         /\ \A i \in 1..Len(u) : (t \o u)[Len(t) + i] = u[i]
<1>1. t \o u \in Seq(Durations) /\ Len(t \o u) = Len(t) + Len(u)
  OBVIOUS
<1>2. \A i \in 1..Len(t) : (t \o u)[i] = t[i]
  OBVIOUS
<1>3. \A i \in 1..Len(u) : (t \o u)[Len(t) + i] = u[i]
  OBVIOUS
<1>4. QED
  BY <1>1, <1>2, <1>3

LEMMA JoinedBit ==
  ASSUME NEW t \in Seq(Durations), NEW b
  PROVE  /\ t \o Bit(b) \in Seq(Durations) /\ Len(t \o Bit(b)) = Len(t) + 2
         /\ \A i \in 1..Len(t) : (t \o Bit(b))[i] = t[i]
         /\ (t \o Bit(b))[Len(t) + 1] = "560" /\ (t \o Bit(b))[Len(t) + 2] = Space(b)
<1> DEFINE u == Bit(b)
           w == t \o u
<1>1. u = <<"560", Space(b)>>
  BY DEF Bit, Space
<1>2. u \in Seq(Durations) /\ Len(u) = 2 /\ u[1] = "560" /\ u[2] = Space(b)
  BY <1>1 DEF Space, Durations
<1> HIDE DEF u
<1>3. /\ w \in Seq(Durations) /\ Len(w) = Len(t) + Len(u)
      /\ \A i \in 1..Len(t) : w[i] = t[i]
      /\ \A i \in 1..Len(u) : w[Len(t) + i] = u[i]
  BY <1>2, Joined
<1> HIDE DEF w
<1>4. w[Len(t) + 1] = u[1] /\ w[Len(t) + 2] = u[2] /\ Len(w) = Len(t) + 2
  BY <1>2, <1>3
<1>5. QED
  BY <1>2, <1>3, <1>4 DEF u, w

(* The twelve timings of a frame and the silence before it.                *)
LEMMA SentIs ==
  ASSUME NEW s \in Silences, NEW q \in Protocols, NEW bits \in Bits
  PROVE  LET A == Sent(s, q, bits)
         IN /\ A \in Seq(Durations) /\ Len(A) = 12
            /\ A[1] = s /\ A[2] = Preamble(q)[1] /\ A[3] = "4500"
            /\ A[4] = "560" /\ A[5] = Space(bits[1]) /\ A[6] = "560" /\ A[7] = Space(bits[2])
            /\ A[8] = "560" /\ A[9] = Space(bits[3]) /\ A[10] = "560" /\ A[11] = Space(bits[4])
            /\ A[12] = "560"
<1> DEFINE c0 == Preamble(q)
           c1 == c0 \o Bit(bits[1])
           c2 == c1 \o Bit(bits[2])
           c3 == c2 \o Bit(bits[3])
           c4 == c3 \o Bit(bits[4])
           stop == <<"560">>
           c5 == c4 \o stop
           first == <<s>>
           A == Sent(s, q, bits)
<1>1. A = first \o c5
  BY DEF Sent, Frame
<1>2. c0 \in Seq(Durations) /\ Len(c0) = 2 /\ c0[2] = "4500"
  <2>1. CASE q = "nec"
    BY <2>1 DEF Preamble, Durations
  <2>2. CASE q # "nec"
    BY <2>2 DEF Preamble, Durations
  <2>3. QED
    BY <2>1, <2>2
<1> HIDE DEF c0
<1>3. /\ c1 \in Seq(Durations) /\ Len(c1) = 4 /\ c1[3] = "560" /\ c1[4] = Space(bits[1])
      /\ \A i \in 1..2 : c1[i] = c0[i]
  <2>1. /\ c1 \in Seq(Durations) /\ Len(c1) = Len(c0) + 2
        /\ c1[Len(c0) + 1] = "560" /\ c1[Len(c0) + 2] = Space(bits[1])
        /\ \A i \in 1..Len(c0) : c1[i] = c0[i]
    BY <1>2, JoinedBit
  <2> HIDE DEF c1
  <2>2. Len(c0) = 2 /\ 2 + 1 = 3 /\ 2 + 2 = 4
    BY <1>2
  <2>3. QED
    BY <2>1, <2>2
<1> HIDE DEF c1
<1>4. /\ c2 \in Seq(Durations) /\ Len(c2) = 6 /\ c2[5] = "560" /\ c2[6] = Space(bits[2])
      /\ \A i \in 1..4 : c2[i] = c1[i]
  <2>1. /\ c2 \in Seq(Durations) /\ Len(c2) = Len(c1) + 2
        /\ c2[Len(c1) + 1] = "560" /\ c2[Len(c1) + 2] = Space(bits[2])
        /\ \A i \in 1..Len(c1) : c2[i] = c1[i]
    BY <1>3, JoinedBit
  <2> HIDE DEF c2
  <2>2. Len(c1) = 4 /\ 4 + 1 = 5 /\ 4 + 2 = 6
    BY <1>3
  <2>3. QED
    BY <2>1, <2>2
<1> HIDE DEF c2
<1>5. /\ c3 \in Seq(Durations) /\ Len(c3) = 8 /\ c3[7] = "560" /\ c3[8] = Space(bits[3])
      /\ \A i \in 1..6 : c3[i] = c2[i]
  <2>1. /\ c3 \in Seq(Durations) /\ Len(c3) = Len(c2) + 2
        /\ c3[Len(c2) + 1] = "560" /\ c3[Len(c2) + 2] = Space(bits[3])
        /\ \A i \in 1..Len(c2) : c3[i] = c2[i]
    BY <1>4, JoinedBit
  <2> HIDE DEF c3
  <2>2. Len(c2) = 6 /\ 6 + 1 = 7 /\ 6 + 2 = 8
    BY <1>4
  <2>3. QED
    BY <2>1, <2>2
<1> HIDE DEF c3
<1>6. /\ c4 \in Seq(Durations) /\ Len(c4) = 10 /\ c4[9] = "560" /\ c4[10] = Space(bits[4])
      /\ \A i \in 1..8 : c4[i] = c3[i]
  <2>1. /\ c4 \in Seq(Durations) /\ Len(c4) = Len(c3) + 2
        /\ c4[Len(c3) + 1] = "560" /\ c4[Len(c3) + 2] = Space(bits[4])
        /\ \A i \in 1..Len(c3) : c4[i] = c3[i]
    BY <1>5, JoinedBit
  <2> HIDE DEF c4
  <2>2. Len(c3) = 8 /\ 8 + 1 = 9 /\ 8 + 2 = 10
    BY <1>5
  <2>3. QED
    BY <2>1, <2>2
<1> HIDE DEF c4
<1>7. /\ stop \in Seq(Durations) /\ Len(stop) = 1 /\ stop[1] = "560"
      /\ first \in Seq(Durations) /\ Len(first) = 1 /\ first[1] = s
  BY NotSilence DEF Durations
<1> HIDE DEF stop, first
<1>8. /\ c5 \in Seq(Durations) /\ Len(c5) = 11 /\ c5[11] = "560"
      /\ \A i \in 1..10 : c5[i] = c4[i]
  <2>1. /\ c5 \in Seq(Durations) /\ Len(c5) = Len(c4) + Len(stop)
        /\ \A i \in 1..Len(c4) : c5[i] = c4[i]
        /\ \A i \in 1..Len(stop) : c5[Len(c4) + i] = stop[i]
    BY <1>6, <1>7, Joined
  <2> HIDE DEF c5
  <2>2. Len(c4) = 10 /\ Len(stop) = 1 /\ 10 + 1 = 11
    BY <1>6, <1>7
  <2>3. c5[10 + 1] = stop[1]
    BY <2>1, <2>2
  <2>4. QED
    BY <1>7, <2>1, <2>2, <2>3
<1> HIDE DEF c5
<1>9. /\ A \in Seq(Durations) /\ Len(A) = 12 /\ A[1] = s
      /\ \A i \in 1..11 : A[1 + i] = c5[i]
  <2> DEFINE w == first \o c5
  <2>1. /\ w \in Seq(Durations) /\ Len(w) = Len(first) + Len(c5)
        /\ \A i \in 1..Len(first) : w[i] = first[i]
        /\ \A i \in 1..Len(c5) : w[Len(first) + i] = c5[i]
    BY <1>7, <1>8, Joined
  <2>2. A = w
    BY <1>1
  <2> HIDE DEF w, A
  <2>3. Len(first) = 1 /\ Len(c5) = 11 /\ 1 + 11 = 12
    BY <1>7, <1>8
  <2>4. w[1] = first[1]
    BY <2>1, <2>3
  <2>5. QED
    BY <1>7, <2>1, <2>2, <2>3, <2>4
<1> HIDE DEF A
<1>10. /\ A[1 + 1] = c5[1] /\ A[1 + 2] = c5[2] /\ A[1 + 3] = c5[3] /\ A[1 + 4] = c5[4]
       /\ A[1 + 5] = c5[5] /\ A[1 + 6] = c5[6] /\ A[1 + 7] = c5[7] /\ A[1 + 8] = c5[8]
       /\ A[1 + 9] = c5[9] /\ A[1 + 10] = c5[10] /\ A[1 + 11] = c5[11]
  BY <1>9
<1>11. /\ A[2] = c5[1] /\ A[3] = c5[2] /\ A[4] = c5[3] /\ A[5] = c5[4] /\ A[6] = c5[5] /\ A[7] = c5[6]
       /\ A[8] = c5[7] /\ A[9] = c5[8] /\ A[10] = c5[9] /\ A[11] = c5[10] /\ A[12] = c5[11]
  BY <1>10
<1>12. c5[1] = c0[1] /\ c5[2] = c0[2]
  BY <1>3, <1>4, <1>5, <1>6, <1>8
<1>13. c5[3] = c1[3] /\ c5[4] = c1[4]
  BY <1>4, <1>5, <1>6, <1>8
<1>14. c5[5] = c2[5] /\ c5[6] = c2[6]
  BY <1>5, <1>6, <1>8
<1>15. c5[7] = c3[7] /\ c5[8] = c3[8] /\ c5[9] = c4[9] /\ c5[10] = c4[10]
  BY <1>6, <1>8
<1>16. QED
  BY <1>2, <1>3, <1>4, <1>5, <1>6, <1>8, <1>9, <1>11, <1>12, <1>13, <1>14, <1>15 DEF A, c0

LEMMA MarkStep ==
  ASSUME NEW p \in Protocols, NEW b, Keeps(p, b), NEW s \in Silences, Silent(b, s), NEW y \in Durations
  PROVE  LET r == DecodeTiming(p, b, 0, y)
         IN /\ r.message = NoMessage /\ Marked(r.d, s, y)
            /\ b.state # "repeat" => Waits(r.d, <<y>>)
            /\ r.d.state = "repeat" =>
                 b.state = "repeat" /\ Len(r.d.timings) = Len(b.timings) + 1
<1> DEFINE d == Fed(b, 0, y)
           r == DecodeTiming(p, b, 0, y)
           u == d.timings
           n == Len(b.timings)
<1>1. /\ s \in Durations /\ s # "2250" /\ s # "1600" /\ \A x : ~IsBit(s, x)
      /\ \A x : <<s, x>> # Preamble(p) /\ <<x, s>> # Preamble(p)
  BY NotSilence
<1>2. b \in Decoders /\ n \in Nat
  BY Kept
<1>3. /\ d \in Decoders /\ d.state = b.state /\ d.bits = b.bits /\ d.level = 0
      /\ u \in Seq(Durations) /\ Len(u) = n + 1 /\ u[n + 1] = y
      /\ \A i \in 1..n : u[i] = b.timings[i]
  BY <1>2, FedType
<1>4. /\ b.state = "wait" => r = Result(CheckPreamble(p, d), NoMessage)
      /\ b.state = "decode" => r = Decoded(p, d)
      /\ b.state = "repeat" => r = Repeated(p, d)
  BY <1>2, ByState
<1>5. \A e : Result(e, NoMessage).d = e /\ Result(e, NoMessage).message = NoMessage
  BY DEF Result
<1> HIDE DEF d, r
<1>6. ASSUME r = Result(CheckPreamble(p, d), NoMessage), Waits(CheckPreamble(p, d), <<y>>)
      PROVE  r.message = NoMessage /\ Marked(r.d, s, y) /\ Waits(r.d, <<y>>) /\ r.d.state # "repeat"
  BY <1>5, <1>6 DEF Marked, Waits
<1>7. CASE b.state = "wait" /\ b.timings = <<>>
  <2>1. n = 0
    BY <1>7
  <2>2. Len(u) = 1 /\ u[1] = y
    BY <1>3, <2>1
  <2>3. Waits(CheckPreamble(p, d), <<y>>)
    BY <1>3, <2>2, SearchAfterMark
  <2>4. QED
    BY <1>4, <1>6, <1>7, <2>3 DEF r
<1>8. CASE b.state = "decode" /\ b.timings = <<s>>
  <2>1. n = 1 /\ b.timings[1] = s
    BY <1>8
  <2>2. Len(u) = 2 /\ Len(u) >= 2 /\ u[1] = s /\ u[2] = y
    BY <1>3, <2>1
  <2>3. Waits(CheckPreamble(p, d), <<y>>)
    BY <1>3, <2>2, SearchAfterMark
  <2>4. r = Result(CheckPreamble(p, d), NoMessage)
    BY <1>1, <1>3, <1>4, <1>8, <2>2, DecodedNoBit
  <2>5. QED
    BY <1>6, <1>8, <2>3, <2>4 DEF r
<1>9. CASE b.state = "repeat" /\ n \in {1, 3, 5} /\ b.timings[n] = s
  <2>1. n \in 0..5 /\ (p = "nec" => n \in 0..3)
    BY <1>9, Kept
  <2>2. RepeatTimings(p) = IF p = "nec" THEN <<"pause", "9000", "2250", "560">>
                           ELSE <<"pause", "4500", "4500", "560", "1600", "560">>
    BY DEF RepeatTimings
  <2>3. IF p = "nec" THEN Len(RepeatTimings(p)) = 4 ELSE Len(RepeatTimings(p)) = 6
    BY DEF RepeatTimings
  <2>4. CASE n = 1
    <3>1. Len(u) = 2 /\ u[1] = s /\ u[2] = y
      BY <1>3, <1>9, <2>4
    <3>2. Len(u) < Len(RepeatTimings(p))
      BY SMTT(60), <2>3, <3>1
    <3>3. r = Result(d, NoMessage)
      BY <1>4, <1>9, <3>2, RepeatedMore
    <3>4. u = <<s, y>>
      BY <1>3, <3>1, UpToThree
    <3>5. Marked(d, s, y)
      BY <1>3, <1>9, <3>4 DEF Marked
    <3>6. QED
      BY <1>3, <1>5, <1>9, <3>3, <3>5 DEF r
  <2>5. CASE n = 3
    <3>1. Len(u) = 4 /\ u[3] = s /\ u[4] = y
      BY <1>3, <1>9, <2>5
    <3>2. CASE p # "nec"
      <4>1. Len(u) < Len(RepeatTimings(p))
        <5>1. Len(u) = 4 /\ Len(RepeatTimings(p)) = 6
          BY <2>3, <3>1, <3>2
        <5>2. QED
          BY <5>1
      <4>2. r = Result(d, NoMessage)
        BY <1>4, <1>9, <4>1, RepeatedMore
      <4>3. Marked(d, s, y)
        BY <1>3, <1>9, <3>1 DEF Marked
      <4>4. QED
        BY <1>3, <1>5, <1>9, <4>2, <4>3 DEF r
    <3>3. CASE p = "nec"
      <4>1. RepeatTimings(p)[3] = "2250"
        BY <2>2, <3>3
      <4>2. u # RepeatTimings(p)
        BY <1>1, <3>1, <4>1
      <4>3. ~(Len(u) < Len(RepeatTimings(p)))
        <5>1. Len(u) = 4 /\ Len(RepeatTimings(p)) = 4
          BY <2>3, <3>1, <3>3
        <5>2. QED
          BY <5>1
      <4>4. r = Result(CheckPreamble(p, d), NoMessage)
        BY <1>4, <1>9, <4>2, <4>3, RepeatedNone
      <4>5. Waits(CheckPreamble(p, d), <<y>>)
        BY <1>1, <1>3, <3>1, SearchAfterMark
      <4>6. QED
        BY <1>6, <1>9, <4>4, <4>5 DEF r
    <3>4. QED
      BY <3>2, <3>3
  <2>6. CASE n = 5
    <3>1. Len(u) = 6 /\ u[5] = s /\ u[6] = y
      BY <1>3, <1>9, <2>6
    <3>2. p # "nec"
      BY <2>1, <2>6
    <3>3. RepeatTimings(p)[5] = "1600"
      BY <2>2, <3>2
    <3>4. u # RepeatTimings(p)
      BY <1>1, <3>1, <3>3
    <3>5. ~(Len(u) < Len(RepeatTimings(p)))
      <4>1. Len(u) = 6 /\ Len(RepeatTimings(p)) = 6
        BY <2>3, <3>1, <3>2
      <4>2. QED
        BY <4>1
    <3>6. r = Result(CheckPreamble(p, d), NoMessage)
      BY <1>4, <1>9, <3>4, <3>5, RepeatedNone
    <3> DEFINE e == CheckPreamble(p, d)
    <3>7. Starts(e, <<u[4], s, y>>) \/ Waits(e, <<y>>)
      BY <1>1, <1>3, <3>1, SearchAfterMark
    <3> HIDE DEF e
    <3>8. ASSUME Starts(e, <<u[4], s, y>>)
          PROVE  Marked(e, s, y) /\ e.state # "repeat"
      <4>1. /\ Len(<<u[4], s, y>>) = 3 /\ <<u[4], s, y>>[2] = s /\ <<u[4], s, y>>[3] = y
        OBVIOUS
      <4>2. QED
        BY <3>8, <4>1 DEF Starts, Marked
    <3>9. CASE Starts(e, <<u[4], s, y>>)
      BY <1>5, <1>9, <3>6, <3>8, <3>9 DEF r, e
    <3>10. CASE Waits(e, <<y>>)
      BY <1>6, <1>9, <3>6, <3>10 DEF r, e
    <3>11. QED
      BY <3>7, <3>9, <3>10
  <2>7. QED
    BY <1>9, <2>4, <2>5, <2>6
<1>10. QED
  BY <1>7, <1>8, <1>9 DEF Silent

(* There the beam may be interrupted.                                      *)
LEMMA MarkedRests ==
  ASSUME NEW p \in Protocols, NEW d, NEW s \in Silences, NEW y, Marked(d, s, y)
  PROVE  Resting(p, d)
<1>1. \A x : <<x, s>> # Preamble(p)
  BY NotSilence
<1>2. Len(<<s, y>>) = 2
  OBVIOUS
<1>3. QED
  BY <1>1, <1>2 DEF Resting, Marked

-----------------------------------------------------------------------------
(* The preamble and the bits of a frame.                                   *)
LEMMA Resynced ==
  ASSUME NEW p \in Protocols, NEW e, NEW s, NEW q \in Protocols, NEW bits
  PROVE  /\ (IF p = q THEN Starts(e, <<>>) ELSE Waits(e, <<>>)) => Hears(p, e, s, q, bits, 3)
         /\ (IF p = q THEN Starts(e, <<"560">>) ELSE Waits(e, <<"560">>)) => Hears(p, e, s, q, bits, 4)
         /\ (IF p = q THEN Starts(e, <<"560", Space(bits[1]), "560">>) ELSE Waits(e, <<"560">>)) =>
              Hears(p, e, s, q, bits, 6)
<1>1. ASSUME NEW k \in {3, 4, 6}, e.state \in {"wait", "decode"},
             \/ p = q /\ Synced(e, bits, k)
             \/ p # q /\ Missed(e, k)
      PROVE  Hears(p, e, s, q, bits, k)
  <2>1. e.state # "repeat" /\ k # 0 /\ k # 1 /\ k # 2
    BY <1>1
  <2>2. Follows(p, e, s, q, bits, k)
    BY <1>1 DEF Follows
  <2>3. QED
    BY <2>1, <2>2 DEF Hears
<1>2. ASSUME Starts(e, <<>>) PROVE Synced(e, bits, 3)
  <2>1. e.bits = <<>> /\ Len(e.bits) = 0 /\ e.state = "decode" /\ e.timings = <<>>
    BY <1>2 DEF Starts
  <2>2. 3 = 2 * 0 + 3
    OBVIOUS
  <2>3. QED
    BY <2>1, <2>2 DEF Synced
<1>3. ASSUME Starts(e, <<"560">>) PROVE Synced(e, bits, 4)
  <2>1. e.bits = <<>> /\ Len(e.bits) = 0 /\ e.state = "decode" /\ e.timings = <<"560">>
    BY <1>3 DEF Starts
  <2>2. 4 = 2 * 0 + 4
    OBVIOUS
  <2>3. QED
    BY <2>1, <2>2 DEF Synced
<1>4. ASSUME Starts(e, <<"560", Space(bits[1]), "560">>) PROVE Synced(e, bits, 6)
  <2>1. /\ e.bits = <<>> /\ Len(e.bits) = 0 /\ e.state = "decode"
        /\ e.timings = <<"560", Space(bits[1]), "560">>
    BY <1>4 DEF Starts
  <2>2. QED
    BY <2>1 DEF Synced
<1>5. Waits(e, <<>>) => Missed(e, 3)
  BY DEF Waits, Missed
<1>6. Waits(e, <<"560">>) => Missed(e, 4) /\ Missed(e, 6)
  BY DEF Waits, Missed
<1>7. \A t : /\ Waits(e, t) => e.state \in {"wait", "decode"}
             /\ Starts(e, t) => e.state \in {"wait", "decode"}
  BY DEF Waits, Starts
<1>8. (IF p = q THEN Starts(e, <<>>) ELSE Waits(e, <<>>)) => Hears(p, e, s, q, bits, 3)
  BY <1>1, <1>2, <1>5, <1>7
<1>9. (IF p = q THEN Starts(e, <<"560">>) ELSE Waits(e, <<"560">>)) => Hears(p, e, s, q, bits, 4)
  BY <1>1, <1>3, <1>6, <1>7
<1>10. (IF p = q THEN Starts(e, <<"560", Space(bits[1]), "560">>) ELSE Waits(e, <<"560">>)) =>
         Hears(p, e, s, q, bits, 6)
  BY <1>1, <1>4, <1>6, <1>7
<1>11. QED
  BY <1>8, <1>9, <1>10

LEMMA Fitting ==
  ASSUME NEW p \in Protocols, NEW n \in Nat
  PROVE  /\ n < 4 => n < Len(RepeatTimings(p))
         /\ n < 6 /\ p # "nec" => n < Len(RepeatTimings(p))
         /\ p = "nec" /\ n >= 4 => ~(n < Len(RepeatTimings(p)))
         /\ n >= 6 => ~(n < Len(RepeatTimings(p)))
<1> DEFINE l == Len(RepeatTimings(p))
<1>1. IF p = "nec" THEN l = 4 ELSE l = 6
  BY DEF RepeatTimings
<1> HIDE DEF l
<1>2. /\ n < 4 => n < l
      /\ n < 6 /\ p # "nec" => n < l
      /\ p = "nec" /\ n >= 4 => ~(n < l)
      /\ n >= 6 => ~(n < l)
  BY <1>1
<1>3. QED
  BY <1>2 DEF l

LEMMA PreambleStep ==
  ASSUME NEW p \in Protocols, NEW b, Keeps(p, b), NEW s \in Silences, NEW q \in Protocols,
         NEW bits \in Bits, Hears(p, b, s, q, bits, 2)
  PROVE  LET r == DecodeTiming(p, b, 1, "4500")
         IN r.message = NoMessage /\ Hears(p, r.d, s, q, bits, 3)
<1> DEFINE y == Preamble(q)[1]
           x == "4500"
           d == Fed(b, 1, x)
           r == DecodeTiming(p, b, 1, x)
           u == d.timings
           n == Len(b.timings)
           A == Sent(s, q, bits)
<1>1. x \in Durations
  BY DEF Durations
<1>2. b \in Decoders /\ n \in Nat
  BY Kept
<1>3. /\ d \in Decoders /\ d.state = b.state /\ d.bits = b.bits /\ d.level = 1
      /\ u \in Seq(Durations) /\ Len(u) = n + 1 /\ u[n + 1] = x
      /\ \A i \in 1..n : u[i] = b.timings[i]
  BY <1>1, <1>2, FedType
<1>4. /\ b.state = "wait" => r = Result(CheckPreamble(p, d), NoMessage)
      /\ b.state = "decode" => r = Decoded(p, d)
      /\ b.state = "repeat" => r = Repeated(p, d)
  BY <1>1, <1>2, ByState
<1>5. \A e : Result(e, NoMessage).d = e /\ Result(e, NoMessage).message = NoMessage
  BY DEF Result
<1>6. /\ Marked(b, s, y)
      /\ b.state = "repeat" /\ Len(b.timings) = 2 => Apart(p, s, q, bits)
  BY DEF Hears
<1>7. /\ \A z : ~IsBit(z, s)
      /\ \A z : <<s, z>> # Preamble(p) /\ <<z, s>> # Preamble(p)
  BY NotSilence
<1>8. <<y, x>> = Preamble(p) <=> p = q
  BY PreambleIs
<1>9. A[1] = s /\ A[2] = y /\ A[3] = x
  BY SentIs
<1> HIDE DEF d, r, A, x, y
<1>10. ASSUME r = Result(CheckPreamble(p, d), NoMessage),
              IF p = q THEN Starts(CheckPreamble(p, d), <<>>) ELSE Waits(CheckPreamble(p, d), <<>>)
       PROVE  r.message = NoMessage /\ Hears(p, r.d, s, q, bits, 3)
  BY <1>5, <1>10, Resynced
<1>11. ASSUME r = Result(d, NoMessage), d.state = "repeat", Len(u) = 3 => Apart(p, s, q, bits),
              Buffered(d, A, 3)
       PROVE  r.message = NoMessage /\ Hears(p, r.d, s, q, bits, 3)
  <2>1. r.message = NoMessage /\ r.d = d
    BY <1>5, <1>11
  <2>2. Follows(p, d, s, q, bits, 3)
    BY <1>11 DEF Follows, A
  <2>3. 3 # 0 /\ 3 # 1 /\ 3 # 2
    OBVIOUS
  <2>4. Hears(p, d, s, q, bits, 3)
    BY <1>11, <2>2, <2>3 DEF Hears
  <2>5. QED
    BY <2>1, <2>4
<1>12. CASE b.state = "wait" /\ b.timings = <<y>>
  <2>1. n = 1 /\ b.timings[1] = y
    BY <1>12
  <2>2. Len(u) = 2 /\ u[1] = y /\ u[2] = x
    BY <1>3, <2>1
  <2>3. QED
    BY <1>3, <1>4, <1>8, <1>10, <1>12, <2>2, SearchAfterSpace DEF r, x
<1>13. CASE /\ b.state = "decode" /\ b.bits = <<>> /\ Len(b.timings) = 3
            /\ b.timings[2] = s /\ b.timings[3] = y
  <2>1. Len(u) = 4 /\ Len(u) >= 2 /\ u[2] = s /\ u[3] = y /\ u[4] = x
    BY <1>3, <1>13
  <2>2. r = Result(CheckPreamble(p, d), NoMessage)
    BY <1>3, <1>4, <1>7, <1>13, <2>1, DecodedNoBit
  <2>3. QED
    BY <1>3, <1>7, <1>8, <1>10, <2>1, <2>2, SearchAfterSpace DEF r, x
<1>14. CASE b.state = "repeat" /\ b.timings = <<s, y>>
  <2>1. n = 2 /\ b.timings[1] = s /\ b.timings[2] = y
    BY <1>14
  <2>2. Len(u) = 3 /\ u[1] = s /\ u[2] = y /\ u[3] = x
    BY <1>3, <2>1
  <2>3. Len(u) < Len(RepeatTimings(p))
    BY <2>2, Fitting
  <2>4. r = Result(d, NoMessage)
    BY <1>4, <1>14, <2>3, RepeatedMore
  <2>5. \A i \in 1..3 : i = 1 \/ i = 2 \/ i = 3
    OBVIOUS
  <2>6. Begins(u, A, 3)
    BY <1>9, <2>2, <2>5 DEF Begins
  <2>7. Buffered(d, A, 3)
    BY <1>3, <1>14, <2>6 DEF Buffered
  <2>8. QED
    BY <1>3, <1>6, <1>11, <1>14, <2>1, <2>4, <2>7 DEF r, x
<1>15. CASE b.state = "repeat" /\ n = 4 /\ b.timings[3] = s /\ b.timings[4] = y
  <2>1. Len(u) = 5 /\ u[3] = s /\ u[4] = y /\ u[5] = x
    BY <1>3, <1>15
  <2>2. p # "nec"
    <3>1. p = "nec" => n \in 0..3
      BY <1>15, Kept
    <3>2. n = 4
      BY <1>15
    <3> HIDE DEF n
    <3>3. QED
      BY <3>1, <3>2
  <2>3. Len(u) < Len(RepeatTimings(p))
    BY <2>1, <2>2, Fitting
  <2>4. r = Result(d, NoMessage)
    BY <1>4, <1>15, <2>3, RepeatedMore
  <2>5. Buffered(d, A, 3)
    BY <1>3, <1>9, <1>15, <2>1 DEF Buffered
  <2>6. Len(u) # 3
    BY <2>1
  <2>7. QED
    BY <1>3, <1>11, <1>15, <2>4, <2>5, <2>6 DEF r, x
<1>16. QED
  BY <1>6, <1>12, <1>13, <1>14, <1>15 DEF Marked

LEMMA OtherPreamble ==
  ASSUME NEW p \in Protocols, NEW q \in Protocols, p # "nec", p # q
  PROVE  Preamble(q)[1] # "4500"
<1>1. q = "nec"
  BY DEF Protocols
<1>2. Preamble(q) = <<"9000", "4500">>
  BY <1>1 DEF Preamble
<1>3. QED
  BY <1>2

LEMMA BurstStep ==
  ASSUME NEW p \in Protocols, NEW b, Keeps(p, b), NEW s \in Silences, NEW q \in Protocols,
         NEW bits \in Bits, NEW k \in {3, 5, 7, 9}, Hears(p, b, s, q, bits, k)
  PROVE  LET r == DecodeTiming(p, b, 0, "560")
         IN r.message = NoMessage /\ Hears(p, r.d, s, q, bits, k + 1)
<1> DEFINE y == Preamble(q)[1]
           x == "560"
           d == Fed(b, 0, x)
           r == DecodeTiming(p, b, 0, x)
           u == d.timings
           n == Len(b.timings)
           A == Sent(s, q, bits)
<1>1. x \in Durations
  BY DEF Durations
<1>2. b \in Decoders /\ n \in Nat
  BY Kept
<1>3. /\ d \in Decoders /\ d.state = b.state /\ d.bits = b.bits /\ d.level = 0
      /\ u \in Seq(Durations) /\ Len(u) = n + 1 /\ u[n + 1] = x
      /\ \A i \in 1..n : u[i] = b.timings[i]
  BY <1>1, <1>2, FedType
<1>4. /\ b.state = "wait" => r = Result(CheckPreamble(p, d), NoMessage)
      /\ b.state = "decode" => r = Decoded(p, d)
      /\ b.state = "repeat" => r = Repeated(p, d)
  BY <1>1, <1>2, ByState
<1>5. \A e : Result(e, NoMessage).d = e /\ Result(e, NoMessage).message = NoMessage
  BY DEF Result
<1>6. /\ Follows(p, b, s, q, bits, k)
      /\ b.state = "repeat" /\ n = k => Apart(p, s, q, bits)
  BY DEF Hears
<1>7. /\ k + 1 \in {4, 6, 8, 10} /\ k + 1 # 0 /\ k + 1 # 1 /\ k + 1 # 2 /\ k \in Nat
  OBVIOUS
<1>8. <<y, "4500">> = Preamble(p) <=> p = q
  BY PreambleIs
<1>9. /\ A[1] = s /\ A[2] = y /\ A[3] = "4500" /\ A[4] = x /\ A[5] = Space(bits[1]) /\ A[6] = x
  BY SentIs
<1>10. RepeatTimings(p) = IF p = "nec" THEN <<"pause", "9000", "2250", "560">>
                          ELSE <<"pause", "4500", "4500", "560", "1600", "560">>
  BY DEF RepeatTimings
<1>11. s # "4500" /\ \A z : <<z, s>> # Preamble(p)
  BY NotSilence
<1> HIDE DEF d, r, A, x, y
<1>12. ASSUME r.message = NoMessage, r.d.state # "repeat", Follows(p, r.d, s, q, bits, k + 1)
       PROVE  r.message = NoMessage /\ Hears(p, r.d, s, q, bits, k + 1)
  BY <1>7, <1>12 DEF Hears
<1>13. CASE p = q /\ Synced(b, bits, k)
  <2> DEFINE j == Len(b.bits)
  <2>1. j \in Nat
    BY Kept
  <2>2. /\ b.state = "decode" /\ \A i \in 1..j : b.bits[i] = bits[i]
        /\ \/ b.timings = <<>> /\ k = 2 * j + 3
           \/ b.timings = <<"560">> /\ k = 2 * j + 4
           \/ k = 6
    BY <1>13 DEF Synced
  <2>3. b.timings = <<>> /\ k = 2 * j + 3
    <3> HIDE DEF j
    <3>1. k # 2 * j + 4 /\ k # 6
      BY <2>1
    <3>2. QED
      BY <2>2, <3>1
  <2>4. j < 4 /\ k + 1 = 2 * j + 4
    <3> HIDE DEF j
    <3>1. QED
      BY <2>1, <2>3
  <2>5. Len(u) = 1 /\ u[1] = x
    <3>1. n = 0
      BY <2>3
    <3>2. QED
      BY <1>3, <3>1
  <2>6. u = <<x>>
    BY <1>3, <2>5, UpToThree
  <2>7. r = Result(d, NoMessage)
    BY <1>3, <1>4, <2>2, <2>4, <2>5, DecodedHalf
  <2>8. Synced(d, bits, k + 1)
    BY <1>3, <2>2, <2>4, <2>6 DEF Synced, x
  <2>9. QED
    BY <1>3, <1>5, <1>12, <1>13, <2>2, <2>7, <2>8 DEF Follows, r, x
<1>14. CASE p # q /\ Missed(b, k)
  <2>1. b.state = "wait" /\ b.timings = <<>>
    <3>1. k \notin {4, 6, 8, 10}
      OBVIOUS
    <3>2. QED
      BY <1>14, <3>1 DEF Missed
  <2>2. n = 0
    BY <2>1
  <2>3. Len(u) = 1 /\ u[1] = x
    BY <1>3, <2>2
  <2>4. Waits(CheckPreamble(p, d), <<x>>)
    BY <1>3, <2>3, SearchAfterMark
  <2>5. r = Result(CheckPreamble(p, d), NoMessage)
    BY <1>4, <2>1
  <2>6. Missed(r.d, k + 1) /\ r.d.state = "wait"
    BY <1>5, <1>7, <2>4, <2>5 DEF Missed, Waits, x
  <2>7. QED
    BY <1>5, <1>12, <1>14, <2>5, <2>6 DEF Follows, r, x
<1>15. CASE Buffered(b, A, k) /\ Begins(b.timings, A, k)
  <2>1. b.state = "repeat" /\ n = k /\ \A i \in 1..k : b.timings[i] = A[i]
    BY <1>15 DEF Buffered, Begins
  <2>2. n \in 0..5 /\ (p = "nec" => n \in 0..3)
    BY <2>1, Kept
  <2>3. Apart(p, s, q, bits)
    BY <1>6, <2>1
  <2>4. CASE k = 3
    <3>1. /\ Len(u) = 4 /\ u[1] = s /\ u[2] = y /\ u[3] = "4500" /\ u[4] = x
      <4>1. Len(u) = 4 /\ u[4] = x /\ u[1] = A[1] /\ u[2] = A[2] /\ u[3] = A[3]
        BY <1>3, <2>1, <2>4
      <4>2. QED
        BY <1>9, <4>1
    <3>2. CASE p = "nec"
      <4>1. RepeatTimings(p)[3] = "2250"
        BY <1>10, <3>2
      <4>2. u # RepeatTimings(p)
        BY <3>1, <4>1
      <4>3. ~(Len(u) < Len(RepeatTimings(p)))
        BY <3>1, <3>2, Fitting
      <4>4. r = Result(CheckPreamble(p, d), NoMessage)
        BY <1>4, <2>1, <4>2, <4>3, RepeatedNone
      <4>5. IF p = q THEN Starts(CheckPreamble(p, d), <<"560">>) ELSE Waits(CheckPreamble(p, d), <<"560">>)
        BY <1>3, <1>8, <3>1, SearchAfterMark DEF x
      <4>6. Hears(p, CheckPreamble(p, d), s, q, bits, 4)
        BY <4>5, Resynced
      <4>7. QED
        BY <1>5, <2>4, <4>4, <4>6 DEF r, x
    <3>3. CASE p # "nec"
      <4>1. Len(u) < Len(RepeatTimings(p))
        BY <3>1, <3>3, Fitting
      <4>2. r = Result(d, NoMessage)
        BY <1>4, <2>1, <4>1, RepeatedMore
      <4>3. \A i \in 1..4 : i = 1 \/ i = 2 \/ i = 3 \/ i = 4
        OBVIOUS
      <4>4. Begins(u, A, 4)
        BY <1>9, <3>1, <4>3 DEF Begins
      <4>5. Follows(p, d, s, q, bits, 4)
        BY <1>3, <2>1, <4>4 DEF Follows, Buffered, A
      <4>6. Hears(p, d, s, q, bits, 4)
        <5>1. 4 # 0 /\ 4 # 1 /\ 4 # 2
          OBVIOUS
        <5>2. QED
          BY <2>3, <4>5, <5>1 DEF Hears
      <4>7. QED
        BY <1>5, <2>4, <4>2, <4>6 DEF r, x
    <3>4. QED
      BY <3>2, <3>3
  <2>5. CASE k = 5
    <3>1. /\ Len(u) = 6 /\ u[1] = s /\ u[2] = y /\ u[3] = "4500" /\ u[4] = x
          /\ u[5] = Space(bits[1]) /\ u[6] = x
      <4>1. /\ Len(u) = 6 /\ u[6] = x /\ u[1] = A[1] /\ u[2] = A[2] /\ u[3] = A[3]
            /\ u[4] = A[4] /\ u[5] = A[5]
        BY <1>3, <2>1, <2>5
      <4>2. QED
        BY <1>9, <4>1
    <3>2. p # "nec"
      <4>1. p = "nec" => n \in 0..3
        BY <2>2
      <4>2. n = 5
        BY <2>1, <2>5
      <4> HIDE DEF n
      <4>3. QED
        BY <4>1, <4>2
    <3>3. u # RepeatTimings(p)
      <4>1. /\ RepeatTimings(p)[1] = "pause" /\ RepeatTimings(p)[2] = "4500"
            /\ RepeatTimings(p)[5] = "1600"
        BY <1>10, <3>2
      <4>2. p # q => y # "4500"
        BY <3>2, OtherPreamble DEF y
      <4>3. bits[1] = 0 => Space(bits[1]) # "1600"
        BY DEF Space
      <4>4. s = "gap" \/ p # q \/ bits[1] = 0
        BY <2>3, <3>2 DEF Apart
      <4>5. QED
        BY <3>1, <4>1, <4>2, <4>3, <4>4
    <3>4. ~(Len(u) < Len(RepeatTimings(p)))
      BY <3>1, Fitting
    <3>5. r = Result(CheckPreamble(p, d), NoMessage)
      BY <1>4, <2>1, <3>3, <3>4, RepeatedNone
    <3>6. \A z : <<x, z>> # Preamble(p)
      BY PreambleIs DEF x
    <3>7. IF p = q THEN Starts(CheckPreamble(p, d), <<"560", Space(bits[1]), "560">>)
                   ELSE Waits(CheckPreamble(p, d), <<"560">>)
      <4>1. <<u[2], u[3]>> = Preamble(p) <=> p = q
        BY <1>8, <3>1
      <4>2. <<u[4], u[5]>> # Preamble(p)
        BY <3>1, <3>6
      <4>3. IF <<u[2], u[3]>> = Preamble(p) THEN Starts(CheckPreamble(p, d), <<u[4], u[5], u[6]>>)
            ELSE IF <<u[4], u[5]>> = Preamble(p) THEN Starts(CheckPreamble(p, d), <<u[6]>>)
            ELSE Waits(CheckPreamble(p, d), <<u[6]>>)
        BY <1>3, <3>1, SearchAfterMark
      <4>4. QED
        BY <3>1, <4>1, <4>2, <4>3 DEF x
    <3>8. Hears(p, CheckPreamble(p, d), s, q, bits, 6)
      BY <3>7, Resynced
    <3>9. QED
      BY <1>5, <2>5, <3>5, <3>8 DEF r, x
  <2>6. k = 3 \/ k = 5
    BY <2>1, <2>2
  <2>7. QED
    BY <2>4, <2>5, <2>6
<1>16. CASE /\ Buffered(b, A, k) /\ k = 3 /\ n = 5
            /\ b.timings[3] = s /\ b.timings[4] = y /\ b.timings[5] = "4500"
  <2>1. b.state = "repeat"
    BY <1>16 DEF Buffered
  <2>2. Len(u) = 6 /\ u[3] = s /\ u[4] = y /\ u[5] = "4500" /\ u[6] = x
    BY <1>3, <1>16
  <2>3. p # "nec"
    <3>1. p = "nec" => n \in 0..3
      BY <2>1, Kept
    <3>2. n = 5
      BY <1>16
    <3> HIDE DEF n
    <3>3. QED
      BY <3>1, <3>2
  <2>4. RepeatTimings(p)[3] = "4500"
    BY <1>10, <2>3
  <2>5. u # RepeatTimings(p)
    BY <1>11, <2>2, <2>4
  <2>6. ~(Len(u) < Len(RepeatTimings(p)))
    BY <2>2, Fitting
  <2>7. r = Result(CheckPreamble(p, d), NoMessage)
    BY <1>4, <2>1, <2>5, <2>6, RepeatedNone
  <2>8. IF p = q THEN Starts(CheckPreamble(p, d), <<"560">>) ELSE Waits(CheckPreamble(p, d), <<"560">>)
    BY <1>3, <1>8, <1>11, <2>2, SearchAfterMark DEF x
  <2>9. Hears(p, CheckPreamble(p, d), s, q, bits, 4)
    BY <2>8, Resynced
  <2>10. QED
    BY <1>5, <1>16, <2>7, <2>9 DEF r, x
<1>17. QED
  BY <1>6, <1>9, <1>13, <1>14, <1>15, <1>16 DEF Follows, Buffered, A

LEMMA SpaceStep ==
  ASSUME NEW p \in Protocols, NEW b, Keeps(p, b), NEW s \in Silences, NEW q \in Protocols,
         NEW bits \in Bits, NEW i \in 1..4, Hears(p, b, s, q, bits, 2 * i + 2)
  PROVE  LET r == DecodeTiming(p, b, 1, Space(bits[i]))
         IN r.message = NoMessage /\ Hears(p, r.d, s, q, bits, 2 * i + 3)
<1> DEFINE x == Space(bits[i])
           d == Fed(b, 1, x)
           r == DecodeTiming(p, b, 1, x)
           u == d.timings
           n == Len(b.timings)
           A == Sent(s, q, bits)
           k == 2 * i + 2
<1>1. x \in Durations /\ bits[i] \in {0, 1} /\ bits[1] \in {0, 1}
  BY DEF Durations, Space, Bits, DataBits
<1>2. b \in Decoders /\ n \in Nat
  BY Kept
<1>3. /\ d \in Decoders /\ d.state = b.state /\ d.bits = b.bits /\ d.level = 1
      /\ u \in Seq(Durations) /\ Len(u) = n + 1 /\ u[n + 1] = x
      /\ \A m \in 1..n : u[m] = b.timings[m]
  BY <1>1, <1>2, FedType
<1>4. /\ b.state = "wait" => r = Result(CheckPreamble(p, d), NoMessage)
      /\ b.state = "decode" => r = Decoded(p, d)
      /\ b.state = "repeat" => r = Repeated(p, d)
  BY <1>1, <1>2, ByState
<1>5. \A e : Result(e, NoMessage).d = e /\ Result(e, NoMessage).message = NoMessage
  BY DEF Result
<1>6. /\ k \in {4, 6, 8, 10} /\ k + 1 \in {5, 7, 9, 11} /\ k + 1 = 2 * i + 3 /\ k \in Nat
      /\ k > 2
  OBVIOUS
<1>7. /\ Follows(p, b, s, q, bits, k)
      /\ b.state = "repeat" /\ n = k => Apart(p, s, q, bits)
  BY <1>6 DEF Hears
<1>8. \A z : <<"560", z>> # Preamble(p)
  BY PreambleIs
<1>9. A[5] = Space(bits[1])
  BY SentIs
<1> HIDE DEF d, r, A, x, k
<1>10. ASSUME r.message = NoMessage, r.d.state = "repeat" /\ Len(r.d.timings) = k + 1 => Apart(p, s, q, bits),
              Follows(p, r.d, s, q, bits, k + 1)
       PROVE  r.message = NoMessage /\ Hears(p, r.d, s, q, bits, 2 * i + 3)
  <2>1. k + 1 # 0 /\ k + 1 # 1 /\ k + 1 # 2
    BY <1>6
  <2>2. Hears(p, r.d, s, q, bits, k + 1)
    BY <1>10, <2>1 DEF Hears
  <2>3. QED
    BY <1>6, <1>10, <2>2
<1>11. CASE p = q /\ Synced(b, bits, k)
  <2> DEFINE j == Len(b.bits)
  <2>1. j \in Nat /\ b.bits \in Seq({0, 1})
    BY Kept
  <2>2. /\ b.state = "decode" /\ \A m \in 1..j : b.bits[m] = bits[m]
        /\ \/ b.timings = <<>> /\ k = 2 * j + 3
           \/ b.timings = <<"560">> /\ k = 2 * j + 4
           \/ b.timings = <<"560", Space(bits[1]), "560">> /\ b.bits = <<>> /\ k = 6
    BY <1>11 DEF Synced
  <2>3. CASE b.timings = <<"560">> /\ k = 2 * j + 4
    <3>1. i = j + 1 /\ k + 1 = 2 * (j + 1) + 3
      <4> HIDE DEF j
      <4>1. QED
        BY <2>1, <2>3 DEF k
    <3>2. n = 1 /\ b.timings[1] = "560"
      BY <2>3
    <3>3. Len(u) = 2 /\ Len(u) >= 2 /\ u[1] = "560" /\ u[2] = x
      BY <1>3, <3>2
    <3> DEFINE e == WithBit(d, bits[i])
    <3>4. r = Result(e, NoMessage) /\ e.timings = <<>>
      BY <1>1, <1>3, <1>4, <2>2, <3>3, DecodedBit DEF x
    <3>5. e.state = "decode" /\ e.bits = Append(b.bits, bits[i])
      BY <1>1, <1>3, <2>2, <3>3, WithBitType
    <3> HIDE DEF e
    <3>6. /\ Len(e.bits) = j + 1 /\ e.bits[j + 1] = bits[i]
          /\ \A m \in 1..j : e.bits[m] = b.bits[m]
      BY <1>1, <2>1, <3>5, Appended
    <3>7. \A m \in 1..Len(e.bits) : e.bits[m] = bits[m]
      <4>1. \A m \in 1..j + 1 : m \in 1..j \/ m = j + 1
        <5> HIDE DEF j
        <5>1. QED
          BY <2>1
      <4>2. QED
        BY <2>2, <3>1, <3>6, <4>1
    <3>8. Synced(e, bits, k + 1)
      BY <3>1, <3>4, <3>5, <3>6, <3>7 DEF Synced
    <3>9. QED
      BY <1>5, <1>10, <1>11, <3>4, <3>5, <3>8 DEF Follows, r, x
  <2>4. CASE b.timings = <<"560", Space(bits[1]), "560">> /\ b.bits = <<>> /\ k = 6
    <3>1. i = 2 /\ k + 1 = 2 * 2 + 3
      BY <2>4 DEF k
    <3>2. n = 3 /\ b.timings[1] = "560" /\ b.timings[2] = Space(bits[1]) /\ b.timings[3] = "560"
      BY <2>4
    <3>3. /\ Len(u) = 4 /\ Len(u) >= 2 /\ u[1] = "560" /\ u[2] = Space(bits[1]) /\ u[3] = "560"
          /\ u[4] = x
      BY <1>3, <3>2
    <3> DEFINE f == WithBit(d, bits[1])
               e == WithBit(f, bits[i])
    <3>4. r = Result(e, NoMessage) /\ e.timings = <<>>
      BY <1>1, <1>3, <1>4, <2>2, <3>3, DecodedTwoBits DEF x
    <3>5. /\ f \in Decoders /\ f.state = "decode" /\ f.bits = Append(<<>>, bits[1])
          /\ f.timings = Drop(u, 2)
      BY SMTT(60), <1>1, <1>3, <2>2, <2>4, <3>3, WithBitType
    <3> HIDE DEF f
    <3>6. Len(f.timings) >= 2
      <4>1. Drop(u, 2) = <<u[3], u[4]>>
        BY <1>3, <3>3, Drops
      <4>2. Len(<<u[3], u[4]>>) = 2
        OBVIOUS
      <4>3. Len(f.timings) = 2
        BY <3>5, <4>1, <4>2
      <4>4. QED
        BY <4>3
    <3>7. e.state = "decode" /\ e.bits = Append(f.bits, bits[i])
      BY <1>1, <3>5, <3>6, WithBitType
    <3> HIDE DEF e
    <3>8. f.bits \in Seq({0, 1}) /\ Len(f.bits) = 1 /\ f.bits[1] = bits[1]
      <4> DEFINE g == <<>>
      <4>1. g \in Seq({0, 1}) /\ Len(g) = 0
        OBVIOUS
      <4>2. f.bits = Append(g, bits[1])
        BY <3>5
      <4> HIDE DEF g
      <4>3. /\ Append(g, bits[1]) \in Seq({0, 1}) /\ Len(Append(g, bits[1])) = Len(g) + 1
            /\ Append(g, bits[1])[Len(g) + 1] = bits[1]
        BY <1>1, <4>1, Appended
      <4>4. QED
        BY <4>1, <4>2, <4>3
    <3>9. Len(e.bits) = 2 /\ e.bits[1] = bits[1] /\ e.bits[2] = bits[2]
      <4>1. /\ Len(e.bits) = Len(f.bits) + 1 /\ e.bits[Len(f.bits) + 1] = bits[i]
            /\ \A m \in 1..Len(f.bits) : e.bits[m] = f.bits[m]
        BY <1>1, <3>7, <3>8, Appended
      <4>2. QED
        BY <3>1, <3>8, <4>1
    <3>10. \A m \in 1..2 : m = 1 \/ m = 2
      OBVIOUS
    <3>11. Synced(e, bits, k + 1)
      BY <3>1, <3>4, <3>7, <3>9, <3>10 DEF Synced
    <3>12. QED
      BY <1>5, <1>10, <1>11, <3>4, <3>7, <3>11 DEF Follows, r, x
  <2>5. ~(b.timings = <<>> /\ k = 2 * j + 3)
    <3> HIDE DEF j
    <3>1. k # 2 * j + 3
      BY <2>1 DEF k
    <3>2. QED
      BY <3>1
  <2>6. QED
    BY <2>2, <2>3, <2>4, <2>5
<1>12. CASE p # q /\ Missed(b, k)
  <2>1. b.state = "wait" /\ b.timings = <<"560">>
    BY <1>6, <1>12 DEF Missed
  <2>2. n = 1 /\ b.timings[1] = "560"
    BY <2>1
  <2>3. Len(u) = 2 /\ u[1] = "560" /\ u[2] = x
    BY <1>3, <2>2
  <2>4. Waits(CheckPreamble(p, d), <<>>)
    BY <1>3, <1>8, <2>3, SearchAfterSpace
  <2>5. r = Result(CheckPreamble(p, d), NoMessage)
    BY <1>4, <2>1
  <2>6. k + 1 \notin {4, 6, 8, 10}
    BY <1>6
  <2>7. Missed(r.d, k + 1) /\ r.d.state = "wait"
    BY <1>5, <2>4, <2>5, <2>6 DEF Missed, Waits
  <2>8. QED
    BY <1>5, <1>10, <1>12, <2>5, <2>7 DEF Follows, r, x
<1>13. CASE Buffered(b, A, k)
  <2>1. b.state = "repeat" /\ Begins(b.timings, A, k)
    <3>1. k # 3
      BY <1>6
    <3>2. QED
      BY <1>13, <3>1 DEF Buffered
  <2>2. n = k /\ \A m \in 1..k : b.timings[m] = A[m]
    BY <2>1 DEF Begins
  <2>3. k = 4 /\ p # "nec"
    <3>1. n \in 0..5 /\ (p = "nec" => n \in 0..3)
      BY <2>1, Kept
    <3> HIDE DEF n
    <3>2. QED
      BY <1>6, <2>2, <3>1
  <2>4. i = 1
    BY <2>3 DEF k
  <2>5. Len(u) = 5 /\ u[5] = x
    BY <1>3, <2>2, <2>3
  <2>6. Len(u) < Len(RepeatTimings(p))
    BY <2>3, <2>5, Fitting
  <2>7. r = Result(d, NoMessage)
    BY <1>4, <2>1, <2>6, RepeatedMore
  <2>8. \A m \in 1..5 : m \in 1..4 \/ m = 5
    OBVIOUS
  <2>9. u[5] = A[5]
    BY <1>9, <2>4, <2>5 DEF x
  <2>10. \A m \in 1..5 : u[m] = A[m]
    <3>1. \A m \in 1..4 : u[m] = A[m]
      BY <1>3, <2>2, <2>3
    <3>2. QED
      BY <2>8, <2>9, <3>1
  <2>11. Begins(u, A, k + 1)
    <3>1. k + 1 = 5
      BY <2>3
    <3>2. QED
      BY <2>5, <2>10, <3>1 DEF Begins
  <2>12. Follows(p, d, s, q, bits, k + 1)
    BY <1>3, <2>1, <2>11 DEF Follows, Buffered, A
  <2>13. Apart(p, s, q, bits)
    BY <1>7, <2>1, <2>2
  <2>14. QED
    BY <1>5, <1>10, <2>7, <2>12, <2>13 DEF r, x
<1>14. QED
  BY <1>7, <1>11, <1>12, <1>13 DEF Follows, A

(* Between the bits the beam may be interrupted.                           *)
LEMMA FrameRests ==
  ASSUME NEW p \in Protocols, NEW b, Keeps(p, b), NEW s \in Silences, NEW q \in Protocols,
         NEW bits \in Bits, NEW k \in {2, 4, 6, 8, 10}, Hears(p, b, s, q, bits, k)
  PROVE  Resting(p, b)
<1>1. CASE k = 2
  <2>1. Marked(b, s, Preamble(q)[1])
    BY <1>1 DEF Hears
  <2>2. QED
    BY <2>1, MarkedRests
<1>2. CASE k # 2
  <2>1. k \in {4, 6, 8, 10} /\ Follows(p, b, s, q, bits, k)
    BY <1>2 DEF Hears
  <2>2. CASE p = q /\ Synced(b, bits, k)
    <3> DEFINE j == Len(b.bits)
    <3>1. j \in Nat
      BY Kept
    <3>2. k # 2 * j + 3
      <4> HIDE DEF j
      <4>1. QED
        BY <2>1, <3>1
    <3>3. /\ b.state = "decode"
          /\ \/ b.timings = <<"560">>
             \/ b.timings = <<"560", Space(bits[1]), "560">> /\ b.bits = <<>>
      BY <2>2, <3>2 DEF Synced
    <3>4. \A x : <<"560", x>> # Preamble(p)
      BY PreambleIs
    <3>5. b.timings = <<"560">> => Len(b.timings) <= 1
      OBVIOUS
    <3>6. b.timings = <<"560", Space(bits[1]), "560">> =>
            Len(b.timings) = 3 /\ <<b.timings[1], b.timings[2]>> # Preamble(p)
      BY <3>4
    <3>7. QED
      BY <3>3, <3>5, <3>6 DEF Resting
  <2>3. CASE p # q /\ Missed(b, k)
    BY <2>3 DEF Missed, Resting
  <2>4. CASE Buffered(b, Sent(s, q, bits), k)
    <3> DEFINE n == Len(b.timings)
    <3>1. b.state = "repeat" /\ n = k
      BY <2>1, <2>4 DEF Buffered, Begins
    <3>2. n \in 0..5
      BY <3>1, Kept
    <3> HIDE DEF n
    <3>3. n = 4
      BY <2>1, <3>1, <3>2
    <3>4. n \in {0, 2, 4}
      BY <3>3
    <3>5. QED
      BY <3>1, <3>4 DEF Resting, n
  <2>5. QED
    BY <2>1, <2>2, <2>3, <2>4 DEF Follows
<1>3. QED
  BY <1>1, <1>2

(* The stop bit of a frame.                                                *)
LEMMA MessageOfSame ==
  ASSUME NEW p, NEW c, NEW bits, \A i \in 1..4 : c[i] = bits[i]
  PROVE  MessageOf(p, c) = MessageOf(p, bits) /\ (Interprets(p, c) <=> Interprets(p, bits))
<1>1. c[1] = bits[1] /\ c[2] = bits[2] /\ c[3] = bits[3] /\ c[4] = bits[4]
  OBVIOUS
<1>2. QED
  BY <1>1 DEF MessageOf, Interprets

LEMMA StopStep ==
  ASSUME NEW p \in Protocols, NEW b, Keeps(p, b), NEW s \in Silences, NEW q \in Protocols,
         NEW bits \in Bits, Hears(p, b, s, q, bits, 11)
  PROVE  LET r == DecodeTiming(p, b, 0, "560")
         IN IF Legit(p, q, bits)
            THEN r.message = MessageOf(q, bits) /\ Collects(r.d, q, bits, 0)
            ELSE r.message = NoMessage /\ r.d.state # "repeat" /\ Resting(p, r.d)
<1> DEFINE x == "560"
           d == Fed(b, 0, x)
           r == DecodeTiming(p, b, 0, x)
           u == d.timings
           n == Len(b.timings)
<1>1. x \in Durations
  BY DEF Durations
<1>2. b \in Decoders /\ n \in Nat
  BY Kept
<1>3. /\ d \in Decoders /\ d.state = b.state /\ d.bits = b.bits /\ d.level = 0
      /\ u \in Seq(Durations) /\ Len(u) = n + 1 /\ u[n + 1] = x
  BY <1>1, <1>2, FedType
<1>4. /\ b.state = "wait" => r = Result(CheckPreamble(p, d), NoMessage)
      /\ b.state = "decode" => r = Decoded(p, d)
  BY <1>1, <1>2, ByState
<1>5. \A e : Result(e, NoMessage).d = e /\ Result(e, NoMessage).message = NoMessage
  BY DEF Result
<1>6. Follows(p, b, s, q, bits, 11)
  BY DEF Hears
<1> HIDE DEF d, r
<1>7. CASE p = q /\ Synced(b, bits, 11)
  <2> DEFINE j == Len(b.bits)
  <2>1. j \in Nat
    BY Kept
  <2>2. /\ b.state = "decode" /\ \A i \in 1..j : b.bits[i] = bits[i]
        /\ \/ b.timings = <<>> /\ 11 = 2 * j + 3
           \/ 11 = 2 * j + 4
           \/ 11 = 6
    BY <1>7 DEF Synced
  <2>3. j = 4 /\ b.timings = <<>>
    <3> HIDE DEF j
    <3>1. 11 # 2 * j + 4 /\ (11 = 2 * j + 3 => j = 4)
      BY <2>1
    <3>2. QED
      BY <2>2, <3>1
  <2>4. n = 0
    BY <2>3
  <2>5. Len(u) = 1 /\ u[1] = x
    BY <1>3, <2>4
  <2>6. MessageOf(p, b.bits) = MessageOf(p, bits) /\ (Interprets(p, b.bits) <=> Interprets(p, bits))
    BY <2>2, <2>3, MessageOfSame
  <2> DEFINE m == MessageOf(p, b.bits)
  <2>7. /\ r.d.timings = <<>>
        /\ Interprets(p, b.bits) => r.message = m /\ r.d.state = "repeat" /\ r.d.message = m
        /\ ~Interprets(p, b.bits) => r.message = NoMessage /\ r.d.state = "wait"
    BY <1>3, <1>4, <2>2, <2>3, <2>5, DecodedStop
  <2>8. Begins(<<>>, RepeatTimings(q), 0)
    BY DEF Begins
  <2>9. CASE Legit(p, q, bits)
    BY <1>7, <2>6, <2>7, <2>8, <2>9 DEF Legit, Collects, Knows, r
  <2>10. CASE ~Legit(p, q, bits)
    <3>1. ~Interprets(p, b.bits)
      BY <1>7, <2>6, <2>10 DEF Legit
    <3>2. QED
      BY <2>7, <2>10, <3>1 DEF Resting, r
  <2>11. QED
    BY <2>9, <2>10
<1>8. CASE p # q /\ Missed(b, 11)
  <2>1. b.state = "wait" /\ b.timings = <<>>
    <3>1. 11 \notin {4, 6, 8, 10}
      OBVIOUS
    <3>2. QED
      BY <1>8, <3>1 DEF Missed
  <2>2. n = 0
    BY <2>1
  <2>3. Len(u) = 1 /\ u[1] = x
    BY <1>3, <2>2
  <2>4. Waits(CheckPreamble(p, d), <<x>>)
    BY <1>3, <2>3, SearchAfterMark
  <2>5. r = Result(CheckPreamble(p, d), NoMessage)
    BY <1>4, <2>1
  <2>6. r.message = NoMessage /\ r.d.state = "wait"
    BY <1>5, <2>4, <2>5 DEF Waits
  <2>7. QED
    BY <1>8, <2>6 DEF Legit, Resting, r
<1>9. ~Buffered(b, Sent(s, q, bits), 11)
  <2>1. SUFFICES ASSUME b.state = "repeat", n = 11 PROVE FALSE
    BY DEF Buffered, Begins
  <2>2. n \in 0..5
    BY <2>1, Kept
  <2> HIDE DEF n
  <2>3. QED
    BY <2>1, <2>2
<1>10. QED
  BY <1>6, <1>7, <1>8, <1>9 DEF Follows

-----------------------------------------------------------------------------
(* A repeat, for the decoder of its frame and for the others.              *)
LEMMA CollectStep ==
  ASSUME NEW p \in Protocols, NEW b, Keeps(p, b), NEW bits \in Bits, NEW k \in 0..5,
         k < Len(RepeatTimings(p)), Collects(b, p, bits, k), NEW lvl \in {0, 1}
  PROVE  LET r == DecodeTiming(p, b, lvl, RepeatTimings(p)[k + 1])
         IN IF k + 1 = Len(RepeatTimings(p))
            THEN /\ r.message = [MessageOf(p, bits) EXCEPT !.repeat = TRUE]
                 /\ Collects(r.d, p, bits, 0)
            ELSE r.message = NoMessage /\ Collects(r.d, p, bits, k + 1)
<1> DEFINE A == RepeatTimings(p)
           l == Len(A)
           x == A[k + 1]
           d == Fed(b, lvl, x)
           r == DecodeTiming(p, b, lvl, x)
           u == d.timings
           n == Len(b.timings)
           m == [MessageOf(p, bits) EXCEPT !.repeat = TRUE]
<1>1. A \in Seq(Durations) /\ l \in {4, 6} /\ k < l
  BY RepeatTimingsType
<1> HIDE DEF A
<1>2. x \in Durations /\ k + 1 \in 1..l /\ k \in Nat
  <2>1. k + 1 \in 1..l /\ k \in Nat
    <3> HIDE DEF l
    <3>1. QED
      BY <1>1
  <2>2. x \in Durations
    BY <1>1, <2>1, Elements
  <2>3. QED
    BY <2>1, <2>2
<1>3. b \in Decoders /\ n \in Nat
  BY Kept
<1>4. /\ d \in Decoders /\ d.state = b.state /\ d.message = b.message
      /\ u \in Seq(Durations) /\ Len(u) = n + 1 /\ u[n + 1] = x
      /\ \A i \in 1..n : u[i] = b.timings[i]
  <2> HIDE DEF x, l
  <2>1. x \in Durations /\ b \in Decoders /\ lvl \in {0, 1}
    BY <1>2, <1>3
  <2>2. LET e == Fed(b, lvl, x)
        IN /\ e \in Decoders /\ e.state = b.state /\ e.bits = b.bits /\ e.message = b.message
           /\ e.level = lvl /\ e.timings = Append(b.timings, x)
           /\ b.timings \in Seq(Durations) /\ e.timings \in Seq(Durations)
           /\ Len(b.timings) \in Nat /\ Len(e.timings) = Len(b.timings) + 1
           /\ e.timings[Len(b.timings) + 1] = x
           /\ \A i \in 1..Len(b.timings) : e.timings[i] = b.timings[i]
    BY <2>1, FedType, Zenon
  <2>3. QED
    BY <2>2
<1>5. b.state = "repeat" /\ n = k /\ Knows(b, p, bits) /\ \A i \in 1..k : b.timings[i] = A[i]
  BY DEF Collects, Begins, A
<1>6. r = Repeated(p, d)
  BY <1>2, <1>3, <1>5, ByState
<1>7. Begins(u, A, k + 1)
  <2>1. \A i \in 1..k + 1 : i \in 1..k \/ i = k + 1
    BY <1>2
  <2>2. QED
    BY <1>4, <1>5, <2>1 DEF Begins
<1> HIDE DEF d, r
<1>8. CASE k + 1 = l
  <2>1. u = A
    <3>1. Len(u) = Len(A) /\ \A i \in 1..Len(A) : u[i] = A[i]
      BY <1>7, <1>8 DEF Begins
    <3>2. QED
      BY SMTT(60), <1>1, <1>4, <3>1
  <2>2. /\ r.d.timings = <<>> /\ r.d.state = d.state
        /\ r.d.message = [d.message EXCEPT !.repeat = TRUE]
        /\ r.message = [d.message EXCEPT !.repeat = TRUE]
    BY <1>4, <1>6, <2>1, RepeatedWhole DEF A
  <2>3. [d.message EXCEPT !.repeat = TRUE] = m
    BY <1>4, <1>5 DEF Knows
  <2>4. [m EXCEPT !.repeat = TRUE] = m
    BY DEF MessageOf
  <2> HIDE DEF m
  <2>5. r.d.message = m /\ r.message = m /\ r.d.state = "repeat"
    BY <1>4, <1>5, <2>2, <2>3
  <2>6. Knows(r.d, p, bits)
    BY <2>4, <2>5 DEF Knows, m
  <2>7. Begins(<<>>, A, 0)
    BY DEF Begins
  <2>8. Collects(r.d, p, bits, 0)
    BY <2>2, <2>5, <2>6, <2>7 DEF Collects, A
  <2>9. QED
    BY <1>8, <2>5, <2>8 DEF r, A, m
<1>9. CASE k + 1 # l
  <2>1. Len(u) < Len(RepeatTimings(p))
    <3>1. k + 1 < l
      <4> HIDE DEF l
      <4>1. QED
        BY <1>1, <1>2, <1>9
    <3>2. Len(u) = k + 1
      BY <1>4, <1>5
    <3>3. QED
      BY <3>1, <3>2 DEF A
  <2>2. r = Result(d, NoMessage)
    BY <1>6, <2>1, RepeatedMore
  <2>3. r.d = d /\ r.message = NoMessage
    BY <2>2 DEF Result
  <2>4. Collects(d, p, bits, k + 1)
    BY <1>4, <1>5, <1>7 DEF Collects, Knows, A
  <2>5. QED
    BY <1>9, <2>3, <2>4 DEF r, A
<1>10. QED
  BY <1>8, <1>9

LEMMA CollectRests ==
  ASSUME NEW p \in Protocols, NEW b, NEW bits, NEW k \in {0, 2, 4}, Collects(b, p, bits, k)
  PROVE  Resting(p, b)
<1>1. b.state = "repeat" /\ Len(b.timings) = k
  BY DEF Collects, Begins
<1>2. QED
  BY <1>1 DEF Resting

(* A mark after a decoder dropped everything, or a whole bit.              *)
LEMMA LoneMark ==
  ASSUME NEW p \in Protocols, NEW b, Keeps(p, b), b.state # "repeat", b.timings = <<>>,
         b.state = "decode" => Len(b.bits) < 4
  PROVE  LET r == DecodeTiming(p, b, 0, "560")
         IN /\ r.message = NoMessage /\ r.d.state = b.state /\ r.d.timings = <<"560">>
            /\ b.state = "decode" => r.d.bits = b.bits
<1> DEFINE x == "560"
           d == Fed(b, 0, x)
           r == DecodeTiming(p, b, 0, x)
           u == d.timings
           n == Len(b.timings)
<1>1. x \in Durations /\ n = 0
  BY DEF Durations
<1>2. b \in Decoders /\ b.state \in {"wait", "decode", "repeat"}
  BY Kept
<1>3. /\ d \in Decoders /\ d.state = b.state /\ d.bits = b.bits /\ d.level = 0
      /\ u \in Seq(Durations) /\ Len(u) = n + 1 /\ u[n + 1] = x
  <2> HIDE DEF x
  <2>1. x \in Durations /\ b \in Decoders
    BY <1>1, <1>2
  <2>2. QED
    BY <2>1, FedType
<1>4. /\ b.state = "wait" => r = Result(CheckPreamble(p, d), NoMessage)
      /\ b.state = "decode" => r = Decoded(p, d)
  BY <1>1, <1>2, ByState
<1>5. \A e : Result(e, NoMessage).d = e /\ Result(e, NoMessage).message = NoMessage
  BY DEF Result
<1>6. Len(u) = 1 /\ u[1] = x
  BY <1>1, <1>3
<1>7. u = <<x>>
  BY <1>3, <1>6, UpToThree
<1> HIDE DEF d, r
<1>8. CASE b.state = "wait"
  <2>1. Waits(CheckPreamble(p, d), <<x>>)
    BY <1>3, <1>6, SearchAfterMark
  <2>2. QED
    BY <1>4, <1>5, <1>8, <2>1 DEF Waits, r
<1>9. CASE b.state = "decode"
  <2>1. r = Result(d, NoMessage)
    BY <1>3, <1>4, <1>6, <1>9, DecodedHalf
  <2>2. QED
    BY <1>3, <1>5, <1>7, <1>9, <2>1 DEF r
<1>10. QED
  BY <1>2, <1>8, <1>9

LEMMA RepeatIs ==
  ASSUME NEW q \in Protocols
  PROVE  LET A == RepeatTimings(q)
         IN /\ A \in Seq(Durations) /\ Len(A) \in {4, 6} /\ A # <<>>
            /\ A[1] = "pause" /\ A[2] \in Durations /\ A[3] \in {"2250", "4500"} /\ A[4] = "560"
            /\ Len(A) = 6 => A[5] = "1600" /\ A[6] = "560"
<1> DEFINE A == RepeatTimings(q)
<1>1. A \in Seq(Durations) /\ Len(A) \in {4, 6} /\ A # <<>>
  BY RepeatTimingsType
<1>2. CASE q = "nec"
  <2>1. A = <<"pause", "9000", "2250", "560">>
    BY <1>2 DEF RepeatTimings
  <2>2. Len(A) = 4
    BY <2>1
  <2>3. QED
    BY <1>1, <2>1, <2>2 DEF Durations
<1>3. CASE q # "nec"
  <2>1. A = <<"pause", "4500", "4500", "560", "1600", "560">>
    BY <1>3 DEF RepeatTimings
  <2>2. QED
    BY <1>1, <2>1 DEF Durations
<1>4. QED
  BY <1>2, <1>3

LEMMA OverhearSpace ==
  ASSUME NEW p \in Protocols, NEW b, Keeps(p, b), NEW y, Overhears(p, b, y, 2), NEW x \in Durations
  PROVE  LET r == DecodeTiming(p, b, 1, x)
         IN r.message = NoMessage /\ Overhears(p, r.d, y, 3)
<1> DEFINE d == Fed(b, 1, x)
           r == DecodeTiming(p, b, 1, x)
           u == d.timings
           n == Len(b.timings)
<1>1. b.state = "wait" /\ b.timings = <<y>>
  BY DEF Overhears, Waits
<1>2. b \in Decoders /\ n = 1
  BY <1>1, Kept
<1>3. d \in Decoders /\ d.level = 1 /\ Len(u) = n + 1
  BY <1>2, FedType
<1>4. r = Result(CheckPreamble(p, d), NoMessage)
  BY <1>1, <1>2, ByState
<1> HIDE DEF d, r
<1>5. Len(u) = 2
  BY <1>2, <1>3
<1>6. Starts(CheckPreamble(p, d), <<>>) \/ Waits(CheckPreamble(p, d), <<>>)
  BY <1>3, <1>5, SearchAfterSpace
<1>7. r.d = CheckPreamble(p, d) /\ r.message = NoMessage
  BY <1>4 DEF Result
<1>8. /\ r.d.timings = <<>> /\ r.d.state # "repeat"
      /\ r.d.state = "decode" => r.d.bits = <<>>
  BY <1>6, <1>7 DEF Starts, Waits
<1>9. 3 # 0 /\ 3 # 1 /\ 3 # 2 /\ 3 # 4 /\ 3 # 5
  OBVIOUS
<1>10. QED
  BY <1>7, <1>8, <1>9 DEF Overhears, r

LEMMA OverhearBit ==
  ASSUME NEW p \in Protocols, NEW b, Keeps(p, b), NEW y, Overhears(p, b, y, 4)
  PROVE  LET r == DecodeTiming(p, b, 1, "1600")
         IN r.message = NoMessage /\ Overhears(p, r.d, y, 5)
<1> DEFINE x == "1600"
           d == Fed(b, 1, x)
           r == DecodeTiming(p, b, 1, x)
           u == d.timings
           n == Len(b.timings)
<1>1. /\ b.state # "repeat" /\ b.timings = <<"560">>
      /\ b.state = "decode" => b.bits = <<>>
  BY DEF Overhears
<1>2. /\ b \in Decoders /\ n = 1 /\ b.timings[1] = "560" /\ x \in Durations
      /\ b.state \in {"wait", "decode", "repeat"}
  <2>1. n = 1 /\ b.timings[1] = "560"
    BY <1>1
  <2>2. x \in Durations
    BY DEF Durations
  <2>3. b \in Decoders /\ b.state \in {"wait", "decode", "repeat"}
    BY Kept
  <2>4. QED
    BY <2>1, <2>2, <2>3
<1>3. /\ d \in Decoders /\ d.state = b.state /\ d.bits = b.bits /\ d.level = 1
      /\ u \in Seq(Durations) /\ Len(u) = n + 1 /\ u[n + 1] = x
      /\ \A i \in 1..n : u[i] = b.timings[i]
  BY <1>2, FedType
<1>4. /\ b.state = "wait" => r = Result(CheckPreamble(p, d), NoMessage)
      /\ b.state = "decode" => r = Decoded(p, d)
  BY <1>2, ByState
<1>5. \A e : Result(e, NoMessage).d = e /\ Result(e, NoMessage).message = NoMessage
  BY DEF Result
<1>6. Len(u) = 2 /\ Len(u) >= 2 /\ u[1] = "560" /\ u[2] = x
  BY <1>2, <1>3
<1> HIDE DEF d, r
<1>7. /\ r.message = NoMessage /\ r.d.timings = <<>> /\ r.d.state # "repeat"
      /\ r.d.state = "decode" => Len(r.d.bits) <= 1
  <2>1. CASE b.state = "wait"
    <3>1. \A z : <<"560", z>> # Preamble(p)
      BY PreambleIs
    <3>2. Waits(CheckPreamble(p, d), <<>>)
      BY <1>3, <1>6, <3>1, SearchAfterSpace
    <3>3. QED
      BY <1>4, <1>5, <2>1, <3>2 DEF Waits
  <2>2. CASE b.state = "decode"
    <3> DEFINE e == WithBit(d, 1)
    <3>1. x = Space(1)
      BY DEF Space
    <3>2. r = Result(e, NoMessage) /\ e.timings = <<>>
      BY <1>3, <1>4, <1>6, <2>2, <3>1, DecodedBit
    <3>3. e.state = "decode" /\ e.bits = Append(d.bits, 1)
      BY <1>3, <1>6, <2>2, WithBitType
    <3> HIDE DEF e
    <3>4. Len(e.bits) <= 1
      <4> DEFINE g == <<>>
      <4>1. g \in Seq({0, 1}) /\ Len(g) = 0
        OBVIOUS
      <4>2. e.bits = Append(g, 1)
        BY <1>1, <1>3, <2>2, <3>3
      <4> HIDE DEF g
      <4>3. Len(Append(g, 1)) = Len(g) + 1
        BY <4>1, Appended
      <4>4. QED
        BY <4>1, <4>2, <4>3
    <3>5. QED
      BY <1>5, <3>2, <3>3, <3>4
  <2>3. QED
    BY <1>1, <1>2, <2>1, <2>2
<1>8. 5 # 0 /\ 5 # 1 /\ 5 # 2 /\ 5 # 3 /\ 5 # 4
  OBVIOUS
<1>9. QED
  BY <1>7, <1>8 DEF Overhears, r

LEMMA OverhearRests ==
  ASSUME NEW p \in Protocols, NEW b, NEW y, NEW k \in {0, 2, 4}, Overhears(p, b, y, k)
  PROVE  Resting(p, b) /\ b.state # "repeat"
<1>1. b.state # "repeat"
  BY DEF Overhears
<1>2. Resting(p, b)
  <2>1. CASE k = 0
    BY <2>1 DEF Overhears
  <2>2. CASE k = 2
    BY <2>2 DEF Overhears, Waits, Resting
  <2>3. CASE k = 4
    BY <2>3 DEF Overhears, Resting
  <2>4. QED
    BY <2>1, <2>2, <2>3
<1>3. QED
  BY <1>1, <1>2

LEMMA OverhearStep ==
  ASSUME NEW p \in Protocols, NEW b, Keeps(p, b), NEW q \in Protocols, NEW k \in 0..5,
         k < Len(RepeatTimings(q)), Overhears(p, b, RepeatTimings(q)[2], k)
  PROVE  LET A == RepeatTimings(q)
             r == DecodeTiming(p, b, LevelAt(k), A[k + 1])
         IN /\ r.message = NoMessage
            /\ Overhears(p, r.d, A[2], IF k + 1 = Len(A) THEN 0 ELSE k + 1)
<1> DEFINE A == RepeatTimings(q)
           y == A[2]
           x == A[k + 1]
           r == DecodeTiming(p, b, LevelAt(k), x)
           last == k + 1 = Len(A)
<1>1. /\ A[1] = "pause" /\ y \in Durations /\ A[3] \in Durations /\ A[4] = "560"
      /\ Len(A) = 6 => A[5] = "1600" /\ A[6] = "560"
      /\ Len(A) = 4 \/ Len(A) = 6
  BY RepeatIs DEF Durations
<1>2. /\ LevelAt(0) = 1 /\ LevelAt(1) = 0 /\ LevelAt(2) = 1 /\ LevelAt(3) = 0
      /\ LevelAt(4) = 1 /\ LevelAt(5) = 0
  BY DEF LevelAt
<1>3. b.state # "repeat" /\ Overhears(p, b, y, k)
  BY DEF Overhears
<1>4. "pause" \in Silences
  BY DEF Silences
<1> DEFINE l == Len(A)
<1>5. (l = 4 \/ l = 6) /\ k < l
  BY <1>1
<1> HIDE DEF A, r, l
<1>6. CASE k = 0
  <2>1. r = DecodeTiming(p, b, 1, "pause")
    BY <1>1, <1>2, <1>6 DEF r
  <2>2. Resting(p, b)
    BY <1>3, <1>6 DEF Overhears
  <2>3. r.message = NoMessage /\ Silent(r.d, "pause") /\ r.d.state # "repeat"
    BY <1>3, <1>4, <2>1, <2>2, SilenceStep
  <2>4. 1 # 0 /\ 1 # 2 /\ 1 # 3 /\ 1 # 4 /\ 1 # 5
    OBVIOUS
  <2>5. Overhears(p, r.d, y, 1)
    BY <2>3, <2>4 DEF Overhears
  <2>6. ~(k + 1 = l) /\ k + 1 = 1
    BY <1>5, <1>6
  <2>7. QED
    BY <2>3, <2>5, <2>6 DEF A, r, l
<1>7. CASE k = 1
  <2>1. r = DecodeTiming(p, b, 0, y)
    BY <1>2, <1>7 DEF r
  <2>2. Silent(b, "pause")
    BY <1>3, <1>7 DEF Overhears
  <2>3. r.message = NoMessage /\ Waits(r.d, <<y>>)
    BY <1>1, <1>3, <1>4, <2>1, <2>2, MarkStep
  <2>4. 2 # 0 /\ 2 # 1 /\ 2 # 3 /\ 2 # 4 /\ 2 # 5 /\ r.d.state # "repeat"
    BY <2>3 DEF Waits
  <2>5. Overhears(p, r.d, y, 2)
    BY <2>3, <2>4 DEF Overhears
  <2>6. ~(k + 1 = l) /\ k + 1 = 2
    BY <1>5, <1>7
  <2>7. QED
    BY <2>3, <2>5, <2>6 DEF A, r, l
<1>8. CASE k = 2
  <2>1. r = DecodeTiming(p, b, 1, A[3])
    BY <1>2, <1>8 DEF r
  <2>2. r.message = NoMessage /\ Overhears(p, r.d, y, 3)
    BY <1>1, <1>3, <1>8, <2>1, OverhearSpace
  <2>3. ~(k + 1 = l) /\ k + 1 = 3
    BY <1>5, <1>8
  <2>4. QED
    BY <2>2, <2>3 DEF A, r, l
<1>9. CASE k = 3
  <2>1. r = DecodeTiming(p, b, 0, "560")
    BY <1>1, <1>2, <1>9 DEF r
  <2>2. b.timings = <<>> /\ (b.state = "decode" => b.bits = <<>>)
    BY <1>3, <1>9 DEF Overhears
  <2>3. b.bits = <<>> => Len(b.bits) < 4
    OBVIOUS
  <2>4. /\ r.message = NoMessage /\ r.d.state = b.state /\ r.d.timings = <<"560">>
        /\ b.state = "decode" => r.d.bits = <<>>
    BY <1>3, <2>1, <2>2, <2>3, LoneMark
  <2>5. 4 # 0 /\ 4 # 1 /\ 4 # 2 /\ 4 # 3 /\ 4 # 5
    OBVIOUS
  <2>6. Overhears(p, r.d, y, 4)
    BY <1>3, <2>4, <2>5 DEF Overhears
  <2>7. Overhears(p, r.d, y, 0)
    <3>1. Resting(p, r.d) /\ r.d.state # "repeat"
      BY <2>6, OverhearRests
    <3>2. QED
      BY <3>1 DEF Overhears
  <2>8. k + 1 = 4
    BY <1>9
  <2>9. QED
    BY <2>4, <2>6, <2>7, <2>8 DEF A, r, l
<1>10. CASE k = 4
  <2>1. l = 6
    BY <1>5, <1>10
  <2>2. r = DecodeTiming(p, b, 1, "1600")
    BY <1>1, <1>2, <1>10, <2>1 DEF r, l
  <2>3. r.message = NoMessage /\ Overhears(p, r.d, y, 5)
    BY <1>3, <1>10, <2>2, OverhearBit
  <2>4. ~(k + 1 = l) /\ k + 1 = 5
    BY <1>10, <2>1
  <2>5. QED
    BY <2>3, <2>4 DEF A, r, l
<1>11. CASE k = 5
  <2>1. l = 6
    BY <1>5, <1>11
  <2>2. r = DecodeTiming(p, b, 0, "560")
    BY <1>1, <1>2, <1>11, <2>1 DEF r, l
  <2>3. b.timings = <<>> /\ (b.state = "decode" => Len(b.bits) <= 1)
    BY <1>3, <1>11 DEF Overhears
  <2>4. Len(b.bits) <= 1 => Len(b.bits) < 4
    <3> DEFINE j == Len(b.bits)
    <3>1. j \in Nat
      BY Kept
    <3> HIDE DEF j
    <3>2. j <= 1 => j < 4
      BY <3>1
    <3>3. QED
      BY <3>2 DEF j
  <2>5. r.message = NoMessage /\ r.d.state # "repeat" /\ r.d.timings = <<"560">>
    BY <1>3, <2>2, <2>3, <2>4, LoneMark
  <2>6. Resting(p, r.d)
    BY <2>5 DEF Resting
  <2>7. Overhears(p, r.d, y, 0)
    BY <2>5, <2>6 DEF Overhears
  <2>8. k + 1 = l
    BY <1>11, <2>1
  <2>9. QED
    BY <2>5, <2>7, <2>8 DEF A, r, l
<1>12. QED
  BY <1>6, <1>7, <1>8, <1>9, <1>10, <1>11

-----------------------------------------------------------------------------
(* What is left to send, and the messages of a timing.                     *)
LEMMA Leftover ==
  ASSUME NEW A \in Seq(Durations), NEW k \in Nat, k < Len(A), NEW t, Remains(t, A, k)
  PROVE  /\ t # <<>> /\ Head(t) = A[k + 1] /\ Remains(Tail(t), A, k + 1)
         /\ Tail(t) = <<>> <=> k + 1 = Len(A)
<1> DEFINE l == Len(A)
           n == Len(t)
           u == Tail(t)
<1>1. l \in Nat /\ t \in Seq(Durations)
  BY DEF Remains
<1>2. n = l - k /\ \A i \in 1..n : t[i] = A[k + i]
  BY DEF Remains
<1>3. n \in Nat /\ n >= 1
  <2>1. k < l
    OBVIOUS
  <2> HIDE DEF n, l
  <2>2. QED
    BY <1>1, <1>2, <2>1
<1>4. t # <<>>
  <2>1. n # 0
    <3> HIDE DEF n
    <3>1. QED
      BY <1>3
  <2>2. QED
    BY <2>1
<1>5. u \in Seq(Durations) /\ Len(u) = n - 1
  BY <1>1, <1>4, TailType
<1>6. \A i \in 1..n - 1 : u[i] = t[i + 1]
  BY <1>1, <1>4, Tails
<1>7. Head(t) = t[1]
  BY <1>1, <1>4
<1>8. u = <<>> <=> Len(u) = 0
  <2>1. \A v \in Seq(Durations) : v = <<>> <=> Len(v) = 0
    OBVIOUS
  <2>2. QED
    BY <1>5, <2>1
<1> HIDE DEF n, l, u
<1>9. Head(t) = A[k + 1]
  BY <1>2, <1>3, <1>7
<1>10. Len(u) = l - (k + 1) /\ (Len(u) = 0 <=> k + 1 = l)
  BY <1>1, <1>2, <1>3, <1>5
<1>11. \A i \in 1..Len(u) : u[i] = A[(k + 1) + i]
  <2> SUFFICES ASSUME NEW i \in 1..Len(u) PROVE u[i] = A[(k + 1) + i]
    OBVIOUS
  <2>1. i \in 1..n - 1 /\ i + 1 \in 1..n /\ k + (i + 1) = (k + 1) + i
    BY <1>3, <1>5
  <2>2. t[i + 1] = A[k + (i + 1)]
    BY <1>2, <2>1
  <2>3. QED
    BY <1>6, <2>1, <2>2
<1>12. QED
  BY <1>4, <1>5, <1>8, <1>9, <1>10, <1>11 DEF Remains, u, l

LEMMA AllRemains ==
  ASSUME NEW A \in Seq(Durations)
  PROVE  Remains(A, A, 0)
<1>1. Len(A) = Len(A) - 0 /\ \A i \in 1..Len(A) : A[i] = A[0 + i]
  OBVIOUS
<1>2. QED
  BY <1>1 DEF Remains

LEMMA FirstIs ==
  ASSUME NEW f, NEW q \in Protocols, \A p \in Protocols : p # q => f[p].message = NoMessage
  PROVE  FirstMessage(f) = f[q].message
BY DEF FirstMessage, Protocols

(* What irda_decode is to return at the end of a frame or a repeat.        *)
LEMMA ExpectedIs ==
  /\ sending = Nothing => Expected = NoMessage
  /\ \A q \in Protocols, bits \in Bits :
       /\ sending = [kind |-> "frame", protocol |-> q, bits |-> bits] =>
            Expected = IF Interprets(q, bits) THEN MessageOf(q, bits) ELSE NoMessage
       /\ sending = [kind |-> "repeat", protocol |-> q, bits |-> bits] =>
            Expected = IF Interprets(q, bits)
                       THEN [MessageOf(q, bits) EXCEPT !.repeat = TRUE] ELSE NoMessage
<1>1. sending = Nothing => Expected = NoMessage
  BY DEF Expected
<1>2. ASSUME NEW q \in Protocols, NEW bits \in Bits, NEW kind \in {"frame", "repeat"},
             sending = [kind |-> kind, protocol |-> q, bits |-> bits]
      PROVE  Expected = IF Interprets(q, bits)
                        THEN [MessageOf(q, bits) EXCEPT !.repeat = kind = "repeat"] ELSE NoMessage
  <2>1. sending.kind = kind /\ sending.protocol = q /\ sending.bits = bits /\ sending # Nothing
    <3>1. sending.kind = kind /\ sending.protocol = q /\ sending.bits = bits
      BY <1>2
    <3>2. sending.kind # Nothing.kind
      BY <3>1 DEF Nothing
    <3>3. QED
      BY <3>1, <3>2
  <2>2. bits[3] \in {0, 1} /\ bits[4] \in {0, 1}
    BY DEF Bits, DataBits
  <2>3. {bits[3], bits[4]} = {0, 1} <=> bits[4] = 1 - bits[3]
    BY <2>2
  <2>4. WellFormed(q, bits) <=> Interprets(q, bits)
    BY <2>3 DEF WellFormed, Interprets, Flip
  <2>5. QED
    BY <2>1, <2>4 DEF Expected
<1>3. ASSUME NEW q \in Protocols, NEW bits \in Bits
      PROVE  [MessageOf(q, bits) EXCEPT !.repeat = FALSE] = MessageOf(q, bits)
  <2> DEFINE m == MessageOf(q, bits)
  <2>1. bits[1] \in {0, 1} /\ bits[2] \in {0, 1} /\ bits[3] \in {0, 1}
    BY DEF Bits, DataBits
  <2>2. m \in IrdaMessages
    <3>1. <<bits[1], bits[2]>> \in Seq({0, 1}) /\ <<bits[1]>> \in Seq({0, 1})
      BY <2>1
    <3>2. QED
      BY <2>1, <3>1 DEF MessageOf, IrdaMessages
  <2>3. m.repeat = FALSE
    BY DEF MessageOf
  <2> HIDE DEF m
  <2>4. [m EXCEPT !.repeat = FALSE] = m
    BY <2>2, <2>3 DEF IrdaMessages
  <2>5. QED
    BY <2>4 DEF m
<1>4. "frame" # "repeat"
  OBVIOUS
<1>5. QED
  BY <1>1, <1>2, <1>3, <1>4

(* An edge: every decoder decodes the timing.                              *)
Decoding(p) == DecodeTiming(p, decoder[p], level, Head(air))

LEMMA EdgeDecodes ==
  ASSUME IrdaIInv, Edge
  PROVE  /\ \A p \in Protocols : Keeps(p, decoder[p]) /\ decoder'[p] = Decoding(p).d
         /\ \A q \in Protocols :
              (\A p \in Protocols : p # q => Decoding(p).message = NoMessage) =>
                reported' = Decoding(q).message
<1> DEFINE g == [p \in Protocols |-> CommonDecode(p, decoder[p], level, Head(air))]
           f == [p \in Protocols |-> Decoding(p)]
<1>0. g = f
  BY AlternatingLevel DEF Decoding
<1>1. /\ decoder' = [p \in Protocols |-> f[p].d] /\ reported' = FirstMessage(f)
  <2>1. decoder' = [p \in Protocols |-> g[p].d] /\ reported' = FirstMessage(g)
    BY DEF Edge
  <2>2. QED
    BY <1>0, <2>1
<1>2. \A p \in Protocols : f[p] = Decoding(p)
  OBVIOUS
<1> HIDE DEF f
<1>3. \A p \in Protocols : decoder'[p] = Decoding(p).d
  BY <1>1, <1>2
<1>4. ASSUME NEW q \in Protocols, \A p \in Protocols : p # q => Decoding(p).message = NoMessage
      PROVE  reported' = Decoding(q).message
  <2>1. \A p \in Protocols : p # q => f[p].message = NoMessage
    BY <1>2, <1>4
  <2>2. FirstMessage(f) = f[q].message
    BY <2>1, FirstIs
  <2>3. QED
    BY <1>1, <1>2, <2>2
<1>5. QED
  BY <1>3, <1>4 DEF IrdaIInv

LEMMA LevelTurns ==
  ASSUME NEW k \in 0..10
  PROVE  LevelAt(k + 1) = 1 - LevelAt(k) /\ LevelAt(k) \in {0, 1}
BY DEF LevelAt

-----------------------------------------------------------------------------
(* A frame, but for its stop bit.                                          *)
LEMMA FrameStep ==
  ASSUME NEW p \in Protocols, NEW b, Keeps(p, b), NEW s \in {"pause", "gap"}, NEW q \in Protocols,
         NEW bits \in Bits, NEW k \in 0..10, Hears(p, b, s, q, bits, k)
  PROVE  LET r == DecodeTiming(p, b, LevelAt(k), Sent(s, q, bits)[k + 1])
         IN r.message = NoMessage /\ Hears(p, r.d, s, q, bits, k + 1)
<1> DEFINE A == Sent(s, q, bits)
           r == DecodeTiming(p, b, LevelAt(k), A[k + 1])
<1>1. s \in Silences
  BY DEF Silences
<1>2. /\ A[1] = s /\ A[2] = Preamble(q)[1] /\ A[3] = "4500" /\ A[4] = "560"
      /\ A[5] = Space(bits[1]) /\ A[6] = "560" /\ A[7] = Space(bits[2]) /\ A[8] = "560"
      /\ A[9] = Space(bits[3]) /\ A[10] = "560" /\ A[11] = Space(bits[4])
  BY <1>1, SentIs
<1>3. LevelAt(0) = 1 /\ LevelAt(1) = 0 /\ LevelAt(2) = 1 /\ LevelAt(4) = 1 /\ LevelAt(6) = 1
      /\ LevelAt(8) = 1 /\ LevelAt(10) = 1
      /\ LevelAt(3) = 0 /\ LevelAt(5) = 0 /\ LevelAt(7) = 0 /\ LevelAt(9) = 0
  BY DEF LevelAt
<1> DEFINE n == Len(b.timings)
<1>4. n \in Nat
  BY Kept
<1> HIDE DEF A, n
<1>5. CASE k = 0
  <2>1. r = DecodeTiming(p, b, 1, s)
    BY <1>2, <1>3, <1>5
  <2>2. Resting(p, b) /\ (b.state = "repeat" /\ n = 0 => Apart(p, s, q, bits))
    BY <1>5 DEF Hears, n
  <2>3. /\ r.message = NoMessage /\ Silent(r.d, s)
        /\ r.d.state = "repeat" => b.state = "repeat" /\ Len(r.d.timings) = n + 1
    BY <1>1, <2>1, <2>2, SilenceStep DEF n
  <2> HIDE DEF r
  <2>4. r.d.state = "repeat" /\ Len(r.d.timings) = 1 => Apart(p, s, q, bits)
    BY <1>4, <2>2, <2>3
  <2>5. k + 1 = 1
    BY <1>5
  <2>6. Hears(p, r.d, s, q, bits, 1)
    BY <2>3, <2>4 DEF Hears
  <2>7. QED
    BY <2>3, <2>5, <2>6 DEF r, A
<1>6. CASE k = 1
  <2> DEFINE y == Preamble(q)[1]
  <2>1. r = DecodeTiming(p, b, 0, y)
    BY <1>2, <1>3, <1>6
  <2>2. y \in Durations
    <3>1. y \in {"9000", "4500"}
      BY PreambleIs
    <3>2. QED
      BY <3>1 DEF Durations
  <2>3. Silent(b, s) /\ (b.state = "repeat" /\ n = 1 => Apart(p, s, q, bits))
    BY <1>6 DEF Hears, n
  <2>4. /\ r.message = NoMessage /\ Marked(r.d, s, y)
        /\ r.d.state = "repeat" => b.state = "repeat" /\ Len(r.d.timings) = n + 1
    <3> HIDE DEF y
    <3>1. LET e == DecodeTiming(p, b, 0, y)
          IN /\ e.message = NoMessage /\ Marked(e.d, s, y)
             /\ e.d.state = "repeat" => b.state = "repeat" /\ Len(e.d.timings) = Len(b.timings) + 1
      BY <1>1, <2>2, <2>3, MarkStep
    <3>2. QED
      BY <2>1, <3>1 DEF n
  <2> HIDE DEF r, y
  <2>5. r.d.state = "repeat" /\ Len(r.d.timings) = 2 => Apart(p, s, q, bits)
    BY <1>4, <2>3, <2>4
  <2>6. k + 1 = 2
    BY <1>6
  <2>7. Hears(p, r.d, s, q, bits, 2)
    BY <2>4, <2>5 DEF Hears, y
  <2>8. QED
    BY <2>4, <2>6, <2>7 DEF r, A
<1>7. CASE k = 2
  <2>1. r = DecodeTiming(p, b, 1, "4500") /\ k + 1 = 3
    BY <1>2, <1>3, <1>7
  <2>2. Hears(p, b, s, q, bits, 2)
    BY <1>7
  <2> HIDE DEF r
  <2>3. r.message = NoMessage /\ Hears(p, r.d, s, q, bits, 3)
    BY <1>1, <2>1, <2>2, PreambleStep
  <2>4. QED
    BY <2>1, <2>3 DEF r, A
<1>8. CASE k \in {3, 5, 7, 9}
  <2>1. r = DecodeTiming(p, b, 0, "560")
    BY <1>2, <1>3, <1>8
  <2> HIDE DEF r
  <2>2. r.message = NoMessage /\ Hears(p, r.d, s, q, bits, k + 1)
    BY <1>1, <1>8, <2>1, BurstStep
  <2>3. QED
    BY <2>2 DEF r, A
<1>9. ASSUME NEW i \in 1..4, k = 2 * i + 2
      PROVE  r.message = NoMessage /\ Hears(p, r.d, s, q, bits, k + 1)
  <2>1. r = DecodeTiming(p, b, 1, Space(bits[i])) /\ k + 1 = 2 * i + 3
    BY <1>2, <1>3, <1>9
  <2>2. Hears(p, b, s, q, bits, 2 * i + 2)
    BY <1>9
  <2> HIDE DEF r
  <2>3. r.message = NoMessage /\ Hears(p, r.d, s, q, bits, 2 * i + 3)
    BY <1>1, <2>1, <2>2, SpaceStep
  <2>4. QED
    BY <2>1, <2>3
<1>10. CASE k \in {4, 6, 8, 10}
  <2>1. \E i \in 1..4 : k = 2 * i + 2
    BY <1>10
  <2> HIDE DEF r
  <2>2. r.message = NoMessage /\ Hears(p, r.d, s, q, bits, k + 1)
    BY <1>9, <2>1
  <2>3. QED
    BY <2>2 DEF r, A
<1>11. QED
  BY <1>5, <1>6, <1>7, <1>8, <1>10

(* A frame that is taken for a repeat.                                     *)
LEMMA MisledStep ==
  ASSUME NEW p, p = "samsung", NEW b, Keeps(p, b), NEW bits \in Bits, bits[1] = 1,
         NEW k \in 0..10, Misled(b, bits, k)
  PROVE  Misled(DecodeTiming(p, b, LevelAt(k), Sent("pause", p, bits)[k + 1]).d, bits, k + 1)
<1> DEFINE A == Sent("pause", p, bits)
           x == A[k + 1]
           lvl == LevelAt(k)
           d == Fed(b, lvl, x)
           r == DecodeTiming(p, b, lvl, x)
           u == d.timings
           n == Len(b.timings)
<1>0. p \in Protocols
  BY DEF Protocols
<1>1. /\ A \in Seq(Durations) /\ Len(A) = 12
      /\ A[1] = "pause" /\ A[2] = "4500" /\ A[3] = "4500" /\ A[4] = "560"
      /\ A[5] = "1600" /\ A[6] = "560"
      /\ \A i \in 7..11 : A[i] \in {"560", "1600"}
  <2>1. "pause" \in Silences
    BY DEF Silences
  <2>2. Preamble(p)[1] = "4500"
    <3>1. Preamble(p) = <<"4500", "4500">>
      BY DEF Preamble
    <3>2. QED
      BY <3>1
  <2>3. Space(bits[1]) = "1600" /\ \A c : Space(c) \in {"560", "1600"}
    BY DEF Space
  <2>4. /\ A \in Seq(Durations) /\ Len(A) = 12
        /\ A[1] = "pause" /\ A[2] = Preamble(p)[1] /\ A[3] = "4500"
        /\ A[4] = "560" /\ A[5] = Space(bits[1]) /\ A[6] = "560" /\ A[7] = Space(bits[2])
        /\ A[8] = "560" /\ A[9] = Space(bits[3]) /\ A[10] = "560" /\ A[11] = Space(bits[4])
    BY <1>0, <2>1, SentIs, SMTT(60)
  <2> HIDE DEF A
  <2>5. \A i \in 7..11 : i = 7 \/ i = 8 \/ i = 9 \/ i = 10 \/ i = 11
    OBVIOUS
  <2>6. QED
    BY <2>2, <2>3, <2>4, <2>5
<1> HIDE DEF A
<1>2. x \in Durations /\ lvl \in {0, 1}
  <2>1. k + 1 \in Nat /\ k + 1 >= 1 /\ k + 1 <= Len(A)
    BY <1>1
  <2>2. A[k + 1] \in Durations
    BY <1>1, <2>1, Elements
  <2>3. QED
    BY <2>2 DEF LevelAt
<1>3. b \in Decoders /\ n \in Nat /\ b.state = "repeat" /\ n \in 0..5
  BY <1>0, Kept DEF Misled
<1> HIDE DEF x, lvl
<1>4. /\ d \in Decoders /\ d.state = "repeat"
      /\ u \in Seq(Durations) /\ Len(u) = n + 1 /\ u[n + 1] = x
      /\ \A i \in 1..n : u[i] = b.timings[i]
  BY <1>2, <1>3, FedType
<1>5. r = Repeated(p, d)
  BY <1>0, <1>2, <1>3, ByState
<1>6. n = IF k < 6 THEN k ELSE k - 6
  BY DEF Misled, Begins
<1> HIDE DEF d, r
<1>7. SUFFICES Misled(r.d, bits, k + 1)
  BY DEF r, x, lvl, A
<1>8. CASE k < 5
  <2>1. n = k /\ \A i \in 1..k : b.timings[i] = A[i]
    BY <1>6, <1>8 DEF Misled, Begins, A
  <2>2. Len(u) = k + 1 /\ u[k + 1] = A[k + 1] /\ \A i \in 1..k : u[i] = A[i]
    BY <1>4, <2>1 DEF x
  <2>3. \A i \in 1..k + 1 : i \in 1..k \/ i = k + 1
    OBVIOUS
  <2>4. Begins(u, A, k + 1)
    BY <2>2, <2>3 DEF Begins
  <2>5. Len(u) < Len(RepeatTimings(p))
    <3>1. k + 1 \in Nat /\ k + 1 < 6
      BY <1>8
    <3>2. QED
      BY <1>0, <2>2, <3>1, Fitting
  <2>6. r.d = d
    BY <1>5, <2>5, RepeatedMore DEF Result
  <2>7. k + 1 < 6 /\ ~(k + 1 >= 6)
    BY <1>8
  <2>8. QED
    BY <1>4, <2>4, <2>6, <2>7 DEF Misled, A
<1>9. CASE k = 5
  <2>1. n = 5 /\ \A i \in 1..5 : b.timings[i] = A[i]
    BY <1>6, <1>9 DEF Misled, Begins, A
  <2>2. /\ Len(u) = 6 /\ u[1] = "pause" /\ u[2] = "4500" /\ u[3] = "4500" /\ u[4] = "560"
        /\ u[5] = "1600" /\ u[6] = "560"
    BY <1>1, <1>4, <1>9, <2>1 DEF x
  <2> DEFINE R == <<"pause", "4500", "4500", "560", "1600", "560">>
  <2>3. R \in Seq(Durations) /\ Len(R) = 6 /\ R[1] = "pause" /\ R[2] = "4500" /\ R[3] = "4500"
        /\ R[4] = "560" /\ R[5] = "1600" /\ R[6] = "560"
    BY DEF Durations
  <2>4. R = RepeatTimings(p)
    BY DEF RepeatTimings
  <2> HIDE DEF R
  <2>5. \A i \in 1..6 : i = 1 \/ i = 2 \/ i = 3 \/ i = 4 \/ i = 5 \/ i = 6
    OBVIOUS
  <2>6. \A i \in 1..6 : u[i] = R[i]
    BY <2>2, <2>3, <2>5
  <2>7. u = R
    <3>1. Len(u) = Len(R) /\ \A i \in 1..Len(R) : u[i] = R[i]
      BY <2>2, <2>3, <2>6
    <3>2. QED
      BY <1>4, <2>3, <3>1, SameElements
  <2>8. r.d.timings = <<>> /\ r.d.state = "repeat"
    <3>1. u = RepeatTimings(p)
      BY <2>4, <2>7
    <3>2. Repeated(p, d).d.timings = <<>> /\ Repeated(p, d).d.state = d.state
      BY <1>4, <3>1, RepeatedWhole
    <3>3. QED
      BY <1>4, <1>5, <3>2
  <2>9. Len(<<>>) = 0 /\ k + 1 = 6 /\ ~(6 < 6) /\ 6 - 6 = 0 /\ \A i : i \notin 1..0
    BY <1>9
  <2>10. QED
    BY <2>8, <2>9 DEF Misled
<1>10. CASE k > 5
  <2>1. n = k - 6 /\ \A i \in 1..n : b.timings[i] \in {"560", "1600"}
    BY <1>10 DEF Misled
  <2>2. x \in {"560", "1600"}
    <3>1. k + 1 \in 7..11
      BY <1>10
    <3>2. QED
      BY <1>1, <3>1 DEF x
  <2>3. \A i \in 1..n + 1 : i \in 1..n \/ i = n + 1
    BY <1>3
  <2>4. \A i \in 1..n + 1 : u[i] \in {"560", "1600"}
    BY <1>4, <2>1, <2>2, <2>3
  <2>5. Len(u) < Len(RepeatTimings(p))
    <3>1. n + 1 \in Nat /\ n + 1 < 6
      <4> HIDE DEF n
      <4>1. QED
        BY <1>3, <1>10, <2>1
    <3>2. QED
      BY <1>0, <1>4, <3>1, Fitting
  <2>6. r.d = d
    BY <1>5, <2>5, RepeatedMore DEF Result
  <2>7. Len(u) = (k + 1) - 6 /\ k + 1 >= 6 /\ ~(k + 1 < 6)
    BY <1>4, <1>10, <2>1
  <2>8. QED
    BY <1>4, <2>4, <2>6, <2>7 DEF Misled
<1>11. QED
  BY <1>8, <1>9, <1>10

LEMMA MisledStop ==
  ASSUME NEW p, p = "samsung", NEW b, Keeps(p, b), NEW bits, Misled(b, bits, 11)
  PROVE  LET e == DecodeTiming(p, b, 0, "560").d
         IN e.state # "repeat" /\ Resting(p, e)
<1> DEFINE x == "560"
           d == Fed(b, 0, x)
           r == DecodeTiming(p, b, 0, x)
           u == d.timings
           n == Len(b.timings)
           e == CheckPreamble(p, d)
<1>0. p \in Protocols /\ x \in Durations
  BY DEF Protocols, Durations
<1>1. b \in Decoders /\ b.state = "repeat" /\ n = 5
      /\ \A i \in 1..5 : b.timings[i] \in {"560", "1600"}
  <2>1. 11 >= 6 /\ 11 - 6 = 5
    OBVIOUS
  <2>2. b \in Decoders
    BY <1>0, Kept
  <2>3. QED
    BY <2>1, <2>2 DEF Misled
<1>2. /\ d \in Decoders /\ d.level = 0 /\ u \in Seq(Durations) /\ Len(u) = n + 1
      /\ \A i \in 1..n : u[i] = b.timings[i]
  BY <1>0, <1>1, FedType
<1>3. r = Repeated(p, d)
  BY <1>0, <1>1, ByState
<1> HIDE DEF d, r, x
<1>4. Len(u) = 6 /\ \A i \in 1..5 : u[i] \in {"560", "1600"}
  BY <1>1, <1>2
<1>5. u[1] \in {"560", "1600"} /\ u[2] \in {"560", "1600"} /\ u[4] \in {"560", "1600"}
  BY <1>4
<1>6. u # RepeatTimings(p)
  <2>1. RepeatTimings(p)[1] = "pause"
    BY DEF RepeatTimings
  <2>2. QED
    BY <1>5, <2>1
<1>7. ~(Len(u) < Len(RepeatTimings(p)))
  BY <1>0, <1>4, Fitting
<1>8. r.d = e
  BY <1>3, <1>6, <1>7, RepeatedNone DEF Result
<1>9. \A v, w : v \in {"560", "1600"} => <<v, w>> # Preamble(p)
  BY DEF Preamble
<1>10. Waits(e, <<u[6]>>)
  <2>1. <<u[2], u[3]>> # Preamble(p) /\ <<u[4], u[5]>> # Preamble(p)
    BY <1>5, <1>9
  <2>2. IF <<u[2], u[3]>> = Preamble(p) THEN Starts(e, <<u[4], u[5], u[6]>>)
        ELSE IF <<u[4], u[5]>> = Preamble(p) THEN Starts(e, <<u[6]>>)
        ELSE Waits(e, <<u[6]>>)
    BY <1>0, <1>2, <1>4, SearchAfterMark
  <2>3. QED
    BY <2>1, <2>2
<1>11. r.d.state = "wait"
  BY <1>8, <1>10 DEF Waits
<1>12. QED
  BY <1>11 DEF Resting, r, x

LEMMA MisledRests ==
  ASSUME NEW p, NEW b, NEW bits, NEW k \in {2, 4, 6, 8, 10}, Misled(b, bits, k)
  PROVE  Resting(p, b)
<1>1. b.state = "repeat" /\ Len(b.timings) = IF k < 6 THEN k ELSE k - 6
  BY DEF Misled, Begins
<1>2. (IF k < 6 THEN k ELSE k - 6) \in {0, 2, 4}
  OBVIOUS
<1>3. QED
  BY <1>1, <1>2 DEF Resting

(* A repeat.                                                               *)
LEMMA RepeatStep ==
  ASSUME NEW p \in Protocols, NEW b, Keeps(p, b), NEW q \in Protocols, NEW bits \in Bits,
         NEW k \in 0..5, k < Len(RepeatTimings(q)), NEW m, HearsRepeat(m, p, b, q, bits, k)
  PROVE  LET A == RepeatTimings(q)
             r == DecodeTiming(p, b, LevelAt(k), A[k + 1])
         IN /\ HearsRepeat(m, p, r.d, q, bits, IF k + 1 = Len(A) THEN 0 ELSE k + 1)
            /\ r.message = IF k + 1 = Len(A) /\ Legit(p, q, bits) /\ ~m
                           THEN [MessageOf(q, bits) EXCEPT !.repeat = TRUE] ELSE NoMessage
<1>1. LevelAt(k) \in {0, 1}
  BY DEF LevelAt
<1>2. CASE Legit(p, q, bits) /\ ~m
  <2>1. p = q /\ Collects(b, p, bits, k)
    BY <1>2 DEF Legit, HearsRepeat
  <2> DEFINE A == RepeatTimings(q)
             r == DecodeTiming(p, b, LevelAt(k), A[k + 1])
  <2>2. IF k + 1 = Len(A)
        THEN /\ r.message = [MessageOf(q, bits) EXCEPT !.repeat = TRUE]
             /\ Collects(r.d, q, bits, 0)
        ELSE r.message = NoMessage /\ Collects(r.d, q, bits, k + 1)
    <3>1. k < Len(RepeatTimings(p)) /\ Collects(b, p, bits, k)
      BY <2>1
    <3>2. LET e == DecodeTiming(p, b, LevelAt(k), RepeatTimings(p)[k + 1])
          IN IF k + 1 = Len(RepeatTimings(p))
             THEN /\ e.message = [MessageOf(p, bits) EXCEPT !.repeat = TRUE]
                  /\ Collects(e.d, p, bits, 0)
             ELSE e.message = NoMessage /\ Collects(e.d, p, bits, k + 1)
      BY <1>1, <3>1, CollectStep
    <3>3. QED
      BY <2>1, <3>2
  <2> HIDE DEF r, A
  <2>3. /\ Collects(r.d, q, bits, IF k + 1 = Len(A) THEN 0 ELSE k + 1)
        /\ r.message = IF k + 1 = Len(A) THEN [MessageOf(q, bits) EXCEPT !.repeat = TRUE] ELSE NoMessage
    BY <2>2
  <2>4. QED
    BY <1>2, <2>3 DEF HearsRepeat, r, A
<1>3. CASE ~(Legit(p, q, bits) /\ ~m)
  <2>1. Overhears(p, b, RepeatTimings(q)[2], k)
    BY <1>3 DEF HearsRepeat
  <2>2. QED
    BY <1>3, <2>1, OverhearStep DEF HearsRepeat
<1>4. QED
  BY <1>2, <1>3

-----------------------------------------------------------------------------
(* What the remote begins, and where it is interrupted.                    *)
LEMMA QuietInit == IrdaInit => Quiet
<1>1. SUFFICES ASSUME IrdaInit PROVE Quiet
  OBVIOUS
<1>2. \A p \in Protocols : decoder[p].state = "wait"
  BY <1>1 DEF IrdaInit
<1>3. QED
  BY <1>1, <1>2 DEF Quiet, IrdaInit, Resting

LEMMA IdleIsQuiet ==
  ASSUME Quiet \/ InFrame \/ InRepeat \/ InNoise, air = <<>>
  PROVE  Quiet
<1>1. ASSUME NEW A \in Seq(Durations), NEW k \in Nat, k < Len(A), Remains(air, A, k)
      PROVE  FALSE
  BY <1>1, Leftover
<1>2. ~InFrame
  <2> SUFFICES ASSUME NEW s \in {"pause", "gap"}, NEW q \in Protocols, NEW bits \in Bits, NEW k \in 0..11,
                      Remains(air, Sent(s, q, bits), k)
               PROVE  FALSE
    BY DEF InFrame
  <2> DEFINE A == Sent(s, q, bits)
  <2>1. A \in Seq(Durations) /\ Len(A) = 12
    BY SMTT(60), SentIs DEF Silences
  <2> HIDE DEF A
  <2>2. k \in Nat /\ k < Len(A)
    BY <2>1
  <2>3. QED
    BY <1>1, <2>1, <2>2 DEF A
<1>3. ~InRepeat
  <2> SUFFICES ASSUME NEW q \in Protocols, NEW k \in 0..5, k < Len(RepeatTimings(q)),
                      Remains(air, RepeatTimings(q), k)
               PROVE  FALSE
    BY DEF InRepeat
  <2>1. RepeatTimings(q) \in Seq(Durations) /\ k \in Nat
    BY RepeatIs
  <2>2. QED
    BY <1>1, <2>1
<1>4. ~InNoise
  <2> SUFFICES ASSUME NEW s \in Silences, NEW k \in {0, 1}, Remains(air, <<s, "noise">>, k)
               PROVE  FALSE
    BY DEF InNoise
  <2>1. s \in Durations /\ "noise" \in Durations
    BY DEF Silences, Durations
  <2>2. <<s, "noise">> \in Seq(Durations) /\ Len(<<s, "noise">>) = 2
    BY <2>1
  <2>3. k \in Nat /\ k < Len(<<s, "noise">>)
    BY <2>2
  <2>4. QED
    BY <1>1, <2>2, <2>3
<1>5. QED
  BY <1>2, <1>3, <1>4

LEMMA FrameBegins ==
  ASSUME IrdaIInv, Quiet, SendFrame
  PROVE  InFrame'
<1>1. PICK q \in Protocols, bits \in Bits, s \in {"pause", "gap"} :
        /\ mistaken' = BeginsLikeRepeat(s, q, bits)
        /\ air' = Sent(s, q, bits)
        /\ sending' = [kind |-> "frame", protocol |-> q, bits |-> bits]
  BY DEF SendFrame, Sent
<1>2. lastSent' = Nothing /\ UNCHANGED <<decoder, level>> /\ level = 1
  BY DEF SendFrame, Quiet
<1> DEFINE A == Sent(s, q, bits)
<1>3. Remains(air', A, 0)
  <2>1. A \in Seq(Durations)
    BY SMTT(60), SentIs DEF Silences
  <2>2. air' = A
    BY <1>1
  <2> HIDE DEF A
  <2>3. QED
    BY <2>1, <2>2, AllRemains
<1>4. level' = LevelAt(0)
  BY <1>2 DEF LevelAt
<1>5. mistaken' => s = "pause" /\ q = "samsung" /\ bits[1] = 1 /\ AwaitsRepeat(decoder["samsung"])
  BY <1>1 DEF BeginsLikeRepeat
<1>6. ASSUME NEW p \in Protocols
      PROVE  HearsFrame(mistaken', p, decoder'[p], s, q, bits, 0)
  <2>1. Resting(p, decoder[p]) /\ decoder' = decoder
    BY <1>2 DEF Quiet
  <2>2. CASE mistaken' /\ p = "samsung"
    <3>1. decoder[p].state = "repeat" /\ decoder[p].timings = <<>>
      BY <1>5, <2>2 DEF AwaitsRepeat
    <3>2. Len(<<>>) = 0 /\ 0 < 6 /\ ~(0 >= 6) /\ \A i : i \notin 1..0
      OBVIOUS
    <3>3. Misled(decoder[p], bits, 0)
      BY <3>1, <3>2 DEF Misled, Begins
    <3>4. QED
      BY <2>1, <2>2, <3>3 DEF HearsFrame
  <2>3. CASE ~(mistaken' /\ p = "samsung")
    <3>1. decoder[p].state = "repeat" /\ Len(decoder[p].timings) = 0 => Apart(p, s, q, bits)
      <4> SUFFICES ASSUME decoder[p].state = "repeat", Len(decoder[p].timings) = 0
                   PROVE  Apart(p, s, q, bits)
        OBVIOUS
      <4>1. \A t \in Seq(Durations) : Len(t) = 0 => t = <<>>
        OBVIOUS
      <4>2. decoder[p].timings \in Seq(Durations)
        BY Kept DEF IrdaIInv
      <4>3. AwaitsRepeat(decoder[p])
        BY <4>1, <4>2 DEF AwaitsRepeat
      <4>4. bits[1] \in {0, 1}
        BY DEF Bits, DataBits
      <4>5. CASE p = "nec"
        BY <4>5 DEF Apart
      <4>6. CASE p = "samsung"
        <5>1. ~BeginsLikeRepeat(s, q, bits)
          BY <1>1, <2>3, <4>6
        <5>2. QED
          BY <4>3, <4>4, <4>6, <5>1 DEF BeginsLikeRepeat, Apart
      <4>7. QED
        BY <4>5, <4>6 DEF Protocols
    <3>2. Hears(p, decoder[p], s, q, bits, 0)
      BY <2>1, <3>1 DEF Hears
    <3>3. QED
      BY <2>1, <2>3, <3>2 DEF HearsFrame
  <2>4. QED
    BY <2>2, <2>3
<1>7. 0 \in 0..11
  OBVIOUS
<1> HIDE DEF A
<1>8. QED
  BY <1>1, <1>2, <1>3, <1>4, <1>5, <1>6, <1>7 DEF InFrame, A

LEMMA RepeatBegins ==
  ASSUME Quiet, SendRepeat
  PROVE  InRepeat'
<1>1. PICK q \in Protocols, bits \in Bits :
        /\ lastSent = [kind |-> "frame", protocol |-> q, bits |-> bits]
        /\ \A p \in Protocols : HearsRepeat(mistaken, p, decoder[p], q, bits, 0)
  BY DEF Quiet, SendRepeat
<1>2. UNCHANGED <<decoder, level, lastSent, mistaken>> /\ level = 1
  BY DEF SendRepeat, Quiet
<1>3. sending' = [kind |-> "repeat", protocol |-> q, bits |-> bits]
  BY <1>1 DEF SendRepeat
<1> DEFINE A == RepeatTimings(q)
<1>4. A \in Seq(Durations) /\ Len(A) \in {4, 6} /\ A # <<>> /\ A[1] = "pause"
  BY RepeatIs
<1> HIDE DEF A
<1>5. Remains(air', A, 0)
  <2> DEFINE u == Tail(A)
             t == <<"pause">> \o u
  <2>1. air' = t
    BY <1>1 DEF SendRepeat, Repeat, A
  <2>2. u \in Seq(Durations) /\ Len(u) = Len(A) - 1 /\ \A i \in 1..Len(A) - 1 : u[i] = A[i + 1]
    BY <1>4, TailType, Tails
  <2>3. <<"pause">> \in Seq(Durations) /\ Len(<<"pause">>) = 1 /\ <<"pause">>[1] = "pause"
    BY DEF Durations
  <2> HIDE DEF u
  <2>4. /\ t \in Seq(Durations) /\ Len(t) = 1 + Len(u) /\ t[1] = "pause"
        /\ \A i \in 1..Len(u) : t[1 + i] = u[i]
    BY <2>2, <2>3, Joined
  <2> HIDE DEF t
  <2>5. Len(t) = Len(A)
    BY <1>4, <2>2, <2>4
  <2>6. ASSUME NEW i \in 1..Len(t)
        PROVE  t[i] = A[0 + i]
    <3>1. CASE i = 1
      BY <1>4, <2>4, <3>1
    <3>2. CASE i # 1
      <4>1. i - 1 \in 1..Len(u) /\ i - 1 \in 1..Len(A) - 1 /\ 1 + (i - 1) = i /\ (i - 1) + 1 = i
            /\ 0 + i = i
        BY <1>4, <2>2, <2>5, <3>2
      <4>2. t[1 + (i - 1)] = u[i - 1] /\ u[i - 1] = A[(i - 1) + 1]
        BY <2>2, <2>4, <4>1
      <4>3. QED
        BY <4>1, <4>2
    <3>3. QED
      BY <3>1, <3>2
  <2>7. Len(t) = Len(A) - 0
    BY <1>4, <2>5
  <2>8. QED
    BY <2>1, <2>4, <2>6, <2>7 DEF Remains
<1>6. level' = LevelAt(0) /\ 0 < Len(A) /\ 0 \in 0..5
  BY <1>2, <1>4 DEF LevelAt
<1>7. \A p \in Protocols : HearsRepeat(mistaken', p, decoder'[p], q, bits, 0)
  BY <1>1, <1>2
<1>8. lastSent' = [kind |-> "frame", protocol |-> q, bits |-> bits]
  BY <1>1, <1>2
<1>9. QED
  BY <1>3, <1>5, <1>6, <1>7, <1>8 DEF InRepeat, A

LEMMA NoiseBegins ==
  ASSUME Quiet, SendNoise
  PROVE  InNoise'
<1>1. PICK s \in Silences : air' = <<s, "noise">>
  BY DEF SendNoise, Silences
<1>2. /\ sending' = Nothing /\ lastSent' = Nothing /\ UNCHANGED <<decoder, level>> /\ level = 1
      /\ \A p \in Protocols : Resting(p, decoder[p])
  BY DEF SendNoise, Quiet
<1>3. <<s, "noise">> \in Seq(Durations)
  BY DEF Silences, Durations
<1>4. Remains(air', <<s, "noise">>, 0)
  BY <1>1, <1>3, AllRemains
<1>5. level' = LevelAt(0) /\ 0 \in {0, 1} /\ \A p \in Protocols : Resting(p, decoder'[p])
  BY <1>2 DEF LevelAt
<1>6. QED
  BY <1>2, <1>4, <1>5 DEF InNoise

(* The interrupted space becomes a silence: every decoder is at rest.      *)
LEMMA InterruptQuiets ==
  ASSUME IrdaIInv, Quiet \/ InFrame \/ InRepeat \/ InNoise, Interrupt
  PROVE  Quiet'
<1>1. /\ level = 1 /\ air # <<>> /\ sending # Nothing /\ Head(air) \notin {"pause", "gap"}
      /\ air' = <<>> /\ sending' = Nothing /\ lastSent' = Nothing /\ UNCHANGED <<decoder, level>>
  BY DEF Interrupt
<1>2. SUFFICES \A p \in Protocols : Resting(p, decoder[p])
  BY <1>1 DEF Quiet
<1>3. InFrame \/ InRepeat
  BY <1>1 DEF Quiet, InNoise
<1>4. CASE InFrame
  <2>1. PICK s \in {"pause", "gap"}, q \in Protocols, bits \in Bits, k \in 0..11 :
          /\ Remains(air, Sent(s, q, bits), k) /\ level = LevelAt(k)
          /\ \A p \in Protocols : HearsFrame(mistaken, p, decoder[p], s, q, bits, k)
    BY <1>4 DEF InFrame
  <2> DEFINE A == Sent(s, q, bits)
  <2>2. s \in Silences
    BY DEF Silences
  <2>3. A \in Seq(Durations) /\ Len(A) = 12 /\ A[1] = s
    BY <2>2, SentIs
  <2> HIDE DEF A
  <2>4. k \in {0, 2, 4, 6, 8, 10}
    BY <1>1, <2>1 DEF LevelAt
  <2>5. k # 0
    <3> SUFFICES ASSUME k = 0 PROVE FALSE
      OBVIOUS
    <3>1. k \in Nat /\ k < Len(A) /\ k + 1 = 1
      BY <2>3
    <3>2. Remains(air, A, k)
      BY <2>1 DEF A
    <3>3. Head(air) = A[k + 1]
      BY <2>3, <3>1, <3>2, Leftover
    <3>4. QED
      BY <1>1, <2>3, <3>1, <3>3
  <2>6. k \in {2, 4, 6, 8, 10}
    BY <2>4, <2>5
  <2>7. QED
    <3> SUFFICES ASSUME NEW p \in Protocols PROVE Resting(p, decoder[p])
      OBVIOUS
    <3>1. Keeps(p, decoder[p]) /\ HearsFrame(mistaken, p, decoder[p], s, q, bits, k)
      BY <2>1 DEF IrdaIInv
    <3>2. CASE mistaken /\ p = "samsung"
      <4>1. Misled(decoder[p], bits, k)
        BY <3>1, <3>2 DEF HearsFrame
      <4>2. QED
        BY <2>6, <4>1, MisledRests
    <3>3. CASE ~(mistaken /\ p = "samsung")
      <4>1. Hears(p, decoder[p], s, q, bits, k)
        BY <3>1, <3>3 DEF HearsFrame
      <4>2. QED
        BY <2>2, <2>6, <3>1, <4>1, FrameRests
    <3>4. QED
      BY <3>2, <3>3
<1>5. CASE InRepeat
  <2>1. PICK q \in Protocols, bits \in Bits, k \in 0..5 :
          /\ k < Len(RepeatTimings(q)) /\ Remains(air, RepeatTimings(q), k) /\ level = LevelAt(k)
          /\ \A p \in Protocols : HearsRepeat(mistaken, p, decoder[p], q, bits, k)
    BY <1>5 DEF InRepeat
  <2> DEFINE A == RepeatTimings(q)
  <2>2. A \in Seq(Durations) /\ A[1] = "pause"
    BY RepeatIs
  <2> HIDE DEF A
  <2>3. k \in {0, 2, 4}
    BY <1>1, <2>1 DEF LevelAt
  <2>4. k # 0
    <3> SUFFICES ASSUME k = 0 PROVE FALSE
      OBVIOUS
    <3>1. k \in Nat /\ k < Len(A) /\ k + 1 = 1
      BY <2>1 DEF A
    <3>2. Head(air) = A[k + 1]
      BY <2>1, <2>2, <3>1, Leftover DEF A
    <3>3. QED
      BY <1>1, <2>2, <3>1, <3>2
  <2>5. ASSUME NEW p \in Protocols
        PROVE  Resting(p, decoder[p])
    <3>1. CASE Legit(p, q, bits) /\ ~mistaken
      <4>1. p = q /\ Collects(decoder[p], q, bits, k)
        BY <2>1, <3>1 DEF HearsRepeat, Legit
      <4>2. Collects(decoder[p], p, bits, k)
        BY <4>1
      <4>3. QED
        BY <2>3, <2>4, <4>2, CollectRests
    <3>2. CASE ~(Legit(p, q, bits) /\ ~mistaken)
      <4>1. Overhears(p, decoder[p], RepeatTimings(q)[2], k)
        BY <2>1, <3>2 DEF HearsRepeat
      <4>2. QED
        BY <2>3, <4>1, OverhearRests
    <3>3. QED
      BY <3>1, <3>2
  <2>6. QED
    BY <2>5
<1>6. QED
  BY <1>3, <1>4, <1>5

-----------------------------------------------------------------------------
(* An edge, in each phase.                                                 *)
LEMMA FrameEdge ==
  ASSUME IrdaIInv, InFrame, Edge
  PROVE  (InFrame \/ Quiet)' /\ (~mistaken => reported' = expected')
<1>1. PICK s \in {"pause", "gap"}, q \in Protocols, bits \in Bits, k \in 0..11 :
        /\ sending = [kind |-> "frame", protocol |-> q, bits |-> bits] /\ lastSent = Nothing
        /\ Remains(air, Sent(s, q, bits), k) /\ level = LevelAt(k)
        /\ mistaken => s = "pause" /\ q = "samsung" /\ bits[1] = 1
        /\ \A p \in Protocols : HearsFrame(mistaken, p, decoder[p], s, q, bits, k)
  BY DEF InFrame
<1> DEFINE A == Sent(s, q, bits)
           m == MessageOf(q, bits)
           sent == [kind |-> "frame", protocol |-> q, bits |-> bits]
<1>2. s \in Silences
  BY DEF Silences
<1>3. A \in Seq(Durations) /\ Len(A) = 12 /\ A[12] = "560"
  BY <1>2, SentIs
<1>4. Remains(air, A, k) /\ k \in Nat
  BY <1>1
<1> HIDE DEF A
<1>5. /\ Head(air) = A[k + 1] /\ Remains(Tail(air), A, k + 1)
      /\ Tail(air) = <<>> <=> k + 1 = 12
  <2>1. A \in Seq(Durations) /\ k < Len(A)
    BY <1>3
  <2>2. /\ Head(air) = A[k + 1] /\ Remains(Tail(air), A, k + 1)
        /\ Tail(air) = <<>> <=> k + 1 = Len(A)
    BY <1>4, <2>1, Leftover
  <2>3. QED
    BY <1>3, <2>2
<1>6. /\ air' = Tail(air) /\ level' = 1 - level
      /\ expected' = IF Tail(air) = <<>> THEN Expected ELSE NoMessage
      /\ lastSent' = IF Tail(air) = <<>> /\ sending # Nothing
                     THEN [sending EXCEPT !.kind = "frame"] ELSE lastSent
      /\ sending' = IF Tail(air) = <<>> THEN Nothing ELSE sending
      /\ mistaken' = mistaken
  BY DEF Edge
<1>7. \A p \in Protocols : Keeps(p, decoder[p]) /\ decoder'[p] = Decoding(p).d
  BY EdgeDecodes
<1>8. CASE k \in 0..10
  <2>1. Tail(air) # <<>>
    <3>1. k + 1 # 12
      BY <1>8
    <3>2. QED
      BY <1>5, <3>1
  <2>2. ASSUME NEW p \in Protocols
        PROVE  /\ HearsFrame(mistaken, p, decoder'[p], s, q, bits, k + 1)
               /\ ~mistaken => Decoding(p).message = NoMessage
    <3>1. Decoding(p) = DecodeTiming(p, decoder[p], LevelAt(k), Sent(s, q, bits)[k + 1])
      BY <1>1, <1>5 DEF Decoding, A
    <3>2. CASE mistaken /\ p = "samsung"
      <4>1. s = "pause" /\ q = p /\ bits[1] = 1 /\ Misled(decoder[p], bits, k)
        BY <1>1, <3>2 DEF HearsFrame
      <4>2. Misled(DecodeTiming(p, decoder[p], LevelAt(k), Sent("pause", p, bits)[k + 1]).d, bits, k + 1)
        BY <1>7, <1>8, <3>2, <4>1, MisledStep
      <4>3. QED
        BY <1>7, <3>1, <3>2, <4>1, <4>2 DEF HearsFrame
    <3>3. CASE ~(mistaken /\ p = "samsung")
      <4>1. Hears(p, decoder[p], s, q, bits, k)
        BY <1>1, <3>3 DEF HearsFrame
      <4>2. LET r == DecodeTiming(p, decoder[p], LevelAt(k), Sent(s, q, bits)[k + 1])
            IN r.message = NoMessage /\ Hears(p, r.d, s, q, bits, k + 1)
        BY <1>7, <1>8, <4>1, FrameStep
      <4>3. QED
        BY <1>7, <3>1, <3>3, <4>2 DEF HearsFrame
    <3>4. QED
      BY <3>2, <3>3
  <2>3. ~mistaken => reported' = NoMessage
    BY <2>2, EdgeDecodes
  <2>4. level' = LevelAt(k + 1) /\ k + 1 \in 0..11
    BY <1>1, <1>6, <1>8, LevelTurns
  <2>5. sending' = sent /\ lastSent' = Nothing /\ expected' = NoMessage
    BY <1>1, <1>6, <2>1
  <2>6. Remains(air', Sent(s, q, bits), k + 1)
    BY <1>5, <1>6 DEF A
  <2>7. InFrame'
    BY <1>1, <1>6, <2>2, <2>4, <2>5, <2>6 DEF InFrame
  <2>8. QED
    BY <2>3, <2>5, <2>7
<1>9. CASE k = 11
  <2>1. Tail(air) = <<>> /\ Head(air) = "560" /\ level = 0 /\ level' = 1
    <3>1. k + 1 = 12
      BY <1>9
    <3>2. LevelAt(11) = 0
      BY DEF LevelAt
    <3>3. QED
      BY <1>1, <1>3, <1>5, <1>6, <1>9, <3>1, <3>2
  <2>2. ASSUME NEW p \in Protocols, ~(mistaken /\ p = "samsung")
        PROVE  IF Legit(p, q, bits)
               THEN Decoding(p).message = m /\ Collects(decoder'[p], q, bits, 0)
               ELSE /\ Decoding(p).message = NoMessage
                    /\ decoder'[p].state # "repeat" /\ Resting(p, decoder'[p])
    <3>1. Hears(p, decoder[p], s, q, bits, 11)
      BY <1>1, <1>9, <2>2 DEF HearsFrame
    <3>2. LET r == DecodeTiming(p, decoder[p], 0, "560")
          IN IF Legit(p, q, bits)
             THEN r.message = MessageOf(q, bits) /\ Collects(r.d, q, bits, 0)
             ELSE r.message = NoMessage /\ r.d.state # "repeat" /\ Resting(p, r.d)
      BY <1>2, <1>7, <3>1, StopStep
    <3>3. Decoding(p) = DecodeTiming(p, decoder[p], 0, "560")
      BY <2>1 DEF Decoding
    <3>4. QED
      BY <1>7, <3>2, <3>3
  <2>3. ASSUME mistaken, NEW p \in Protocols
         PROVE  decoder'[p].state # "repeat" /\ Resting(p, decoder'[p])
    <3>1. CASE p = "samsung"
      <4>1. Misled(decoder[p], bits, 11)
        BY <1>1, <1>9, <2>3, <3>1 DEF HearsFrame
      <4>2. LET e == DecodeTiming(p, decoder[p], 0, "560").d
            IN e.state # "repeat" /\ Resting(p, e)
        BY <1>7, <3>1, <4>1, MisledStop
      <4>3. QED
        BY <1>7, <2>1, <4>2 DEF Decoding
    <3>2. CASE p # "samsung"
      <4>1. ~Legit(p, q, bits)
        BY <1>1, <2>3, <3>2 DEF Legit
      <4>2. QED
        BY <2>2, <3>2, <4>1
    <3>3. QED
      BY <3>1, <3>2
  <2>4. ~mistaken => reported' = IF Interprets(q, bits) THEN m ELSE NoMessage
    <3> SUFFICES ASSUME ~mistaken
                 PROVE  reported' = IF Interprets(q, bits) THEN m ELSE NoMessage
      OBVIOUS
    <3>1. \A p \in Protocols : p # q => Decoding(p).message = NoMessage
      BY <2>2 DEF Legit
    <3>2. reported' = Decoding(q).message
      BY <3>1, EdgeDecodes
    <3>3. Decoding(q).message = IF Interprets(q, bits) THEN m ELSE NoMessage
      BY <2>2 DEF Legit
    <3>4. QED
      BY <3>2, <3>3
  <2>5. expected' = IF Interprets(q, bits) THEN m ELSE NoMessage
    BY <1>1, <1>6, <2>1, ExpectedIs
  <2>6. air' = <<>> /\ sending' = Nothing /\ level' = 1
    BY <1>6, <2>1
  <2>7. lastSent' = sent
    <3>1. sent.kind = "frame" /\ Nothing.kind = "nothing"
      BY DEF Nothing
    <3>2. sent # Nothing
      BY <3>1
    <3>3. [sent EXCEPT !.kind = "frame"] = sent
      OBVIOUS
    <3>4. QED
      BY <1>1, <1>6, <2>1, <3>2, <3>3
  <2>8. ASSUME NEW p \in Protocols
        PROVE  Resting(p, decoder'[p]) /\ HearsRepeat(mistaken, p, decoder'[p], q, bits, 0)
    <3>1. CASE mistaken
      BY <2>3, <3>1 DEF HearsRepeat, Overhears
    <3>2. CASE ~mistaken /\ Legit(p, q, bits)
      <4>1. p = q /\ Collects(decoder'[p], q, bits, 0)
        BY <2>2, <3>2 DEF Legit
      <4>2. Collects(decoder'[p], p, bits, 0) /\ 0 \in {0, 2, 4}
        BY <4>1
      <4>3. Resting(p, decoder'[p])
        BY <4>2, CollectRests
      <4>4. QED
        BY <3>2, <4>1, <4>3 DEF HearsRepeat
    <3>3. CASE ~mistaken /\ ~Legit(p, q, bits)
      BY <2>2, <3>3 DEF HearsRepeat, Overhears
    <3>4. QED
      BY <3>1, <3>2, <3>3
  <2>9. Quiet'
    BY <1>6, <2>6, <2>7, <2>8 DEF Quiet
  <2>10. QED
    BY <2>4, <2>5, <2>9
<1>10. QED
  BY <1>8, <1>9

LEMMA RepeatEdge ==
  ASSUME IrdaIInv, InRepeat, Edge
  PROVE  (InRepeat \/ Quiet)' /\ (~mistaken => reported' = expected')
<1>1. PICK q \in Protocols, bits \in Bits, k \in 0..5 :
        /\ sending = [kind |-> "repeat", protocol |-> q, bits |-> bits]
        /\ lastSent = [kind |-> "frame", protocol |-> q, bits |-> bits]
        /\ k < Len(RepeatTimings(q)) /\ Remains(air, RepeatTimings(q), k) /\ level = LevelAt(k)
        /\ \A p \in Protocols : HearsRepeat(mistaken, p, decoder[p], q, bits, k)
  BY DEF InRepeat
<1> DEFINE A == RepeatTimings(q)
           m == [MessageOf(q, bits) EXCEPT !.repeat = TRUE]
           sent == [kind |-> "repeat", protocol |-> q, bits |-> bits]
           frame == [kind |-> "frame", protocol |-> q, bits |-> bits]
<1>2. A \in Seq(Durations) /\ Len(A) \in {4, 6}
  BY RepeatIs
<1>3. Remains(air, A, k) /\ k \in Nat /\ k < Len(A)
  BY <1>1
<1> DEFINE next == IF k + 1 = Len(A) THEN 0 ELSE k + 1
<1>4. \A p \in Protocols : Keeps(p, decoder[p]) /\ decoder'[p] = Decoding(p).d
  BY EdgeDecodes
<1> HIDE DEF A, m
<1>5. /\ Head(air) = A[k + 1] /\ Remains(Tail(air), A, k + 1)
      /\ Tail(air) = <<>> <=> k + 1 = Len(A)
  BY <1>2, <1>3, Leftover
<1>6. /\ air' = Tail(air) /\ level' = 1 - level
      /\ expected' = IF Tail(air) = <<>> THEN Expected ELSE NoMessage
      /\ lastSent' = IF Tail(air) = <<>> /\ sending # Nothing
                     THEN [sending EXCEPT !.kind = "frame"] ELSE lastSent
      /\ sending' = IF Tail(air) = <<>> THEN Nothing ELSE sending
      /\ mistaken' = mistaken
  BY DEF Edge
<1>7. ASSUME NEW p \in Protocols
      PROVE  /\ HearsRepeat(mistaken, p, decoder'[p], q, bits, next)
             /\ Decoding(p).message =
                  IF k + 1 = Len(A) /\ Legit(p, q, bits) /\ ~mistaken THEN m ELSE NoMessage
  <2>1. LET r == DecodeTiming(p, decoder[p], LevelAt(k), RepeatTimings(q)[k + 1])
        IN /\ HearsRepeat(mistaken, p, r.d, q, bits, IF k + 1 = Len(RepeatTimings(q)) THEN 0 ELSE k + 1)
           /\ r.message = IF k + 1 = Len(RepeatTimings(q)) /\ Legit(p, q, bits) /\ ~mistaken
                          THEN [MessageOf(q, bits) EXCEPT !.repeat = TRUE] ELSE NoMessage
    BY <1>1, <1>4, RepeatStep
  <2>2. Decoding(p) = DecodeTiming(p, decoder[p], LevelAt(k), RepeatTimings(q)[k + 1])
    BY <1>1, <1>5 DEF Decoding, A
  <2>3. QED
    BY <1>4, <2>1, <2>2 DEF A, m
<1>8. ~mistaken => reported' = IF k + 1 = Len(A) /\ Interprets(q, bits) THEN m ELSE NoMessage
  <2>1. \A p \in Protocols : p # q => Decoding(p).message = NoMessage
    BY <1>7 DEF Legit
  <2>2. reported' = Decoding(q).message
    BY <2>1, EdgeDecodes
  <2>3. QED
    BY <1>7, <2>2 DEF Legit
<1>9. CASE k + 1 # Len(A)
  <2>1. Tail(air) # <<>>
    BY <1>5, <1>9
  <2>2. sending' = sent /\ lastSent' = frame /\ expected' = NoMessage
    BY <1>1, <1>6, <2>1
  <2>3. level' = LevelAt(k + 1) /\ k + 1 \in 0..5 /\ k + 1 < Len(A)
    <3> DEFINE l == Len(A)
    <3>1. l \in {4, 6} /\ k + 1 # l /\ k < l
      BY <1>2, <1>3, <1>9
    <3> HIDE DEF l
    <3>2. k + 1 \in 0..5 /\ k + 1 < l /\ k \in 0..10
      BY <3>1
    <3>3. QED
      BY <1>1, <1>6, <3>2, LevelTurns DEF l
  <2>4. Remains(air', A, k + 1)
    BY <1>5, <1>6
  <2>5. \A p \in Protocols : HearsRepeat(mistaken, p, decoder'[p], q, bits, k + 1)
    BY <1>7, <1>9
  <2>6. InRepeat'
    BY <1>6, <2>2, <2>3, <2>4, <2>5 DEF InRepeat, A
  <2>7. QED
    BY <1>8, <1>9, <2>2, <2>6
<1>10. CASE k + 1 = Len(A)
  <2>1. Tail(air) = <<>>
    BY <1>5, <1>10
  <2>2. level' = 1
    <3>1. k = 3 \/ k = 5
      <4> DEFINE l == Len(A)
      <4>1. l \in {4, 6} /\ k + 1 = l
        BY <1>2, <1>10
      <4> HIDE DEF l
      <4>2. QED
        BY <4>1
    <3>2. LevelAt(k) = 0
      BY <3>1 DEF LevelAt
    <3>3. QED
      BY <1>1, <1>6, <3>2
  <2>3. sent # Nothing
    <3>1. sent.kind # Nothing.kind
      BY DEF Nothing
    <3>2. QED
      BY <3>1
  <2>4. [sent EXCEPT !.kind = "frame"] = frame
    OBVIOUS
  <2>5. air' = <<>> /\ sending' = Nothing /\ lastSent' = frame
    BY <1>1, <1>6, <2>1, <2>3, <2>4
  <2>6. expected' = IF Interprets(q, bits) THEN m ELSE NoMessage
    BY <1>1, <1>6, <2>1, ExpectedIs DEF m
  <2>7. ASSUME NEW p \in Protocols
        PROVE  Resting(p, decoder'[p]) /\ HearsRepeat(mistaken, p, decoder'[p], q, bits, 0)
    <3>1. HearsRepeat(mistaken, p, decoder'[p], q, bits, 0)
      BY <1>7, <1>10
    <3>2. CASE Legit(p, q, bits) /\ ~mistaken
      <4>1. p = q /\ Collects(decoder'[p], q, bits, 0)
        BY <3>1, <3>2 DEF HearsRepeat, Legit
      <4>2. Collects(decoder'[p], p, bits, 0) /\ 0 \in {0, 2, 4}
        BY <4>1
      <4>3. QED
        BY <3>1, <4>2, CollectRests
    <3>3. CASE ~(Legit(p, q, bits) /\ ~mistaken)
      BY <3>1, <3>3 DEF HearsRepeat, Overhears
    <3>4. QED
      BY <3>2, <3>3
  <2>8. Quiet'
    BY <1>6, <2>2, <2>5, <2>7 DEF Quiet
  <2>9. QED
    BY <1>8, <1>10, <2>6, <2>8
<1>11. QED
  BY <1>9, <1>10

LEMMA NoiseEdge ==
  ASSUME IrdaIInv, InNoise, Edge
  PROVE  (InNoise \/ Quiet)' /\ reported' = expected'
<1>1. PICK s \in Silences, k \in {0, 1} :
        /\ sending = Nothing /\ lastSent = Nothing
        /\ Remains(air, <<s, "noise">>, k) /\ level = LevelAt(k)
        /\ \A p \in Protocols : IF k = 0 THEN Resting(p, decoder[p]) ELSE Silent(decoder[p], s)
  BY DEF InNoise
<1> DEFINE A == <<s, "noise">>
<1>2. A \in Seq(Durations) /\ Len(A) = 2 /\ A[1] = s /\ A[2] = "noise" /\ "noise" \in Durations
  BY DEF Silences, Durations
<1>3. Remains(air, A, k) /\ k \in Nat /\ k < Len(A)
  BY <1>1, <1>2
<1> HIDE DEF A
<1>4. /\ Head(air) = A[k + 1] /\ Remains(Tail(air), A, k + 1)
      /\ Tail(air) = <<>> <=> k + 1 = Len(A)
  BY <1>2, <1>3, Leftover
<1>5. /\ air' = Tail(air) /\ level' = 1 - level
      /\ expected' = IF Tail(air) = <<>> THEN Expected ELSE NoMessage
      /\ lastSent' = Nothing /\ sending' = Nothing
  BY <1>1 DEF Edge
<1>6. \A p \in Protocols : Keeps(p, decoder[p]) /\ decoder'[p] = Decoding(p).d
  BY EdgeDecodes
<1>7. expected' = NoMessage
  BY <1>1, <1>5, ExpectedIs
<1>8. CASE k = 0
  <2>1. Head(air) = s /\ level = 1 /\ level' = 0 /\ Remains(air', A, 1)
    <3>1. LevelAt(0) = 1 /\ k + 1 = 1
      BY <1>8 DEF LevelAt
    <3>2. QED
      BY <1>1, <1>2, <1>4, <1>5, <1>8, <3>1
  <2>2. ASSUME NEW p \in Protocols
        PROVE  Decoding(p).message = NoMessage /\ Silent(decoder'[p], s)
    <3>1. Resting(p, decoder[p])
      BY <1>1, <1>8
    <3>2. LET r == DecodeTiming(p, decoder[p], 1, s)
          IN r.message = NoMessage /\ Silent(r.d, s)
      BY <1>6, <3>1, SilenceStep
    <3>3. QED
      BY <1>6, <2>1, <3>2 DEF Decoding
  <2>3. reported' = NoMessage
    BY <2>2, EdgeDecodes DEF Protocols
  <2>4. level' = LevelAt(1) /\ 1 \in {0, 1} /\ 1 # 0
    BY <2>1 DEF LevelAt
  <2>5. InNoise'
    BY <1>5, <2>1, <2>2, <2>4 DEF InNoise, A
  <2>6. QED
    BY <1>7, <2>3, <2>5
<1>9. CASE k = 1
  <2>1. Head(air) = "noise" /\ level = 0 /\ level' = 1 /\ air' = <<>>
    <3>1. LevelAt(1) = 0 /\ k + 1 = 2
      BY <1>9 DEF LevelAt
    <3>2. QED
      BY <1>1, <1>2, <1>4, <1>5, <1>9, <3>1
  <2>2. ASSUME NEW p \in Protocols
        PROVE  /\ Decoding(p).message = NoMessage
               /\ Resting(p, decoder'[p])
    <3>1. Silent(decoder[p], s)
      BY <1>1, <1>9
    <3>2. LET r == DecodeTiming(p, decoder[p], 0, "noise")
          IN r.message = NoMessage /\ Marked(r.d, s, "noise")
      BY <1>2, <1>6, <3>1, MarkStep
    <3>3. Decoding(p).message = NoMessage /\ Marked(decoder'[p], s, "noise")
      BY <1>6, <2>1, <3>2 DEF Decoding
    <3>4. QED
      BY <3>3, MarkedRests
  <2>3. reported' = NoMessage
    BY <2>2, EdgeDecodes DEF Protocols
  <2>4. Quiet'
    BY <1>5, <2>1, <2>2 DEF Quiet
  <2>5. QED
    BY <1>7, <2>3, <2>4
<1>10. QED
  BY <1>8, <1>9

(* At any time both decoders are where DecodeIInv says: at rest, or as far *)
(* in the frame, the repeat or the disturbance as the remote has sent it,  *)
(* also in a frame that one of them takes for a repeat.                    *)
THEOREM DecodeInvariance == IrdaSpec => []DecodeIInv
<1>1. IrdaInit => DecodeIInv
  BY IrdaIInvInit, QuietInit DEF DecodeIInv
<1>2. DecodeIInv /\ [IrdaNext]_irdaVars => DecodeIInv'
  <2> SUFFICES ASSUME DecodeIInv, [IrdaNext]_irdaVars PROVE DecodeIInv'
    OBVIOUS
  <2>1. IrdaIInv /\ (Quiet \/ InFrame \/ InRepeat \/ InNoise)
    BY DEF DecodeIInv
  <2>2. CASE SendFrame \/ SendRepeat \/ SendNoise
    <3>1. air = <<>>
      BY <2>2 DEF SendFrame, SendRepeat, SendNoise, Idle
    <3>2. Quiet
      BY <2>1, <3>1, IdleIsQuiet
    <3>3. (InFrame \/ InRepeat \/ InNoise)'
      BY <2>1, <2>2, <3>2, FrameBegins, RepeatBegins, NoiseBegins
    <3>4. QED
      BY <2>1, <2>2, <3>3, SendKeeps DEF DecodeIInv
  <2>3. CASE Interrupt
    BY <2>1, <2>3, InterruptQuiets, SendKeeps DEF DecodeIInv
  <2>4. CASE Edge
    <3>1. InFrame \/ InRepeat \/ InNoise
      BY <2>1, <2>4 DEF Quiet, Edge
    <3>2. QED
      BY <2>1, <2>4, <3>1, FrameEdge, RepeatEdge, NoiseEdge, EdgeKeeps DEF DecodeIInv
  <2>5. CASE UNCHANGED irdaVars
    <3>1. /\ IrdaIInv' /\ (Quiet' <=> Quiet) /\ (InFrame' <=> InFrame)
          /\ (InRepeat' <=> InRepeat) /\ (InNoise' <=> InNoise)
      BY <2>1, <2>5 DEF irdaVars, IrdaIInv, Quiet, InFrame, InRepeat, InNoise
    <3>2. QED
      BY <2>1, <3>1 DEF DecodeIInv
  <2>6. QED
    BY <2>2, <2>3, <2>4, <2>5 DEF IrdaNext
<1>3. QED
  BY <1>1, <1>2, PTL DEF IrdaSpec

(* For any number of frames, repeats and disturbances, interrupted         *)
(* anywhere and at any distance: after every timing irda_decode returns    *)
(* the message of the frame or the repeat that the timing completes, and   *)
(* nothing otherwise, except for a frame that began like the repeat a      *)
(* decoder was waiting for and the repeats of that frame.                  *)
THEOREM IrdaDecodesWhatWasSent == IrdaSpec => DecodesWhatWasSent
<1>1. DecodeIInv /\ [IrdaNext]_irdaVars => [Edge /\ ~mistaken => reported' = expected']_irdaVars
  <2> SUFFICES ASSUME DecodeIInv, Edge, ~mistaken PROVE reported' = expected'
    OBVIOUS
  <2>1. IrdaIInv /\ (InFrame \/ InRepeat \/ InNoise)
    BY DEF DecodeIInv, Quiet, Edge
  <2>2. QED
    BY <2>1, FrameEdge, RepeatEdge, NoiseEdge
<1>2. QED
  BY <1>1, DecodeInvariance, PTL DEF IrdaSpec, DecodesWhatWasSent
===============================================================================
