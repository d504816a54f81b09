---------------------------- MODULE EntropyCoder -----------------------------
(***************************************************************************)
(* aom_dsp/entenc.c and aom_dsp/entdec.c: the range coder that every       *)
(* symbol of a tile goes through.  A message is encoded, the encoder is    *)
(* closed, and a decoder that knows only the bytes and the probabilities   *)
(* reads it back, with anything following the bytes.                       *)
(*                                                                         *)
(* The encoder keeps its bytes with nine bits each until od_ec_enc_done()  *)
(* adds up the carries.  The window of the decoder has 32 bits: dif is     *)
(* kept as its upper and its lower half.  Buffers grow as they need to.    *)
(***************************************************************************)
EXTENDS Integers, Sequences

CONSTANTS Bools,    \* probabilities of a one, in units of 2^-15
          Tables,   \* inverse cumulative distributions, each ending in 0
          Trailers, \* what may follow the bytes in the buffer of the decoder
          MaxSyms   \* bound: symbols of a message

\* What both sides ask of probabilities: tables do not increase and end in 0.
\* Neighbours may be equal, which update_cdf() makes them: such a symbol has EC_MIN_PROB
\* only.  No entry is 32768, by which od_ec_encode_q15() tells the first symbol;
\* update_cdf() moves entries towards it and never there.
ASSUME CoderAssumption ==
  /\ Bools \subseteq Nat /\ MaxSyms \in Nat
  /\ \A f \in Bools : 0 < f /\ f < 32768
  /\ Tables \subseteq Seq(Nat) /\ Trailers \subseteq Seq(0..255)
  /\ \A t \in Tables :
       /\ Len(t) \in 2..16 /\ t[Len(t)] = 0
       /\ \A i \in 1..Len(t) - 1 : t[i] >= t[i + 1] /\ t[i] < 32768

\* EC_MIN_PROB, OD_EC_LOTS_OF_BITS, OD_EC_WINDOW_SIZE
MinProb    == 4
LotsOfBits == 16384
WindowSize == 32

\* A symbol of a message: the probabilities it is coded with, and its value.  A
\* binary symbol has the probability of a one in place of a table.
Symbols == [kind : {"bool"}, prob : Bools, value : {0, 1}]
           \cup UNION {[kind : {"cdf"}, prob : {t}, value : 0..Len(t) - 1]
                       : t \in Tables}

VARIABLES phase,          \* "encode", then "decode"
          message,        \* the symbols encoded
          low, rng, cnt,  \* of the encoder
          precarry,       \* precarry_buf[0..offs-1]
          bytes,          \* the buffer of the decoder, buf to end
          hi, lo,         \* the halves of dec->dif
          drng, dcnt,     \* dec->rng, dec->cnt
          pos,            \* bptr - buf
          tellOffs,
          read,           \* the values decoded
          tells           \* history: od_ec_enc_tell() before every symbol

encVars == <<message, low, rng, cnt, precarry, tells>>
decVars == <<bytes, hi, lo, drng, dcnt, pos, tellOffs, read>>
vars == <<phase, encVars, decVars>>

Init == /\ phase = "encode"
        /\ message = <<>> /\ low = 0 /\ rng = 32768 /\ cnt = -9
        /\ precarry = <<>>
        /\ bytes = <<>> /\ hi = 0 /\ lo = 0 /\ drng = 0 /\ dcnt = 0 /\ pos = 0
        /\ tellOffs = 0 /\ read = <<>>
        /\ tells = <<1>>

\* OD_ILOG_NZ of a range
ILog(r) == CHOOSE n \in 1..16 : 2 ^ (n - 1) <= r /\ r < 2 ^ n

\* The part of range r that a probability in Q15 stands for, with n symbols after
\* it that must not be left without any.
Scale(r, f, n) == (((r \div 256) * (f \div 64)) \div 2) + MinProb * n

-----------------------------------------------------------------------------
(* entenc.c                                                                *)

\* od_ec_enc_normalize(): bytes that are complete leave low, with their carry.
Normalize(l, r) ==
  LET d   == 16 - ILog(r)
      s   == cnt + d
      c1  == cnt + 16
      c2  == IF s >= 8 THEN c1 - 8 ELSE c1
      l2  == IF s >= 8 THEN l % 2 ^ c1 ELSE l
      out == IF s >= 8 THEN <<l \div 2 ^ c1, l2 \div 2 ^ c2>>
             ELSE <<l \div 2 ^ c2>>
  IN /\ rng' = r * 2 ^ d
     /\ IF s >= 0
        THEN /\ precarry' = precarry \o out
             /\ low' = (l2 % 2 ^ c2) * 2 ^ d
             /\ cnt' = c2 + d - 24
        ELSE low' = l * 2 ^ d /\ cnt' = s /\ UNCHANGED precarry

\* od_ec_encode_bool_q15()
EncodeBool(f, val) ==
  LET v == Scale(rng, f, 1) IN
  IF val = 1 THEN Normalize(low + rng - v, v) ELSE Normalize(low, rng - v)

\* od_ec_encode_cdf_q15()
EncodeCdf(t, s) ==
  LET n == Len(t) - 1
      u == Scale(rng, t[s], n - (s - 1))
      v == Scale(rng, t[s + 1], n - s)
  IN IF s > 0 THEN Normalize(low + rng - u, u - v) ELSE Normalize(low, rng - v)

\* od_ec_enc_tell()
EncTell == cnt + 10 + Len(precarry) * 8

Encode(y) ==
  /\ phase = "encode" /\ Len(message) < MaxSyms
  /\ IF y.kind = "bool" THEN EncodeBool(y.prob, y.value)
     ELSE EncodeCdf(y.prob, y.value)
  /\ message' = Append(message, y)
  /\ tells' = Append(tells, EncTell')
  /\ UNCHANGED <<phase, decVars>>

\* e in od_ec_enc_done(): a value with few bits in the range that is left.
FinalLow ==
  LET e == ((low + 16383) \div 16384) * 16384
  IN IF (e \div 16384) % 2 = 1 THEN e ELSE e + 16384

\* The bytes that are left in e when s bits are to be put out above c + 16.
LastBytes(e, s) ==
  LET n == IF s > 0 THEN (s + 7) \div 8 ELSE 0
  IN [i \in 1..n |-> IF i = 1 THEN e \div 2 ^ (cnt + 16)
                     ELSE (e % 2 ^ (cnt + 24 - 8 * (i - 1)))
                            \div 2 ^ (cnt + 24 - 8 * i)]

\* Defect: a carry reaches the next byte but no further.
AddCarriesOnce(w) == [i \in 1..Len(w) |->
  (w[i] + (IF i < Len(w) THEN w[i + 1] \div 256 ELSE 0)) % 256]

\* Carries go from the last byte to the first.
AddCarries(w) ==
  LET sum[i \in 1..Len(w) + 1] == IF i > Len(w) THEN 0 ELSE w[i] + (sum[i + 1] \div 256)
  IN [i \in 1..Len(w) |-> sum[i] % 256]

-----------------------------------------------------------------------------
(* entdec.c                                                                *)

\* Defect: the bits that are already there are not subtracted.
EndOffsWhole(t, c) == t + LotsOfBits

\* tell_offs at the end of the bytes makes up for the bits that are not there.
EndOffs(t, c) == t + LotsOfBits - c

\* The halves of window w with n bytes more, from bit s down: each takes the place
\* of bits that are all ones.
Fill(w, s, n) ==
  LET fill[k \in 0..n] ==
        IF k = 0 THEN <<w.hi, w.lo>>
        ELSE LET x == bytes'[w.pos + k] * 2 ^ (s - 8 * (k - 1))
             IN <<fill[k - 1][1] - (x \div 65536), fill[k - 1][2] - (x % 65536)>>
  IN fill[n]

\* od_ec_dec_refill() of a window w: as many bytes as there are and is room for;
\* after the last of them any number of bits is there.
Refill(w) ==
  LET s    == WindowSize - 9 - (w.cnt + 15)
      room == s \div 8 + 1
      left == Len(bytes') - w.pos
      n    == IF room < left THEN room ELSE left
      c    == w.cnt + 8 * n
      atEnd == w.pos + n >= Len(bytes')
  IN /\ hi' = Fill(w, s, n)[1] /\ lo' = Fill(w, s, n)[2]
     /\ pos' = w.pos + n
     /\ dcnt' = IF atEnd THEN LotsOfBits ELSE c
     /\ tellOffs' = IF atEnd THEN EndOffs(w.tellOffs, c) ELSE w.tellOffs

\* od_ec_dec_normalize(): ones are shifted in.
DecNormalize(h, r) ==
  LET d == 16 - ILog(r)
      w == [hi |-> h * 2 ^ d + (lo * 2 ^ d) \div 65536,
            lo |-> ((lo * 2 ^ d) % 65536) + 2 ^ d - 1,
            cnt |-> dcnt - d, pos |-> pos, tellOffs |-> tellOffs]
  IN /\ drng' = r * 2 ^ d
     /\ IF w.cnt < 0 THEN Refill(w)
        ELSE /\ hi' = w.hi /\ lo' = w.lo /\ dcnt' = w.cnt
             /\ UNCHANGED <<pos, tellOffs>>

\* od_ec_enc_done(), and od_ec_dec_init() on its bytes with something behind.
Done(trailer) ==
  /\ phase = "encode" /\ message # <<>>
  /\ phase' = "decode"
  /\ bytes' = AddCarries(precarry \o LastBytes(FinalLow, cnt + 10)) \o trailer
  /\ drng' = 32768
  /\ Refill([hi |-> 32767, lo |-> 65535, cnt |-> -15, pos |-> 0,
             tellOffs |-> 10 - (WindowSize - 8)])
  /\ UNCHANGED <<encVars, read>>

\* od_ec_decode_bool_q15()
DecodeBool(f) ==
  LET v == Scale(drng, f, 1) IN
  IF hi >= v THEN DecNormalize(hi - v, drng - v) /\ read' = Append(read, 0)
  ELSE DecNormalize(hi, v) /\ read' = Append(read, 1)

\* od_ec_decode_cdf_q15(): the first symbol whose part of the range dif is in.
DecodeCdf(t) ==
  LET n    == Len(t) - 1
      v[i \in -1..n] == IF i = -1 THEN drng ELSE Scale(drng, t[i + 1], n - i)
      s    == CHOOSE i \in 0..n : hi >= v[i] /\ \A j \in 0..i - 1 : hi < v[j]
  IN DecNormalize(hi - v[s], v[s - 1] - v[s]) /\ read' = Append(read, s)

\* The decoder knows which probabilities come next.
Decode ==
  /\ phase = "decode" /\ Len(read) < Len(message)
  /\ UNCHANGED <<phase, encVars, bytes>>
  /\ LET y == message[Len(read) + 1] IN
       IF y.kind = "bool" THEN DecodeBool(y.prob) ELSE DecodeCdf(y.prob)

\* od_ec_dec_tell()
DecTell == pos * 8 - dcnt + tellOffs

Next == \/ \E y \in Symbols : Encode(y)
        \/ \E e \in Trailers : Done(e)
        \/ Decode

Spec == Init /\ [][Next]_vars

-----------------------------------------------------------------------------
(* Properties.                                                             *)

\* The decoder reads what was encoded, through every carry and however few of the
\* last bits od_ec_enc_done() has put out, as long as zeros follow them.
RoundTrip == \A i \in 1..Len(read) : read[i] = message[i].value

\* Before every symbol encoder and decoder agree on the number of bits used so
\* far, as both tell functions say, also when the decoder has come to the end of
\* its buffer.
TellsAgree == phase = "decode" => DecTell = tells[Len(read) + 1]
=============================================================================
