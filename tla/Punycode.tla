------------------------------ MODULE Punycode ------------------------------
(* The name of a host as punycode.cxx writes it for the resolver and the     *)
(* Host line. A host is a sequence of labels, a label a sequence of bytes    *)
(* of UTF-8; a digit of the result is a number from 0 to 35.                 *)
EXTENDS Integers, SequencesExt, FiniteSetsExt

Base == 36
TMin == 1
TMax == 26
Skew == 38
Damp == 700
InitialN == 128
InitialBias == 72

\* adapt_bias, and a mutant: the share of the points that are written is left out
AdaptBiasAlone(given, points, isFirst) ==
    LET delta == IF isFirst THEN given \div Damp ELSE given \div 2
    IN ((Base - TMin + 1) * delta) \div (delta + Skew)
AdaptBias(given, points, isFirst) ==
    LET halved == IF isFirst THEN given \div Damp ELSE given \div 2
        delta == halved + halved \div points
        down[d \in Nat] == IF d > ((Base - TMin) * TMax) \div 2
                           THEN LET r == down[d \div (Base - TMin)]
                                IN [k |-> r.k + Base, d |-> r.d]
                           ELSE [k |-> 0, d |-> d]
        r == down[delta]
    IN r.k + ((Base - TMin + 1) * r.d) \div (r.d + Skew)

Threshold(k, bias) ==
    IF k <= bias THEN TMin ELSE IF k >= bias + TMax THEN TMax ELSE k - bias

\* encode_var_int: the digits of delta, the least significant first
RECURSIVE EncodeVarInt(_, _, _)
EncodeVarInt(bias, q, k) ==
    LET t == Threshold(k, bias) IN
    IF q < t THEN <<q>>
    ELSE <<t + ((q - t) % (Base - t))>>
         \o EncodeVarInt(bias, (q - t) \div (Base - t), k + Base)

\* a byte read as a signed char and kept in 16 bits
Wide(byte) == IF byte < 128 THEN byte ELSE 65280 + byte

\* utf8_to_unicode: only characters of three bytes are put together, and the
\* last two bytes of a label are taken as they are, the second of them being
\* the 0 that ends it when a character of three bytes comes before the last
RECURSIVE FromUtf8(_)
FromUtf8(bytes) ==
    CASE Len(bytes) > 2 /\ Head(bytes) \div 16 = 14 ->
            <<(Head(bytes) % 16) * 4096 + (bytes[2] % 64) * 64 + (bytes[3] % 64)>>
              \o FromUtf8(SubSeq(bytes, 4, Len(bytes)))
      [] Len(bytes) > 2 /\ Head(bytes) \div 16 # 14 ->
            <<Wide(Head(bytes))>> \o FromUtf8(Tail(bytes))
      [] Len(bytes) = 2 -> <<Wide(bytes[1]), Wide(bytes[2])>>
      [] Len(bytes) = 1 -> <<Wide(bytes[1]), 0>>
      [] OTHER -> <<>>

\* one code point of the second loop of punycode_encode
EncodePoint(st, p, m) ==
    CASE p < m -> [st EXCEPT !.delta = @ + 1]
      [] p = m -> [st EXCEPT
            !.digits = @ \o EncodeVarInt(st.bias, st.delta, Base),
            !.bias = AdaptBias(st.delta, st.h + 1, st.h = st.b),
            !.delta = 0, !.h = @ + 1]
      [] OTHER -> st

\* punycode_encode: the code points below 128 as they are, then where the
\* others are inserted, from the smallest
PunycodeEncode(points) ==
    LET basic == SelectSeq(points, LAMBDA p : p < 128)
        others == SetToSortSeq({p \in ToSet(points) : p >= 128}, <)
        round(st, m) ==
            LET from == [st EXCEPT !.delta = @ + (m - st.n) * (st.h + 1), !.n = m]
                done == FoldLeft(LAMBDA s, p : EncodePoint(s, p, m), from, points)
            IN [done EXCEPT !.n = m + 1, !.delta = @ + 1]
        start == [delta |-> 0, n |-> InitialN, bias |-> InitialBias,
                  h |-> Len(basic), b |-> Len(basic), digits |-> <<>>]
    IN [basic |-> basic, digits |-> FoldLeft(round, start, others).digits]

HaveUnicode(label) == \E i \in DOMAIN label : label[i] >= 128

\* punycode_host: a label in ASCII stays; the result is a C string, and a 0
\* among the code points of a label ends it there
PunycodeLabel(label) ==
    IF HaveUnicode(label)
    THEN PunycodeEncode(FromUtf8(label))
    ELSE [basic |-> label, digits |-> <<>>]
Broken(label) == HaveUnicode(label) /\ 0 \in ToSet(FromUtf8(label))
PunycodeHost(labels) ==
    LET broken == {i \in DOMAIN labels : Broken(labels[i])}
        last == IF broken = {} THEN Len(labels) ELSE Min(broken)
    IN [i \in 1..last |->
          IF i \in broken
          THEN [basic |-> SelectSeq(FromUtf8(labels[i]), LAMBDA p : p \in 1..127),
                digits |-> <<>>]
          ELSE PunycodeLabel(labels[i])]
=============================================================================
