------------------------------ MODULE RingProofs ------------------------------
(***************************************************************************)
(* Proofs about the rings of Services, for every size: a ring holds a      *)
(* queue, wrapped round the end of its table, whatever was put, taken and  *)
(* put back, and also when it doubles; and what the outputs make of theirs. *)
(***************************************************************************)
EXTENDS Services, QueueLemmas

Wrap(a, n) == IF a < n THEN a ELSE a - n

\* An index that has run past the end of the table once.
LEMMA ModOnce ==
    ASSUME NEW n \in Nat \ {0}, NEW a \in Nat, a < 2 * n
    PROVE  a % n = Wrap(a, n) /\ Wrap(a, n) \in 0 .. n - 1
<1>1. CASE a < n
  BY <1>1 DEF Wrap
<1>2. CASE ~(a < n)
  <2>1. a - n \in Nat /\ a - n < n
    BY <1>2
  <2>2. \E q, r \in Nat : a = q * n + r /\ r < n /\ q = 1
    BY <2>1
  <2> QED
    BY <1>2, <2>1, SMTT(30) DEF Wrap
<1> QED
  BY <1>1, <1>2

LEMMA NextSlot ==
    ASSUME NEW n \in Nat \ {0}, NEW i \in 0 .. n - 1
    PROVE  (i + 1) % n = Wrap(i + 1, n) /\ Wrap(i + 1, n) \in 0 .. n - 1
<1>1. i + 1 \in Nat /\ i + 1 < 2 * n
  OBVIOUS
<1> QED
  BY <1>1, ModOnce

\* The table and the indices of a ring, and the queue s they stand for.
Stands(in, out, n, tab, V, s) ==
    /\ n \in Nat \ {0} /\ in \in 0 .. n - 1 /\ out \in 0 .. n - 1
    /\ tab \in [0 .. n - 1 -> V \cup {Unset}]
    /\ s \in Seq(V) /\ Len(s) < n
    /\ Len(s) = IF out <= in THEN in - out ELSE in + n - out
    /\ \A i \in 1 .. Len(s) : s[i] = tab[Wrap(out + i - 1, n)]

Shaped(r) == r = [in |-> r.in, out |-> r.out, size |-> r.size, tab |-> r.tab]

Holds(r, V, s) == Shaped(r) /\ Stands(r.in, r.out, r.size, r.tab, V, s)

\* A new ring is empty.
LEMMA StandsNew ==
    ASSUME NEW V, NEW n \in Nat \ {0}
    PROVE  Stands(0, 0, n, [i \in 0 .. n - 1 |-> Unset], V, <<>>)
BY DEF Stands

\* Its first element is in the slot out.
LEMMA StandsFirst ==
    ASSUME NEW in, NEW out, NEW n, NEW tab, NEW V, NEW s,
           Stands(in, out, n, tab, V, s)
    PROVE  /\ out = in <=> s = <<>>
           /\ s # <<>> => tab[out] = Head(s) /\ Head(s) \in V /\ tab[out] \in V
<1>1. n \in Nat /\ in \in 0 .. n - 1 /\ out \in 0 .. n - 1 /\ s \in Seq(V) /\ Len(s) \in Nat
      /\ Len(s) = (IF out <= in THEN in - out ELSE in + n - out)
  BY DEF Stands
<1>2. out = in <=> Len(s) = 0
  BY <1>1
<1>3. s # <<>> => Len(s) > 0
  BY <1>1
<1>4. ASSUME s # <<>> PROVE tab[out] = Head(s) /\ Head(s) \in V
  <2>1. 1 \in 1 .. Len(s)
    BY <1>1, <1>3, <1>4
  <2>2. s[1] = tab[Wrap(out + 1 - 1, n)]
    BY <2>1 DEF Stands
  <2>3. Wrap(out + 1 - 1, n) = out
    BY <1>1 DEF Wrap
  <2> QED
    BY <1>1, <1>4, <2>2, <2>3
<1> QED
  BY <1>1, <1>2, <1>3, <1>4

\* get: out goes on by one.
LEMMA StandsGot ==
    ASSUME NEW in, NEW out, NEW n, NEW tab, NEW V, NEW s,
           Stands(in, out, n, tab, V, s), s # <<>>
    PROVE  Stands(in, (out + 1) % n, n, tab, V, Tail(s))
<1>1. n \in Nat \ {0} /\ in \in 0 .. n - 1 /\ out \in 0 .. n - 1 /\ s \in Seq(V) /\ Len(s) \in Nat
      /\ Len(s) = (IF out <= in THEN in - out ELSE in + n - out)
      /\ tab \in [0 .. n - 1 -> V \cup {Unset}] /\ Len(s) < n
  BY DEF Stands
<1>2. (out + 1) % n = Wrap(out + 1, n) /\ Wrap(out + 1, n) \in 0 .. n - 1
  BY <1>1, NextSlot
<1>3. Tail(s) \in Seq(V) /\ Len(Tail(s)) = Len(s) - 1
      /\ \A i \in 1 .. Len(s) - 1 : Tail(s)[i] = s[i + 1]
  BY <1>1
<1>4. Len(s) > 0
  BY <1>1
<1> DEFINE o == Wrap(out + 1, n)
<1>5. Len(Tail(s)) = IF o <= in THEN in - o ELSE in + n - o
  <2>1. CASE out + 1 < n
    BY <1>1, <1>3, <1>4, <2>1 DEF Wrap
  <2>2. CASE ~(out + 1 < n)
    BY <1>1, <1>3, <1>4, <2>2 DEF Wrap
  <2> QED
    BY <2>1, <2>2
<1>6. ASSUME NEW i \in 1 .. Len(s) - 1
      PROVE  Tail(s)[i] = tab[Wrap(o + i - 1, n)]
  <2>1. i + 1 \in 1 .. Len(s)
    BY <1>1
  <2>2. s[i + 1] = tab[Wrap(out + (i + 1) - 1, n)]
    BY <2>1 DEF Stands
  <2>3. Wrap(out + (i + 1) - 1, n) = Wrap(o + i - 1, n)
    BY <1>1 DEF Wrap
  <2> QED
    BY <1>3, <2>2, <2>3
<1>7. Len(Tail(s)) < n /\ 1 .. Len(Tail(s)) = 1 .. Len(s) - 1
  BY <1>1, <1>3
<1> HIDE DEF o
<1>8. Stands(in, o, n, tab, V, Tail(s))
  BY <1>1, <1>2, <1>3, <1>5, <1>6, <1>7 DEF Stands, o
<1> QED
  BY <1>2, <1>8 DEF o

\* put, when a slot stays free: the element goes to the slot in.
LEMMA StandsPut ==
    ASSUME NEW in, NEW out, NEW n, NEW tab, NEW V, NEW s, NEW x \in V,
           Stands(in, out, n, tab, V, s), Len(s) + 1 < n
    PROVE  /\ Stands((in + 1) % n, out, n, [tab EXCEPT ![in] = x], V, Append(s, x))
           /\ out # (in + 1) % n
<1>1. n \in Nat \ {0} /\ in \in 0 .. n - 1 /\ out \in 0 .. n - 1 /\ s \in Seq(V) /\ Len(s) \in Nat
      /\ Len(s) = (IF out <= in THEN in - out ELSE in + n - out)
      /\ tab \in [0 .. n - 1 -> V \cup {Unset}] /\ Len(s) < n
  BY DEF Stands
<1>2. (in + 1) % n = Wrap(in + 1, n) /\ Wrap(in + 1, n) \in 0 .. n - 1
  BY <1>1, NextSlot
<1> DEFINE j == Wrap(in + 1, n)
           t == [tab EXCEPT ![in] = x]
           S == Append(s, x)
<1>3. S \in Seq(V) /\ Len(S) = Len(s) + 1 /\ S[Len(s) + 1] = x
      /\ \A i \in 1 .. Len(s) : S[i] = s[i]
  BY <1>1
<1>4. Len(S) = IF out <= j THEN j - out ELSE j + n - out
  <2>1. CASE in + 1 < n
    BY <1>1, <1>3, <2>1 DEF Wrap
  <2>2. CASE ~(in + 1 < n)
    BY <1>1, <1>3, <2>2 DEF Wrap
  <2> QED
    BY <2>1, <2>2
<1>5. t \in [0 .. n - 1 -> V \cup {Unset}] /\ t[in] = x
      /\ \A i \in 0 .. n - 1 : i # in => t[i] = tab[i]
  BY <1>1
<1>6. ASSUME NEW i \in 1 .. Len(s) + 1
      PROVE  S[i] = t[Wrap(out + i - 1, n)]
  <2>1. CASE i = Len(s) + 1
    <3>1. Wrap(out + i - 1, n) = in
      BY <1>1, <2>1 DEF Wrap
    <3> QED
      BY <1>3, <1>5, <2>1, <3>1
  <2>2. CASE i # Len(s) + 1
    <3>1. i \in 1 .. Len(s)
      BY <1>1, <2>2
    <3>2. s[i] = tab[Wrap(out + i - 1, n)]
      BY <3>1 DEF Stands
    <3>3. Wrap(out + i - 1, n) \in 0 .. n - 1 /\ Wrap(out + i - 1, n) # in
      BY <1>1, <3>1 DEF Wrap
    <3> QED
      BY <1>3, <1>5, <3>1, <3>2, <3>3
  <2> QED
    BY <2>1, <2>2
<1>7. out # j
  BY <1>1 DEF Wrap
<1> HIDE DEF j, t, S
<1>8. Stands(j, out, n, t, V, S)
  BY <1>1, <1>2, <1>3, <1>4, <1>5, <1>6 DEF Stands, j
<1> QED
  BY <1>2, <1>7, <1>8 DEF j, t, S

Twice(out, n, t) ==
    [i \in 0 .. 2 * n - 1 |->
        CASE i \in out .. n - 1 -> t[i]
          [] i \in n .. n + out - 1 -> t[i - n]
          [] OTHER -> Unset]

\* put, in the last free slot: the table doubles, and what had wrapped goes
\* behind the rest.
LEMMA StandsDoubled ==
    ASSUME NEW in, NEW out, NEW n, NEW tab, NEW V, NEW s, NEW x \in V,
           Stands(in, out, n, tab, V, s), Len(s) + 1 = n,
           NEW t, t = [tab EXCEPT ![in] = x],
           NEW twice, twice = Twice(out, n, t)
    PROVE  /\ (in + 1) % n = out
           /\ Stands(out + n, out, 2 * n, twice, V, Append(s, x))
<1>1. n \in Nat \ {0} /\ in \in 0 .. n - 1 /\ out \in 0 .. n - 1 /\ s \in Seq(V) /\ Len(s) \in Nat
      /\ Len(s) = (IF out <= in THEN in - out ELSE in + n - out)
      /\ tab \in [0 .. n - 1 -> V \cup {Unset}] /\ Len(s) < n
  BY DEF Stands
<1>2. (in + 1) % n = Wrap(in + 1, n) /\ Wrap(in + 1, n) = out
  <2>1. (in + 1) % n = Wrap(in + 1, n)
    BY <1>1, NextSlot
  <2>2. Wrap(in + 1, n) = out
    BY <1>1 DEF Wrap
  <2> QED
    BY <2>1, <2>2
<1> DEFINE S == Append(s, x)
<1>3. S \in Seq(V) /\ Len(S) = n /\ S[n] = x
      /\ \A i \in 1 .. Len(s) : S[i] = s[i]
  <2>1. /\ S \in Seq(V) /\ Len(S) = Len(s) + 1 /\ S[Len(s) + 1] = x
        /\ \A i \in 1 .. Len(s) : S[i] = s[i]
    BY ONLY <1>1, x \in V
  <2> HIDE DEF S
  <2> QED
    BY <2>1
<1>5. t \in [0 .. n - 1 -> V \cup {Unset}] /\ t[in] = x
      /\ \A i \in 0 .. n - 1 : i # in => t[i] = tab[i]
  BY <1>1
<1>6. ASSUME NEW i \in 1 .. n
      PROVE  /\ S[i] = t[Wrap(out + i - 1, n)]
             /\ Wrap(out + i - 1, n) \in 0 .. n - 1
  <2>1. CASE i = n
    <3>1. Wrap(out + i - 1, n) = in
      BY <1>1, <2>1 DEF Wrap
    <3> QED
      BY <1>1, <1>3, <1>5, <2>1, <3>1
  <2>2. CASE i # n
    <3>1. i \in 1 .. Len(s)
      BY <1>1, <2>2
    <3>2. s[i] = tab[Wrap(out + i - 1, n)]
      BY <3>1 DEF Stands
    <3>3. Wrap(out + i - 1, n) \in 0 .. n - 1 /\ Wrap(out + i - 1, n) # in
      BY <1>1, <3>1 DEF Wrap
    <3> QED
      BY <1>3, <1>5, <3>1, <3>2, <3>3
  <2> QED
    BY <2>1, <2>2
<1>7. ASSUME NEW i \in 0 .. 2 * n - 1
      PROVE  /\ i \in out .. n - 1 => twice[i] = t[i]
             /\ i \in n .. n + out - 1 => twice[i] = t[i - n]
             /\ twice[i] \in V \cup {Unset}
  <2>1. twice[i] = (CASE i \in out .. n - 1 -> t[i]
                      [] i \in n .. n + out - 1 -> t[i - n]
                      [] OTHER -> Unset)
    BY DEF Twice
  <2>2. CASE i \in out .. n - 1
    <3>1. i \notin n .. n + out - 1 /\ i \in 0 .. n - 1
      BY <1>1, <2>2
    <3> QED
      BY <1>5, <2>1, <2>2, <3>1
  <2>3. CASE i \in n .. n + out - 1
    <3>1. i \notin out .. n - 1 /\ i - n \in 0 .. n - 1
      BY <1>1, <2>3
    <3> QED
      BY <1>5, <2>1, <2>3, <3>1
  <2>4. CASE i \notin out .. n - 1 /\ i \notin n .. n + out - 1
    BY <2>1, <2>4
  <2> QED
    BY <2>2, <2>3, <2>4
<1>8. twice \in [0 .. 2 * n - 1 -> V \cup {Unset}]
  BY <1>7 DEF Twice
<1>9. ASSUME NEW i \in 1 .. n
      PROVE  S[i] = twice[Wrap(out + i - 1, 2 * n)]
  <2> DEFINE k == out + i - 1
  <2>1. k \in 0 .. 2 * n - 1 /\ Wrap(k, 2 * n) = k
    BY <1>1 DEF Wrap
  <2>2. CASE k < n
    <3>1. k \in out .. n - 1 /\ Wrap(k, n) = k
      BY <1>1, <2>2 DEF Wrap
    <3>2. S[i] = t[k]
      BY <1>6, <3>1
    <3>3. twice[k] = t[k]
      BY <1>7, <2>1, <3>1
    <3> QED
      BY <2>1, <3>1, <3>2, <3>3
  <2>3. CASE ~(k < n)
    <3>1. k \in n .. n + out - 1 /\ Wrap(k, n) = k - n
      BY <1>1, <2>3 DEF Wrap
    <3>2. S[i] = t[k - n]
      BY <1>6, <3>1
    <3>3. twice[k] = t[k - n]
      BY <1>7, <2>1, <3>1
    <3> QED
      BY <2>1, <3>1, <3>2, <3>3
  <2> QED
    BY <2>2, <2>3
<1>10. 2 * n \in Nat \ {0} /\ out + n \in 0 .. 2 * n - 1 /\ out \in 0 .. 2 * n - 1
       /\ Len(S) < 2 * n
       /\ Len(S) = IF out <= out + n THEN (out + n) - out ELSE (out + n) + 2 * n - out
  BY <1>1, <1>3
<1> HIDE DEF S
<1>11. Stands(out + n, out, 2 * n, twice, V, S)
  BY <1>3, <1>8, <1>9, <1>10 DEF Stands
<1> QED
  BY <1>2, <1>11 DEF S

\* rePut, when a slot stays free: out goes back by one.
LEMMA StandsRePut ==
    ASSUME NEW in, NEW out, NEW n, NEW tab, NEW V, NEW s, NEW x \in V,
           Stands(in, out, n, tab, V, s), Len(s) + 1 < n,
           NEW o, o = (out + n - 1) % n
    PROVE  Stands(in, o, n, [tab EXCEPT ![o] = x], V, <<x>> \o s)
<1>1. n \in Nat \ {0} /\ in \in 0 .. n - 1 /\ out \in 0 .. n - 1 /\ s \in Seq(V) /\ Len(s) \in Nat
      /\ Len(s) = (IF out <= in THEN in - out ELSE in + n - out)
      /\ tab \in [0 .. n - 1 -> V \cup {Unset}] /\ Len(s) < n
  BY DEF Stands
<1>2. o = Wrap(out + n - 1, n) /\ o \in 0 .. n - 1
  <2>1. out + n - 1 \in Nat /\ out + n - 1 < 2 * n
    BY <1>1
  <2> QED
    BY <1>1, <2>1, ModOnce
<1> DEFINE t == [tab EXCEPT ![o] = x]
           S == <<x>> \o s
<1>3. S \in Seq(V) /\ Len(S) = Len(s) + 1 /\ S[1] = x
      /\ \A i \in 2 .. Len(s) + 1 : S[i] = s[i - 1]
  BY <1>1
<1>4. Len(S) = IF o <= in THEN in - o ELSE in + n - o
  <2>1. CASE out = 0
    <3>1. o = n - 1
      BY <1>1, <1>2, <2>1 DEF Wrap
    <3>2. ~(o <= in) /\ Len(s) = in
      BY <1>1, <2>1, <3>1
    <3> QED
      BY <1>1, <1>3, <3>1, <3>2
  <2>2. CASE out # 0
    <3>1. o = out - 1
      BY <1>1, <1>2, <2>2 DEF Wrap
    <3>2. CASE out <= in
      BY <1>1, <1>3, <2>2, <3>1, <3>2
    <3>3. CASE ~(out <= in)
      <4>1. Len(s) = in + n - out
        BY <1>1, <3>3
      <4>2. ~(o <= in)
        BY <1>1, <3>1, <4>1
      <4>3. in + n - o = Len(s) + 1
        BY <1>1, <3>1, <4>1
      <4> QED
        BY <1>3, <4>2, <4>3
    <3> QED
      BY <3>2, <3>3
  <2> QED
    BY <2>1, <2>2
<1>5. t \in [0 .. n - 1 -> V \cup {Unset}] /\ t[o] = x
      /\ \A i \in 0 .. n - 1 : i # o => t[i] = tab[i]
  BY <1>1, <1>2
<1>6. ASSUME NEW i \in 1 .. Len(s) + 1
      PROVE  S[i] = t[Wrap(o + i - 1, n)]
  <2>1. CASE i = 1
    <3>1. Wrap(o + i - 1, n) = o
      BY <1>1, <1>2, <2>1 DEF Wrap
    <3> QED
      BY <1>3, <1>5, <2>1, <3>1
  <2>2. CASE i # 1
    <3>1. i - 1 \in 1 .. Len(s) /\ i \in 2 .. Len(s) + 1
      BY <1>1, <2>2
    <3>2. s[i - 1] = tab[Wrap(out + (i - 1) - 1, n)]
      BY <3>1 DEF Stands
    <3>3. Wrap(out + (i - 1) - 1, n) = Wrap(o + i - 1, n)
      <4>1. CASE out = 0
        <5>1. o = n - 1
          BY <1>1, <1>2, <4>1 DEF Wrap
        <5>2. i - 2 < n /\ ~(n - 1 + i - 1 < n)
          BY <1>1, <3>1
        <5>3. Wrap(out + (i - 1) - 1, n) = i - 2
          BY <1>1, <3>1, <4>1, <5>2 DEF Wrap
        <5>4. Wrap(o + i - 1, n) = (n - 1 + i - 1) - n
          BY <5>1, <5>2 DEF Wrap
        <5> QED
          BY <1>1, <3>1, <5>3, <5>4
      <4>2. CASE out # 0
        <5>1. o = out - 1
          BY <1>1, <1>2, <4>2 DEF Wrap
        <5>2. out + (i - 1) - 1 = o + i - 1
          BY <1>1, <3>1, <5>1
        <5> QED
          BY <5>2
      <4> QED
        BY <4>1, <4>2
    <3>4. Wrap(o + i - 1, n) \in 0 .. n - 1 /\ Wrap(o + i - 1, n) # o
      BY <1>1, <1>2, <3>1 DEF Wrap
    <3> QED
      BY <1>3, <1>5, <3>1, <3>2, <3>3, <3>4
  <2> QED
    BY <2>1, <2>2
<1> HIDE DEF t, S
<1>8. Stands(in, o, n, t, V, S)
  BY <1>1, <1>2, <1>3, <1>4, <1>5, <1>6 DEF Stands
<1> QED
  BY <1>8 DEF t, S
-----------------------------------------------------------------------------
(* The methods of Rings, on a ring that holds a queue *)

LEMMA HoldsNew ==
    ASSUME NEW V, NEW n \in Nat \ {0}
    PROVE  Holds(Ring(n), V, <<>>) /\ Ring(n).size = n
BY StandsNew DEF Holds, Shaped, Ring

LEMMA HoldsFirst ==
    ASSUME NEW r, NEW V, NEW s, Holds(r, V, s)
    PROVE  /\ IsEmpty(r) <=> s = <<>>
           /\ s # <<>> => First(r) = Head(s) /\ Head(s) \in V
<1>1. /\ r.out = r.in <=> s = <<>>
      /\ s # <<>> => r.tab[r.out] = Head(s) /\ Head(s) \in V
  BY StandsFirst DEF Holds
<1> QED
  BY <1>1 DEF IsEmpty, First

LEMMA HoldsGot ==
    ASSUME NEW r, NEW V, NEW s, Holds(r, V, s), s # <<>>
    PROVE  Holds(Got(r), V, Tail(s)) /\ Got(r).size = r.size
<1>1. Stands(r.in, (r.out + 1) % r.size, r.size, r.tab, V, Tail(s))
  BY StandsGot DEF Holds
<1>2. Got(r) = [in |-> r.in, out |-> (r.out + 1) % r.size, size |-> r.size, tab |-> r.tab]
  BY DEF Got, Holds, Shaped
<1> QED
  BY <1>1, <1>2 DEF Holds, Shaped

\* The records that EXCEPT gives.
LEMMA RePutRecord ==
    ASSUME NEW r, Shaped(r), NEW o, NEW x
    PROVE  [r EXCEPT !.out = o, !.tab[o] = x] =
             [in |-> r.in, out |-> o, size |-> r.size, tab |-> [r.tab EXCEPT ![o] = x]]
<1> DEFINE w == [r EXCEPT !.out = o, !.tab[o] = x]
<1>1. w = [r EXCEPT !.out = o, !.tab[o] = x]
  OBVIOUS
<1>2. r = [in |-> r.in, out |-> r.out, size |-> r.size, tab |-> r.tab]
  BY DEF Shaped
<1> HIDE DEF w
<1>3. w.in = r.in /\ w.out = o /\ w.size = r.size /\ w.tab = [r.tab EXCEPT ![o] = x]
  BY <1>1, <1>2
<1>4. w = [in |-> w.in, out |-> w.out, size |-> w.size, tab |-> w.tab]
  BY <1>1, <1>2
<1>5. w = [in |-> r.in, out |-> o, size |-> r.size, tab |-> [r.tab EXCEPT ![o] = x]]
  BY <1>3, <1>4
<1> QED
  BY <1>5 DEF w

LEMMA StoredRecord ==
    ASSUME NEW r, Shaped(r), NEW x
    PROVE  Stored(r, x) = [in |-> (r.in + 1) % r.size, out |-> r.out, size |-> r.size,
                           tab |-> [r.tab EXCEPT ![r.in] = x]]
<1> DEFINE j == (r.in + 1) % r.size
           w == Stored(r, x)
           t == [r.tab EXCEPT ![r.in] = x]
<1>1. w = [r EXCEPT !.tab[r.in] = x, !.in = j]
  BY DEF Stored
<1>2. r = [in |-> r.in, out |-> r.out, size |-> r.size, tab |-> r.tab]
  BY DEF Shaped
<1> HIDE DEF w, j
<1>3. w.in = j /\ w.out = r.out /\ w.size = r.size /\ w.tab = t
  BY <1>1, <1>2
<1>4. w = [in |-> w.in, out |-> w.out, size |-> w.size, tab |-> w.tab]
  BY <1>1, <1>2
<1> HIDE DEF t
<1>5. w = [in |-> j, out |-> r.out, size |-> r.size, tab |-> t]
  BY <1>3, <1>4
<1> QED
  BY <1>5 DEF w, t, j

LEMMA HoldsRePut ==
    ASSUME NEW r, NEW V, NEW s, Holds(r, V, s), NEW x \in V, Len(s) + 1 < r.size
    PROVE  Holds(RePut(r, x), V, <<x>> \o s) /\ RePut(r, x).size = r.size
<1> DEFINE o == (r.out + r.size - 1) % r.size
<1>1. Stands(r.in, o, r.size, [r.tab EXCEPT ![o] = x], V, <<x>> \o s)
  <2>1. Stands(r.in, r.out, r.size, r.tab, V, s)
    BY DEF Holds
  <2> QED
    BY <2>1, StandsRePut
<1> HIDE DEF o
<1>2. RePut(r, x) = [in |-> r.in, out |-> o, size |-> r.size, tab |-> [r.tab EXCEPT ![o] = x]]
  <2>1. RePut(r, x) = [r EXCEPT !.out = o, !.tab[o] = x]
    BY DEF RePut, o
  <2> QED
    BY <2>1, RePutRecord DEF Holds, Shaped
<1> QED
  BY <1>1, <1>2 DEF Holds, Shaped

\* put doubles the ring exactly when it takes the last free slot.
LEMMA HoldsPut ==
    ASSUME NEW r, NEW V, NEW s, Holds(r, V, s), NEW x \in V
    PROVE  /\ Holds(Put(r, x), V, Append(s, x))
           /\ Len(s) + 1 < r.size => Put(r, x).size = r.size
<1> DEFINE j == (r.in + 1) % r.size
           t == [r.tab EXCEPT ![r.in] = x]
<1>1. Stands(r.in, r.out, r.size, r.tab, V, s)
  BY DEF Holds
<1>2. r.size \in Nat \ {0} /\ Len(s) \in Nat /\ Len(s) < r.size
  BY <1>1 DEF Stands
<1>3. Stored(r, x) = [in |-> j, out |-> r.out, size |-> r.size, tab |-> t]
  BY StoredRecord DEF Holds
<1>4. CASE Len(s) + 1 < r.size
  <2>1. Stands(j, r.out, r.size, t, V, Append(s, x)) /\ r.out # j
    BY <1>1, <1>4, StandsPut
  <2> HIDE DEF j, t
  <2>2. Put(r, x) = [in |-> j, out |-> r.out, size |-> r.size, tab |-> t]
    BY <1>3, <2>1 DEF Put, IsEmpty
  <2> QED
    BY <2>1, <2>2 DEF Holds, Shaped
<1>5. CASE ~(Len(s) + 1 < r.size)
  <2> DEFINE w == Twice(r.out, r.size, t)
  <2>1. Len(s) + 1 = r.size
    BY <1>2, <1>5
  <2>2. j = r.out /\ Stands(r.out + r.size, r.out, 2 * r.size, w, V, Append(s, x))
    BY <1>1, <2>1, StandsDoubled
  <2> DEFINE S == [in |-> j, out |-> r.out, size |-> r.size, tab |-> t]
  <2>3. S.in = j /\ S.out = r.out /\ S.size = r.size /\ S.tab = t
    OBVIOUS
  <2>4. Moved(S) = w
    <3> HIDE DEF S, t, j
    <3>1. Moved(S) =
            [i \in 0 .. 2 * r.size - 1 |->
               CASE i \in r.out .. r.size - 1 -> t[i]
                 [] i \in r.size .. r.size + r.out - 1 -> t[i - r.size]
                 [] OTHER -> Unset]
      BY <2>2, <2>3 DEF Moved
    <3> QED
      BY <3>1 DEF Twice
  <2> HIDE DEF w
  <2>5. Doubled(S) = [in |-> r.out + r.size, out |-> r.out, size |-> 2 * r.size, tab |-> w]
    BY <2>2, <2>3, <2>4 DEF Doubled
  <2>6. Put(r, x) = Doubled(S)
    BY <1>3, <2>2, <2>3 DEF Put, IsEmpty
  <2> HIDE DEF S
  <2>7. Put(r, x) = [in |-> r.out + r.size, out |-> r.out, size |-> 2 * r.size, tab |-> w]
    BY <2>5, <2>6
  <2> QED
    BY <1>5, <2>2, <2>7 DEF Holds, Shaped
<1> QED
  BY <1>4, <1>5

\* What getLength returns, and what is read from out on.
LEMMA HoldsContents ==
    ASSUME NEW r, NEW V, NEW s, Holds(r, V, s)
    PROVE  /\ Contents(r) = s /\ s \in Seq(V)
           /\ GetLength(r) = Len(s) /\ Len(s) \in Nat /\ Len(s) < r.size
           /\ r.size \in Nat \ {0}
           /\ DOMAIN r.tab = 0 .. r.size - 1
<1> DEFINE in == r.in  out == r.out  n == r.size  tab == r.tab
<1>1. Stands(in, out, n, tab, V, s)
  BY DEF Holds
<1> HIDE DEF in, out, n, tab
<1>2. n \in Nat \ {0} /\ in \in 0 .. n - 1 /\ out \in 0 .. n - 1 /\ s \in Seq(V) /\ Len(s) \in Nat
      /\ Len(s) = (IF out <= in THEN in - out ELSE in + n - out)
      /\ tab \in [0 .. n - 1 -> V \cup {Unset}] /\ Len(s) < n
      /\ \A i \in 1 .. Len(s) : s[i] = tab[Wrap(out + i - 1, n)]
  BY <1>1 DEF Stands
<1>3. in + n - out \in Nat /\ in + n - out < 2 * n
  BY <1>2
<1>4. (in + n - out) % n = Wrap(in + n - out, n)
  BY <1>2, <1>3, ModOnce
<1>5. Wrap(in + n - out, n) = Len(s)
  BY <1>2, <1>3 DEF Wrap
<1>6. GetLength(r) = Len(s)
  BY <1>4, <1>5 DEF GetLength, in, out, n
<1>7. ASSUME NEW i \in 1 .. Len(s) PROVE s[i] = tab[(out + i - 1) % n]
  <2>1. out + i - 1 \in Nat /\ out + i - 1 < 2 * n
    BY <1>2
  <2>2. (out + i - 1) % n = Wrap(out + i - 1, n)
    BY <1>2, <2>1, ModOnce
  <2> QED
    BY <1>2, <2>2
<1>8. Contents(r) = [i \in 1 .. Len(s) |-> tab[(out + i - 1) % n]]
  BY <1>6 DEF Contents, tab, out, n
<1>9. [i \in 1 .. Len(s) |-> tab[(out + i - 1) % n]] = s
  <2>1. s = [i \in 1 .. Len(s) |-> s[i]]
    BY <1>2
  <2> QED
    BY <1>7, <2>1
<1> QED
  BY <1>2, <1>6, <1>8, <1>9 DEF tab, n
-----------------------------------------------------------------------------
(***************************************************************************)
(* A doubling ring and its queue. What is current was taken from the queue *)
(* and left a slot free, so rePut finds one.                               *)
(***************************************************************************)
FifoInv ==
    /\ puts \in Nat /\ current \in 0 .. puts
    /\ Holds(ring, Nat, queue)
    /\ Range(queue) \subseteq 1 .. puts /\ IsInjective(queue)
    /\ current # Idle => Len(queue) + 1 < ring.size /\ current \notin Range(queue)

LEMMA PrependRange ==
    ASSUME NEW S, NEW q \in Seq(S), NEW x \in S
    PROVE  /\ <<x>> \o q \in Seq(S)
           /\ Range(<<x>> \o q) = Range(q) \cup {x}
           /\ IsInjective(q) /\ x \notin Range(q) => IsInjective(<<x>> \o q)
<1> DEFINE p == <<x>> \o q
<1>1. /\ p \in Seq(S) /\ Len(q) \in Nat /\ Len(p) = Len(q) + 1 /\ p[1] = x
      /\ \A i \in 1 .. Len(q) : p[i + 1] = q[i]
  OBVIOUS
<1>2. DOMAIN p = 1 .. Len(q) + 1 /\ DOMAIN q = 1 .. Len(q)
  BY <1>1
<1> HIDE DEF p
<1>3. \A i \in 1 .. Len(q) + 1 : i = 1 \/ (i - 1 \in 1 .. Len(q) /\ p[i] = q[i - 1])
  <2> TAKE i \in 1 .. Len(q) + 1
  <2>1. CASE i # 1
    <3>1. i - 1 \in 1 .. Len(q) /\ (i - 1) + 1 = i
      BY <1>1, <2>1
    <3> QED
      BY <1>1, <3>1
  <2> QED
    BY <2>1
<1>4. Range(p) \subseteq Range(q) \cup {x}
  <2>1. \A i \in 1 .. Len(q) : q[i] \in Range(q)
    BY <1>2 DEF Range
  <2>2. \A i \in 1 .. Len(q) + 1 : p[i] \in Range(q) \cup {x}
    BY <1>1, <1>3, <2>1
  <2> QED
    BY <1>2, <2>2 DEF Range
<1>5. x \in Range(p)
  BY <1>1, <1>2 DEF Range
<1>6. ASSUME NEW i \in 1 .. Len(q) PROVE q[i] \in Range(p)
  <2>1. i + 1 \in 1 .. Len(q) + 1
    BY <1>1
  <2> QED
    BY <1>1, <1>2, <2>1 DEF Range
<1>7. Range(q) \subseteq Range(p)
  BY <1>2, <1>6 DEF Range
<1>8. ASSUME IsInjective(q), x \notin Range(q) PROVE IsInjective(p)
  <2>1. \A i \in 1 .. Len(q) : q[i] # x
    BY <1>2, <1>8 DEF Range
  <2>2. ASSUME NEW i \in 1 .. Len(q) + 1, NEW j \in 1 .. Len(q) + 1, p[i] = p[j]
        PROVE  i = j
    <3>1. CASE i = 1 \/ j = 1
      BY <1>1, <1>3, <2>1, <2>2, <3>1
    <3>2. CASE i # 1 /\ j # 1
      <4>1. i - 1 = j - 1
        BY <1>2, <1>3, <1>8, <2>2, <3>2 DEF IsInjective
      <4> QED
        BY <1>1, <4>1
    <3> QED
      BY <3>1, <3>2
  <2> QED
    BY <1>2, <2>2 DEF IsInjective
<1> QED
  BY <1>1, <1>4, <1>5, <1>7, <1>8 DEF p

LEMMA FifoStart == InitFifo => FifoInv
<1> SUFFICES ASSUME InitFifo PROVE FifoInv
  OBVIOUS
<1>1. Holds(Ring(FirstSize), Nat, <<>>)
  BY HoldsNew, FifoAssumption
<1>2. Range(<<>>) = {} /\ IsInjective(<<>>)
  BY DEF Range, IsInjective
<1>3. ring = Ring(FirstSize) /\ queue = <<>> /\ current = 0 /\ puts = 0
  BY DEF InitFifo, Idle
<1>4. Holds(ring, Nat, queue) /\ Range(queue) = {} /\ IsInjective(queue)
  BY <1>1, <1>2, <1>3
<1> QED
  BY <1>3, <1>4 DEF FifoInv, Idle

LEMMA FifoMoves == FifoInv /\ NextFifo => FifoInv'
<1> SUFFICES ASSUME FifoInv, NextFifo PROVE FifoInv'
  OBVIOUS
<1>1. /\ puts \in Nat /\ current \in 0 .. puts
      /\ Holds(ring, Nat, queue) /\ queue \in Seq(Nat)
      /\ Range(queue) \subseteq 1 .. puts /\ IsInjective(queue)
      /\ Len(queue) \in Nat /\ Len(queue) < ring.size
      /\ current # 0 => Len(queue) + 1 < ring.size /\ current \notin Range(queue)
  BY HoldsContents DEF FifoInv, Idle
<1>2. CASE PutNew
  <2>1. puts' = puts + 1 /\ current = 0 /\ current' = 0
        /\ ring' = Put(ring, puts') /\ queue' = Append(queue, puts')
    BY <1>2 DEF PutNew, Idle
  <2>2. puts' \in Nat /\ puts' \notin Range(queue)
    BY <1>1, <2>1
  <2>3. Holds(ring', Nat, queue')
    BY <1>1, <2>1, <2>2, HoldsPut
  <2>4. Range(queue') = Range(queue) \cup {puts'} /\ IsInjective(queue')
    BY <1>1, <2>1, <2>2, AppendRange, AppendKeepsInjective
  <2>5. Range(queue') \subseteq 1 .. puts'
    BY <1>1, <2>1, <2>4
  <2> QED
    BY <2>1, <2>2, <2>3, <2>4, <2>5 DEF FifoInv, Idle
<1>3. CASE GetOne
  <2>1. puts' = puts /\ current' = First(ring) /\ ring' = Got(ring) /\ queue' = Tail(queue)
        /\ ~IsEmpty(ring)
    BY <1>3 DEF GetOne
  <2>2. queue # <<>> /\ current' = Head(queue)
    BY <1>1, <2>1, HoldsFirst
  <2>3. Holds(ring', Nat, queue') /\ ring'.size = ring.size
    BY <1>1, <2>1, <2>2, HoldsGot
  <2>4. /\ Range(queue') \subseteq Range(queue) /\ IsInjective(queue')
        /\ current' \in Range(queue) /\ current' \notin Range(queue')
        /\ Len(queue') = Len(queue) - 1
    BY <1>1, <2>1, <2>2, TailRange, TailInjective
  <2>5. current' \in 0 .. puts' /\ Range(queue') \subseteq 1 .. puts'
    BY <1>1, <2>1, <2>4
  <2>6. Len(queue') + 1 < ring'.size
    BY <1>1, <2>3, <2>4
  <2> QED
    BY <1>1, <2>1, <2>3, <2>4, <2>5, <2>6 DEF FifoInv, Idle
<1>4. CASE RePutIt
  <2>1. puts' = puts /\ current' = 0 /\ current # 0
        /\ ring' = RePut(ring, current) /\ queue' = <<current>> \o queue
    BY <1>4 DEF RePutIt, Idle
  <2>2. current \in Nat /\ current \in 1 .. puts
    BY <1>1, <2>1
  <2>3. Holds(ring', Nat, queue')
    BY <1>1, <2>1, <2>2, HoldsRePut
  <2>4. Range(queue') = Range(queue) \cup {current} /\ IsInjective(queue')
    BY <1>1, <2>1, <2>2, PrependRange
  <2> QED
    BY <1>1, <2>1, <2>2, <2>3, <2>4 DEF FifoInv, Idle
<1>5. CASE KeepIt
  <2>1. puts' = puts /\ current' = 0 /\ ring' = ring /\ queue' = queue
    BY <1>5 DEF KeepIt, Idle
  <2> QED
    BY <1>1, <2>1 DEF FifoInv, Idle
<1>6. CASE PutAgain
  <2>1. puts' = puts /\ current' = 0 /\ current # 0
        /\ ring' = Put(ring, current) /\ queue' = Append(queue, current)
    BY <1>6 DEF PutAgain, Idle
  <2>2. current \in Nat /\ current \in 1 .. puts
    BY <1>1, <2>1
  <2>3. Holds(ring', Nat, queue')
    BY <1>1, <2>1, <2>2, HoldsPut
  <2>4. Range(queue') = Range(queue) \cup {current} /\ IsInjective(queue')
    BY <1>1, <2>1, <2>2, AppendRange, AppendKeepsInjective
  <2> QED
    BY <1>1, <2>1, <2>2, <2>3, <2>4 DEF FifoInv, Idle
<1> QED
  BY <1>2, <1>3, <1>4, <1>5, <1>6 DEF NextFifo

LEMMA FifoGives == FifoInv => RingIsQueue
<1> SUFFICES ASSUME FifoInv PROVE RingIsQueue
  OBVIOUS
<1>1. /\ Contents(ring) = queue /\ GetLength(ring) = Len(queue) /\ Len(queue) < ring.size
      /\ DOMAIN ring.tab = 0 .. ring.size - 1
  BY HoldsContents DEF FifoInv
<1>2. current # Idle => \A i \in DOMAIN queue : queue[i] # current
  BY DEF FifoInv, Range
<1> QED
  BY <1>1, <1>2 DEF RingIsQueue
-----------------------------------------------------------------------------
(***************************************************************************)
(* The connections: the two rings, those in the crawl and the one the      *)
(* thread holds. A ring of connections has no connection twice, so it      *)
(* holds NbConn at most and put never takes its last slot.                 *)
(***************************************************************************)
Keeps(r) ==
    /\ Holds(r, Conns, Contents(r)) /\ r.size = NbConn + 1
    /\ IsInjective(Contents(r))

Kept(r) == Range(Contents(r))

LEMMA LenOfInjective ==
    ASSUME NEW S, NEW q \in Seq(S), IsInjective(q)
    PROVE  IsFiniteSet(Range(q)) /\ Cardinality(Range(q)) = Len(q)
<1>1. Len(q) \in Nat /\ DOMAIN q = 1 .. Len(q)
  OBVIOUS
<1>2. IsFiniteSet(1 .. Len(q)) /\ Cardinality(1 .. Len(q)) = Len(q)
  BY <1>1, FS_Interval
<1>3. q \in [1 .. Len(q) -> Range(q)]
  BY <1>1 DEF Range
<1>4. q \in Surjection(1 .. Len(q), Range(q))
  BY <1>1, <1>3 DEF Surjection, Range
<1>5. q \in Injection(1 .. Len(q), Range(q))
  BY <1>1, <1>3 DEF Injection, IsInjective
<1> QED
  BY <1>2, <1>4, <1>5, FS_Surjection

LEMMA ConnsFinite == IsFiniteSet(Conns) /\ Cardinality(Conns) = NbConn
BY FS_Interval, OutputAssumption DEF Conns

LEMMA KeepsSeq ==
    ASSUME NEW r, Keeps(r)
    PROVE  /\ Contents(r) \in Seq(Conns) /\ Kept(r) \subseteq Conns
           /\ IsFiniteSet(Kept(r)) /\ Cardinality(Kept(r)) = Len(Contents(r))
           /\ IsEmpty(r) <=> Contents(r) = <<>>
<1>1. Contents(r) \in Seq(Conns)
  BY HoldsContents DEF Keeps
<1>2. Kept(r) \subseteq Conns
  BY <1>1 DEF Kept, Range
<1>3. IsEmpty(r) <=> Contents(r) = <<>>
  BY HoldsFirst DEF Keeps
<1> QED
  BY <1>1, <1>2, <1>3, LenOfInjective DEF Keeps, Kept

\* put of a connection that is elsewhere.
LEMMA KeepsPut ==
    ASSUME NEW r, Keeps(r), NEW c \in Conns, c \notin Kept(r)
    PROVE  /\ Keeps(Put(r, c)) /\ Contents(Put(r, c)) = Append(Contents(r), c)
           /\ Kept(Put(r, c)) = Kept(r) \cup {c}
<1> DEFINE s == Contents(r)
<1>1. Holds(r, Conns, s) /\ r.size = NbConn + 1 /\ IsInjective(s) /\ s \in Seq(Conns)
  BY KeepsSeq DEF Keeps
<1>2. Len(s) + 1 <= NbConn
  <2>1. Kept(r) \in SUBSET (Conns \ {c}) /\ Cardinality(Kept(r)) = Len(s)
    BY KeepsSeq
  <2>2. IsFiniteSet(Conns \ {c}) /\ Cardinality(Conns \ {c}) = NbConn - 1
    BY ConnsFinite, FS_RemoveElement
  <2>3. Cardinality(Kept(r)) <= Cardinality(Conns \ {c})
    BY <2>1, <2>2, FS_Subset
  <2>4. Len(s) \in Nat /\ NbConn \in Nat
    BY <1>1, OutputAssumption
  <2> QED
    BY <2>1, <2>2, <2>3, <2>4
<1>3. Len(s) + 1 < r.size
  <2>1. Len(s) \in Nat /\ NbConn \in Nat
    BY <1>1, OutputAssumption
  <2> QED
    BY <1>1, <1>2, <2>1
<1> HIDE DEF s
<1>4. Holds(Put(r, c), Conns, Append(s, c)) /\ Put(r, c).size = NbConn + 1
  BY <1>1, <1>3, HoldsPut
<1>5. Contents(Put(r, c)) = Append(s, c)
  BY <1>4, HoldsContents
<1>6. c \notin Range(s)
  BY DEF Kept, s
<1>7. IsInjective(Append(s, c)) /\ Range(Append(s, c)) = Range(s) \cup {c}
  BY <1>1, <1>6, AppendRange, AppendKeepsInjective
<1> QED
  BY <1>4, <1>5, <1>7 DEF Keeps, Kept, s

\* get, of a ring that is not empty.
LEMMA KeepsGot ==
    ASSUME NEW r, Keeps(r), ~IsEmpty(r)
    PROVE  /\ Keeps(Got(r)) /\ Contents(r) # <<>>
           /\ First(r) = Head(Contents(r)) /\ Contents(Got(r)) = Tail(Contents(r))
           /\ First(r) \in Kept(r) /\ Kept(Got(r)) = Kept(r) \ {First(r)}
<1> DEFINE s == Contents(r)
<1>1. Holds(r, Conns, s) /\ r.size = NbConn + 1 /\ IsInjective(s) /\ s \in Seq(Conns)
      /\ s # <<>>
  BY KeepsSeq DEF Keeps
<1> HIDE DEF s
<1>2. First(r) = Head(s)
  BY <1>1, HoldsFirst
<1>3. Holds(Got(r), Conns, Tail(s)) /\ Got(r).size = NbConn + 1
  BY <1>1, HoldsGot
<1>4. Contents(Got(r)) = Tail(s)
  BY <1>3, HoldsContents
<1>5. IsInjective(Tail(s)) /\ Head(s) \notin Range(Tail(s))
  BY <1>1, TailInjective
<1>6. Range(s) = Range(Tail(s)) \cup {Head(s)}
  BY <1>1, TailRange
<1> QED
  BY <1>1, <1>2, <1>3, <1>4, <1>5, <1>6 DEF Keeps, Kept, s

LEMMA KeepsNew == Keeps(ConstantRing(NbConn)) /\ Contents(ConstantRing(NbConn)) = <<>>
<1>1. NbConn + 1 \in Nat \ {0}
  BY OutputAssumption
<1>2. Holds(Ring(NbConn + 1), Conns, <<>>) /\ Ring(NbConn + 1).size = NbConn + 1
  BY <1>1, HoldsNew
<1>3. Contents(Ring(NbConn + 1)) = <<>>
  BY <1>2, HoldsContents
<1>4. IsInjective(<<>>)
  BY DEF IsInjective
<1> QED
  BY <1>2, <1>3, <1>4 DEF Keeps, ConstantRing

\* The ring of the connections at the start. Filled is the function that
\* satisfies its equation, and there is one.
Fills(f) == f = [n \in 0 .. NbConn |->
                    IF n = 0 THEN ConstantRing(NbConn) ELSE Put(f[n - 1], n)]
FilledTo(n) == [in |-> n, out |-> 0, size |-> NbConn + 1,
                tab |-> [i \in 0 .. NbConn |-> IF i < n THEN i + 1 ELSE Unset]]

LEMMA FilledExists == Fills(Filled)
<1> DEFINE g == [n \in 0 .. NbConn |-> FilledTo(n)]
<1>1. NbConn \in Nat
  BY OutputAssumption
<1>2. FilledTo(0) = ConstantRing(NbConn)
  <2> DEFINE u == [i \in 0 .. NbConn |-> IF i < 0 THEN i + 1 ELSE Unset]
             v == [i \in 0 .. (NbConn + 1) - 1 |-> Unset]
  <2>1. (NbConn + 1) - 1 = NbConn /\ \A i \in 0 .. NbConn : ~(i < 0)
    BY <1>1
  <2>2. u = v
    BY <2>1
  <2>3. FilledTo(0) = [in |-> 0, out |-> 0, size |-> NbConn + 1, tab |-> u]
    BY DEF FilledTo
  <2>4. ConstantRing(NbConn) = [in |-> 0, out |-> 0, size |-> NbConn + 1, tab |-> v]
    BY DEF ConstantRing, Ring
  <2> HIDE DEF u, v
  <2> QED
    BY <2>2, <2>3, <2>4
<1>3. ASSUME NEW n \in 0 .. NbConn, n # 0
      PROVE  Put(FilledTo(n - 1), n) = FilledTo(n)
  <2> DEFINE r == FilledTo(n - 1)
             t == [i \in 0 .. NbConn |-> IF i < n THEN i + 1 ELSE Unset]
  <2>1. /\ r.in = n - 1 /\ r.out = 0 /\ r.size = NbConn + 1
        /\ r.tab = [i \in 0 .. NbConn |-> IF i < n - 1 THEN i + 1 ELSE Unset]
        /\ Shaped(r)
    BY DEF FilledTo, Shaped
  <2>2. (n - 1 + 1) % (NbConn + 1) = n
    <3>1. n \in Nat /\ NbConn + 1 \in Nat \ {0} /\ n < NbConn + 1 /\ n < 2 * (NbConn + 1)
          /\ n - 1 + 1 = n
      BY <1>1
    <3> QED
      BY <3>1, ModOnce DEF Wrap
  <2>3. [r.tab EXCEPT ![r.in] = n] = t
    <3> HIDE DEF r
    <3> DEFINE u == [i \in 0 .. NbConn |-> IF i < n - 1 THEN i + 1 ELSE Unset]
               w == [u EXCEPT ![n - 1] = n]
    <3>1. n - 1 \in 0 .. NbConn /\ n - 1 + 1 = n /\ n - 1 < n
      BY <1>1, <1>3
    <3>2. ASSUME NEW i \in 0 .. NbConn, i # n - 1
          PROVE  i < n - 1 <=> i < n
      BY <1>1, <1>3, <3>2
    <3>3. w[n - 1] = n /\ t[n - 1] = n
      BY <3>1
    <3>4. ASSUME NEW i \in 0 .. NbConn PROVE w[i] = t[i]
      <4>1. CASE i = n - 1
        BY <3>3, <4>1
      <4>2. CASE i # n - 1
        <5>1. w[i] = IF i < n - 1 THEN i + 1 ELSE Unset
          BY <4>2
        <5>2. t[i] = IF i < n THEN i + 1 ELSE Unset
          OBVIOUS
        <5>3. i < n - 1 <=> i < n
          BY <3>2, <4>2
        <5> QED
          BY <5>1, <5>2, <5>3
      <4> QED
        BY <4>1, <4>2
    <3>5. w = [i \in 0 .. NbConn |-> w[i]] /\ t = [i \in 0 .. NbConn |-> t[i]]
      OBVIOUS
    <3>6. w = t
      <4> HIDE DEF w, t
      <4> QED
        BY <3>4, <3>5
    <3>7. r.tab = u /\ r.in = n - 1
      BY <2>1
    <3> HIDE DEF u, t
    <3> QED
      BY <3>6, <3>7
  <2> HIDE DEF r, t
  <2>4. Stored(r, n) = [in |-> n, out |-> 0, size |-> NbConn + 1, tab |-> t]
    <3>1. Shaped(r) /\ r.in = n - 1 /\ r.out = 0 /\ r.size = NbConn + 1
      BY <2>1
    <3>2. Stored(r, n) = [in |-> (r.in + 1) % r.size, out |-> r.out, size |-> r.size,
                          tab |-> [r.tab EXCEPT ![r.in] = n]]
      BY <3>1, StoredRecord
    <3> QED
      BY <2>2, <2>3, <3>1, <3>2
  <2>5. Put(r, n) = [in |-> n, out |-> 0, size |-> NbConn + 1, tab |-> t]
    BY <1>3, <2>4 DEF Put, IsEmpty
  <2> QED
    BY <2>5 DEF r, t, FilledTo
<1>4. Fills(g)
  <2>1. ASSUME NEW n \in 0 .. NbConn
        PROVE  FilledTo(n) = IF n = 0 THEN ConstantRing(NbConn) ELSE Put(g[n - 1], n)
    <3>1. CASE n = 0
      BY <1>2, <3>1
    <3>2. CASE n # 0
      <4>1. n - 1 \in 0 .. NbConn
        BY <1>1, <3>2
      <4>2. g[n - 1] = FilledTo(n - 1)
        BY <4>1
      <4> QED
        BY <1>3, <3>2, <4>2
    <3> QED
      BY <3>1, <3>2
  <2>2. g = [n \in 0 .. NbConn |->
               IF n = 0 THEN ConstantRing(NbConn) ELSE Put(g[n - 1], n)]
    BY <2>1
  <2> QED
    BY <2>2 DEF Fills
<1> HIDE DEF g
<1>5. Filled = CHOOSE f : Fills(f)
  BY DEF Filled, Fills
<1> QED
  BY <1>4, <1>5

\* At the start every connection is free, in its order.
LEMMA FreeAtStart == Keeps(Filled[NbConn]) /\ Kept(Filled[NbConn]) = Conns
<1> DEFINE N == {n \in Nat : n <= NbConn => Keeps(Filled[n]) /\ Kept(Filled[n]) = 1 .. n}
<1>1. NbConn \in Nat
  BY OutputAssumption
<1>2. Filled = [n \in 0 .. NbConn |->
                  IF n = 0 THEN ConstantRing(NbConn) ELSE Put(Filled[n - 1], n)]
  BY FilledExists DEF Fills
<1>3. 0 \in N
  <2>1. Filled[0] = ConstantRing(NbConn)
    BY <1>1, <1>2
  <2>2. Range(<<>>) = {} /\ 1 .. 0 = {}
    BY DEF Range
  <2> QED
    BY <2>1, <2>2, KeepsNew DEF Kept
<1>4. ASSUME NEW n \in N PROVE n + 1 \in N
  <2> SUFFICES ASSUME n + 1 <= NbConn
               PROVE  Keeps(Filled[n + 1]) /\ Kept(Filled[n + 1]) = 1 .. n + 1
    OBVIOUS
  <2>1. n \in Nat /\ n <= NbConn /\ n + 1 \in 0 .. NbConn /\ n + 1 # 0 /\ (n + 1) - 1 = n
    BY <1>1
  <2>2. Filled[n + 1] = Put(Filled[n], n + 1)
    BY <1>2, <2>1
  <2>3. Keeps(Filled[n]) /\ Kept(Filled[n]) = 1 .. n
    BY <2>1
  <2>4. n + 1 \in Conns /\ n + 1 \notin 1 .. n /\ 1 .. n + 1 = (1 .. n) \cup {n + 1}
    BY <1>1, <2>1 DEF Conns
  <2> QED
    BY <2>2, <2>3, <2>4, KeepsPut
<1>5. N = Nat
  <2>1. N \in SUBSET Nat
    OBVIOUS
  <2> HIDE DEF N
  <2> QED
    BY <1>3, <1>4, <2>1, NatInduct
<1> QED
  BY <1>1, <1>5 DEF Conns

\* Where the connections are: the sets part Conns.
Parted(A, B, H, C) ==
    /\ A \cup B \cup H \cup C = Conns
    /\ A \cap B = {} /\ A \cap H = {} /\ A \cap C = {}
    /\ B \cap H = {} /\ B \cap C = {} /\ H \cap C = {}

Held == IF reporting[1] = "get" THEN {} ELSE {reporting[2]}
Loads == [page : Nat \cup {Unset}, err : {"success", "timeout"}, interesting : BOOLEAN]

ReportingOK == \/ reporting = <<"get", Unset>>
               \/ \E c \in Conns : reporting = <<"report", c>> \/ reporting = <<"put", c>>

ConnInv ==
    /\ Keeps(freeConns) /\ Keeps(userConns)
    /\ ReportingOK
    /\ Parted(Kept(freeConns), Kept(userConns), Held, crawling)
    /\ started \in Nat /\ load \in [Conns -> Loads]
    /\ \A c \in Kept(userConns) \cup crawling : load[c].page # Unset

LEMMA PartedSubsets ==
    ASSUME NEW A, NEW B, NEW H, NEW C, Parted(A, B, H, C)
    PROVE  A \subseteq Conns /\ B \subseteq Conns /\ H \subseteq Conns /\ C \subseteq Conns
BY DEF Parted

LEMMA ConnsStart ==
    ASSUME NEW M, NEW T, InitOutput(M, T)
    PROVE  ConnInv
<1>1. /\ freeConns = Filled[NbConn] /\ userConns = ConstantRing(NbConn) /\ crawling = {}
      /\ load = [c \in Conns |-> [page |-> Unset, err |-> "success", interesting |-> FALSE]]
      /\ reporting = <<"get", Unset>> /\ started = 0
  BY DEF InitOutput
<1>2. Keeps(freeConns) /\ Kept(freeConns) = Conns
  BY <1>1, FreeAtStart
<1>3. Keeps(userConns) /\ Kept(userConns) = {}
  BY <1>1, KeepsNew DEF Kept, Range
<1>4. Held = {}
  BY <1>1 DEF Held
<1>5. Parted(Kept(freeConns), Kept(userConns), Held, crawling)
  BY <1>1, <1>2, <1>3, <1>4 DEF Parted
<1>6. load \in [Conns -> Loads]
  BY <1>1 DEF Loads
<1> QED
  BY <1>1, <1>2, <1>3, <1>5, <1>6 DEF ConnInv, ReportingOK

LEMMA ConnsFetch == ConnInv /\ Fetch => ConnInv'
<1> SUFFICES ASSUME ConnInv, Fetch PROVE ConnInv'
  OBVIOUS
<1> DEFINE c == First(freeConns)
<1>1. /\ ~IsEmpty(freeConns) /\ started' = started + 1
      /\ userConns' = userConns /\ reporting' = reporting
  BY DEF Fetch
<1>2. /\ Keeps(freeConns) /\ Keeps(userConns) /\ ReportingOK
      /\ Parted(Kept(freeConns), Kept(userConns), Held, crawling)
      /\ started \in Nat /\ load \in [Conns -> Loads]
      /\ \A d \in Kept(userConns) \cup crawling : load[d].page # Unset
  BY DEF ConnInv
<1>3. /\ Keeps(Got(freeConns)) /\ c \in Kept(freeConns)
      /\ Kept(Got(freeConns)) = Kept(freeConns) \ {c}
  BY <1>1, <1>2, KeepsGot
<1>4. c \in Conns
  BY <1>2, <1>3, PartedSubsets
<1>5. ReportingOK' /\ Held' = Held
  BY <1>1, <1>2 DEF ReportingOK, Held
<1>6. Kept(userConns)' = Kept(userConns) /\ Keeps(userConns)' /\ started' \in Nat
  BY <1>1, <1>2
<1> HIDE DEF c
<1>7. CASE /\ crawling' = crawling \union {c} /\ freeConns' = Got(freeConns)
           /\ load' = [load EXCEPT ![c] = [page |-> started', err |-> "success",
                                           interesting |-> FALSE]]
  <2>1. Parted(Kept(freeConns'), Kept(userConns), Held, crawling')
    BY <1>2, <1>3, <1>7 DEF Parted
  <2>2. load' \in [Conns -> Loads] /\ load'[c].page = started'
        /\ \A d \in Conns : d # c => load'[d] = load[d]
    BY <1>2, <1>4, <1>6, <1>7 DEF Loads
  <2>3. started' # Unset
    BY <1>6, OutputAssumption
  <2>4. Kept(userConns) \subseteq Conns /\ crawling \subseteq Conns
    BY <1>2, PartedSubsets
  <2>5. \A d \in Kept(userConns) \cup crawling' : load'[d].page # Unset
    BY <1>2, <1>7, <2>2, <2>3, <2>4
  <2> QED
    BY <1>3, <1>5, <1>6, <1>7, <2>1, <2>2, <2>5 DEF ConnInv
<1>8. CASE freeConns' = Put(Got(freeConns), c) /\ crawling' = crawling /\ load' = load
  <2>1. c \notin Kept(Got(freeConns))
    BY <1>3
  <2>2. Keeps(freeConns') /\ Kept(freeConns') = Kept(freeConns)
    <3>1. /\ Keeps(Put(Got(freeConns), c))
          /\ Kept(Put(Got(freeConns), c)) = Kept(Got(freeConns)) \cup {c}
      BY <1>3, <1>4, <2>1, KeepsPut
    <3>2. (Kept(freeConns) \ {c}) \cup {c} = Kept(freeConns)
      BY <1>3
    <3> QED
      BY <1>3, <1>8, <3>1, <3>2
  <2> QED
    BY <1>2, <1>5, <1>6, <1>8, <2>2 DEF ConnInv
<1> QED
  BY <1>7, <1>8 DEF Fetch, c

\* What the end of a page says of its connection.
LEMMA LoadEnds ==
    ASSUME load \in [Conns -> Loads], NEW c \in Conns,
           NEW e \in {"success", "timeout"}, NEW i \in BOOLEAN,
           load' = [load EXCEPT ![c].err = e, ![c].interesting = i]
    PROVE  /\ load' \in [Conns -> Loads] /\ load'[c].page = load[c].page
           /\ \A d \in Conns : d # c => load'[d] = load[d]
BY DEF Loads

LEMMA ConnsEnd ==
    ASSUME ConnInv, NEW c \in Conns, EndOfFile(c)
    PROVE  ConnInv'
<1>1. /\ c \in crawling /\ crawling' = crawling \ {c}
      /\ reporting' = reporting /\ started' = started
  BY DEF EndOfFile
<1>2. /\ Keeps(freeConns) /\ Keeps(userConns) /\ ReportingOK
      /\ Parted(Kept(freeConns), Kept(userConns), Held, crawling)
      /\ started \in Nat /\ load \in [Conns -> Loads]
      /\ \A d \in Kept(userConns) \cup crawling : load[d].page # Unset
  BY DEF ConnInv
<1>3. PICK e \in {"success", "timeout"}, i \in BOOLEAN :
         load' = [load EXCEPT ![c].err = e, ![c].interesting = i]
  BY DEF EndOfFile
<1>4. /\ load' \in [Conns -> Loads] /\ load'[c].page = load[c].page
      /\ \A d \in Conns : d # c => load'[d] = load[d]
  BY <1>2, <1>3, LoadEnds
<1>5. ReportingOK' /\ Held' = Held /\ started' \in Nat
  BY <1>1, <1>2 DEF ReportingOK, Held
<1>6. \A d \in Kept(userConns) \cup crawling : load'[d].page # Unset
  <2>1. Kept(userConns) \subseteq Conns /\ crawling \subseteq Conns
    BY <1>2, PartedSubsets
  <2> QED
    BY <1>2, <1>4, <2>1
<1>7. c \notin Kept(freeConns) /\ c \notin Kept(userConns)
  BY <1>1, <1>2 DEF Parted
<1>8. CASE freeConns' = freeConns /\ userConns' = Put(userConns, c)
  <2>1. Keeps(userConns') /\ Kept(userConns') = Kept(userConns) \cup {c}
    BY <1>2, <1>7, <1>8, KeepsPut
  <2>2. Parted(Kept(freeConns), Kept(userConns'), Held, crawling')
    BY <1>1, <1>2, <2>1 DEF Parted
  <2>3. \A d \in Kept(userConns') \cup crawling' : load'[d].page # Unset
    BY <1>1, <1>6, <2>1
  <2> QED
    BY <1>2, <1>4, <1>5, <1>8, <2>1, <2>2, <2>3 DEF ConnInv
<1>9. CASE freeConns' = Put(freeConns, c) /\ userConns' = userConns
  <2>1. Keeps(freeConns') /\ Kept(freeConns') = Kept(freeConns) \cup {c}
    BY <1>2, <1>7, <1>9, KeepsPut
  <2>2. Parted(Kept(freeConns'), Kept(userConns), Held, crawling')
    BY <1>1, <1>2, <2>1 DEF Parted
  <2>3. \A d \in Kept(userConns') \cup crawling' : load'[d].page # Unset
    BY <1>1, <1>6, <1>9
  <2> QED
    BY <1>2, <1>4, <1>5, <1>9, <2>1, <2>2, <2>3 DEF ConnInv
<1> QED
  BY <1>8, <1>9 DEF EndOfFile, GiveToThread, ReportItself

LEMMA ConnsGet == ConnInv /\ OutputGet => ConnInv'
<1> SUFFICES ASSUME ConnInv, OutputGet PROVE ConnInv'
  OBVIOUS
<1>1. /\ freeConns' = freeConns /\ crawling' = crawling /\ load' = load
      /\ started' = started /\ reporting[1] = "get"
  BY DEF OutputGet
<1>2. /\ Keeps(freeConns) /\ Keeps(userConns) /\ ReportingOK
      /\ Parted(Kept(freeConns), Kept(userConns), Held, crawling)
      /\ started \in Nat /\ load \in [Conns -> Loads]
      /\ \A d \in Kept(userConns) \cup crawling : load[d].page # Unset
  BY DEF ConnInv
<1>3. CASE IsEmpty(userConns)
  <2>1. userConns' = userConns /\ reporting' = reporting
    BY <1>3 DEF OutputGet
  <2>2. ReportingOK' /\ Held' = Held
    BY <1>2, <2>1 DEF ReportingOK, Held
  <2> QED
    BY <1>1, <1>2, <2>1, <2>2 DEF ConnInv
<1>4. CASE ~IsEmpty(userConns)
  <2> DEFINE c == First(userConns)
  <2>1. userConns' = Got(userConns) /\ reporting' = <<"report", c>>
    BY <1>4 DEF OutputGet
  <2>2. Keeps(userConns') /\ c \in Kept(userConns) /\ Kept(userConns') = Kept(userConns) \ {c}
    BY <1>2, <1>4, <2>1, KeepsGot
  <2> HIDE DEF c
  <2>3. c \in Conns
    BY <1>2, <2>2, PartedSubsets
  <2>4. Held = {} /\ Held' = {c} /\ ReportingOK'
    BY <1>1, <2>1, <2>3 DEF Held, ReportingOK
  <2>5. Parted(Kept(freeConns), Kept(userConns'), Held', crawling)
    BY <1>2, <2>2, <2>4 DEF Parted
  <2> QED
    BY <1>1, <1>2, <2>2, <2>4, <2>5 DEF ConnInv
<1> QED
  BY <1>3, <1>4

LEMMA ConnsReport == ConnInv /\ OutputReport => ConnInv'
<1> SUFFICES ASSUME ConnInv, OutputReport PROVE ConnInv'
  OBVIOUS
<1>1. /\ freeConns' = freeConns /\ userConns' = userConns /\ crawling' = crawling
      /\ load' = load /\ started' = started
      /\ reporting[1] = "report" /\ reporting' = <<"put", reporting[2]>>
  BY DEF OutputReport
<1>2. ReportingOK
  BY DEF ConnInv
<1>3. ReportingOK' /\ Held' = Held
  BY <1>1, <1>2 DEF ReportingOK, Held
<1> QED
  BY <1>1, <1>3 DEF ConnInv

LEMMA ConnsPut == ConnInv /\ OutputPut => ConnInv'
<1> SUFFICES ASSUME ConnInv, OutputPut PROVE ConnInv'
  OBVIOUS
<1> DEFINE c == reporting[2]
<1>1. /\ userConns' = userConns /\ crawling' = crawling /\ load' = load /\ started' = started
      /\ reporting[1] = "put" /\ freeConns' = Put(freeConns, c)
      /\ reporting' = <<"get", Unset>>
  BY DEF OutputPut
<1>2. /\ Keeps(freeConns) /\ Keeps(userConns) /\ ReportingOK
      /\ Parted(Kept(freeConns), Kept(userConns), Held, crawling)
      /\ started \in Nat /\ load \in [Conns -> Loads]
      /\ \A d \in Kept(userConns) \cup crawling : load[d].page # Unset
  BY DEF ConnInv
<1>3. Held = {c} /\ Held' = {} /\ ReportingOK'
  BY <1>1 DEF Held, ReportingOK
<1> HIDE DEF c
<1>4. c \in Conns /\ c \notin Kept(freeConns)
  BY <1>2, <1>3 DEF Parted
<1>5. Keeps(freeConns') /\ Kept(freeConns') = Kept(freeConns) \cup {c}
  BY <1>1, <1>2, <1>4, KeepsPut
<1>6. Parted(Kept(freeConns'), Kept(userConns), Held', crawling)
  BY <1>2, <1>3, <1>5 DEF Parted
<1> QED
  BY <1>1, <1>2, <1>3, <1>5, <1>6 DEF ConnInv

LEMMA ConnsStep == ConnInv /\ NextOutput => ConnInv'
BY ConnsFetch, ConnsEnd, ConnsGet, ConnsReport, ConnsPut
   DEF NextOutput, MainLoads, OutputThread

LEMMA ConcatRange ==
    ASSUME NEW S, NEW p \in Seq(S), NEW q \in Seq(S)
    PROVE  Range(p \o q) = Range(p) \cup Range(q) /\ p \o q \in Seq(S)
           /\ Len(p \o q) = Len(p) + Len(q)
<1> DEFINE w == p \o q
<1>1. /\ w \in Seq(S) /\ Len(w) = Len(p) + Len(q) /\ Len(p) \in Nat /\ Len(q) \in Nat
      /\ \A i \in 1 .. Len(p) : w[i] = p[i]
      /\ \A i \in 1 .. Len(q) : w[Len(p) + i] = q[i]
  OBVIOUS
<1>2. /\ DOMAIN w = 1 .. Len(p) + Len(q) /\ DOMAIN p = 1 .. Len(p)
      /\ DOMAIN q = 1 .. Len(q)
  BY <1>1
<1> HIDE DEF w
<1>3. ASSUME NEW i \in 1 .. Len(p) + Len(q) PROVE w[i] \in Range(p) \cup Range(q)
  <2>1. CASE i <= Len(p)
    <3>1. i \in 1 .. Len(p)
      BY <1>1, <2>1
    <3> QED
      BY <1>1, <1>2, <3>1 DEF Range
  <2>2. CASE ~(i <= Len(p))
    <3>1. i - Len(p) \in 1 .. Len(q) /\ Len(p) + (i - Len(p)) = i
      BY <1>1, <2>2
    <3> QED
      BY <1>1, <1>2, <3>1 DEF Range
  <2> QED
    BY <2>1, <2>2
<1>4. ASSUME NEW i \in 1 .. Len(p) PROVE p[i] \in Range(w)
  <2>1. i \in 1 .. Len(p) + Len(q)
    BY <1>1
  <2> QED
    BY <1>1, <1>2, <2>1 DEF Range
<1>5. ASSUME NEW i \in 1 .. Len(q) PROVE q[i] \in Range(w)
  <2>1. Len(p) + i \in 1 .. Len(p) + Len(q)
    BY <1>1
  <2> QED
    BY <1>1, <1>2, <2>1 DEF Range
<1>6. Range(w) \subseteq Range(p) \cup Range(q)
  BY <1>2, <1>3 DEF Range
<1>7. Range(p) \subseteq Range(w) /\ Range(q) \subseteq Range(w)
  BY <1>2, <1>4, <1>5 DEF Range
<1> QED
  BY <1>1, <1>6, <1>7 DEF w

LEMMA DisjointUnion ==
    ASSUME NEW S, NEW T, IsFiniteSet(S), IsFiniteSet(T), S \cap T = {}
    PROVE  IsFiniteSet(S \cup T) /\ Cardinality(S \cup T) = Cardinality(S) + Cardinality(T)
<1>1. Cardinality(S) \in Nat /\ Cardinality(T) \in Nat /\ Cardinality(S \cap T) = 0
  BY FS_CardinalityType, FS_EmptySet
<1>2. /\ IsFiniteSet(S \cup T)
      /\ Cardinality(S \cup T) = Cardinality(S) + Cardinality(T) - Cardinality(S \cap T)
  BY FS_Union
<1> QED
  BY <1>1, <1>2

\* The sets that part Conns have NbConn elements in all.
LEMMA PartedCount ==
    ASSUME NEW A, NEW B, NEW H, NEW C, Parted(A, B, H, C)
    PROVE  Cardinality(A) + Cardinality(B) + Cardinality(H) + Cardinality(C) = NbConn
<1>1. IsFiniteSet(A) /\ IsFiniteSet(B) /\ IsFiniteSet(H) /\ IsFiniteSet(C)
  BY PartedSubsets, ConnsFinite, FS_Subset
<1>2. /\ Cardinality(A) \in Nat /\ Cardinality(B) \in Nat
      /\ Cardinality(H) \in Nat /\ Cardinality(C) \in Nat
  BY <1>1, FS_CardinalityType
<1>3. IsFiniteSet(A \cup B) /\ Cardinality(A \cup B) = Cardinality(A) + Cardinality(B)
  <2>1. A \cap B = {}
    BY DEF Parted
  <2> QED
    BY <1>1, <2>1, DisjointUnion
<1>4. IsFiniteSet(H \cup C) /\ Cardinality(H \cup C) = Cardinality(H) + Cardinality(C)
  <2>1. H \cap C = {}
    BY DEF Parted
  <2> QED
    BY <1>1, <2>1, DisjointUnion
<1>5. (A \cup B) \cap (H \cup C) = {} /\ (A \cup B) \cup (H \cup C) = Conns
  BY DEF Parted
<1>6. Cardinality(Conns) = Cardinality(A \cup B) + Cardinality(H \cup C)
  BY <1>3, <1>4, <1>5, DisjointUnion
<1> QED
  BY <1>2, <1>3, <1>4, <1>6, ConnsFinite

LEMMA ConnsGive == ConnInv => ConnsKept
<1> SUFFICES ASSUME ConnInv PROVE ConnsKept
  OBVIOUS
<1> DEFINE held == IF reporting[1] = "get" THEN <<>> ELSE <<reporting[2]>>
           F == Contents(freeConns)
           U == Contents(userConns)
           P == F \o U
           W == P \o held
<1>1. /\ Keeps(freeConns) /\ Keeps(userConns) /\ ReportingOK
      /\ Parted(Kept(freeConns), Kept(userConns), Held, crawling)
      /\ \A c \in Kept(userConns) : load[c].page # Unset
  BY DEF ConnInv
<1>2. freeConns.size = NbConn + 1 /\ userConns.size = NbConn + 1
  BY <1>1 DEF Keeps
<1>3. /\ F \in Seq(Conns) /\ Cardinality(Range(F)) = Len(F)
      /\ U \in Seq(Conns) /\ Cardinality(Range(U)) = Len(U)
  BY <1>1, KeepsSeq DEF Kept
<1>4. held \in Seq(Conns) /\ Range(held) = Held /\ Cardinality(Held) = Len(held)
  <2>1. CASE reporting[1] = "get"
    <3>1. held = <<>> /\ Held = {}
      BY <2>1 DEF Held
    <3>2. Range(<<>>) = {} /\ Len(<<>>) = 0 /\ <<>> \in Seq(Conns)
      BY DEF Range
    <3> QED
      BY <3>1, <3>2, FS_EmptySet
  <2>2. CASE reporting[1] # "get"
    <3> DEFINE c == reporting[2]
    <3>1. held = <<c>> /\ Held = {c}
      BY <2>2 DEF Held
    <3>2. c \in Conns
      BY <1>1, <2>2 DEF ReportingOK
    <3> HIDE DEF c, held
    <3>3. <<c>> \in Seq(Conns) /\ Len(<<c>>) = 1 /\ DOMAIN <<c>> = {1} /\ <<c>>[1] = c
      BY <3>2
    <3>4. Range(<<c>>) = {c}
      BY <3>3 DEF Range
    <3> QED
      BY <3>1, <3>3, <3>4, FS_Singleton
  <2> QED
    BY <2>1, <2>2
<1> HIDE DEF held, F, U
<1>5. P \in Seq(Conns) /\ Len(P) = Len(F) + Len(U) /\ Range(P) = Range(F) \cup Range(U)
  BY <1>3, ConcatRange
<1> HIDE DEF P
<1>6. Len(W) = Len(P) + Len(held) /\ Range(W) = Range(P) \cup Range(held)
  BY <1>4, <1>5, ConcatRange
<1>7. Parted(Range(F), Range(U), Held, crawling)
  BY <1>1 DEF Kept, F, U
<1>8. Range(W) \cup crawling = Conns
  BY <1>4, <1>5, <1>6, <1>7 DEF Parted
<1>9. Len(W) + Cardinality(crawling) = NbConn
  <2>1. Cardinality(Range(F)) + Cardinality(Range(U)) + Cardinality(Held)
          + Cardinality(crawling) = NbConn
    BY <1>7, PartedCount
  <2> HIDE DEF W
  <2> QED
    BY <1>3, <1>4, <1>5, <1>6, <2>1
<1>10. \A c \in Range(U) : load[c].page # Unset
  BY <1>1 DEF Kept, U
<1> QED
  BY <1>2, <1>8, <1>9, <1>10 DEF ConnsKept, W, P, F, U, held
-----------------------------------------------------------------------------
(***************************************************************************)
(* The order of the reports: those that miss are those of the connections  *)
(* in the thread's hands and in its ring, in this order. Lists(P, s, L, G) *)
(* says that s holds the loads L of the connections of P that G gives; k   *)
(* counts them.                                                            *)
(***************************************************************************)
Counting(k, P, s, L, G) ==
    /\ k \in [0 .. Len(P) -> 0 .. Len(s)] /\ k[0] = 0 /\ k[Len(P)] = Len(s)
    /\ \A i, j \in 0 .. Len(P) : i <= j => k[i] <= k[j]
    /\ \A i \in 1 .. Len(P) :
          /\ G[P[i]] => k[i] = k[i - 1] + 1 /\ s[k[i]] = L[P[i]]
          /\ ~G[P[i]] => k[i] = k[i - 1]
Lists(P, s, L, G) == s \in Seq(Loads) /\ \E k : Counting(k, P, s, L, G)

LEMMA ListsNone ==
    ASSUME NEW L, NEW G
    PROVE  Lists(<<>>, <<>>, L, G) /\ \A s : Lists(<<>>, s, L, G) => s = <<>>
<1>1. Counting([i \in 0 .. 0 |-> 0], <<>>, <<>>, L, G)
  BY DEF Counting
<1>2. ASSUME NEW s, Lists(<<>>, s, L, G) PROVE s = <<>>
  <2>1. PICK k : Counting(k, <<>>, s, L, G)
    BY <1>2 DEF Lists
  <2>2. k[0] = 0 /\ k[0] = Len(s)
    BY <2>1 DEF Counting
  <2> QED
    BY <1>2, <2>2 DEF Lists
<1> QED
  BY <1>1, <1>2 DEF Lists

\* What happens to the other connections changes nothing.
LEMMA ListsSame ==
    ASSUME NEW P \in Seq(Conns), NEW s, NEW L, NEW G, Lists(P, s, L, G),
           NEW L2, NEW G2, \A c \in Range(P) : L2[c] = L[c] /\ G2[c] = G[c]
    PROVE  Lists(P, s, L2, G2)
<1>1. PICK k : Counting(k, P, s, L, G)
  BY DEF Lists
<1>2. \A i \in 1 .. Len(P) : P[i] \in Range(P)
  BY DEF Range
<1>3. \A i \in 1 .. Len(P) : L2[P[i]] = L[P[i]] /\ G2[P[i]] = G[P[i]]
  BY <1>2
<1>4. Counting(k, P, s, L2, G2)
  BY <1>1, <1>3 DEF Counting
<1> QED
  BY <1>4 DEF Lists

LEMMA ListsAppend ==
    ASSUME NEW P \in Seq(Conns), NEW s, NEW L, NEW G, Lists(P, s, L, G),
           NEW c \in Conns, L[c] \in Loads, G[c] \in BOOLEAN
    PROVE  Lists(Append(P, c), IF G[c] THEN Append(s, L[c]) ELSE s, L, G)
<1> DEFINE t == IF G[c] THEN Append(s, L[c]) ELSE s
           Q == Append(P, c)
           n == Len(P)
<1>1. PICK k : Counting(k, P, s, L, G)
  BY DEF Lists
<1>2. s \in Seq(Loads) /\ Len(s) \in Nat /\ n \in Nat
  BY DEF Lists
<1>3. /\ t \in Seq(Loads) /\ Len(t) \in Nat
      /\ \A i \in 1 .. Len(s) : t[i] = s[i]
      /\ G[c] => Len(t) = Len(s) + 1 /\ t[Len(s) + 1] = L[c]
      /\ ~G[c] => Len(t) = Len(s)
  <2>1. CASE G[c]
    <3>1. t = Append(s, L[c])
      BY <2>1
    <3> QED
      BY <1>2, <2>1, <3>1
  <2>2. CASE ~G[c]
    BY <1>2, <2>2
  <2> QED
    BY <2>1, <2>2
<1>4. Len(Q) = n + 1 /\ Q[n + 1] = c /\ \A i \in 1 .. n : Q[i] = P[i]
  OBVIOUS
<1> DEFINE h == [i \in 0 .. n + 1 |-> IF i = n + 1 THEN Len(t) ELSE k[i]]
<1> HIDE DEF t, Q, n
<1>5. /\ k \in [0 .. n -> 0 .. Len(s)] /\ k[0] = 0 /\ k[n] = Len(s)
      /\ \A i, j \in 0 .. n : i <= j => k[i] <= k[j]
      /\ \A i \in 1 .. n :
            /\ G[P[i]] => k[i] = k[i - 1] + 1 /\ s[k[i]] = L[P[i]]
            /\ ~G[P[i]] => k[i] = k[i - 1]
  BY <1>1 DEF Counting, n
<1>6. Len(s) <= Len(t)
  BY <1>2, <1>3
<1>7. h[n + 1] = Len(t) /\ \A i \in 0 .. n : h[i] = k[i]
  BY <1>2
<1>8. h \in [0 .. n + 1 -> 0 .. Len(t)]
  <2>1. ASSUME NEW i \in 0 .. n + 1 PROVE h[i] \in 0 .. Len(t)
    <3> HIDE DEF h
    <3>1. CASE i = n + 1
      <4>1. h[i] = Len(t) /\ Len(t) \in Nat
        BY <1>3, <1>7, <3>1
      <4> QED
        BY <4>1
    <3>2. CASE i # n + 1
      <4>1. i \in 0 .. n
        BY <1>2, <3>2
      <4>2. k[i] \in 0 .. Len(s) /\ h[i] = k[i]
        BY <1>5, <1>7, <4>1
      <4>3. Len(s) \in Nat /\ Len(t) \in Nat /\ Len(s) <= Len(t)
        BY <1>2, <1>3, <1>6
      <4>4. k[i] \in 0 .. Len(t)
        BY <4>2, <4>3
      <4> QED
        BY <4>2, <4>4
    <3> QED
      BY <3>1, <3>2
  <2> QED
    BY <2>1
<1> HIDE DEF h
<1>9. h[0] = 0
  BY <1>2, <1>5, <1>7
<1>10. ASSUME NEW i \in 0 .. n + 1, NEW j \in 0 .. n + 1, i <= j
       PROVE  h[i] <= h[j]
  <2>1. CASE j = n + 1
    <3>1. h[i] \in 0 .. Len(t) /\ h[j] = Len(t)
      BY <1>7, <1>8, <2>1
    <3> QED
      BY <1>3, <3>1
  <2>2. CASE j # n + 1
    <3>1. i \in 0 .. n /\ j \in 0 .. n
      BY <1>2, <1>10, <2>2
    <3> QED
      BY <1>5, <1>7, <1>10, <3>1
  <2> QED
    BY <2>1, <2>2
<1>11. ASSUME NEW i \in 1 .. n + 1
       PROVE  /\ G[Q[i]] => h[i] = h[i - 1] + 1 /\ t[h[i]] = L[Q[i]]
              /\ ~G[Q[i]] => h[i] = h[i - 1]
  <2>1. CASE i = n + 1
    <3>1. Q[i] = c /\ h[i] = Len(t) /\ h[i - 1] = Len(s)
      <4>1. i - 1 = n /\ n \in 0 .. n
        BY <1>2, <2>1
      <4> QED
        BY <1>4, <1>5, <1>7, <2>1, <4>1
    <3> QED
      BY <1>3, <3>1
  <2>2. CASE i # n + 1
    <3>1. i \in 1 .. n /\ i \in 0 .. n /\ i - 1 \in 0 .. n
      BY <1>2, <2>2
    <3>2. Q[i] = P[i] /\ h[i] = k[i] /\ h[i - 1] = k[i - 1]
      BY <1>4, <1>7, <3>1
    <3>3. ASSUME G[P[i]] PROVE t[k[i]] = L[P[i]]
      <4>1. k[i] = k[i - 1] + 1 /\ s[k[i]] = L[P[i]] /\ k[i] \in 0 .. Len(s)
            /\ k[i - 1] \in 0 .. Len(s)
        BY <1>5, <3>1, <3>3
      <4>2. k[i] \in 1 .. Len(s)
        BY <1>2, <4>1
      <4> QED
        BY <1>3, <4>1, <4>2
    <3> QED
      BY <1>5, <3>1, <3>2, <3>3
  <2> QED
    BY <2>1, <2>2
<1>12. Counting(h, Q, t, L, G)
  BY <1>4, <1>7, <1>8, <1>9, <1>10, <1>11 DEF Counting
<1>13. Lists(Q, t, L, G)
  BY <1>3, <1>12 DEF Lists
<1> QED
  BY <1>13 DEF Q, t

LEMMA ListsTail ==
    ASSUME NEW P \in Seq(Conns), P # <<>>, NEW s, NEW L, NEW G, Lists(P, s, L, G)
    PROVE  /\ G[Head(P)] => /\ s # <<>> /\ Head(s) = L[Head(P)]
                            /\ Lists(Tail(P), Tail(s), L, G)
           /\ ~G[Head(P)] => Lists(Tail(P), s, L, G)
<1> DEFINE n == Len(P)
           Q == Tail(P)
<1>1. PICK k : Counting(k, P, s, L, G)
  BY DEF Lists
<1>2. s \in Seq(Loads) /\ Len(s) \in Nat /\ n \in Nat /\ n >= 1
  BY DEF Lists
<1>3. Head(P) = P[1] /\ Len(Q) = n - 1 /\ \A i \in 1 .. n - 1 : Q[i] = P[i + 1]
  OBVIOUS
<1> HIDE DEF n, Q
<1>4. /\ k \in [0 .. n -> 0 .. Len(s)] /\ k[0] = 0 /\ k[n] = Len(s)
      /\ \A i, j \in 0 .. n : i <= j => k[i] <= k[j]
      /\ \A i \in 1 .. n :
            /\ G[P[i]] => k[i] = k[i - 1] + 1 /\ s[k[i]] = L[P[i]]
            /\ ~G[P[i]] => k[i] = k[i - 1]
  BY <1>1 DEF Counting, n
<1>5. /\ 1 \in 1 .. n /\ 1 \in 0 .. n /\ 1 - 1 = 0
      /\ G[P[1]] => k[1] = 1 /\ s[1] = L[P[1]]
      /\ ~G[P[1]] => k[1] = 0
  <2>1. 1 \in 1 .. n /\ 1 \in 0 .. n /\ 1 - 1 = 0
    BY <1>2
  <2>2. /\ G[P[1]] => k[1] = k[1 - 1] + 1 /\ s[k[1]] = L[P[1]]
        /\ ~G[P[1]] => k[1] = k[1 - 1]
    BY <1>4, <2>1
  <2> QED
    BY <1>4, <2>1, <2>2
<1> DEFINE h == [i \in 0 .. n - 1 |-> k[i + 1] - k[1]]
<1>6. ASSUME NEW i \in 0 .. n - 1
      PROVE  /\ i + 1 \in 0 .. n /\ i + 1 \in 1 .. n
             /\ h[i] = k[i + 1] - k[1] /\ h[i] \in 0 .. Len(s) - k[1]
  <2>1. i + 1 \in 0 .. n /\ i + 1 \in 1 .. n /\ 1 <= i + 1
    BY <1>2
  <2>2. k[i + 1] \in 0 .. Len(s) /\ k[1] \in 0 .. Len(s) /\ k[1] <= k[i + 1]
    BY <1>4, <1>5, <2>1
  <2> QED
    BY <1>2, <2>1, <2>2
<1>7. h \in [0 .. n - 1 -> 0 .. Len(s) - k[1]]
  BY <1>6
<1> HIDE DEF h
<1>8. h[0] = 0 /\ h[n - 1] = Len(s) - k[1]
  <2>1. 0 \in 0 .. n - 1 /\ n - 1 \in 0 .. n - 1 /\ 0 + 1 = 1 /\ (n - 1) + 1 = n
    BY <1>2
  <2>2. h[0] = k[1] - k[1] /\ h[n - 1] = k[n] - k[1] /\ k[1] \in 0 .. Len(s)
    BY <1>4, <1>5, <1>6, <2>1
  <2> QED
    BY <1>2, <1>4, <2>2
<1>9. ASSUME NEW i \in 0 .. n - 1, NEW j \in 0 .. n - 1, i <= j
      PROVE  h[i] <= h[j]
  <2>1. k[i + 1] <= k[j + 1]
    <3>1. i + 1 <= j + 1
      BY <1>2, <1>9
    <3> QED
      BY <1>4, <1>6, <3>1
  <2>2. k[i + 1] \in 0 .. Len(s) /\ k[j + 1] \in 0 .. Len(s) /\ k[1] \in 0 .. Len(s)
    BY <1>4, <1>5, <1>6
  <2> QED
    BY <1>2, <1>6, <2>1, <2>2
<1>10. ASSUME NEW i \in 1 .. n - 1
       PROVE  /\ i \in 0 .. n - 1 /\ i - 1 \in 0 .. n - 1 /\ i + 1 \in 1 .. n /\ i \in 0 .. n
              /\ Q[i] = P[i + 1]
              /\ h[i] = k[i + 1] - k[1] /\ h[i - 1] = k[i] - k[1]
              /\ k[i] \in 0 .. Len(s) /\ k[i + 1] \in 0 .. Len(s) /\ k[1] \in 0 .. Len(s)
              /\ k[1] <= k[i]
              /\ G[Q[i]] => k[i + 1] = k[i] + 1 /\ s[k[i + 1]] = L[Q[i]]
              /\ ~G[Q[i]] => k[i + 1] = k[i]
  <2>1. /\ i \in 0 .. n - 1 /\ i - 1 \in 0 .. n - 1 /\ i + 1 \in 1 .. n /\ i \in 0 .. n
        /\ (i - 1) + 1 = i /\ (i + 1) - 1 = i /\ i + 1 \in 0 .. n /\ 1 <= i
    BY <1>2
  <2>2. Q[i] = P[i + 1]
    BY <1>3
  <2>3. h[i] = k[i + 1] - k[1] /\ h[i - 1] = k[i] - k[1]
    BY <1>6, <2>1
  <2>4. /\ k[i] \in 0 .. Len(s) /\ k[i + 1] \in 0 .. Len(s) /\ k[1] \in 0 .. Len(s)
        /\ k[1] <= k[i]
    BY <1>4, <1>5, <2>1
  <2>5. /\ G[P[i + 1]] => k[i + 1] = k[(i + 1) - 1] + 1 /\ s[k[i + 1]] = L[P[i + 1]]
        /\ ~G[P[i + 1]] => k[i + 1] = k[(i + 1) - 1]
    BY <1>4, <2>1
  <2> QED
    BY <2>1, <2>2, <2>3, <2>4, <2>5
<1>11. ASSUME G[P[1]]
       PROVE  s # <<>> /\ Head(s) = L[P[1]] /\ Lists(Q, Tail(s), L, G)
  <2>1. k[1] = 1 /\ s[1] = L[P[1]] /\ Len(s) >= 1
    BY <1>2, <1>4, <1>5, <1>11
  <2> DEFINE t == Tail(s)
  <2>2. /\ s # <<>> /\ Head(s) = s[1] /\ t \in Seq(Loads) /\ Len(t) = Len(s) - 1
        /\ \A i \in 1 .. Len(s) - 1 : t[i] = s[i + 1]
    BY <1>2, <2>1
  <2> HIDE DEF t
  <2>3. ASSUME NEW i \in 1 .. n - 1
        PROVE  /\ G[Q[i]] => h[i] = h[i - 1] + 1 /\ t[h[i]] = L[Q[i]]
               /\ ~G[Q[i]] => h[i] = h[i - 1]
    <3>1. CASE G[Q[i]]
      <4>1. k[i + 1] = k[i] + 1 /\ s[k[i + 1]] = L[Q[i]] /\ h[i] = k[i + 1] - 1
            /\ h[i - 1] = k[i] - 1 /\ 1 <= k[i] /\ k[i + 1] \in 0 .. Len(s)
            /\ k[i] \in 0 .. Len(s)
        BY <1>10, <2>1, <3>1
      <4>2. h[i] \in 1 .. Len(s) - 1 /\ h[i] + 1 = k[i + 1] /\ h[i] = h[i - 1] + 1
        BY <1>2, <4>1
      <4> QED
        BY <2>2, <3>1, <4>1, <4>2
    <3>2. CASE ~G[Q[i]]
      BY <1>10, <3>2
    <3> QED
      BY <3>1, <3>2
  <2>4. Counting(h, Q, t, L, G)
    <3>1. h \in [0 .. Len(Q) -> 0 .. Len(t)] /\ h[0] = 0 /\ h[Len(Q)] = Len(t)
      BY <1>3, <1>7, <1>8, <2>1, <2>2
    <3> QED
      BY <1>3, <1>9, <2>3, <3>1 DEF Counting
  <2> QED
    BY <2>1, <2>2, <2>4 DEF Lists, t
<1>12. ASSUME ~G[P[1]] PROVE Lists(Q, s, L, G)
  <2>1. k[1] = 0
    BY <1>5, <1>12
  <2>2. Len(s) - k[1] = Len(s)
    BY <1>2, <2>1
  <2>3. ASSUME NEW i \in 1 .. n - 1
        PROVE  /\ G[Q[i]] => h[i] = h[i - 1] + 1 /\ s[h[i]] = L[Q[i]]
               /\ ~G[Q[i]] => h[i] = h[i - 1]
    <3>1. h[i] = k[i + 1] /\ h[i - 1] = k[i]
      BY <1>10, <2>1
    <3> QED
      BY <1>10, <3>1
  <2>4. Counting(h, Q, s, L, G)
    <3>1. h \in [0 .. Len(Q) -> 0 .. Len(s)] /\ h[0] = 0 /\ h[Len(Q)] = Len(s)
      BY <1>3, <1>7, <1>8, <2>2
    <3> QED
      BY <1>3, <1>9, <2>3, <3>1 DEF Counting
  <2> QED
    BY <1>2, <2>4 DEF Lists
<1> QED
  BY <1>3, <1>11, <1>12 DEF Q

\* Facts on \o.
LEMMA ConsTail ==
    ASSUME NEW S, NEW q \in Seq(S), q # <<>>
    PROVE  <<Head(q)>> \o Tail(q) = q
OBVIOUS

LEMMA TailCons ==
    ASSUME NEW S, NEW q \in Seq(S), NEW x \in S
    PROVE  /\ <<x>> \o q \in Seq(S) /\ <<x>> \o q # <<>>
           /\ Head(<<x>> \o q) = x /\ Tail(<<x>> \o q) = q
OBVIOUS

LEMMA AppendConcat ==
    ASSUME NEW S, NEW p \in Seq(S), NEW q \in Seq(S), NEW x \in S
    PROVE  p \o Append(q, x) = Append(p \o q, x)
OBVIOUS

LEMMA ConcatShift ==
    ASSUME NEW S, NEW p \in Seq(S), NEW q \in Seq(S), q # <<>>
    PROVE  Append(p, Head(q)) \o Tail(q) = p \o q
OBVIOUS

LEMMA ConcatNone ==
    ASSUME NEW S, NEW p \in Seq(S)
    PROVE  p \o <<>> = p /\ <<>> \in Seq(S)
OBVIOUS

LEMMA PrefixOfConcat ==
    ASSUME NEW S, NEW p \in Seq(S), NEW q \in Seq(S)
    PROVE  IsPrefix(p, p \o q)
<1>1. Len(p) \in Nat /\ Len(q) \in Nat /\ Len(p \o q) = Len(p) + Len(q)
  OBVIOUS
<1>2. SubSeq(p, 1, Len(p)) = SubSeq(p \o q, 1, Len(p))
  OBVIOUS
<1> QED
  BY <1>1, <1>2 DEF IsPrefix

\* The loads that were not reported yet are those given of Unreported.
Gives == [c \in Conns |-> Given(load[c])]
Unreported == IF reporting[1] = "report" THEN <<reporting[2]>> \o Contents(userConns)
           ELSE Contents(userConns)
OrderInv ==
    /\ ~threaded => Contents(userConns) = <<>> /\ reporting[1] = "get"
    /\ reported \in Seq(Loads)
    /\ \E s : Lists(Unreported, s, load, Gives) /\ ended = reported \o s

LEMMA OrderStart ==
    ASSUME NEW M, NEW T, InitOutput(M, T)
    PROVE  OrderInv
<1>1. userConns = ConstantRing(NbConn) /\ reporting = <<"get", Unset>>
      /\ ended = <<>> /\ reported = <<>>
  BY DEF InitOutput
<1>2. Contents(userConns) = <<>>
  BY <1>1, KeepsNew
<1>3. Unreported = <<>> /\ reporting[1] = "get"
  BY <1>1, <1>2 DEF Unreported
<1>4. <<>> \in Seq(Loads) /\ <<>> \o <<>> = <<>>
  BY ConcatNone
<1> QED
  BY <1>1, <1>2, <1>3, <1>4, ListsNone DEF OrderInv

LEMMA PendingSeq ==
    ASSUME ConnInv
    PROVE  Unreported \in Seq(Conns) /\ Range(Unreported) \subseteq Held \cup Kept(userConns)
<1>1. /\ Keeps(userConns) /\ ReportingOK
      /\ Contents(userConns) \in Seq(Conns) /\ Range(Contents(userConns)) = Kept(userConns)
  BY KeepsSeq DEF ConnInv, Kept
<1>2. CASE reporting[1] = "report"
  <2>1. Unreported = <<reporting[2]>> \o Contents(userConns) /\ Held = {reporting[2]}
    BY <1>2 DEF Unreported, Held
  <2>2. reporting[2] \in Conns
    BY <1>1, <1>2 DEF ReportingOK
  <2> QED
    BY <1>1, <2>1, <2>2, PrependRange
<1>3. CASE reporting[1] # "report"
  BY <1>1, <1>3 DEF Unreported
<1> QED
  BY <1>2, <1>3

LEMMA GivesNext ==
    ASSUME UNCHANGED optVars
    PROVE  Gives' = [c \in Conns |-> Given(load'[c])]
BY DEF optVars, Gives, Given

\* The load of a connection that is not pending changes.
LEMMA OrderElsewhere ==
    ASSUME ConnInv, NEW c \in Conns, c \notin Held \cup Kept(userConns),
           NEW s, Lists(Unreported, s, load, Gives),
           UNCHANGED optVars, \A d \in Conns : d # c => load'[d] = load[d]
    PROVE  Lists(Unreported, s, load', Gives')
<1>1. Unreported \in Seq(Conns) /\ Range(Unreported) \subseteq Held \cup Kept(userConns)
  BY PendingSeq
<1>2. ASSUME NEW d \in Range(Unreported)
      PROVE  load'[d] = load[d] /\ Gives'[d] = Gives[d]
  <2>1. d \in Conns /\ d # c
    BY <1>1 DEF Range
  <2>2. load'[d] = load[d]
    BY <2>1
  <2>3. Gives'[d] = Given(load'[d]) /\ Gives[d] = Given(load[d])
    BY <2>1, GivesNext DEF Gives
  <2> QED
    BY <2>2, <2>3
<1> QED
  BY <1>1, <1>2, ListsSame

LEMMA OrderFetch == ConnInv /\ OrderInv /\ Fetch => OrderInv'
<1> SUFFICES ASSUME ConnInv, OrderInv, Fetch PROVE OrderInv'
  OBVIOUS
<1> DEFINE c == First(freeConns)
<1>1. /\ userConns' = userConns /\ reporting' = reporting /\ UNCHANGED optVars
      /\ ended' = ended /\ reported' = reported /\ ~IsEmpty(freeConns)
      /\ \/ load' = [load EXCEPT ![c] = [page |-> started', err |-> "success",
                                         interesting |-> FALSE]]
         \/ load' = load
  BY DEF Fetch
<1>2. c \in Kept(freeConns) /\ load \in [Conns -> Loads]
  BY <1>1, KeepsGot DEF ConnInv
<1> HIDE DEF c
<1>3. c \in Conns /\ c \notin Held \cup Kept(userConns)
  BY <1>2 DEF ConnInv, Parted
<1>4. \A d \in Conns : d # c => load'[d] = load[d]
  BY <1>1, <1>2
<1>5. PICK s : Lists(Unreported, s, load, Gives) /\ ended = reported \o s
  BY DEF OrderInv
<1>6. Lists(Unreported, s, load', Gives')
  BY <1>1, <1>3, <1>4, <1>5, OrderElsewhere
<1>7. Unreported' = Unreported /\ threaded' = threaded
  BY <1>1 DEF Unreported, optVars
<1> QED
  BY <1>1, <1>5, <1>6, <1>7 DEF OrderInv

LEMMA OrderEnd ==
    ASSUME ConnInv, OrderInv, NEW c \in Conns, EndOfFile(c)
    PROVE  OrderInv'
<1>1. /\ c \in crawling /\ reporting' = reporting /\ UNCHANGED optVars
      /\ ended' = IF Given(load'[c]) THEN Append(ended, load'[c]) ELSE ended
      /\ threaded' = threaded
  BY DEF EndOfFile, optVars
<1>2. /\ Keeps(userConns) /\ load \in [Conns -> Loads] /\ Contents(userConns) \in Seq(Conns)
      /\ c \notin Kept(userConns) /\ c \notin Held
  BY <1>1, KeepsSeq DEF ConnInv, Parted
<1>3. PICK e \in {"success", "timeout"}, i \in BOOLEAN :
         load' = [load EXCEPT ![c].err = e, ![c].interesting = i]
  BY DEF EndOfFile
<1>4. load' \in [Conns -> Loads] /\ \A d \in Conns : d # c => load'[d] = load[d]
  BY <1>2, <1>3, LoadEnds
<1>5. PICK s : Lists(Unreported, s, load, Gives) /\ ended = reported \o s
  BY DEF OrderInv
<1>6. Lists(Unreported, s, load', Gives')
  BY <1>1, <1>2, <1>4, <1>5, OrderElsewhere
<1>7. load'[c] \in Loads /\ Gives'[c] = Given(load'[c]) /\ Gives'[c] \in BOOLEAN
  <2>1. Gives'[c] = Given(load'[c])
    BY <1>1, GivesNext
  <2>2. Given(load'[c]) \in BOOLEAN
    BY DEF Given
  <2> QED
    BY <1>4, <2>1, <2>2
<1>8. Unreported \in Seq(Conns) /\ reported \in Seq(Loads) /\ s \in Seq(Loads)
  BY <1>5, PendingSeq DEF OrderInv, Lists
<1>9. CASE threaded
  <2>1. userConns' = Put(userConns, c) /\ reported' = reported
    BY <1>9 DEF EndOfFile, GiveToThread
  <2>2. Contents(userConns') = Append(Contents(userConns), c)
    BY <1>2, <2>1, KeepsPut
  <2>3. Unreported' = Append(Unreported, c)
    <3>1. CASE reporting[1] = "report"
      <4>1. reporting[2] \in Conns
        BY <3>1 DEF ConnInv, ReportingOK
      <4>2. <<reporting[2]>> \in Seq(Conns)
        BY <4>1
      <4>3. <<reporting[2]>> \o Append(Contents(userConns), c)
              = Append(<<reporting[2]>> \o Contents(userConns), c)
        BY <1>2, <4>2, AppendConcat
      <4> QED
        BY <1>1, <2>2, <3>1, <4>3 DEF Unreported
    <3>2. CASE reporting[1] # "report"
      BY <1>1, <2>2, <3>2 DEF Unreported
    <3> QED
      BY <3>1, <3>2
  <2> DEFINE t == IF Gives'[c] THEN Append(s, load'[c]) ELSE s
  <2>4. Lists(Unreported', t, load', Gives')
    BY <1>6, <1>7, <1>8, <2>3, ListsAppend
  <2>5. ended' = reported' \o t
    <3>1. CASE Gives'[c]
      <4>1. reported \o Append(s, load'[c]) = Append(reported \o s, load'[c])
        BY <1>7, <1>8, AppendConcat
      <4>2. t = Append(s, load'[c])
        BY <3>1
      <4>3. ended' = Append(ended, load'[c])
        BY <1>1, <1>7, <3>1
      <4> QED
        BY ONLY <1>5, <2>1, <4>1, <4>2, <4>3
    <3>2. CASE ~Gives'[c]
      BY <1>1, <1>5, <1>7, <2>1, <3>2
    <3> QED
      BY <3>1, <3>2
  <2> HIDE DEF t
  <2> QED
    BY <1>1, <1>8, <1>9, <2>1, <2>4, <2>5 DEF OrderInv
<1>10. CASE ~threaded
  <2>1. /\ userConns' = userConns
        /\ reported' = IF Given(load'[c]) THEN Append(reported, load'[c]) ELSE reported
    BY <1>10 DEF EndOfFile, ReportItself, EndOfLoad
  <2>2. Contents(userConns) = <<>> /\ reporting[1] = "get"
    BY <1>10 DEF OrderInv
  <2>3. Unreported = <<>> /\ Unreported' = <<>>
    BY <1>1, <2>1, <2>2 DEF Unreported
  <2>4. s = <<>>
    BY <1>5, <2>3, ListsNone
  <2>5. ended = reported
    BY <1>5, <1>8, <2>4, ConcatNone
  <2>6. ended' = reported' /\ reported' \in Seq(Loads)
    <3>1. CASE Given(load'[c])
      BY <1>1, <1>7, <1>8, <2>1, <2>5, <3>1
    <3>2. CASE ~Given(load'[c])
      BY <1>1, <1>8, <2>1, <2>5, <3>2
    <3> QED
      BY <3>1, <3>2
  <2>7. ended' = reported' \o <<>>
    BY <2>6, ConcatNone
  <2>8. Lists(Unreported', <<>>, load', Gives')
    BY <2>3, ListsNone
  <2> QED
    BY <1>1, <2>1, <2>2, <2>6, <2>7, <2>8 DEF OrderInv
<1> QED
  BY <1>9, <1>10

LEMMA OrderGet == ConnInv /\ OrderInv /\ OutputGet => OrderInv'
<1> SUFFICES ASSUME ConnInv, OrderInv, OutputGet PROVE OrderInv'
  OBVIOUS
<1>1. /\ load' = load /\ UNCHANGED optVars /\ ended' = ended /\ reported' = reported
      /\ reporting[1] = "get" /\ threaded /\ threaded' = threaded
  BY DEF OutputGet, optVars
<1>2. Gives' = Gives
  BY <1>1, GivesNext DEF Gives
<1>3. Unreported = Contents(userConns) /\ Contents(userConns) \in Seq(Conns) /\ Keeps(userConns)
  BY <1>1, KeepsSeq DEF Unreported, ConnInv
<1>4. Unreported' = Unreported
  <2>1. CASE IsEmpty(userConns)
    BY <2>1 DEF OutputGet, Unreported
  <2>2. CASE ~IsEmpty(userConns)
    <3>1. reporting' = <<"report", First(userConns)>> /\ userConns' = Got(userConns)
      BY <2>2 DEF OutputGet
    <3>2. /\ Contents(userConns) # <<>> /\ First(userConns) = Head(Contents(userConns))
          /\ Contents(userConns') = Tail(Contents(userConns))
      BY <1>3, <2>2, <3>1, KeepsGot
    <3>3. Unreported' = <<Head(Contents(userConns))>> \o Tail(Contents(userConns))
      BY <3>1, <3>2 DEF Unreported
    <3> QED
      BY <1>3, <3>2, <3>3, ConsTail
  <2> QED
    BY <2>1, <2>2
<1> QED
  BY <1>1, <1>2, <1>4 DEF OrderInv

LEMMA OrderReport == ConnInv /\ OrderInv /\ OutputReport => OrderInv'
<1> SUFFICES ASSUME ConnInv, OrderInv, OutputReport PROVE OrderInv'
  OBVIOUS
<1> DEFINE c == reporting[2]
           U == Contents(userConns)
<1>1. /\ load' = load /\ UNCHANGED optVars /\ ended' = ended /\ userConns' = userConns
      /\ reporting[1] = "report" /\ reporting' = <<"put", c>> /\ threaded' = threaded
      /\ reported' = IF Given(load[c]) THEN Append(reported, load[c]) ELSE reported
  BY DEF OutputReport, optVars, EndOfLoad
<1>2. Gives' = Gives
  BY <1>1, GivesNext DEF Gives
<1>3. c \in Conns /\ load \in [Conns -> Loads] /\ U \in Seq(Conns)
  BY <1>1, KeepsSeq DEF ConnInv, ReportingOK
<1>4. Unreported = <<c>> \o U /\ Unreported' = U
  BY <1>1 DEF Unreported
<1>5. threaded /\ reported \in Seq(Loads)
  BY <1>1 DEF OrderInv
<1> HIDE DEF c, U
<1>6. PICK s : Lists(Unreported, s, load, Gives) /\ ended = reported \o s
  BY DEF OrderInv
<1>7. Unreported \in Seq(Conns) /\ Unreported # <<>> /\ Head(Unreported) = c /\ Tail(Unreported) = U
  BY <1>3, <1>4, TailCons
<1>8. Gives[c] = Given(load[c]) /\ load[c] \in Loads /\ s \in Seq(Loads)
  BY <1>3, <1>6 DEF Gives, Lists
<1>9. CASE Given(load[c])
  <2>1. s # <<>> /\ Head(s) = load[c] /\ Lists(U, Tail(s), load, Gives)
    BY <1>6, <1>7, <1>8, <1>9, ListsTail
  <2>2. reported' = Append(reported, Head(s)) /\ reported' \in Seq(Loads)
    BY <1>1, <1>5, <1>8, <1>9, <2>1
  <2>3. ended' = reported' \o Tail(s)
    BY <1>1, <1>5, <1>6, <1>8, <2>1, <2>2, ConcatShift
  <2> QED
    BY <1>1, <1>2, <1>4, <1>5, <2>1, <2>2, <2>3 DEF OrderInv
<1>10. CASE ~Given(load[c])
  <2>1. Lists(U, s, load, Gives)
    BY <1>6, <1>7, <1>8, <1>10, ListsTail
  <2>2. reported' = reported
    BY <1>1, <1>10
  <2> QED
    BY <1>1, <1>2, <1>4, <1>5, <1>6, <2>1, <2>2 DEF OrderInv
<1> QED
  BY <1>9, <1>10

LEMMA OrderPut == ConnInv /\ OrderInv /\ OutputPut => OrderInv'
<1> SUFFICES ASSUME ConnInv, OrderInv, OutputPut PROVE OrderInv'
  OBVIOUS
<1>1. /\ load' = load /\ UNCHANGED optVars /\ ended' = ended /\ reported' = reported
      /\ userConns' = userConns /\ threaded' = threaded
      /\ reporting[1] = "put" /\ reporting' = <<"get", Unset>>
  BY DEF OutputPut, optVars
<1>2. Gives' = Gives
  BY <1>1, GivesNext DEF Gives
<1>3. Unreported' = Unreported
  BY <1>1 DEF Unreported
<1> QED
  BY <1>1, <1>2, <1>3 DEF OrderInv

LEMMA OrderStep == ConnInv /\ OrderInv /\ NextOutput => OrderInv'
BY OrderFetch, OrderEnd, OrderGet, OrderReport, OrderPut
   DEF NextOutput, MainLoads, OutputThread

LEMMA OrderGives == OrderInv => InOrder
<1> SUFFICES ASSUME OrderInv PROVE InOrder
  OBVIOUS
<1>1. PICK s : Lists(Unreported, s, load, Gives) /\ ended = reported \o s
  BY DEF OrderInv
<1>2. s \in Seq(Loads) /\ reported \in Seq(Loads)
  BY <1>1 DEF Lists, OrderInv
<1>3. IsPrefix(reported, ended)
  BY <1>1, <1>2, PrefixOfConcat
<1>4. ASSUME ~threaded PROVE reported = ended
  <2>1. Unreported = <<>>
    BY <1>4 DEF OrderInv, Unreported
  <2>2. s = <<>>
    BY <1>1, <2>1, ListsNone
  <2> QED
    BY <1>1, <1>2, <2>2, ConcatNone
<1> QED
  BY <1>3, <1>4 DEF InOrder
-----------------------------------------------------------------------------
\* A behaviour of Services is one of its service.
RingsInv ==
    /\ service = "fifo" => FifoInv
    /\ service = "output" => ConnInv /\ OrderInv

LEMMA RingsInitially == Init => RingsInv
<1> SUFFICES ASSUME Init PROVE RingsInv
  OBVIOUS
<1>1. FifoInv
  BY FifoStart DEF Init
<1>2. InitOutput(OfService("output", Builds), OfService("output", Todos))
  BY DEF Init
<1>3. ConnInv /\ OrderInv
  BY <1>2, ConnsStart, OrderStart
<1> QED
  BY <1>1, <1>3 DEF RingsInv

LEMMA RingsNext == RingsInv /\ [Next]_vars => RingsInv'
<1> SUFFICES ASSUME RingsInv, [Next]_vars PROVE RingsInv'
  OBVIOUS
<1>1. CASE FifoStep
  BY <1>1, FifoMoves DEF FifoStep, RingsInv
<1>2. CASE OutputStep(NextOutput)
  BY <1>2, ConnsStep, OrderStep DEF OutputStep, RingsInv
<1>3. ASSUME UNCHANGED service, service \in {"fifo", "output"} => UNCHANGED <<fifoVars, outputVars>>
      PROVE  RingsInv'
  <2>1. CASE service = "fifo"
    <3>1. UNCHANGED fifoVars
      BY <1>3, <2>1
    <3>2. FifoInv'
      BY <2>1, <3>1 DEF RingsInv, FifoInv, fifoVars
    <3> QED
      BY <1>3, <2>1, <3>2 DEF RingsInv
  <2>2. CASE service = "output"
    <3>1. UNCHANGED outputVars
      BY <1>3, <2>2
    <3>2. /\ UNCHANGED <<freeConns, userConns, crawling, load, reporting, started, threaded,
                         ended, reported, specificSearch, todo>>
          /\ UNCHANGED optVars
      BY <3>1 DEF outputVars, connVars, optVars
    <3>3. Gives' = Gives
      BY <3>2, GivesNext DEF Gives
    <3>4. Unreported' = Unreported /\ Held' = Held /\ ReportingOK' = ReportingOK
      BY <3>2 DEF Unreported, Held, ReportingOK
    <3>5. ConnInv'
      BY <2>2, <3>2, <3>4 DEF RingsInv, ConnInv
    <3>6. OrderInv'
      BY <2>2, <3>2, <3>3, <3>4 DEF RingsInv, OrderInv
    <3> QED
      BY <1>3, <2>2, <3>5, <3>6 DEF RingsInv
  <2>3. CASE service \notin {"fifo", "output"}
    BY <1>3, <2>3 DEF RingsInv
  <2> QED
    BY <2>1, <2>2, <2>3
<1>4. CASE \/ SpecificStep \/ HistogramStep \/ ClientsStep(NextClients)
           \/ WebStep \/ OptionsStep
  BY <1>3, <1>4 DEF SpecificStep, HistogramStep, ClientsStep, WebStep, OptionsStep
<1>5. CASE UNCHANGED vars
  BY <1>3, <1>5 DEF vars
<1> QED
  BY <1>1, <1>2, <1>4, <1>5 DEF Next

\* The rings in memory are queues for every size, and the connections come
\* through theirs in order, each in one place (fifo.h, constant_fifo.h,
\* io/output.cxx).
THEOREM RingsKept == Spec => []RingsRight
<1>1. RingsInv => RingsRight
  BY FifoGives, ConnsGive, OrderGives DEF RingsInv, RingsRight
<1> QED
  BY <1>1, RingsInitially, RingsNext, PTL DEF Spec
===============================================================================
