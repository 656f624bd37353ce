------------------------------- MODULE Rings -------------------------------
(***************************************************************************)
(* The queues of pointers in memory, one operator per method: Fifo         *)
(* (utils/fifo.h) and SyncFifo (utils/sync_fifo.h), which double when they *)
(* are full, and ConstantSizedFifo (utils/constant_fifo.h), which has one  *)
(* slot more than it may hold. A slot that was never written is Unset.     *)
(***************************************************************************)
EXTENDS Integers, Sequences

CONSTANT Unset

Ring(size) == [in |-> 0, out |-> 0, size |-> size,
               tab |-> [i \in 0 .. size - 1 |-> Unset]]
ConstantRing(size) == Ring(size + 1)

IsEmpty(r) == r.in = r.out
GetLength(r) == (r.in + r.size - r.out) % r.size
First(r) == r.tab[r.out]                        \* read, and what get returns
Got(r) == [r EXCEPT !.out = (@ + 1) % r.size]
Stored(r, x) == [r EXCEPT !.tab[r.in] = x, !.in = (@ + 1) % r.size]
RePut(r, x) ==
    LET out == (r.out + r.size - 1) % r.size
    IN [r EXCEPT !.out = out, !.tab[out] = x]

\* (of Moved) the wrapped elements stay where they were
MovedInPlace(r) ==
    [i \in 0 .. 2 * r.size - 1 |-> IF i < r.size THEN r.tab[i] ELSE Unset]

\* The table of twice the size: the elements that had wrapped round, below
\* r.in, go behind the others.
Moved(r) ==
    [i \in 0 .. 2 * r.size - 1 |->
        CASE i \in r.out .. r.size - 1 -> r.tab[i]
          [] i \in r.size .. r.size + r.in - 1 -> r.tab[i - r.size]
          [] OTHER -> Unset]

Doubled(r) == [in |-> r.in + r.size, out |-> r.out, size |-> 2 * r.size, tab |-> Moved(r)]
\* in = out now means full
Put(r, x) == IF IsEmpty(Stored(r, x)) THEN Doubled(Stored(r, x)) ELSE Stored(r, x)

Contents(r) == [i \in 1 .. GetLength(r) |-> r.tab[(r.out + i - 1) % r.size]]
=============================================================================
