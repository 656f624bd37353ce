----------------------------- MODULE DiskProofs -----------------------------
(***************************************************************************)
(* The queues on disk and the table of seen urls (DiskFifo, DiskQueue and  *)
(* Resume), for any urls, any size of a file and any bound.                *)
(***************************************************************************)
EXTENDS Resume, QueueLemmas, SequenceTheorems

(***************************************************************************)
(* The invariant of the files and the counters.  Every file between the    *)
(* one that is read and the one that is written is full; the file that is  *)
(* written and its buffer together hold what the counter `in` says; `out`  *)
(* is the place of reading in the first file.  What is said of the first   *)
(* file needs that no other queue leads the reload to a wrong first or     *)
(* last file.                                                              *)
(***************************************************************************)
FileOf(d, k) == IF k \in DOMAIN d THEN d[k] ELSE <<>>
IsFiles(d, S) == \A k \in DOMAIN d : k \in Nat /\ d[k] \in Seq(S)
FullFiles(d, a, b) == \A k \in a .. b : Len(FileOf(d, k)) = UrlByFile

\* The steps of the program that runs.
Running == step \in {"run", "full", "flushed", "rename", "creat", "write",
                     "unlink", "consumed", "spinning"}

\* The constructor of q is over.
Open(q) == Running \/ (step = "loading" /\ q \notin ToSet(todo))

\* The file q writes is full, the file q reads was read to its end.
Filled(q) == step \in {"full", "flushed"} /\ todo = <<q>>
AllRead(q) == step = "consumed" /\ todo = <<q>>

StepsRight ==
    step \in {"full", "flushed", "consumed"} => \E q \in Queues : todo = <<q>>

QueueRight(q) ==
    /\ DOMAIN dir[q] \subseteq 0 .. MaxFile + 1
    /\ Filled(q) => fin[q] <= MaxFile
    /\ Filled(q) /\ step = "flushed" => outbuf[q] = <<>>
    /\ step = "loading" =>
          out[q] = 0 /\ rpos[q] = 0 /\ outbuf[q] = <<>> /\ buf[q] = <<>>

\* The counters i and o of a queue that reads file a, writes file b and has
\* put w urls into b.
CountOk(i, a, b, w, o) ==
    a <= b /\ i = (b - a) * UrlByFile + w /\ w <= UrlByFile /\ o <= i /\ o <= UrlByFile

WriteRight(q) ==
    Open(q) =>
      /\ fin[q] \in DOMAIN dir[q]
      /\ CountOk(in[q], fout[q], fin[q], Len(dir[q][fin[q]]) + Len(outbuf[q]), out[q])
      /\ Len(dir[q][fin[q]]) + Len(outbuf[q]) = UrlByFile <=> Filled(q)
      /\ out[q] = UrlByFile <=> AllRead(q)
      /\ opened[q] => fout[q] \in DOMAIN dir[q]
      /\ step = "loading" => dir[q][fin[q]] = <<>>

\* The files are a .. b, and all but the last are full.
FilesFrom(d, a, b) ==
    a \in Nat /\ b \in Nat /\ a <= b /\ DOMAIN d = a .. b /\ FullFiles(d, a, b - 1)

\* s was read ahead of the place o of f, and the file is read up to r.
ReadPart(f, o, r, s) == r = o + Len(s) /\ r <= Len(f) /\ s = SubSeq(f, o + 1, r)
ReadOk(d, a, b, o, r, s) == FilesFrom(d, a, b) /\ ReadPart(d[a], o, r, s)

ReadRight(q) ==
    Open(q) => opened[q] /\ ReadOk(dir[q], fout[q], fin[q], out[q], rpos[q], buf[q])

DirOk(d) == \E a, b \in Nat : FilesFrom(d, a, b)

DiskInv ==
    /\ TypeOK /\ StepsRight
    /\ \A q \in Queues :
          QueueRight(q) /\ WriteRight(q) /\ (Alone(q) => ReadRight(q) /\ DirOk(dir[q]))
-----------------------------------------------------------------------------
\* The counters come to a multiple of UrlByFile exactly at the end of a file.
LEMMA ModU ==
    ASSUME NEW n \in Nat, NEW w \in 1 .. UrlByFile
    PROVE  (n * UrlByFile + w) % UrlByFile = 0 <=> w = UrlByFile
<1> DEFINE U == UrlByFile
           m == n * U
           x == m + w
           y == x \div U
<1>1. U \in Nat \ {0} /\ m \in Nat /\ x \in Nat /\ w \in 1 .. U
  BY FilesAssumption
<1>2. x = U * y + (x % U) /\ x % U \in 0 .. U - 1 /\ y \in Int
  <2> HIDE DEF U, x
  <2> QED
    BY <1>1
<1>3. U * y = y * U /\ y * U - m = (y - n) * U /\ (n + 1 - y) * U = m + U - y * U
      /\ y - n \in Int /\ n + 1 - y \in Int
  <2> HIDE DEF U, x, y
  <2> QED
    BY <1>1, <1>2
<1>4. \A k \in Int : k * U > 0 /\ k * U <= U => k = 1
  <2> SUFFICES ASSUME NEW k \in Int, k * U > 0, k * U <= U PROVE k = 1
    OBVIOUS
  <2> HIDE DEF U
  <2>1. CASE k <= 0
    <3>1. k * U <= 0
      BY <1>1, <2>1
    <3> QED
      BY <1>1, <3>1
  <2>2. CASE k >= 2
    <3>1. k * U >= 2 * U
      BY <1>1, <2>2
    <3> QED
      BY <1>1, <3>1
  <2> QED
    BY <2>1, <2>2
<1>5. \A k \in Int : k * U >= 0 /\ k * U < U => k * U = 0
  <2> SUFFICES ASSUME NEW k \in Int, k * U > 0, k * U <= U PROVE k * U = U
    <3> HIDE DEF U
    <3> QED
      BY <1>1
  <2>1. k = 1
    BY <1>4
  <2> QED
    BY <1>1, <2>1
<1>6. ASSUME x % U = 0 PROVE w = U
  <2>1. (y - n) * U = w
    <3> HIDE DEF U, y, m
    <3> QED
      BY <1>1, <1>2, <1>3, <1>6
  <2>2. y - n = 1
    BY <1>1, <1>3, <1>4, <2>1
  <2> QED
    BY <1>1, <2>1, <2>2
<1>7. ASSUME w = U PROVE x % U = 0
  <2>1. (n + 1 - y) * U = x % U
    <3> HIDE DEF U, y, m
    <3> QED
      BY <1>1, <1>2, <1>3, <1>7
  <2>2. (n + 1 - y) * U = 0
    <3> HIDE DEF U, y, m, x
    <3> QED
      BY <1>1, <1>2, <1>3, <1>5, <2>1
  <2> QED
    BY <2>1, <2>2
<1> QED
  BY <1>6, <1>7

LEMMA ModO ==
    ASSUME NEW o \in 1 .. UrlByFile
    PROVE  o % UrlByFile = 0 <=> o = UrlByFile
<1>1. 0 * UrlByFile + o = o
  BY FilesAssumption
<1> QED
  BY <1>1, ModU

\* A set of natural numbers with a bound has a greatest and a least element.
LEMMA MaxOf ==
    ASSUME NEW n \in Nat, NEW X \in SUBSET (0 .. n), X # {}
    PROVE  /\ Max(X) \in X /\ \A y \in X : y <= Max(X)
           /\ Min(X) \in X /\ \A y \in X : Min(X) <= y
<1> DEFINE T == {k \in Nat : \/ \A y \in X : y < n - k
                             \/ \E x \in X : \A y \in X : y <= x}
           B == {k \in Nat : \/ \A y \in X : y > k
                             \/ \E x \in X : \A y \in X : x <= y}
<1>0. X \subseteq Nat /\ \A y \in X : y \in Nat /\ 0 <= y /\ y <= n
  OBVIOUS
<1>1. 0 \in T /\ 0 \in B
  <2>1. CASE n \in X
    BY <1>0, <2>1
  <2>2. CASE n \notin X
    BY <1>0, <2>2
  <2>3. 0 \in T
    BY <2>1, <2>2
  <2>4. 0 \in B
    <3>1. CASE 0 \in X
      BY <1>0, <3>1
    <3>2. CASE 0 \notin X
      BY <1>0, <3>2
    <3> QED
      BY <3>1, <3>2
  <2> QED
    BY <2>3, <2>4
<1>2. ASSUME NEW k \in T PROVE k + 1 \in T
  <2>1. CASE \E x \in X : \A y \in X : y <= x
    BY <2>1
  <2>2. CASE \A y \in X : y < n - k
    <3>1. CASE n - (k + 1) \in X
      BY <1>0, <2>2, <3>1
    <3>2. CASE n - (k + 1) \notin X
      BY <1>0, <2>2, <3>2
    <3> QED
      BY <3>1, <3>2
  <2> QED
    BY <2>1, <2>2
<1>3. ASSUME NEW k \in B PROVE k + 1 \in B
  <2>1. CASE \E x \in X : \A y \in X : x <= y
    BY <2>1
  <2>2. CASE \A y \in X : y > k
    <3>1. CASE k + 1 \in X
      BY <1>0, <2>2, <3>1
    <3>2. CASE k + 1 \notin X
      BY <1>0, <2>2, <3>2
    <3> QED
      BY <3>1, <3>2
  <2> QED
    BY <2>1, <2>2
<1>4. T = Nat /\ B = Nat
  <2>1. T \in SUBSET Nat /\ B \in SUBSET Nat
    OBVIOUS
  <2> HIDE DEF T, B
  <2>2. T = Nat
    BY <1>1, <1>2, <2>1, NatInduct
  <2>3. B = Nat
    BY <1>1, <1>3, <2>1, NatInduct
  <2> QED
    BY <2>2, <2>3
<1>5. n + 1 \in T /\ n + 1 \in B
  BY <1>4
<1>6. \E x \in X : \A y \in X : y <= x
  <2>1. PICK z \in X : TRUE
    OBVIOUS
  <2>2. ~(\A y \in X : y < n - (n + 1))
    BY <1>0, <2>1
  <2> QED
    BY <1>5, <2>2
<1>7. \E x \in X : \A y \in X : x <= y
  <2>1. PICK z \in X : TRUE
    OBVIOUS
  <2>2. ~(\A y \in X : y > n + 1)
    BY <1>0, <2>1
  <2> QED
    BY <1>5, <2>2
<1>8. Max(X) \in X /\ \A y \in X : Max(X) >= y
  BY <1>6, <1>0 DEF Max
<1>9. Min(X) \in X /\ \A y \in X : Min(X) <= y
  BY <1>7, <1>0 DEF Min
<1> QED
  BY <1>0, <1>8, <1>9
-----------------------------------------------------------------------------
(***************************************************************************)
(* What a change of the disk does to the files of a queue.                 *)
(***************************************************************************)
Grown(d, e, b, s) ==
    DOMAIN e = DOMAIN d /\ \A k \in DOMAIN d : e[k] = IF k = b THEN d[k] \o s ELSE d[k]
Begun(d, e, b) ==
    DOMAIN e = DOMAIN d \cup {b} /\ \A k \in DOMAIN e : e[k] = IF k = b THEN <<>> ELSE d[k]
Removed(d, e, a) ==
    DOMAIN e = DOMAIN d \ {a} /\ \A k \in DOMAIN e : e[k] = d[k]

DirTypes == DOMAIN dir = Queues /\ \A q \in Queues : IsFiles(dir[q], Urls)
OthersKept(q) == \A r \in Queues \ {q} : dir'[r] = dir[r]

LEMMA FlushDir ==
    ASSUME NEW q \in Queues, DOMAIN dir = Queues, dir' = FlushOut(q)
    PROVE  DOMAIN dir' = Queues /\ OthersKept(q) /\ Grown(dir[q], dir'[q], fin[q], outbuf[q])
BY DEF FlushOut, OthersKept, Grown

LEMMA CreatDir ==
    ASSUME NEW q \in Queues, DOMAIN dir = Queues, NEW n, dir' = Creat(q, n)
    PROVE  DOMAIN dir' = Queues /\ OthersKept(q) /\ Begun(dir[q], dir'[q], n)
BY DEF Creat, OthersKept, Begun

LEMMA RemoveDir ==
    ASSUME NEW q \in Queues, DOMAIN dir = Queues, NEW n,
           dir' = [dir EXCEPT ![q] = [k \in DOMAIN @ \ {n} |-> @[k]]]
    PROVE  DOMAIN dir' = Queues /\ OthersKept(q) /\ Removed(dir[q], dir'[q], n)
BY DEF OthersKept, Removed

LEMMA GrownFiles ==
    ASSUME NEW S, NEW d, NEW e, NEW b, NEW s \in Seq(S), IsFiles(d, S), Grown(d, e, b, s)
    PROVE  IsFiles(e, S)
<1> SUFFICES ASSUME NEW k \in DOMAIN e PROVE k \in Nat /\ e[k] \in Seq(S)
  BY DEF IsFiles
<1>1. k \in DOMAIN d /\ k \in Nat /\ d[k] \in Seq(S)
  BY DEF IsFiles, Grown
<1>2. d[k] \o s \in Seq(S)
  BY <1>1, ConcatProperties
<1>3. e[k] = d[k] \o s \/ e[k] = d[k]
  BY <1>1 DEF Grown
<1> QED
  BY <1>1, <1>2, <1>3

LEMMA BegunFiles ==
    ASSUME NEW S, NEW d, NEW e, NEW b \in Nat, IsFiles(d, S), Begun(d, e, b)
    PROVE  IsFiles(e, S)
<1> SUFFICES ASSUME NEW k \in DOMAIN e PROVE k \in Nat /\ e[k] \in Seq(S)
  BY DEF IsFiles
<1>1. CASE k = b
  BY <1>1, EmptySeq DEF Begun
<1>2. CASE k # b
  <2>1. k \in DOMAIN d /\ e[k] = d[k]
    BY <1>2 DEF Begun
  <2> QED
    BY <2>1 DEF IsFiles
<1> QED
  BY <1>1, <1>2

LEMMA RemovedFiles ==
    ASSUME NEW S, NEW d, NEW e, NEW a, IsFiles(d, S), Removed(d, e, a)
    PROVE  IsFiles(e, S)
BY DEF IsFiles, Removed

LEMMA GrownFrom ==
    ASSUME NEW S, NEW d, NEW e, NEW a, NEW b, NEW s \in Seq(S), IsFiles(d, S),
           FilesFrom(d, a, b), Grown(d, e, b, s)
    PROVE  FilesFrom(e, a, b)
BY DEF FilesFrom, FullFiles, FileOf, Grown

LEMMA BegunFrom ==
    ASSUME NEW d, NEW e, NEW a, NEW b, FilesFrom(d, a, b),
           Len(d[b]) = UrlByFile, Begun(d, e, b + 1)
    PROVE  FilesFrom(e, a, b + 1)
BY DEF FilesFrom, FullFiles, FileOf, Begun

LEMMA AgainFrom ==
    ASSUME NEW d, NEW e, NEW a, NEW b, FilesFrom(d, a, b), Begun(d, e, b)
    PROVE  FilesFrom(e, a, b)
BY DEF FilesFrom, FullFiles, FileOf, Begun

LEMMA RemovedFrom ==
    ASSUME NEW d, NEW e, NEW a, NEW b, FilesFrom(d, a, b), a < b, Removed(d, e, a)
    PROVE  FilesFrom(e, a + 1, b)
BY DEF FilesFrom, FullFiles, FileOf, Removed

\* What was appended to a sequence is not in its first part.
LEMMA SubSeqPrefix ==
    ASSUME NEW S, NEW s \in Seq(S), NEW t \in Seq(S), NEW m \in Nat \ {0},
           NEW n \in Nat, n <= Len(s)
    PROVE  SubSeq(s \o t, m, n) = SubSeq(s, m, n)
<1>1. CASE n < m
  BY <1>1, SubSeqEmpty
<1>2. CASE m <= n
  <2>1. m \in 1 .. Len(s) /\ n \in 1 .. Len(s)
    BY <1>2, LenProperties
  <2> QED
    BY <2>1, SubSeqOfConcat1
<1> QED
  BY <1>1, <1>2

\* What is appended to the file that is written does not disturb its reader.
LEMMA ReadGrown ==
    ASSUME NEW S, NEW d, NEW e, NEW a, NEW b, NEW s \in Seq(S), IsFiles(d, S),
           NEW o \in Nat, NEW r \in Nat, NEW t \in Seq(S),
           ReadOk(d, a, b, o, r, t), Grown(d, e, b, s)
    PROVE  ReadOk(e, a, b, o, r, t)
<1>1. FilesFrom(d, a, b) /\ ReadPart(d[a], o, r, t)
  BY DEF ReadOk
<1>2. FilesFrom(e, a, b)
  BY <1>1, GrownFrom
<1>3. a \in DOMAIN d /\ d[a] \in Seq(S)
  BY <1>1 DEF FilesFrom, IsFiles
<1>4. CASE e[a] = d[a]
  BY <1>1, <1>2, <1>4 DEF ReadOk
<1>5. CASE e[a] = d[a] \o s
  <2>1. Len(d[a] \o s) = Len(d[a]) + Len(s) /\ Len(d[a]) \in Nat /\ Len(s) \in Nat
    BY <1>3, ConcatProperties, LenProperties
  <2>2. r = o + Len(t) /\ r <= Len(d[a]) /\ t = SubSeq(d[a], o + 1, r)
    BY <1>1 DEF ReadPart
  <2>3. SubSeq(d[a] \o s, o + 1, r) = SubSeq(d[a], o + 1, r)
    BY <1>3, <2>2, SubSeqPrefix
  <2>4. ReadPart(e[a], o, r, t)
    BY <1>5, <2>1, <2>2, <2>3 DEF ReadPart
  <2> QED
    BY <1>2, <2>4 DEF ReadOk
<1> QED
  BY <1>3, <1>4, <1>5 DEF Grown
-----------------------------------------------------------------------------
(***************************************************************************)
(* What each operation does to the counters.                               *)
(***************************************************************************)
LEMMA CountPut ==
    ASSUME NEW i \in Nat, NEW a \in Nat, NEW b \in Nat, NEW w \in Nat, NEW o \in Nat,
           CountOk(i, a, b, w, o), w # UrlByFile
    PROVE  /\ CountOk(i + 1, a, b, w + 1, o)
           /\ (i + 1) % UrlByFile = 0 <=> w + 1 = UrlByFile
<1>1. a <= b /\ i = (b - a) * UrlByFile + w /\ w <= UrlByFile /\ o <= i /\ o <= UrlByFile
  BY DEF CountOk
<1>2. UrlByFile \in Nat \ {0} /\ b - a \in Nat /\ w + 1 \in 1 .. UrlByFile
  BY <1>1, FilesAssumption
<1>3. (b - a) * UrlByFile \in Nat
  BY <1>2
<1>4. i + 1 = (b - a) * UrlByFile + (w + 1)
  BY <1>1, <1>3
<1>5. ((b - a) * UrlByFile + (w + 1)) % UrlByFile = 0 <=> w + 1 = UrlByFile
  BY <1>2, ModU
<1>6. CountOk(i + 1, a, b, w + 1, o)
  BY <1>1, <1>2, <1>4 DEF CountOk
<1> QED
  BY <1>4, <1>5, <1>6

LEMMA CountGet ==
    ASSUME NEW i \in Nat, NEW a \in Nat, NEW b \in Nat, NEW w \in Nat, NEW o \in Nat,
           CountOk(i, a, b, w, o), o # UrlByFile, i # o
    PROVE  /\ CountOk(i, a, b, w, o + 1)
           /\ (o + 1) % UrlByFile = 0 <=> o + 1 = UrlByFile
<1>1. o <= i /\ o <= UrlByFile /\ UrlByFile \in Nat \ {0}
  BY FilesAssumption DEF CountOk
<1>2. o + 1 \in 1 .. UrlByFile /\ o + 1 <= i
  BY <1>1
<1> QED
  BY <1>2, ModO DEF CountOk

LEMMA CountRoll ==
    ASSUME NEW i \in Nat, NEW a \in Nat, NEW b \in Nat, NEW o \in Nat,
           CountOk(i, a, b, UrlByFile, o)
    PROVE  CountOk(i, a, b + 1, 0, o)
<1>1. UrlByFile \in Nat \ {0} /\ b - a \in Int /\ b + 1 - a = (b - a) + 1
  BY FilesAssumption
<1>2. \A k \in Int : (k + 1) * UrlByFile = k * UrlByFile + UrlByFile /\ k * UrlByFile \in Int
  BY <1>1
<1>3. (b + 1 - a) * UrlByFile + 0 = (b - a) * UrlByFile + UrlByFile
  BY <1>1, <1>2
<1> QED
  BY <1>1, <1>3 DEF CountOk

LEMMA CountRead ==
    ASSUME NEW i \in Nat, NEW a \in Nat, NEW b \in Nat, NEW w \in Nat,
           CountOk(i, a, b, w, UrlByFile), w # UrlByFile
    PROVE  /\ a < b /\ i - UrlByFile \in Nat
           /\ CountOk(i - UrlByFile, a + 1, b, w, 0)
<1>1. /\ a <= b /\ i = (b - a) * UrlByFile + w /\ w <= UrlByFile /\ UrlByFile <= i
      /\ UrlByFile \in Nat \ {0}
  BY FilesAssumption DEF CountOk
<1>2. a # b
  <2> SUFFICES ASSUME a = b PROVE FALSE
    OBVIOUS
  <2>1. (b - a) * UrlByFile = 0
    BY <1>1
  <2> QED
    BY <1>1, <2>1
<1>3. \A k \in Int : (k - 1) * UrlByFile = k * UrlByFile - UrlByFile /\ k * UrlByFile \in Int
  BY <1>1
<1>4. b - a \in Int /\ b - (a + 1) = (b - a) - 1
  OBVIOUS
<1>5. (b - (a + 1)) * UrlByFile + w = i - UrlByFile
  BY <1>1, <1>3, <1>4
<1> QED
  BY <1>1, <1>2, <1>5 DEF CountOk

LEMMA CountLoad ==
    ASSUME NEW a \in Nat, NEW b \in Nat, a <= b
    PROVE  /\ (b - a) * UrlByFile \in Nat
           /\ CountOk((b - a) * UrlByFile, a, b, 0, 0)
<1>1. UrlByFile \in Nat \ {0} /\ b - a \in Nat
  BY FilesAssumption
<1>2. (b - a) * UrlByFile \in Nat
  BY <1>1
<1> QED
  BY <1>1, <1>2 DEF CountOk

-----------------------------------------------------------------------------
(***************************************************************************)
(* The invariant queue by queue.                                           *)
(***************************************************************************)
LEMMA TypeFacts ==
    ASSUME TypeOK
    PROVE  /\ DirTypes
           /\ fin \in [Queues -> Nat] /\ fout \in [Queues -> Nat]
           /\ in \in [Queues -> Nat] /\ out \in [Queues -> Nat] /\ rpos \in [Queues -> Nat]
           /\ outbuf \in [Queues -> Seq(Urls)] /\ buf \in [Queues -> Seq(Urls)]
           /\ opened \in [Queues -> BOOLEAN]
BY DEF TypeOK, DirTypes, IsFiles

QueueInv(q) ==
    QueueRight(q) /\ WriteRight(q) /\ (Alone(q) => ReadRight(q) /\ DirOk(dir[q]))

\* A step that leaves the files, buffers and counters of r alone.
SameQueue(r) ==
    /\ dir'[r] = dir[r] /\ outbuf'[r] = outbuf[r] /\ buf'[r] = buf[r]
    /\ fin'[r] = fin[r] /\ fout'[r] = fout[r] /\ in'[r] = in[r] /\ out'[r] = out[r]
    /\ opened'[r] = opened[r] /\ rpos'[r] = rpos[r]

SameSteps(r) ==
    /\ Open(r)' => Open(r)
    /\ Filled(r)' <=> Filled(r)
    /\ AllRead(r)' <=> AllRead(r)
    /\ step' = "loading" => step = "loading"
    /\ step' = "flushed" /\ Filled(r)' => step = "flushed"

LEMMA QueueKept ==
    ASSUME NEW r \in Queues, QueueInv(r), SameQueue(r), SameSteps(r)
    PROVE  QueueInv(r)'
<1>1. QueueRight(r)'
  BY DEF QueueInv, QueueRight, SameQueue, SameSteps
<1>2. WriteRight(r)'
  BY DEF QueueInv, WriteRight, SameQueue, SameSteps
<1>3. Alone(r) => ReadRight(r)' /\ DirOk(dir[r])'
  BY DEF QueueInv, ReadRight, SameQueue, SameSteps
<1> QED
  BY <1>1, <1>2, <1>3 DEF QueueInv, Alone

LEMMA InvByQueue ==
    DiskInv <=> TypeOK /\ StepsRight /\ \A q \in Queues : QueueInv(q)
BY DEF DiskInv, QueueInv

LEMMA InvByQueueNext ==
    DiskInv' <=> TypeOK' /\ StepsRight' /\ \A q \in Queues : QueueInv(q)'
BY DEF DiskInv, QueueInv
-----------------------------------------------------------------------------
(***************************************************************************)
(* put.                                                                    *)
(***************************************************************************)
SeenAfter(u) == seen' \in {seen, seen \cup {u}}

LEMMA PutTypes ==
    ASSUME TypeOK, NEW q \in Queues, NEW u \in Urls, Put(q, u), SeenAfter(u)
    PROVE  TypeOK'
<1>0. /\ DirTypes /\ fin \in [Queues -> Nat] /\ fout \in [Queues -> Nat]
      /\ in \in [Queues -> Nat] /\ out \in [Queues -> Nat] /\ rpos \in [Queues -> Nat]
      /\ outbuf \in [Queues -> Seq(Urls)] /\ buf \in [Queues -> Seq(Urls)]
      /\ opened \in [Queues -> BOOLEAN]
  BY TypeFacts
<1>1. DirTypes'
  <2>1. CASE UNCHANGED dir
    BY <1>0, <2>1 DEF DirTypes
  <2>2. CASE dir' = FlushOut(q)
    <3>1. /\ DOMAIN dir' = Queues /\ OthersKept(q)
          /\ Grown(dir[q], dir'[q], fin[q], outbuf[q])
      BY <1>0, <2>2, FlushDir DEF DirTypes
    <3>2. IsFiles(dir'[q], Urls)
      BY <1>0, <3>1, GrownFiles DEF DirTypes
    <3> QED
      BY <1>0, <3>1, <3>2 DEF DirTypes, OthersKept
  <2> QED
    BY <2>1, <2>2 DEF Put
<1>2. outbuf' \in [Queues -> Seq(Urls)]
  <2>1. Append(outbuf[q], u) \in Seq(Urls) /\ <<u>> \in Seq(Urls)
    BY <1>0
  <2> QED
    BY <1>0, <2>1 DEF Put
<1>3. in' \in [Queues -> Nat]
  BY <1>0 DEF Put
<1>4. step' \in Steps /\ todo' \in Seq(Queues)
  <2>1. step \in Steps /\ todo \in Seq(Queues) /\ <<q>> \in Seq(Queues) /\ "full" \in Steps
    BY DEF TypeOK, Steps
  <2> QED
    BY <2>1 DEF Put
<1>5. seen' \subseteq Urls
  BY DEF SeenAfter, TypeOK
<1> QED
  BY <1>0, <1>1, <1>2, <1>3, <1>4, <1>5 DEF Put, TypeOK, DirTypes, IsFiles

\* The file that is written and its buffer, after put.
LEMMA PutLen ==
    ASSUME TypeOK, NEW q \in Queues, NEW u \in Urls, Put(q, u), fin[q] \in DOMAIN dir[q]
    PROVE  /\ fin[q] \in DOMAIN dir'[q]
           /\ Len(dir'[q][fin[q]]) + Len(outbuf'[q])
                 = Len(dir[q][fin[q]]) + Len(outbuf[q]) + 1
           /\ Grown(dir[q], dir'[q], fin[q], outbuf[q]) \/ dir'[q] = dir[q]
           /\ OthersKept(q)
<1>0. DirTypes /\ outbuf \in [Queues -> Seq(Urls)] /\ fin \in [Queues -> Nat]
  BY TypeFacts
<1>1. dir[q][fin[q]] \in Seq(Urls) /\ outbuf[q] \in Seq(Urls)
  BY <1>0 DEF DirTypes, IsFiles
<1>2. /\ Len(Append(outbuf[q], u)) = Len(outbuf[q]) + 1 /\ Len(<<u>>) = 1
      /\ Len(dir[q][fin[q]] \o outbuf[q]) = Len(dir[q][fin[q]]) + Len(outbuf[q])
      /\ Len(dir[q][fin[q]]) \in Nat /\ Len(outbuf[q]) \in Nat
  BY <1>1, ConcatProperties, LenProperties
<1>3. CASE UNCHANGED dir /\ outbuf' = [outbuf EXCEPT ![q] = Append(@, u)]
  <2>1. dir' = dir /\ outbuf'[q] = Append(outbuf[q], u)
    BY <1>0, <1>3
  <2>2. OthersKept(q)
    BY <2>1 DEF OthersKept
  <2> QED
    <3>1. Len(outbuf'[q]) = Len(outbuf[q]) + 1
      BY <1>2, <2>1
    <3>2. /\ Len(dir'[q][fin[q]]) = Len(dir[q][fin[q]])
          /\ fin[q] \in DOMAIN dir'[q] /\ dir'[q] = dir[q]
      BY <2>1
    <3>3. Len(dir'[q][fin[q]]) + Len(outbuf'[q])
             = Len(dir[q][fin[q]]) + Len(outbuf[q]) + 1
      <4>1. \A n, m \in Nat : n + (m + 1) = n + m + 1
        OBVIOUS
      <4>2. Len(dir[q][fin[q]]) \in Nat /\ Len(outbuf[q]) \in Nat
        BY <1>2
      <4> QED
        BY ONLY <3>1, <3>2, <4>1, <4>2
    <3>4. fin[q] \in DOMAIN dir'[q] /\ dir'[q] = dir[q]
      BY <3>2
    <3> QED
      BY <2>2, <3>3, <3>4
<1>4. CASE dir' = FlushOut(q) /\ outbuf' = [outbuf EXCEPT ![q] = <<u>>]
  <2>1. OthersKept(q) /\ Grown(dir[q], dir'[q], fin[q], outbuf[q])
    BY <1>0, <1>4, FlushDir DEF DirTypes
  <2>2. fin[q] \in DOMAIN dir'[q] /\ dir'[q][fin[q]] = dir[q][fin[q]] \o outbuf[q]
    BY <2>1 DEF Grown
  <2> QED
    BY <1>0, <1>2, <1>4, <2>1, <2>2
<1> QED
  BY <1>3, <1>4 DEF Put

LEMMA PutInv ==
    ASSUME DiskInv, NEW q \in Queues, NEW u \in Urls, Put(q, u), SeenAfter(u)
    PROVE  DiskInv'
<1>0. /\ TypeOK /\ DirTypes /\ fin \in [Queues -> Nat] /\ fout \in [Queues -> Nat]
      /\ in \in [Queues -> Nat] /\ out \in [Queues -> Nat] /\ rpos \in [Queues -> Nat]
      /\ outbuf \in [Queues -> Seq(Urls)] /\ buf \in [Queues -> Seq(Urls)]
      /\ \A r \in Queues : QueueInv(r)
  BY TypeFacts DEF DiskInv, QueueInv
<1>1. TypeOK'
  BY <1>0, PutTypes
<1>2. /\ step = "run" /\ step' \in {"run", "full"} /\ (step' = "full" => todo' = <<q>>)
      /\ fin[q] <= MaxFile /\ in'[q] = in[q] + 1
      /\ (step' = "full" <=> (in[q] + 1) % UrlByFile = 0)
      /\ UNCHANGED <<fin, fout, out, buf, opened, rpos>>
      /\ \A r \in Queues : r # q => in'[r] = in[r] /\ outbuf'[r] = outbuf[r]
  BY <1>0 DEF Put
<1>3. StepsRight'
  BY <1>2 DEF StepsRight
<1>4. Open(q) /\ Open(q)' /\ ~Filled(q) /\ ~AllRead(q) /\ ~AllRead(q)'
      /\ (Filled(q)' <=> step' = "full") /\ step' # "loading" /\ step' # "flushed"
  BY <1>2 DEF Open, Running, Filled, AllRead
<1> DEFINE w == Len(dir[q][fin[q]]) + Len(outbuf[q])
<1>5. /\ fin[q] \in DOMAIN dir[q] /\ CountOk(in[q], fout[q], fin[q], w, out[q])
      /\ w # UrlByFile /\ out[q] # UrlByFile
      /\ opened[q] => fout[q] \in DOMAIN dir[q]
      /\ DOMAIN dir[q] \subseteq 0 .. MaxFile + 1
  BY <1>0, <1>4 DEF QueueInv, QueueRight, WriteRight
<1>6. /\ fin[q] \in DOMAIN dir'[q] /\ OthersKept(q)
      /\ Len(dir'[q][fin[q]]) + Len(outbuf'[q]) = w + 1
      /\ Grown(dir[q], dir'[q], fin[q], outbuf[q]) \/ dir'[q] = dir[q]
  BY <1>0, <1>5, PutLen
<1>7. DOMAIN dir'[q] = DOMAIN dir[q]
  BY <1>6 DEF Grown
<1>8. w \in Nat
  <2>1. dir[q][fin[q]] \in Seq(Urls) /\ outbuf[q] \in Seq(Urls)
    BY <1>0, <1>5 DEF DirTypes, IsFiles
  <2>2. Len(dir[q][fin[q]]) \in Nat
    BY <2>1, LenProperties
  <2>3. Len(outbuf[q]) \in Nat
    BY <2>1, LenProperties
  <2>4. \A n, m \in Nat : n + m \in Nat
    OBVIOUS
  <2> QED
    BY <2>2, <2>3, <2>4
<1>9. /\ CountOk(in[q] + 1, fout[q], fin[q], w + 1, out[q])
      /\ (in[q] + 1) % UrlByFile = 0 <=> w + 1 = UrlByFile
  <2> HIDE DEF w
  <2>1. in[q] \in Nat /\ fout[q] \in Nat /\ fin[q] \in Nat /\ out[q] \in Nat
    BY <1>0
  <2> QED
    BY <1>5, <1>8, <2>1, CountPut
<1>10. QueueInv(q)'
  <2>1. QueueRight(q)'
    BY <1>2, <1>4, <1>5, <1>7 DEF QueueRight
  <2>2. WriteRight(q)'
    <3> HIDE DEF w
    <3>1. CountOk(in'[q], fout'[q], fin'[q], Len(dir'[q][fin'[q]]) + Len(outbuf'[q]), out'[q])
      BY <1>2, <1>6, <1>9
    <3>2. Len(dir'[q][fin'[q]]) + Len(outbuf'[q]) = UrlByFile <=> Filled(q)'
      BY <1>2, <1>4, <1>6, <1>9
    <3> QED
      BY <1>2, <1>4, <1>5, <1>6, <1>7, <3>1, <3>2 DEF WriteRight
  <2>3. ASSUME Alone(q) PROVE ReadRight(q)' /\ DirOk(dir'[q])
    <3>1. opened[q] /\ ReadOk(dir[q], fout[q], fin[q], out[q], rpos[q], buf[q])
      BY <1>0, <1>4, <2>3 DEF QueueInv, ReadRight
    <3>2. ReadOk(dir'[q], fout[q], fin[q], out[q], rpos[q], buf[q])
      <4>1. CASE dir'[q] = dir[q]
        BY <3>1, <4>1
      <4>2. CASE Grown(dir[q], dir'[q], fin[q], outbuf[q])
        <5>1. /\ outbuf[q] \in Seq(Urls) /\ IsFiles(dir[q], Urls) /\ out[q] \in Nat
              /\ rpos[q] \in Nat /\ buf[q] \in Seq(Urls)
          BY <1>0 DEF DirTypes
        <5> QED
          BY <3>1, <4>2, <5>1, ReadGrown
      <4> QED
        BY <1>6, <4>1, <4>2
    <3>3. DirOk(dir'[q])
      BY <3>2 DEF ReadOk, FilesFrom, DirOk
    <3> QED
      BY <1>2, <3>1, <3>2, <3>3 DEF ReadRight
  <2> QED
    BY <2>1, <2>2, <2>3 DEF QueueInv, Alone
<1>11. ASSUME NEW r \in Queues, r # q PROVE QueueInv(r)'
  <2>1. SameQueue(r)
    BY <1>2, <1>6, <1>11 DEF SameQueue, OthersKept
  <2>2. <<q>> # <<r>>
    BY <1>11
  <2>3. SameSteps(r)
    BY <1>2, <2>2 DEF SameSteps, Open, Running, Filled, AllRead
  <2> QED
    BY <1>0, <2>1, <2>3, QueueKept
<1> QED
  BY <1>1, <1>3, <1>10, <1>11, InvByQueueNext

-----------------------------------------------------------------------------
(***************************************************************************)
(* The end of a file that is written, and the table.                       *)
(***************************************************************************)
LEMMA FlushTypes ==
    ASSUME TypeOK, NEW q \in Queues, dir' = FlushOut(q) \/ UNCHANGED dir
    PROVE  DirTypes'
<1>0. DirTypes /\ outbuf \in [Queues -> Seq(Urls)]
  BY TypeFacts
<1>1. CASE UNCHANGED dir
  BY <1>0, <1>1 DEF DirTypes
<1>2. CASE dir' = FlushOut(q)
  <2>1. /\ DOMAIN dir' = Queues /\ OthersKept(q)
        /\ Grown(dir[q], dir'[q], fin[q], outbuf[q])
    BY <1>0, <1>2, FlushDir DEF DirTypes
  <2>2. IsFiles(dir'[q], Urls)
    BY <1>0, <2>1, GrownFiles DEF DirTypes
  <2> QED
    BY <1>0, <2>1, <2>2 DEF DirTypes, OthersKept
<1> QED
  BY <1>1, <1>2

\* A flush moves urls from the buffer to the file and loses none.
LEMMA FlushLen ==
    ASSUME TypeOK, NEW q \in Queues, dir' = FlushOut(q),
           outbuf' = [outbuf EXCEPT ![q] = <<>>], fin[q] \in DOMAIN dir[q]
    PROVE  /\ DOMAIN dir'[q] = DOMAIN dir[q] /\ OthersKept(q)
           /\ Grown(dir[q], dir'[q], fin[q], outbuf[q])
           /\ dir'[q][fin[q]] = dir[q][fin[q]] \o outbuf[q] /\ outbuf'[q] = <<>>
           /\ Len(dir'[q][fin[q]]) + Len(outbuf'[q])
                 = Len(dir[q][fin[q]]) + Len(outbuf[q])
<1>0. DirTypes /\ outbuf \in [Queues -> Seq(Urls)]
  BY TypeFacts
<1>1. dir[q][fin[q]] \in Seq(Urls) /\ outbuf[q] \in Seq(Urls)
  BY <1>0 DEF DirTypes, IsFiles
<1>2. OthersKept(q) /\ Grown(dir[q], dir'[q], fin[q], outbuf[q])
  BY <1>0, FlushDir DEF DirTypes
<1>3. DOMAIN dir'[q] = DOMAIN dir[q] /\ dir'[q][fin[q]] = dir[q][fin[q]] \o outbuf[q]
  BY <1>2 DEF Grown
<1>4. outbuf'[q] = <<>>
  BY <1>0
<1>5. Len(dir[q][fin[q]] \o outbuf[q]) = Len(dir[q][fin[q]]) + Len(outbuf[q])
  BY <1>1, ConcatProperties
<1>6. Len(dir[q][fin[q]]) \in Nat /\ Len(outbuf[q]) \in Nat
  BY <1>1, LenProperties
<1>7. \A n, m \in Nat : n + m + 0 = n + m
  OBVIOUS
<1>8. Len(dir'[q][fin[q]]) + Len(outbuf'[q]) = Len(dir[q][fin[q]]) + Len(outbuf[q])
  <2>1. Len(dir'[q][fin[q]]) = Len(dir[q][fin[q]]) + Len(outbuf[q]) /\ Len(outbuf'[q]) = 0
    BY <1>3, <1>4, <1>5, EmptySeq
  <2> QED
    BY ONLY <1>6, <1>7, <2>1
<1> QED
  BY <1>2, <1>3, <1>4, <1>8

LEMMA FlushInv == ASSUME DiskInv, RollFlush PROVE DiskInv'
<1>0. /\ TypeOK /\ DirTypes /\ fin \in [Queues -> Nat] /\ fout \in [Queues -> Nat]
      /\ in \in [Queues -> Nat] /\ out \in [Queues -> Nat] /\ rpos \in [Queues -> Nat]
      /\ outbuf \in [Queues -> Seq(Urls)] /\ buf \in [Queues -> Seq(Urls)]
      /\ \A r \in Queues : QueueInv(r)
  BY TypeFacts DEF DiskInv, QueueInv
<1>1. PICK q \in Queues : todo = <<q>>
  BY DEF DiskInv, StepsRight, RollFlush
<1>2. /\ step = "full" /\ step' = "flushed" /\ todo' = todo
      /\ dir' = FlushOut(q) /\ outbuf' = [outbuf EXCEPT ![q] = <<>>]
      /\ UNCHANGED <<hashBin, hashOld, fin, fout, in, out, buf, opened, rpos, seen>>
  BY <1>1 DEF RollFlush, FullFlush
<1>3. Open(q) /\ Open(q)' /\ Filled(q) /\ Filled(q)' /\ ~AllRead(q) /\ ~AllRead(q)'
  BY <1>1, <1>2 DEF Open, Running, Filled, AllRead
<1>4. /\ fin[q] \in DOMAIN dir[q] /\ DOMAIN dir[q] \subseteq 0 .. MaxFile + 1
      /\ CountOk(in[q], fout[q], fin[q], Len(dir[q][fin[q]]) + Len(outbuf[q]), out[q])
      /\ Len(dir[q][fin[q]]) + Len(outbuf[q]) = UrlByFile
      /\ out[q] # UrlByFile /\ (opened[q] => fout[q] \in DOMAIN dir[q])
      /\ fin[q] <= MaxFile
  BY <1>0, <1>3 DEF QueueInv, QueueRight, WriteRight
<1>5. /\ DOMAIN dir'[q] = DOMAIN dir[q] /\ OthersKept(q)
      /\ Grown(dir[q], dir'[q], fin[q], outbuf[q]) /\ outbuf'[q] = <<>>
      /\ Len(dir'[q][fin[q]]) + Len(outbuf'[q]) = UrlByFile
  BY <1>0, <1>2, <1>4, FlushLen
<1>6. TypeOK'
  <2>1. DirTypes'
    BY <1>0, <1>2, FlushTypes
  <2>2. outbuf' \in [Queues -> Seq(Urls)] /\ step' \in Steps
    BY <1>0, <1>2, EmptySeq DEF Steps
  <2> QED
    BY <1>0, <1>2, <2>1, <2>2 DEF TypeOK, DirTypes, IsFiles
<1>7. StepsRight'
  BY <1>1, <1>2 DEF StepsRight
<1>8. QueueInv(q)'
  <2>1. QueueRight(q)' /\ WriteRight(q)'
    BY <1>2, <1>3, <1>4, <1>5 DEF QueueRight, WriteRight
  <2>2. ASSUME Alone(q) PROVE ReadRight(q)' /\ DirOk(dir'[q])
    <3>1. opened[q] /\ ReadOk(dir[q], fout[q], fin[q], out[q], rpos[q], buf[q])
      BY <1>0, <1>3, <2>2 DEF QueueInv, ReadRight
    <3>2. /\ outbuf[q] \in Seq(Urls) /\ IsFiles(dir[q], Urls) /\ out[q] \in Nat
          /\ rpos[q] \in Nat /\ buf[q] \in Seq(Urls)
      BY <1>0 DEF DirTypes
    <3>3. ReadOk(dir'[q], fout[q], fin[q], out[q], rpos[q], buf[q])
      BY <1>5, <3>1, <3>2, ReadGrown
    <3> QED
      BY <1>2, <3>1, <3>3 DEF ReadRight, ReadOk, FilesFrom, DirOk
  <2> QED
    BY <2>1, <2>2 DEF QueueInv, Alone
<1>9. ASSUME NEW r \in Queues, r # q PROVE QueueInv(r)'
  <2>1. SameQueue(r)
    BY <1>0, <1>2, <1>5, <1>9 DEF SameQueue, OthersKept
  <2>2. <<q>> # <<r>>
    BY <1>9
  <2>3. SameSteps(r)
    BY <1>1, <1>2, <2>2 DEF SameSteps, Open, Running, Filled, AllRead
  <2> QED
    BY <1>0, <2>1, <2>3, QueueKept
<1> QED
  BY <1>6, <1>7, <1>8, <1>9, InvByQueueNext

LEMMA CreatTypes ==
    ASSUME TypeOK, NEW q \in Queues, NEW n \in Nat, dir' = Creat(q, n)
    PROVE  DirTypes'
<1>0. DirTypes
  BY TypeFacts
<1>1. DOMAIN dir' = Queues /\ OthersKept(q) /\ Begun(dir[q], dir'[q], n)
  BY <1>0, CreatDir DEF DirTypes
<1>2. IsFiles(dir'[q], Urls)
  BY <1>0, <1>1, BegunFiles DEF DirTypes
<1> QED
  BY <1>0, <1>1, <1>2 DEF DirTypes, OthersKept

LEMMA CreatInv == ASSUME DiskInv, RollCreat PROVE DiskInv'
<1>0. /\ TypeOK /\ DirTypes /\ fin \in [Queues -> Nat] /\ fout \in [Queues -> Nat]
      /\ in \in [Queues -> Nat] /\ out \in [Queues -> Nat] /\ rpos \in [Queues -> Nat]
      /\ outbuf \in [Queues -> Seq(Urls)] /\ buf \in [Queues -> Seq(Urls)]
      /\ \A r \in Queues : QueueInv(r)
  BY TypeFacts DEF DiskInv, QueueInv
<1>1. PICK q \in Queues : todo = <<q>>
  BY DEF DiskInv, StepsRight, RollCreat
<1>2. /\ step = "flushed" /\ step' \in {"rename", "run"} /\ todo' = <<>>
      /\ fin' = [fin EXCEPT ![q] = @ + 1] /\ dir' = Creat(q, fin[q] + 1)
      /\ UNCHANGED <<hashBin, hashOld, fout, in, out, outbuf, buf, opened, rpos, seen>>
  BY <1>1 DEF RollCreat
<1>3. /\ Open(q) /\ Open(q)' /\ Filled(q) /\ ~Filled(q)' /\ ~AllRead(q) /\ ~AllRead(q)'
  BY <1>1, <1>2 DEF Open, Running, Filled, AllRead
<1>4. /\ fin[q] \in DOMAIN dir[q] /\ DOMAIN dir[q] \subseteq 0 .. MaxFile + 1
      /\ CountOk(in[q], fout[q], fin[q], Len(dir[q][fin[q]]) + Len(outbuf[q]), out[q])
      /\ Len(dir[q][fin[q]]) + Len(outbuf[q]) = UrlByFile
      /\ out[q] # UrlByFile /\ (opened[q] => fout[q] \in DOMAIN dir[q])
      /\ fin[q] <= MaxFile /\ outbuf[q] = <<>>
  BY <1>0, <1>2, <1>3 DEF QueueInv, QueueRight, WriteRight
<1>5. /\ fin[q] \in Nat /\ fout[q] \in Nat /\ in[q] \in Nat /\ out[q] \in Nat
      /\ fin'[q] = fin[q] + 1 /\ fin[q] + 1 \in Nat /\ UrlByFile \in Nat \ {0}
  BY <1>0, <1>2, FilesAssumption
<1>6. /\ DOMAIN dir' = Queues /\ OthersKept(q) /\ Begun(dir[q], dir'[q], fin[q] + 1)
  BY <1>0, <1>2, CreatDir DEF DirTypes
<1>7. /\ DOMAIN dir'[q] = DOMAIN dir[q] \cup {fin[q] + 1}
      /\ dir'[q][fin[q] + 1] = <<>>
  BY <1>6 DEF Begun
<1>8. Len(dir[q][fin[q]]) = UrlByFile
  <2>1. Len(outbuf[q]) = 0
    BY <1>4, EmptySeq
  <2>2. dir[q][fin[q]] \in Seq(Urls)
    BY <1>0, <1>4 DEF DirTypes, IsFiles
  <2>3. Len(dir[q][fin[q]]) \in Nat
    BY <2>2, LenProperties
  <2>4. \A n \in Nat : n + 0 = n
    OBVIOUS
  <2> QED
    BY ONLY <1>4, <2>1, <2>3, <2>4
<1>9. TypeOK'
  <2>1. DirTypes'
    BY <1>0, <1>2, <1>5, CreatTypes
  <2>2. fin' \in [Queues -> Nat] /\ step' \in Steps /\ todo' \in Seq(Queues)
    BY <1>0, <1>2, <1>5 DEF Steps
  <2> QED
    BY <1>0, <1>2, <2>1, <2>2 DEF TypeOK, DirTypes, IsFiles
<1>10. StepsRight'
  BY <1>2 DEF StepsRight
<1>11. CountOk(in[q], fout[q], fin[q] + 1, 0, out[q])
  <2>1. CountOk(in[q], fout[q], fin[q], UrlByFile, out[q])
    BY <1>4
  <2> QED
    BY <1>5, <2>1, CountRoll
<1>12. QueueInv(q)'
  <2>1. QueueRight(q)'
    <3>1. fin[q] + 1 \in 0 .. MaxFile + 1
      BY <1>4, <1>5, FilesAssumption
    <3>2. DOMAIN dir'[q] \subseteq 0 .. MaxFile + 1
      BY <1>4, <1>7, <3>1
    <3>3. step' # "loading"
      BY <1>2
    <3> QED
      BY <1>3, <3>2, <3>3 DEF QueueRight
  <2>2. Len(dir'[q][fin'[q]]) + Len(outbuf'[q]) = 0
    BY <1>2, <1>4, <1>5, <1>7, EmptySeq
  <2>3. WriteRight(q)'
    BY <1>2, <1>3, <1>4, <1>5, <1>7, <1>11, <2>2 DEF WriteRight
  <2>4. ASSUME Alone(q) PROVE ReadRight(q)' /\ DirOk(dir'[q])
    <3>1. opened[q] /\ ReadOk(dir[q], fout[q], fin[q], out[q], rpos[q], buf[q])
      BY <1>0, <1>3, <2>4 DEF QueueInv, ReadRight
    <3>2. FilesFrom(dir'[q], fout[q], fin[q] + 1)
      BY <1>6, <1>8, <3>1, BegunFrom DEF ReadOk
    <3>3. dir'[q][fout[q]] = dir[q][fout[q]]
      <4>1. fout[q] <= fin[q] /\ fout[q] # fin[q] + 1
        BY <1>5, <3>1 DEF ReadOk, FilesFrom
      <4> QED
        BY <1>4, <1>6, <3>1, <4>1 DEF Begun
    <3>4. ReadOk(dir'[q], fout[q], fin[q] + 1, out[q], rpos[q], buf[q])
      BY <3>1, <3>2, <3>3 DEF ReadOk
    <3> QED
      BY <1>2, <1>5, <3>1, <3>4 DEF ReadRight, ReadOk, FilesFrom, DirOk
  <2> QED
    BY <2>1, <2>3, <2>4 DEF QueueInv, Alone
<1>13. ASSUME NEW r \in Queues, r # q PROVE QueueInv(r)'
  <2>1. SameQueue(r)
    BY <1>0, <1>2, <1>6, <1>13 DEF SameQueue, OthersKept
  <2>2. <<q>> # <<r>>
    BY <1>13
  <2>3. SameSteps(r)
    BY <1>1, <1>2, <2>2 DEF SameSteps, Open, Running, Filled, AllRead
  <2> QED
    BY <1>0, <2>1, <2>3, QueueKept
<1> QED
  BY <1>9, <1>10, <1>12, <1>13, InvByQueueNext

LEMMA SaveInv ==
    ASSUME DiskInv, SaveRename \/ SaveCreat \/ SaveWrite \/ SaveUnlink
    PROVE  DiskInv'
<1>0. TypeOK /\ \A r \in Queues : QueueInv(r)
  BY DEF DiskInv, QueueInv
<1>1. /\ step \in {"rename", "creat", "write", "unlink"}
      /\ step' \in {"creat", "write", "unlink", "run"}
      /\ UNCHANGED <<dir, fin, fout, in, out, outbuf, buf, opened, rpos, seen, todo>>
  BY DEF SaveRename, SaveCreat, SaveWrite, SaveUnlink, fifoVars
<1>2. {hashBin', hashOld'} \subseteq TableFiles
  BY <1>0 DEF SaveRename, SaveCreat, SaveWrite, SaveUnlink, TypeOK, TableFiles, NoFile,
              Short, Whole
<1>3. TypeOK'
  BY <1>0, <1>1, <1>2 DEF TypeOK, Steps
<1>4. StepsRight'
  BY <1>1 DEF StepsRight
<1>5. ASSUME NEW r \in Queues PROVE QueueInv(r)'
  <2>1. SameQueue(r)
    BY <1>1 DEF SameQueue
  <2>2. SameSteps(r)
    BY <1>1 DEF SameSteps, Open, Running, Filled, AllRead
  <2> QED
    BY <1>0, <2>1, <2>2, QueueKept
<1> QED
  BY <1>3, <1>4, <1>5, InvByQueueNext

-----------------------------------------------------------------------------
(***************************************************************************)
(* get.                                                                    *)
(***************************************************************************)
LEMMA TailOfRead ==
    ASSUME NEW S, NEW f \in Seq(S), NEW o \in Nat, NEW r \in Nat, NEW s \in Seq(S),
           ReadPart(f, o, r, s), s # <<>>
    PROVE  ReadPart(f, o + 1, r, Tail(s))
<1>1. r = o + Len(s) /\ r <= Len(f) /\ s = SubSeq(f, o + 1, r)
  BY DEF ReadPart
<1>2. Len(s) \in Nat \ {0} /\ Len(Tail(s)) = Len(s) - 1 /\ Len(f) \in Nat
  BY EmptySeq, HeadTailProperties, LenProperties
<1>3. o + 1 \in 1 .. Len(f) /\ r \in o + 1 .. Len(f)
  BY <1>1, <1>2
<1>4. Tail(SubSeq(f, o + 1, r)) = SubSeq(f, (o + 1) + 1, r)
  BY <1>3, HeadTailOfSubSeq
<1>5. r = (o + 1) + Len(Tail(s))
  <2>1. \A n \in Nat : o + n = (o + 1) + (n - 1)
    OBVIOUS
  <2> QED
    BY <1>1, <1>2, <2>1
<1> QED
  BY <1>1, <1>4, <1>5 DEF ReadPart

LEMMA ReadSome ==
    ASSUME NEW S, NEW f \in Seq(S), NEW r \in Nat, NEW g,
           g = SubSeq(f, r + 1, Len(f)), NEW n \in 1 .. Len(g)
    PROVE  ReadPart(f, r + 1, r + n, SubSeq(g, 2, n))
<1>1. Len(f) \in Nat /\ \A i \in r + 1 .. Len(f) : f[i] \in S
  BY ElementOfSeq, LenProperties
<1>2. Len(g) = IF r + 1 <= Len(f) THEN Len(f) - (r + 1) + 1 ELSE 0
  BY <1>1, SubSeqProperties
<1>3. n \in Nat /\ n >= 1 /\ n <= Len(g) /\ r + 1 <= Len(f) /\ r + n <= Len(f)
      /\ r + n \in Nat
  BY <1>1, <1>2
<1>4. SubSeq(g, 2, n) = SubSeq(f, (r + 1) + 1, r + n)
  <2>1. CASE n = 1
    <3>1. SubSeq(g, 2, n) = <<>>
      BY <2>1, SubSeqEmpty
    <3>2. SubSeq(f, (r + 1) + 1, r + n) = <<>>
      BY <2>1, SubSeqEmpty
    <3> QED
      BY <3>1, <3>2
  <2>2. CASE n >= 2
    <3> DEFINE i == r + 1
               j == Len(f)
    <3>1. /\ i \in 1 .. j /\ j \in 1 .. j /\ 2 \in 1 .. j - i + 1 /\ n \in 1 .. j - i + 1
          /\ i + 2 - 1 = (r + 1) + 1 /\ i + n - 1 = r + n
      BY <1>1, <1>2, <1>3, <2>2
    <3>2. g = SubSeq(f, i, j) /\ i \in 1 .. Len(f) /\ j \in 1 .. Len(f)
      BY <3>1
    <3> HIDE DEF i, j
    <3>3. SubSeq(SubSeq(f, i, j), 2, n) = SubSeq(f, i + 2 - 1, i + n - 1)
      BY <3>1, <3>2, SubSeqOfSubSeq
    <3> QED
      BY <3>1, <3>2, <3>3
  <2> QED
    BY <1>3, <2>1, <2>2
<1>5. Len(SubSeq(f, (r + 1) + 1, r + n)) = n - 1
  <2>1. (r + 1) + 1 \in Int /\ r + n \in Int
        /\ \A i \in (r + 1) + 1 .. r + n : f[i] \in S
    BY <1>1, <1>3
  <2>2. Len(SubSeq(f, (r + 1) + 1, r + n)) =
           IF (r + 1) + 1 <= r + n THEN r + n - ((r + 1) + 1) + 1 ELSE 0
    BY <2>1, SubSeqProperties
  <2> QED
    BY <1>3, <2>2
<1>6. r + n = (r + 1) + (n - 1)
  BY <1>3
<1> QED
  BY <1>3, <1>4, <1>5, <1>6 DEF ReadPart

\* What is appended is the end of what there is then.
LEMMA EndOfGrown ==
    ASSUME NEW S, NEW s \in Seq(S), NEW t \in Seq(S)
    PROVE  SubSeq(s \o t, Len(s) + 1, Len(s \o t)) = t
<1>1. Len(s) \in Nat /\ Len(t) \in Nat /\ Len(s \o t) = Len(s) + Len(t)
  BY ConcatProperties, LenProperties
<1>2. CASE t = <<>>
  <2>1. Len(t) = 0
    BY <1>2, EmptySeq
  <2>2. Len(s \o t) < Len(s) + 1
    BY <1>1, <2>1
  <2> QED
    BY <1>1, <1>2, <2>2, SubSeqEmpty
<1>3. CASE t # <<>>
  <2>1. Len(t) # 0
    BY <1>3, EmptySeq
  <2> DEFINE m == Len(s) + 1
             n == Len(s) + Len(t)
  <2>2. /\ m \in Len(s) + 1 .. Len(s) + Len(t) /\ n \in Len(s) + 1 .. Len(s) + Len(t)
        /\ m - Len(s) = 1 /\ n - Len(s) = Len(t)
    BY <1>1, <2>1
  <2> HIDE DEF m, n
  <2>3. SubSeq(s \o t, m, n) = SubSeq(t, m - Len(s), n - Len(s))
    BY <2>2, SubSeqOfConcat2
  <2>4. SubSeq(s \o t, m, n) = t
    BY <2>2, <2>3, SubSeqFull
  <2> QED
    BY <1>1, <2>4 DEF m, n
<1> QED
  BY <1>2, <1>3

\* Nothing is left of f behind r.
LEMMA NothingBehind ==
    ASSUME NEW S, NEW f \in Seq(S), NEW r \in Nat, r <= Len(f),
           SubSeq(f, r + 1, Len(f)) = <<>>
    PROVE  r = Len(f)
<1>1. Len(f) \in Nat /\ \A i \in r + 1 .. Len(f) : f[i] \in S
  BY ElementOfSeq, LenProperties
<1>2. Len(SubSeq(f, r + 1, Len(f))) = IF r + 1 <= Len(f) THEN Len(f) - (r + 1) + 1 ELSE 0
  BY <1>1, SubSeqProperties
<1>3. Len(SubSeq(f, r + 1, Len(f))) = 0
  BY EmptySeq
<1> QED
  BY <1>1, <1>2, <1>3

\* What get does besides the buffer, and what it finds.
Taking(q) == step = "run" /\ in[q] # out[q] /\ Took(q)

LEMMA TookFacts ==
    ASSUME DiskInv, NEW q \in Queues, Taking(q)
    PROVE  /\ Open(q) /\ Open(q)' /\ ~Filled(q) /\ ~Filled(q)' /\ ~AllRead(q)
           /\ AllRead(q)' <=> out[q] + 1 = UrlByFile
           /\ step = "run" /\ step' \in {"run", "consumed"}
           /\ step' = "consumed" => todo' = <<q>>
           /\ out' \in [Queues -> Nat] /\ out'[q] = out[q] + 1
           /\ \A r \in Queues : r # q => out'[r] = out[r] /\ SameSteps(r)
           /\ UNCHANGED <<hashBin, hashOld, fin, fout, in, opened, seen>>
           /\ todo' \in Seq(Queues) /\ StepsRight'
           /\ fin[q] \in DOMAIN dir[q] /\ DOMAIN dir[q] \subseteq 0 .. MaxFile + 1
           /\ CountOk(in[q], fout[q], fin[q], Len(dir[q][fin[q]]) + Len(outbuf[q]), out[q] + 1)
           /\ Len(dir[q][fin[q]]) + Len(outbuf[q]) # UrlByFile
           /\ opened[q] => fout[q] \in DOMAIN dir[q]
<1>0. /\ TypeOK /\ DirTypes /\ fin \in [Queues -> Nat] /\ fout \in [Queues -> Nat]
      /\ in \in [Queues -> Nat] /\ out \in [Queues -> Nat]
      /\ outbuf \in [Queues -> Seq(Urls)] /\ QueueInv(q) /\ todo \in Seq(Queues)
  BY TypeFacts DEF DiskInv, QueueInv, TypeOK
<1>1. /\ step = "run" /\ in[q] # out[q] /\ step' \in {"run", "consumed"}
      /\ step' = "consumed" => todo' = <<q>>
      /\ step' = "run" => todo' = todo
      /\ step' = "consumed" <=> (out[q] + 1) % UrlByFile = 0
      /\ out' = [out EXCEPT ![q] = @ + 1]
      /\ UNCHANGED <<hashBin, hashOld, fin, fout, in, opened, seen>>
  BY <1>0 DEF Taking, Took
<1>2. Open(q) /\ Open(q)' /\ ~Filled(q) /\ ~Filled(q)' /\ ~AllRead(q)
      /\ (AllRead(q)' <=> step' = "consumed")
  BY <1>1 DEF Open, Running, Filled, AllRead
<1>3. /\ fin[q] \in DOMAIN dir[q] /\ DOMAIN dir[q] \subseteq 0 .. MaxFile + 1
      /\ CountOk(in[q], fout[q], fin[q], Len(dir[q][fin[q]]) + Len(outbuf[q]), out[q])
      /\ Len(dir[q][fin[q]]) + Len(outbuf[q]) # UrlByFile
      /\ out[q] # UrlByFile /\ (opened[q] => fout[q] \in DOMAIN dir[q])
  BY <1>0, <1>2 DEF QueueInv, QueueRight, WriteRight
<1>4. Len(dir[q][fin[q]]) + Len(outbuf[q]) \in Nat
  <2>1. dir[q][fin[q]] \in Seq(Urls) /\ outbuf[q] \in Seq(Urls)
    BY <1>0, <1>3 DEF DirTypes, IsFiles
  <2>2. Len(dir[q][fin[q]]) \in Nat
    BY <2>1, LenProperties
  <2>3. Len(outbuf[q]) \in Nat
    BY <2>1, LenProperties
  <2>4. \A n, m \in Nat : n + m \in Nat
    OBVIOUS
  <2> QED
    BY <2>2, <2>3, <2>4
<1>5. /\ CountOk(in[q], fout[q], fin[q], Len(dir[q][fin[q]]) + Len(outbuf[q]), out[q] + 1)
      /\ (out[q] + 1) % UrlByFile = 0 <=> out[q] + 1 = UrlByFile
  <2> DEFINE w == Len(dir[q][fin[q]]) + Len(outbuf[q])
  <2>1. /\ w \in Nat /\ CountOk(in[q], fout[q], fin[q], w, out[q]) /\ out[q] # UrlByFile
        /\ in[q] \in Nat /\ fout[q] \in Nat /\ fin[q] \in Nat /\ out[q] \in Nat
        /\ in[q] # out[q]
    BY <1>0, <1>1, <1>3, <1>4
  <2> HIDE DEF w
  <2>2. CountOk(in[q], fout[q], fin[q], w, out[q] + 1)
        /\ ((out[q] + 1) % UrlByFile = 0 <=> out[q] + 1 = UrlByFile)
    BY <2>1, CountGet
  <2> QED
    BY <2>2 DEF w
<1>6. out' \in [Queues -> Nat] /\ out'[q] = out[q] + 1
      /\ \A r \in Queues : r # q => out'[r] = out[r]
  BY <1>0, <1>1
<1>7. todo' \in Seq(Queues)
  <2>1. <<q>> \in Seq(Queues)
    OBVIOUS
  <2> QED
    BY <1>0, <1>1, <2>1
<1>8. ASSUME NEW r \in Queues, r # q PROVE SameSteps(r)
  <2>1. <<q>> # <<r>>
    BY <1>8
  <2> QED
    BY <1>1, <2>1 DEF SameSteps, Open, Running, Filled, AllRead
<1>9. StepsRight'
  BY <1>1 DEF StepsRight
<1> QED
  BY <1>1, <1>2, <1>3, <1>5, <1>6, <1>7, <1>8, <1>9

LEMMA GetBufferedInv ==
    ASSUME DiskInv, NEW q \in Queues, GetBuffered(q)
    PROVE  DiskInv'
<1>0. /\ TypeOK /\ DirTypes /\ fin \in [Queues -> Nat] /\ fout \in [Queues -> Nat]
      /\ in \in [Queues -> Nat] /\ out \in [Queues -> Nat] /\ rpos \in [Queues -> Nat]
      /\ outbuf \in [Queues -> Seq(Urls)] /\ buf \in [Queues -> Seq(Urls)]
      /\ \A r \in Queues : QueueInv(r)
  BY TypeFacts DEF DiskInv, QueueInv
<1>1. /\ Taking(q) /\ buf[q] # <<>> /\ buf' = [buf EXCEPT ![q] = Tail(@)]
      /\ UNCHANGED <<dir, outbuf, rpos>>
  BY DEF GetBuffered, Taking
<1>2. TypeOK'
  <2>1. buf' \in [Queues -> Seq(Urls)]
    <3>1. Tail(buf[q]) \in Seq(Urls)
      BY <1>0, <1>1, HeadTailProperties
    <3> QED
      BY <1>0, <1>1, <3>1
  <2>2. step' \in Steps /\ todo' \in Seq(Queues) /\ out' \in [Queues -> Nat]
        /\ UNCHANGED <<hashBin, hashOld, fin, fout, in, opened, seen>>
    BY <1>1, TookFacts DEF Steps
  <2> QED
    BY <1>0, <1>1, <2>1, <2>2 DEF TypeOK
<1>3. QueueInv(q)'
  <2>1. QueueRight(q)' /\ WriteRight(q)'
    BY <1>1, TookFacts DEF QueueRight, WriteRight
  <2>2. ASSUME Alone(q) PROVE ReadRight(q)' /\ DirOk(dir'[q])
    <3>1. opened[q] /\ ReadOk(dir[q], fout[q], fin[q], out[q], rpos[q], buf[q])
          /\ DirOk(dir[q])
      BY <1>0, <1>1, <2>2, TookFacts DEF QueueInv, ReadRight
    <3>2. /\ dir[q][fout[q]] \in Seq(Urls) /\ out[q] \in Nat /\ rpos[q] \in Nat
          /\ buf[q] \in Seq(Urls)
      BY <1>0, <3>1 DEF ReadOk, FilesFrom, DirTypes, IsFiles
    <3>3. ReadPart(dir[q][fout[q]], out[q] + 1, rpos[q], Tail(buf[q]))
      BY <1>1, <3>1, <3>2, TailOfRead DEF ReadOk
    <3>4. /\ buf'[q] = Tail(buf[q]) /\ out'[q] = out[q] + 1
          /\ UNCHANGED <<fin, fout, opened>>
      BY <1>0, <1>1, TookFacts
    <3> QED
      BY <1>1, <3>1, <3>3, <3>4 DEF ReadRight, ReadOk
  <2> QED
    BY <2>1, <2>2 DEF QueueInv, Alone
<1>4. ASSUME NEW r \in Queues, r # q PROVE QueueInv(r)'
  <2>1. SameQueue(r) /\ SameSteps(r)
    BY <1>0, <1>1, <1>4, TookFacts DEF SameQueue
  <2> QED
    BY <1>0, <2>1, QueueKept
<1> QED
  BY <1>1, <1>2, <1>3, <1>4, TookFacts, InvByQueueNext

\* What readLine reads, when it has nothing in its buffer.
LEMMA GetReadFacts ==
    ASSUME DiskInv, NEW q \in Queues, GetRead(q)
    PROVE  /\ Taking(q) /\ OthersKept(q) /\ TypeOK'
           /\ \A r \in Queues : r # q => SameQueue(r)
           /\ DOMAIN dir'[q] = DOMAIN dir[q]
           /\ Len(dir'[q][fin[q]]) + Len(outbuf'[q]) = Len(dir[q][fin[q]]) + Len(outbuf[q])
           /\ \/ MustFlush(q) /\ dir' = FlushOut(q)
                 /\ outbuf' = [outbuf EXCEPT ![q] = <<>>]
                 /\ Grown(dir[q], dir'[q], fin[q], outbuf[q])
              \/ ~MustFlush(q) /\ UNCHANGED <<dir, outbuf>>
<1>0. /\ TypeOK /\ DirTypes /\ fin \in [Queues -> Nat] /\ fout \in [Queues -> Nat]
      /\ in \in [Queues -> Nat] /\ out \in [Queues -> Nat] /\ rpos \in [Queues -> Nat]
      /\ outbuf \in [Queues -> Seq(Urls)] /\ buf \in [Queues -> Seq(Urls)]
      /\ opened \in [Queues -> BOOLEAN]
  BY TypeFacts DEF DiskInv
<1>1. Taking(q)
  BY DEF GetRead, Taking
<1>2. PICK n \in 1 .. Len(Readable(q)) :
          /\ buf' = [buf EXCEPT ![q] = SubSeq(Readable(q), 2, n)]
          /\ rpos' = [rpos EXCEPT ![q] = @ + n]
  BY DEF GetRead
<1>3. \/ /\ MustFlush(q) /\ dir' = FlushOut(q)
         /\ outbuf' = [outbuf EXCEPT ![q] = <<>>]
      \/ ~MustFlush(q) /\ UNCHANGED <<dir, outbuf>>
  BY DEF GetRead
<1>4. fin[q] \in DOMAIN dir[q] /\ (opened[q] => fout[q] \in DOMAIN dir[q])
  BY <1>1, TookFacts
<1>5. /\ OthersKept(q) /\ DOMAIN dir'[q] = DOMAIN dir[q]
      /\ Len(dir'[q][fin[q]]) + Len(outbuf'[q]) = Len(dir[q][fin[q]]) + Len(outbuf[q])
      /\ MustFlush(q) => Grown(dir[q], dir'[q], fin[q], outbuf[q])
  <2>1. CASE MustFlush(q)
    BY <1>0, <1>3, <1>4, <2>1, FlushLen
  <2>2. CASE ~MustFlush(q)
    BY <1>3, <2>2 DEF OthersKept
  <2> QED
    BY <2>1, <2>2
<1>6. TypeOK'
  <2>1. DirTypes'
    BY <1>0, <1>3, FlushTypes
  <2>2. outbuf' \in [Queues -> Seq(Urls)]
    BY <1>0, <1>3, EmptySeq
  <2>3. Unread(q) \in Seq(Urls)
    <3>1. CASE opened[q]
      <4>1. dir[q][fout[q]] \in Seq(Urls)
        BY <1>0, <1>4, <3>1 DEF DirTypes, IsFiles
      <4>2. rpos[q] + 1 \in Int /\ Len(dir[q][fout[q]]) \in Int /\ rpos[q] \in Nat
        BY <1>0, <4>1, LenProperties
      <4>3. \A i \in rpos[q] + 1 .. Len(dir[q][fout[q]]) : dir[q][fout[q]][i] \in Urls
        BY <4>1, <4>2, ElementOfSeq
      <4> QED
        BY <3>1, <4>2, <4>3, SubSeqProperties DEF Unread
    <3>2. CASE ~opened[q]
      BY <3>2, EmptySeq DEF Unread
    <3> QED
      BY <3>1, <3>2
  <2>4. Readable(q) \in Seq(Urls)
    BY <1>0, <2>3 DEF Readable
  <2>5. SubSeq(Readable(q), 2, n) \in Seq(Urls)
    <3> DEFINE g == Readable(q)
    <3>1. g \in Seq(Urls) /\ n \in 1 .. Len(g)
      BY <2>4
    <3> HIDE DEF g
    <3>2. Len(g) \in Nat /\ n \in Int /\ \A i \in 2 .. n : g[i] \in Urls
      BY <3>1, LenProperties, ElementOfSeq
    <3>3. SubSeq(g, 2, n) \in Seq(Urls)
      BY <3>2, SubSeqProperties
    <3> QED
      BY <3>3 DEF g
  <2>6. buf' \in [Queues -> Seq(Urls)] /\ rpos' \in [Queues -> Nat]
    <3>1. n \in Nat /\ rpos[q] + n \in Nat
      BY <1>0, <2>4, LenProperties
    <3> QED
      BY <1>0, <1>2, <2>5, <3>1
  <2>7. step' \in Steps /\ todo' \in Seq(Queues) /\ out' \in [Queues -> Nat]
        /\ UNCHANGED <<hashBin, hashOld, fin, fout, in, opened, seen>>
    BY <1>1, TookFacts DEF Steps
  <2> QED
    BY <1>0, <2>1, <2>2, <2>6, <2>7 DEF TypeOK, DirTypes, IsFiles
<1>7. ASSUME NEW r \in Queues, r # q PROVE SameQueue(r)
  <2>1. dir'[r] = dir[r] /\ outbuf'[r] = outbuf[r]
    BY <1>0, <1>3, <1>5, <1>7 DEF OthersKept
  <2>2. buf'[r] = buf[r] /\ rpos'[r] = rpos[r]
    BY <1>0, <1>2, <1>7
  <2> QED
    BY <1>1, <1>7, <2>1, <2>2, TookFacts DEF SameQueue
<1> QED
  BY <1>1, <1>3, <1>5, <1>6, <1>7

LEMMA GetReadInv ==
    ASSUME DiskInv, NEW q \in Queues, GetRead(q)
    PROVE  DiskInv'
<1>0. /\ TypeOK /\ DirTypes /\ fin \in [Queues -> Nat] /\ fout \in [Queues -> Nat]
      /\ in \in [Queues -> Nat] /\ out \in [Queues -> Nat] /\ rpos \in [Queues -> Nat]
      /\ outbuf \in [Queues -> Seq(Urls)] /\ buf \in [Queues -> Seq(Urls)]
      /\ \A r \in Queues : QueueInv(r)
  BY TypeFacts DEF DiskInv, QueueInv
<1>1. /\ Taking(q) /\ OthersKept(q) /\ TypeOK'
      /\ \A r \in Queues : r # q => SameQueue(r)
      /\ DOMAIN dir'[q] = DOMAIN dir[q]
      /\ Len(dir'[q][fin[q]]) + Len(outbuf'[q]) = Len(dir[q][fin[q]]) + Len(outbuf[q])
      /\ \/ MustFlush(q) /\ Grown(dir[q], dir'[q], fin[q], outbuf[q])
         \/ ~MustFlush(q) /\ UNCHANGED <<dir, outbuf>>
  BY GetReadFacts
<1>2. QueueInv(q)'
  <2>1. QueueRight(q)' /\ WriteRight(q)'
    BY <1>1, TookFacts DEF QueueRight, WriteRight
  <2>2. ASSUME Alone(q) PROVE ReadRight(q)' /\ DirOk(dir'[q])
    <3> DEFINE f == dir[q][fout[q]]
               e == dir'[q][fout[q]]
    <3>1. opened[q] /\ ReadOk(dir[q], fout[q], fin[q], out[q], rpos[q], buf[q])
      BY <1>0, <1>1, <2>2, TookFacts DEF QueueInv, ReadRight
    <3>2. buf[q] = <<>> /\ Readable(q) # <<>>
      BY DEF GetRead
    <3>3. /\ f \in Seq(Urls) /\ fout[q] \in DOMAIN dir[q] /\ rpos[q] \in Nat
          /\ outbuf[q] \in Seq(Urls) /\ IsFiles(dir[q], Urls)
      BY <1>0, <3>1 DEF ReadOk, FilesFrom, DirTypes, IsFiles
    <3>4. rpos[q] = out[q] /\ rpos[q] <= Len(f)
      BY <1>0, <3>1, <3>2, EmptySeq DEF ReadOk, ReadPart
    <3>5. /\ FilesFrom(dir'[q], fout[q], fin[q]) /\ e \in Seq(Urls)
          /\ Readable(q) = SubSeq(e, rpos[q] + 1, Len(e))
      <4>1. CASE MustFlush(q)
        <5>1. Unread(q) = <<>> /\ SubSeq(f, rpos[q] + 1, Len(f)) = <<>>
          BY <3>1, <4>1 DEF MustFlush, Unread
        <5>2. fin[q] = fout[q] /\ Readable(q) = outbuf[q]
          BY <3>2, <4>1, <5>1 DEF Readable
        <5>3. rpos[q] = Len(f)
          BY <3>3, <3>4, <5>1, NothingBehind
        <5>4. Grown(dir[q], dir'[q], fin[q], outbuf[q])
          BY <1>1, <4>1
        <5>5. e = f \o outbuf[q]
          BY <3>3, <5>2, <5>4 DEF Grown
        <5>6. FilesFrom(dir'[q], fout[q], fin[q])
          BY <3>1, <3>3, <5>4, GrownFrom DEF ReadOk
        <5>7. SubSeq(f \o outbuf[q], Len(f) + 1, Len(f \o outbuf[q])) = outbuf[q]
              /\ f \o outbuf[q] \in Seq(Urls)
          BY <3>3, EndOfGrown, ConcatProperties
        <5> QED
          BY <5>2, <5>3, <5>5, <5>6, <5>7
      <4>2. CASE ~MustFlush(q)
        BY <1>1, <3>1, <3>3, <4>2 DEF Readable, Unread, ReadOk
      <4> QED
        BY <4>1, <4>2
    <3>6. PICK n \in 1 .. Len(Readable(q)) :
              buf'[q] = SubSeq(Readable(q), 2, n) /\ rpos'[q] = rpos[q] + n
      BY <1>0 DEF GetRead
    <3>7. ReadPart(e, rpos[q] + 1, rpos[q] + n, SubSeq(Readable(q), 2, n))
      <4> DEFINE g == Readable(q)
                 r == rpos[q]
      <4>1. g = SubSeq(e, r + 1, Len(e)) /\ n \in 1 .. Len(g) /\ e \in Seq(Urls) /\ r \in Nat
        BY <3>3, <3>5
      <4> HIDE DEF g, e, r
      <4>2. ReadPart(e, r + 1, r + n, SubSeq(g, 2, n))
        BY <4>1, ReadSome
      <4> QED
        BY <4>2 DEF g, r
    <3>8. ReadOk(dir'[q], fout[q], fin[q], out[q] + 1, rpos'[q], buf'[q])
      BY <3>4, <3>5, <3>6, <3>7 DEF ReadOk
    <3>9. out'[q] = out[q] + 1 /\ UNCHANGED <<fin, fout, opened>>
      BY <1>1, TookFacts
    <3> QED
      BY <3>1, <3>8, <3>9 DEF ReadRight, ReadOk, FilesFrom, DirOk
  <2> QED
    BY <2>1, <2>2 DEF QueueInv, Alone
<1>3. ASSUME NEW r \in Queues, r # q PROVE QueueInv(r)'
  <2>1. SameQueue(r) /\ SameSteps(r)
    BY <1>1, <1>3, TookFacts
  <2> QED
    BY <1>0, <2>1, QueueKept
<1> QED
  BY <1>1, <1>2, <1>3, TookFacts, InvByQueueNext

\* readLine aborts, or flushes and goes on in vain.
FailsFlushed(q) ==
    step' = "spinning" /\ dir' = FlushOut(q) /\ outbuf' = [outbuf EXCEPT ![q] = <<>>]
FailsAborted == step' = "aborted" /\ UNCHANGED <<dir, outbuf>>

LEMMA GetFailsIs ==
    ASSUME NEW q \in Queues, GetFails(q)
    PROVE  /\ step = "run" /\ (FailsFlushed(q) \/ FailsAborted)
           /\ UNCHANGED <<hashBin, hashOld, fin, fout, in, out, buf, opened, rpos, seen, todo>>
BY DEF GetFails, FailsFlushed, FailsAborted

LEMMA GetFailsInv ==
    ASSUME DiskInv, NEW q \in Queues, GetFails(q)
    PROVE  DiskInv'
<1>0. /\ TypeOK /\ DirTypes /\ fin \in [Queues -> Nat] /\ fout \in [Queues -> Nat]
      /\ in \in [Queues -> Nat] /\ out \in [Queues -> Nat] /\ rpos \in [Queues -> Nat]
      /\ outbuf \in [Queues -> Seq(Urls)] /\ buf \in [Queues -> Seq(Urls)]
      /\ \A r \in Queues : QueueInv(r)
  BY TypeFacts DEF DiskInv, QueueInv
<1>1. /\ step = "run" /\ step' \in {"spinning", "aborted"}
      /\ FailsFlushed(q) \/ FailsAborted
      /\ UNCHANGED <<hashBin, hashOld, fin, fout, in, out, buf, opened, rpos, seen, todo>>
  BY GetFailsIs DEF FailsFlushed, FailsAborted
<1>2. \A r \in Queues : SameSteps(r)
  BY <1>1 DEF SameSteps, Open, Running, Filled, AllRead
<1>3. StepsRight'
  BY <1>1 DEF StepsRight
<1>4. CASE FailsAborted
  <2>1. TypeOK'
    BY <1>0, <1>1, <1>4 DEF FailsAborted, TypeOK, Steps
  <2>2. \A r \in Queues : SameQueue(r)
    BY <1>1, <1>4 DEF FailsAborted, SameQueue
  <2>3. \A r \in Queues : QueueInv(r)'
    BY <1>0, <1>2, <2>2, QueueKept
  <2> QED
    BY <1>3, <2>1, <2>3, InvByQueueNext
<1>5. CASE FailsFlushed(q)
  <2>1. step' = "spinning" /\ dir' = FlushOut(q) /\ outbuf' = [outbuf EXCEPT ![q] = <<>>]
    BY <1>5 DEF FailsFlushed
  <2>2. /\ Open(q) /\ Open(q)' /\ ~Filled(q) /\ ~Filled(q)' /\ ~AllRead(q) /\ ~AllRead(q)'
    BY <1>1, <2>1 DEF Open, Running, Filled, AllRead
  <2>3. /\ fin[q] \in DOMAIN dir[q] /\ DOMAIN dir[q] \subseteq 0 .. MaxFile + 1
        /\ CountOk(in[q], fout[q], fin[q], Len(dir[q][fin[q]]) + Len(outbuf[q]), out[q])
        /\ Len(dir[q][fin[q]]) + Len(outbuf[q]) # UrlByFile
        /\ out[q] # UrlByFile /\ (opened[q] => fout[q] \in DOMAIN dir[q])
    BY <1>0, <2>2 DEF QueueInv, QueueRight, WriteRight
  <2>4. /\ DOMAIN dir'[q] = DOMAIN dir[q] /\ OthersKept(q)
        /\ Grown(dir[q], dir'[q], fin[q], outbuf[q]) /\ outbuf'[q] = <<>>
        /\ Len(dir'[q][fin[q]]) + Len(outbuf'[q]) = Len(dir[q][fin[q]]) + Len(outbuf[q])
    BY <1>0, <2>1, <2>3, FlushLen
  <2>5. TypeOK'
    <3>1. DirTypes'
      BY <1>0, <2>1, FlushTypes
    <3>2. outbuf' \in [Queues -> Seq(Urls)] /\ step' \in Steps
      BY <1>0, <2>1, EmptySeq DEF Steps
    <3> QED
      BY <1>0, <1>1, <3>1, <3>2 DEF TypeOK, DirTypes, IsFiles
  <2>6. QueueInv(q)'
    <3>1. QueueRight(q)' /\ WriteRight(q)'
      BY <1>1, <2>1, <2>2, <2>3, <2>4 DEF QueueRight, WriteRight
    <3>2. ASSUME Alone(q) PROVE ReadRight(q)' /\ DirOk(dir'[q])
      <4>1. opened[q] /\ ReadOk(dir[q], fout[q], fin[q], out[q], rpos[q], buf[q])
        BY <1>0, <2>2, <3>2 DEF QueueInv, ReadRight
      <4>2. /\ outbuf[q] \in Seq(Urls) /\ IsFiles(dir[q], Urls) /\ out[q] \in Nat
            /\ rpos[q] \in Nat /\ buf[q] \in Seq(Urls)
        BY <1>0 DEF DirTypes
      <4>3. ReadOk(dir'[q], fout[q], fin[q], out[q], rpos[q], buf[q])
        BY <2>4, <4>1, <4>2, ReadGrown
      <4> QED
        BY <1>1, <4>1, <4>3 DEF ReadRight, ReadOk, FilesFrom, DirOk
    <3> QED
      BY <3>1, <3>2 DEF QueueInv, Alone
  <2>7. ASSUME NEW r \in Queues, r # q PROVE QueueInv(r)'
    <3>1. SameQueue(r)
      BY <1>0, <1>1, <2>1, <2>4, <2>7 DEF SameQueue, OthersKept
    <3> QED
      BY <1>0, <1>2, <3>1, QueueKept
  <2> QED
    BY <1>3, <2>5, <2>6, <2>7, InvByQueueNext
<1> QED
  BY <1>1, <1>4, <1>5
-----------------------------------------------------------------------------
(***************************************************************************)
(* The end of a file that is read.                                         *)
(***************************************************************************)
\* At the end of a file the next one is there, and counts.
LEMMA ReadOver ==
    ASSUME DiskInv, NEW q \in Queues, AllRead(q)
    PROVE  /\ Open(q) /\ out[q] = UrlByFile /\ fout[q] < fin[q] /\ fin[q] \in DOMAIN dir[q]
           /\ in[q] - out[q] \in Nat /\ ~Filled(q)
           /\ CountOk(in[q] - out[q], fout[q] + 1, fin[q],
                      Len(dir[q][fin[q]]) + Len(outbuf[q]), 0)
           /\ Len(dir[q][fin[q]]) + Len(outbuf[q]) # UrlByFile
<1>0. /\ DirTypes /\ fin \in [Queues -> Nat] /\ fout \in [Queues -> Nat]
      /\ in \in [Queues -> Nat] /\ out \in [Queues -> Nat]
      /\ outbuf \in [Queues -> Seq(Urls)] /\ QueueInv(q)
  BY TypeFacts DEF DiskInv, QueueInv
<1>1. Open(q) /\ ~Filled(q)
  BY DEF AllRead, Open, Running, Filled
<1>2. /\ fin[q] \in DOMAIN dir[q] /\ out[q] = UrlByFile
      /\ CountOk(in[q], fout[q], fin[q], Len(dir[q][fin[q]]) + Len(outbuf[q]), UrlByFile)
      /\ Len(dir[q][fin[q]]) + Len(outbuf[q]) # UrlByFile
  BY <1>0, <1>1 DEF QueueInv, WriteRight
<1>3. Len(dir[q][fin[q]]) + Len(outbuf[q]) \in Nat
  <2>1. dir[q][fin[q]] \in Seq(Urls) /\ outbuf[q] \in Seq(Urls)
    BY <1>0, <1>2 DEF DirTypes, IsFiles
  <2>2. Len(dir[q][fin[q]]) \in Nat
    BY <2>1, LenProperties
  <2>3. Len(outbuf[q]) \in Nat
    BY <2>1, LenProperties
  <2>4. \A n, m \in Nat : n + m \in Nat
    OBVIOUS
  <2> QED
    BY <2>2, <2>3, <2>4
<1> DEFINE w == Len(dir[q][fin[q]]) + Len(outbuf[q])
<1>4. /\ w \in Nat /\ CountOk(in[q], fout[q], fin[q], w, UrlByFile) /\ w # UrlByFile
      /\ in[q] \in Nat /\ fout[q] \in Nat /\ fin[q] \in Nat
  BY <1>0, <1>2, <1>3
<1> HIDE DEF w
<1>5. /\ fout[q] < fin[q] /\ in[q] - UrlByFile \in Nat
      /\ CountOk(in[q] - UrlByFile, fout[q] + 1, fin[q], w, 0)
  BY <1>4, CountRead
<1> QED
  BY <1>1, <1>2, <1>5 DEF w

\* And the reader has read nothing ahead: the assertion of updateRead.
LEMMA NothingAhead ==
    ASSUME DiskInv, NEW q \in Queues, AllRead(q), Alone(q)
    PROVE  /\ buf[q] = <<>> /\ FilesFrom(dir[q], fout[q], fin[q])
           /\ Len(dir[q][fout[q]]) = UrlByFile
<1>0. /\ DirTypes /\ fin \in [Queues -> Nat] /\ fout \in [Queues -> Nat]
      /\ buf \in [Queues -> Seq(Urls)] /\ QueueInv(q)
  BY TypeFacts DEF DiskInv, QueueInv
<1>1. Open(q) /\ out[q] = UrlByFile /\ fout[q] < fin[q] /\ UrlByFile \in Nat
  BY ReadOver, FilesAssumption
<1>2. ReadOk(dir[q], fout[q], fin[q], out[q], rpos[q], buf[q])
  BY <1>0, <1>1 DEF QueueInv, ReadRight
<1>3. FilesFrom(dir[q], fout[q], fin[q]) /\ Len(dir[q][fout[q]]) = UrlByFile
  <2>1. fout[q] \in fout[q] .. fin[q] - 1 /\ fout[q] \in DOMAIN dir[q]
    BY <1>0, <1>1, <1>2 DEF ReadOk, FilesFrom
  <2> QED
    BY <1>2, <2>1 DEF ReadOk, FilesFrom, FullFiles, FileOf
<1>4. UrlByFile + Len(buf[q]) <= UrlByFile
  BY <1>1, <1>2, <1>3 DEF ReadOk, ReadPart
<1>5. Len(buf[q]) = 0
  <2>1. Len(buf[q]) \in Nat
    BY <1>0, LenProperties
  <2> QED
    BY <1>1, <1>4, <2>1
<1>6. buf[q] = <<>>
  BY <1>0, <1>5, EmptySeq
<1> QED
  BY <1>3, <1>6

LEMMA RollReadInv == ASSUME DiskInv, RollRead PROVE DiskInv'
<1>0. /\ TypeOK /\ DirTypes /\ fin \in [Queues -> Nat] /\ fout \in [Queues -> Nat]
      /\ in \in [Queues -> Nat] /\ out \in [Queues -> Nat] /\ rpos \in [Queues -> Nat]
      /\ outbuf \in [Queues -> Seq(Urls)] /\ buf \in [Queues -> Seq(Urls)]
      /\ opened \in [Queues -> BOOLEAN]
      /\ \A r \in Queues : QueueInv(r)
  BY TypeFacts DEF DiskInv, QueueInv
<1>1. PICK q \in Queues : todo = <<q>>
  BY DEF DiskInv, StepsRight, RollRead
<1>2. /\ step = "consumed" /\ todo' = <<>>
      /\ step' = (IF buf[q] = <<>> THEN "run" ELSE "aborted")
      /\ dir' = [dir EXCEPT ![q] = [k \in DOMAIN @ \ {fout[q]} |-> @[k]]]
      /\ fout' = [fout EXCEPT ![q] = @ + 1]
      /\ opened' = [opened EXCEPT ![q] = fout[q] + 1 \in DOMAIN dir'[q]]
      /\ in' = [in EXCEPT ![q] = in[q] - out[q]]
      /\ out' = [out EXCEPT ![q] = 0] /\ rpos' = [rpos EXCEPT ![q] = 0]
      /\ UNCHANGED <<hashBin, hashOld, fin, outbuf, buf, seen>>
  BY <1>1 DEF RollRead, InLeft, FileOver
<1>3. AllRead(q) /\ ~AllRead(q)' /\ ~Filled(q)' /\ step' # "loading"
  BY <1>1, <1>2 DEF AllRead, Filled
<1>4. /\ Open(q) /\ out[q] = UrlByFile /\ fout[q] < fin[q] /\ fin[q] \in DOMAIN dir[q]
      /\ in[q] - out[q] \in Nat
      /\ CountOk(in[q] - out[q], fout[q] + 1, fin[q],
                 Len(dir[q][fin[q]]) + Len(outbuf[q]), 0)
      /\ Len(dir[q][fin[q]]) + Len(outbuf[q]) # UrlByFile
  BY <1>3, ReadOver
<1>5. /\ DOMAIN dir' = Queues /\ OthersKept(q) /\ Removed(dir[q], dir'[q], fout[q])
  BY <1>0, <1>2, RemoveDir DEF DirTypes
<1>6. /\ fout'[q] = fout[q] + 1 /\ in'[q] = in[q] - out[q] /\ out'[q] = 0 /\ rpos'[q] = 0
      /\ opened'[q] = (fout[q] + 1 \in DOMAIN dir'[q])
      /\ fin[q] \in Nat /\ fout[q] \in Nat
  BY <1>0, <1>2
<1>7. TypeOK'
  <2>1. DirTypes'
    <3>1. IsFiles(dir'[q], Urls)
      BY <1>0, <1>5, RemovedFiles DEF DirTypes
    <3> QED
      BY <1>0, <1>5, <3>1 DEF DirTypes, OthersKept
  <2>2. /\ fout' \in [Queues -> Nat] /\ in' \in [Queues -> Nat]
        /\ out' \in [Queues -> Nat] /\ rpos' \in [Queues -> Nat]
    BY <1>0, <1>2, <1>4
  <2>3. opened' \in [Queues -> BOOLEAN] /\ step' \in Steps /\ todo' \in Seq(Queues)
    BY <1>0, <1>2 DEF Steps
  <2> QED
    BY <1>0, <1>2, <2>1, <2>2, <2>3 DEF TypeOK, DirTypes, IsFiles
<1>8. StepsRight'
  BY <1>2 DEF StepsRight
<1>9. QueueInv(q)'
  <2>1. DOMAIN dir'[q] \subseteq 0 .. MaxFile + 1 /\ QueueRight(q)'
    BY <1>0, <1>3, <1>5 DEF QueueInv, QueueRight, Removed
  <2>2. fin[q] \in DOMAIN dir'[q] /\ dir'[q][fin[q]] = dir[q][fin[q]]
    BY <1>4, <1>5, <1>6 DEF Removed
  <2>3. WriteRight(q)'
    <3>1. CountOk(in'[q], fout'[q], fin'[q], Len(dir'[q][fin'[q]]) + Len(outbuf'[q]), out'[q])
      BY <1>2, <1>4, <1>6, <2>2
    <3>2. Len(dir'[q][fin'[q]]) + Len(outbuf'[q]) # UrlByFile /\ out'[q] # UrlByFile
      BY <1>2, <1>4, <1>6, <2>2, FilesAssumption
    <3>3. opened'[q] => fout'[q] \in DOMAIN dir'[q]
      BY <1>6
    <3> QED
      BY <1>2, <1>3, <2>2, <3>1, <3>2, <3>3 DEF WriteRight
  <2>4. ASSUME Alone(q) PROVE ReadRight(q)' /\ DirOk(dir'[q])
    <3>1. buf[q] = <<>> /\ FilesFrom(dir[q], fout[q], fin[q])
      BY <1>3, <2>4, NothingAhead
    <3>2. FilesFrom(dir'[q], fout[q] + 1, fin[q])
      BY <1>4, <1>5, <3>1, RemovedFrom
    <3>3. opened'[q] /\ fout[q] + 1 \in DOMAIN dir'[q]
      <4>1. fout[q] + 1 <= fin[q] /\ DOMAIN dir'[q] = fout[q] + 1 .. fin[q]
        BY <3>2 DEF FilesFrom
      <4>2. fout[q] + 1 \in fout[q] + 1 .. fin[q]
        BY <1>6, <4>1
      <4> QED
        BY <1>6, <4>1, <4>2
    <3>4. ReadPart(dir'[q][fout[q] + 1], 0, 0, <<>>)
      <4>1. dir'[q][fout[q] + 1] \in Seq(Urls)
        BY <1>5, <1>0, <3>3 DEF Removed, DirTypes, IsFiles
      <4> DEFINE f == dir'[q][fout[q] + 1]
      <4>2. f \in Seq(Urls)
        BY <4>1
      <4> HIDE DEF f
      <4>3. Len(f) \in Nat /\ SubSeq(f, 0 + 1, 0) = <<>> /\ Len(<<>>) = 0
        BY <4>2, LenProperties, SubSeqEmpty, EmptySeq
      <4>4. ReadPart(f, 0, 0, <<>>)
        BY <4>3 DEF ReadPart
      <4> QED
        BY <4>4 DEF f
    <3> QED
      BY <1>2, <1>6, <3>1, <3>2, <3>3, <3>4 DEF ReadRight, ReadOk, DirOk, FilesFrom
  <2> QED
    BY <2>1, <2>3, <2>4 DEF QueueInv, Alone
<1>10. ASSUME NEW r \in Queues, r # q PROVE QueueInv(r)'
  <2>1. SameQueue(r)
    BY <1>0, <1>2, <1>5, <1>10 DEF SameQueue, OthersKept
  <2>2. <<q>> # <<r>>
    BY <1>10
  <2>3. SameSteps(r)
    BY <1>1, <1>2, <2>2 DEF SameSteps, Open, Running, Filled, AllRead
  <2> QED
    BY <1>0, <2>1, <2>3, QueueKept
<1> QED
  BY <1>7, <1>8, <1>9, <1>10, InvByQueueNext

-----------------------------------------------------------------------------
(***************************************************************************)
(* The end of the program and its beginning.                               *)
(***************************************************************************)
LEMMA ForgetFacts ==
    ASSUME Forget
    PROVE  /\ fin' \in [Queues -> Nat] /\ fout' \in [Queues -> Nat]
           /\ in' \in [Queues -> Nat] /\ out' \in [Queues -> Nat] /\ rpos' \in [Queues -> Nat]
           /\ outbuf' \in [Queues -> Seq(Urls)] /\ buf' \in [Queues -> Seq(Urls)]
           /\ seen' = {}
           /\ \A q \in Queues : /\ fin'[q] = 0 /\ fout'[q] = 0 /\ in'[q] = 0
                                /\ out'[q] = 0 /\ rpos'[q] = 0
                                /\ outbuf'[q] = <<>> /\ buf'[q] = <<>>
BY EmptySeq DEF Forget, Zero, Empty

LEMMA OrderHas ==
    ASSUME NEW q \in Queues
    PROVE  q \in ToSet(Order)
<1>1. DOMAIN Order = 1 .. Len(Order)
  BY QueuesAssumption
<1> QED
  BY <1>1 DEF Queues, ToSet

LEMMA StopInv ==
    ASSUME DiskInv, Crash \/ Reload
    PROVE  DiskInv'
<1>0. TypeOK /\ \A r \in Queues : QueueInv(r)
  BY DEF DiskInv, QueueInv
<1>1. /\ Forget /\ opened' = [q \in Queues |-> FALSE]
      /\ UNCHANGED <<dir, hashBin, hashOld>>
      /\ \/ step' = "down" /\ todo' = <<>>
         \/ step' = "loading" /\ todo' = Order
  BY DEF Crash, Reload, diskVars
<1>2. TypeOK'
  <2>1. step' \in Steps /\ todo' \in Seq(Queues)
    BY <1>1, QueuesAssumption, EmptySeq DEF Steps
  <2> QED
    BY <1>0, <1>1, <2>1, ForgetFacts DEF TypeOK
<1>3. StepsRight'
  BY <1>1 DEF StepsRight
<1>4. ASSUME NEW r \in Queues PROVE QueueInv(r)'
  <2>1. ~Open(r)' /\ ~Filled(r)'
    BY <1>1, OrderHas DEF Open, Running, Filled
  <2>2. QueueRight(r)'
    BY <1>0, <1>1, <2>1, ForgetFacts DEF QueueInv, QueueRight
  <2>3. WriteRight(r)' /\ ReadRight(r)'
    BY <2>1 DEF WriteRight, ReadRight
  <2>4. Alone(r) => DirOk(dir'[r])
    BY <1>0, <1>1 DEF QueueInv
  <2> QED
    BY <2>2, <2>3, <2>4 DEF QueueInv, Alone
<1> QED
  BY <1>2, <1>3, <1>4, InvByQueueNext

\* A first file with nothing in it.
LEMMA FirstFile ==
    ASSUME NEW d, d = [k \in {0} |-> <<>>]
    PROVE  /\ DOMAIN d = {0} /\ d[0] = <<>> /\ IsFiles(d, Urls)
           /\ FilesFrom(d, 0, 0) /\ ReadOk(d, 0, 0, 0, 0, <<>>) /\ DirOk(d)
<1>1. DOMAIN d = {0} /\ d[0] = <<>> /\ IsFiles(d, Urls)
  BY EmptySeq DEF IsFiles
<1>2. FilesFrom(d, 0, 0)
  <2>1. 0 .. 0 = {0} /\ 0 .. 0 - 1 = {}
    OBVIOUS
  <2> QED
    BY <1>1, <2>1 DEF FilesFrom, FullFiles
<1>3. ReadPart(<<>>, 0, 0, <<>>)
  <2>1. SubSeq(<<>>, 0 + 1, 0) = <<>> /\ Len(<<>>) = 0
    BY SubSeqEmpty, EmptySeq
  <2> QED
    BY <2>1 DEF ReadPart
<1> QED
  BY <1>1, <1>2, <1>3 DEF ReadOk, DirOk

\* The program begins with nothing but, perhaps, the files of a table.
Begins ==
    /\ dir = [q \in Queues |-> [k \in {0} |-> <<>>]]
    /\ {hashBin, hashOld} \subseteq TableFiles
    /\ fin = Zero /\ fout = Zero /\ in = Zero /\ out = Zero /\ rpos = Zero
    /\ outbuf = Empty /\ buf = Empty
    /\ opened = [q \in Queues |-> TRUE]
    /\ seen = {}
    /\ step = "run" /\ todo = <<>>

LEMMA BeginsRight == Begins => DiskInv
<1> SUFFICES ASSUME Begins PROVE DiskInv
  OBVIOUS
<1>1. /\ {fin, fout, in, out, rpos} \subseteq [Queues -> Nat]
      /\ {outbuf, buf} \subseteq [Queues -> Seq(Urls)]
      /\ \A q \in Queues : /\ fin[q] = 0 /\ fout[q] = 0 /\ in[q] = 0
                           /\ out[q] = 0 /\ rpos[q] = 0
                           /\ outbuf[q] = <<>> /\ buf[q] = <<>> /\ opened[q] = TRUE
                           /\ dir[q] = [k \in {0} |-> <<>>]
  BY EmptySeq DEF Begins, Zero, Empty
<1>2. TypeOK
  <2>1. \A q \in Queues : IsFiles(dir[q], Urls)
    BY <1>1, FirstFile
  <2> QED
    BY <1>1, <2>1 DEF Begins, TypeOK, IsFiles, Steps
<1>3. StepsRight /\ step = "run"
  BY DEF Begins, StepsRight
<1>4. ASSUME NEW q \in Queues PROVE QueueInv(q)
  <2>1. /\ DOMAIN dir[q] = {0} /\ dir[q][0] = <<>> /\ FilesFrom(dir[q], 0, 0)
        /\ ReadOk(dir[q], 0, 0, 0, 0, <<>>) /\ DirOk(dir[q])
    BY <1>1, FirstFile
  <2>2. ~Filled(q) /\ ~AllRead(q)
    BY <1>3 DEF Filled, AllRead
  <2>3. UrlByFile \in Nat \ {0} /\ MaxFile \in Nat
    BY FilesAssumption
  <2>4. QueueRight(q)
    BY <1>3, <2>1, <2>2, <2>3 DEF QueueRight
  <2>5. WriteRight(q)
    <3>1. CountOk(0, 0, 0, 0 + 0, 0)
      BY <2>3 DEF CountOk
    <3>2. Len(dir[q][0]) + Len(outbuf[q]) = 0 + 0 /\ 0 + 0 # UrlByFile
      BY <1>1, <2>1, <2>3, EmptySeq
    <3> QED
      BY <1>1, <1>3, <2>1, <2>2, <2>3, <3>1, <3>2 DEF WriteRight
  <2>6. ReadRight(q)
    BY <1>1, <2>1 DEF ReadRight
  <2> QED
    BY <2>1, <2>4, <2>5, <2>6 DEF QueueInv
<1> QED
  BY <1>2, <1>3, <1>4, InvByQueue

LEMMA InitInv == Init => DiskInv
<1>1. Init => Begins
  BY DEF Init, Begins, TableFiles
<1> QED
  BY <1>1, BeginsRight

LEMMA ScratchInv == ASSUME DiskInv, Scratch PROVE DiskInv'
<1>1. {hashBin, hashOld} \subseteq TableFiles
  BY DEF DiskInv, TypeOK
<1>2. Begins'
  BY <1>1 DEF Scratch, Forget, Fresh, Begins
<1>3. Begins' => DiskInv'
  BY BeginsRight, PTL
<1> QED
  BY <1>2, <1>3

-----------------------------------------------------------------------------
(***************************************************************************)
(* --reload.                                                               *)
(***************************************************************************)
FirstOf(q) == IF Numbers(q) = {} THEN 0 ELSE Min(Numbers(q))
LastOf(q) == IF Numbers(q) = {} THEN 0 ELSE Max(Numbers(q))

LEMMA BoundsOf ==
    ASSUME DiskInv, NEW q \in Queues
    PROVE  /\ FirstOf(q) \in Nat /\ LastOf(q) \in Nat
           /\ FirstOf(q) <= LastOf(q) /\ LastOf(q) \in 0 .. MaxFile + 1
<1>1. Match[q] \subseteq Queues
  BY QueuesAssumption
<1>2. \A r \in Queues : DOMAIN dir[r] \subseteq 0 .. MaxFile + 1
  BY DEF DiskInv, QueueRight
<1> DEFINE X == Numbers(q)
           n == MaxFile + 1
<1>3. n \in Nat /\ X \in SUBSET (0 .. n)
  BY <1>1, <1>2, FilesAssumption DEF Numbers
<1>4. FirstOf(q) = (IF X = {} THEN 0 ELSE Min(X)) /\ LastOf(q) = (IF X = {} THEN 0 ELSE Max(X))
  BY DEF FirstOf, LastOf
<1> HIDE DEF X
<1>5. CASE X = {}
  BY <1>3, <1>4, <1>5
<1>6. CASE X # {}
  <2> HIDE DEF n
  <2>1. /\ Max(X) \in X /\ \A y \in X : y <= Max(X)
        /\ Min(X) \in X /\ \A y \in X : Min(X) <= y
    BY <1>3, <1>6, MaxOf
  <2>2. Min(X) <= Max(X) /\ Min(X) \in 0 .. n /\ Max(X) \in 0 .. n
    BY <1>3, <2>1
  <2> QED
    BY <1>3, <1>4, <1>6, <2>2 DEF n
<1> QED
  BY <1>5, <1>6

\* The reload of a queue that is alone finds its files, all of them.
LEMMA BoundsAlone ==
    ASSUME DiskInv, NEW q \in Queues, Alone(q)
    PROVE  FilesFrom(dir[q], FirstOf(q), LastOf(q))
<1>1. PICK a, b \in Nat : FilesFrom(dir[q], a, b)
  BY DEF DiskInv, DirOk
<1>2. Numbers(q) = DOMAIN dir[q] /\ DOMAIN dir[q] = a .. b /\ a <= b
  BY <1>1 DEF Numbers, Alone, FilesFrom
<1> DEFINE X == Numbers(q)
<1>3. X = a .. b /\ a \in X /\ b \in X /\ X # {} /\ X \in SUBSET (0 .. b)
  BY <1>2
<1>4. FirstOf(q) = Min(X) /\ LastOf(q) = Max(X)
  BY <1>3 DEF FirstOf, LastOf
<1> HIDE DEF X
<1>5. /\ Max(X) \in X /\ \A y \in X : y <= Max(X)
      /\ Min(X) \in X /\ \A y \in X : Min(X) <= y
  BY <1>3, MaxOf
<1>6. Max(X) = b /\ Min(X) = a
  BY <1>3, <1>5
<1> QED
  BY <1>1, <1>4, <1>6

\* The two outcomes of the constructor.
LoadRefused ==
    /\ step = "loading" /\ step' = "refused" /\ todo' = <<>>
    /\ UNCHANGED <<dir, hashBin, hashOld, fin, fout, in, out, outbuf, buf, opened, rpos, seen>>

Loaded(q) ==
    /\ step = "loading" /\ step' = "loading" /\ todo # <<>> /\ q = Head(todo)
    /\ todo' = Tail(todo)
    /\ fin' = [fin EXCEPT ![q] = LastOf(q)]
    /\ fout' = [fout EXCEPT ![q] = FirstOf(q)]
    /\ in' = [in EXCEPT ![q] = (LastOf(q) - FirstOf(q)) * UrlByFile]
    /\ dir' = Creat(q, LastOf(q))
    /\ opened' = [opened EXCEPT ![q] = FirstOf(q) \in DOMAIN dir'[q]]
    /\ UNCHANGED <<hashBin, hashOld, out, outbuf, buf, rpos, seen>>

LEMMA LoadQueueIs ==
    ASSUME TypeOK, LoadQueue
    PROVE  LoadRefused \/ \E q \in Queues : Loaded(q)
<1>1. Head(todo) \in Queues
  BY HeadTailProperties DEF TypeOK, LoadQueue
<1>2. PICK q \in Queues : q = Head(todo)
  BY <1>1
<1> QED
  BY <1>2 DEF LoadQueue, LoadRefused, Loaded, FirstOf, LastOf, WholeFiles

LEMMA RefusedInv ==
    ASSUME DiskInv, LoadRefused
    PROVE  DiskInv'
<1>0. TypeOK /\ \A r \in Queues : QueueInv(r)
  BY DEF DiskInv, QueueInv
<1>2. TypeOK' /\ StepsRight'
  BY <1>0, EmptySeq DEF LoadRefused, TypeOK, Steps, StepsRight
<1>3. ASSUME NEW r \in Queues PROVE QueueInv(r)'
  <2>1. SameQueue(r)
    BY DEF LoadRefused, SameQueue
  <2>2. SameSteps(r)
    BY DEF LoadRefused, SameSteps, Open, Running, Filled, AllRead
  <2> QED
    BY <1>0, <2>1, <2>2, QueueKept
<1> QED
  BY <1>2, <1>3, InvByQueueNext

LEMMA TodoTail ==
    ASSUME todo \in Seq(Queues), todo # <<>>
    PROVE  Tail(todo) \in Seq(Queues) /\ ToSet(todo) = ToSet(Tail(todo)) \cup {Head(todo)}
<1>1. Tail(todo) \in Seq(Queues) /\ Range(todo) = Range(Tail(todo)) \cup {Head(todo)}
  BY TailRange
<1>2. Range(todo) = ToSet(todo) /\ Range(Tail(todo)) = ToSet(Tail(todo))
  BY DEF Range, ToSet
<1> QED
  BY <1>1, <1>2

LEMMA LoadedInv ==
    ASSUME DiskInv, NEW q \in Queues, Loaded(q)
    PROVE  DiskInv'
<1> DEFINE a == FirstOf(q)
           b == LastOf(q)
           n == (b - a) * UrlByFile
<1>0. /\ TypeOK /\ DirTypes /\ fin \in [Queues -> Nat] /\ fout \in [Queues -> Nat]
      /\ in \in [Queues -> Nat] /\ out \in [Queues -> Nat] /\ rpos \in [Queues -> Nat]
      /\ outbuf \in [Queues -> Seq(Urls)] /\ buf \in [Queues -> Seq(Urls)]
      /\ opened \in [Queues -> BOOLEAN] /\ todo \in Seq(Queues)
      /\ \A r \in Queues : QueueInv(r)
  BY TypeFacts DEF DiskInv, QueueInv, TypeOK
<1>1. a \in Nat /\ b \in Nat /\ a <= b /\ b \in 0 .. MaxFile + 1
  BY BoundsOf
<1>2. ASSUME Alone(q) PROVE FilesFrom(dir[q], a, b)
  BY <1>2, BoundsAlone
<1>3. /\ step = "loading" /\ step' = "loading" /\ todo # <<>> /\ todo' = Tail(todo)
      /\ q = Head(todo)
      /\ fin' = [fin EXCEPT ![q] = b] /\ fout' = [fout EXCEPT ![q] = a]
      /\ in' = [in EXCEPT ![q] = n] /\ dir' = Creat(q, b)
      /\ opened' = [opened EXCEPT ![q] = a \in DOMAIN dir'[q]]
      /\ UNCHANGED <<hashBin, hashOld, out, outbuf, buf, rpos, seen>>
  BY DEF Loaded
<1> HIDE DEF a, b
<1>4. n \in Nat /\ CountOk(n, a, b, 0, 0)
  BY <1>1, CountLoad
<1> HIDE DEF n
<1>5. /\ fin'[q] = b /\ fout'[q] = a /\ in'[q] = n
      /\ opened'[q] = (a \in DOMAIN dir'[q])
  BY <1>0, <1>3
<1>6. DOMAIN dir' = Queues /\ OthersKept(q) /\ Begun(dir[q], dir'[q], b)
  BY <1>0, <1>3, CreatDir DEF DirTypes
<1>7. DOMAIN dir'[q] = DOMAIN dir[q] \cup {b} /\ dir'[q][b] = <<>>
  BY <1>6 DEF Begun
<1>8. Tail(todo) \in Seq(Queues) /\ ToSet(todo) = ToSet(Tail(todo)) \cup {q}
  BY <1>0, <1>3, TodoTail
<1>9. TypeOK'
  <2>1. DirTypes'
    BY <1>0, <1>1, <1>3, CreatTypes
  <2>2. fin' \in [Queues -> Nat] /\ fout' \in [Queues -> Nat] /\ in' \in [Queues -> Nat]
    BY <1>0, <1>1, <1>3, <1>4
  <2>3. opened' \in [Queues -> BOOLEAN] /\ todo' \in Seq(Queues) /\ step' \in Steps
    BY <1>0, <1>3, <1>8 DEF Steps
  <2> QED
    BY <1>0, <1>3, <2>1, <2>2, <2>3 DEF TypeOK, DirTypes, IsFiles
<1>10. StepsRight'
  BY <1>3 DEF StepsRight
<1>11. QueueInv(q)'
  <2>1. /\ out[q] = 0 /\ rpos[q] = 0 /\ outbuf[q] = <<>> /\ buf[q] = <<>>
        /\ DOMAIN dir[q] \subseteq 0 .. MaxFile + 1
    BY <1>0, <1>3 DEF QueueInv, QueueRight
  <2>2. ~Filled(q)' /\ ~AllRead(q)'
    BY <1>3 DEF Filled, AllRead
  <2>3. QueueRight(q)'
    BY <1>1, <1>3, <1>7, <2>1, <2>2 DEF QueueRight
  <2>4. WriteRight(q)'
    <3>1. Len(dir'[q][b]) + Len(outbuf'[q]) = 0
      BY <1>3, <1>7, <2>1, EmptySeq
    <3>2. UrlByFile # 0
      BY FilesAssumption
    <3> QED
      BY <1>3, <1>4, <1>5, <1>7, <2>1, <2>2, <3>1, <3>2 DEF WriteRight
  <2>5. ASSUME Alone(q) PROVE ReadRight(q)' /\ DirOk(dir'[q])
    <3>1. FilesFrom(dir'[q], a, b)
      BY <1>2, <1>6, <2>5, AgainFrom
    <3>2. a \in DOMAIN dir'[q]
      BY <1>1, <3>1 DEF FilesFrom
    <3> DEFINE f == dir'[q][a]
    <3>3. f \in Seq(Urls)
      <4>1. CASE a = b
        BY <1>7, <4>1, EmptySeq
      <4>2. CASE a # b
        BY <1>0, <1>6, <1>7, <3>2, <4>2 DEF Begun, DirTypes, IsFiles
      <4> QED
        BY <4>1, <4>2
    <3> HIDE DEF f
    <3>4. Len(f) \in Nat /\ SubSeq(f, 0 + 1, 0) = <<>> /\ Len(<<>>) = 0
      BY <3>3, LenProperties, SubSeqEmpty, EmptySeq
    <3>5. ReadPart(f, 0, 0, <<>>)
      BY <3>4 DEF ReadPart
    <3>6. ReadOk(dir'[q], a, b, 0, 0, <<>>)
      BY <3>1, <3>5 DEF ReadOk, f
    <3> QED
      BY <1>3, <1>5, <2>1, <3>1, <3>2, <3>6 DEF ReadRight, DirOk, FilesFrom
  <2> QED
    BY <2>3, <2>4, <2>5 DEF QueueInv, Alone
<1>12. ASSUME NEW r \in Queues, r # q PROVE QueueInv(r)'
  <2>1. SameQueue(r)
    BY <1>0, <1>3, <1>6, <1>12 DEF SameQueue, OthersKept
  <2>2. SameSteps(r)
    BY <1>3, <1>8, <1>12 DEF SameSteps, Open, Running, Filled, AllRead
  <2> QED
    BY <1>0, <2>1, <2>2, QueueKept
<1> QED
  BY <1>9, <1>10, <1>11, <1>12, InvByQueueNext

LEMMA LoadTableInv ==
    ASSUME DiskInv, LoadTable
    PROVE  DiskInv'
<1>0. TypeOK /\ \A r \in Queues : QueueInv(r)
  BY DEF DiskInv, QueueInv
<1>1. /\ step = "loading" /\ todo = <<>> /\ todo' = <<>> /\ step' \in {"run", "refused"}
      /\ UNCHANGED <<dir, hashBin, hashOld, fin, fout, in, out, outbuf, buf, opened, rpos>>
  BY DEF LoadTable, diskVars, fifoVars
<1>2. seen' \subseteq Urls
  BY <1>0 DEF LoadTable, TypeOK, TableFiles, TableFile, NoFile, Short, Whole
<1>3. TypeOK' /\ StepsRight'
  BY <1>0, <1>1, <1>2 DEF TypeOK, Steps, StepsRight
<1>4. ASSUME NEW r \in Queues PROVE QueueInv(r)'
  <2>1. SameQueue(r)
    BY <1>1 DEF SameQueue
  <2>2. r \notin ToSet(<<>>)
    BY DEF ToSet
  <2>3. SameSteps(r)
    BY <1>1, <2>2 DEF SameSteps, Open, Running, Filled, AllRead
  <2> QED
    BY <1>0, <2>1, <2>3, QueueKept
<1> QED
  BY <1>3, <1>4, InvByQueueNext

-----------------------------------------------------------------------------
(***************************************************************************)
(* Every step.                                                             *)
(***************************************************************************)
DiskStep ==
    \/ \E q \in Queues :
          \/ \E u \in Urls : Put(q, u) /\ SeenAfter(u)
          \/ Get(q)
          \/ GetFails(q)
    \/ Inside
    \/ Crash \/ Reload \/ Scratch

LEMMA StepInv == ASSUME DiskInv, DiskStep PROVE DiskInv'
<1>1. ASSUME NEW q \in Queues, NEW u \in Urls, Put(q, u), SeenAfter(u) PROVE DiskInv'
  BY <1>1, PutInv
<1>2. ASSUME NEW q \in Queues, Get(q) PROVE DiskInv'
  BY <1>2, GetBufferedInv, GetReadInv DEF Get
<1>3. ASSUME NEW q \in Queues, GetFails(q) PROVE DiskInv'
  BY <1>3, GetFailsInv
<1>4. CASE Inside
  <2>1. CASE RollFlush
    BY <2>1, FlushInv
  <2>2. CASE RollCreat
    BY <2>2, CreatInv
  <2>3. CASE RollRead
    BY <2>3, RollReadInv
  <2>4. CASE SaveRename \/ SaveCreat \/ SaveWrite \/ SaveUnlink
    BY <2>4, SaveInv
  <2>5. CASE LoadQueue
    <3>1. TypeOK
      BY DEF DiskInv
    <3>2. ASSUME NEW q \in Queues, Loaded(q) PROVE DiskInv'
      BY <3>2, LoadedInv
    <3> QED
      BY <2>5, <3>1, <3>2, LoadQueueIs, RefusedInv
  <2>6. CASE LoadTable
    BY <2>6, LoadTableInv
  <2> QED
    BY <1>4, <2>1, <2>2, <2>3, <2>4, <2>5, <2>6 DEF Inside
<1>5. CASE Crash \/ Reload
  BY <1>5, StopInv
<1>6. CASE Scratch
  BY <1>6, ScratchInv
<1> QED
  BY <1>1, <1>2, <1>3, <1>4, <1>5, <1>6 DEF DiskStep

LEMMA StutterInv == ASSUME DiskInv, UNCHANGED vars PROVE DiskInv'
<1>1. /\ UNCHANGED <<dir, hashBin, hashOld, fin, fout, in, out, outbuf, buf, opened, rpos>>
      /\ UNCHANGED <<seen, step, todo>>
  BY DEF vars, diskVars, fifoVars
<1>2. TypeOK' /\ StepsRight'
  BY <1>1 DEF DiskInv, TypeOK, StepsRight
<1>3. ASSUME NEW r \in Queues PROVE QueueInv(r)'
  <2>1. QueueInv(r) /\ SameQueue(r)
    BY <1>1 DEF DiskInv, QueueInv, SameQueue
  <2>2. SameSteps(r)
    BY <1>1 DEF SameSteps, Open, Running, Filled, AllRead
  <2> QED
    BY <2>1, <2>2, QueueKept
<1> QED
  BY <1>2, <1>3, InvByQueueNext

LEMMA NextIsStep == Next => DiskStep
BY DEF Next, DiskStep, SeenAfter

LEMMA ResumeIsStep == [ResumeNext]_resumeVars => DiskStep \/ UNCHANGED vars
<1>1. ResumeNext => DiskStep \/ UNCHANGED vars
  <2>1. \A q \in Queues, u \in Urls : URLsDisk \in Queues /\ URLsDiskWait \in Queues
    BY NamesAssumption
  <2>2. ASSUME NEW u \in Urls, Check(u) \/ PutBack(u) \/ Finish(u)
        PROVE  DiskStep \/ UNCHANGED vars
    <3>1. URLsDisk \in Queues /\ URLsDiskWait \in Queues
      BY NamesAssumption
    <3>2. CASE Check(u)
      BY <3>1, <3>2 DEF Check, DiskStep, SeenAfter
    <3>3. CASE PutBack(u)
      BY <3>1, <3>3 DEF PutBack, DiskStep, SeenAfter
    <3>4. CASE Finish(u)
      BY <3>4 DEF Finish
    <3> QED
      BY <2>2, <3>2, <3>3, <3>4
  <2> QED
    BY <2>2 DEF ResumeNext, Take, TakeFails, DiskStep
<1>2. UNCHANGED resumeVars => UNCHANGED vars
  BY DEF resumeVars
<1> QED
  BY <1>1, <1>2

\* The counters of both queues agree with their files, in every state that
\* any caller can bring them to.
THEOREM QueuesRight == Spec => []DiskInv
<1>1. Init => DiskInv
  BY InitInv
<1>2. DiskInv /\ [Next]_vars => DiskInv'
  BY StepInv, StutterInv, NextIsStep
<1> QED
  BY <1>1, <1>2, PTL DEF Spec

\* The same of the crawler's use of them.
THEOREM QueuesRightInUse == ResumeSpec => []DiskInv
<1>1. ResumeInit => DiskInv
  BY InitInv DEF ResumeInit
<1>2. DiskInv /\ [ResumeNext]_resumeVars => DiskInv'
  BY StepInv, StutterInv, ResumeIsStep
<1> QED
  BY <1>1, <1>2, PTL DEF ResumeSpec
-----------------------------------------------------------------------------
\* Between two operations a queue that is alone has the urls it promises.
LEMMA NotStarved ==
    ASSUME DiskInv, NEW q \in Queues, Alone(q), step = "run"
    PROVE  ~Starved(q)
<1>0. /\ DirTypes /\ fin \in [Queues -> Nat] /\ fout \in [Queues -> Nat]
      /\ in \in [Queues -> Nat] /\ out \in [Queues -> Nat] /\ rpos \in [Queues -> Nat]
      /\ outbuf \in [Queues -> Seq(Urls)] /\ QueueInv(q)
  BY TypeFacts DEF DiskInv, QueueInv
<1> SUFFICES ASSUME in[q] # out[q], buf[q] = <<>>, Readable(q) = <<>> PROVE FALSE
  BY DEF Starved
<1>1. Open(q) /\ ~AllRead(q) /\ ~Filled(q)
  BY DEF Open, Running, AllRead, Filled
<1>2. /\ opened[q] /\ ReadOk(dir[q], fout[q], fin[q], out[q], rpos[q], buf[q])
      /\ CountOk(in[q], fout[q], fin[q], Len(dir[q][fin[q]]) + Len(outbuf[q]), out[q])
      /\ out[q] # UrlByFile
  BY <1>0, <1>1 DEF QueueInv, ReadRight, WriteRight
<1> DEFINE f == dir[q][fout[q]]
<1>3. /\ f \in Seq(Urls) /\ fout[q] \in DOMAIN dir[q] /\ rpos[q] \in Nat
      /\ fout[q] \in Nat /\ fin[q] \in Nat /\ fout[q] <= fin[q] /\ Len(f) \in Nat
  BY <1>0, <1>2, LenProperties DEF ReadOk, FilesFrom, DirTypes, IsFiles
<1>4. rpos[q] = out[q] /\ rpos[q] <= Len(f)
  BY <1>0, <1>2, EmptySeq DEF ReadOk, ReadPart
<1>5. Unread(q) = SubSeq(f, rpos[q] + 1, Len(f))
  BY <1>2 DEF Unread
<1>6. Unread(q) = <<>> /\ (fin[q] = fout[q] => outbuf[q] = <<>>)
  BY DEF Readable, MustFlush
<1>7. rpos[q] = Len(f)
  <2> HIDE DEF f
  <2> QED
    BY <1>3, <1>4, <1>5, <1>6, NothingBehind
<1>8. CASE fin[q] = fout[q]
  <2>1. Len(outbuf[q]) = 0
    BY <1>6, <1>8, EmptySeq
  <2>2. in[q] = (fin[q] - fout[q]) * UrlByFile + (Len(f) + 0)
    BY <1>2, <1>8, <2>1 DEF CountOk
  <2>3. (fin[q] - fout[q]) * UrlByFile = 0
    <3>1. fin[q] - fout[q] = 0 /\ UrlByFile \in Nat
      BY <1>3, <1>8, FilesAssumption
    <3> QED
      BY <3>1
  <2> HIDE DEF f
  <2> QED
    BY <1>3, <1>4, <1>7, <2>2, <2>3
<1>9. CASE fin[q] # fout[q]
  <2>1. fout[q] \in fout[q] .. fin[q] - 1
    BY <1>3, <1>9
  <2>2. Len(f) = UrlByFile
    BY <1>2, <1>3, <2>1 DEF ReadOk, FilesFrom, FullFiles, FileOf
  <2> QED
    BY <1>2, <1>4, <1>7, <2>2
<1> QED
  BY <1>8, <1>9

\* No queue has a name that starts the name of another.
NamesApart == \A q \in Queues : Alone(q)
NotAborted == DiskInv /\ step # "aborted"

\* The counters never promise an url that cannot be read, and the assertion of
\* updateRead holds, when the names are apart.
THEOREM StarvesNever == NamesApart /\ Spec => []NeverStarved
<1> SUFFICES ASSUME NamesApart PROVE Spec => []NeverStarved
  OBVIOUS
<1>1. Init => NotAborted
  BY InitInv DEF Init, NotAborted
<1>2. ASSUME NotAborted, [Next]_vars PROVE NotAborted'
  <2>1. DiskInv'
    BY <1>2, StepInv, StutterInv, NextIsStep DEF NotAborted
  <2>2. CASE RollRead
    <3>1. PICK q \in Queues : todo = <<q>>
      BY <1>2, <2>2 DEF NotAborted, DiskInv, StepsRight, RollRead
    <3>2. AllRead(q) /\ step' = (IF buf[q] = <<>> THEN "run" ELSE "aborted")
      BY <2>2, <3>1 DEF RollRead, AllRead
    <3>3. buf[q] = <<>>
      BY <1>2, <3>2, NothingAhead DEF NotAborted, NamesApart
    <3> QED
      BY <2>1, <3>2, <3>3 DEF NotAborted
  <2>3. CASE Inside /\ ~RollRead
    <3>1. step' # "aborted"
      BY <2>3 DEF Inside, RollFlush, RollCreat, SaveRename, SaveCreat, SaveWrite,
                  SaveUnlink, LoadQueue, LoadTable
    <3> QED
      BY <2>1, <3>1 DEF NotAborted
  <2>4. CASE UNCHANGED vars
    BY <1>2, <2>1, <2>4 DEF vars, NotAborted
  <2>5. CASE Next /\ ~Inside
    <3>1. step' # "aborted"
      BY <1>2, <2>5 DEF NotAborted, Next, Put, Get, GetBuffered, GetRead, Took, Crash,
                        Reload, Scratch, Fresh
    <3> QED
      BY <2>1, <3>1 DEF NotAborted
  <2> QED
    BY <1>2, <2>2, <2>3, <2>4, <2>5
<1>3. ASSUME NotAborted PROVE NeverStarved
  BY <1>3, NotStarved DEF NotAborted, NeverStarved, DiskInv, NamesApart
<1>4. NotAborted => NeverStarved
  BY <1>3
<1>5. NotAborted /\ [Next]_vars => NotAborted'
  BY <1>2
<1> QED
  BY <1>1, <1>4, <1>5, PTL DEF Spec

-----------------------------------------------------------------------------
(***************************************************************************)
(* The urls of several files: FlattenSeq, whose recursion CHOOSE solves.   *)
(***************************************************************************)
Flattens(g, n, s) == g = [i \in 1 .. n |-> IF i = 1 THEN s[i] ELSE g[i - 1] \o s[i]]

LEMMA FlattensExists ==
    ASSUME NEW s, NEW m \in Nat
    PROVE  \E g : Flattens(g, m, s)
<1> DEFINE N == {n \in Nat : \E g : Flattens(g, n, s)}
<1>1. 0 \in N
  <2>1. 1 .. 0 = {}
    OBVIOUS
  <2>2. Flattens([i \in {} |-> s], 0, s)
    BY <2>1 DEF Flattens
  <2> QED
    BY <2>2
<1>2. ASSUME NEW n \in N PROVE n + 1 \in N
  <2>1. PICK g : Flattens(g, n, s)
    OBVIOUS
  <2> DEFINE h == [i \in 1 .. n + 1 |-> IF i = 1 THEN s[i] ELSE g[i - 1] \o s[i]]
  <2>2. \A i \in 1 .. n : g[i] = IF i = 1 THEN s[i] ELSE g[i - 1] \o s[i]
    BY <2>1 DEF Flattens
  <2>3. \A i \in 1 .. n : i \in 1 .. n + 1 /\ h[i] = g[i]
    BY <2>2
  <2>4. ASSUME NEW i \in 1 .. n + 1, i # 1 PROVE h[i - 1] = g[i - 1]
    <3>1. i - 1 \in 1 .. n
      BY <2>4
    <3> QED
      BY <2>3, <3>1
  <2>5. DOMAIN h = 1 .. n + 1 /\ \A i \in 1 .. n + 1 :
           h[i] = IF i = 1 THEN s[i] ELSE h[i - 1] \o s[i]
    BY <2>4
  <2>6. h = [i \in 1 .. n + 1 |-> IF i = 1 THEN s[i] ELSE h[i - 1] \o s[i]]
    BY <2>4
  <2> HIDE DEF h
  <2>7. Flattens(h, n + 1, s)
    BY <2>6 DEF Flattens
  <2> QED
    BY <2>7
<1>3. N = Nat
  <2>1. N \in SUBSET Nat
    OBVIOUS
  <2> HIDE DEF N
  <2> QED
    BY <1>1, <1>2, <2>1, NatInduct
<1> QED
  BY <1>3

SameTo(s, t, n) == \A i \in 1 .. n : s[i] = t[i]

LEMMA FlattensSame ==
    ASSUME NEW s, NEW t, NEW n \in Nat, NEW m \in Nat, n <= m, NEW g, NEW h,
           Flattens(g, n, s), Flattens(h, m, t), SameTo(s, t, n)
    PROVE  SameTo(g, h, n)
<1> DEFINE N == {k \in Nat : k <= n => SameTo(g, h, k)}
<1>0. /\ \A i \in 1 .. n : g[i] = IF i = 1 THEN s[i] ELSE g[i - 1] \o s[i]
      /\ \A i \in 1 .. m : h[i] = IF i = 1 THEN t[i] ELSE h[i - 1] \o t[i]
      /\ \A i \in 1 .. n : s[i] = t[i] /\ i \in 1 .. m
  <2>1. \A i \in 1 .. n : g[i] = IF i = 1 THEN s[i] ELSE g[i - 1] \o s[i]
    BY Zenon DEF Flattens
  <2>2. \A i \in 1 .. m : h[i] = IF i = 1 THEN t[i] ELSE h[i - 1] \o t[i]
    BY Zenon DEF Flattens
  <2>3. \A i \in 1 .. n : s[i] = t[i]
    BY DEF SameTo
  <2>4. \A i \in 1 .. n : i \in 1 .. m
    OBVIOUS
  <2> QED
    BY <2>1, <2>2, <2>3, <2>4
<1>1. 0 \in N
  BY DEF SameTo
<1>2. ASSUME NEW k \in N PROVE k + 1 \in N
  <2> SUFFICES ASSUME k + 1 <= n PROVE SameTo(g, h, k + 1)
    OBVIOUS
  <2>1. k \in Nat /\ \A i \in 1 .. k : g[i] = h[i]
    BY DEF SameTo
  <2>2. k + 1 \in 1 .. n /\ (k + 1) - 1 = k
    BY <2>1
  <2>3. g[k + 1] = h[k + 1]
    <3>1. CASE k = 0
      <4>1. 1 \in 1 .. n /\ k + 1 = 1
        BY <2>2, <3>1
      <4> QED
        BY <1>0, <4>1
    <3>2. CASE k # 0
      <4>1. g[k] = h[k] /\ k + 1 # 1
        BY <2>1, <3>2
      <4>2. g[k + 1] = g[k] \o s[k + 1] /\ h[k + 1] = h[k] \o t[k + 1]
        BY <1>0, <2>2, <4>1
      <4> QED
        BY <1>0, <2>2, <4>1, <4>2
    <3> QED
      BY <3>1, <3>2
  <2>4. \A i \in 1 .. k + 1 : i \in 1 .. k \/ i = k + 1
    BY <2>1
  <2> QED
    BY <2>1, <2>3, <2>4 DEF SameTo
<1>3. N = Nat
  <2>1. N \in SUBSET Nat
    OBVIOUS
  <2> HIDE DEF N
  <2> QED
    BY <1>1, <1>2, <2>1, NatInduct
<1>4. n \in N
  BY <1>3
<1> QED
  BY <1>4

\* FlattenSeq of a list that is not empty.
LEMMA FlattenIs ==
    ASSUME NEW s, Len(s) \in Nat \ {0}
    PROVE  \E g : Flattens(g, Len(s), s) /\ FlattenSeq(s) = g[Len(s)]
<1>1. FlattenSeq(s) = (CHOOSE g : Flattens(g, Len(s), s))[Len(s)]
  BY DEF FlattenSeq, Flattens
<1>2. \E g : Flattens(g, Len(s), s)
  BY FlattensExists
<1> QED
  BY <1>1, <1>2

\* One more element.
LEMMA FlattenLast ==
    ASSUME NEW s, NEW t, NEW n \in Nat \ {0}, Len(s) = n + 1, Len(t) = n, SameTo(t, s, n)
    PROVE  FlattenSeq(s) = FlattenSeq(t) \o s[n + 1]
<1>1. PICK g : Flattens(g, n + 1, s) /\ FlattenSeq(s) = g[n + 1]
  BY FlattenIs
<1>2. PICK h : Flattens(h, n, t) /\ FlattenSeq(t) = h[n]
  BY FlattenIs
<1>3. SameTo(h, g, n)
  BY <1>1, <1>2, FlattensSame
<1>4. h[n] = g[n]
  BY <1>3 DEF SameTo
<1>5. n + 1 \in 1 .. n + 1 /\ n + 1 # 1 /\ (n + 1) - 1 = n
  OBVIOUS
<1>6. g[n + 1] = g[n] \o s[n + 1]
  BY <1>1, <1>5 DEF Flattens
<1> QED
  BY <1>1, <1>2, <1>4, <1>6

-----------------------------------------------------------------------------
(***************************************************************************)
(* The urls of the files a .. b.                                           *)
(***************************************************************************)
ListOf(d, a, n) == [i \in 1 .. n |-> FileOf(d, a + i - 1)]
Joined(d, a, b) == FlattenSeq(ListOf(d, a, b - a + 1))
SameFiles(d, e, a, b) == \A k \in a .. b : FileOf(d, k) = FileOf(e, k)
FilesWithin(d, a, b, X) == \A k \in a .. b : ToSet(FileOf(d, k)) \subseteq X

LEMMA FilesAre ==
    ASSUME NEW q, NEW a, NEW b
    PROVE  Files(q, a, b) = Joined(dir[q], a, b)
BY DEF Files, Joined, ListOf, FileOf

LEMMA FileOfType ==
    ASSUME NEW S, NEW d, IsFiles(d, S), NEW k
    PROVE  FileOf(d, k) \in Seq(S)
BY EmptySeq DEF FileOf, IsFiles

LEMMA ListOfFiles ==
    ASSUME NEW S, NEW d, IsFiles(d, S), NEW a \in Int, NEW n \in Nat
    PROVE  /\ Len(ListOf(d, a, n)) = n
           /\ \A i \in 1 .. n : ListOf(d, a, n)[i] = FileOf(d, a + i - 1)
           /\ ListOf(d, a, n) \in Seq(Seq(S))
<1>1. \A i \in 1 .. n : FileOf(d, a + i - 1) \in Seq(S)
  BY FileOfType
<1> DEFINE l == [i \in 1 .. n |-> FileOf(d, a + i - 1)]
<1>2. l \in [1 .. n -> Seq(S)]
  BY <1>1
<1>3. l \in Seq(Seq(S))
  <2> HIDE DEF l
  <2> QED
    BY <1>2, SeqDef
<1>4. Len(l) = n
  <2> HIDE DEF l
  <2>1. DOMAIN l = 1 .. Len(l) /\ Len(l) \in Nat /\ DOMAIN l = 1 .. n
    BY <1>2, <1>3, LenProperties
  <2>2. ASSUME NEW m \in Nat, 1 .. m = 1 .. n PROVE m = n
    <3>1. (m # 0 => m \in 1 .. n) /\ (n # 0 => n \in 1 .. m)
      BY <2>2
    <3> QED
      BY <3>1
  <2> QED
    BY <2>1, <2>2
<1> QED
  BY <1>3, <1>4 DEF ListOf

LEMMA JoinedNone ==
    ASSUME NEW d, NEW a \in Int, NEW b \in Int, b < a
    PROVE  Joined(d, a, b) = <<>>
<1>1. 1 .. b - a + 1 = {} /\ 1 .. 0 = {}
  OBVIOUS
<1> DEFINE l == ListOf(d, a, b - a + 1)
<1>2. l \in [1 .. 0 -> {0}]
  BY <1>1 DEF ListOf
<1> HIDE DEF l
<1>3. l \in Seq({0})
  BY <1>2, SeqDef
<1>4. DOMAIN l = 1 .. Len(l) /\ Len(l) \in Nat
  BY <1>3, LenProperties
<1>5. Len(l) = 0
  BY <1>2, <1>4
<1>6. l = <<>>
  BY <1>3, <1>5, EmptySeq
<1> QED
  BY <1>5, <1>6 DEF Joined, FlattenSeq, l

\* The last file comes last.
LEMMA JoinedLast ==
    ASSUME NEW S, NEW d, IsFiles(d, S), NEW a \in Int, NEW b \in Int, a <= b
    PROVE  Joined(d, a, b) = Joined(d, a, b - 1) \o FileOf(d, b)
<1>1. FileOf(d, b) \in Seq(S)
  BY FileOfType
<1>2. CASE a = b
  <2>1. b - 1 < a /\ b - a + 1 = 1 /\ b - 1 \in Int
    BY <1>2
  <2>2. Joined(d, a, b - 1) = <<>>
    BY <2>1, JoinedNone
  <2> DEFINE s == ListOf(d, a, 1)
  <2>3. Len(s) = 1 /\ \A i \in 1 .. 1 : s[i] = FileOf(d, a + i - 1)
    <3>1. 1 \in Nat
      OBVIOUS
    <3> QED
      BY <3>1, ListOfFiles
  <2>4. FlattenSeq(s) = FileOf(d, b)
    <3>1. a + 1 - 1 = b /\ 1 \in 1 .. 1
      BY <1>2
    <3> HIDE DEF s
    <3>2. Len(s) \in Nat \ {0} /\ s[1] = FileOf(d, b)
      BY <2>3, <3>1
    <3>3. PICK g : Flattens(g, Len(s), s) /\ FlattenSeq(s) = g[Len(s)]
      BY <3>2, FlattenIs
    <3>4. Flattens(g, 1, s) /\ FlattenSeq(s) = g[1]
      BY <2>3, <3>3
    <3>5. g[1] = s[1]
      BY <3>4 DEF Flattens
    <3> QED
      BY <3>2, <3>4, <3>5
  <2>6. Joined(d, a, b) = FileOf(d, b)
    BY <2>1, <2>4 DEF Joined
  <2> QED
    BY <1>1, <2>2, <2>6, ConcatEmptySeq
<1>3. CASE a < b
  <2> DEFINE n == b - a
             s == ListOf(d, a, n + 1)
             t == ListOf(d, a, n)
  <2>1. n \in Nat \ {0} /\ b - a + 1 = n + 1 /\ (b - 1) - a + 1 = n /\ a + (n + 1) - 1 = b
    BY <1>3
  <2> HIDE DEF n
  <2>2. /\ Len(s) = n + 1 /\ \A i \in 1 .. n + 1 : s[i] = FileOf(d, a + i - 1)
        /\ Len(t) = n /\ \A i \in 1 .. n : t[i] = FileOf(d, a + i - 1)
    BY <2>1, ListOfFiles
  <2> HIDE DEF s, t
  <2>3. SameTo(t, s, n) /\ s[n + 1] = FileOf(d, a + (n + 1) - 1)
    BY <2>1, <2>2 DEF SameTo
  <2>4. FlattenSeq(s) = FlattenSeq(t) \o s[n + 1]
    BY <2>1, <2>2, <2>3, FlattenLast
  <2> QED
    BY <2>1, <2>3, <2>4 DEF Joined, s, t
<1> QED
  BY <1>2, <1>3

LEMMA JoinedType ==
    ASSUME NEW S, NEW d, IsFiles(d, S), NEW a \in Int, NEW b \in Int
    PROVE  Joined(d, a, b) \in Seq(S)
<1> DEFINE N == {n \in Nat : Joined(d, a, a + n - 1) \in Seq(S)}
<1>1. 0 \in N
  <2>1. a + 0 - 1 \in Int /\ a + 0 - 1 < a
    OBVIOUS
  <2>2. Joined(d, a, a + 0 - 1) = <<>>
    BY <2>1, JoinedNone
  <2> QED
    BY <2>2, EmptySeq
<1>2. ASSUME NEW n \in N PROVE n + 1 \in N
  <2>1. n \in Nat /\ Joined(d, a, a + n - 1) \in Seq(S)
    OBVIOUS
  <2>2. a + (n + 1) - 1 \in Int /\ a <= a + (n + 1) - 1
        /\ (a + (n + 1) - 1) - 1 = a + n - 1
    BY <2>1
  <2>3. Joined(d, a, a + (n + 1) - 1)
           = Joined(d, a, (a + (n + 1) - 1) - 1) \o FileOf(d, a + (n + 1) - 1)
    BY <2>2, JoinedLast
  <2>4. FileOf(d, a + (n + 1) - 1) \in Seq(S)
    BY FileOfType
  <2> DEFINE x == Joined(d, a, a + n - 1)
             y == FileOf(d, a + (n + 1) - 1)
  <2>5. Joined(d, a, a + (n + 1) - 1) = x \o y /\ x \in Seq(S) /\ y \in Seq(S)
    BY <2>1, <2>2, <2>3, <2>4
  <2>6. Joined(d, a, a + (n + 1) - 1) \in Seq(S)
    <3> HIDE DEF x, y
    <3> QED
      BY <2>5, ConcatProperties
  <2> QED
    BY <2>1, <2>6
<1>3. N = Nat
  <2>1. N \in SUBSET Nat
    OBVIOUS
  <2> HIDE DEF N
  <2> QED
    BY <1>1, <1>2, <2>1, NatInduct
<1>4. CASE b < a
  BY <1>4, JoinedNone, EmptySeq
<1>5. CASE a <= b
  <2>1. b - a + 1 \in Nat /\ a + (b - a + 1) - 1 = b
    BY <1>5
  <2>2. b - a + 1 \in N
    BY <1>3, <2>1
  <2> QED
    BY <2>1, <2>2
<1> QED
  BY <1>4, <1>5

\* The first file comes first.
LEMMA JoinedFirst ==
    ASSUME NEW S, NEW d, IsFiles(d, S), NEW a \in Int, NEW b \in Int, a <= b
    PROVE  Joined(d, a, b) = FileOf(d, a) \o Joined(d, a + 1, b)
<1> DEFINE f == FileOf(d, a)
           N == {n \in Nat : Joined(d, a, a + n) = f \o Joined(d, a + 1, a + n)}
<1>1. f \in Seq(S) /\ a + 1 \in Int
  BY FileOfType
<1>2. 0 \in N
  <2>1. a + 0 = a /\ a - 1 < a /\ a < a + 1 /\ a - 1 \in Int
    OBVIOUS
  <2>2. Joined(d, a, a) = Joined(d, a, a - 1) \o f
    BY JoinedLast
  <2>3. Joined(d, a, a - 1) = <<>> /\ Joined(d, a + 1, a) = <<>>
    BY <1>1, <2>1, JoinedNone
  <2>4. Joined(d, a, a) = f \o Joined(d, a + 1, a)
    BY <1>1, <2>2, <2>3, ConcatEmptySeq
  <2> QED
    BY <2>1, <2>4
<1>3. ASSUME NEW n \in N PROVE n + 1 \in N
  <2> DEFINE b1 == a + (n + 1)
             y == FileOf(d, b1)
             x == Joined(d, a + 1, a + n)
  <2>1. n \in Nat /\ Joined(d, a, a + n) = f \o x
    OBVIOUS
  <2>2. b1 \in Int /\ a <= b1 /\ a + 1 <= b1 /\ b1 - 1 = a + n /\ a + n \in Int
    BY <2>1
  <2> HIDE DEF b1
  <2>3. Joined(d, a, b1) = Joined(d, a, b1 - 1) \o y
    BY <2>2, JoinedLast
  <2>4. Joined(d, a + 1, b1) = Joined(d, a + 1, b1 - 1) \o y
    BY <1>1, <2>2, JoinedLast
  <2>5. x \in Seq(S) /\ y \in Seq(S)
    BY <1>1, <2>2, JoinedType, FileOfType
  <2>6. (f \o x) \o y = f \o (x \o y)
    <3>1. f \in Seq(S)
      BY <1>1
    <3> HIDE DEF f, x, y
    <3> QED
      BY <2>5, <3>1, ConcatAssociative
  <2>7. Joined(d, a, b1) = f \o Joined(d, a + 1, b1)
    BY <2>1, <2>2, <2>3, <2>4, <2>6
  <2> QED
    BY <2>1, <2>7 DEF b1
<1>4. N = Nat
  <2>1. N \in SUBSET Nat
    OBVIOUS
  <2> HIDE DEF N
  <2> QED
    BY <1>2, <1>3, <2>1, NatInduct
<1>5. b - a \in N /\ a + (b - a) = b
  <2>1. b - a \in Nat /\ a + (b - a) = b
    OBVIOUS
  <2> HIDE DEF N
  <2> QED
    BY <1>4, <2>1
<1> QED
  BY <1>5

\* Only the files count.
LEMMA JoinedCong ==
    ASSUME NEW d, NEW e, NEW a \in Int, NEW b \in Int, SameFiles(d, e, a, b)
    PROVE  Joined(d, a, b) = Joined(e, a, b)
<1>1. \A i \in 1 .. b - a + 1 : a + i - 1 \in a .. b
  OBVIOUS
<1>2. \A i \in 1 .. b - a + 1 : FileOf(d, a + i - 1) = FileOf(e, a + i - 1)
  BY <1>1 DEF SameFiles
<1>3. ListOf(d, a, b - a + 1) = ListOf(e, a, b - a + 1)
  BY <1>2 DEF ListOf
<1> QED
  BY <1>3 DEF Joined

\* How many urls full files hold.
LEMMA JoinedLen ==
    ASSUME NEW S, NEW d, IsFiles(d, S), NEW a \in Int, NEW b \in Int, a <= b + 1,
           FullFiles(d, a, b)
    PROVE  Len(Joined(d, a, b)) = (b + 1 - a) * UrlByFile
<1> DEFINE N == {n \in Nat : a + n <= b + 1 => Len(Joined(d, a, a + n - 1)) = n * UrlByFile}
<1>0. UrlByFile \in Nat \ {0}
  BY FilesAssumption
<1>1. 0 \in N
  <2>1. a + 0 - 1 \in Int /\ a + 0 - 1 < a /\ 0 * UrlByFile = 0
    BY <1>0
  <2>2. Joined(d, a, a + 0 - 1) = <<>>
    BY <2>1, JoinedNone
  <2> QED
    BY <2>1, <2>2, EmptySeq
<1>2. ASSUME NEW n \in N PROVE n + 1 \in N
  <2> SUFFICES ASSUME a + (n + 1) <= b + 1
               PROVE  Len(Joined(d, a, a + (n + 1) - 1)) = (n + 1) * UrlByFile
    OBVIOUS
  <2> DEFINE b1 == a + (n + 1) - 1
             x == Joined(d, a, b1 - 1)
             y == FileOf(d, b1)
  <2>1. n \in Nat /\ a + n <= b + 1
    OBVIOUS
  <2>2. b1 \in Int /\ a <= b1 /\ b1 - 1 = a + n - 1 /\ b1 \in a .. b /\ b1 - 1 \in Int
    BY <2>1
  <2>3. Len(x) = n * UrlByFile
    BY <2>1, <2>2
  <2> HIDE DEF b1
  <2>4. Joined(d, a, b1) = x \o y
    BY <2>2, JoinedLast
  <2>5. x \in Seq(S) /\ y \in Seq(S) /\ Len(y) = UrlByFile
    BY <2>2, JoinedType, FileOfType DEF FullFiles
  <2>6. Len(x \o y) = Len(x) + Len(y)
    <3> HIDE DEF x, y
    <3> QED
      BY <2>5, ConcatProperties
  <2>7. (n + 1) * UrlByFile = n * UrlByFile + UrlByFile
    BY <1>0, <2>1
  <2>8. Len(Joined(d, a, b1)) = (n + 1) * UrlByFile
    <3> HIDE DEF x, y
    <3> QED
      BY <2>3, <2>4, <2>5, <2>6, <2>7
  <2> QED
    BY <2>8 DEF b1
<1>3. N = Nat
  <2>1. N \in SUBSET Nat
    OBVIOUS
  <2> HIDE DEF N
  <2> QED
    BY <1>1, <1>2, <2>1, NatInduct
<1>4. b + 1 - a \in Nat /\ a + (b + 1 - a) <= b + 1 /\ a + (b + 1 - a) - 1 = b
  OBVIOUS
<1>5. b + 1 - a \in N
  <2> HIDE DEF N
  <2> QED
    BY <1>3, <1>4
<1> QED
  BY <1>4, <1>5

LEMMA ConcatSet ==
    ASSUME NEW S, NEW s \in Seq(S), NEW t \in Seq(S)
    PROVE  ToSet(s \o t) = ToSet(s) \cup ToSet(t)
<1>1. Range(s \o t) = Range(s) \cup Range(t)
  BY RangeConcatenation
<1> QED
  BY <1>1 DEF Range, ToSet

\* The urls of the files are in a set if those of each are.
LEMMA JoinedSet ==
    ASSUME NEW S, NEW d, IsFiles(d, S), NEW a \in Int, NEW b \in Int, NEW X,
           FilesWithin(d, a, b, X)
    PROVE  ToSet(Joined(d, a, b)) \subseteq X
<1> DEFINE N == {n \in Nat : a + n <= b + 1 => ToSet(Joined(d, a, a + n - 1)) \subseteq X}
<1>0. ToSet(<<>>) = {}
  BY DEF ToSet
<1>1. 0 \in N
  <2>1. a + 0 - 1 \in Int /\ a + 0 - 1 < a
    OBVIOUS
  <2>2. Joined(d, a, a + 0 - 1) = <<>>
    BY <2>1, JoinedNone
  <2> QED
    BY <1>0, <2>2
<1>2. ASSUME NEW n \in N PROVE n + 1 \in N
  <2> SUFFICES ASSUME a + (n + 1) <= b + 1
               PROVE  ToSet(Joined(d, a, a + (n + 1) - 1)) \subseteq X
    OBVIOUS
  <2> DEFINE b1 == a + (n + 1) - 1
             x == Joined(d, a, b1 - 1)
             y == FileOf(d, b1)
  <2>1. n \in Nat /\ a + n <= b + 1
    OBVIOUS
  <2>2. b1 \in Int /\ a <= b1 /\ b1 - 1 = a + n - 1 /\ b1 \in a .. b /\ b1 - 1 \in Int
    BY <2>1
  <2>3. ToSet(x) \subseteq X
    BY <2>1, <2>2
  <2> HIDE DEF b1
  <2>4. Joined(d, a, b1) = x \o y
    BY <2>2, JoinedLast
  <2>5. x \in Seq(S) /\ y \in Seq(S) /\ ToSet(y) \subseteq X
    BY <2>2, JoinedType, FileOfType DEF FilesWithin
  <2>6. ToSet(x \o y) = ToSet(x) \cup ToSet(y)
    <3> HIDE DEF x, y
    <3> QED
      BY <2>5, ConcatSet
  <2>7. ToSet(Joined(d, a, b1)) \subseteq X
    <3> HIDE DEF x, y
    <3> QED
      BY <2>3, <2>4, <2>5, <2>6
  <2> QED
    BY <2>7 DEF b1
<1>3. N = Nat
  <2>1. N \in SUBSET Nat
    OBVIOUS
  <2> HIDE DEF N
  <2> QED
    BY <1>1, <1>2, <2>1, NatInduct
<1>4. CASE b + 1 < a
  BY <1>0, <1>4, JoinedNone
<1>5. CASE a <= b + 1
  <2>1. b + 1 - a \in Nat /\ a + (b + 1 - a) <= b + 1 /\ a + (b + 1 - a) - 1 = b
    BY <1>5
  <2>2. b + 1 - a \in N
    <3> HIDE DEF N
    <3> QED
      BY <1>3, <2>1
  <2> QED
    BY <2>1, <2>2
<1> QED
  BY <1>4, <1>5

-----------------------------------------------------------------------------
(***************************************************************************)
(* A sequence cut at the place of reading.                                 *)
(***************************************************************************)
UpTo(s, o) == SubSeq(s, 1, o)
After(s, o) == SubSeq(s, o + 1, Len(s))

LEMMA Cut ==
    ASSUME NEW S, NEW s \in Seq(S), NEW o \in Nat, o <= Len(s)
    PROVE  /\ UpTo(s, o) \in Seq(S) /\ After(s, o) \in Seq(S)
           /\ Len(UpTo(s, o)) = o /\ Len(After(s, o)) = Len(s) - o
           /\ UpTo(s, o) \o After(s, o) = s
<1>0. Len(s) \in Nat
  BY LenProperties
<1>1. \A i \in 1 .. o : s[i] \in S
  BY <1>0, ElementOfSeq
<1>2. \A i \in o + 1 .. Len(s) : s[i] \in S
  BY <1>0, ElementOfSeq
<1>3. SubSeq(s, 1, o) \in Seq(S) /\ Len(SubSeq(s, 1, o)) = IF 1 <= o THEN o - 1 + 1 ELSE 0
  BY <1>1, SubSeqProperties
<1>4. /\ SubSeq(s, o + 1, Len(s)) \in Seq(S)
      /\ Len(SubSeq(s, o + 1, Len(s))) = IF o + 1 <= Len(s) THEN Len(s) - (o + 1) + 1 ELSE 0
  BY <1>0, <1>2, SubSeqProperties
<1>5. SubSeq(s, 1, o) \o SubSeq(s, o + 1, Len(s)) = s
  <2>1. 1 \in 1 .. Len(s) + 1 /\ o \in 1 - 1 .. Len(s) /\ Len(s) \in o .. Len(s)
    BY <1>0
  <2>2. SubSeq(s, 1, o) \o SubSeq(s, o + 1, Len(s)) = SubSeq(s, 1, Len(s))
    BY <2>1, ConcatAdjacentSubSeq
  <2> QED
    BY <2>2, SubSeqFull
<1>6. Len(SubSeq(s, 1, o)) = o
  BY <1>3
<1>7. Len(SubSeq(s, o + 1, Len(s))) = Len(s) - o
  BY <1>0, <1>4
<1> QED
  BY <1>3, <1>4, <1>5, <1>6, <1>7 DEF UpTo, After

LEMMA CutNone ==
    ASSUME NEW S, NEW s \in Seq(S)
    PROVE  UpTo(s, 0) = <<>> /\ After(s, 0) = s
<1>1. SubSeq(s, 1, 0) = <<>> /\ SubSeq(s, 1, Len(s)) = s
  BY SubSeqEmpty, SubSeqFull
<1> QED
  BY <1>1 DEF UpTo, After

\* What comes later is behind the cut.
LEMMA CutConcat ==
    ASSUME NEW S, NEW s \in Seq(S), NEW t \in Seq(S), NEW o \in Nat, o <= Len(s)
    PROVE  UpTo(s \o t, o) = UpTo(s, o) /\ After(s \o t, o) = After(s, o) \o t
<1>1. Len(s) \in Nat /\ Len(t) \in Nat /\ Len(s \o t) = Len(s) + Len(t) /\ s \o t \in Seq(S)
  BY LenProperties, ConcatProperties
<1>2. UpTo(s \o t, o) = UpTo(s, o)
  BY SubSeqPrefix DEF UpTo
<1> DEFINE x == UpTo(s, o)
           y == After(s, o)
           z == After(s \o t, o)
<1>3. x \in Seq(S) /\ y \in Seq(S) /\ x \o y = s
  BY Cut
<1>4. z \in Seq(S) /\ x \o z = s \o t
  <2> DEFINE v == s \o t
  <2>1. v \in Seq(S) /\ o <= Len(v)
    BY <1>1
  <2> HIDE DEF v
  <2>2. After(v, o) \in Seq(S) /\ UpTo(v, o) \o After(v, o) = v
    BY <2>1, Cut
  <2> QED
    BY <1>2, <2>2 DEF v
<1>5. z = y \o t
  <2> HIDE DEF x, y, z
  <2>1. (x \o y) \o t = x \o (y \o t) /\ y \o t \in Seq(S)
    <3>0. x \in Seq(S) /\ y \in Seq(S) /\ t \in Seq(S)
      BY <1>3
    <3>1. (x \o y) \o t = x \o (y \o t)
      BY ONLY <3>0, ConcatAssociative
    <3>2. y \o t \in Seq(S)
      BY ONLY <3>0, ConcatProperties
    <3> QED
      BY <3>1, <3>2
  <2>2. x \o z = x \o (y \o t)
    BY <1>3, <1>4, <2>1
  <2> DEFINE w == y \o t
  <2>3. x \o z = x \o w /\ w \in Seq(S)
    BY <2>1, <2>2
  <2> HIDE DEF w
  <2>4. z = w
    BY <1>3, <1>4, <2>3, ConcatSimplifications
  <2> QED
    BY <2>4 DEF w
<1> QED
  BY <1>2, <1>5

LEMMA CutAppend ==
    ASSUME NEW S, NEW s \in Seq(S), NEW u \in S, NEW o \in Nat, o <= Len(s)
    PROVE  /\ UpTo(Append(s, u), o) = UpTo(s, o)
           /\ After(Append(s, u), o) = Append(After(s, o), u)
<1>1. Append(s, u) = s \o <<u>> /\ <<u>> \in Seq(S)
  BY AppendIsConcat
<1>2. UpTo(s \o <<u>>, o) = UpTo(s, o) /\ After(s \o <<u>>, o) = After(s, o) \o <<u>>
  BY <1>1, CutConcat
<1>3. After(s, o) \in Seq(S)
  BY Cut
<1>4. Append(After(s, o), u) = After(s, o) \o <<u>>
  BY <1>3, AppendIsConcat
<1> QED
  BY <1>1, <1>2, <1>4

\* The cut moves on by one.
LEMMA CutNext ==
    ASSUME NEW S, NEW s \in Seq(S), NEW o \in Nat, o < Len(s)
    PROVE  /\ After(s, o) # <<>>
           /\ After(s, o + 1) = Tail(After(s, o))
           /\ UpTo(s, o + 1) = Append(UpTo(s, o), Head(After(s, o)))
           /\ Len(UpTo(s, o + 1)) = o + 1
<1>0. Len(s) \in Nat
  BY LenProperties
<1>1. o + 1 \in 1 .. Len(s) /\ Len(s) \in o + 1 .. Len(s) /\ o + 1 \in 1 .. Len(s)
      /\ 1 \in 1 .. Len(s) /\ (o + 1) - 1 = o /\ o + 1 \in Nat /\ o + 1 <= Len(s)
  BY <1>0
<1>2. Head(After(s, o)) = s[o + 1] /\ Tail(After(s, o)) = SubSeq(s, (o + 1) + 1, Len(s))
  BY <1>1, HeadTailOfSubSeq DEF After
<1>3. UpTo(s, o) \in Seq(S) /\ Len(After(s, o)) = Len(s) - o /\ Len(s) - o # 0
      /\ Len(UpTo(s, o + 1)) = o + 1
  <2>1. UpTo(s, o) \in Seq(S) /\ Len(After(s, o)) = Len(s) - o
    <3>1. o <= Len(s)
      BY <1>0
    <3> QED
      BY <3>1, Cut
  <2>2. Len(UpTo(s, o + 1)) = o + 1
    BY <1>1, Cut
  <2> QED
    BY <1>0, <2>1, <2>2
<1>4. SubSeq(s, 1, o + 1) = SubSeq(s, 1, (o + 1) - 1) \o <<s[o + 1]>>
  BY <1>1, SubSeqRecursiveSecond
<1>5. s[o + 1] \in S
  BY <1>1, ElementOfSeq
<1>6. Append(UpTo(s, o), s[o + 1]) = UpTo(s, o) \o <<s[o + 1]>>
  BY <1>3, <1>5, AppendIsConcat
<1>7. After(s, o) # <<>>
  BY <1>3, EmptySeq
<1> QED
  BY <1>1, <1>2, <1>3, <1>4, <1>6, <1>7 DEF UpTo, After

\* A first file f, read ahead, the files j after it and the buffer w.
Parts(S, f, o, r, s, j, w) ==
    /\ f \in Seq(S) /\ s \in Seq(S) /\ j \in Seq(S) /\ w \in Seq(S)
    /\ o \in Nat /\ r \in Nat /\ ReadPart(f, o, r, s)

\* What is left to read is what lies behind the place of reading.
CutThere(f, o, r, s, j, w) ==
    /\ s \o SubSeq(f, r + 1, Len(f)) \o j \o w = After(f \o j \o w, o)
    /\ SubSeq(f, 1, o) = UpTo(f \o j \o w, o)

LEMMA PendingSplit ==
    ASSUME NEW S, NEW f, NEW o, NEW r, NEW s, NEW j, NEW w, Parts(S, f, o, r, s, j, w)
    PROVE  CutThere(f, o, r, s, j, w)
<1>0. /\ f \in Seq(S) /\ s \in Seq(S) /\ j \in Seq(S) /\ w \in Seq(S)
      /\ o \in Nat /\ r \in Nat /\ ReadPart(f, o, r, s)
  BY DEF Parts
<1>1. r = o + Len(s) /\ r <= Len(f) /\ s = SubSeq(f, o + 1, r)
      /\ Len(s) \in Nat /\ Len(f) \in Nat
  BY <1>0, LenProperties DEF ReadPart
<1>2. o <= Len(f) /\ o + 1 \in 1 .. Len(f) + 1 /\ r \in (o + 1) - 1 .. Len(f)
      /\ Len(f) \in r .. Len(f)
  BY <1>0, <1>1
<1>3. SubSeq(f, o + 1, r) \o SubSeq(f, r + 1, Len(f)) = SubSeq(f, o + 1, Len(f))
  BY <1>0, <1>2, ConcatAdjacentSubSeq
<1>4. s \o SubSeq(f, r + 1, Len(f)) = After(f, o)
  BY <1>1, <1>3 DEF After
<1> DEFINE t == j \o w
           y == After(f, o)
<1>5. t \in Seq(S) /\ y \in Seq(S)
  <2>1. t \in Seq(S)
    BY <1>0, ConcatProperties
  <2>2. y \in Seq(S)
    BY <1>0, <1>2, Cut
  <2> QED
    BY <2>1, <2>2
<1>6. f \o j \o w = f \o t
  <2>1. f \in Seq(S) /\ j \in Seq(S) /\ w \in Seq(S)
    BY <1>0
  <2> QED
    BY ONLY <2>1, ConcatAssociative
<1>7. y \o j \o w = y \o t
  <2>0. j \in Seq(S) /\ w \in Seq(S)
    BY <1>0
  <2>1. \A p \in Seq(S) : p \o j \o w = p \o (j \o w)
    BY ONLY <2>0, ConcatAssociative
  <2>2. y \in Seq(S)
    BY <1>5
  <2> HIDE DEF y
  <2> QED
    BY <2>1, <2>2
<1>8. UpTo(f \o t, o) = UpTo(f, o) /\ After(f \o t, o) = y \o t
  <2> HIDE DEF t
  <2> QED
    BY <1>0, <1>2, <1>5, CutConcat
<1>9. After(f \o j \o w, o) = y \o j \o w
  BY <1>6, <1>7, <1>8
<1> QED
  BY <1>4, <1>6, <1>8, <1>9 DEF UpTo, CutThere
-----------------------------------------------------------------------------
(***************************************************************************)
(* The urls of a queue that is alone.                                      *)
(***************************************************************************)
Content(q) == Joined(dir[q], fout[q], fin[q]) \o outbuf[q]

FilesOn(d) == IF DOMAIN d = {} THEN <<>> ELSE Joined(d, Min(DOMAIN d), Max(DOMAIN d) - 1)

LEMMA OnDiskOf ==
    ASSUME NEW q
    PROVE  OnDisk(q) = FilesOn(dir[q]) /\ OnDisk(q)' = FilesOn(dir'[q])
BY DEF OnDisk, Files, FilesOn, Joined, ListOf, FileOf

LEMMA FilesOnIs ==
    ASSUME NEW d, NEW a, NEW b, FilesFrom(d, a, b)
    PROVE  FilesOn(d) = Joined(d, a, b - 1)
<1>1. a \in Nat /\ b \in Nat /\ a <= b /\ DOMAIN d = a .. b
  BY DEF FilesFrom
<1> DEFINE X == DOMAIN d
<1>2. X = a .. b /\ a \in X /\ b \in X /\ X # {} /\ X \in SUBSET (0 .. b)
  BY <1>1
<1> HIDE DEF X
<1>3. /\ Max(X) \in X /\ \A y \in X : y <= Max(X)
      /\ Min(X) \in X /\ \A y \in X : Min(X) <= y
  BY <1>1, <1>2, MaxOf
<1>4. Max(X) = b /\ Min(X) = a
  BY <1>1, <1>2, <1>3
<1> QED
  BY <1>2, <1>4 DEF FilesOn, X

ContentRight(q) ==
    Open(q) =>
      /\ FilesFrom(dir[q], fout[q], fin[q])
      /\ OnDisk(q) \in Seq(Urls) /\ dir[q][fin[q]] \in Seq(Urls) /\ outbuf[q] \in Seq(Urls)
      /\ Joined(dir[q], fout[q], fin[q]) = OnDisk(q) \o dir[q][fin[q]]
      /\ Content(q) = OnDisk(q) \o (dir[q][fin[q]] \o outbuf[q])
      /\ Content(q) \in Seq(Urls) /\ Len(Content(q)) = in[q]
      /\ Len(dir[q][fin[q]] \o outbuf[q]) <= UrlByFile
      /\ out[q] \in 0 .. Len(Content(q)) /\ out[q] <= UrlByFile
      /\ Pending(q) = After(Content(q), out[q])
      /\ Given(q) = UpTo(Content(q), out[q])

LEMMA ContentIs == ASSUME DiskInv, NEW q \in Queues, Alone(q) PROVE ContentRight(q)
<1>0. /\ DirTypes /\ fin \in [Queues -> Nat] /\ fout \in [Queues -> Nat]
      /\ in \in [Queues -> Nat] /\ out \in [Queues -> Nat] /\ rpos \in [Queues -> Nat]
      /\ outbuf \in [Queues -> Seq(Urls)] /\ buf \in [Queues -> Seq(Urls)] /\ QueueInv(q)
  BY TypeFacts DEF DiskInv, QueueInv
<1> SUFFICES ASSUME Open(q) PROVE ContentRight(q)
  BY DEF ContentRight
<1> DEFINE d == dir[q]
           a == fout[q]
           b == fin[q]
           f == d[a]
           l == d[b]
           w == outbuf[q]
           o == out[q]
           j == Joined(d, a + 1, b)
           k == Joined(d, a, b - 1)
<1>1. /\ opened[q] /\ FilesFrom(d, a, b) /\ ReadPart(f, o, rpos[q], buf[q])
      /\ CountOk(in[q], a, b, Len(l) + Len(w), o)
  BY <1>0 DEF QueueInv, ReadRight, WriteRight, ReadOk
<1>2. /\ a \in Nat /\ b \in Nat /\ a <= b /\ DOMAIN d = a .. b /\ IsFiles(d, Urls)
      /\ FullFiles(d, a, b - 1) /\ o \in Nat /\ rpos[q] \in Nat /\ in[q] \in Nat
  BY <1>0, <1>1 DEF FilesFrom, DirTypes
<1>3. a \in DOMAIN d /\ b \in DOMAIN d
  BY <1>2
<1>4. /\ f \in Seq(Urls) /\ l \in Seq(Urls) /\ w \in Seq(Urls) /\ buf[q] \in Seq(Urls)
      /\ FileOf(d, a) = f /\ FileOf(d, b) = l
  BY <1>0, <1>2, <1>3 DEF IsFiles, FileOf
<1>5. OnDisk(q) = k
  BY <1>1, OnDiskOf, FilesOnIs
<1>6. Files(q, a + 1, b) = j
  BY FilesAre
<1>7. Unread(q) = SubSeq(f, rpos[q] + 1, Len(f)) /\ Given(q) = SubSeq(f, 1, o)
  BY <1>1 DEF Unread, Given
<1>8. Pending(q) = buf[q] \o SubSeq(f, rpos[q] + 1, Len(f)) \o j \o w
  BY <1>6, <1>7 DEF Pending
<1> HIDE DEF d
<1>9. Joined(d, a, b) = k \o l /\ Joined(d, a, b) = f \o j
      /\ k \in Seq(Urls) /\ j \in Seq(Urls)
  <2> HIDE DEF a, b
  <2>1. a \in Int /\ b \in Int /\ a + 1 \in Int /\ b - 1 \in Int
    BY <1>2
  <2>2. Joined(d, a, b) = k \o FileOf(d, b)
    BY <1>2, <2>1, JoinedLast
  <2>3. Joined(d, a, b) = FileOf(d, a) \o j
    BY <1>2, <2>1, JoinedFirst
  <2>4. k \in Seq(Urls)
    BY <1>2, <2>1, JoinedType
  <2>5. j \in Seq(Urls)
    BY <1>2, <2>1, JoinedType
  <2> QED
    BY <1>4, <2>2, <2>3, <2>4, <2>5
<1>10. Len(k) = (b - a) * UrlByFile
  <2> HIDE DEF a, b
  <2>1. a \in Int /\ b - 1 \in Int /\ a <= (b - 1) + 1 /\ (b - 1) + 1 - a = b - a
    BY <1>2
  <2>2. Len(k) = ((b - 1) + 1 - a) * UrlByFile
    BY <1>2, <2>1, JoinedLen
  <2> QED
    BY <2>1, <2>2
<1>11. Content(q) = (k \o l) \o w /\ Content(q) = f \o j \o w
  BY <1>9 DEF Content, d
<1>12. Content(q) = k \o (l \o w) /\ Content(q) \in Seq(Urls)
       /\ Len(Content(q)) = Len(k) + (Len(l) + Len(w)) /\ Len(l \o w) = Len(l) + Len(w)
  <2>0. k \in Seq(Urls) /\ l \in Seq(Urls) /\ w \in Seq(Urls)
    BY <1>4, <1>9
  <2> HIDE DEF k, l, w
  <2>1. (k \o l) \o w = k \o (l \o w)
    BY <2>0, ConcatAssociative
  <2>2. l \o w \in Seq(Urls) /\ Len(l \o w) = Len(l) + Len(w)
    BY <2>0, ConcatProperties
  <2> DEFINE t == l \o w
  <2>3. t \in Seq(Urls)
    BY <2>2
  <2> HIDE DEF t
  <2>4. k \o t \in Seq(Urls) /\ Len(k \o t) = Len(k) + Len(t)
    BY <2>0, <2>3, ConcatProperties
  <2> QED
    BY <1>11, <2>1, <2>2, <2>4 DEF t
<1>13. Len(Content(q)) = in[q] /\ Len(l \o w) <= UrlByFile /\ o <= in[q] /\ o <= UrlByFile
  BY <1>1, <1>10, <1>12 DEF CountOk
<1>14. o \in 0 .. Len(Content(q))
  BY <1>2, <1>13
<1>15. /\ buf[q] \o SubSeq(f, rpos[q] + 1, Len(f)) \o j \o w = After(f \o j \o w, o)
       /\ SubSeq(f, 1, o) = UpTo(f \o j \o w, o)
  <2> DEFINE r == rpos[q]
             s == buf[q]
  <2>0. Parts(Urls, f, o, r, s, j, w)
    BY <1>1, <1>2, <1>4, <1>9 DEF Parts
  <2> HIDE DEF f, j, w, o, r, s
  <2>1. CutThere(f, o, r, s, j, w)
    BY <2>0, PendingSplit
  <2> QED
    BY <2>1 DEF CutThere, r, s
<1>16. Pending(q) = After(Content(q), o) /\ Given(q) = UpTo(Content(q), o)
  BY <1>7, <1>8, <1>11, <1>15 DEF d
<1> QED
  BY <1>1, <1>4, <1>5, <1>9, <1>12, <1>13, <1>14, <1>16 DEF ContentRight, d

AllContent == \A q \in Queues : Alone(q) => ContentRight(q)

LEMMA ContentAlways == DiskInv => AllContent
BY ContentIs DEF AllContent

LEMMA ContentTwice ==
    ASSUME DiskInv, DiskInv', NEW q \in Queues, Alone(q)
    PROVE  ContentRight(q) /\ ContentRight(q)'
<1>1. DiskInv' => AllContent'
  BY ContentAlways, PTL
<1>2. AllContent /\ AllContent'
  BY <1>1, ContentAlways
<1> QED
  BY <1>2 DEF AllContent, Alone

\* getLength is what can still be read.
LEMMA LengthRight ==
    ASSUME DiskInv, NEW q \in Queues, Alone(q), Open(q)
    PROVE  in[q] - out[q] = Len(Pending(q))
<1> DEFINE c == Content(q)
           o == out[q]
<1>1. c \in Seq(Urls) /\ Len(c) = in[q] /\ o \in 0 .. Len(c) /\ Pending(q) = After(c, o)
  BY ContentIs DEF ContentRight
<1> HIDE DEF c, o
<1>2. o \in Nat /\ o <= Len(c)
  BY <1>1, LenProperties
<1>3. Len(After(c, o)) = Len(c) - o
  BY <1>1, <1>2, Cut
<1> QED
  BY <1>1, <1>3 DEF o

\* The length decides when the crawl stops: it is exact when the names are apart.
THEOREM LengthsExact == NamesApart /\ Spec => []LengthExact
<1> SUFFICES ASSUME NamesApart PROVE Spec => []LengthExact
  OBVIOUS
<1>1. ASSUME DiskInv PROVE LengthExact
  <2> SUFFICES ASSUME step = "run", NEW q \in Queues PROVE in[q] - out[q] = Len(Pending(q))
    BY DEF LengthExact
  <2>1. Open(q) /\ Alone(q)
    BY DEF Open, Running, NamesApart
  <2> QED
    BY <1>1, <2>1, LengthRight
<1>2. DiskInv => LengthExact
  BY <1>1
<1> QED
  BY <1>2, QueuesRight, PTL
-----------------------------------------------------------------------------
(***************************************************************************)
(* The promise of a queue (UrlQueue): what each step does to it.           *)
(***************************************************************************)
QueueOf(q) == IF Up THEN Pending(q) ELSE OnDisk(q)
TakenOf(q) == IF Up THEN Given(q) ELSE <<>>

SameView(q) == Up' = Up /\ QueueOf(q)' = QueueOf(q) /\ TakenOf(q)' = TakenOf(q)
PutView(q) ==
    /\ Up /\ Up' /\ TakenOf(q)' = TakenOf(q)
    /\ \E u \in Urls : QueueOf(q)' = Append(QueueOf(q), u)
GetView(q) ==
    /\ Up /\ Up' /\ QueueOf(q) # <<>> /\ QueueOf(q)' = Tail(QueueOf(q))
    /\ TakenOf(q)' = Append(TakenOf(q), Head(QueueOf(q))) /\ Len(TakenOf(q)') <= UrlByFile
SettleView(q) == Up /\ Up' /\ TakenOf(q)' = <<>> /\ QueueOf(q)' = QueueOf(q)
StopView(q) ==
    LET all == TakenOf(q) \o QueueOf(q) IN
    /\ Up /\ ~Up' /\ TakenOf(q)' = <<>>
    /\ \E lost \in 0 .. UrlByFile :
           lost <= Len(all) /\ QueueOf(q)' = SubSeq(all, 1, Len(all) - lost)
StartView(q) == ~Up /\ Up' /\ QueueOf(q)' \in {QueueOf(q), <<>>} /\ TakenOf(q)' = <<>>

View(q) == \/ SameView(q) \/ PutView(q) \/ GetView(q) \/ SettleView(q)
           \/ StopView(q) \/ StartView(q)

LEMMA UpOpen ==
    ASSUME StepsRight, TypeOK, NEW q
    PROVE  Up => Open(q)
BY DEF Up, Ended, Open, Running, TypeOK, Steps

LEMMA UpTwice ==
    ASSUME DiskInv, DiskInv', NEW q
    PROVE  (Up => Open(q)) /\ (Up' => Open(q)')
BY DEF DiskInv, Up, Ended, Open, Running, TypeOK, Steps

\* A step that leaves the queue alone.
LEMMA ViewKept ==
    ASSUME NEW q, SameQueue(q), Up' = Up
    PROVE  SameView(q)
<1>1. Pending(q)' = Pending(q)
  BY DEF SameQueue, Pending, Unread, Files
<1>2. OnDisk(q)' = OnDisk(q)
  BY DEF SameQueue, OnDisk, Files
<1>3. Given(q)' = Given(q)
  BY DEF SameQueue, Given
<1> QED
  BY <1>1, <1>2, <1>3 DEF SameView, QueueOf, TakenOf

\* Pending and Given before and after a step, while the program runs.
LEMMA CutTwice ==
    ASSUME DiskInv, DiskInv', NEW q \in Queues, Alone(q), Up, Up'
    PROVE  /\ Content(q) \in Seq(Urls) /\ out[q] \in Nat /\ out[q] <= Len(Content(q))
           /\ Content(q)' \in Seq(Urls) /\ out'[q] \in Nat /\ out'[q] <= Len(Content(q)')
           /\ out'[q] <= UrlByFile /\ Len(Content(q)) = in[q] /\ Len(Content(q)') = in'[q]
           /\ QueueOf(q) = After(Content(q), out[q]) /\ TakenOf(q) = UpTo(Content(q), out[q])
           /\ QueueOf(q)' = After(Content(q)', out'[q])
           /\ TakenOf(q)' = UpTo(Content(q)', out'[q])
<1>1. ContentRight(q) /\ ContentRight(q)' /\ Open(q) /\ Open(q)'
  BY ContentTwice, UpTwice
<1>2. /\ Content(q) \in Seq(Urls) /\ out[q] \in 0 .. Len(Content(q)) /\ Len(Content(q)) = in[q]
      /\ Pending(q) = After(Content(q), out[q]) /\ Given(q) = UpTo(Content(q), out[q])
  BY <1>1 DEF ContentRight
<1>3. /\ Content(q)' \in Seq(Urls) /\ out'[q] \in 0 .. Len(Content(q)')
      /\ Len(Content(q)') = in'[q] /\ out'[q] <= UrlByFile
      /\ Pending(q)' = After(Content(q)', out'[q]) /\ Given(q)' = UpTo(Content(q)', out'[q])
  BY <1>1 DEF ContentRight
<1>4. out[q] \in Nat /\ out[q] <= Len(Content(q))
  BY <1>2, LenProperties
<1>5. out'[q] \in Nat /\ out'[q] <= Len(Content(q)')
  BY <1>3, LenProperties
<1>6. QueueOf(q) = Pending(q) /\ TakenOf(q) = Given(q)
  BY DEF QueueOf, TakenOf
<1>7. QueueOf(q)' = Pending(q)' /\ TakenOf(q)' = Given(q)'
  BY DEF QueueOf, TakenOf
<1> QED
  BY <1>2, <1>3, <1>4, <1>5, <1>6, <1>7

LEMMA ViewSame ==
    ASSUME DiskInv, DiskInv', NEW q \in Queues, Alone(q), Up, Up',
           Content(q)' = Content(q), out'[q] = out[q]
    PROVE  SameView(q)
BY CutTwice DEF SameView

LEMMA ViewPut ==
    ASSUME DiskInv, DiskInv', NEW q \in Queues, Alone(q), Up, Up', NEW u \in Urls,
           Content(q)' = Append(Content(q), u), out'[q] = out[q]
    PROVE  PutView(q)
<1> DEFINE c == Content(q)
           o == out[q]
<1>1. /\ c \in Seq(Urls) /\ o \in Nat /\ o <= Len(c)
      /\ QueueOf(q) = After(c, o) /\ TakenOf(q) = UpTo(c, o)
      /\ QueueOf(q)' = After(Append(c, u), o) /\ TakenOf(q)' = UpTo(Append(c, u), o)
  BY CutTwice
<1> HIDE DEF c, o
<1>2. /\ UpTo(Append(c, u), o) = UpTo(c, o)
      /\ After(Append(c, u), o) = Append(After(c, o), u)
  BY <1>1, CutAppend
<1>3. QueueOf(q)' = Append(QueueOf(q), u) /\ TakenOf(q)' = TakenOf(q)
  BY <1>1, <1>2
<1> QED
  BY <1>3 DEF PutView

LEMMA ViewGet ==
    ASSUME DiskInv, DiskInv', NEW q \in Queues, Alone(q), Up, Up',
           Content(q)' = Content(q), out'[q] = out[q] + 1, in[q] # out[q]
    PROVE  GetView(q)
<1> DEFINE c == Content(q)
           o == out[q]
<1>1. /\ c \in Seq(Urls) /\ o \in Nat /\ o <= Len(c) /\ o # Len(c) /\ o + 1 <= UrlByFile
      /\ QueueOf(q) = After(c, o) /\ TakenOf(q) = UpTo(c, o)
      /\ QueueOf(q)' = After(c, o + 1) /\ TakenOf(q)' = UpTo(c, o + 1)
  BY CutTwice
<1> HIDE DEF c, o
<1>2. o < Len(c)
  BY <1>1, LenProperties
<1>3. /\ After(c, o) # <<>> /\ After(c, o + 1) = Tail(After(c, o))
      /\ UpTo(c, o + 1) = Append(UpTo(c, o), Head(After(c, o)))
      /\ Len(UpTo(c, o + 1)) = o + 1
  BY <1>1, <1>2, CutNext
<1>4. Len(TakenOf(q)') <= UrlByFile
  BY <1>1, <1>3
<1>5. QueueOf(q) # <<>> /\ QueueOf(q)' = Tail(QueueOf(q))
  BY <1>1, <1>3
<1>6. TakenOf(q)' = Append(TakenOf(q), Head(QueueOf(q)))
  BY <1>1, <1>3
<1> QED
  BY <1>4, <1>5, <1>6 DEF GetView

\* A file whose urls were all taken goes.
LEMMA ViewSettle ==
    ASSUME DiskInv, DiskInv', NEW q \in Queues, Alone(q), Up, Up', NEW f \in Seq(Urls),
           Content(q) = f \o Content(q)', out[q] = Len(f), out'[q] = 0
    PROVE  SettleView(q)
<1> DEFINE c == Content(q)
           e == Content(q)'
           n == Len(f)
<1>1. /\ e \in Seq(Urls) /\ c = f \o e /\ n \in Nat
      /\ QueueOf(q) = After(c, n)
      /\ QueueOf(q)' = After(e, 0) /\ TakenOf(q)' = UpTo(e, 0)
  BY CutTwice, LenProperties
<1> HIDE DEF c, e
<1>2. After(f \o e, n) = After(f, n) \o e
  <2>1. n <= Len(f) /\ f \in Seq(Urls)
    BY <1>1
  <2> HIDE DEF n
  <2> QED
    BY ONLY <1>1, <2>1, CutConcat
<1>3. After(f, n) = <<>>
  BY <1>1, SubSeqEmpty DEF After
<1>4. After(c, n) = e
  BY <1>1, <1>2, <1>3, ConcatEmptySeq
<1>5. After(e, 0) = e /\ UpTo(e, 0) = <<>>
  BY <1>1, CutNone
<1> QED
  BY <1>1, <1>4, <1>5 DEF SettleView

LEMMA ViewStart ==
    ASSUME DiskInv, DiskInv', NEW q \in Queues, Alone(q), ~Up, Up',
           Content(q)' \in {OnDisk(q), <<>>}, out'[q] = 0
    PROVE  StartView(q)
<1>1. ContentRight(q)' /\ Open(q)'
  BY ContentTwice, UpTwice
<1> DEFINE e == Content(q)'
<1>2. e \in Seq(Urls) /\ Pending(q)' = After(e, 0) /\ Given(q)' = UpTo(e, 0)
  BY <1>1 DEF ContentRight
<1>3. QueueOf(q)' = Pending(q)' /\ TakenOf(q)' = Given(q)' /\ QueueOf(q) = OnDisk(q)
  BY DEF QueueOf, TakenOf
<1>4. e \in {OnDisk(q), <<>>}
  OBVIOUS
<1> HIDE DEF e
<1>5. After(e, 0) = e /\ UpTo(e, 0) = <<>>
  BY <1>2, CutNone
<1> QED
  BY <1>2, <1>3, <1>4, <1>5 DEF StartView

\* Without its end a sequence is its beginning.
LEMMA WithoutEnd ==
    ASSUME NEW S, NEW k \in Seq(S), NEW t \in Seq(S)
    PROVE  /\ Len(t) \in Nat /\ Len(t) <= Len(k \o t)
           /\ SubSeq(k \o t, 1, Len(k \o t) - Len(t)) = k
<1>1. Len(k) \in Nat /\ Len(t) \in Nat /\ Len(k \o t) = Len(k) + Len(t)
  BY LenProperties, ConcatProperties
<1>2. Len(k \o t) - Len(t) = Len(k) /\ Len(t) <= Len(k \o t)
  BY <1>1
<1>3. SubSeq(k \o t, 1, Len(k)) = SubSeq(k, 1, Len(k))
  BY <1>1, SubSeqPrefix
<1>4. SubSeq(k, 1, Len(k)) = k
  BY SubSeqFull
<1> QED
  BY <1>1, <1>2, <1>3, <1>4

LEMMA ViewStop ==
    ASSUME DiskInv, NEW q \in Queues, Alone(q), Up, ~Up', dir'[q] = dir[q]
    PROVE  StopView(q)
<1> DEFINE c == Content(q)
           k == OnDisk(q)
           t == dir[q][fin[q]] \o outbuf[q]
           o == out[q]
<1>1. Open(q)
  BY UpOpen DEF DiskInv
<1>2. /\ k \in Seq(Urls) /\ dir[q][fin[q]] \in Seq(Urls) /\ outbuf[q] \in Seq(Urls)
      /\ c = k \o t /\ c \in Seq(Urls) /\ Len(t) <= UrlByFile /\ o \in 0 .. Len(c)
      /\ Pending(q) = After(c, o) /\ Given(q) = UpTo(c, o)
  BY <1>1, ContentIs DEF ContentRight
<1>3. t \in Seq(Urls)
  BY <1>2, ConcatProperties
<1>4. QueueOf(q) = After(c, o) /\ TakenOf(q) = UpTo(c, o)
  BY <1>2 DEF QueueOf, TakenOf
<1>5. QueueOf(q)' = OnDisk(q)' /\ TakenOf(q)' = <<>>
  BY DEF QueueOf, TakenOf
<1>6. OnDisk(q)' = k
  BY OnDiskOf
<1> HIDE DEF c, k, t, o
<1>7. o \in Nat /\ o <= Len(c)
  BY <1>2, LenProperties
<1>8. UpTo(c, o) \o After(c, o) = c
  BY <1>2, <1>7, Cut
<1>9. /\ Len(t) \in Nat /\ Len(t) <= Len(k \o t)
      /\ SubSeq(k \o t, 1, Len(k \o t) - Len(t)) = k
  BY <1>2, <1>3, WithoutEnd
<1> DEFINE all == TakenOf(q) \o QueueOf(q)
<1>10. all = k \o t
  BY <1>2, <1>4, <1>8
<1>11. Len(t) \in 0 .. UrlByFile
  BY <1>2, <1>9, FilesAssumption
<1>12. Len(t) <= Len(all) /\ QueueOf(q)' = SubSeq(all, 1, Len(all) - Len(t))
  <2> HIDE DEF all
  <2> QED
    BY <1>5, <1>6, <1>9, <1>10
<1> HIDE DEF all
<1>13. \E lost \in 0 .. UrlByFile :
           lost <= Len(all) /\ QueueOf(q)' = SubSeq(all, 1, Len(all) - lost)
  BY <1>11, <1>12
<1> QED
  BY <1>5, <1>13 DEF StopView, all

LEMMA ViewDown ==
    ASSUME NEW q, ~Up, ~Up', OnDisk(q)' = OnDisk(q)
    PROVE  SameView(q)
<1>1. QueueOf(q)' = OnDisk(q)' /\ TakenOf(q)' = <<>>
  BY DEF QueueOf, TakenOf
<1>2. QueueOf(q) = OnDisk(q) /\ TakenOf(q) = <<>>
  BY DEF QueueOf, TakenOf
<1>3. Up \in BOOLEAN /\ Up' \in BOOLEAN
  BY DEF Up, Ended
<1>4. Up' = Up
  BY <1>3, Zenon
<1> QED
  BY <1>1, <1>2, <1>4 DEF SameView

-----------------------------------------------------------------------------
(***************************************************************************)
(* What each operation does to the promise.                                *)
(***************************************************************************)
LEMMA GrownOnDisk ==
    ASSUME NEW S, NEW d, NEW e, NEW a, NEW b, NEW s \in Seq(S), IsFiles(d, S),
           FilesFrom(d, a, b), Grown(d, e, b, s)
    PROVE  FilesOn(e) = FilesOn(d)
<1>1. FilesFrom(e, a, b)
  BY GrownFrom
<1>2. a \in Int /\ b - 1 \in Int /\ b \in Nat
  BY DEF FilesFrom
<1>3. SameFiles(d, e, a, b - 1)
  BY <1>2 DEF SameFiles, FileOf, Grown
<1>4. Joined(d, a, b - 1) = Joined(e, a, b - 1)
  BY <1>2, <1>3, JoinedCong
<1> QED
  BY <1>1, <1>4, FilesOnIs

LEMMA AgainOnDisk ==
    ASSUME NEW d, NEW e, NEW a, NEW b, FilesFrom(d, a, b), Begun(d, e, b)
    PROVE  FilesOn(e) = FilesOn(d)
<1>1. FilesFrom(e, a, b)
  BY AgainFrom
<1>2. a \in Int /\ b - 1 \in Int /\ b \in Nat
  BY DEF FilesFrom
<1>3. SameFiles(d, e, a, b - 1)
  BY <1>2 DEF SameFiles, FileOf, Begun
<1>4. Joined(d, a, b - 1) = Joined(e, a, b - 1)
  BY <1>2, <1>3, JoinedCong
<1> QED
  BY <1>1, <1>4, FilesOnIs

LEMMA BegunOnDisk ==
    ASSUME NEW S, NEW d, NEW e, NEW a, NEW b, IsFiles(d, S), FilesFrom(d, a, b),
           Len(d[b]) = UrlByFile, Begun(d, e, b + 1)
    PROVE  FilesOn(e) = FilesOn(d) \o d[b]
<1>1. FilesFrom(e, a, b + 1)
  BY BegunFrom
<1>2. a \in Int /\ b \in Int /\ a <= b /\ (b + 1) - 1 = b /\ b \in DOMAIN d
  BY DEF FilesFrom
<1>3. SameFiles(d, e, a, b)
  BY <1>2 DEF SameFiles, FileOf, Begun
<1>4. Joined(d, a, b) = Joined(e, a, b)
  BY <1>2, <1>3, JoinedCong
<1>5. Joined(d, a, b) = Joined(d, a, b - 1) \o FileOf(d, b)
  BY <1>2, JoinedLast
<1>6. FileOf(d, b) = d[b]
  BY <1>2 DEF FileOf
<1>7. FilesOn(e) = Joined(e, a, b) /\ FilesOn(d) = Joined(d, a, b - 1)
  BY <1>1, <1>2, FilesOnIs
<1> QED
  BY <1>4, <1>5, <1>6, <1>7

\* An url at the end of the buffer is at the end of all.
Ends(S, p, f, s) == p \in Seq(S) /\ f \in Seq(S) /\ s \in Seq(S)
EndsAll(p, f, s, u) ==
    /\ p \o (f \o Append(s, u)) = Append(p \o (f \o s), u)
    /\ p \o ((f \o s) \o <<u>>) = Append(p \o (f \o s), u)
    /\ p \o ((f \o s) \o <<>>) = p \o (f \o s)
    /\ (p \o (f \o s)) \o (<<>> \o <<>>) = p \o (f \o s)

LEMMA AssocThree ==
    ASSUME NEW S, NEW p, NEW f, NEW s, NEW u \in S, Ends(S, p, f, s)
    PROVE  EndsAll(p, f, s, u)
<1>1. p \in Seq(S) /\ f \in Seq(S) /\ s \in Seq(S) /\ <<u>> \in Seq(S)
  BY DEF Ends
<1> DEFINE g == f \o s
           h == p \o g
           v == <<u>>
<1>2. g \in Seq(S)
  BY <1>1, ConcatProperties
<1>3. h \in Seq(S)
  <2> HIDE DEF g
  <2> QED
    BY <1>1, <1>2, ConcatProperties
<1>4. Append(s, u) = s \o v /\ Append(h, u) = h \o v
  <2> HIDE DEF h
  <2>1. Append(s, u) = s \o v
    BY <1>1, AppendIsConcat
  <2>2. Append(h, u) = h \o v
    BY <1>3, AppendIsConcat
  <2> QED
    BY <2>1, <2>2
<1>5. f \o (s \o v) = g \o v
  <2>1. f \in Seq(S) /\ s \in Seq(S) /\ v \in Seq(S)
    BY <1>1
  <2> HIDE DEF v
  <2>2. (f \o s) \o v = f \o (s \o v)
    BY ONLY <2>1, ConcatAssociative
  <2> QED
    BY <2>2
<1>6. p \o (g \o v) = h \o v
  <2>1. p \in Seq(S) /\ g \in Seq(S) /\ v \in Seq(S)
    BY <1>1, <1>2
  <2> HIDE DEF v, g
  <2>2. (p \o g) \o v = p \o (g \o v)
    BY ONLY <2>1, ConcatAssociative
  <2> QED
    BY <2>2
<1>7. g \o <<>> = g
  <2> HIDE DEF g
  <2> QED
    BY <1>2, ConcatEmptySeq
<1>8. h \o <<>> = h
  <2> HIDE DEF h
  <2> QED
    BY <1>3, ConcatEmptySeq
<1>9. <<>> \o <<>> = <<>>
  <2>1. <<>> \in Seq(S)
    BY EmptySeq
  <2> QED
    BY <2>1, ConcatEmptySeq
<1> HIDE DEF v
<1>10. p \o (f \o Append(s, u)) = Append(h, u) /\ p \o (g \o v) = Append(h, u)
  BY <1>4, <1>5, <1>6
<1>11. p \o (g \o <<>>) = h /\ h \o (<<>> \o <<>>) = h
  BY <1>7, <1>8, <1>9
<1> QED
  BY <1>10, <1>11 DEF EndsAll, v

\* The parts of the urls of a queue before and after a step.
Sides(q) ==
    /\ Up /\ Up' /\ IsFiles(dir[q], Urls) /\ FilesFrom(dir[q], fout[q], fin[q])
    /\ Ends(Urls, FilesOn(dir[q]), dir[q][fin[q]], outbuf[q])
    /\ Content(q) = FilesOn(dir[q]) \o (dir[q][fin[q]] \o outbuf[q])
    /\ Content(q)' = FilesOn(dir'[q]) \o (dir'[q][fin'[q]] \o outbuf'[q])
    /\ fin[q] \in DOMAIN dir[q]

LEMMA SidesAre ==
    ASSUME DiskInv, DiskInv', NEW q \in Queues, Alone(q), Up, Up'
    PROVE  Sides(q)
<1>1. ContentRight(q) /\ ContentRight(q)' /\ Open(q) /\ Open(q)'
  BY ContentTwice, UpTwice
<1>2. OnDisk(q) = FilesOn(dir[q]) /\ OnDisk(q)' = FilesOn(dir'[q])
  BY OnDiskOf
<1>3. IsFiles(dir[q], Urls)
  BY TypeFacts DEF DiskInv, DirTypes
<1>4. /\ FilesFrom(dir[q], fout[q], fin[q])
      /\ Ends(Urls, FilesOn(dir[q]), dir[q][fin[q]], outbuf[q])
      /\ Content(q) = FilesOn(dir[q]) \o (dir[q][fin[q]] \o outbuf[q])
  BY <1>1, <1>2 DEF ContentRight, Ends
<1>5. Content(q)' = FilesOn(dir'[q]) \o (dir'[q][fin'[q]] \o outbuf'[q])
  BY <1>1, <1>2 DEF ContentRight
<1>6. fin[q] \in DOMAIN dir[q]
  BY <1>4 DEF FilesFrom
<1> QED
  BY <1>3, <1>4, <1>5, <1>6 DEF Sides

\* A flush moves the end of the urls from the buffer to the file.
LEMMA FlushContent ==
    ASSUME DiskInv, NEW q \in Queues, Sides(q), fin'[q] = fin[q], outbuf'[q] = <<>>,
           Grown(dir[q], dir'[q], fin[q], outbuf[q])
    PROVE  Content(q)' = Content(q)
<1> DEFINE p == FilesOn(dir[q])
           f == dir[q][fin[q]]
           s == outbuf[q]
<1>1. /\ IsFiles(dir[q], Urls) /\ FilesFrom(dir[q], fout[q], fin[q]) /\ Ends(Urls, p, f, s)
      /\ Content(q) = p \o (f \o s) /\ fin[q] \in DOMAIN dir[q]
      /\ Content(q)' = FilesOn(dir'[q]) \o (dir'[q][fin'[q]] \o outbuf'[q])
  BY DEF Sides
<1>2. FilesOn(dir'[q]) = p
  BY <1>1, GrownOnDisk DEF Ends
<1>3. dir'[q][fin'[q]] = f \o s
  BY <1>1 DEF Grown
<1>4. Content(q)' = p \o ((f \o s) \o <<>>)
  BY <1>1, <1>2, <1>3
<1> HIDE DEF p, f, s
<1>5. p \o ((f \o s) \o <<>>) = p \o (f \o s)
  <2>1. CASE \E u \in Urls : TRUE
    BY <1>1, <2>1, AssocThree DEF EndsAll
  <2>2. CASE Urls = {}
    <3>1. Ends({0}, p, f, s)
      BY <1>1, <2>2 DEF Ends
    <3> QED
      BY <3>1, AssocThree DEF EndsAll
  <2> QED
    BY <2>1, <2>2
<1> QED
  BY <1>1, <1>4, <1>5

LEMMA PutContent ==
    ASSUME DiskInv, NEW q \in Queues, NEW u \in Urls, Sides(q), Put(q, u)
    PROVE  Content(q)' = Append(Content(q), u)
<1> DEFINE p == FilesOn(dir[q])
           f == dir[q][fin[q]]
           s == outbuf[q]
<1>0. DirTypes /\ outbuf \in [Queues -> Seq(Urls)]
  BY TypeFacts DEF DiskInv
<1>1. /\ IsFiles(dir[q], Urls) /\ FilesFrom(dir[q], fout[q], fin[q]) /\ Ends(Urls, p, f, s)
      /\ Content(q) = p \o (f \o s) /\ fin[q] \in DOMAIN dir[q]
      /\ Content(q)' = FilesOn(dir'[q]) \o (dir'[q][fin'[q]] \o outbuf'[q])
  BY DEF Sides
<1>2. fin'[q] = fin[q]
  BY DEF Put
<1>3. \/ Content(q)' = p \o (f \o Append(s, u))
      \/ Content(q)' = p \o ((f \o s) \o <<u>>)
  <2>1. CASE UNCHANGED dir /\ outbuf' = [outbuf EXCEPT ![q] = Append(@, u)]
    <3>1. dir'[q] = dir[q] /\ outbuf'[q] = Append(s, u)
      BY <1>0, <2>1
    <3> QED
      BY <1>1, <1>2, <3>1
  <2>2. CASE dir' = FlushOut(q) /\ outbuf' = [outbuf EXCEPT ![q] = <<u>>]
    <3>1. outbuf'[q] = <<u>> /\ Grown(dir[q], dir'[q], fin[q], outbuf[q])
      BY <1>0, <2>2, FlushDir DEF DirTypes
    <3>2. FilesOn(dir'[q]) = p
      BY <1>1, <3>1, GrownOnDisk DEF Ends
    <3>3. dir'[q][fin'[q]] = f \o s
      BY <1>1, <1>2, <3>1 DEF Grown
    <3> QED
      BY <1>1, <3>1, <3>2, <3>3
  <2> QED
    BY <2>1, <2>2 DEF Put
<1> HIDE DEF p, f, s
<1>4. /\ p \o (f \o Append(s, u)) = Append(p \o (f \o s), u)
      /\ p \o ((f \o s) \o <<u>>) = Append(p \o (f \o s), u)
  <2>1. EndsAll(p, f, s, u)
    BY <1>1, AssocThree, Zenon
  <2> QED
    BY <2>1, Zenon DEF EndsAll
<1> QED
  BY <1>1, <1>3, <1>4

\* The file that is full goes before the new one.
LEMMA CreatContent ==
    ASSUME DiskInv, NEW q \in Queues, Sides(q), fin'[q] = fin[q] + 1, outbuf[q] = <<>>,
           outbuf'[q] = <<>>, Len(dir[q][fin[q]]) = UrlByFile,
           Begun(dir[q], dir'[q], fin[q] + 1)
    PROVE  Content(q)' = Content(q)
<1> DEFINE p == FilesOn(dir[q])
           f == dir[q][fin[q]]
<1>1. /\ IsFiles(dir[q], Urls) /\ FilesFrom(dir[q], fout[q], fin[q])
      /\ Ends(Urls, p, f, outbuf[q])
      /\ Content(q) = p \o (f \o outbuf[q]) /\ fin[q] \in DOMAIN dir[q]
      /\ Content(q)' = FilesOn(dir'[q]) \o (dir'[q][fin'[q]] \o outbuf'[q])
  BY DEF Sides
<1>2. FilesOn(dir'[q]) = p \o f
  <2> DEFINE d == dir[q]
             e == dir'[q]
             b == fin[q]
  <2>1. /\ IsFiles(d, Urls) /\ FilesFrom(d, fout[q], b) /\ Len(d[b]) = UrlByFile
        /\ Begun(d, e, b + 1)
    BY <1>1
  <2> HIDE DEF d, e, b
  <2>2. FilesOn(e) = FilesOn(d) \o d[b]
    BY <2>1, BegunOnDisk
  <2> QED
    BY <2>2 DEF d, e, b
<1>3. dir'[q][fin'[q]] = <<>>
  BY DEF Begun
<1>4. Content(q)' = (p \o f) \o (<<>> \o <<>>) /\ Content(q) = p \o (f \o <<>>)
  BY <1>1, <1>2, <1>3
<1>5. p \in Seq(Urls) /\ f \in Seq(Urls)
  BY <1>1 DEF Ends
<1> HIDE DEF p, f
<1>6. f \o <<>> = f
  BY <1>5, ConcatEmptySeq
<1> DEFINE g == p \o f
<1>7. g \in Seq(Urls)
  BY <1>5, ConcatProperties
<1>8. g \o (<<>> \o <<>>) = g
  <2> HIDE DEF g
  <2>1. <<>> \in Seq(Urls)
    BY EmptySeq
  <2>2. <<>> \o <<>> = <<>>
    BY <2>1, ConcatEmptySeq
  <2> QED
    BY <1>7, <2>2, ConcatEmptySeq
<1> QED
  BY <1>4, <1>6, <1>8

LEMMA UpIs == Up <=> step \notin {"down", "refused", "aborted", "loading"}
BY DEF Up, Ended

LEMMA UpIsNext == Up' <=> step' \notin {"down", "refused", "aborted", "loading"}
BY DEF Up, Ended

LEMMA UpKept == ASSUME Up, Up' PROVE Up' = Up
<1>1. Up \in BOOLEAN /\ Up' \in BOOLEAN
  BY DEF Up, Ended
<1> QED
  BY <1>1, Zenon

LEMMA PutSeen ==
    ASSUME DiskInv, DiskInv', NEW q \in Queues, Alone(q), NEW r \in Queues, NEW u \in Urls,
           Put(r, u)
    PROVE  View(q)
<1>0. DirTypes /\ outbuf \in [Queues -> Seq(Urls)] /\ in \in [Queues -> Nat]
      /\ DOMAIN dir = Queues
  BY TypeFacts DEF DiskInv, DirTypes
<1>1. /\ step = "run" /\ step' \in {"run", "full"} /\ in' = [in EXCEPT ![r] = @ + 1]
      /\ UNCHANGED <<fin, fout, out, buf, opened, rpos>>
      /\ outbuf' = [outbuf EXCEPT ![r] = Append(@, u)] \/ outbuf' = [outbuf EXCEPT ![r] = <<u>>]
      /\ dir' = dir \/ dir' = FlushOut(r)
  BY DEF Put
<1>2. Up /\ Up'
  BY <1>1, UpIs, UpIsNext
<1>3. CASE r # q
  <2>1. dir'[q] = dir[q]
    BY <1>0, <1>1, <1>3, FlushDir DEF OthersKept
  <2>2. outbuf'[q] = outbuf[q] /\ in'[q] = in[q]
    BY <1>0, <1>1, <1>3
  <2>3. SameQueue(q)
    BY <1>1, <2>1, <2>2 DEF SameQueue
  <2> QED
    BY <1>2, <2>3, UpKept, ViewKept DEF View
<1>4. CASE r = q
  <2>1. Sides(q)
    BY <1>2, SidesAre
  <2>2. Content(q)' = Append(Content(q), u)
    BY <1>4, <2>1, PutContent
  <2>3. out'[q] = out[q]
    BY <1>1
  <2> QED
    BY <1>2, <2>2, <2>3, ViewPut DEF View
<1> QED
  BY <1>3, <1>4

LEMMA FlushSeen ==
    ASSUME DiskInv, DiskInv', NEW q \in Queues, Alone(q), RollFlush
    PROVE  View(q)
<1>0. DirTypes /\ outbuf \in [Queues -> Seq(Urls)] /\ DOMAIN dir = Queues
  BY TypeFacts DEF DiskInv, DirTypes
<1>1. PICK r \in Queues : todo = <<r>>
  BY DEF DiskInv, StepsRight, RollFlush
<1>2. /\ step = "full" /\ step' = "flushed"
      /\ dir' = FlushOut(r) /\ outbuf' = [outbuf EXCEPT ![r] = <<>>]
      /\ UNCHANGED <<fin, fout, in, out, buf, opened, rpos>>
  BY <1>1 DEF RollFlush, FullFlush
<1>3. Up /\ Up'
  BY <1>2, UpIs, UpIsNext
<1>4. OthersKept(r) /\ Grown(dir[r], dir'[r], fin[r], outbuf[r]) /\ outbuf'[r] = <<>>
  BY <1>0, <1>2, FlushDir
<1>5. CASE r # q
  <2>1. SameQueue(q)
    BY <1>0, <1>2, <1>4, <1>5 DEF SameQueue, OthersKept
  <2> QED
    BY <1>3, <2>1, UpKept, ViewKept DEF View
<1>6. CASE r = q
  <2>1. Sides(q)
    BY <1>3, SidesAre
  <2>2. fin'[q] = fin[q] /\ out'[q] = out[q]
    BY <1>2
  <2>3. Content(q)' = Content(q)
    BY <1>4, <1>6, <2>1, <2>2, FlushContent
  <2> QED
    BY <1>3, <2>2, <2>3, ViewSame DEF View
<1> QED
  BY <1>5, <1>6

LEMMA CreatSeen ==
    ASSUME DiskInv, DiskInv', NEW q \in Queues, Alone(q), RollCreat
    PROVE  View(q)
<1>0. DirTypes /\ outbuf \in [Queues -> Seq(Urls)] /\ DOMAIN dir = Queues
      /\ fin \in [Queues -> Nat]
  BY TypeFacts DEF DiskInv, DirTypes
<1>1. PICK r \in Queues : todo = <<r>>
  BY DEF DiskInv, StepsRight, RollCreat
<1>2. /\ step = "flushed" /\ step' \in {"rename", "run"}
      /\ dir' = Creat(r, fin[r] + 1) /\ fin' = [fin EXCEPT ![r] = @ + 1]
      /\ UNCHANGED <<fout, in, out, outbuf, buf, opened, rpos>>
  BY <1>1 DEF RollCreat
<1>3. Up /\ Up'
  BY <1>2, UpIs, UpIsNext
<1>4. OthersKept(r) /\ Begun(dir[r], dir'[r], fin[r] + 1) /\ fin'[r] = fin[r] + 1
  BY <1>0, <1>2, CreatDir
<1>5. CASE r # q
  <2>1. SameQueue(q)
    BY <1>0, <1>2, <1>4, <1>5 DEF SameQueue, OthersKept
  <2> QED
    BY <1>3, <2>1, UpKept, ViewKept DEF View
<1>6. CASE r = q
  <2>1. Sides(q)
    BY <1>3, SidesAre
  <2>2. Filled(q) /\ Open(q)
    BY <1>1, <1>2, <1>6 DEF Filled, Open, Running
  <2>3. /\ outbuf[q] = <<>> /\ outbuf'[q] = <<>> /\ out'[q] = out[q]
        /\ Len(dir[q][fin[q]]) + Len(outbuf[q]) = UrlByFile
    BY <1>2, <2>2 DEF DiskInv, QueueRight, WriteRight
  <2>4. dir[q][fin[q]] \in Seq(Urls)
    BY <2>1 DEF Sides, Ends
  <2>5. Len(dir[q][fin[q]]) \in Nat /\ Len(outbuf[q]) = 0
    BY <2>3, <2>4, LenProperties, EmptySeq
  <2>6. Len(dir[q][fin[q]]) = UrlByFile
    BY <2>3, <2>5
  <2>7. Content(q)' = Content(q)
    BY <1>4, <1>6, <2>1, <2>3, <2>6, CreatContent
  <2> QED
    BY <1>3, <2>3, <2>7, ViewSame DEF View
<1> QED
  BY <1>5, <1>6

LEMMA GetSeen ==
    ASSUME DiskInv, DiskInv', NEW q \in Queues, Alone(q), NEW r \in Queues, Get(r)
    PROVE  View(q)
<1>0. DirTypes /\ outbuf \in [Queues -> Seq(Urls)] /\ DOMAIN dir = Queues
      /\ buf \in [Queues -> Seq(Urls)] /\ rpos \in [Queues -> Nat] /\ out \in [Queues -> Nat]
  BY TypeFacts DEF DiskInv, DirTypes
<1>1. /\ step = "run" /\ in[r] # out[r] /\ step' \in {"run", "consumed"}
      /\ out' = [out EXCEPT ![r] = @ + 1]
      /\ UNCHANGED <<fin, fout, in, opened>>
      /\ \/ dir' = dir /\ outbuf' = outbuf
         \/ dir' = FlushOut(r) /\ outbuf' = [outbuf EXCEPT ![r] = <<>>]
      /\ \E s : buf' = [buf EXCEPT ![r] = s]
      /\ \E n : rpos' = [rpos EXCEPT ![r] = n]
  <2>1. CASE GetBuffered(r)
    <3>1. rpos' = [rpos EXCEPT ![r] = rpos[r]]
      BY <1>0, <2>1 DEF GetBuffered
    <3> QED
      BY <2>1, <3>1 DEF GetBuffered, Took
  <2>2. CASE GetRead(r)
    <3>1. PICK n \in 1 .. Len(Readable(r)) : /\ buf' = [buf EXCEPT ![r] = SubSeq(Readable(r), 2, n)]
                                             /\ rpos' = [rpos EXCEPT ![r] = @ + n]
      BY <2>2 DEF GetRead
    <3>2. rpos' = [rpos EXCEPT ![r] = rpos[r] + n]
      BY <3>1
    <3> QED
      BY <2>2, <3>1, <3>2 DEF GetRead, Took
  <2> QED
    BY <2>1, <2>2 DEF Get
<1>2. Up /\ Up'
  BY <1>1, UpIs, UpIsNext
<1>3. CASE r # q
  <2>1. dir'[q] = dir[q]
    BY <1>0, <1>1, <1>3, FlushDir DEF OthersKept
  <2>2. outbuf'[q] = outbuf[q] /\ out'[q] = out[q]
    BY <1>0, <1>1, <1>3
  <2>3. buf'[q] = buf[q] /\ rpos'[q] = rpos[q]
    BY <1>0, <1>1, <1>3
  <2>4. SameQueue(q)
    BY <1>1, <2>1, <2>2, <2>3 DEF SameQueue
  <2> QED
    BY <1>2, <2>4, UpKept, ViewKept DEF View
<1>4. CASE r = q
  <2>1. Sides(q)
    BY <1>2, SidesAre
  <2>2. Content(q)' = Content(q)
    <3>1. CASE dir' = dir /\ outbuf' = outbuf
      BY <1>1, <3>1 DEF Content
    <3>2. CASE dir' = FlushOut(r) /\ outbuf' = [outbuf EXCEPT ![r] = <<>>]
      <4>1. Grown(dir[q], dir'[q], fin[q], outbuf[q]) /\ outbuf'[q] = <<>>
        BY <1>0, <1>4, <3>2, FlushDir
      <4>2. fin'[q] = fin[q]
        BY <1>1
      <4> QED
        BY <2>1, <4>1, <4>2, FlushContent
    <3> QED
      BY <1>1, <3>1, <3>2
  <2>3. out'[q] = out[q] + 1 /\ in[q] # out[q]
    BY <1>0, <1>1, <1>4
  <2> QED
    BY <1>2, <2>2, <2>3, ViewGet DEF View
<1> QED
  BY <1>3, <1>4

\* Without its first file the urls of a queue are those of the others.
LEMMA FirstOver ==
    ASSUME NEW d, NEW e, NEW a \in Nat, NEW b \in Nat, NEW w \in Seq(Urls),
           IsFiles(d, Urls), a < b, Removed(d, e, a), FilesFrom(d, a, b)
    PROVE  /\ Joined(d, a, b) \o w = d[a] \o (Joined(e, a + 1, b) \o w)
           /\ d[a] \in Seq(Urls)
<1>1. a \in Int /\ b \in Int /\ a + 1 \in Int /\ a <= b /\ a \in DOMAIN d
  BY DEF FilesFrom
<1>2. SameFiles(d, e, a + 1, b)
  BY DEF SameFiles, FileOf, Removed
<1> DEFINE f == d[a]
           j == Joined(e, a + 1, b)
<1>3. Joined(d, a + 1, b) = j
  BY <1>1, <1>2, JoinedCong
<1>4. FileOf(d, a) = f /\ f \in Seq(Urls)
  BY <1>1 DEF FileOf, IsFiles
<1>5. Joined(d, a, b) = f \o j
  <2>1. IsFiles(d, Urls)
    OBVIOUS
  <2>2. Joined(d, a, b) = FileOf(d, a) \o Joined(d, a + 1, b)
    BY ONLY <1>1, <2>1, JoinedFirst
  <2> QED
    BY <1>3, <1>4, <2>2
<1>6. j \in Seq(Urls)
  <2>1. Joined(d, a + 1, b) \in Seq(Urls)
    BY <1>1, JoinedType
  <2> QED
    BY <1>3, <2>1
<1>7. (f \o j) \o w = f \o (j \o w)
  <2>1. f \in Seq(Urls) /\ j \in Seq(Urls) /\ w \in Seq(Urls)
    BY <1>4, <1>6
  <2> HIDE DEF f, j
  <2> QED
    BY ONLY <2>1, ConcatAssociative
<1> QED
  BY <1>4, <1>5, <1>7

LEMMA ReadSeen ==
    ASSUME DiskInv, DiskInv', NEW q \in Queues, Alone(q), RollRead
    PROVE  View(q)
<1>0. DirTypes /\ outbuf \in [Queues -> Seq(Urls)] /\ DOMAIN dir = Queues
      /\ fout \in [Queues -> Nat] /\ fin \in [Queues -> Nat] /\ opened \in [Queues -> BOOLEAN]
      /\ in \in [Queues -> Nat] /\ out \in [Queues -> Nat] /\ rpos \in [Queues -> Nat]
  BY TypeFacts DEF DiskInv, DirTypes
<1>1. PICK r \in Queues : todo = <<r>>
  BY DEF DiskInv, StepsRight, RollRead
<1>2. /\ step = "consumed" /\ step' = (IF buf[r] = <<>> THEN "run" ELSE "aborted")
      /\ dir' = [dir EXCEPT ![r] = [k \in DOMAIN @ \ {fout[r]} |-> @[k]]]
      /\ fout' = [fout EXCEPT ![r] = @ + 1]
      /\ opened' = [opened EXCEPT ![r] = fout[r] + 1 \in DOMAIN dir'[r]]
      /\ in' = [in EXCEPT ![r] = in[r] - out[r]]
      /\ out' = [out EXCEPT ![r] = 0] /\ rpos' = [rpos EXCEPT ![r] = 0]
      /\ UNCHANGED <<fin, outbuf, buf>>
  BY <1>1 DEF RollRead, InLeft, FileOver
<1>3. Up
  BY <1>2, UpIs
<1>4. OthersKept(r) /\ Removed(dir[r], dir'[r], fout[r])
  BY <1>0, <1>2, RemoveDir
<1>5. CASE r # q
  <2>1. SameQueue(q)
    BY <1>0, <1>2, <1>4, <1>5 DEF SameQueue, OthersKept
  <2>2. CASE Up'
    BY <1>3, <2>1, <2>2, UpKept, ViewKept DEF View
  <2>3. CASE ~Up'
    <3>1. dir'[q] = dir[q]
      BY <2>1 DEF SameQueue
    <3> QED
      BY <1>3, <2>3, <3>1, ViewStop DEF View
  <2> QED
    BY <2>2, <2>3
<1>6. CASE r = q
  <2>1. AllRead(q)
    BY <1>1, <1>2, <1>6 DEF AllRead
  <2>2. /\ buf[q] = <<>> /\ FilesFrom(dir[q], fout[q], fin[q])
        /\ Len(dir[q][fout[q]]) = UrlByFile
    BY <2>1, NothingAhead
  <2>3. out[q] = UrlByFile /\ fout[q] < fin[q]
    BY <2>1, ReadOver
  <2>4. step' = "run" /\ fout'[q] = fout[q] + 1 /\ out'[q] = 0 /\ fin'[q] = fin[q]
        /\ outbuf'[q] = outbuf[q]
    BY <1>0, <1>2, <1>6, <2>2
  <2>5. Up'
    BY <2>4, UpIsNext
  <2> DEFINE f == dir[q][fout[q]]
  <2>6. Content(q) = Joined(dir[q], fout[q], fin[q]) \o outbuf[q]
    BY DEF Content
  <2>7. Content(q)' = Joined(dir'[q], fout[q] + 1, fin[q]) \o outbuf[q]
    BY <2>4 DEF Content
  <2>8. Content(q) = f \o Content(q)' /\ f \in Seq(Urls)
    <3>1. /\ IsFiles(dir[q], Urls) /\ fout[q] \in Nat /\ fin[q] \in Nat
          /\ outbuf[q] \in Seq(Urls) /\ Removed(dir[q], dir'[q], fout[q])
      BY <1>0, <1>4, <1>6 DEF DirTypes
    <3> DEFINE d == dir[q]
               e == dir'[q]
               w == outbuf[q]
               a == fout[q]
               b == fin[q]
    <3>2. /\ IsFiles(d, Urls) /\ a \in Nat /\ b \in Nat /\ w \in Seq(Urls) /\ a < b
          /\ Removed(d, e, a) /\ FilesFrom(d, a, b)
      BY <2>2, <2>3, <3>1
    <3> HIDE DEF d, e, w, a, b
    <3>3. /\ Joined(d, a, b) \o w = d[a] \o (Joined(e, a + 1, b) \o w)
          /\ d[a] \in Seq(Urls)
      BY <3>2, FirstOver
    <3> QED
      BY <2>6, <2>7, <3>3 DEF d, e, w, a, b
  <2>9. out[q] = Len(f)
    BY <2>2, <2>3
  <2> HIDE DEF f
  <2> QED
    BY <1>3, <2>4, <2>5, <2>8, <2>9, ViewSettle DEF View
<1> QED
  BY <1>5, <1>6

LEMMA LoadQueueSeen ==
    ASSUME DiskInv, NEW q \in Queues, Alone(q), LoadQueue
    PROVE  View(q)
<1>0. DOMAIN dir = Queues /\ TypeOK
  BY TypeFacts DEF DiskInv, DirTypes
<1>1. CASE LoadRefused
  <2>1. ~Up /\ ~Up'
    BY <1>1, UpIs, UpIsNext DEF LoadRefused
  <2>2. OnDisk(q)' = OnDisk(q)
    BY <1>1, OnDiskOf DEF LoadRefused
  <2> QED
    BY <2>1, <2>2, ViewDown DEF View
<1>2. ASSUME NEW r \in Queues, Loaded(r) PROVE View(q)
  <2>1. ~Up /\ ~Up'
    BY <1>2, UpIs, UpIsNext DEF Loaded
  <2>2. dir' = Creat(r, LastOf(r))
    BY <1>2 DEF Loaded
  <2>3. OthersKept(r) /\ Begun(dir[r], dir'[r], LastOf(r))
    BY <1>0, <2>2, CreatDir
  <2>4. OnDisk(q)' = OnDisk(q)
    <3>1. CASE r # q
      BY <2>3, <3>1, OnDiskOf DEF OthersKept
    <3>2. CASE r = q
      <4> DEFINE d == dir[q]
                 e == dir'[q]
                 b == LastOf(q)
      <4>1. FilesFrom(d, FirstOf(q), b)
        BY BoundsAlone
      <4>2. Begun(d, e, b)
        BY <2>3, <3>2
      <4> HIDE DEF d, e, b
      <4>3. FilesOn(e) = FilesOn(d)
        BY <4>1, <4>2, AgainOnDisk
      <4> QED
        BY <4>3, OnDiskOf DEF d, e
    <3> QED
      BY <3>1, <3>2
  <2> QED
    BY <2>1, <2>4, ViewDown DEF View
<1> QED
  BY <1>0, <1>1, <1>2, LoadQueueIs

LEMMA LoadTableSeen ==
    ASSUME DiskInv, DiskInv', NEW q \in Queues, Alone(q), LoadTable
    PROVE  View(q)
<1>1. /\ step = "loading" /\ todo = <<>> /\ step' \in {"run", "refused"}
      /\ UNCHANGED <<dir, fin, fout, in, out, outbuf, buf, opened, rpos>>
  BY DEF LoadTable, diskVars, fifoVars
<1>2. ~Up
  BY <1>1, UpIs
<1>3. CASE step' = "refused"
  <2>1. ~Up'
    BY <1>3, UpIsNext
  <2>2. OnDisk(q)' = OnDisk(q)
    BY <1>1, OnDiskOf
  <2> QED
    BY <1>2, <2>1, <2>2, ViewDown DEF View
<1>4. CASE step' = "run"
  <2>1. Up'
    BY <1>4, UpIsNext
  <2>2. Open(q)
    BY <1>1 DEF Open, ToSet
  <2>3. out[q] = 0 /\ outbuf[q] = <<>> /\ dir[q][fin[q]] = <<>>
    BY <1>1, <2>2 DEF DiskInv, QueueRight, WriteRight
  <2>4. ContentRight(q)
    BY ContentIs
  <2>5. Content(q) = OnDisk(q) \o (<<>> \o <<>>) /\ OnDisk(q) \in Seq(Urls)
    BY <2>2, <2>3, <2>4 DEF ContentRight
  <2> DEFINE k == OnDisk(q)
  <2>6. k \o (<<>> \o <<>>) = k
    <3>1. k \in Seq(Urls) /\ <<>> \in Seq(Urls)
      BY <2>5, EmptySeq
    <3> HIDE DEF k
    <3>2. <<>> \o <<>> = <<>>
      BY <3>1, ConcatEmptySeq
    <3> QED
      BY <3>1, <3>2, ConcatEmptySeq
  <2>7. Content(q)' = Content(q)
    BY <1>1 DEF Content
  <2>8. Content(q)' = OnDisk(q) /\ out'[q] = 0
    BY <1>1, <2>3, <2>5, <2>6, <2>7
  <2> QED
    BY <1>2, <2>1, <2>8, ViewStart DEF View
<1> QED
  BY <1>1, <1>3, <1>4

\* A stop, or a start that is refused.
LEMMA DownSeen ==
    ASSUME DiskInv, NEW q \in Queues, Alone(q), ~Up', dir'[q] = dir[q]
    PROVE  View(q)
<1>1. CASE Up
  BY <1>1, ViewStop DEF View
<1>2. CASE ~Up
  <2>1. OnDisk(q)' = OnDisk(q)
    BY OnDiskOf
  <2> QED
    BY <1>2, <2>1, ViewDown DEF View
<1> QED
  BY <1>1, <1>2

LEMMA ScratchSeen ==
    ASSUME DiskInv, DiskInv', NEW q \in Queues, Alone(q), Scratch
    PROVE  View(q)
<1>1. /\ step \in {"down", "refused", "aborted"} /\ step' = "run"
      /\ in'[q] = 0 /\ out'[q] = 0
  BY DEF Scratch, Ended, Forget, Fresh, Zero
<1>2. ~Up /\ Up'
  BY <1>1, UpIs, UpIsNext
<1>3. ContentRight(q)' /\ Open(q)'
  BY <1>2, ContentTwice, UpTwice
<1>4. Content(q)' \in Seq(Urls) /\ Len(Content(q)') = 0
  BY <1>1, <1>3 DEF ContentRight
<1>5. Content(q)' = <<>>
  BY <1>4, EmptySeq
<1> QED
  BY <1>1, <1>2, <1>5, ViewStart DEF View

\* The table is written; the program looks on.
LEMMA AsideSeen ==
    ASSUME DiskInv, NEW q \in Queues, Alone(q), SameQueue(q),
           step = step' \/ (Up /\ Up') \/ ~Up'
    PROVE  View(q)
<1>1. Up' => Up
  BY UpIs, UpIsNext
<1>2. CASE ~Up'
  <2>1. dir'[q] = dir[q]
    BY DEF SameQueue
  <2> QED
    BY <1>2, <2>1, DownSeen
<1>3. CASE Up'
  BY <1>1, <1>3, UpKept, ViewKept DEF View
<1> QED
  BY <1>2, <1>3

LEMMA ViewStep ==
    ASSUME DiskInv, DiskInv', DiskStep \/ UNCHANGED vars, NEW q \in Queues, Alone(q)
    PROVE  View(q)
<1>1. ASSUME NEW r \in Queues, NEW u \in Urls, Put(r, u) PROVE View(q)
  BY <1>1, PutSeen
<1>2. ASSUME NEW r \in Queues, Get(r) PROVE View(q)
  BY <1>2, GetSeen
<1>3. ASSUME NEW r \in Queues, GetFails(r) PROVE View(q)
  <2>0. r # q
    BY <1>3, NotStarved DEF GetFails
  <2>1. SameQueue(q) /\ step = "run" /\ step' \in {"spinning", "aborted"}
    <3>1. /\ step = "run" /\ (FailsFlushed(r) \/ FailsAborted)
          /\ UNCHANGED <<fin, fout, in, out, buf, opened, rpos>>
      BY <1>3, GetFailsIs
    <3>2. dir'[q] = dir[q] /\ outbuf'[q] = outbuf[q] /\ step' \in {"spinning", "aborted"}
      <4>1. DOMAIN dir = Queues /\ outbuf \in [Queues -> Seq(Urls)]
        BY TypeFacts DEF DiskInv, DirTypes
      <4>2. CASE FailsFlushed(r)
        BY <2>0, <4>1, <4>2, FlushDir DEF FailsFlushed, OthersKept
      <4> QED
        BY <3>1, <4>2 DEF FailsAborted
    <3> QED
      BY <3>1, <3>2 DEF SameQueue
  <2>2. (Up /\ Up') \/ ~Up'
    BY <2>1, UpIs, UpIsNext
  <2> QED
    BY <2>1, <2>2, AsideSeen
<1>4. CASE SaveRename \/ SaveCreat \/ SaveWrite \/ SaveUnlink
  <2>1. /\ SameQueue(q) /\ step \in {"rename", "creat", "write", "unlink"}
        /\ step' \in {"creat", "write", "unlink", "run"}
    BY <1>4 DEF SaveRename, SaveCreat, SaveWrite, SaveUnlink, fifoVars, SameQueue
  <2>2. Up /\ Up'
    BY <2>1, UpIs, UpIsNext
  <2> QED
    BY <2>1, <2>2, AsideSeen
<1>5. CASE Inside
  BY <1>4, <1>5, FlushSeen, CreatSeen, ReadSeen, LoadQueueSeen, LoadTableSeen DEF Inside
<1>6. CASE Crash \/ Reload
  <2>1. dir' = dir /\ step' \in {"down", "loading"}
    BY <1>6 DEF Crash, Reload, diskVars
  <2>2. ~Up'
    BY <2>1, UpIsNext
  <2> QED
    BY <2>1, <2>2, DownSeen
<1>7. CASE Scratch
  BY <1>7, ScratchSeen
<1>8. CASE UNCHANGED vars
  <2>1. SameQueue(q) /\ step' = step
    BY <1>8 DEF vars, diskVars, fifoVars, SameQueue
  <2> QED
    BY <2>1, AsideSeen
<1> QED
  BY <1>1, <1>2, <1>3, <1>5, <1>6, <1>7, <1>8 DEF DiskStep

\* The program begins with no url.
LEMMA BeginsEmpty ==
    ASSUME Begins, NEW q \in Queues, Alone(q)
    PROVE  Up = TRUE /\ QueueOf(q) = <<>> /\ TakenOf(q) = <<>>
<1>1. DiskInv
  BY BeginsRight
<1>2. step = "run" /\ in[q] = 0 /\ out[q] = 0
  BY DEF Begins, Zero
<1>3. Up /\ Open(q)
  BY <1>1, <1>2, UpIs DEF Open, Running
<1>4. /\ Content(q) \in Seq(Urls) /\ Len(Content(q)) = 0
      /\ Pending(q) = After(Content(q), 0) /\ Given(q) = UpTo(Content(q), 0)
  BY <1>1, <1>2, <1>3, ContentIs DEF ContentRight
<1>5. Content(q) = <<>>
  BY <1>4, EmptySeq
<1>6. After(Content(q), 0) = Content(q) /\ UpTo(Content(q), 0) = <<>>
  BY <1>4, CutNone
<1>7. QueueOf(q) = <<>> /\ TakenOf(q) = <<>>
  BY <1>3, <1>4, <1>5, <1>6 DEF QueueOf, TakenOf
<1>8. Up \in BOOLEAN
  BY DEF Up, Ended
<1> QED
  BY <1>3, <1>7, <1>8, Zenon

\* URLsDiskWait as the queue it promises to be.
LEMMA PromiseStart == Begins => Promise!Init
<1> SUFFICES ASSUME Begins PROVE Promise!Init
  OBVIOUS
<1>1. Up = TRUE /\ QueueOf(URLsDiskWait) = <<>> /\ TakenOf(URLsDiskWait) = <<>>
  BY AloneAssumption, BeginsEmpty
<1> QED
  BY <1>1 DEF Promise!Init, QueueOf, TakenOf

LEMMA PromiseStep ==
    ASSUME DiskInv, DiskInv', DiskStep \/ UNCHANGED vars
    PROVE  [Promise!Next]_<<Up,
                IF Up THEN Pending(URLsDiskWait) ELSE OnDisk(URLsDiskWait),
                IF Up THEN Given(URLsDiskWait) ELSE <<>> >>
<1> DEFINE q == URLsDiskWait
<1>1. View(q)
  BY AloneAssumption, ViewStep
<1> SUFFICES Promise!Next \/ (Up' = Up /\ QueueOf(q)' = QueueOf(q) /\ TakenOf(q)' = TakenOf(q))
  BY DEF QueueOf, TakenOf
<1>2. CASE SameView(q)
  BY <1>2 DEF SameView
<1>3. CASE PutView(q)
  BY <1>3 DEF PutView, Promise!Next, Promise!PutUrl, QueueOf, TakenOf
<1>4. CASE GetView(q)
  BY <1>4 DEF GetView, Promise!Next, Promise!GetUrl, QueueOf, TakenOf
<1>5. CASE SettleView(q)
  BY <1>5 DEF SettleView, Promise!Next, Promise!Settle, QueueOf, TakenOf
<1>6. CASE StopView(q)
  BY <1>6 DEF StopView, Promise!Next, Promise!Stop, QueueOf, TakenOf
<1>7. CASE StartView(q)
  BY <1>7 DEF StartView, Promise!Next, Promise!Start, QueueOf, TakenOf
<1> QED
  BY <1>1, <1>2, <1>3, <1>4, <1>5, <1>6, <1>7 DEF View

\* A queue whose files are its own, whoever puts and takes its urls and whatever
\* the other queues do, refines the promise of a queue: in order, each url once,
\* and a stop takes back or loses no more than the urls of a file at each end.
THEOREM QueueKeepsPromise == Spec => QueuePromise
<1>1. Init => Promise!Init
  BY PromiseStart DEF Init, Begins, TableFiles
<1>2. [Next]_vars => DiskStep \/ UNCHANGED vars
  BY NextIsStep
<1> QED
  BY <1>1, <1>2, PromiseStep, QueuesRight, PTL DEF Spec, QueuePromise, Promise!Spec

\* URLsDiskWait does so in the crawl, beside the files of URLsDisk, which it
\* misleads when they are found again.
THEOREM WaitKeepsPromise == ResumeSpec => WaitPromise
<1>1. ResumeInit => Promise!Init
  BY PromiseStart DEF ResumeInit, Init, Begins, TableFiles
<1> QED
  BY <1>1, ResumeIsStep, PromiseStep, QueuesRightInUse, PTL
     DEF ResumeSpec, WaitPromise, QueuePromise, Promise!Spec

-----------------------------------------------------------------------------
(***************************************************************************)
(* The table of seen urls.  While the program runs every url of the queues *)
(* and of the memory is in it, or is a stray one; but for the steps that   *)
(* end a file, the table on disk knows every full file.                    *)
(***************************************************************************)
HoldsIn(d, s, t, X) ==
    (\A k \in DOMAIN d : ToSet(d[k]) \subseteq X) /\ ToSet(s) \subseteq X /\ ToSet(t) \subseteq X
FullIn(d, X) == \A k \in DOMAIN d : Len(d[k]) = UrlByFile => ToSet(d[k]) \subseteq X

Saving == step \in {"full", "flushed", "rename", "creat", "write"}

Held == \A u \in Urls : held[u] > 0 => u \in seen \cup stray
Known == Running => (\A q \in Queues : HoldsIn(dir[q], outbuf[q], buf[q], seen \cup stray)) /\ Held
Written == ~Saving => \A q \in Queues : FullIn(dir[q], hashBin.urls \cup stray)
HeldRight == held \in [Urls -> Nat] /\ (step = "loading" => \A u \in Urls : held[u] = 0)

TableInv == DiskInv /\ HeldRight /\ Known /\ Written

\* What sequences hold.
LEMMA NothingIn == ToSet(<<>>) = {}
BY DEF ToSet

LEMMA AppendSet ==
    ASSUME NEW S, NEW s \in Seq(S), NEW u \in S
    PROVE  ToSet(Append(s, u)) = ToSet(s) \cup {u} /\ ToSet(<<u>>) = {u}
<1>1. <<u>> \in Seq(S) /\ Append(s, u) = s \o <<u>>
  BY AppendIsConcat
<1>2. ToSet(<<u>>) = {u}
  BY DEF ToSet
<1>3. ToSet(s \o <<u>>) = ToSet(s) \cup ToSet(<<u>>)
  <2> DEFINE v == <<u>>
  <2>1. v \in Seq(S)
    BY <1>1
  <2> HIDE DEF v
  <2>2. ToSet(s \o v) = ToSet(s) \cup ToSet(v)
    BY <2>1, ConcatSet
  <2> QED
    BY <2>2 DEF v
<1> QED
  BY <1>1, <1>2, <1>3

LEMMA SubSeqSet ==
    ASSUME NEW S, NEW s \in Seq(S), NEW m \in Nat \ {0}, NEW n \in Nat, n <= Len(s)
    PROVE  ToSet(SubSeq(s, m, n)) \subseteq ToSet(s)
<1>1. Len(s) \in Nat /\ DOMAIN s = 1 .. Len(s)
  BY LenProperties
<1>2. \A i \in m .. n : s[i] \in S
  BY <1>1, ElementOfSeq
<1> DEFINE t == SubSeq(s, m, n)
<1>3. /\ t \in Seq(S) /\ Len(t) = IF m <= n THEN n - m + 1 ELSE 0
      /\ \A i \in 1 .. n - m + 1 : t[i] = s[m + i - 1]
  BY <1>2, SubSeqProperties
<1>4. DOMAIN t = 1 .. Len(t)
  <2> HIDE DEF t
  <2> QED
    BY <1>3, LenProperties
<1> HIDE DEF t
<1>5. ASSUME NEW i \in DOMAIN t PROVE t[i] \in ToSet(s)
  <2>1. m <= n /\ i \in 1 .. n - m + 1
    BY <1>3, <1>4
  <2>2. m + i - 1 \in DOMAIN s /\ t[i] = s[m + i - 1]
    BY <1>1, <1>3, <2>1
  <2> QED
    BY <2>2 DEF ToSet
<1>6. ToSet(t) \subseteq ToSet(s)
  BY <1>5 DEF ToSet
<1> QED
  BY <1>6 DEF t

LEMMA HeadTailSet ==
    ASSUME NEW S, NEW s \in Seq(S), s # <<>>
    PROVE  Head(s) \in ToSet(s) /\ ToSet(Tail(s)) \subseteq ToSet(s)
<1>1. Range(s) = Range(Tail(s)) \cup {Head(s)}
  BY TailRange
<1> QED
  BY <1>1 DEF Range, ToSet

\* A flush changes nothing of what there is.
LEMMA FlushHolds ==
    ASSUME NEW S, NEW d, NEW e, NEW b, NEW s \in Seq(S), NEW t, NEW X,
           IsFiles(d, S), HoldsIn(d, s, t, X), Grown(d, e, b, s)
    PROVE  HoldsIn(e, <<>>, t, X)
<1>1. ASSUME NEW k \in DOMAIN e PROVE ToSet(e[k]) \subseteq X
  <2>1. k \in DOMAIN d /\ (e[k] = d[k] \o s \/ e[k] = d[k])
    BY DEF Grown
  <2>2. d[k] \in Seq(S) /\ ToSet(d[k]) \subseteq X /\ ToSet(s) \subseteq X
    BY <2>1 DEF IsFiles, HoldsIn
  <2>3. ToSet(d[k] \o s) = ToSet(d[k]) \cup ToSet(s)
    BY <2>2, ConcatSet
  <2> QED
    BY <2>1, <2>2, <2>3
<1> QED
  BY <1>1, NothingIn DEF HoldsIn

\* A file that grew and is not full does not count.
LEMMA FlushFull ==
    ASSUME NEW d, NEW e, NEW b, NEW s, NEW X,
           FullIn(d, X), Grown(d, e, b, s), Len(e[b]) # UrlByFile
    PROVE  FullIn(e, X)
BY DEF FullIn, Grown

LEMMA BegunFull ==
    ASSUME NEW d, NEW e, NEW b, NEW X, FullIn(d, X), Begun(d, e, b)
    PROVE  FullIn(e, X)
<1>1. Len(<<>>) = 0 /\ UrlByFile # 0
  BY EmptySeq, FilesAssumption
<1> QED
  BY <1>1 DEF FullIn, Begun

\* More may be known.
LEMMA HoldsMore ==
    ASSUME NEW d, NEW s, NEW t, NEW X, NEW Y, HoldsIn(d, s, t, X), X \subseteq Y
    PROVE  HoldsIn(d, s, t, Y)
BY DEF HoldsIn

LEMMA FullMore ==
    ASSUME NEW d, NEW X, NEW Y, FullIn(d, X), X \subseteq Y
    PROVE  FullIn(d, Y)
BY DEF FullIn

\* The file that is written is full only while it ends.
LastIsNotFull ==
    \A q \in Queues : Open(q) /\ ~Filled(q) => Len(dir[q][fin[q]]) # UrlByFile

LEMMA LastNotFull == DiskInv => LastIsNotFull
<1> SUFFICES ASSUME DiskInv, NEW q \in Queues, Open(q), ~Filled(q)
             PROVE  Len(dir[q][fin[q]]) # UrlByFile
  BY DEF LastIsNotFull
<1>1. /\ fin[q] \in DOMAIN dir[q]
      /\ CountOk(in[q], fout[q], fin[q], Len(dir[q][fin[q]]) + Len(outbuf[q]), out[q])
      /\ Len(dir[q][fin[q]]) + Len(outbuf[q]) # UrlByFile
  BY DEF DiskInv, WriteRight
<1>2. dir[q][fin[q]] \in Seq(Urls) /\ outbuf[q] \in Seq(Urls)
  BY <1>1, TypeFacts DEF DiskInv, DirTypes, IsFiles
<1>3. Len(dir[q][fin[q]]) \in Nat /\ Len(outbuf[q]) \in Nat
  BY <1>2, LenProperties
<1>4. Len(dir[q][fin[q]]) + Len(outbuf[q]) <= UrlByFile
  BY <1>1 DEF CountOk
<1>5. UrlByFile \in Nat
  BY FilesAssumption
<1>6. \A n, m, k \in Nat : n + m <= k /\ n + m # k => n # k
  OBVIOUS
<1> QED
  BY ONLY <1>1, <1>3, <1>4, <1>5, <1>6

LEMMA LastNotFullNext == DiskInv' => LastIsNotFull'
BY LastNotFull, PTL

\* What was known stays known when more is seen.
LEMMA KnownKept ==
    ASSUME Known, NEW q \in Queues, Running, SameQueue(q), seen \cup stray \subseteq seen' \cup stray'
    PROVE  HoldsIn(dir'[q], outbuf'[q], buf'[q], seen' \cup stray')
<1>1. HoldsIn(dir[q], outbuf[q], buf[q], seen \cup stray)
  BY DEF Known
<1>2. HoldsIn(dir[q], outbuf[q], buf[q], seen' \cup stray')
  BY <1>1, HoldsMore
<1> QED
  BY <1>2 DEF SameQueue

LEMMA PutTable ==
    ASSUME TableInv, DiskInv', NEW r \in Queues, NEW u \in Urls, Put(r, u), SeenAfter(u),
           stray' = stray, u \in seen' \cup stray', Held'
    PROVE  Known' /\ Written'
<1>0. DirTypes /\ outbuf \in [Queues -> Seq(Urls)] /\ DOMAIN dir = Queues
      /\ buf \in [Queues -> Seq(Urls)]
  BY TypeFacts DEF TableInv, DiskInv, DirTypes
<1>1. /\ step = "run" /\ step' \in {"run", "full"} /\ in' = [in EXCEPT ![r] = @ + 1]
      /\ UNCHANGED <<fin, fout, out, buf, opened, rpos, hashBin>>
      /\ \/ outbuf' = [outbuf EXCEPT ![r] = Append(@, u)] /\ dir' = dir
         \/ outbuf' = [outbuf EXCEPT ![r] = <<u>>] /\ dir' = FlushOut(r)
  BY DEF Put
<1> DEFINE X == seen \cup stray
           Y == seen' \cup stray'
<1>3. X \subseteq Y /\ u \in Y
  BY DEF SeenAfter
<1>4. Running /\ Running' /\ Known /\ Written /\ ~Saving
  BY <1>1 DEF Running, Saving, TableInv
<1>5. HoldsIn(dir[r], outbuf[r], buf[r], Y)
  <2>1. HoldsIn(dir[r], outbuf[r], buf[r], X)
    BY <1>4 DEF Known
  <2> HIDE DEF X, Y
  <2> QED
    BY <1>3, <2>1, HoldsMore
<1>6. ASSUME NEW q \in Queues, q # r
      PROVE  HoldsIn(dir'[q], outbuf'[q], buf'[q], Y) /\ dir'[q] = dir[q]
  <2>1. dir'[q] = dir[q]
    BY <1>0, <1>1, <1>6, FlushDir DEF OthersKept
  <2>2. outbuf'[q] = outbuf[q] /\ buf'[q] = buf[q]
    BY <1>0, <1>1, <1>6
  <2>3. HoldsIn(dir[q], outbuf[q], buf[q], X)
    BY <1>4 DEF Known
  <2> HIDE DEF X, Y
  <2>4. HoldsIn(dir[q], outbuf[q], buf[q], Y)
    BY <1>3, <2>3, HoldsMore
  <2> QED
    BY <2>1, <2>2, <2>4
<1>7. HoldsIn(dir'[r], outbuf'[r], buf'[r], Y)
  <2>0. buf'[r] = buf[r] /\ outbuf[r] \in Seq(Urls) /\ IsFiles(dir[r], Urls)
    BY <1>0, <1>1 DEF DirTypes
  <2>1. ToSet(Append(outbuf[r], u)) = ToSet(outbuf[r]) \cup {u} /\ ToSet(<<u>>) = {u}
    BY <2>0, AppendSet
  <2>2. CASE outbuf' = [outbuf EXCEPT ![r] = Append(@, u)] /\ dir' = dir
    <3>1. outbuf'[r] = Append(outbuf[r], u) /\ dir'[r] = dir[r]
      BY <1>0, <2>2
    <3> HIDE DEF X, Y
    <3> QED
      BY <1>3, <1>5, <2>0, <2>1, <3>1 DEF HoldsIn
  <2>3. CASE outbuf' = [outbuf EXCEPT ![r] = <<u>>] /\ dir' = FlushOut(r)
    <3>1. outbuf'[r] = <<u>> /\ Grown(dir[r], dir'[r], fin[r], outbuf[r])
      BY <1>0, <2>3, FlushDir
    <3> HIDE DEF X, Y
    <3>2. HoldsIn(dir'[r], <<>>, buf[r], Y)
      BY <1>5, <2>0, <3>1, FlushHolds
    <3> QED
      BY <1>3, <2>0, <2>1, <3>1, <3>2 DEF HoldsIn
  <2> QED
    BY <1>1, <2>2, <2>3
<1>8. Known'
  BY <1>6, <1>7 DEF Known
<1>9. Written'
  <2> SUFFICES ASSUME step' = "run", NEW q \in Queues
               PROVE  FullIn(dir'[q], hashBin'.urls \cup stray')
    BY <1>1 DEF Written, Saving
  <2>1. FullIn(dir[q], hashBin.urls \cup stray) /\ hashBin' = hashBin
    BY <1>1, <1>4 DEF Written
  <2>2. CASE dir'[q] = dir[q]
    BY <2>1, <2>2
  <2>3. CASE q = r /\ dir' = FlushOut(r)
    <3>1. Grown(dir[q], dir'[q], fin[q], outbuf[q])
      BY <1>0, <2>3, FlushDir
    <3>2. LastIsNotFull' /\ Open(q)' /\ ~Filled(q)' /\ fin' = fin
      BY <1>1, LastNotFullNext DEF Open, Running, Filled
    <3>3. Len(dir'[q][fin[q]]) # UrlByFile
      BY <3>2 DEF LastIsNotFull
    <3>4. FullIn(dir'[q], hashBin.urls \cup stray)
      BY <2>1, <3>1, <3>3, FlushFull
    <3> QED
      BY <2>1, <3>4
  <2> QED
    BY <1>1, <1>6, <2>2, <2>3
<1> QED
  BY <1>8, <1>9

\* What readLine reads is known, and so is the url it gives.
LEMMA ReadableIn ==
    ASSUME DiskInv, Known, NEW q \in Queues, Taking(q)
    PROVE  Readable(q) \in Seq(Urls) /\ ToSet(Readable(q)) \subseteq seen \cup stray
<1>0. /\ DirTypes /\ outbuf \in [Queues -> Seq(Urls)] /\ rpos \in [Queues -> Nat]
  BY TypeFacts DEF DiskInv
<1>1. opened[q] => fout[q] \in DOMAIN dir[q]
  BY TookFacts
<1> DEFINE X == seen \cup stray
<1>2. HoldsIn(dir[q], outbuf[q], buf[q], X)
  BY DEF Known, Taking, Running
<1>3. outbuf[q] \in Seq(Urls) /\ ToSet(outbuf[q]) \subseteq X
  BY <1>0, <1>2 DEF HoldsIn
<1>4. Unread(q) \in Seq(Urls) /\ ToSet(Unread(q)) \subseteq X
  <2>1. CASE opened[q]
    <3> DEFINE f == dir[q][fout[q]]
               n == Len(f)
               m == rpos[q] + 1
    <3>1. f \in Seq(Urls) /\ ToSet(f) \subseteq X
      BY <1>0, <1>1, <1>2, <2>1 DEF DirTypes, IsFiles, HoldsIn
    <3>2. n \in Nat /\ m \in Nat \ {0} /\ Unread(q) = SubSeq(f, m, n)
      <4>1. Unread(q) = SubSeq(f, m, n)
        BY <2>1 DEF Unread
      <4>2. rpos[q] \in Nat
        BY <1>0
      <4>3. n \in Nat
        <5> HIDE DEF f
        <5> QED
          BY <3>1, LenProperties
      <4> QED
        BY <4>1, <4>2, <4>3
    <3>3. n <= Len(f)
      BY <3>2
    <3> HIDE DEF f, m, n, X
    <3>4. ToSet(SubSeq(f, m, n)) \subseteq ToSet(f)
      BY <3>1, <3>2, <3>3, SubSeqSet
    <3>5. SubSeq(f, m, n) \in Seq(Urls)
      <4>1. \A i \in m .. n : f[i] \in Urls
        BY <3>1, <3>2, ElementOfSeq DEF n
      <4> QED
        BY <3>2, <4>1, SubSeqProperties
    <3> QED
      BY <3>1, <3>2, <3>4, <3>5
  <2>2. CASE ~opened[q]
    BY <2>2, NothingIn, EmptySeq DEF Unread
  <2> QED
    BY <2>1, <2>2
<1> QED
  BY <1>3, <1>4 DEF Readable

LEMMA GetTable ==
    ASSUME TableInv, DiskInv', NEW r \in Queues, Take(r)
    PROVE  Known' /\ Written' /\ HeldRight'
<1>0. /\ DirTypes /\ outbuf \in [Queues -> Seq(Urls)] /\ DOMAIN dir = Queues
      /\ buf \in [Queues -> Seq(Urls)] /\ DiskInv /\ Known /\ Written
      /\ held \in [Urls -> Nat]
  BY TypeFacts DEF TableInv, DiskInv, DirTypes, HeldRight
<1>1. Taking(r) /\ Get(r) /\ stray' = stray /\ held' = [held EXCEPT ![NextUrl(r)] = @ + 1]
  BY DEF Take, Get, GetBuffered, GetRead, Taking
<1>2. /\ step = "run" /\ step' \in {"run", "consumed"} /\ Open(r)' /\ ~Filled(r)'
      /\ UNCHANGED <<hashBin, fin, seen>>
  BY <1>0, <1>1, TookFacts
<1>3. Running /\ Running' /\ ~Saving
  BY <1>2 DEF Running, Saving
<1> DEFINE X == seen \cup stray
           g == Readable(r)
<1>4. g \in Seq(Urls) /\ ToSet(g) \subseteq X
  BY <1>0, <1>1, ReadableIn
<1>5. HoldsIn(dir[r], outbuf[r], buf[r], X) /\ buf[r] \in Seq(Urls) /\ outbuf[r] \in Seq(Urls)
      /\ IsFiles(dir[r], Urls)
  BY <1>0, <1>3 DEF Known, DirTypes
<1>6. /\ ToSet(buf'[r]) \subseteq X /\ NextUrl(r) \in X /\ NextUrl(r) \in Urls
      /\ \E s : buf' = [buf EXCEPT ![r] = s]
      /\ \/ dir' = dir /\ outbuf' = outbuf
         \/ dir' = FlushOut(r) /\ outbuf' = [outbuf EXCEPT ![r] = <<>>]
  <2>1. CASE GetBuffered(r)
    <3>1. buf[r] # <<>> /\ buf' = [buf EXCEPT ![r] = Tail(@)] /\ dir' = dir /\ outbuf' = outbuf
      BY <2>1 DEF GetBuffered
    <3>2. Head(buf[r]) \in ToSet(buf[r]) /\ ToSet(Tail(buf[r])) \subseteq ToSet(buf[r])
      BY <1>5, <3>1, HeadTailSet
    <3>3. Head(buf[r]) \in Urls
      BY <1>5, <3>1, HeadTailProperties
    <3>4. NextUrl(r) = Head(buf[r]) /\ buf'[r] = Tail(buf[r])
      BY <1>0, <3>1 DEF NextUrl
    <3> HIDE DEF X
    <3> QED
      BY <1>5, <3>1, <3>2, <3>3, <3>4 DEF HoldsIn
  <2>2. CASE GetRead(r)
    <3>1. PICK n \in 1 .. Len(g) : buf' = [buf EXCEPT ![r] = SubSeq(g, 2, n)]
      BY <2>2 DEF GetRead
    <3>2. /\ buf[r] = <<>> /\ g # <<>>
          /\ \/ dir' = dir /\ outbuf' = outbuf
             \/ dir' = FlushOut(r) /\ outbuf' = [outbuf EXCEPT ![r] = <<>>]
      BY <2>2 DEF GetRead
    <3>3. NextUrl(r) = Head(g) /\ buf'[r] = SubSeq(g, 2, n)
      BY <1>0, <3>1, <3>2 DEF NextUrl
    <3> HIDE DEF g, X
    <3>4. Head(g) \in ToSet(g) /\ Head(g) \in Urls
      BY <1>4, <3>2, HeadTailSet, HeadTailProperties
    <3>5. n \in Nat /\ n <= Len(g)
      BY <1>4, LenProperties
    <3>6. ToSet(SubSeq(g, 2, n)) \subseteq ToSet(g)
      BY <1>4, <3>5, SubSeqSet
    <3> QED
      BY <1>4, <3>1, <3>2, <3>3, <3>4, <3>6
  <2> QED
    BY <1>1, <2>1, <2>2 DEF Get
<1>7. HoldsIn(dir'[r], outbuf'[r], buf'[r], X)
  <2>1. CASE dir' = dir /\ outbuf' = outbuf
    <3> HIDE DEF X
    <3> QED
      BY <1>5, <1>6, <2>1 DEF HoldsIn
  <2>2. CASE dir' = FlushOut(r) /\ outbuf' = [outbuf EXCEPT ![r] = <<>>]
    <3>1. outbuf'[r] = <<>> /\ Grown(dir[r], dir'[r], fin[r], outbuf[r])
      BY <1>0, <2>2, FlushDir
    <3> HIDE DEF X
    <3>2. HoldsIn(dir'[r], <<>>, buf[r], X)
      BY <1>5, <3>1, FlushHolds
    <3> QED
      BY <1>6, <3>1, <3>2 DEF HoldsIn
  <2> QED
    BY <1>6, <2>1, <2>2
<1>8. ASSUME NEW q \in Queues, q # r
      PROVE  HoldsIn(dir'[q], outbuf'[q], buf'[q], X) /\ dir'[q] = dir[q]
  <2>1. dir'[q] = dir[q] /\ outbuf'[q] = outbuf[q]
    BY <1>0, <1>6, <1>8, FlushDir DEF OthersKept
  <2>2. buf'[q] = buf[q]
    BY <1>0, <1>6, <1>8
  <2>3. HoldsIn(dir[q], outbuf[q], buf[q], X)
    BY <1>0, <1>3 DEF Known
  <2> QED
    BY <2>1, <2>2, <2>3
<1>9. Held' /\ HeldRight'
  <2>1. Held
    BY <1>0, <1>3 DEF Known
  <2>2. ASSUME NEW v \in Urls, held'[v] > 0 PROVE v \in X
    <3>1. CASE v = NextUrl(r)
      BY <1>6, <3>1
    <3>2. CASE v # NextUrl(r)
      BY <1>0, <1>1, <2>1, <2>2, <3>2 DEF Held
    <3> QED
      BY <3>1, <3>2
  <2>3. held' \in [Urls -> Nat] /\ step' # "loading"
    BY <1>0, <1>1, <1>2, <1>6
  <2> QED
    BY <1>1, <1>2, <2>2, <2>3 DEF Held, HeldRight
<1>10. Known'
  BY <1>1, <1>2, <1>7, <1>8, <1>9 DEF Known
<1>11. Written'
  <2> SUFFICES ASSUME NEW q \in Queues PROVE FullIn(dir'[q], hashBin'.urls \cup stray')
    BY DEF Written
  <2>1. FullIn(dir[q], hashBin.urls \cup stray) /\ hashBin' = hashBin /\ stray' = stray
    BY <1>0, <1>1, <1>2, <1>3 DEF Written
  <2>2. CASE dir'[q] = dir[q]
    BY <2>1, <2>2
  <2>3. CASE q = r /\ dir' = FlushOut(r)
    <3>1. Grown(dir[q], dir'[q], fin[q], outbuf[q])
      BY <1>0, <2>3, FlushDir
    <3>2. LastIsNotFull' /\ Open(q)' /\ ~Filled(q)' /\ fin' = fin
      BY <1>2, <2>3, LastNotFullNext
    <3>3. Len(dir'[q][fin[q]]) # UrlByFile
      BY <3>2 DEF LastIsNotFull
    <3>4. FullIn(dir'[q], hashBin.urls \cup stray)
      BY <2>1, <3>1, <3>3, FlushFull
    <3> QED
      BY <2>1, <3>4
  <2> QED
    BY <1>6, <1>8, <2>2, <2>3
<1> QED
  BY <1>9, <1>10, <1>11

\* A step that leaves the disk, the buffers and the table alone.
LEMMA KnownAside ==
    ASSUME TableInv, dir' = dir, outbuf' = outbuf, buf' = buf, hashBin' = hashBin,
           seen' = seen, stray' = stray, Running' => Running /\ Held', ~Saving' => ~Saving
    PROVE  Known' /\ Written'
BY DEF TableInv, Known, Written

\* Nothing to read.
LEMMA FailsTable ==
    ASSUME TableInv, DiskInv', NEW r \in Queues, TakeFails(r)
    PROVE  Known' /\ Written' /\ HeldRight'
<1>0. /\ DirTypes /\ outbuf \in [Queues -> Seq(Urls)] /\ DOMAIN dir = Queues
      /\ DiskInv /\ Known /\ Written /\ HeldRight
  BY TypeFacts DEF TableInv, DiskInv, DirTypes
<1>1. /\ step = "run" /\ step' \in {"spinning", "aborted"} /\ (FailsFlushed(r) \/ FailsAborted)
      /\ buf' = buf /\ hashBin' = hashBin /\ seen' = seen /\ stray' = stray /\ held' = held
      /\ fin' = fin
  BY GetFailsIs DEF TakeFails, FailsFlushed, FailsAborted
<1>2. Running /\ ~Saving
  BY <1>1 DEF Running, Saving
<1>3. Held' /\ HeldRight'
  BY <1>0, <1>1, <1>2 DEF Known, Held, HeldRight
<1>4. CASE FailsAborted
  BY <1>1, <1>2, <1>3, <1>4, KnownAside DEF FailsAborted
<1>5. CASE FailsFlushed(r)
  <2>1. /\ step' = "spinning" /\ dir' = FlushOut(r) /\ outbuf' = [outbuf EXCEPT ![r] = <<>>]
    BY <1>5 DEF FailsFlushed
  <2>2. OthersKept(r) /\ Grown(dir[r], dir'[r], fin[r], outbuf[r]) /\ outbuf'[r] = <<>>
    BY <1>0, <2>1, FlushDir
  <2>3. ASSUME NEW q \in Queues
        PROVE  HoldsIn(dir'[q], outbuf'[q], buf'[q], seen' \cup stray')
    <3>1. HoldsIn(dir[q], outbuf[q], buf[q], seen \cup stray)
      BY <1>0, <1>2 DEF Known
    <3>2. CASE q = r
      <4>1. IsFiles(dir[r], Urls) /\ outbuf[r] \in Seq(Urls)
        BY <1>0 DEF DirTypes
      <4>2. HoldsIn(dir'[r], <<>>, buf[r], seen \cup stray)
        BY <2>2, <3>1, <3>2, <4>1, FlushHolds
      <4> QED
        BY <1>1, <2>2, <3>2, <4>2
    <3>3. CASE q # r
      <4>1. dir'[q] = dir[q] /\ outbuf'[q] = outbuf[q]
        BY <1>0, <2>1, <2>2, <3>3 DEF OthersKept
      <4> QED
        BY <1>1, <3>1, <4>1
    <3> QED
      BY <3>2, <3>3
  <2>4. ASSUME NEW q \in Queues PROVE FullIn(dir'[q], hashBin'.urls \cup stray')
    <3>1. FullIn(dir[q], hashBin.urls \cup stray)
      BY <1>0, <1>2 DEF Written
    <3>2. CASE q = r
      <4>1. Open(r)' /\ ~Filled(r)'
        BY <2>1 DEF Open, Running, Filled
      <4>2. Len(dir'[r][fin[r]]) # UrlByFile
        BY <1>1, <4>1, LastNotFullNext DEF LastIsNotFull
      <4> QED
        BY <1>1, <2>2, <3>1, <3>2, <4>2, FlushFull
    <3>3. CASE q # r
      BY <1>1, <2>2, <3>1, <3>3 DEF OthersKept
    <3> QED
      BY <3>2, <3>3
  <2> QED
    BY <1>3, <2>3, <2>4 DEF Known, Written
<1> QED
  BY <1>1, <1>3, <1>4, <1>5

LEMMA FlushTable ==
    ASSUME TableInv, RollFlush, held' = held, stray' = stray
    PROVE  Known' /\ Written'
<1>0. /\ DirTypes /\ outbuf \in [Queues -> Seq(Urls)] /\ DOMAIN dir = Queues
      /\ DiskInv /\ Known
  BY TypeFacts DEF TableInv, DiskInv, DirTypes
<1>1. PICK r \in Queues : todo = <<r>>
  BY <1>0 DEF DiskInv, StepsRight, RollFlush
<1>2. /\ step = "full" /\ step' = "flushed"
      /\ dir' = FlushOut(r) /\ outbuf' = [outbuf EXCEPT ![r] = <<>>]
      /\ UNCHANGED <<buf, seen>>
  BY <1>1 DEF RollFlush, FullFlush
<1>3. Running /\ Running' /\ Saving'
  BY <1>2 DEF Running, Saving
<1>4. OthersKept(r) /\ Grown(dir[r], dir'[r], fin[r], outbuf[r]) /\ outbuf'[r] = <<>>
  BY <1>0, <1>2, FlushDir
<1> DEFINE X == seen \cup stray
<1>5. ASSUME NEW q \in Queues PROVE HoldsIn(dir'[q], outbuf'[q], buf'[q], X)
  <2>1. /\ HoldsIn(dir[q], outbuf[q], buf[q], X) /\ IsFiles(dir[q], Urls)
        /\ outbuf[q] \in Seq(Urls)
    BY <1>0, <1>3 DEF Known, DirTypes
  <2>2. CASE q # r
    <3>1. dir'[q] = dir[q] /\ outbuf'[q] = outbuf[q] /\ buf'[q] = buf[q]
      BY <1>0, <1>2, <1>4, <2>2 DEF OthersKept
    <3> QED
      BY <2>1, <3>1
  <2>3. CASE q = r
    <3> HIDE DEF X
    <3>1. HoldsIn(dir'[q], <<>>, buf[q], X)
      BY <1>4, <2>1, <2>3, FlushHolds
    <3> QED
      BY <1>2, <1>4, <2>3, <3>1
  <2> QED
    BY <2>2, <2>3
<1>6. Held'
  BY <1>0, <1>2, <1>3 DEF Known, Held
<1> QED
  BY <1>2, <1>3, <1>5, <1>6 DEF Known, Written

\* A new file is empty.
LEMMA BegunHolds ==
    ASSUME NEW d, NEW e, NEW b, NEW s, NEW t, NEW X, HoldsIn(d, s, t, X), Begun(d, e, b)
    PROVE  HoldsIn(e, s, t, X)
BY NothingIn DEF HoldsIn, Begun

LEMMA CreatTable ==
    ASSUME TableInv, RollCreat, CanReload, held' = held, stray' = stray
    PROVE  Known' /\ Written'
<1>0. /\ DOMAIN dir = Queues /\ DiskInv /\ Known
  BY TypeFacts DEF TableInv, DiskInv, DirTypes
<1>1. PICK r \in Queues : todo = <<r>>
  BY <1>0 DEF DiskInv, StepsRight, RollCreat
<1>2. /\ step = "flushed" /\ step' = "rename" /\ dir' = Creat(r, fin[r] + 1)
      /\ UNCHANGED <<outbuf, buf, seen>>
  BY <1>1 DEF RollCreat, Saves
<1>3. Running /\ Running' /\ Saving'
  BY <1>2 DEF Running, Saving
<1>4. OthersKept(r) /\ Begun(dir[r], dir'[r], fin[r] + 1)
  BY <1>0, <1>2, CreatDir
<1> DEFINE X == seen \cup stray
<1>5. ASSUME NEW q \in Queues PROVE HoldsIn(dir'[q], outbuf[q], buf[q], X)
  <2>1. HoldsIn(dir[q], outbuf[q], buf[q], X)
    BY <1>0, <1>3 DEF Known
  <2>2. CASE q # r
    BY <1>4, <2>1, <2>2 DEF OthersKept
  <2>3. CASE q = r
    <3> HIDE DEF X
    <3> QED
      BY <1>4, <2>1, <2>3, BegunHolds
  <2> QED
    BY <2>2, <2>3
<1>6. Held'
  BY <1>0, <1>2, <1>3 DEF Known, Held
<1> QED
  BY <1>2, <1>3, <1>5, <1>6 DEF Known, Written

LEMMA ReadTable ==
    ASSUME TableInv, RollRead, held' = held, stray' = stray
    PROVE  Known' /\ Written'
<1>0. /\ DOMAIN dir = Queues /\ DiskInv /\ Known /\ Written
  BY TypeFacts DEF TableInv, DiskInv, DirTypes
<1>1. PICK r \in Queues : todo = <<r>>
  BY <1>0 DEF DiskInv, StepsRight, RollRead
<1>2. /\ step = "consumed" /\ step' \in {"run", "aborted"}
      /\ dir' = [dir EXCEPT ![r] = [k \in DOMAIN @ \ {fout[r]} |-> @[k]]]
      /\ UNCHANGED <<outbuf, buf, seen, hashBin>>
  BY <1>1 DEF RollRead, FileOver
<1>3. Running /\ ~Saving
  BY <1>2 DEF Running, Saving
<1>4. OthersKept(r) /\ Removed(dir[r], dir'[r], fout[r])
  BY <1>0, <1>2, RemoveDir
<1>5. ASSUME NEW q \in Queues PROVE HoldsIn(dir'[q], outbuf[q], buf[q], seen \cup stray)
  <2>1. HoldsIn(dir[q], outbuf[q], buf[q], seen \cup stray)
    BY <1>0, <1>3 DEF Known
  <2> QED
    BY <1>4, <2>1 DEF OthersKept, Removed, HoldsIn
<1>6. ASSUME NEW q \in Queues PROVE FullIn(dir'[q], hashBin.urls \cup stray)
  <2>1. FullIn(dir[q], hashBin.urls \cup stray)
    BY <1>0, <1>3 DEF Written
  <2> QED
    BY <1>4, <2>1 DEF OthersKept, Removed, FullIn
<1>7. Held'
  BY <1>0, <1>2, <1>3 DEF Known, Held
<1> QED
  BY <1>2, <1>5, <1>6, <1>7 DEF Known, Written

LEMMA SaveTable ==
    ASSUME TableInv, SaveRename \/ SaveCreat \/ SaveWrite \/ SaveUnlink,
           held' = held, stray' = stray
    PROVE  Known' /\ Written'
<1>0. Known /\ Written
  BY DEF TableInv
<1>1. /\ dir' = dir /\ outbuf' = outbuf /\ buf' = buf /\ seen' = seen
      /\ \/ step \in {"rename", "creat"} /\ step' \in {"creat", "write"}
         \/ step = "write" /\ step' = "unlink" /\ hashBin' = Whole(seen)
         \/ step = "unlink" /\ step' = "run" /\ hashBin' = hashBin
  BY DEF SaveRename, SaveCreat, SaveWrite, SaveUnlink, fifoVars
<1>2. Running
  BY <1>1 DEF Running
<1>3. Known'
  BY <1>0, <1>1, <1>2 DEF Known, Held
<1>4. CASE step \in {"rename", "creat"} /\ step' \in {"creat", "write"}
  BY <1>3, <1>4 DEF Written, Saving
<1>5. CASE step = "write" /\ hashBin' = Whole(seen)
  <2>1. hashBin'.urls = seen
    BY <1>5 DEF Whole, TableFile
  <2>2. ASSUME NEW q \in Queues PROVE FullIn(dir'[q], hashBin'.urls \cup stray')
    <3>1. HoldsIn(dir[q], outbuf[q], buf[q], seen \cup stray)
      BY <1>0, <1>2 DEF Known
    <3>2. FullIn(dir[q], seen \cup stray)
      BY <3>1 DEF HoldsIn, FullIn
    <3> QED
      BY <1>1, <2>1, <3>2
  <2> QED
    BY <1>3, <2>2 DEF Written
<1>6. CASE step = "unlink" /\ hashBin' = hashBin
  BY <1>0, <1>1, <1>3, <1>6 DEF Written, Saving
<1> QED
  BY <1>1, <1>3, <1>4, <1>5, <1>6

LEMMA LoadQueueTable ==
    ASSUME TableInv, LoadQueue, stray' = stray, held' = held
    PROVE  Known' /\ Written' /\ HeldRight'
<1>0. /\ DOMAIN dir = Queues /\ TypeOK /\ Written /\ HeldRight
  BY TypeFacts DEF TableInv, DiskInv, DirTypes
<1>1. CASE LoadRefused
  <2>1. /\ step = "loading" /\ step' = "refused" /\ dir' = dir /\ hashBin' = hashBin
    BY <1>1 DEF LoadRefused
  <2>2. ~Running' /\ ~Saving
    BY <2>1 DEF Running, Saving
  <2> QED
    BY <1>0, <2>1, <2>2 DEF Known, Written, HeldRight
<1>2. ASSUME NEW r \in Queues, Loaded(r) PROVE Known' /\ Written' /\ HeldRight'
  <2>1. /\ step = "loading" /\ step' = "loading" /\ dir' = Creat(r, LastOf(r))
        /\ hashBin' = hashBin
    BY <1>2 DEF Loaded
  <2>2. ~Running' /\ ~Saving
    BY <2>1 DEF Running, Saving
  <2>3. OthersKept(r) /\ Begun(dir[r], dir'[r], LastOf(r))
    BY <1>0, <2>1, CreatDir
  <2> DEFINE X == hashBin.urls \cup stray
  <2>4. ASSUME NEW q \in Queues PROVE FullIn(dir'[q], X)
    <3>1. FullIn(dir[q], X)
      BY <1>0, <2>2 DEF Written
    <3>2. CASE q # r
      BY <2>3, <3>1, <3>2 DEF OthersKept
    <3>3. CASE q = r
      <4> HIDE DEF X
      <4> QED
        BY <2>3, <3>1, <3>3, BegunFull
    <3> QED
      BY <3>2, <3>3
  <2> QED
    BY <1>0, <2>1, <2>2, <2>4 DEF Known, Written, HeldRight
<1> QED
  BY <1>0, <1>1, <1>2, LoadQueueIs

\* What the reload found in files that are not full is stray.
LEMMA LoadTableTable ==
    ASSUME TableInv, LoadTable, held' = held,
           stray' = stray \cup IF step = "loading" /\ step' = "run"
                               THEN UNION {NotFull(q) : q \in Queues} ELSE {}
    PROVE  Known' /\ Written' /\ HeldRight'
<1>0. /\ DOMAIN dir = Queues /\ DiskInv /\ Written /\ HeldRight
  BY TypeFacts DEF TableInv, DiskInv, DirTypes
<1>1. /\ step = "loading" /\ todo = <<>> /\ dir' = dir /\ hashBin' = hashBin
      /\ outbuf' = outbuf /\ buf' = buf /\ fin' = fin
      /\ \/ step' = "refused"
         \/ step' = "run" /\ seen' = hashBin.urls
  BY DEF LoadTable, diskVars, fifoVars, NoFile, TableFile
<1>2. ~Saving /\ ~Saving'
  BY <1>1 DEF Saving
<1>3. stray \subseteq stray'
  OBVIOUS
<1>4. Written'
  <2> SUFFICES ASSUME NEW q \in Queues PROVE FullIn(dir[q], hashBin.urls \cup stray')
    BY <1>1 DEF Written
  <2>1. FullIn(dir[q], hashBin.urls \cup stray)
    BY <1>0, <1>2 DEF Written
  <2>2. hashBin.urls \cup stray \subseteq hashBin.urls \cup stray'
    BY <1>3
  <2> QED
    BY <2>1, <2>2, FullMore
<1>5. HeldRight'
  BY <1>0, <1>1 DEF HeldRight
<1>6. Known'
  <2>1. CASE step' = "refused"
    BY <2>1 DEF Known, Running
  <2>2. CASE step' = "run" /\ seen' = hashBin.urls
    <3>1. stray' = stray \cup UNION {NotFull(q) : q \in Queues}
      BY <1>1, <2>2
    <3> DEFINE Y == seen' \cup stray'
    <3>2. ASSUME NEW q \in Queues PROVE HoldsIn(dir[q], outbuf[q], buf[q], Y)
      <4>1. outbuf[q] = <<>> /\ buf[q] = <<>> /\ dir[q][fin[q]] = <<>>
        <5>1. Open(q)
          BY <1>1 DEF Open, ToSet
        <5> QED
          BY <1>0, <1>1, <5>1 DEF DiskInv, QueueRight, WriteRight
      <4>2. FullIn(dir[q], hashBin.urls \cup stray)
        BY <1>0, <1>2 DEF Written
      <4>3. hashBin.urls \cup stray \subseteq Y /\ NotFull(q) \subseteq Y
        BY <1>3, <2>2, <3>1
      <4> HIDE DEF Y
      <4>4. ASSUME NEW k \in DOMAIN dir[q] PROVE ToSet(dir[q][k]) \subseteq Y
        <5>1. CASE k = fin[q]
          BY <4>1, <5>1, NothingIn
        <5>2. CASE Len(dir[q][k]) = UrlByFile
          BY <4>2, <4>3, <5>2 DEF FullIn
        <5>3. CASE k # fin[q] /\ Len(dir[q][k]) # UrlByFile
          <6>1. ToSet(dir[q][k]) \subseteq NotFull(q)
            BY <5>3 DEF NotFull
          <6> QED
            BY <4>3, <6>1
        <5> QED
          BY <5>1, <5>2, <5>3
      <4> QED
        BY <4>1, <4>4, NothingIn DEF HoldsIn
    <3>3. Held'
      BY <1>0, <1>1 DEF HeldRight, Held
    <3> QED
      BY <1>1, <3>2, <3>3 DEF Known
  <2> QED
    BY <1>1, <2>1, <2>2
<1> QED
  BY <1>4, <1>5, <1>6

LEMMA StopTable ==
    ASSUME TableInv, CrashPoints \subseteq {"run", "spinning"}, Crash \/ Reload,
           held' = [u \in Urls |-> 0], stray' = stray
    PROVE  Known' /\ Written' /\ HeldRight'
<1>1. /\ dir' = dir /\ hashBin' = hashBin /\ step' \in {"down", "loading"}
      /\ step \in {"run", "spinning", "down", "refused", "aborted"}
  BY DEF Crash, Reload, Ended, diskVars
<1>2. ~Running' /\ ~Saving
  BY <1>1 DEF Running, Saving
<1>3. Written'
  BY <1>1, <1>2 DEF TableInv, Written
<1> QED
  BY <1>2, <1>3 DEF Known, HeldRight

LEMMA BeginTable ==
    ASSUME Begins, held = [u \in Urls |-> 0]
    PROVE  Known /\ Written /\ HeldRight
<1>1. step = "run" /\ Len(<<>>) = 0 /\ UrlByFile # 0
  BY EmptySeq, FilesAssumption DEF Begins
<1>2. ASSUME NEW q \in Queues
      PROVE  /\ outbuf[q] = <<>> /\ buf[q] = <<>>
             /\ \A k \in DOMAIN dir[q] : dir[q][k] = <<>>
  BY DEF Begins, Empty
<1>3. Known
  BY <1>2, NothingIn DEF Known, HoldsIn, Held
<1>4. Written
  BY <1>1, <1>2 DEF Written, FullIn
<1>5. HeldRight
  BY <1>1 DEF HeldRight
<1> QED
  BY <1>3, <1>4, <1>5

NothingHeld == held = [u \in Urls |-> 0]

LEMMA BeginTableNow == Begins /\ NothingHeld => Known /\ Written /\ HeldRight
BY BeginTable DEF NothingHeld

LEMMA BeginTableNext == Begins' /\ NothingHeld' => Known' /\ Written' /\ HeldRight'
BY BeginTableNow, PTL

\* What is in memory when less of it is.
LEMMA HeldLess ==
    ASSUME Held, HeldRight, NEW v \in Urls, held[v] > 0, held' = [held EXCEPT ![v] = @ - 1],
           seen' = seen, stray' = stray, step' # "loading"
    PROVE  Held' /\ HeldRight'
<1>1. held \in [Urls -> Nat]
  BY DEF HeldRight
<1>2. ASSUME NEW w \in Urls PROVE held'[w] \in Nat /\ (held'[w] > 0 => held[w] > 0)
  <2>1. held'[w] = IF w = v THEN held[v] - 1 ELSE held[w]
    BY <1>1
  <2>2. held[w] \in Nat /\ held[v] \in Nat /\ held[v] > 0
    BY <1>1
  <2> QED
    BY <2>1, <2>2
<1>3. held' \in [Urls -> Nat]
  BY <1>1, <1>2
<1> QED
  BY <1>2, <1>3 DEF Held, HeldRight

LEMMA TableStep ==
    ASSUME TableInv, DiskInv', ResumeNext, CanReload, CrashPoints \subseteq {"run", "spinning"}
    PROVE  TableInv'
<1>0. DiskInv /\ HeldRight /\ Known /\ Written /\ (Running => Held)
  BY DEF TableInv, Known
<1> SUFFICES Known' /\ Written' /\ HeldRight'
  BY DEF TableInv
<1>1. URLsDisk \in Queues /\ URLsDiskWait \in Queues
  BY NamesAssumption
<1>2. ASSUME NEW u \in Urls, Check(u) PROVE Known' /\ Written' /\ HeldRight'
  <2>1. /\ Put(URLsDisk, u) /\ seen' = seen \cup {u} /\ held' = held /\ stray' = stray
        /\ step = "run" /\ step' \in {"run", "full"}
    BY <1>2 DEF Check, Put
  <2>2. Held'
    BY <1>0, <2>1 DEF Held, Running
  <2>3. HeldRight'
    BY <1>0, <2>1 DEF HeldRight
  <2>4. SeenAfter(u) /\ u \in seen' \cup stray'
    BY <2>1 DEF SeenAfter
  <2> QED
    BY <1>1, <2>1, <2>2, <2>3, <2>4, PutTable
<1>3. ASSUME NEW u \in Urls, PutBack(u) PROVE Known' /\ Written' /\ HeldRight'
  <2>1. /\ Put(URLsDiskWait, u) /\ seen' = seen /\ held' = [held EXCEPT ![u] = @ - 1]
        /\ stray' = stray /\ held[u] > 0 /\ step = "run" /\ step' \in {"run", "full"}
    BY <1>3 DEF PutBack, Put
  <2>2. Held
    BY <1>0, <2>1 DEF Running
  <2>3. Held' /\ HeldRight'
    BY <1>0, <2>1, <2>2, HeldLess
  <2>4. SeenAfter(u) /\ u \in seen' \cup stray'
    BY <2>1, <2>2 DEF SeenAfter, Held
  <2> QED
    BY <1>1, <2>1, <2>3, <2>4, PutTable
<1>4. ASSUME NEW u \in Urls, Finish(u) PROVE Known' /\ Written' /\ HeldRight'
  <2>1. /\ dir' = dir /\ outbuf' = outbuf /\ buf' = buf /\ hashBin' = hashBin /\ seen' = seen
        /\ stray' = stray /\ held' = [held EXCEPT ![u] = @ - 1] /\ held[u] > 0
        /\ step = "run" /\ step' = "run"
    BY <1>4 DEF Finish, vars, diskVars, fifoVars
  <2>2. Held
    BY <1>0, <2>1 DEF Running
  <2>3. Held' /\ HeldRight'
    BY <1>0, <2>1, <2>2, HeldLess
  <2>4. Running /\ ~Saving
    BY <2>1 DEF Running, Saving
  <2> QED
    BY <2>1, <2>3, <2>4, KnownAside
<1>5. ASSUME NEW q \in Queues, Take(q) PROVE Known' /\ Written' /\ HeldRight'
  BY <1>5, GetTable
<1>6. ASSUME NEW q \in Queues, TakeFails(q) PROVE Known' /\ Written' /\ HeldRight'
  BY <1>6, FailsTable
<1>7. ASSUME Inside, held' = held,
             stray' = stray \cup IF step = "loading" /\ step' = "run"
                                 THEN UNION {NotFull(q) : q \in Queues} ELSE {}
      PROVE  Known' /\ Written' /\ HeldRight'
  <2>1. CASE LoadTable
    BY <1>7, <2>1, LoadTableTable
  <2>2. CASE LoadQueue
    <3>1. step' # "run"
      BY <2>2 DEF LoadQueue
    <3>2. stray' = stray
      BY <1>7, <3>1
    <3> QED
      BY <1>7, <2>2, <3>2, LoadQueueTable
  <2>3. CASE ~LoadQueue /\ ~LoadTable
    <3>1. /\ RollFlush \/ RollCreat \/ RollRead \/ SaveRename \/ SaveCreat \/ SaveWrite
               \/ SaveUnlink
          /\ step # "loading" /\ step' # "loading"
      BY <1>7, <2>3 DEF Inside, RollFlush, RollCreat, RollRead, SaveRename, SaveCreat,
                        SaveWrite, SaveUnlink
    <3>2. stray' = stray
      BY <1>7, <3>1
    <3>3. HeldRight'
      BY <1>0, <1>7, <3>1 DEF HeldRight
    <3> QED
      BY <1>7, <3>1, <3>2, <3>3, FlushTable, CreatTable, ReadTable, SaveTable
  <2> QED
    BY <2>1, <2>2, <2>3
<1>8. ASSUME Crash \/ Reload, held' = [u \in Urls |-> 0], stray' = stray
      PROVE  Known' /\ Written' /\ HeldRight'
  BY <1>8, StopTable
<1>9. ASSUME Scratch, held' = [u \in Urls |-> 0]
      PROVE  Known' /\ Written' /\ HeldRight'
  <2>1. {hashBin, hashOld} \subseteq TableFiles
    BY <1>0 DEF DiskInv, TypeOK
  <2>2. Begins' /\ NothingHeld'
    BY <1>9, <2>1 DEF Scratch, Forget, Fresh, Begins, NothingHeld
  <2> QED
    BY <2>2, BeginTableNext
<1> QED
  BY <1>2, <1>3, <1>4, <1>5, <1>6, <1>7, <1>8, <1>9 DEF ResumeNext

LEMMA TableStutter ==
    ASSUME TableInv, DiskInv', UNCHANGED resumeVars
    PROVE  TableInv'
<1>1. /\ dir' = dir /\ outbuf' = outbuf /\ buf' = buf /\ hashBin' = hashBin /\ seen' = seen
      /\ stray' = stray /\ held' = held /\ step' = step
  BY DEF resumeVars, vars, diskVars, fifoVars
<1>2. HeldRight' /\ (Running' <=> Running) /\ (Saving' <=> Saving)
  BY <1>1 DEF TableInv, HeldRight, Running, Saving
<1>3. Running' => Held'
  BY <1>1, <1>2 DEF TableInv, Known, Held
<1>4. Known' /\ Written'
  BY <1>1, <1>2, <1>3, KnownAside
<1> QED
  BY <1>2, <1>4 DEF TableInv

\* Every file of a queue that is alone, but for the last, is full.
LEMMA OnDiskFull ==
    ASSUME DiskInv, NEW q \in Queues, Alone(q), NEW X, FullIn(dir[q], X)
    PROVE  ToSet(OnDisk(q)) \subseteq X
<1> DEFINE d == dir[q]
<1>0. IsFiles(d, Urls)
  BY TypeFacts DEF DiskInv, DirTypes
<1>1. PICK a, b \in Nat : FilesFrom(d, a, b)
  BY DEF DiskInv, DirOk
<1>2. OnDisk(q) = FilesOn(d) /\ FullIn(d, X)
  BY OnDiskOf
<1> HIDE DEF d
<1>3. FilesOn(d) = Joined(d, a, b - 1)
  BY <1>1, FilesOnIs
<1>4. FilesWithin(d, a, b - 1, X)
  BY <1>1, <1>2 DEF FilesWithin, FilesFrom, FullFiles, FullIn, FileOf
<1>5. a \in Int /\ b - 1 \in Int
  BY <1>1
<1>6. ToSet(Joined(d, a, b - 1)) \subseteq X
  BY <1>0, <1>4, <1>5, JoinedSet
<1> QED
  BY <1>2, <1>3, <1>6

\* Between two operations the table on disk covers what --reload would read,
\* stray urls aside, when every file that begins saves it and the crawl stops
\* between two operations.
THEOREM TableKnows ==
    CanReload /\ CrashPoints \subseteq {"run", "spinning"} /\ ResumeSpec => []TableCovers
<1> SUFFICES ASSUME CanReload, CrashPoints \subseteq {"run", "spinning"}
             PROVE  ResumeSpec => []TableCovers
  OBVIOUS
<1>1. ResumeInit => TableInv
  <2> SUFFICES ASSUME ResumeInit PROVE TableInv
    OBVIOUS
  <2>1. Begins /\ NothingHeld /\ DiskInv
    BY InitInv DEF ResumeInit, Init, Begins, NothingHeld, TableFiles
  <2> QED
    BY <2>1, BeginTableNow DEF TableInv
<1>2. ASSUME TableInv, [ResumeNext]_resumeVars PROVE TableInv'
  <2>1. DiskInv'
    BY <1>2, StepInv, StutterInv, ResumeIsStep DEF TableInv
  <2> QED
    BY <1>2, <2>1, TableStep, TableStutter
<1>3. ASSUME TableInv PROVE TableCovers
  <2> DEFINE X == hashBin.urls \cup stray
  <2> SUFFICES ASSUME step = "run" PROVE Covered(X)
    BY DEF TableCovers
  <2>1. \A q \in Queues : FullIn(dir[q], X)
    BY <1>3 DEF TableInv, Written, Saving
  <2>2. URLsDiskWait \in Queues /\ Alone(URLsDiskWait)
    BY AloneAssumption
  <2> HIDE DEF X
  <2>3. DiskInv
    BY <1>3 DEF TableInv
  <2>4. FullIn(dir[URLsDiskWait], X)
    BY <2>1, <2>2
  <2>5. ToSet(OnDisk(URLsDiskWait)) \subseteq X
    BY <2>2, <2>3, <2>4, OnDiskFull
  <2>6. \A q \in Queues : InFullFiles(q) \subseteq X
    BY <2>1 DEF InFullFiles, FullIn
  <2> QED
    BY <2>5, <2>6 DEF Covered
<1> QED
  BY <1>1, <1>2, <1>3, PTL DEF ResumeSpec

=============================================================================
