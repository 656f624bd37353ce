--------------------------- MODULE TransferProofs ---------------------------
(***************************************************************************)
(* Proofs about Transfer, for every value of its constants.                *)
(***************************************************************************)
EXTENDS Transfer, WellFoundedInduction, TLAPS

\* A set of numbers has a least one.
LEMMA LeastOf ==
    ASSUME NEW S \in SUBSET Nat, S # {}
    PROVE  Min(S) \in S /\ \A y \in S : Min(S) <= y
<1> DEFINE R == OpToRel(<, Nat)
<1>1. PICK x \in S : \A y \in S : ~ (<<y, x>> \in R)
  <2>1. IsWellFoundedOn(R, Nat)
    BY NatLessThanWellFounded
  <2> HIDE DEF R
  <2> QED
    BY <2>1, WFMin
<1>2. \A y \in S : x <= y
  <2> TAKE y \in S
  <2>1. ~ (y < x)
    BY <1>1 DEF OpToRel
  <2> QED
    BY <2>1
<1> QED
  BY <1>2 DEF Min

\* The lesser of two numbers.
LEMMA MinPair ==
    ASSUME NEW a \in Nat, NEW b \in Nat
    PROVE  Min({a, b}) \in Nat /\ Min({a, b}) <= a /\ Min({a, b}) <= b
<1>1. Min({a, b}) \in {a, b} /\ \A y \in {a, b} : Min({a, b}) <= y
  BY LeastOf
<1> QED
  BY <1>1

\* A set of numbers with a bound has a greatest one.
LEMMA GreatestOf ==
    ASSUME NEW S \in SUBSET Nat, S # {}, NEW b \in Nat, \A y \in S : y <= b
    PROVE  Max(S) \in S /\ \A y \in S : y <= Max(S)
<1> DEFINE U == {n \in Nat : \A y \in S : y <= n}
           m == Min(U)
<1>1. m \in U /\ \A n \in U : m <= n
  <2>1. b \in U /\ U \in SUBSET Nat
    OBVIOUS
  <2> HIDE DEF U
  <2> QED
    BY <2>1, LeastOf
<1> HIDE DEF m
<1>2. m \in S
  <2> SUFFICES ASSUME m \notin S PROVE FALSE
    OBVIOUS
  <2>1. \A y \in S : y <= m /\ y # m
    BY <1>1
  <2>2. PICK y \in S : TRUE
    OBVIOUS
  <2>3. m \in Nat /\ m > 0 /\ m - 1 \in Nat
    BY <1>1, <2>1, <2>2
  <2>4. m - 1 \in U
    BY <2>1, <2>3
  <2> QED
    BY <1>1, <2>3, <2>4
<1> QED
  BY <1>1, <1>2 DEF Max
-----------------------------------------------------------------------------
\* A connection that is not free has a descriptor of the program.
HasDescriptor == \A c \in Busy : socket[c] \in Fds

\* checkTimeout takes from the time of a connection what it adds to its silence.
Silence == \A c \in Busy : silent[c] = 0 \/ silent[c] + timeout[c] <= TimeoutPage + 1

\* What waits at a socket is what one piece brought.
InPieces == \A f \in Fds : inq[f] <= Move

\* What was moved is what the seconds allowed, less what is left of it.
Spent == LimitBand # 0 /\ seconds < Horizon => total + remainBand <= LimitBand * (seconds + 1)

\* checkAll starts without a debt, and each connection adds one move to it.
Debt == LimitBand # 0 =>
    /\ remainBand + NbConn * Move >= 0
    /\ pc = "open" => remainBand >= 0
    /\ pc = "check" => remainBand + (ci - 1) * Move >= 0

\* A connection that is read has room in its buffer.
HasRoom == \A c \in Busy : state[c] = "open" => pos[c] < MaxRead

Sockets == SocketsOwned /\ HasDescriptor /\ Silence /\ InPieces /\ HasRoom
IInv == Sockets /\ Spent /\ Debt
-----------------------------------------------------------------------------
(* Lemmas on the constants and on what several actions share *)

LEMMA MoveBounds ==
    Move \in Nat /\ ReqLen <= Move /\ \A n \in Chunks : n <= Move
<1> DEFINE S == {ReqLen} \union Chunks
<1>1. S \in SUBSET Nat /\ ReqLen \in S /\ ReqLen \in Nat /\ Chunks \subseteq S
  BY TransferAssumption
<1>2. PICK b \in Nat : \A n \in Chunks : n <= b
  BY TransferAssumption
<1>3. ReqLen + b \in Nat /\ \A y \in S : y <= ReqLen + b
  BY <1>1, <1>2
<1>4. Max(S) \in S /\ \A y \in S : y <= Max(S)
  <2> HIDE DEF S
  <2> QED
    BY <1>1, <1>3, GreatestOf
<1> QED
  BY <1>1, <1>4 DEF Move

LEMMA Constants ==
    /\ NbConn \in Nat \ {0} /\ Fds \subseteq Nat /\ InitFds \in Nat \ {0}
    /\ ReqLen \in Nat \ {0} /\ MaxRead \in Nat \ {0} /\ TimeoutPage \in Nat
    /\ TimeoutIncr \in Nat \ {0} /\ LimitBand \in Nat /\ Horizon \in Nat
    /\ Todo \in [{"page", "robots"} -> Nat] /\ Chunks \subseteq Nat
BY TransferAssumption

\* endOfFile closes the socket of one connection and of no other.
LEMMA EndKeeps ==
    ASSUME Sockets, NEW c \in Busy, EndOfFile(c), UNCHANGED <<pollVars, todo, pc>>,
           remainBand' \in Int, total' \in Nat, seconds' \in 0 .. Horizon,
           ci' \in 1 .. NbConn + 1
    PROVE  Sockets'
<1> USE Constants DEF EndOfFile, Freed, pollVars, Busy, Conns
<1>1. TypeOK /\ c \in Conns /\ socket[c] \in Fds
  BY DEF Sockets, SocketsOwned, HasDescriptor
<1>2. TypeOK'
  BY <1>1 DEF TypeOK
<1>3. Busy' = Busy \ {c} /\ \A d \in Busy' : socket'[d] = socket[d] /\ socket[d] # socket[c]
  BY <1>1 DEF TypeOK, Sockets, SocketsOwned
<1>4. HasDescriptor'
  BY <1>3 DEF Sockets, HasDescriptor
<1>5. \A f \in Fds : kern'[f] = IF f = socket[c] THEN "closed" ELSE kern[f]
  BY <1>1 DEF TypeOK
<1>6. SocketsOwned'
  <2>1. \A d \in Busy' : kern'[socket'[d]] # "closed" /\ socket'[d] < maxFds'
    BY <1>3, <1>4, <1>5 DEF Sockets, SocketsOwned, HasDescriptor
  <2>2. \A d, e \in Busy' : socket'[d] = socket'[e] => d = e
    BY <1>3 DEF Sockets, SocketsOwned
  <2>3. ASSUME NEW f \in Fds, kern'[f] # "closed" PROVE \E d \in Busy' : socket'[d] = f
    <3>1. f # socket[c] /\ kern[f] # "closed"
      BY <1>5, <2>3
    <3>2. PICK d \in Busy : socket[d] = f
      BY <3>1 DEF Sockets, SocketsOwned
    <3>3. d \in Busy'
      BY <1>3, <3>1, <3>2
    <3> QED
      BY <1>3, <3>2, <3>3
  <2> HIDE DEF Busy
  <2> QED
    BY <1>2, <2>1, <2>2, <2>3 DEF SocketsOwned
<1>7. Silence'
  BY <1>1, <1>3 DEF Sockets, Silence, TypeOK
<1>8. InPieces'
  BY <1>1, MoveBounds DEF Sockets, InPieces, TypeOK
<1>9. HasRoom'
  BY <1>1, <1>3 DEF Sockets, HasRoom, TypeOK
<1> QED
  BY <1>4, <1>6, <1>7, <1>8, <1>9 DEF Sockets

\* More connections, a greater debt.
LEMMA MoreMoves ==
    ASSUME NEW n \in Nat, NEW a \in 1 .. n + 1, NEW b \in 1 .. n + 1, a <= b, NEW m \in Nat
    PROVE  (a - 1) * m \in Nat /\ (b - 1) * m \in Nat /\ (a - 1) * m <= (b - 1) * m
<1>1. a - 1 \in Nat /\ b - 1 \in Nat /\ b - a \in Nat
  OBVIOUS
<1>2. (a - 1) * m \in Nat /\ (b - 1) * m \in Nat /\ (b - a) * m \in Nat
  BY <1>1
<1>3. (b - a) * m = (b - 1) * m - (a - 1) * m
  BY <1>1
<1> QED
  BY <1>2, <1>3

\* One connection of checkAll moves n bytes.
LEMMA SpendKeeps ==
    ASSUME IInv, Turn, NEW n \in Nat, n <= Move, Spend(n)
    PROVE  /\ remainBand' \in Int /\ total' \in Nat /\ seconds' \in 0 .. Horizon
           /\ ci' \in 1 .. NbConn + 1
           /\ Spent' /\ Debt'
<1> USE Constants, MoveBounds DEF Turn, Spend, At, pollVars
<1>1. TypeOK /\ Spent /\ Debt
  BY DEF IInv, Sockets, SocketsOwned
<1>2. /\ remainBand' \in Int /\ total' \in Nat /\ seconds' \in 0 .. Horizon
      /\ ci' \in 1 .. NbConn + 1 /\ ci \in 1 .. NbConn
  BY <1>1 DEF TypeOK
<1>3. Spent'
  BY <1>1 DEF Spent, TypeOK
<1>4. ASSUME LimitBand # 0 PROVE remainBand' + (ci' - 1) * Move >= 0
  <2>1. remainBand + (ci - 1) * Move >= 0 /\ remainBand \in Int
    BY <1>1, <1>4 DEF Debt, TypeOK
  <2>2. (ci' - 1) * Move = (ci - 1) * Move + Move /\ (ci - 1) * Move \in Int
    BY <1>2
  <2> QED
    BY <1>4, <2>1, <2>2
<1>5. (ci' - 1) * Move <= NbConn * Move /\ NbConn * Move \in Int /\ (ci' - 1) * Move \in Int
  BY <1>2, MoreMoves
<1>6. pc' = "check"
  OBVIOUS
<1>7. Debt'
  BY <1>2, <1>4, <1>5, <1>6 DEF Debt
<1> QED
  BY <1>2, <1>3, <1>7

\* An action that moves nothing and leaves the place in the turn, or goes on to
\* the next connection.
LEMMA NothingMoved ==
    ASSUME IInv, UNCHANGED bandVars, ci' \in 1 .. NbConn + 1,
           pc' = "check" => \/ LimitBand = 0
                            \/ pc = "check" /\ ci' >= ci
                            \/ remainBand >= 0 /\ ci' = 1,
           pc' = "open" => \/ LimitBand = 0
                           \/ pc = "open"
                           \/ remainBand >= 0
    PROVE  /\ remainBand' \in Int /\ total' \in Nat /\ seconds' \in 0 .. Horizon
           /\ Spent' /\ Debt'
<1> USE Constants, MoveBounds DEF bandVars
<1>1. TypeOK /\ Spent /\ Debt
  BY DEF IInv, Sockets, SocketsOwned
<1>2. Spent' /\ ci \in 1 .. NbConn + 1 /\ remainBand \in Int
  BY <1>1 DEF Spent, TypeOK
<1>3. PICK p \in 1 .. NbConn + 1 : ci' = p
  OBVIOUS
<1>4. ASSUME LimitBand # 0, pc' = "check" PROVE remainBand + (p - 1) * Move >= 0
  <2>1. CASE pc = "check" /\ p >= ci
    <3>1. (p - 1) * Move >= (ci - 1) * Move /\ (ci - 1) * Move \in Int /\ (p - 1) * Move \in Int
      BY <1>2, <2>1, MoreMoves
    <3> QED
      BY <1>1, <1>2, <1>4, <2>1, <3>1 DEF Debt
  <2>2. CASE remainBand >= 0 /\ p = 1
    BY <2>2, <1>2
  <2> QED
    BY <1>3, <1>4, <2>1, <2>2
<1>5. Debt'
  BY <1>1, <1>3, <1>4 DEF Debt
<1> QED
  BY <1>1, <1>2, <1>5 DEF TypeOK

\* An action that leaves the connections and the sockets as they are.
LEMMA SocketsKept ==
    ASSUME Sockets, UNCHANGED <<connVars, kernVars, maxFds, todo>>,
           pollfds' \subseteq Fds, ansPoll' \subseteq Fds, opening' \in BOOLEAN,
           pc' \in {"loop", "timeouts", "band", "open", "check", "end"},
           remainBand' \in Int, total' \in Nat, seconds' \in 0 .. Horizon,
           ci' \in 1 .. NbConn + 1
    PROVE  Sockets'
BY DEF Sockets, SocketsOwned, HasDescriptor, Silence, InPieces, HasRoom, TypeOK, connVars,
       kernVars, Busy, Conns

\* An action inside a connection: its socket stays, and it stays busy or free.
LEMMA InsideKeeps ==
    ASSUME Sockets, UNCHANGED <<socket, kind, kern, eof, pollVars, todo, opening, pc>>,
           state' \in [Conns -> {"empty", "connecting", "write", "open"}],
           \A c \in Conns : state'[c] = "empty" <=> state[c] = "empty",
           timeout' \in [Conns -> Nat], pos' \in [Conns -> Nat], silent' \in [Conns -> Nat],
           inq' \in [Fds -> Nat], InPieces', Silence', HasRoom',
           remainBand' \in Int, total' \in Nat, seconds' \in 0 .. Horizon,
           ci' \in 1 .. NbConn + 1
    PROVE  Sockets'
<1>1. Busy' = Busy
  BY DEF Busy
<1>2. TypeOK'
  BY DEF Sockets, SocketsOwned, TypeOK, pollVars, Conns
<1> HIDE DEF Busy
<1>3. SocketsOwned' /\ HasDescriptor'
  BY <1>1, <1>2 DEF Sockets, SocketsOwned, HasDescriptor, pollVars
<1> QED
  BY <1>3 DEF Sockets
-----------------------------------------------------------------------------
(* The actions *)

LEMMA InitIInv == Init => IInv
<1> SUFFICES ASSUME Init PROVE IInv
  OBVIOUS
<1> USE Constants, MoveBounds DEF Init
<1>a. Busy = {}
  BY DEF Busy
<1>b. /\ ci \in 1 .. NbConn + 1 /\ seconds \in 0 .. Horizon /\ total \in Nat /\ remainBand \in Int
      /\ maxFds \in Nat \ {0} /\ pollfds \subseteq Fds /\ ansPoll \subseteq Fds
  OBVIOUS
<1>1. Busy = {} /\ TypeOK
  BY <1>a, <1>b DEF TypeOK
<1>2. Sockets
  <2> HIDE DEF Busy
  <2> QED
    BY <1>1 DEF Sockets, SocketsOwned, HasDescriptor, Silence, InPieces, HasRoom
<1>3. Spent
  BY DEF Spent
<1>4. NbConn * Move \in Nat
  BY ONLY Constants, MoveBounds
<1>5. Debt
  BY <1>4 DEF Debt
<1> QED
  BY <1>2, <1>3, <1>5 DEF IInv

\* getFds takes the least closed descriptor and makes room for it.
LEMMA OpenKeeps == IInv /\ Open => IInv'
<1> SUFFICES ASSUME IInv, NEW k \in {"page", "robots"},
                    NEW res \in {"write", "connecting", "empty"},
                    pc = "open" \/ opening, todo[k] > 0,
                    NEW c \in Conns \ Busy, \E f \in Fds : kern[f] = "closed",
                    UNCHANGED <<bandVars, pollfds, ansPoll, pc, ci, opening>>,
                    LET f == Least({g \in Fds : kern[g] = "closed"})
                    IN /\ maxFds' = Grown(f)
                       /\ todo' = [todo EXCEPT ![k] = @ - 1]
                       /\ IF res = "empty" THEN UNCHANGED <<connVars, kernVars>>
                          ELSE /\ state' = [state EXCEPT ![c] = res]
                               /\ timeout' = [timeout EXCEPT ![c] = TimeoutPage]
                               /\ kind' = [kind EXCEPT ![c] = k]
                               /\ pos' = [pos EXCEPT ![c] = 0]
                               /\ silent' = [silent EXCEPT ![c] = 0]
                               /\ kern' = [kern EXCEPT ![f] = IF res = "write" THEN "up" ELSE "syn"]
                               /\ socket' = [socket EXCEPT ![c] = f]
                               /\ UNCHANGED <<inq, eof>>
             PROVE  IInv'
  BY DEF Open
<1> DEFINE f == Least({g \in Fds : kern[g] = "closed"})
<1> USE Constants
<1>1. TypeOK /\ Sockets /\ ci \in 1 .. NbConn + 1
  BY DEF IInv, Sockets, SocketsOwned, TypeOK
<1>2. c \in Conns /\ state[c] = "empty"
  BY DEF Busy
<1>3. f \in Fds /\ kern[f] = "closed"
  BY LeastOf DEF Least
<1>4. /\ maxFds' = Grown(f) /\ todo' = [todo EXCEPT ![k] = @ - 1]
      /\ \/ UNCHANGED <<connVars, kernVars>>
         \/ /\ res # "empty" /\ state' = [state EXCEPT ![c] = res]
            /\ timeout' = [timeout EXCEPT ![c] = TimeoutPage]
            /\ kind' = [kind EXCEPT ![c] = k] /\ pos' = [pos EXCEPT ![c] = 0]
            /\ silent' = [silent EXCEPT ![c] = 0]
            /\ kern' = [kern EXCEPT ![f] = IF res = "write" THEN "up" ELSE "syn"]
            /\ socket' = [socket EXCEPT ![c] = f]
            /\ UNCHANGED <<inq, eof>>
  OBVIOUS
<1> HIDE DEF f
<1>5. maxFds \in Nat \ {0} /\ maxFds' \in Nat \ {0} /\ maxFds <= maxFds' /\ f < maxFds'
  BY <1>1, <1>3, <1>4 DEF Grown, TypeOK
<1>6. todo' \in [{"page", "robots"} -> Nat]
  BY <1>1, <1>4 DEF TypeOK
<1>a. /\ ci' \in 1 .. NbConn + 1 /\ UNCHANGED bandVars
      /\ (pc' = "check" => pc = "check" /\ ci' >= ci)
      /\ (pc' = "open" => pc = "open")
  BY <1>1
<1>7. Spent' /\ Debt' /\ remainBand' \in Int /\ total' \in Nat /\ seconds' \in 0 .. Horizon
  BY <1>a, NothingMoved
<1>8. CASE UNCHANGED <<connVars, kernVars>>
  <2>1. TypeOK' /\ Busy' = Busy
    BY <1>1, <1>5, <1>6, <1>7, <1>8 DEF TypeOK, connVars, kernVars, Busy
  <2>2. \A d \in Busy : socket[d] \in Nat
    BY <1>1 DEF TypeOK, Busy
  <2> HIDE DEF Busy
  <2>a. UNCHANGED <<state, socket, timeout, pos, silent, kern, inq>>
    BY <1>8 DEF connVars, kernVars
  <2>b. SocketsOwned'
    BY <1>1, <1>5, <2>a, <2>1, <2>2 DEF Sockets, SocketsOwned
  <2>c. HasDescriptor' /\ Silence'
    BY <1>1, <2>a, <2>1 DEF Sockets, HasDescriptor, Silence
  <2>d. InPieces' /\ HasRoom'
    BY <1>1, <2>a, <2>1, MoveBounds DEF Sockets, InPieces, HasRoom
  <2>3. Sockets'
    BY <2>b, <2>c, <2>d DEF Sockets
  <2> QED
    BY <1>7, <2>3 DEF IInv
<1>9. CASE res # "empty" /\ socket' = [socket EXCEPT ![c] = f]
           /\ state' = [state EXCEPT ![c] = res]
           /\ timeout' = [timeout EXCEPT ![c] = TimeoutPage]
           /\ kind' = [kind EXCEPT ![c] = k] /\ pos' = [pos EXCEPT ![c] = 0]
           /\ silent' = [silent EXCEPT ![c] = 0]
           /\ kern' = [kern EXCEPT ![f] = IF res = "write" THEN "up" ELSE "syn"]
           /\ UNCHANGED <<inq, eof>>
  <2>1. TypeOK'
    BY <1>1, <1>2, <1>3, <1>5, <1>6, <1>7, <1>9 DEF TypeOK
  <2>2. Busy' = Busy \union {c} /\ c \notin Busy
    BY <1>1, <1>2, <1>9 DEF TypeOK, Busy
  <2>3. \A d \in Busy : socket[d] \in Nat /\ socket[d] \in Fds /\ kern[socket[d]] # "closed"
                        /\ d # c /\ socket'[d] = socket[d] /\ socket[d] # f
    BY <1>1, <1>2, <1>3, <1>9, <2>2 DEF TypeOK, Busy, Sockets, SocketsOwned, HasDescriptor
  <2>4. \A g \in Fds : kern'[g] # "closed" <=> kern[g] # "closed" \/ g = f
    BY <1>1, <1>3, <1>9 DEF TypeOK
  <2>5. socket'[c] = f /\ silent'[c] = 0
    BY <1>1, <1>2, <1>9 DEF TypeOK
  <2>6. /\ \A d \in Busy : /\ silent'[d] = silent[d] /\ timeout'[d] = timeout[d]
                           /\ state'[d] = state[d] /\ pos'[d] = pos[d]
        /\ state'[c] # "open"
    BY <1>1, <1>2, <1>9, <2>3 DEF TypeOK, Busy
  <2> HIDE DEF Busy
  <2>a. HasDescriptor'
    BY <1>3, <2>2, <2>3, <2>5 DEF HasDescriptor
  <2>b. Silence'
    BY <1>1, <2>2, <2>5, <2>6 DEF Sockets, Silence
  <2>c. HasRoom'
    BY <1>1, <2>2, <2>6 DEF Sockets, HasRoom
  <2>d. InPieces'
    BY <1>1, <1>9 DEF Sockets, InPieces
  <2>7. HasDescriptor' /\ Silence' /\ InPieces' /\ HasRoom'
    BY <2>a, <2>b, <2>c, <2>d
  <2>8. ASSUME NEW d \in Busy' PROVE kern'[socket'[d]] # "closed" /\ socket'[d] < maxFds'
    <3>1. CASE d = c
      BY <3>1, <1>3, <1>5, <2>4, <2>5
    <3>2. CASE d \in Busy
      <4>1. socket[d] \in Nat /\ socket[d] < maxFds /\ socket'[d] = socket[d]
        BY <1>1, <2>3, <3>2 DEF Sockets, SocketsOwned
      <4>2. kern'[socket'[d]] # "closed"
        BY <2>3, <2>4, <3>2
      <4> QED
        BY <1>5, <4>1, <4>2
    <3> QED
      BY <2>2, <3>1, <3>2
  <2>9. \A d, e \in Busy' : socket'[d] = socket'[e] => d = e
    BY <1>1, <2>2, <2>3, <2>5 DEF Sockets, SocketsOwned
  <2>10. \A g \in Fds : kern'[g] # "closed" => \E d \in Busy' : socket'[d] = g
    BY <1>1, <2>2, <2>3, <2>4, <2>5 DEF Sockets, SocketsOwned
  <2>11. Sockets'
    BY <2>1, <2>7, <2>8, <2>9, <2>10 DEF Sockets, SocketsOwned
  <2> QED
    BY <1>7, <2>11 DEF IInv
<1> QED
  BY <1>4, <1>8, <1>9

\* The steps of the loop between the connections.
LEMMA LoopKeeps ==
    ASSUME IInv, RobotsDone \/ Second \/ SameSecond \/ WaitBandwidth \/ CopyEvents
                 \/ StartCheck \/ Poll
    PROVE  IInv'
<1> USE Constants DEF RobotsDone, Second, SameSecond, WaitBandwidth, CopyEvents,
                      StartCheck, Poll, At
<1>1. TypeOK /\ Debt /\ Sockets
  BY DEF IInv, Sockets, SocketsOwned
<1>a. UNCHANGED <<connVars, kernVars, maxFds, todo, bandVars>>
  BY DEF pollVars
<1>b. pollfds' \subseteq Fds /\ ansPoll' \subseteq Fds
  BY <1>1 DEF TypeOK, pollVars
<1>c. ci' \in 1 .. NbConn + 1
  BY <1>1 DEF TypeOK
<1>d. opening' \in BOOLEAN
  BY <1>1 DEF TypeOK
<1>e. pc' \in {"loop", "timeouts", "band", "open", "check", "end"}
  BY <1>1 DEF TypeOK
<1>2. /\ UNCHANGED <<connVars, kernVars, maxFds, todo, bandVars>>
      /\ ci' \in 1 .. NbConn + 1 /\ opening' \in BOOLEAN
      /\ pollfds' \subseteq Fds /\ ansPoll' \subseteq Fds
      /\ pc' \in {"loop", "timeouts", "band", "open", "check", "end"}
  BY <1>a, <1>b, <1>c, <1>d, <1>e
<1>3. /\ pc' = "check" => \/ LimitBand = 0
                          \/ pc = "check" /\ ci' >= ci
                          \/ remainBand >= 0 /\ ci' = 1
      /\ pc' = "open" => \/ LimitBand = 0
                         \/ pc = "open"
                         \/ remainBand >= 0
  BY <1>1 DEF TypeOK, Debt
<1>4. remainBand' \in Int /\ total' \in Nat /\ seconds' \in 0 .. Horizon /\ Spent' /\ Debt'
  BY <1>2, <1>3, NothingMoved DEF bandVars
<1>5. Sockets'
  BY <1>1, <1>2, <1>4, SocketsKept
<1> QED
  BY <1>4, <1>5 DEF IInv

\* checkTimeout ends a connection whose time is over; the time of the others
\* runs, and their silence with it.
LEMMA CheckTimeoutKeeps == ASSUME IInv, CheckTimeout PROVE IInv'
<1> USE Constants DEF CheckTimeout, At
<1>1. TypeOK /\ Sockets /\ ci' \in 1 .. NbConn + 1 /\ UNCHANGED <<bandVars, pollVars, todo, pc>>
  BY DEF IInv, Sockets, SocketsOwned, TypeOK
<1>2. remainBand' \in Int /\ total' \in Nat /\ seconds' \in 0 .. Horizon /\ Spent' /\ Debt'
  BY <1>1, NothingMoved
<1>3. CASE ci \notin Busy
  <2>1. UNCHANGED <<connVars, kernVars, opening>>
    BY <1>3
  <2>2. Sockets'
    BY <1>1, <1>2, <2>1, SocketsKept DEF TypeOK, pollVars
  <2> QED
    BY <1>2, <2>2 DEF IInv
<1>4. CASE ci \in Busy /\ timeout[ci] = 0
  <2>1. EndOfFile(ci)
    BY <1>4
  <2>2. Sockets'
    BY <1>1, <1>2, <1>4, <2>1, EndKeeps
  <2> QED
    BY <1>2, <2>2 DEF IInv
<1>5. CASE ci \in Busy /\ timeout[ci] # 0
  <2>1. /\ timeout' = [timeout EXCEPT ![ci] = TimeLeft(ci)]
        /\ silent' = [silent EXCEPT ![ci] = Min({@, TimeoutPage + 1}) + 1]
        /\ UNCHANGED <<state, socket, kind, pos, kernVars, opening>>
    BY <1>5
  <2>2. ci \in Conns /\ silent[ci] \in Nat /\ timeout[ci] \in Nat /\ timeout[ci] > 0
    BY <1>1, <1>5 DEF Busy, TypeOK
  <2>3. PICK m \in Nat : m = Min({silent[ci], TimeoutPage + 1}) /\ m <= silent[ci]
    <3>1. TimeoutPage + 1 \in Nat
      OBVIOUS
    <3> QED
      BY <2>2, <3>1, MinPair
  <2>4. /\ TimeLeft(ci) \in Nat /\ TimeLeft(ci) <= TimeoutPage
        /\ timeout[ci] <= TimeoutPage => TimeLeft(ci) = timeout[ci] - 1
    BY <2>2 DEF TimeLeft
  <2>5. silent[ci] = 0 \/ silent[ci] + timeout[ci] <= TimeoutPage + 1
    BY <1>1, <1>5 DEF Sockets, Silence
  <2>6. m + 1 + TimeLeft(ci) <= TimeoutPage + 1
    BY <2>2, <2>3, <2>4, <2>5
  <2>7. timeout' = [timeout EXCEPT ![ci] = TimeLeft(ci)] /\ silent' = [silent EXCEPT ![ci] = m + 1]
    BY <2>1, <2>2, <2>3
  <2>8. timeout' \in [Conns -> Nat] /\ silent' \in [Conns -> Nat]
    BY <1>1, <2>2, <2>3, <2>4, <2>7 DEF TypeOK
  <2>9. Silence'
    <3> SUFFICES ASSUME NEW c \in Conns, state'[c] # "empty"
                 PROVE  silent'[c] = 0 \/ silent'[c] + timeout'[c] <= TimeoutPage + 1
      BY DEF Silence, Busy
    <3>1. CASE c = ci
      BY <1>1, <2>2, <2>6, <2>7, <3>1 DEF TypeOK
    <3>2. CASE c # ci
      BY <1>1, <2>1, <2>2, <2>7, <3>2 DEF TypeOK, Sockets, Silence, Busy
    <3> QED
      BY <3>1, <3>2
  <2>10. /\ UNCHANGED <<socket, kind, kern, eof, pollVars, todo, opening, pc>>
         /\ state' = state /\ pos' = pos /\ inq' = inq
    BY <1>1, <2>1 DEF kernVars
  <2>11. /\ state' \in [Conns -> {"empty", "connecting", "write", "open"}]
         /\ \A c \in Conns : state'[c] = "empty" <=> state[c] = "empty"
         /\ pos' \in [Conns -> Nat] /\ inq' \in [Fds -> Nat] /\ InPieces' /\ HasRoom'
    BY <1>1, <2>10, MoveBounds DEF TypeOK, Sockets, InPieces, HasRoom, Busy
  <2>12. Sockets'
    BY <1>1, <1>2, <2>8, <2>9, <2>10, <2>11, InsideKeeps
  <2> QED
    BY <1>2, <2>12 DEF IInv
<1> QED
  BY <1>3, <1>4, <1>5

\* A second gives a new allowance, or takes it off the debt.
LEMMA RefillKeeps == ASSUME IInv, Refill PROVE IInv'
<1> USE Constants, MoveBounds DEF Refill, At
<1>1. TypeOK /\ Spent /\ Debt /\ Sockets
  BY DEF IInv, Sockets, SocketsOwned
<1>2. /\ remainBand' \in Int /\ total' \in Nat /\ seconds' \in 0 .. Horizon /\ ci' \in 1 .. NbConn + 1
  BY <1>1 DEF TypeOK, Refilled, Aged
<1>3. Sockets'
  BY <1>1, <1>2, SocketsKept DEF TypeOK, pollVars
<1>4. ASSUME LimitBand # 0, seconds' < Horizon
      PROVE  total' + remainBand' <= LimitBand * (seconds' + 1)
  <2>1. seconds < Horizon /\ seconds' = seconds + 1 /\ seconds \in Nat
    BY <1>1, <1>4 DEF Aged, TypeOK
  <2>2. /\ LimitBand * (seconds + 1) \in Int
        /\ LimitBand * (seconds' + 1) = LimitBand * (seconds + 1) + LimitBand
    BY <2>1
  <2>3. total + remainBand <= LimitBand * (seconds + 1)
    BY <1>1, <1>4, <2>1 DEF Spent
  <2>4. remainBand' <= LimitBand + remainBand /\ total' = total
    BY <1>1, <1>4 DEF Refilled, TypeOK
  <2> QED
    BY <1>1, <1>2, <2>2, <2>3, <2>4 DEF TypeOK
<1>5. Spent'
  BY <1>4 DEF Spent
<1>6. NbConn * Move \in Nat
  BY ONLY Constants, MoveBounds
<1>7. Debt'
  BY <1>1, <1>2, <1>6 DEF Debt, Refilled, TypeOK
<1> QED
  BY <1>3, <1>5, <1>7 DEF IInv

\* What one connection of checkAll finds.
LEMMA TurnFacts ==
    ASSUME IInv, Turn
    PROVE  /\ ci' \in 1 .. NbConn + 1 /\ ci \in Conns /\ pc = "check"
           /\ UNCHANGED <<todo, pollVars, pc>>
           /\ TypeOK /\ Sockets
           /\ UNCHANGED bandVars =>
                /\ remainBand' \in Int /\ total' \in Nat /\ seconds' \in 0 .. Horizon
                /\ Spent' /\ Debt'
<1> USE Constants DEF Turn, At
<1>1. TypeOK /\ Sockets
  BY DEF IInv, Sockets, SocketsOwned
<1>2. ci' \in 1 .. NbConn + 1 /\ ci \in Conns /\ ci' >= ci
  BY <1>1 DEF TypeOK, Conns
<1>3. pc = "check" /\ pc' = "check" /\ UNCHANGED <<todo, pollVars, pc>>
  OBVIOUS
<1>4. UNCHANGED bandVars =>
        /\ remainBand' \in Int /\ total' \in Nat /\ seconds' \in 0 .. Horizon
        /\ Spent' /\ Debt'
  BY <1>2, <1>3, NothingMoved
<1> QED
  BY <1>1, <1>2, <1>3, <1>4

\* Nothing to do, or the end of the connection without a transfer.
LEMMA QuietTurnKeeps == ASSUME IInv, NoEvent \/ WriteFails \/ ReadEnds PROVE IInv'
<1>1. Turn /\ UNCHANGED bandVars
  BY DEF NoEvent, WriteFails, CanWrite, ReadEnds, CanRead
<1>2. /\ ci' \in 1 .. NbConn + 1 /\ TypeOK /\ Sockets /\ UNCHANGED <<todo, pollVars, pc>>
      /\ remainBand' \in Int /\ total' \in Nat /\ seconds' \in 0 .. Horizon /\ Spent' /\ Debt'
  BY <1>1, TurnFacts
<1>3. CASE NoEvent
  <2>1. UNCHANGED <<connVars, kernVars, opening>>
    BY <1>3 DEF NoEvent
  <2>2. Sockets'
    BY <1>2, <2>1, SocketsKept DEF TypeOK, pollVars
  <2> QED
    BY <1>2, <2>2 DEF IInv
<1>4. CASE WriteFails \/ ReadEnds
  <2>1. ci \in Busy /\ EndOfFile(ci)
    BY <1>4 DEF WriteFails, CanWrite, ReadEnds, CanRead, Event
  <2>2. Sockets'
    BY <1>2, <2>1, EndKeeps
  <2> QED
    BY <1>2, <2>2 DEF IInv
<1> QED
  BY <1>3, <1>4

\* pipeWrite that does not end the connection.
LEMMA WriteKeeps == ASSUME IInv, WriteLater \/ WriteSome PROVE IInv'
<1> USE Constants
<1>1. Turn /\ CanWrite
  BY DEF WriteLater, WriteSome, CanWrite
<1>2. ci' \in 1 .. NbConn + 1 /\ TypeOK /\ Sockets /\ ci \in Conns /\ UNCHANGED <<todo, pollVars, pc>>
  BY <1>1, TurnFacts
<1>3. /\ UNCHANGED <<socket, timeout, kind, silent, kernVars, opening>>
      /\ state[ci] # "empty" /\ pos[ci] \in Nat
  BY <1>1, <1>2 DEF WriteLater, WriteSome, CanWrite, TypeOK
<1>4. /\ \E v \in {"write", "open"}, n \in Nat :
            /\ state' = [state EXCEPT ![ci] = v] /\ pos' = [pos EXCEPT ![ci] = n]
            /\ v = "open" => n = 0
      /\ remainBand' \in Int /\ total' \in Nat /\ seconds' \in 0 .. Horizon /\ Spent' /\ Debt'
  <2>1. CASE WriteLater
    <3>1. UNCHANGED bandVars /\ state' = [state EXCEPT ![ci] = "write"] /\ pos' = pos
      BY <2>1 DEF WriteLater
    <3>2. pos' = [pos EXCEPT ![ci] = pos[ci]]
      BY <1>2, <3>1 DEF TypeOK
    <3> QED
      BY <1>1, <1>3, <3>1, <3>2, TurnFacts
  <2>2. CASE WriteSome
    <3>1. PICK n \in 1 .. ReqLen - pos[ci] :
            /\ Spend(n)
            /\ IF pos[ci] + n = ReqLen
               THEN state' = [state EXCEPT ![ci] = "open"] /\ pos' = [pos EXCEPT ![ci] = 0]
               ELSE state' = [state EXCEPT ![ci] = "write"] /\ pos' = [pos EXCEPT ![ci] = @ + n]
      BY <2>2 DEF WriteSome
    <3>2. n \in Nat /\ n <= Move /\ pos[ci] + n \in Nat
      BY <1>3, MoveBounds
    <3>3. \E v \in {"write", "open"}, l \in Nat :
            /\ state' = [state EXCEPT ![ci] = v] /\ pos' = [pos EXCEPT ![ci] = l]
            /\ v = "open" => l = 0
      BY <3>1, <3>2
    <3> QED
      BY <1>1, <3>1, <3>2, <3>3, SpendKeeps
  <2> QED
    BY <2>1, <2>2
<1>5. /\ state' \in [Conns -> {"empty", "connecting", "write", "open"}]
      /\ \A c \in Conns : state'[c] = "empty" <=> state[c] = "empty"
      /\ pos' \in [Conns -> Nat]
  BY <1>2, <1>3, <1>4 DEF TypeOK
<1>6. timeout' \in [Conns -> Nat] /\ silent' \in [Conns -> Nat] /\ inq' \in [Fds -> Nat]
  BY <1>2, <1>3 DEF TypeOK, kernVars
<1>7. InPieces'
  BY <1>2, <1>3, MoveBounds DEF Sockets, InPieces, kernVars
<1>8. Busy' = Busy
  BY <1>5 DEF Busy
<1>9. Silence'
  BY <1>2, <1>3, <1>8 DEF Sockets, Silence
<1>10. HasRoom'
  BY <1>2, <1>4, <1>8 DEF Sockets, HasRoom, TypeOK, Busy
<1>11. Sockets'
  BY <1>2, <1>3, <1>4, <1>5, <1>6, <1>7, <1>9, <1>10, InsideKeeps DEF kernVars
<1> QED
  BY <1>4, <1>11 DEF IInv

\* pipeRead that gets something.
LEMMA ReadKeeps == ASSUME IInv, ReadSome PROVE IInv'
<1> USE Constants
<1> DEFINE n == Readable(ci)
<1>1. Turn /\ ci \in Busy /\ Spend(n)
  BY DEF ReadSome, CanRead, Event
<1>2. ci' \in 1 .. NbConn + 1 /\ TypeOK /\ Sockets /\ ci \in Conns /\ UNCHANGED <<todo, pollVars, pc>>
  BY <1>1, TurnFacts
<1>3. /\ inq[socket[ci]] \in Nat /\ inq[socket[ci]] <= Move /\ socket[ci] \in Fds
      /\ pos[ci] \in Nat /\ pos[ci] < MaxRead /\ timeout[ci] \in Nat
  BY <1>1, <1>2 DEF Sockets, HasDescriptor, InPieces, HasRoom, TypeOK, ReadSome, CanRead
<1>4. n \in Nat /\ n <= inq[socket[ci]] /\ n <= Move
  <2>1. MaxRead - pos[ci] \in Nat
    BY <1>3
  <2>2. n \in Nat /\ n <= inq[socket[ci]]
    BY <1>3, <2>1, MinPair DEF Readable
  <2> QED
    BY <1>3, <2>2, MoveBounds
<1>5. remainBand' \in Int /\ total' \in Nat /\ seconds' \in 0 .. Horizon /\ Spent' /\ Debt'
  BY <1>1, <1>4, SpendKeeps
<1>6. CASE EndOfFile(ci)
  <2>1. Sockets'
    BY <1>1, <1>2, <1>5, <1>6, EndKeeps
  <2> QED
    BY <1>5, <2>1 DEF IInv
<1>7. CASE /\ pos[ci] + n < MaxRead
           /\ timeout' = [timeout EXCEPT ![ci] = @ + n \div TimeoutIncr]
           /\ pos' = [pos EXCEPT ![ci] = @ + n]
           /\ silent' = [silent EXCEPT ![ci] = 0]
           /\ inq' = [inq EXCEPT ![socket[ci]] = @ - n]
           /\ UNCHANGED <<state, socket, kind, kern, eof, opening>>
  <2> HIDE DEF n
  <2>1. n \div TimeoutIncr \in Nat
    BY <1>4
  <2>2. timeout[ci] + n \div TimeoutIncr \in Nat /\ pos[ci] + n \in Nat /\ inq[socket[ci]] - n \in Nat
    BY <1>3, <1>4, <2>1
  <2>3. /\ timeout' \in [Conns -> Nat] /\ pos' \in [Conns -> Nat] /\ silent' \in [Conns -> Nat]
        /\ inq' \in [Fds -> Nat] /\ state' \in [Conns -> {"empty", "connecting", "write", "open"}]
    BY <1>2, <1>3, <1>7, <2>2 DEF TypeOK
  <2>4. Busy' = Busy
    BY <1>7 DEF Busy
  <2>5. InPieces'
    BY <1>2, <1>3, <1>4, <1>7, MoveBounds DEF Sockets, InPieces, TypeOK
  <2>6. \A c \in Conns : c # ci => timeout'[c] = timeout[c] /\ silent'[c] = silent[c] /\ pos'[c] = pos[c]
    BY <1>2, <1>7 DEF TypeOK
  <2>7. silent'[ci] = 0 /\ pos'[ci] < MaxRead
    BY <1>2, <1>7 DEF TypeOK
  <2>8. Busy \subseteq Conns /\ UNCHANGED <<state, socket>>
    BY <1>7 DEF Busy
  <2> HIDE DEF Busy
  <2>9. Silence' /\ HasRoom'
    BY <1>2, <2>4, <2>6, <2>7, <2>8 DEF Sockets, Silence, HasRoom
  <2>10. Sockets'
    BY <1>2, <1>5, <1>7, <2>3, <2>5, <2>9, InsideKeeps
  <2> QED
    BY <1>5, <2>10 DEF IInv
<1> QED
  BY <1>6, <1>7 DEF ReadSome

\* The kernel and the peers open and close no socket.
LEMMA KernelKeeps == ASSUME IInv, Kernel PROVE IInv'
<1> USE Constants, MoveBounds
<1>1. TypeOK /\ Sockets /\ UNCHANGED <<connVars, bandVars, pollVars, todo, pc, ci, opening>>
  BY DEF IInv, Sockets, SocketsOwned, Kernel
<1>2. /\ kern' \in [Fds -> {"closed", "syn", "refused", "up", "reset"}]
      /\ inq' \in [Fds -> Nat] /\ eof' \in [Fds -> BOOLEAN]
      /\ \A f \in Fds : (kern'[f] = "closed") = (kern[f] = "closed")
      /\ \A f \in Fds : inq'[f] <= Move
  <2>1. PICK f \in Fds : Arrive(f) \/ \E how \in {"up", "refused"} : Answer(f, how)
    BY DEF Kernel
  <2> USE <1>1 DEF TypeOK, Sockets, InPieces
  <2>2. CASE Arrive(f)
    <3>1. CASE \E n \in Chunks : inq' = [inq EXCEPT ![f] = n] /\ UNCHANGED <<kern, eof>>
      BY <3>1
    <3>2. CASE eof' = [eof EXCEPT ![f] = TRUE] /\ UNCHANGED <<kern, inq>>
      BY <3>2
    <3>3. CASE kern' = [kern EXCEPT ![f] = "reset"] /\ UNCHANGED <<inq, eof>>
      BY <2>2, <3>3 DEF Arrive
    <3> QED
      BY <2>2, <3>1, <3>2, <3>3 DEF Arrive
  <2>3. CASE \E how \in {"up", "refused"} : Answer(f, how)
    BY <2>3 DEF Answer
  <2> QED
    BY <2>1, <2>2, <2>3
<1>3. TypeOK' /\ Busy' = Busy
  BY <1>1, <1>2 DEF TypeOK, Busy, connVars, bandVars, pollVars
<1> HIDE DEF Busy
<1>4. Sockets'
  BY <1>1, <1>2, <1>3 DEF Sockets, SocketsOwned, HasDescriptor, Silence, InPieces, HasRoom,
                          connVars, pollVars
<1>5. Spent' /\ Debt'
  BY <1>1 DEF IInv, Spent, Debt, bandVars
<1> QED
  BY <1>4, <1>5 DEF IInv
-----------------------------------------------------------------------------
LEMMA Induction == Init /\ [][Next]_vars => []IInv
<1>1. IInv /\ [Next]_vars => IInv'
  <2> SUFFICES ASSUME IInv, [Next]_vars PROVE IInv'
    OBVIOUS
  <2>1. CASE Open
    BY <2>1, OpenKeeps
  <2>2. CASE RobotsDone \/ Second \/ SameSecond \/ WaitBandwidth \/ CopyEvents \/ StartCheck \/ Poll
    BY <2>2, LoopKeeps
  <2>3. CASE CheckTimeout
    BY <2>3, CheckTimeoutKeeps
  <2>4. CASE Refill
    BY <2>4, RefillKeeps
  <2>5. CASE NoEvent \/ WriteFails \/ ReadEnds
    BY <2>5, QuietTurnKeeps
  <2>6. CASE WriteLater \/ WriteSome
    BY <2>6, WriteKeeps
  <2>7. CASE ReadSome
    BY <2>7, ReadKeeps
  <2>8. CASE Kernel
    BY <2>8, KernelKeeps
  <2>9. CASE UNCHANGED vars
    BY <2>9 DEF vars, connVars, bandVars, pollVars, kernVars, IInv, Sockets, SocketsOwned, TypeOK,
                HasDescriptor, Silence, InPieces, HasRoom, Spent, Debt, Busy
  <2> QED
    BY <2>1, <2>2, <2>3, <2>4, <2>5, <2>6, <2>7, <2>8, <2>9 DEF Next, Main, CheckAll
<1> QED
  BY <1>1, InitIInv, PTL

\* Sockets and connections match, for any number of them: getFds gives out no
\* descriptor that a connection still has, endOfFile closes the one it had, and
\* the tables of poll have room for all (global::verifMax).
THEOREM SocketsMatch == Spec => []SocketsOwned
<1>1. IInv => SocketsOwned
  BY DEF IInv, Sockets
<1> QED
  BY <1>1, Induction, PTL DEF Spec

\* The bandwidth of checkAll is bounded for any limit and any pieces, although
\* remainBand is tested before and spent after (main.cxx, fetch_pipe.cxx).
THEOREM BandwidthKept == Spec => []BandBound
<1>1. IInv => BandBound
  <2> SUFFICES ASSUME IInv, LimitBand # 0, seconds < Horizon
               PROVE  total <= LimitBand * (seconds + 1) + NbConn * Move
    BY DEF BandBound
  <2>1. total \in Nat /\ remainBand \in Int /\ seconds \in Nat
    BY Constants DEF IInv, Sockets, SocketsOwned, TypeOK
  <2>2. LimitBand * (seconds + 1) \in Nat /\ NbConn * Move \in Nat
    BY <2>1, Constants, MoveBounds
  <2>3. total + remainBand <= LimitBand * (seconds + 1) /\ remainBand + NbConn * Move >= 0
    BY DEF IInv, Spent, Debt
  <2> QED
    BY <2>1, <2>2, <2>3
<1> QED
  BY <1>1, Induction, PTL DEF Spec

\* A peer that falls silent is dropped, for any time outs and whatever it sent
\* before (pipeRead extends the time, checkTimeout cuts it).
THEOREM SilentDropped == Spec => []SilenceBounded
<1>1. IInv => SilenceBounded
  <2> SUFFICES ASSUME IInv, NEW c \in Busy PROVE silent[c] <= TimeoutPage + 1
    BY DEF SilenceBounded
  <2>1. silent[c] \in Nat /\ timeout[c] \in Nat
    BY DEF IInv, Sockets, SocketsOwned, TypeOK, Busy
  <2>2. silent[c] = 0 \/ silent[c] + timeout[c] <= TimeoutPage + 1
    BY DEF IInv, Sockets, Silence
  <2> QED
    BY <2>1, <2>2, Constants
<1> QED
  BY <1>1, Induction, PTL DEF Spec
=============================================================================
