-------------------------- MODULE BracketPlay_proofs --------------------------
(***************************************************************************)
(* The bracket invariants for every field up to MAX_ENTRANTS.              *)
(*                                                                         *)
(* The first part is about the operators of Bracket: the shape of a        *)
(* bracket, which match feeds which, what a new draw seats, and that a     *)
(* draw is sound and a result keeps it so.  Sound brackets agree with      *)
(* their feeders, seat their winners and nobody twice in a round, and this *)
(* is inductive once the shape is known: a bracket has all positions of    *)
(* its rounds, so every side of a later match has a match that feeds it.   *)
(*                                                                         *)
(* The second part is about BracketPlay.  Seated says that round one keeps *)
(* the sides of the draw, from which the seats of the seeds follow and     *)
(* that a bracket can always be played on.                                 *)
(***************************************************************************)
EXTENDS Payout, FiniteSums, TLAPS

\* A seed order: two to 256 different entrants.
OrderOf(order, E) ==
  /\ NoEntrant \notin E
  /\ order \in Seq(E) /\ Len(order) \in 2..256
  /\ \A i, j \in 1..Len(order) : order[i] = order[j] => i = j

\* The powers of two double.
LEMMA Doubling ==
  ASSUME NEW j \in 0..7
  PROVE  /\ Pow2[j + 1] = 2 * Pow2[j]
         /\ Pow2[j] \in 1..128
BY DEF Pow2

LEMMA Rounds ==
  ASSUME NEW n \in 2..256
  PROVE  /\ RoundCount(n) \in 1..8
         /\ Pow2[RoundCount(n) - 1] < n
         /\ n <= Pow2[RoundCount(n)]
<1>1. \E k \in 1..8 : Pow2[k-1] < n /\ n <= Pow2[k]
  BY DEF Pow2
<1>2. QED
  BY <1>1 DEF RoundCount

LEMMA InPositions ==
  ASSUME NEW k \in 1..8, NEW p
  PROVE  p \in Positions(k) <=> /\ p \in Position
                                /\ p[1] \in 1..k
                                /\ p[2] \in 0 .. Pow2[k - p[1]] - 1
<1>1. \A r \in 1..k : Pow2[k - r] \in 1..128
  BY DEF Pow2
<1>2. QED
  BY <1>1 DEF Positions, Position

\* The two positions that feed a position of a later round.
LEMMA Feeders ==
  ASSUME NEW k \in 1..8, NEW q \in Positions(k), q[1] # 1
  PROVE  LET f == <<q[1] - 1, 2 * q[2]>>
             g == <<q[1] - 1, 2 * q[2] + 1>>
         IN  /\ f \in Positions(k) /\ NextMatch(f) = q /\ FeedsSideA(f)
             /\ g \in Positions(k) /\ NextMatch(g) = q /\ ~FeedsSideA(g)
<1>1. q \in Position /\ q[1] \in 2..k /\ q[2] \in 0 .. Pow2[k - q[1]] - 1
  BY InPositions
<1>2. PICK j \in 0..6 : k - q[1] = j /\ k - (q[1] - 1) = j + 1
  BY <1>1
<1>3. /\ 2 * q[2] \in 0 .. Pow2[k - (q[1] - 1)] - 1
      /\ 2 * q[2] + 1 \in 0 .. Pow2[k - (q[1] - 1)] - 1
      /\ 2 * q[2] \in 0..127 /\ 2 * q[2] + 1 \in 0..127
  <2>1. q[2] \in 0 .. Pow2[j] - 1
    BY <1>1, <1>2
  <2>2. Pow2[j + 1] = 2 * Pow2[j] /\ Pow2[j] \in 1..128 /\ Pow2[j + 1] \in 1..128
    BY Doubling
  <2>3. PICK w \in 1..128 : w = Pow2[j]
    BY <2>2
  <2>4. PICK s \in 0 .. w - 1 : s = q[2]
    BY <2>1, <2>3
  <2>5. /\ 2 * s \in 0 .. 2 * w - 1 /\ 2 * s + 1 \in 0 .. 2 * w - 1
        /\ 2 * w \in 2..128
    BY <2>2, <2>3
  <2>6. 2 * s \in 0..127 /\ 2 * s + 1 \in 0..127
    BY <2>5
  <2>7. Pow2[k - (q[1] - 1)] = 2 * w
    BY <1>2, <2>2, <2>3
  <2>8. QED
    BY <2>4, <2>5, <2>6, <2>7
<1>4. /\ <<q[1] - 1, 2 * q[2]>> \in Positions(k)
      /\ <<q[1] - 1, 2 * q[2] + 1>> \in Positions(k)
  BY <1>1, <1>3, InPositions DEF Position
<1>5. q = <<q[1], q[2]>> /\ q[1] \in Nat /\ q[2] \in Nat
  BY <1>1 DEF Position
<1>6. (2 * q[2]) \div 2 = q[2] /\ (2 * q[2] + 1) \div 2 = q[2]
      /\ (2 * q[2]) % 2 = 0 /\ (2 * q[2] + 1) % 2 = 1
  BY <1>5
<1>7. QED
  BY <1>4, <1>5, <1>6 DEF NextMatch, FeedsSideA

\* Two positions that feed the same side of the same match are the same.
LEMMA FeedsOnce ==
  ASSUME NEW p \in Position, NEW q \in Position,
         NextMatch(p) = NextMatch(q), FeedsSideA(p) <=> FeedsSideA(q)
  PROVE  p = q
<1>1. p = <<p[1], p[2]>> /\ q = <<q[1], q[2]>>
      /\ p[1] \in Nat /\ p[2] \in Nat /\ q[1] \in Nat /\ q[2] \in Nat
  BY DEF Position
<1>2. p[1] = q[1] /\ p[2] \div 2 = q[2] \div 2 /\ (p[2] % 2 = 0 <=> q[2] % 2 = 0)
  BY <1>1 DEF NextMatch, FeedsSideA
<1>3. p[2] = q[2]
  BY <1>1, <1>2
<1>4. QED
  BY <1>1, <1>2, <1>3

\* Round one of a new draw: seats are handed out once.  h is the number of its
\* matches, so fewer than h of them are byes.
LEMMA FirstRound ==
  ASSUME NEW E, NEW order, OrderOf(order, E),
         NEW h \in 1..128, h < Len(order), Len(order) <= 2 * h,
         NEW s \in 0 .. h - 1, NEW t \in 0 .. h - 1
  PROVE  LET byes == 2 * h - Len(order)
             m == FirstRoundMatch(order, byes, s)
             o == FirstRoundMatch(order, byes, t)
         IN  /\ m \in Match(E)
             /\ m.a \in E /\ m.a # m.b
             /\ m.winner \in {NoEntrant, m.a}
             /\ s # t => /\ m.a \notin {o.a, o.b}
                         /\ m.b \notin {o.a, o.b} \/ m.b = NoEntrant
<1> DEFINE n == Len(order)
           byes == 2 * h - n
           Seat(x) == IF x < byes THEN x + 1 ELSE 2 * x - byes + 1
           m == FirstRoundMatch(order, byes, s)
           o == FirstRoundMatch(order, byes, t)
<1>1. /\ n \in 2..256 /\ order \in [1..n -> E]
      /\ \A i, j \in 1..n : order[i] = order[j] => i = j
  BY DEF OrderOf
<1>2. byes \in 0 .. h - 1
  BY <1>1
<1>3. ASSUME NEW x \in 0 .. h - 1
      PROVE  /\ Seat(x) \in 1..n
             /\ x >= byes => Seat(x) + 1 \in 1..n
  BY <1>1, <1>2
<1>4. ASSUME NEW x \in 0 .. h - 1
      PROVE  LET f == FirstRoundMatch(order, byes, x)
             IN  /\ f.a = order[Seat(x)]
                 /\ x < byes => f.b = NoEntrant /\ f.winner = f.a
                 /\ x >= byes => f.b = order[Seat(x) + 1] /\ f.winner = NoEntrant
                 /\ f = [a |-> f.a, b |-> f.b, winner |-> f.winner]
  <2>1. CASE x < byes
    BY <2>1, <1>2 DEF FirstRoundMatch
  <2>2. CASE ~(x < byes)
    <3>1. 2 * x - byes + 2 = Seat(x) + 1
      BY <2>2, <1>2
    <3>2. QED
      BY <2>2, <3>1, <1>2 DEF FirstRoundMatch
  <2>3. QED
    BY <2>1, <2>2
<1>5. s # t => (/\ Seat(s) # Seat(t)
                /\ t >= byes => Seat(s) # Seat(t) + 1
                /\ s >= byes => Seat(s) + 1 # Seat(t)
                /\ s >= byes /\ t >= byes => Seat(s) + 1 # Seat(t) + 1)
  BY <1>2
<1>6. \A i, j \in 1..n : i # j => order[i] # order[j]
  BY <1>1
<1>7. \A i \in 1..n : order[i] \in E /\ order[i] # NoEntrant
  <2>  HIDE DEF n
  <2>1. QED
    BY <1>1 DEF OrderOf
<1>  DEFINE i == Seat(s)
            j == Seat(t)
<1>8. /\ i \in 1..n /\ j \in 1..n
      /\ s >= byes => i + 1 \in 1..n /\ i + 1 # i
      /\ t >= byes => j + 1 \in 1..n
      /\ s # t => /\ i # j
                  /\ t >= byes => i # j + 1
                  /\ s >= byes => i + 1 # j
                  /\ s >= byes /\ t >= byes => i + 1 # j + 1
  <2>1. n \in Int /\ byes \in Int /\ i \in 1..n /\ j \in 1..n
    BY <1>1, <1>2, <1>3
  <2>2. /\ s >= byes => i + 1 \in 1..n
        /\ t >= byes => j + 1 \in 1..n
    BY <1>3
  <2>  HIDE DEF n, byes, Seat, i, j
  <2>3. s # t => /\ i # j
                 /\ t >= byes => i # j + 1
                 /\ s >= byes => i + 1 # j
                 /\ s >= byes /\ t >= byes => i + 1 # j + 1
    BY <1>5 DEF i, j
  <2>4. i + 1 # i
    BY <2>1
  <2>5. QED
    BY <2>2, <2>3, <2>1, <2>4
<1>9. /\ m.a = order[i] /\ o.a = order[j]
      /\ \/ s < byes /\ m.b = NoEntrant /\ m.winner = m.a
         \/ s >= byes /\ m.b = order[i + 1] /\ m.winner = NoEntrant
      /\ \/ t < byes /\ o.b = NoEntrant
         \/ t >= byes /\ o.b = order[j + 1]
      /\ m = [a |-> m.a, b |-> m.b, winner |-> m.winner]
  <2>  HIDE DEF byes, Seat
  <2>1. s \in 0 .. h - 1 /\ t \in 0 .. h - 1 /\ (s < byes \/ s >= byes) /\ (t < byes \/ t >= byes)
    BY <1>2
  <2>2. /\ m.a = order[i]
        /\ s < byes => m.b = NoEntrant /\ m.winner = m.a
        /\ s >= byes => m.b = order[i + 1] /\ m.winner = NoEntrant
        /\ m = [a |-> m.a, b |-> m.b, winner |-> m.winner]
    BY <1>4, <2>1
  <2>3. /\ o.a = order[j]
        /\ t < byes => o.b = NoEntrant
        /\ t >= byes => o.b = order[j + 1]
    BY <1>4, <2>1
  <2>4. QED
    BY <2>1, <2>2, <2>3
<1>10. ASSUME NEW x, NEW y, x = m, y = o
       PROVE  /\ x \in Match(E)
              /\ x.a \in E /\ x.a # x.b
              /\ x.winner \in {NoEntrant, x.a}
              /\ s # t => /\ x.a \notin {y.a, y.b}
                          /\ x.b \notin {y.a, y.b} \/ x.b = NoEntrant
  <2>  HIDE DEF n, byes, Seat, i, j, m, o
  <2>1. x \in Match(E) /\ x.a \in E /\ x.winner \in {NoEntrant, x.a}
    BY <1>7, <1>8, <1>9, <1>10 DEF Match
  <2>2. x.a # x.b
    BY <1>6, <1>7, <1>8, <1>9, <1>10
  <2>3. s # t => x.a # y.a /\ x.a # y.b
    BY <1>6, <1>7, <1>8, <1>9, <1>10
  <2>4. s # t => (x.b # y.a /\ (x.b # y.b \/ x.b = NoEntrant))
    BY <1>6, <1>7, <1>8, <1>9, <1>10
  <2>5. QED
    BY <2>1, <2>2, <2>3, <2>4
<1>11. QED
  BY <1>10

\* Half the places of a draw of n entrants: the matches of round one.
LEMMA HalfOf ==
  ASSUME NEW n \in 2..256
  PROVE  LET k == RoundCount(n)
             h == Pow2[k - 1]
         IN  /\ k \in 1..8 /\ h \in 1..128 /\ h < n /\ n <= 2 * h
             /\ Pow2[k] - n = 2 * h - n
<1> DEFINE k == RoundCount(n)
           h == Pow2[k - 1]
<1>1. k \in 1..8 /\ Pow2[k - 1] < n /\ n <= Pow2[k]
  BY Rounds
<1>  HIDE DEF k
<1>2. PICK j \in 0..7 : k = j + 1
  BY <1>1
<1>3. Pow2[k] = 2 * h /\ h \in 1..128
  BY <1>2, Doubling
<1>  QED
  BY <1>1, <1>3 DEF k

\* A set of rounds has an earliest one.
LEMMA EarliestRound ==
  ASSUME NEW R, R \subseteq 1..8, R # {}
  PROVE  \E r \in R : \A t \in R : ~(t < r)
<1>1. \A r \in R : r \in 1..8
  OBVIOUS
<1>2. CASE \E r \in R : r = 1
  BY <1>1, <1>2
<1>3. CASE 1 \notin R /\ 2 \in R
  BY <1>1, <1>3
<1>4. CASE R \cap 1..2 = {} /\ 3 \in R
  BY <1>1, <1>4
<1>5. CASE R \cap 1..3 = {} /\ 4 \in R
  BY <1>1, <1>5
<1>6. CASE R \cap 1..4 = {} /\ 5 \in R
  BY <1>1, <1>6
<1>7. CASE R \cap 1..5 = {} /\ 6 \in R
  BY <1>1, <1>7
<1>8. CASE R \cap 1..6 = {} /\ 7 \in R
  BY <1>1, <1>8
<1>9. CASE R \cap 1..7 = {}
  <2>1. \A t \in R : t = 8
    BY <1>1, <1>9
  <2>2. \A t \in R : ~(t < 8)
    BY <2>1
  <2>3. 8 \in R
    BY <2>1
  <2>4. QED
    BY <2>2, <2>3
<1>10. QED
  BY <1>2, <1>3, <1>4, <1>5, <1>6, <1>7, <1>8, <1>9

\* A whole bracket has a final.
LEMMA FinalExists ==
  ASSUME NEW k \in 1..8, NEW B, DOMAIN B = Positions(k)
  PROVE  FinalOf(B) \in DOMAIN B
<1> DEFINE p == <<k, 0>>
<1>1. p \in Positions(k)
  <2>1. Pow2[k - k] = 1
    BY DEF Pow2
  <2>2. p \in Position /\ p[1] = k /\ p[2] = 0
    BY DEF Position
  <2>3. QED
    BY <2>1, <2>2, InPositions
<1>2. NextMatch(p) \notin Positions(k)
  BY InPositions DEF NextMatch
<1>3. QED
  BY <1>1, <1>2 DEF FinalOf

\* The write of a result keeps the matches of the bracket and their type.
LEMMA FeedType ==
  ASSUME NEW E, NEW D, D \subseteq Position, NEW B \in [D -> Match(E)],
         NEW p \in D, NEW e \in E \cup {NoEntrant}
  PROVE  Feed([B EXCEPT ![p].winner = e], p, e) \in [D -> Match(E)]
<1> DEFINE C == [B EXCEPT ![p].winner = e]
<1>1. ASSUME NEW q \in D
      PROVE  C[q] \in Match(E)
  BY DEF Match
<1>2. C \in [D -> Match(E)]
  BY <1>1
<1>  HIDE DEF C
<1>3. ASSUME NEW q \in D
      PROVE  /\ [C[q] EXCEPT !.a = e] \in Match(E)
             /\ [C[q] EXCEPT !.b = e] \in Match(E)
  BY <1>2 DEF Match
<1>4. Feed(C, p, e) \in [D -> Match(E)]
  BY <1>2, <1>3 DEF Feed
<1>5. QED
  BY <1>4 DEF C
--------------------------------------------------------------------------------
(* What makes a bracket sound.                                             *)

\* A side is the winner of the match that feeds it.
SidesAgree(B) ==
  \A p \in DOMAIN B : NextMatch(p) \in DOMAIN B =>
    (IF FeedsSideA(p) THEN B[NextMatch(p)].a ELSE B[NextMatch(p)].b) = B[p].winner

\* A winner sits in its match, which has an empty side only in round one.
WinnersIn(B) ==
  \A p \in DOMAIN B : B[p].winner # NoEntrant =>
    B[p].winner \in {B[p].a, B[p].b} /\ (IsReady(B[p]) \/ p[1] = 1)

\* Nobody meets themselves or sits in two matches of a round.
OnceEach(B) ==
  \A p, q \in DOMAIN B :
    /\ B[p].a = B[p].b => B[p].a = NoEntrant
    /\ p[1] = q[1] /\ p # q =>
         ({B[p].a, B[p].b} \ {NoEntrant}) \cap ({B[q].a, B[q].b} \ {NoEntrant}) = {}

\* A bracket of entrants of E with all the positions of its rounds.
SoundBracket(B, E) ==
  /\ \E k \in 1..8 : DOMAIN B = Positions(k)
  /\ B \in [DOMAIN B -> Match(E)]
  /\ SidesAgree(B) /\ WinnersIn(B) /\ OnceEach(B)

LEMMA SoundPositions ==
  ASSUME NEW E, NEW B, SoundBracket(B, E)
  PROVE  DOMAIN B \subseteq Position
BY InPositions DEF SoundBracket

\* A new draw is sound whatever the seed order: the byes it feeds into round two
\* agree with round one, and round two repeats nobody.
LEMMA GenerateSound ==
  ASSUME NEW E, NEW order, OrderOf(order, E)
  PROVE  SoundBracket(Generate(order), E)
<1> DEFINE n == Len(order)
           k == RoundCount(n)
           h == Pow2[k - 1]
           byes == 2 * h - n
           F(s) == FirstRoundMatch(order, byes, s)
           B == Generate(order)
<1>1. n \in 2..256
  BY DEF OrderOf
<1>2. /\ k \in 1..8 /\ h \in 1..128 /\ h < n /\ n <= 2 * h
      /\ Pow2[k] - n = byes
  <2>  HIDE DEF n
  <2>1. QED
    BY <1>1, HalfOf
<1>3. ASSUME NEW s \in 0 .. h - 1, NEW t \in 0 .. h - 1
      PROVE  /\ F(s) \in Match(E)
             /\ F(s).a \in E /\ F(s).a # F(s).b
             /\ F(s).winner \in {NoEntrant, F(s).a}
             /\ s # t => /\ F(s).a \notin {F(t).a, F(t).b}
                         /\ F(s).b \notin {F(t).a, F(t).b} \/ F(s).b = NoEntrant
  <2>  HIDE DEF k, h
  <2>1. QED
    BY <1>1, <1>2, FirstRound
<1>4. B = [p \in Positions(k) |->
             CASE p[1] = 1 -> F(p[2])
               [] p[1] = 2 -> SecondRoundMatch(order, byes, p[2])
               [] OTHER    -> EmptyMatch]
  BY <1>2 DEF Generate
<1>  HIDE DEF n, k, h, byes, F, B
<1>5. DOMAIN B = Positions(k)
  BY <1>4
<1>6. ASSUME NEW p \in Positions(k)
      PROVE  /\ p \in Position /\ p = <<p[1], p[2]>>
             /\ p[1] = 1 => p[2] \in 0 .. h - 1 /\ B[p] = F(p[2])
             /\ p[1] = 2 => /\ 2 * p[2] \in 0 .. h - 1
                            /\ 2 * p[2] + 1 \in 0 .. h - 1
                            /\ B[p].a = F(2 * p[2]).winner
                            /\ B[p].b = F(2 * p[2] + 1).winner
                            /\ B[p].winner = NoEntrant
             /\ p[1] \notin {1, 2} => B[p] = EmptyMatch
             /\ B[p] \in Match(E)
  <2>1. p \in Position /\ p[2] \in 0 .. Pow2[k - p[1]] - 1 /\ p = <<p[1], p[2]>>
    BY <1>2, InPositions DEF Position
  <2>2. p[1] = 1 => p[2] \in 0 .. h - 1 /\ B[p] = F(p[2])
    BY <2>1, <1>4 DEF h
  <2>3. ASSUME p[1] = 2
        PROVE  2 * p[2] \in 0 .. h - 1 /\ 2 * p[2] + 1 \in 0 .. h - 1
    <3>1. /\ <<p[1] - 1, 2 * p[2]>> \in Positions(k)
          /\ <<p[1] - 1, 2 * p[2] + 1>> \in Positions(k)
      BY <2>3, <1>2, Feeders
    <3>2. \A x : <<1, x>> \in Positions(k) => x \in 0 .. h - 1
      BY <1>2, InPositions DEF h
    <3>3. <<1, 2 * p[2]>> \in Positions(k) /\ <<1, 2 * p[2] + 1>> \in Positions(k)
      BY <3>1, <2>3
    <3>4. QED
      BY <3>2, <3>3
  <2>4. p[1] = 2 => B[p] = SecondRoundMatch(order, byes, p[2])
    BY <1>4
  <2>5. p[1] = 2 => /\ B[p].a = F(2 * p[2]).winner
                    /\ B[p].b = F(2 * p[2] + 1).winner
                    /\ B[p].winner = NoEntrant
    BY <2>4 DEF SecondRoundMatch, F
  <2>6. p[1] \notin {1, 2} => B[p] = EmptyMatch
    BY <1>4
  <2>7. B[p] \in Match(E)
    <3>1. CASE p[1] = 1
      BY <3>1, <2>2, <1>3
    <3>2. CASE p[1] = 2
      <4>1. /\ F(2 * p[2]).winner \in E \cup {NoEntrant}
            /\ F(2 * p[2] + 1).winner \in E \cup {NoEntrant}
        BY <3>2, <2>3, <1>3
      <4>2. QED
        BY <4>1, <3>2, <2>4 DEF SecondRoundMatch, F, Match
    <3>3. CASE p[1] \notin {1, 2}
      BY <3>3, <2>6 DEF EmptyMatch, Match
    <3>4. QED
      BY <3>1, <3>2, <3>3
  <2>8. QED
    BY <2>1, <2>2, <2>3, <2>5, <2>6, <2>7
<1>7. SidesAgree(B)
  <2>  SUFFICES ASSUME NEW p \in Positions(k), NextMatch(p) \in Positions(k)
                PROVE  (IF FeedsSideA(p) THEN B[NextMatch(p)].a ELSE B[NextMatch(p)].b)
                         = B[p].winner
    BY <1>5 DEF SidesAgree
  <2>  DEFINE q == NextMatch(p)
  <2>1. /\ p[1] \in Nat /\ p[2] \in Nat /\ p[1] >= 1
        /\ q[1] = p[1] + 1 /\ q[2] = p[2] \div 2
    BY <1>6 DEF NextMatch, Position
  <2>2. CASE p[1] = 1
    <3>1. B[p].winner = F(p[2]).winner
      BY <2>2, <1>6
    <3>2. B[q].a = F(2 * q[2]).winner /\ B[q].b = F(2 * q[2] + 1).winner
      BY <2>1, <2>2, <1>6
    <3>3. IF FeedsSideA(p) THEN 2 * q[2] = p[2] ELSE 2 * q[2] + 1 = p[2]
      BY <2>1 DEF FeedsSideA
    <3>4. QED
      BY <3>1, <3>2, <3>3
  <2>3. CASE p[1] # 1
    <3>1. B[q] = EmptyMatch
      BY <2>1, <2>3, <1>6
    <3>2. B[p].winner = NoEntrant
      BY <2>3, <1>6 DEF EmptyMatch
    <3>3. QED
      BY <3>1, <3>2 DEF EmptyMatch
  <2>4. QED
    BY <2>2, <2>3
<1>8. WinnersIn(B)
  <2>  SUFFICES ASSUME NEW p \in Positions(k), B[p].winner # NoEntrant
                PROVE  B[p].winner \in {B[p].a, B[p].b} /\ p[1] = 1
    BY <1>5 DEF WinnersIn
  <2>1. p[1] = 1
    BY <1>6 DEF EmptyMatch
  <2>2. QED
    BY <2>1, <1>3, <1>6
<1>9. OnceEach(B)
  <2>1. ASSUME NEW p \in Positions(k), B[p].a = B[p].b
        PROVE  B[p].a = NoEntrant
    <3>1. CASE p[1] = 1
      BY <3>1, <2>1, <1>3, <1>6
    <3>2. CASE p[1] = 2
      <4>1. 2 * p[2] # 2 * p[2] + 1
        BY <1>6 DEF Position
      <4>2. QED
        BY <4>1, <3>2, <2>1, <1>3, <1>6
    <3>3. CASE p[1] \notin {1, 2}
      BY <3>3, <1>6 DEF EmptyMatch
    <3>4. QED
      BY <3>1, <3>2, <3>3
  <2>2. ASSUME NEW p \in Positions(k), NEW q \in Positions(k), p[1] = q[1], p # q,
               NEW e, e \in {B[p].a, B[p].b}, e \in {B[q].a, B[q].b}
        PROVE  e = NoEntrant
    <3>1. p[2] # q[2] /\ p[2] \in Nat /\ q[2] \in Nat
      BY <2>2, <1>6 DEF Position
    <3>2. CASE p[1] = 1
      BY <3>1, <3>2, <2>2, <1>3, <1>6
    <3>3. CASE p[1] = 2
      <4>1. PICK x \in {2 * p[2], 2 * p[2] + 1} : x \in 0 .. h - 1 /\ e = F(x).winner
        BY <3>3, <2>2, <1>6
      <4>2. PICK y \in {2 * q[2], 2 * q[2] + 1} : y \in 0 .. h - 1 /\ e = F(y).winner
        BY <3>3, <2>2, <1>6
      <4>3. x # y
        BY <3>1
      <4>4. /\ F(x).winner \in {NoEntrant, F(x).a}
            /\ F(y).winner \in {NoEntrant, F(y).a}
            /\ F(x).a # F(y).a
        BY <4>1, <4>2, <4>3, <1>3
      <4>5. QED
        BY <4>1, <4>2, <4>4, <1>3
    <3>4. CASE p[1] \notin {1, 2}
      BY <3>4, <2>2, <1>6 DEF EmptyMatch
    <3>5. QED
      BY <3>2, <3>3, <3>4
  <2>3. QED
    BY <2>1, <2>2, <1>5 DEF OnceEach
<1>10. B \in [DOMAIN B -> Match(E)]
  BY <1>4, <1>5, <1>6
<1>11. QED
  BY <1>2, <1>5, <1>7, <1>8, <1>9, <1>10 DEF SoundBracket, B

\* Every side of a later match is the winner of a match that stands.
LEMMA SidesFed ==
  ASSUME NEW E, NEW B, SoundBracket(B, E), NEW q \in DOMAIN B, q[1] # 1
  PROVE  \E f, g \in DOMAIN B :
           /\ NextMatch(f) = q /\ FeedsSideA(f) /\ B[f].winner = B[q].a
           /\ NextMatch(g) = q /\ ~FeedsSideA(g) /\ B[g].winner = B[q].b
<1>1. PICK k \in 1..8 : DOMAIN B = Positions(k)
  BY DEF SoundBracket
<1> DEFINE f == <<q[1] - 1, 2 * q[2]>>
           g == <<q[1] - 1, 2 * q[2] + 1>>
<1>2. q \in Positions(k)
  BY <1>1
<1>3. /\ f \in Positions(k) /\ NextMatch(f) = q /\ FeedsSideA(f)
      /\ g \in Positions(k) /\ NextMatch(g) = q /\ ~FeedsSideA(g)
  BY <1>2, Feeders
<1>  HIDE DEF f, g
<1>4. f \in DOMAIN B /\ g \in DOMAIN B
  BY <1>1, <1>3
<1>5. B[f].winner = B[q].a /\ B[g].winner = B[q].b
  BY <1>3, <1>4 DEF SoundBracket, SidesAgree
<1>6. QED
  BY <1>3, <1>4, <1>5
\* A result, entered (e is the winner) or removed (e is NoEntrant), keeps a sound
\* bracket sound: the next match is undecided, so nothing built on the old result.
LEMMA ResultSound ==
  ASSUME NEW E, NEW B, SoundBracket(B, E), NEW p \in DOMAIN B, IsReady(B[p]),
         NextUndecided(B, p), NEW e \in {B[p].a, B[p].b, NoEntrant}
  PROVE  SoundBracket(Feed([B EXCEPT ![p].winner = e], p, e), E)
<1> DEFINE n == NextMatch(p)
           D == DOMAIN B
           C == Feed([B EXCEPT ![p].winner = e], p, e)
<1>1. PICK k \in 1..8 : D = Positions(k)
  BY DEF SoundBracket
<1>2. /\ D \subseteq Position /\ p \in Position
      /\ \A q \in D : B[q] \in Match(E) /\ q \in Position
      /\ n # p /\ n[1] = p[1] + 1 /\ n[1] # 1
      /\ p[1] \in Nat /\ p[1] >= 1
  BY SoundPositions DEF SoundBracket, NextMatch, Position
<1>3. e \in E \cup {NoEntrant}
  BY <1>2 DEF Match
<1>4. DOMAIN C = D
  BY DEF Feed
<1>5. /\ C[p] = [B[p] EXCEPT !.winner = e]
      /\ n \in D => C[n] = IF FeedsSideA(p) THEN [B[n] EXCEPT !.a = e]
                                            ELSE [B[n] EXCEPT !.b = e]
      /\ \A q \in D : q # p /\ q # n => C[q] = B[q]
  <2>1. \A q \in D : [B EXCEPT ![p].winner = e][q] =
                      IF q = p THEN [B[p] EXCEPT !.winner = e] ELSE B[q]
    BY DEF SoundBracket
  <2>2. QED
    BY <1>2, <2>1 DEF Feed
<1>6. /\ C[p].a = B[p].a /\ C[p].b = B[p].b /\ C[p].winner = e
      /\ n \in D => /\ C[n].winner = NoEntrant /\ B[n].winner = NoEntrant
                    /\ FeedsSideA(p) => C[n].a = e /\ C[n].b = B[n].b
                    /\ ~FeedsSideA(p) => C[n].b = e /\ C[n].a = B[n].a
  BY <1>2, <1>5 DEF NextUndecided, Match
<1>7. ASSUME NEW q \in D
      PROVE  C[q] \in Match(E)
  <2>1. CASE q = p
    BY <2>1, <1>2, <1>3, <1>5 DEF Match
  <2>2. CASE q = n /\ FeedsSideA(p)
    BY <2>2, <1>2, <1>3, <1>5 DEF Match
  <2>3. CASE q = n /\ ~FeedsSideA(p)
    BY <2>3, <1>2, <1>3, <1>5 DEF Match
  <2>4. CASE q # p /\ q # n
    BY <2>4, <1>2, <1>5
  <2>5. QED
    BY <2>1, <2>2, <2>3, <2>4
<1>  HIDE DEF C, D
<1>8. C \in [D -> Match(E)]
  <2>1. C = [q \in D |-> C[q]]
    BY DEF Feed, C, D
  <2>2. QED
    BY <1>7, <2>1
<1>9. SidesAgree(C)
  <2>  SUFFICES ASSUME NEW q \in D, NextMatch(q) \in D
                PROVE  (IF FeedsSideA(q) THEN C[NextMatch(q)].a ELSE C[NextMatch(q)].b)
                         = C[q].winner
    BY <1>4 DEF SidesAgree
  <2>  DEFINE x == NextMatch(q)
  <2>1. (IF FeedsSideA(q) THEN B[x].a ELSE B[x].b) = B[q].winner
    BY DEF SoundBracket, SidesAgree, D
  <2>2. CASE q = p
    BY <2>2, <1>6 DEF n
  <2>3. CASE q # p /\ x = n
    <3>1. FeedsSideA(q) # FeedsSideA(p)
      BY <2>3, <1>2, FeedsOnce DEF n, FeedsSideA
    <3>2. q # n
      BY <2>3, <1>2 DEF NextMatch, Position
    <3>3. C[q] = B[q]
      BY <3>2, <2>3, <1>5
    <3>4. CASE FeedsSideA(q)
      <4>1. ~FeedsSideA(p) /\ C[x].a = B[x].a
        BY <3>1, <3>4, <2>3, <1>6 DEF FeedsSideA
      <4>2. QED
        BY <4>1, <3>3, <3>4, <2>1
    <3>5. CASE ~FeedsSideA(q)
      <4>1. FeedsSideA(p) /\ C[x].b = B[x].b
        BY <3>1, <3>5, <2>3, <1>6 DEF FeedsSideA
      <4>2. QED
        BY <4>1, <3>3, <3>5, <2>1
    <3>6. QED
      BY <3>4, <3>5
  <2>4. CASE q # p /\ x # n
    <3>1. C[q].winner = B[q].winner
      BY <2>4, <1>5, <1>6
    <3>2. C[x].a = B[x].a /\ C[x].b = B[x].b
      BY <2>4, <1>5, <1>6
    <3>3. QED
      BY <2>1, <3>1, <3>2
  <2>5. QED
    BY <2>2, <2>3, <2>4
<1>10. WinnersIn(C)
  <2>  SUFFICES ASSUME NEW q \in D, C[q].winner # NoEntrant
                PROVE  /\ C[q].winner \in {C[q].a, C[q].b}
                       /\ IsReady(C[q]) \/ q[1] = 1
    BY <1>4 DEF WinnersIn
  <2>1. CASE q = p
    BY <2>1, <1>6 DEF IsReady
  <2>2. CASE q = n
    BY <2>2, <1>6
  <2>3. CASE q # p /\ q # n
    BY <2>3, <1>5 DEF SoundBracket, WinnersIn, D
  <2>4. QED
    BY <2>1, <2>2, <2>3
<1>11. OnceEach(C)
  <2>1. ASSUME NEW q \in D, q[1] = n[1], q # n, n \in D, e # NoEntrant
        PROVE  e \notin {B[q].a, B[q].b}
    <3>1. q[1] # 1
      BY <2>1, <1>2
    <3>2. ASSUME NEW f \in D, NextMatch(f) = q, B[f].winner = e
          PROVE  FALSE
      <4>1. f # p /\ f[1] = p[1]
        BY <3>2, <2>1, <1>2 DEF NextMatch, Position
      <4>2. e \in {B[f].a, B[f].b}
        BY <3>2, <2>1 DEF SoundBracket, WinnersIn, D
      <4>3. e \in {B[p].a, B[p].b}
        BY <2>1
      <4>4. QED
        BY <4>1, <4>2, <4>3, <2>1 DEF SoundBracket, OnceEach, D
    <3>3. PICK f \in D : NextMatch(f) = q /\ B[f].winner = B[q].a
      BY <3>1, SidesFed DEF D
    <3>4. PICK g \in D : NextMatch(g) = q /\ B[g].winner = B[q].b
      BY <3>1, SidesFed DEF D
    <3>5. QED
      BY <3>2, <3>3, <3>4
  <2>2. ASSUME n \in D, e # NoEntrant
        PROVE  e # (IF FeedsSideA(p) THEN B[n].b ELSE B[n].a)
    <3>1. PICK g \in D : /\ NextMatch(g) = n /\ g # p /\ g[1] = p[1]
                         /\ B[g].winner =
                              IF FeedsSideA(p) THEN B[n].b ELSE B[n].a
      <4>1. PICK f \in D, g \in D :
              /\ NextMatch(f) = n /\ FeedsSideA(f) /\ B[f].winner = B[n].a
              /\ NextMatch(g) = n /\ ~FeedsSideA(g) /\ B[g].winner = B[n].b
        BY <1>2, <2>2, SidesFed DEF D
      <4>2. f[1] = p[1] /\ g[1] = p[1]
        BY <4>1, <1>2 DEF NextMatch, Position
      <4>3. QED
        BY <4>1, <4>2
    <3>2. B[g].winner = NoEntrant \/ B[g].winner \in {B[g].a, B[g].b}
      BY DEF SoundBracket, WinnersIn, D
    <3>3. e \in {B[p].a, B[p].b}
      BY <2>2
    <3>4. \A x : x \in {B[g].a, B[g].b} /\ x \in {B[p].a, B[p].b} => x = NoEntrant
      BY <3>1 DEF SoundBracket, OnceEach, D
    <3>5. QED
      BY <3>1, <3>2, <3>3, <3>4, <2>2
  <2>3. ASSUME NEW q \in D, C[q].a = C[q].b
        PROVE  C[q].a = NoEntrant
    <3>1. CASE q = n
      BY <3>1, <2>2, <2>3, <1>6
    <3>2. CASE q # n
      <4>1. C[q].a = B[q].a /\ C[q].b = B[q].b
        BY <3>2, <1>5, <1>6
      <4>2. QED
        BY <4>1, <2>3 DEF SoundBracket, OnceEach, D
    <3>3. QED
      BY <3>1, <3>2
  <2>4. ASSUME NEW q \in D, NEW x \in D, q[1] = x[1], q # x,
               NEW y, y \in {C[q].a, C[q].b}, y \in {C[x].a, C[x].b}, y # NoEntrant
        PROVE  FALSE
    <3>1. ASSUME NEW z \in D, z # n
          PROVE  C[z].a = B[z].a /\ C[z].b = B[z].b
      BY <3>1, <1>5, <1>6
    <3>2. n \in D => \A z \in {C[n].a, C[n].b} : z = e \/ z \in {B[n].a, B[n].b}
      BY <1>6
    <3>3. ASSUME NEW u \in D, NEW v \in D, u[1] = v[1], u # v, y \in {B[u].a, B[u].b}
          PROVE  y \notin {B[v].a, B[v].b}
      <4>1. ({B[u].a, B[u].b} \ {NoEntrant}) \cap ({B[v].a, B[v].b} \ {NoEntrant}) = {}
        BY <3>3 DEF SoundBracket, OnceEach, D
      <4>2. QED
        BY <2>4, <3>3, <4>1
    <3>4. CASE q = n
      BY <3>4, <3>1, <3>2, <3>3, <2>1, <2>4
    <3>5. CASE x = n
      BY <3>5, <3>1, <3>2, <3>3, <2>1, <2>4
    <3>6. CASE q # n /\ x # n
      BY <3>6, <3>1, <3>3, <2>4
    <3>7. QED
      BY <3>4, <3>5, <3>6
  <2>5. \A q, x \in D : q[1] = x[1] /\ q # x =>
          ({C[q].a, C[q].b} \ {NoEntrant}) \cap ({C[x].a, C[x].b} \ {NoEntrant}) = {}
    BY <2>4
  <2>6. QED
    BY <2>3, <2>5, <1>4, Zenon DEF OnceEach
<1>12. QED
  BY <1>1, <1>4, <1>8, <1>9, <1>10, <1>11 DEF SoundBracket, C, D

\* Whoever lost a match is out: nobody sits in two decided matches of a sound bracket
\* without having won one of them.
LEMMA LosesOnce ==
  ASSUME NEW E, NEW B, SoundBracket(B, E), NEW p \in DOMAIN B, NEW q \in DOMAIN B,
         NEW x, x # NoEntrant, x \in {B[p].a, B[p].b}, x \in {B[q].a, B[q].b},
         B[p].winner # x, B[q].winner # x
  PROVE  p = q
<1>1. \A u \in DOMAIN B : u[1] \in 1..8 /\ u[2] \in 0..127
  BY SoundPositions DEF Position
<1>2. ASSUME NEW u \in DOMAIN B, NEW v \in DOMAIN B, u[1] = v[1],
             x \in {B[u].a, B[u].b}, x \in {B[v].a, B[v].b}
      PROVE  u = v
  BY <1>2 DEF SoundBracket, OnceEach
<1>3. ASSUME NEW u \in DOMAIN B, u[1] # 1, x \in {B[u].a, B[u].b}
      PROVE  \E f \in DOMAIN B : f[1] = u[1] - 1 /\ B[f].winner = x
  <2>1. PICK f \in DOMAIN B : NextMatch(f) = u /\ B[f].winner = x
    BY <1>3, SidesFed
  <2>2. u[1] = f[1] + 1
    BY <2>1 DEF NextMatch
  <2>3. QED
    BY <2>1, <2>2, <1>1
<1>4. ASSUME NEW u \in DOMAIN B, NEW v \in DOMAIN B, u[1] < v[1],
             x \in {B[u].a, B[u].b}, x \in {B[v].a, B[v].b}, B[u].winner # x
      PROVE  FALSE
  <2>  DEFINE Won == {f \in DOMAIN B : u[1] <= f[1] /\ B[f].winner = x}
              R   == {f[1] : f \in Won}
  <2>1. R # {}
    <3>1. v[1] # 1
      BY <1>1, <1>4
    <3>2. PICK f \in DOMAIN B : f[1] = v[1] - 1 /\ B[f].winner = x
      BY <3>1, <1>3, <1>4
    <3>3. f \in Won
      BY <3>2, <1>1, <1>4
    <3>4. QED
      BY <3>3
  <2>2. R \subseteq 1..8
    BY <1>1
  <2>3. PICK r \in R : \A t \in R : ~(t < r)
    <3>  HIDE DEF R
    <3>1. QED
      BY <2>1, <2>2, EarliestRound
  <2>4. PICK f \in Won : f[1] = r
    BY <2>3
  <2>5. f \in DOMAIN B /\ u[1] <= f[1] /\ B[f].winner = x /\ x \in {B[f].a, B[f].b}
    BY <2>4 DEF SoundBracket, WinnersIn
  <2>6. f[1] # u[1]
    BY <2>5, <1>2, <1>4
  <2>7. f[1] # 1 /\ u[1] <= f[1] - 1 /\ f[1] - 1 < r
    BY <2>4, <2>5, <2>6, <1>1
  <2>8. PICK g \in DOMAIN B : g[1] = f[1] - 1 /\ B[g].winner = x
    BY <2>5, <2>7, <1>3
  <2>9. g \in Won
    BY <2>7, <2>8
  <2>10. g[1] \in R /\ g[1] < r
    BY <2>7, <2>8, <2>9
  <2>11. QED
    BY <2>3, <2>10
<1>5. CASE p[1] = q[1]
  BY <1>5, <1>2
<1>6. CASE p[1] < q[1]
  BY <1>6, <1>4
<1>7. CASE q[1] < p[1]
  BY <1>7, <1>4
<1>8. QED
  BY <1>1, <1>5, <1>6, <1>7

--------------------------------------------------------------------------------
(* The bracket of BracketPlay.                                             *)

\* A bracket is absent or has every position of a whole bracket.
Shape == matches = NoMatches \/ \E k \in 1..8 : DOMAIN matches = Positions(k)

Sound == TypeOK /\ Shape /\ FeedsAgree /\ WinnersSit /\ OncePerRound
LEMMA AnOrder ==
  ASSUME NEW order \in Orders
  PROVE  OrderOf(order, Entrant)
<1>1. order \in Seq(Entrant) /\ Len(order) \in 2..MaxEntrants
  BY OrdersAssumption, Zenon
<1>2. \A n \in 2..MaxEntrants : n \in 2..256
  BY MaxEntrantsAssumption
<1>3. \A i, j \in 1..Len(order) : order[i] = order[j] => i = j
  BY OrdersAssumption, Zenon
<1>4. QED
  BY <1>1, <1>2, <1>3, EntrantAssumption, Zenon DEF OrderOf
\* The bracket that stands is sound, and a sound bracket is what Sound asks for.
LEMMA SoundIs ==
  /\ Sound /\ matches # NoMatches => SoundBracket(matches, Entrant)
  /\ SoundBracket(matches, Entrant) /\ seeds \in {<<>>} \cup Orders => Sound
<1>1. /\ FeedsAgree <=> SidesAgree(matches)
      /\ WinnersSit <=> WinnersIn(matches)
      /\ OncePerRound <=> OnceEach(matches)
  BY Zenon DEF FeedsAgree, SidesAgree, WinnersSit, WinnersIn, OncePerRound, OnceEach
<1>2. QED
  BY <1>1, SoundPositions DEF Sound, TypeOK, Shape, SoundBracket

LEMMA SoundNext == (SoundBracket(matches, Entrant) /\ seeds \in {<<>>} \cup Orders => Sound)'
BY SoundIs, PTL

\* An empty bracket is sound.
LEMMA NoBracketSound ==
  ASSUME matches' = NoMatches
  PROVE  /\ DOMAIN matches' \subseteq Position
         /\ matches' \in [DOMAIN matches' -> Match(Entrant)]
         /\ Shape' /\ FeedsAgree' /\ WinnersSit' /\ OncePerRound'
<1>1. DOMAIN matches' = {}
  BY DEF NoMatches
<1>2. matches' \in [DOMAIN matches' -> Match(Entrant)]
  <2>1. matches' = [p \in DOMAIN matches' |-> matches'[p]]
    BY DEF NoMatches
  <2>2. QED
    BY <1>1, <2>1
<1>3. FeedsAgree' /\ WinnersSit' /\ OncePerRound'
  BY <1>1 DEF FeedsAgree, WinnersSit, OncePerRound
<1>4. QED
  BY <1>1, <1>2, <1>3 DEF Shape

LEMMA SoundStep == Sound /\ [Next]_vars => Sound'
<1>  SUFFICES ASSUME Sound, [Next]_vars
              PROVE  Sound'
  OBVIOUS
<1>1. ASSUME NEW order \in Orders, Draw(order)
      PROVE  Sound'
  <2>1. seeds' \in {<<>>} \cup Orders
    BY <1>1 DEF Draw
  <2>2. matches' = Generate(order)
    BY <1>1 DEF Draw
  <2>3. QED
    BY <2>1, <2>2, AnOrder, GenerateSound, SoundNext
<1>2. CASE DeleteBracket \/ Delete
  <2>1. seeds' \in {<<>>} \cup Orders /\ matches' = NoMatches
    BY <1>2 DEF DeleteBracket, Delete
  <2>2. QED
    BY <2>1, NoBracketSound DEF Sound, TypeOK
<1>3. ASSUME NEW p \in DOMAIN matches, NEW w \in {matches[p].a, matches[p].b},
             ReportResult(p, w)
      PROVE  Sound'
  <2>1. /\ IsReady(matches[p]) /\ NextUndecided(matches, p)
        /\ matches' = Feed([matches EXCEPT ![p].winner = w], p, w)
        /\ w \in {matches[p].a, matches[p].b, NoEntrant}
    BY <1>3 DEF ReportResult, CanReport, Reported
  <2>2. seeds' \in {<<>>} \cup Orders
    BY <1>3 DEF ReportResult, Sound, TypeOK
  <2>3. SoundBracket(matches, Entrant)
    BY SoundIs DEF NoMatches
  <2>4. QED
    BY <2>1, <2>2, <2>3, ResultSound, SoundNext
<1>4. ASSUME NEW p \in DOMAIN matches, ClearResult(p)
      PROVE  Sound'
  <2>1. /\ IsReady(matches[p]) /\ NextUndecided(matches, p)
        /\ matches' = Feed([matches EXCEPT ![p].winner = NoEntrant], p, NoEntrant)
    BY <1>4 DEF ClearResult, CanClear, Cleared, IsPlayed
  <2>2. seeds' \in {<<>>} \cup Orders
    BY <1>4 DEF ClearResult, Sound, TypeOK
  <2>3. SoundBracket(matches, Entrant)
    BY SoundIs DEF NoMatches
  <2>4. QED
    BY <2>1, <2>2, <2>3, ResultSound, SoundNext
<1>5. CASE UNCHANGED vars
  BY <1>5 DEF vars, Sound, TypeOK, Shape, FeedsAgree, WinnersSit, OncePerRound
<1>6. QED
  BY <1>1, <1>2, <1>3, <1>4, <1>5 DEF Next

\* The inductive invariant.
LEMMA SoundInvariant == Spec => []Sound
<1>1. Init => Sound
  <2>  SUFFICES ASSUME Init
                PROVE  Sound
    OBVIOUS
  <2>1. seeds = <<>> /\ matches = NoMatches /\ DOMAIN matches = {}
    BY DEF Init, NoMatches
  <2>2. matches \in [DOMAIN matches -> Match(Entrant)]
    <3>1. matches = [p \in DOMAIN matches |-> matches[p]]
      BY <2>1 DEF NoMatches
    <3>2. QED
      BY <2>1, <3>1
  <2>3. FeedsAgree /\ WinnersSit /\ OncePerRound
    BY <2>1 DEF FeedsAgree, WinnersSit, OncePerRound
  <2>4. QED
    BY <2>1, <2>2, <2>3 DEF Sound, TypeOK, Shape
<1>2. QED
  BY <1>1, SoundStep, PTL DEF Spec

\* Bracket::generate, report, clear and feed, for every field a tournament takes
\* and every sequence of results and corrections: sides agree with the matches
\* that feed them, a winner sits in a full match, nobody plays twice in a round.
THEOREM BracketSound ==
  Spec => [](TypeOK /\ FeedsAgree /\ WinnersSit /\ OncePerRound)
<1>1. Sound => TypeOK /\ FeedsAgree /\ WinnersSit /\ OncePerRound
  BY DEF Sound
<1>2. QED
  BY <1>1, SoundInvariant, PTL

\* Bracket::report and clear refuse a match whose next match is decided, and a
\* new draw is refused while a result stands (bracket_blocked): what a later
\* result was built on stays as it is.
THEOREM DecidedPathsStay == Spec => DecidedPathSettled
<1>1. Sound /\ [Next]_vars =>
        [matches' # NoMatches =>
           \A p \in DOMAIN matches :
             (NextMatch(p) \in DOMAIN matches
                /\ matches[NextMatch(p)].winner # NoEntrant)
             => /\ p \in DOMAIN matches'
                /\ matches'[p] = matches[p]]_vars
  <2>  SUFFICES ASSUME Sound, Next, matches' # NoMatches,
                       NEW p \in DOMAIN matches, NextMatch(p) \in DOMAIN matches,
                       matches[NextMatch(p)].winner # NoEntrant
                PROVE  p \in DOMAIN matches' /\ matches'[p] = matches[p]
    OBVIOUS
  <2>  DEFINE n == NextMatch(p)
  <2>1. p \in Position /\ n \in Position
    BY DEF Sound, TypeOK
  <2>2. n[1] # 1
    BY <2>1 DEF NextMatch, Position
  <2>  HIDE DEF n
  <2>3. HasResults(matches)
    BY <2>2 DEF Sound, WinnersSit, HasResults, IsPlayed, n
  <2>4. ASSUME NEW q \in DOMAIN matches, NextUndecided(matches, q), NEW e,
               matches' = Feed([matches EXCEPT ![q].winner = e], q, e)
        PROVE  p \in DOMAIN matches' /\ matches'[p] = matches[p]
    <3>1. q # p
      BY <2>4 DEF NextUndecided
    <3>2. NextMatch(q) # p
      <4>1. matches[p].winner # NoEntrant
        <5>1. matches[n].winner \in {matches[n].a, matches[n].b} /\ IsReady(matches[n])
          BY <2>2 DEF Sound, WinnersSit, n
        <5>2. QED
          BY <5>1 DEF Sound, FeedsAgree, IsReady, n
      <4>2. QED
        BY <4>1, <2>4 DEF NextUndecided
    <3>3. [matches EXCEPT ![q].winner = e][p] = matches[p]
      BY <3>1 DEF Sound, TypeOK
    <3>4. QED
      BY <2>4, <3>2, <3>3 DEF Feed
  <2>5. CASE \E order \in Orders : Draw(order)
    BY <2>3, <2>5 DEF Draw
  <2>6. CASE DeleteBracket \/ Delete
    BY <2>6 DEF DeleteBracket, Delete
  <2>7. ASSUME NEW q \in DOMAIN matches, NEW w \in {matches[q].a, matches[q].b},
               ReportResult(q, w)
        PROVE  p \in DOMAIN matches' /\ matches'[p] = matches[p]
    BY <2>4, <2>7 DEF ReportResult, CanReport, Reported
  <2>8. ASSUME NEW q \in DOMAIN matches, ClearResult(q)
        PROVE  p \in DOMAIN matches' /\ matches'[p] = matches[p]
    BY <2>4, <2>8 DEF ClearResult, CanClear, Cleared
  <2>9. QED
    BY <2>5, <2>6, <2>7, <2>8 DEF Next
<1>2. QED
  BY <1>1, SoundInvariant, PTL DEF Spec, DecidedPathSettled

--------------------------------------------------------------------------------
(***************************************************************************)
(* What a bracket that stands can be used for: it reads back, it seats the *)
(* seeds it was drawn from, and it can be played on.                       *)
(***************************************************************************)

\* What a draw seats in round one stays there until the bracket goes: a result
\* writes the winner of its match and a side of a later round, and a match with an
\* empty side has its winner from the draw.
Seated ==
  \/ seeds = <<>> /\ matches = NoMatches
  \/ /\ seeds \in Orders
     /\ DOMAIN matches = Positions(RoundCount(Len(seeds)))
     /\ \A p \in DOMAIN matches : p[1] = 1 =>
          LET byes == Pow2[RoundCount(Len(seeds))] - Len(seeds)
              m    == FirstRoundMatch(seeds, byes, p[2])
          IN  /\ matches[p].a = m.a /\ matches[p].b = m.b
              /\ m.b = NoEntrant => matches[p].winner # NoEntrant

\* The type of the seed order and of the match rows.
THEOREM TypeCorrect == Spec => []TypeOK
<1>1. Sound => TypeOK
  BY DEF Sound
<1>2. QED
  BY <1>1, SoundInvariant, PTL

\* Bracket::feed and the draw put nobody into two matches of one round, and nobody
\* against themselves, whatever was entered, corrected and removed.
THEOREM NobodyMeetsTwice == Spec => []OncePerRound
<1>1. Sound => OncePerRound
  BY DEF Sound
<1>2. QED
  BY <1>1, SoundInvariant, PTL

\* A whole bracket is one that from_matches accepts.
LEMMA WholeReadsBack ==
  ASSUME NEW k \in 1..8
  PROVE  WellFormed(Positions(k))
<1> DEFINE D == Positions(k)
           Slots(r) == {p[2] : p \in {q \in D : q[1] = r}}
<1>1. ASSUME NEW r \in 1..k, NEW s \in 0 .. Pow2[k - r] - 1
      PROVE  <<r, s>> \in D
  <2>1. Pow2[k - r] \in 1..128
    BY DEF Pow2
  <2>2. <<r, s>> \in Position
    BY <2>1 DEF Position
  <2>3. QED
    BY <2>2, InPositions
<1>2. \A r \in 1..k : 0 \in 0 .. Pow2[k - r] - 1
  BY DEF Pow2
<1>3. ASSUME NEW p \in D
      PROVE  p[1] \in 1..k /\ p[2] \in 0 .. Pow2[k - p[1]] - 1
  BY InPositions
<1>  HIDE DEF D
<1>4. {p[1] : p \in D} = 1..k
  <2>1. ASSUME NEW r \in 1..k
        PROVE  \E p \in D : r = p[1]
    <3>1. <<r, 0>> \in D
      BY <1>1, <1>2
    <3>2. QED
      BY <3>1
  <2>2. QED
    BY <1>3, <2>1
<1>5. ASSUME NEW r \in 1..k
      PROVE  Slots(r) = 0 .. Pow2[k - r] - 1
  <2>1. ASSUME NEW s \in 0 .. Pow2[k - r] - 1
        PROVE  \E p \in {q \in D : q[1] = r} : s = p[2]
    <3>1. <<r, s>> \in D
      BY <1>1
    <3>2. QED
      BY <3>1
  <2>2. \A s \in Slots(r) : s \in 0 .. Pow2[k - r] - 1
    BY <1>3
  <2>3. QED
    BY <2>1, <2>2
<1>6. QED
  BY <1>4, <1>5 DEF WellFormed, D

\* Every bracket the program writes is one it can read (Bracket::from_matches).
THEOREM EveryBracketReadsBack == Spec => []ReadsBack
<1>1. Sound => ReadsBack
  BY WholeReadsBack DEF Sound, Shape, ReadsBack
<1>2. QED
  BY <1>1, SoundInvariant, PTL

\* The seats of slot s of round one lie within the seed order.
LEMMA SeatsWithin ==
  ASSUME NEW n \in 2..256, NEW h \in 1..128, h < n, n <= 2 * h, NEW s \in 0 .. h - 1,
         NEW byes, byes = 2 * h - n
  PROVE  /\ s < byes => s + 1 \in 1..n
         /\ ~(s < byes) => 2 * s - byes + 1 \in 1..n /\ 2 * s - byes + 2 \in 1..n
OBVIOUS

LEMMA GenerateSeats ==
  ASSUME NEW order \in Orders, matches' = Generate(order), seeds' = order
  PROVE  Seated'
<1> DEFINE k == RoundCount(Len(order))
           byes == Pow2[k] - Len(order)
<1>1. Generate(order) = [p \in Positions(k) |->
                           CASE p[1] = 1 -> FirstRoundMatch(order, byes, p[2])
                             [] p[1] = 2 -> SecondRoundMatch(order, byes, p[2])
                             [] OTHER    -> EmptyMatch]
  BY DEF Generate
<1>2. ASSUME NEW p \in Positions(k), p[1] = 1
      PROVE  matches'[p] = FirstRoundMatch(order, byes, p[2])
  BY <1>1, <1>2
<1>3. ASSUME NEW s, FirstRoundMatch(order, byes, s).b = NoEntrant,
             <<1, s>> \in Positions(k)
      PROVE  FirstRoundMatch(order, byes, s).winner # NoEntrant
  <2>1. OrderOf(order, Entrant) /\ Len(order) \in 2..256
    BY AnOrder DEF OrderOf
  <2>2. LET h == Pow2[k - 1]
        IN  k \in 1..8 /\ h \in 1..128 /\ h < Len(order) /\ Len(order) <= 2 * h
            /\ byes = 2 * h - Len(order)
    BY <2>1, HalfOf
  <2>3. s \in 0 .. Pow2[k - 1] - 1
    BY <1>3, <2>2, InPositions
  <2>4. order \in [1..Len(order) -> Entrant] /\ NoEntrant \notin Entrant
    BY <2>1 DEF OrderOf
  <2>  DEFINE h == Pow2[k - 1]
              n == Len(order)
  <2>  HIDE DEF k, h, n
  <2>5. s < byes
    <3>1. SUFFICES ASSUME ~(s < byes)
                   PROVE  FALSE
      OBVIOUS
    <3>2. 2 * s - byes + 2 \in 1..n
      BY <2>1, <2>2, <2>3, <3>1, SeatsWithin DEF h, n
    <3>3. FirstRoundMatch(order, byes, s).b = order[2 * s - byes + 2]
      BY <3>1 DEF FirstRoundMatch
    <3>4. QED
      BY <1>3, <2>4, <3>2, <3>3 DEF n
  <2>6. s + 1 \in 1..n
    BY <2>1, <2>2, <2>3, <2>5, SeatsWithin DEF h, n
  <2>7. FirstRoundMatch(order, byes, s).winner = order[s + 1]
    BY <2>5 DEF FirstRoundMatch
  <2>8. QED
    BY <2>4, <2>6, <2>7 DEF n
<1>4. ASSUME NEW p \in Positions(k), p[1] = 1
      PROVE  p = <<1, p[2]>>
  <2>1. k \in 1..8
    BY AnOrder, Rounds DEF OrderOf
  <2>2. p \in Position
    BY <2>1, InPositions
  <2>3. QED
    BY <2>2, <1>4 DEF Position
<1>  HIDE DEF byes, k
<1>5. DOMAIN matches' = Positions(k)
  BY <1>1
<1>6. \A p \in DOMAIN matches' : p[1] = 1 =>
         LET m == FirstRoundMatch(order, byes, p[2])
         IN  /\ matches'[p].a = m.a /\ matches'[p].b = m.b
             /\ m.b = NoEntrant => matches'[p].winner # NoEntrant
  BY <1>2, <1>3, <1>4, <1>5
<1>7. QED
  BY <1>5, <1>6 DEF Seated, k, byes

LEMMA ResultSeats ==
  ASSUME Sound, Seated, NEW p \in DOMAIN matches, IsReady(matches[p]), NEW e,
         matches' = Feed([matches EXCEPT ![p].winner = e], p, e), seeds' = seeds
  PROVE  Seated'
<1>1. /\ seeds \in Orders
      /\ DOMAIN matches = Positions(RoundCount(Len(seeds)))
      /\ \A q \in DOMAIN matches : q[1] = 1 =>
           LET m == FirstRoundMatch(seeds, Pow2[RoundCount(Len(seeds))] - Len(seeds), q[2])
           IN  /\ matches[q].a = m.a /\ matches[q].b = m.b
               /\ m.b = NoEntrant => matches[q].winner # NoEntrant
  BY DEF Seated, NoMatches
<1>2. \A q \in DOMAIN matches : matches[q] \in Match(Entrant) /\ q \in Position
  BY DEF Sound, TypeOK
<1>3. DOMAIN matches' = DOMAIN matches
  BY DEF Feed
<1>4. ASSUME NEW q \in DOMAIN matches, q[1] = 1
      PROVE  /\ matches'[q].a = matches[q].a /\ matches'[q].b = matches[q].b
             /\ q # p => matches'[q].winner = matches[q].winner
  <2>1. q # NextMatch(p)
    BY <1>2, <1>4 DEF NextMatch, Position
  <2>2. matches'[q] = [matches EXCEPT ![p].winner = e][q]
    BY <2>1 DEF Feed
  <2>3. q # p => matches'[q] = matches[q]
    BY <2>2 DEF Sound, TypeOK
  <2>4. q = p => matches'[q] = [matches[q] EXCEPT !.winner = e]
    BY <2>2 DEF Sound, TypeOK
  <2>5. QED
    BY <2>3, <2>4, <1>2 DEF Match
<1>5. p[1] = 1 => FirstRoundMatch(seeds, Pow2[RoundCount(Len(seeds))] - Len(seeds), p[2]).b
                    # NoEntrant
  BY <1>1 DEF IsReady
<1> DEFINE First(q) ==
             FirstRoundMatch(seeds, Pow2[RoundCount(Len(seeds))] - Len(seeds), q[2])
<1>6. ASSUME NEW q \in DOMAIN matches, q[1] = 1
      PROVE  /\ matches'[q].a = First(q).a /\ matches'[q].b = First(q).b
             /\ First(q).b = NoEntrant => matches'[q].winner # NoEntrant
  <2>  HIDE DEF First
  <2>1. /\ matches[q].a = First(q).a /\ matches[q].b = First(q).b
        /\ First(q).b = NoEntrant => matches[q].winner # NoEntrant
    BY <1>1, <1>6 DEF First
  <2>2. q = p => First(q).b # NoEntrant
    BY <1>5, <1>6 DEF First
  <2>3. QED
    BY <1>4, <1>6, <2>1, <2>2
<1>7. seeds' \in Orders /\ DOMAIN matches' = Positions(RoundCount(Len(seeds')))
  BY <1>1, <1>3
<1>8. QED
  BY <1>1, <1>3, <1>6, <1>7 DEF Seated

LEMMA SeatedInvariant == Spec => []Seated
<1>1. Init => Seated
  BY DEF Init, Seated
<1>2. Sound /\ Seated /\ [Next]_vars => Seated'
  <2>  SUFFICES ASSUME Sound, Seated, [Next]_vars
                PROVE  Seated'
    OBVIOUS
  <2>1. ASSUME NEW order \in Orders, Draw(order)
        PROVE  Seated'
    BY <2>1, GenerateSeats DEF Draw
  <2>2. CASE DeleteBracket \/ Delete
    BY <2>2 DEF DeleteBracket, Delete, Seated
  <2>3. ASSUME NEW p \in DOMAIN matches, NEW w \in {matches[p].a, matches[p].b},
               ReportResult(p, w)
        PROVE  Seated'
    BY <2>3, ResultSeats DEF ReportResult, CanReport, Reported
  <2>4. ASSUME NEW p \in DOMAIN matches, ClearResult(p)
        PROVE  Seated'
    BY <2>4, ResultSeats DEF ClearResult, CanClear, Cleared, IsPlayed
  <2>5. CASE UNCHANGED vars
    BY <2>5 DEF vars, Seated
  <2>6. QED
    BY <2>1, <2>2, <2>3, <2>4, <2>5 DEF Next
<1>3. QED
  BY <1>1, <1>2, SoundInvariant, PTL DEF Spec

\* An undecided match of a round in which no earlier match is undecided can be
\* reported: its feeders are decided, so both its sides are filled, and nothing was
\* built on it.
LEMMA OpenMatchPlays ==
  ASSUME Sound, Seated, NEW p \in DOMAIN matches, matches[p].winner = NoEntrant,
         \A q \in DOMAIN matches : q[1] < p[1] => matches[q].winner # NoEntrant
  PROVE  CanReport(matches, p, matches[p].a)
<1>1. p \in Position
  BY DEF Sound, TypeOK
<1>2. IsReady(matches[p])
  <2>1. CASE p[1] = 1
    <3>1. /\ seeds \in Orders
          /\ DOMAIN matches = Positions(RoundCount(Len(seeds)))
          /\ LET m == FirstRoundMatch(seeds, Pow2[RoundCount(Len(seeds))] - Len(seeds), p[2])
             IN  matches[p].a = m.a /\ m.b # NoEntrant /\ matches[p].b = m.b
      BY <2>1 DEF Seated, NoMatches
    <3>  DEFINE n == Len(seeds)
                k == RoundCount(n)
                h == Pow2[k - 1]
                byes == Pow2[k] - n
    <3>2. OrderOf(seeds, Entrant) /\ n \in 2..256
      BY <3>1, AnOrder DEF OrderOf
    <3>3. /\ k \in 1..8 /\ h \in 1..128 /\ h < n /\ n <= 2 * h
          /\ byes = 2 * h - n
      BY <3>2, HalfOf
    <3>4. p[2] \in 0 .. h - 1
      BY <2>1, <3>1, <3>3, InPositions
    <3>5. FirstRoundMatch(seeds, byes, p[2]).a \in Entrant
      <4>  HIDE DEF n, k, h
      <4>1. FirstRoundMatch(seeds, 2 * h - Len(seeds), p[2]).a \in Entrant
        BY <3>2, <3>3, <3>4, FirstRound DEF n
      <4>2. QED
        BY <3>3, <4>1 DEF n
    <3>6. QED
      BY <3>1, <3>5, EntrantAssumption DEF IsReady
  <2>2. CASE p[1] # 1
    <3>1. PICK f, g \in DOMAIN matches :
            /\ NextMatch(f) = p /\ matches[f].winner = matches[p].a
            /\ NextMatch(g) = p /\ matches[g].winner = matches[p].b
      BY <2>2, SidesFed, SoundIs DEF NoMatches
    <3>2. f[1] < p[1] /\ g[1] < p[1]
      <4>1. f \in Position /\ g \in Position
        BY DEF Sound, TypeOK
      <4>2. QED
        BY <4>1, <3>1 DEF NextMatch, Position
    <3>3. QED
      BY <3>1, <3>2 DEF IsReady
  <2>3. QED
    BY <2>1, <2>2
<1>3. NextUndecided(matches, p)
  <2>  SUFFICES ASSUME NextMatch(p) \in DOMAIN matches,
                       matches[NextMatch(p)].winner # NoEntrant
                PROVE  FALSE
    BY DEF NextUndecided
  <2>1. NextMatch(p)[1] # 1
    BY <1>1 DEF NextMatch, Position
  <2>2. IsReady(matches[NextMatch(p)])
    BY <2>1 DEF Sound, WinnersSit
  <2>3. QED
    BY <2>2 DEF Sound, FeedsAgree, IsReady
<1>4. QED
  BY <1>2, <1>3 DEF CanReport

\* Bracket::report refuses nothing that is left to play: until there is a champion
\* some ready match without a result accepts one, for every field and after every
\* sequence of results and corrections.
THEOREM PlayNeverStops == Spec => []NeverStuck
<1>1. Sound /\ Seated => NeverStuck
  <2>  SUFFICES ASSUME Sound, Seated, matches # NoMatches, Champion(matches) = NoEntrant
                PROVE  \E p \in DOMAIN matches :
                         matches[p].winner = NoEntrant /\ CanReport(matches, p, matches[p].a)
    BY DEF NeverStuck
  <2>  DEFINE Open == {p \in DOMAIN matches : matches[p].winner = NoEntrant}
              R == {p[1] : p \in Open}
  <2>1. FinalOf(matches) \in Open
    <3>1. PICK k \in 1..8 : DOMAIN matches = Positions(k)
      BY DEF Sound, Shape
    <3>2. FinalOf(matches) \in DOMAIN matches
      BY <3>1, FinalExists
    <3>3. QED
      BY <3>2 DEF Champion
  <2>2. R \subseteq 1..8 /\ R # {}
    BY <2>1 DEF Sound, TypeOK, Position
  <2>3. PICK r \in R : \A t \in R : ~(t < r)
    <3>  HIDE DEF R
    <3>1. QED
      BY <2>2, EarliestRound
  <2>4. PICK p \in Open : p[1] = r
    BY <2>3
  <2>5. \A q \in DOMAIN matches : q[1] < p[1] => matches[q].winner # NoEntrant
    BY <2>3, <2>4
  <2>6. QED
    BY <2>4, <2>5, OpenMatchPlays
<1>2. QED
  BY <1>1, SoundInvariant, SeatedInvariant, PTL

\* Which seeds a slot of round one takes: below the number of byes one seed, alone;
\* above it the next two.
LEMMA SeatsOfASlot ==
  ASSUME Seated, matches # NoMatches
  PROVE  \E h \in 1..128, b \in 0..127 :
           /\ b < h /\ Len(seeds) = 2 * h - b
           /\ seeds \in [1..Len(seeds) -> Entrant]
           /\ \A p \in DOMAIN matches : p[1] = 1 => \E s \in 0 .. h - 1 : p = <<1, s>>
           /\ \A s \in 0 .. h - 1 :
                /\ <<1, s>> \in DOMAIN matches
                /\ s < b => /\ matches[<<1, s>>].a = seeds[s + 1]
                            /\ matches[<<1, s>>].b = NoEntrant
                /\ ~(s < b) => /\ matches[<<1, s>>].a = seeds[2 * s - b + 1]
                               /\ matches[<<1, s>>].b = seeds[2 * s - b + 2]
<1> DEFINE n == Len(seeds)
           k == RoundCount(n)
           h == Pow2[k - 1]
           b == Pow2[k] - n
<1>1. /\ seeds \in Orders
      /\ DOMAIN matches = Positions(k)
      /\ \A p \in DOMAIN matches : p[1] = 1 =>
           LET m == FirstRoundMatch(seeds, b, p[2])
           IN  matches[p].a = m.a /\ matches[p].b = m.b
  BY DEF Seated
<1>2. OrderOf(seeds, Entrant) /\ n \in 2..256
  BY <1>1, AnOrder DEF OrderOf
<1>3. /\ k \in 1..8 /\ h \in 1..128 /\ h < n /\ n <= 2 * h
      /\ b = 2 * h - n
  BY <1>2, HalfOf
<1>4. seeds \in [1..n -> Entrant]
  BY <1>2 DEF OrderOf
<1>5. ASSUME NEW p \in DOMAIN matches, p[1] = 1
      PROVE  p = <<1, p[2]>> /\ p[2] \in 0 .. h - 1
  <2>1. p \in Position /\ p[2] \in 0 .. Pow2[k - p[1]] - 1
    BY <1>1, <1>3, InPositions
  <2>2. QED
    BY <2>1, <1>5 DEF Position
<1>6. ASSUME NEW s \in 0 .. h - 1
      PROVE  <<1, s>> \in DOMAIN matches
  <2>1. <<1, s>> \in Position
    <3>  HIDE DEF h
    <3>1. s \in 0..127
      BY <1>3
    <3>2. QED
      BY <3>1 DEF Position
  <2>2. QED
    BY <2>1, <1>1, <1>3, InPositions
<1>  HIDE DEF k, h, n, b
<1>7. b \in 0..127 /\ b < h /\ n = 2 * h - b
  BY <1>2, <1>3
<1>8. ASSUME NEW s \in 0 .. h - 1
      PROVE  /\ s < b => /\ matches[<<1, s>>].a = seeds[s + 1]
                         /\ matches[<<1, s>>].b = NoEntrant
             /\ ~(s < b) => /\ matches[<<1, s>>].a = seeds[2 * s - b + 1]
                            /\ matches[<<1, s>>].b = seeds[2 * s - b + 2]
  <2>1. /\ matches[<<1, s>>].a = FirstRoundMatch(seeds, b, s).a
        /\ matches[<<1, s>>].b = FirstRoundMatch(seeds, b, s).b
    BY <1>1, <1>6
  <2>2. QED
    BY <2>1 DEF FirstRoundMatch
<1>9. QED
  BY <1>3, <1>4, <1>5, <1>6, <1>7, <1>8 DEF n

LEMMA SlotHasItsSeeds ==
  ASSUME NEW h \in 1..128, NEW b \in 0..127, NEW s \in 0 .. h - 1, ~(s < b)
  PROVE  2 * s - b + 1 \in 1 .. 2 * h - b /\ 2 * s - b + 2 \in 1 .. 2 * h - b
OBVIOUS

\* Every seed has a seat.
LEMMA SeedHasASlot ==
  ASSUME NEW h \in 1..128, NEW b \in 0..127, b < h, NEW i \in 1 .. 2 * h - b
  PROVE  \E s \in 0 .. h - 1 : \/ s < b /\ i = s + 1
                               \/ ~(s < b) /\ i \in {2 * s - b + 1, 2 * s - b + 2}
<1>1. CASE i <= b
  <2>1. i - 1 \in 0 .. h - 1 /\ i - 1 < b /\ i = (i - 1) + 1
    BY <1>1
  <2>2. QED
    BY <2>1
<1>2. CASE ~(i <= b)
  <2>1. PICK s \in Int : i + b - 1 \in {2 * s, 2 * s + 1}
    <3>1. i + b - 1 \in {2 * ((i + b - 1) \div 2), 2 * ((i + b - 1) \div 2) + 1}
      OBVIOUS
    <3>2. QED
      BY <3>1
  <2>2. s \in 0 .. h - 1 /\ ~(s < b) /\ i \in {2 * s - b + 1, 2 * s - b + 2}
    BY <1>2, <2>1
  <2>3. QED
    BY <2>2
<1>3. QED
  BY <1>1, <1>2

\* Bracket::generate seats every seed in round one and gives the byes to the top
\* seeds, and no result changes that: while the bracket stands, round one names the
\* seeds and nobody else.
THEOREM SeedsKeepTheirSeats == Spec => []SeedsSeated
<1> DEFINE First == {p \in DOMAIN matches : p[1] = 1}
           Byes  == {p \in First : ~IsReady(matches[p])}
           Sits(p) == {matches[p].a, matches[p].b} \ {NoEntrant}
<1>1. ASSUME Seated, matches = NoMatches
      PROVE  SeedsSeated
  <2>1. seeds = <<>>
    <3>1. CASE seeds \in Orders /\ DOMAIN matches = Positions(RoundCount(Len(seeds)))
      <4>1. RoundCount(Len(seeds)) \in 1..8
        BY <3>1, AnOrder, Rounds DEF OrderOf
      <4>2. FinalOf([p \in Positions(RoundCount(Len(seeds))) |-> EmptyMatch]) \in
              Positions(RoundCount(Len(seeds)))
        BY <4>1, FinalExists
      <4>3. QED
        BY <4>2, <3>1, <1>1 DEF NoMatches
    <3>2. QED
      BY <3>1, <1>1 DEF Seated
  <2>2. First = {} /\ Byes = {} /\ DOMAIN seeds = {}
    BY <2>1, <1>1 DEF NoMatches
  <2>3. Cardinality(Byes) = 0
    BY <2>2, FS_EmptySet
  <2>  HIDE DEF First, Byes
  <2>4. 1 .. Cardinality(Byes) = {}
    BY <2>3
  <2>5. /\ UNION {Sits(p) : p \in First} = {} /\ UNION {Sits(p) : p \in Byes} = {}
        /\ {seeds[i] : i \in DOMAIN seeds} = {}
        /\ {seeds[i] : i \in 1 .. Cardinality(Byes)} = {}
    BY <2>2, <2>4
  <2>6. QED
    BY <2>5 DEF SeedsSeated, First, Byes
<1>2. ASSUME Seated, matches # NoMatches
      PROVE  SeedsSeated
  <2>1. PICK h \in 1..128, b \in 0..127 :
           /\ b < h /\ Len(seeds) = 2 * h - b
           /\ seeds \in [1..Len(seeds) -> Entrant]
           /\ \A p \in DOMAIN matches : p[1] = 1 => \E s \in 0 .. h - 1 : p = <<1, s>>
           /\ \A s \in 0 .. h - 1 :
                /\ <<1, s>> \in DOMAIN matches
                /\ s < b => /\ matches[<<1, s>>].a = seeds[s + 1]
                            /\ matches[<<1, s>>].b = NoEntrant
                /\ ~(s < b) => /\ matches[<<1, s>>].a = seeds[2 * s - b + 1]
                               /\ matches[<<1, s>>].b = seeds[2 * s - b + 2]
    BY <1>2, SeatsOfASlot
  <2>  DEFINE n == 2 * h - b
  <2>2. DOMAIN seeds = 1..n /\ \A i \in 1..n : seeds[i] \in Entrant /\ seeds[i] # NoEntrant
    BY <2>1, EntrantAssumption
  <2>3. First = {<<1, s>> : s \in 0 .. h - 1}
    BY <2>1
  <2>4. ASSUME NEW s \in 0 .. h - 1
        PROVE  /\ s < b => /\ s + 1 \in 1..n /\ Sits(<<1, s>>) = {seeds[s + 1]}
                           /\ ~IsReady(matches[<<1, s>>])
               /\ ~(s < b) => /\ 2 * s - b + 1 \in 1..n /\ 2 * s - b + 2 \in 1..n
                              /\ Sits(<<1, s>>) = {seeds[2 * s - b + 1], seeds[2 * s - b + 2]}
                              /\ IsReady(matches[<<1, s>>])
    <3>1. CASE s < b
      <4>1. s + 1 \in 1..n
        BY <2>1, <3>1
      <4>2. QED
        BY <4>1, <3>1, <2>1, <2>2 DEF IsReady
    <3>2. CASE ~(s < b)
      <4>1. 2 * s - b + 1 \in 1..n /\ 2 * s - b + 2 \in 1..n
        BY <3>2, SlotHasItsSeeds
      <4>2. QED
        BY <4>1, <3>2, <2>1, <2>2 DEF IsReady
    <3>3. QED
      BY <3>1, <3>2
  <2>5. Byes = {<<1, s>> : s \in 0 .. b - 1}
    <3>1. \A s \in 0 .. h - 1 : s < b <=> s \in 0 .. b - 1
      OBVIOUS
    <3>2. \A s \in 0 .. b - 1 : s \in 0 .. h - 1
      BY <2>1
    <3>  HIDE DEF First, Sits
    <3>3. QED
      BY <2>3, <2>4, <3>1, <3>2
  <2>6. Cardinality(Byes) = b
    <3>  DEFINE f == [i \in 1..b |-> <<1, i - 1>>]
    <3>1. f \in [1..b -> Byes]
      BY <2>5
    <3>2. \A i, j \in 1..b : f[i] = f[j] => i = j
      OBVIOUS
    <3>3. \A p \in Byes : \E i \in 1..b : f[i] = p
      <4>1. ASSUME NEW s \in 0 .. b - 1
            PROVE  s + 1 \in 1..b /\ f[s + 1] = <<1, s>>
        OBVIOUS
      <4>2. QED
        BY <2>5, <4>1
    <3>  HIDE DEF f, Byes
    <3>4. ExistsBijection(1..b, Byes)
      BY <3>1, <3>2, <3>3 DEF ExistsBijection, Bijection, Injection, Surjection, IsInjective
    <3>5. QED
      BY <3>4, FS_CountingElements
  <2>  HIDE DEF First, Byes, Sits
  <2>7. UNION {Sits(p) : p \in First} = {seeds[i] : i \in DOMAIN seeds}
    <3>1. ASSUME NEW s \in 0 .. h - 1, NEW e \in Sits(<<1, s>>)
          PROVE  \E i \in 1..n : e = seeds[i]
      BY <2>4, <3>1
    <3>2. ASSUME NEW i \in 1..n
          PROVE  \E s \in 0 .. h - 1 : seeds[i] \in Sits(<<1, s>>)
      <4>1. PICK s \in 0 .. h - 1 : \/ s < b /\ i = s + 1
                                    \/ ~(s < b) /\ i \in {2 * s - b + 1, 2 * s - b + 2}
        BY <2>1, SeedHasASlot
      <4>2. QED
        BY <4>1, <2>4
    <3>3. ASSUME NEW e
          PROVE  e \in UNION {Sits(p) : p \in First} <=> \E s \in 0 .. h - 1 : e \in Sits(<<1, s>>)
      <4>1. e \in UNION {Sits(p) : p \in First} <=> \E p \in First : e \in Sits(p)
        OBVIOUS
      <4>2. QED
        BY <4>1, <2>3
    <3>4. ASSUME NEW e
          PROVE  (\E s \in 0 .. h - 1 : e \in Sits(<<1, s>>)) <=> \E i \in 1..n : e = seeds[i]
      BY <3>1, <3>2
    <3>5. {seeds[i] : i \in DOMAIN seeds} = {seeds[i] : i \in 1..n}
      BY <2>2
    <3>  HIDE DEF n
    <3>6. UNION {Sits(p) : p \in First} = {seeds[i] : i \in 1..n}
      BY <3>3, <3>4, Zenon
    <3>7. QED
      BY <3>5, <3>6, Zenon
  <2>8. UNION {Sits(p) : p \in Byes} = {seeds[i] : i \in 1..b}
    <3>1. ASSUME NEW s \in 0 .. b - 1
          PROVE  s + 1 \in 1..b /\ Sits(<<1, s>>) = {seeds[s + 1]}
      <4>1. s + 1 \in 1..b
        BY <2>1
      <4>2. s \in 0 .. h - 1 /\ s < b
        BY <2>1
      <4>3. QED
        BY <2>4, <4>1, <4>2
    <3>2. ASSUME NEW i \in 1..b
          PROVE  \E s \in 0 .. b - 1 : seeds[i] \in Sits(<<1, s>>)
      <4>1. i - 1 \in 0 .. b - 1 /\ (i - 1) + 1 = i
        OBVIOUS
      <4>2. QED
        BY <4>1, <3>1
    <3>3. ASSUME NEW e
          PROVE  e \in UNION {Sits(p) : p \in Byes} <=> \E s \in 0 .. b - 1 : e \in Sits(<<1, s>>)
      <4>1. e \in UNION {Sits(p) : p \in Byes} <=> \E p \in Byes : e \in Sits(p)
        OBVIOUS
      <4>2. QED
        BY <4>1, <2>5
    <3>4. ASSUME NEW e
          PROVE  (\E s \in 0 .. b - 1 : e \in Sits(<<1, s>>)) <=> \E i \in 1..b : e = seeds[i]
      <4>1. ASSUME NEW s \in 0 .. b - 1, e \in Sits(<<1, s>>)
            PROVE  \E i \in 1..b : e = seeds[i]
        BY <3>1, <4>1
      <4>2. QED
        BY <3>2, <4>1
    <3>5. QED
      BY <3>3, <3>4, Zenon
  <2>9. QED
    BY <2>6, <2>7, <2>8 DEF SeedsSeated, First, Byes, Sits
<1>3. Seated => SeedsSeated
  BY <1>1, <1>2
<1>4. QED
  BY <1>3, SeatedInvariant, PTL

--------------------------------------------------------------------------------
(* Who won how often.                                                      *)

Sits(B, x, p) == x \in {B[p].a, B[p].b}
WinsOf(B, x)  == {p \in DOMAIN B : IsPlayed(B[p]) /\ B[p].winner = x}

\* Whoever sits in a match won a match of every earlier round.
LEMMA WonEarlier ==
  ASSUME NEW E, NEW B, SoundBracket(B, E), NEW p \in DOMAIN B, NEW x, x # NoEntrant,
         Sits(B, x, p), NEW r \in 1..8, r < p[1]
  PROVE  \E f \in DOMAIN B : f[1] = r /\ B[f].winner = x
<1> DEFINE R == {t \in 1..8 : r < t /\ \E u \in DOMAIN B : u[1] = t /\ Sits(B, x, u)}
<1>1. \A u \in DOMAIN B : u[1] \in 1..8
  BY SoundPositions DEF Position
<1>2. R # {} /\ R \subseteq 1..8
  BY <1>1
<1>3. PICK t \in R : \A v \in R : ~(v < t)
  <2>  HIDE DEF R
  <2>1. QED
    BY <1>2, EarliestRound
<1>4. PICK u \in DOMAIN B : u[1] = t /\ Sits(B, x, u)
  BY <1>3
<1>5. PICK f \in DOMAIN B : NextMatch(f) = u /\ B[f].winner = x
  <2>1. u[1] # 1
    BY <1>3, <1>4
  <2>2. QED
    BY <1>4, <2>1, SidesFed DEF Sits
<1>6. f[1] = t - 1 /\ f[1] \in 1..8 /\ t \in 1..8 /\ r < t
  BY <1>1, <1>3, <1>4, <1>5 DEF NextMatch
<1>7. Sits(B, x, f)
  BY <1>5 DEF SoundBracket, WinnersIn, Sits
<1>8. t - 1 \notin R
  BY <1>3, <1>6
<1>9. ~(r < t - 1)
  BY <1>6, <1>7, <1>8
<1>10. QED
  BY <1>5, <1>6, <1>9

LEMMA NextInPositions ==
  ASSUME NEW k \in 1..8, NEW q \in Positions(k), q[1] < k
  PROVE  NextMatch(q) \in Positions(k)
<1>1. q \in Position /\ q[1] \in 1..k /\ q[2] \in 0 .. Pow2[k - q[1]] - 1
  BY InPositions
<1>2. PICK j \in 0..6 : k - q[1] = j + 1 /\ k - (q[1] + 1) = j
  BY <1>1
<1>3. Pow2[j + 1] = 2 * Pow2[j] /\ Pow2[j] \in 1..128
  BY <1>2, Doubling
<1>4. PICK w \in 1..128 : w = Pow2[j]
  BY <1>3
<1>5. PICK s \in 0 .. 2 * w - 1 : s = q[2]
  BY <1>1, <1>2, <1>3, <1>4
<1>6. s \in 0..127
  BY <1>1, <1>5 DEF Position
<1>7. s \div 2 \in 0 .. w - 1 /\ s \div 2 \in 0..127
  BY <1>5, <1>6
<1>8. NextMatch(q) = <<q[1] + 1, s \div 2>> /\ q[1] + 1 \in 1..k /\ q[1] + 1 \in 1..8
  BY <1>1, <1>5 DEF NextMatch
<1>9. NextMatch(q) \in Position
  BY <1>7, <1>8 DEF Position
<1>10. NextMatch(q)[1] = q[1] + 1 /\ NextMatch(q)[2] = s \div 2
  BY <1>8
<1>11. NextMatch(q)[2] \in 0 .. Pow2[k - NextMatch(q)[1]] - 1
  BY <1>2, <1>4, <1>7, <1>10
<1>12. QED
  BY <1>8, <1>9, <1>10, <1>11, InPositions

\* The last round has one match, the final.
LEMMA OneFinal ==
  ASSUME NEW k \in 1..8, NEW B, DOMAIN B = Positions(k)
  PROVE  /\ FinalOf(B) \in DOMAIN B /\ FinalOf(B)[1] = k
         /\ \A p \in DOMAIN B : p[1] = k => p = FinalOf(B)
<1>1. FinalOf(B) \in DOMAIN B
  BY FinalExists
<1>2. NextMatch(FinalOf(B)) \notin DOMAIN B
  <2>1. \E p \in DOMAIN B : NextMatch(p) \notin DOMAIN B
    <3>1. Pow2[k - k] = 1
      BY DEF Pow2
    <3>2. <<k, 0>> \in DOMAIN B
      BY <3>1, InPositions DEF Position
    <3>3. NextMatch(<<k, 0>>) \notin DOMAIN B
      BY InPositions DEF NextMatch
    <3>4. QED
      BY <3>2, <3>3
  <2>2. QED
    BY <2>1 DEF FinalOf
<1>3. \A p \in DOMAIN B : p[1] \in 1..k /\ p = <<p[1], p[2]>>
                          /\ p[2] \in 0 .. Pow2[k - p[1]] - 1
  BY InPositions DEF Position
<1>4. ~(FinalOf(B)[1] < k)
  BY <1>1, <1>2, NextInPositions
<1>5. FinalOf(B)[1] = k
  BY <1>1, <1>3, <1>4
<1>6. \A p \in DOMAIN B : p[1] = k => p = <<k, 0>>
  <2>1. Pow2[k - k] = 1
    BY DEF Pow2
  <2>2. QED
    BY <1>3, <2>1
<1>7. QED
  BY <1>1, <1>5, <1>6

\* A winner below the final sits in the next match.
LEMMA WinnerGoesOn ==
  ASSUME NEW E, NEW B, SoundBracket(B, E), NEW k \in 1..8, DOMAIN B = Positions(k),
         NEW q \in DOMAIN B, q[1] < k
  PROVE  /\ NextMatch(q) \in DOMAIN B /\ NextMatch(q)[1] = q[1] + 1
         /\ Sits(B, B[q].winner, NextMatch(q))
<1>1. NextMatch(q) \in DOMAIN B
  BY NextInPositions
<1>2. QED
  BY <1>1 DEF SoundBracket, SidesAgree, Sits, NextMatch

\* At most one win in a round.
LEMMA WinsAtMost ==
  ASSUME NEW E, NEW B, SoundBracket(B, E), NEW x, x # NoEntrant, NEW m \in 0..8,
         \A q \in WinsOf(B, x) : q[1] <= m
  PROVE  /\ IsFiniteSet(WinsOf(B, x)) /\ Cardinality(WinsOf(B, x)) \in Nat
         /\ Cardinality(WinsOf(B, x)) <= m
<1> DEFINE W == WinsOf(B, x)
           f == [q \in W |-> q[1]]
<1>1. ASSUME NEW p \in W, NEW q \in W, p[1] = q[1]
      PROVE  p = q
  BY <1>1 DEF WinsOf, SoundBracket, WinnersIn, OnceEach
<1>2. \A q \in W : q[1] \in 1..m
  BY SoundPositions DEF Position, WinsOf
<1>3. f \in Injection(W, 1..m)
  BY <1>1, <1>2 DEF Injection, IsInjective
<1>4. IsFiniteSet(1..m) /\ Cardinality(1..m) = m
  <2>1. IsFiniteSet(1..m) /\ Cardinality(1..m) = IF 1 > m THEN 0 ELSE m - 1 + 1
    BY FS_Interval
  <2>2. QED
    BY <2>1
<1>  HIDE DEF f, W
<1>5. IsFiniteSet(W) /\ Cardinality(W) <= m
  BY <1>3, <1>4, FS_Injection
<1>6. QED
  BY <1>5, FS_CardinalityType DEF W

LEMMA WinsAreFinite ==
  ASSUME NEW E, NEW B, SoundBracket(B, E), NEW x, x # NoEntrant
  PROVE  IsFiniteSet(WinsOf(B, x)) /\ Cardinality(WinsOf(B, x)) \in Nat
<1>1. \A q \in WinsOf(B, x) : q[1] <= 8
  BY SoundPositions DEF Position, WinsOf
<1>2. QED
  BY <1>1, WinsAtMost

\* Wins in rounds 2 to m are m - 1 wins.
LEMMA WinsAtLeast ==
  ASSUME NEW E, NEW B, SoundBracket(B, E), NEW x, x # NoEntrant, NEW m \in 1..8,
         \A r \in 2..m : \E q \in WinsOf(B, x) : q[1] = r
  PROVE  Cardinality(WinsOf(B, x)) >= m - 1
<1> DEFINE W == WinsOf(B, x)
           f == [r \in 2..m |-> CHOOSE q \in W : q[1] = r]
<1>1. \A r \in 2..m : f[r] \in W /\ f[r][1] = r
  OBVIOUS
<1>2. f \in [2..m -> W]
  BY <1>1
<1>3. f \in Injection(2..m, W)
  <2>  HIDE DEF f, W
  <2>1. QED
    BY <1>1, <1>2 DEF Injection, IsInjective
<1>4. IsFiniteSet(W) /\ Cardinality(W) \in Nat
  BY WinsAreFinite
<1>5. Cardinality(2..m) = IF 2 > m THEN 0 ELSE m - 1
  BY FS_Interval
<1>  HIDE DEF f, W
<1>6. Cardinality(2..m) <= Cardinality(W)
  BY <1>3, <1>4, FS_Injection
<1>7. QED
  BY <1>4, <1>5, <1>6 DEF W

\* Whoever sits in a match of a round won in every round before it but the first,
\* where a bye is no win.
LEMMA WinsOfASeat ==
  ASSUME NEW E, NEW B, SoundBracket(B, E), NEW p \in DOMAIN B, NEW x, x # NoEntrant,
         Sits(B, x, p)
  PROVE  \A r \in 2..8 : r < p[1] => \E q \in WinsOf(B, x) : q[1] = r
<1> SUFFICES ASSUME NEW r \in 2..8, r < p[1]
             PROVE  \E q \in WinsOf(B, x) : q[1] = r
  OBVIOUS
<1>1. PICK q \in DOMAIN B : q[1] = r /\ B[q].winner = x
  BY WonEarlier
<1>2. IsPlayed(B[q])
  BY <1>1 DEF SoundBracket, WinnersIn, IsPlayed
<1>3. QED
  BY <1>1, <1>2 DEF WinsOf

\* The wins of the first places.  A bracket has k rounds and a champion.
LEMMA WinsByPlace ==
  ASSUME NEW E, NoEntrant \notin E, NEW B, SoundBracket(B, E), NEW k \in 1..8,
         DOMAIN B = Positions(k), Champion(B) # NoEntrant, IsReady(B[FinalOf(B)])
  PROVE  LET c == Champion(B)
             l == LoserOf(B[FinalOf(B)])
             semis == {LoserOf(B[p]) : p \in Semifinals(B)}
             Wins(x) == Cardinality(WinsOf(B, x))
         IN  /\ c \in E /\ l \in E /\ c # l
             /\ Wins(c) >= k - 1 /\ Wins(l) <= k - 1 /\ Wins(l) >= k - 2
             /\ \A s \in semis : /\ s \in E \ {c, l}
                                 /\ Wins(s) <= k - 2 /\ Wins(s) >= k - 3
             /\ \A o \in E \ ({c, l} \cup semis) : Wins(o) = 0 \/ Wins(o) <= k - 3
<1> DEFINE final == FinalOf(B)
           c == Champion(B)
           l == LoserOf(B[final])
           semis == {LoserOf(B[p]) : p \in Semifinals(B)}
<1>1. /\ final \in DOMAIN B /\ final[1] = k
      /\ \A p \in DOMAIN B : p[1] = k => p = final
  BY OneFinal
<1>2. \A p \in DOMAIN B : /\ p[1] \in 1..k /\ p[1] \in Int
                          /\ B[p].a \in E \cup {NoEntrant} /\ B[p].b \in E \cup {NoEntrant}
  BY InPositions DEF SoundBracket, Match
<1>3. ASSUME NEW p \in DOMAIN B, IsPlayed(B[p])
      PROVE  LET loser == LoserOf(B[p])
             IN  /\ B[p].winner \in E /\ loser \in E /\ B[p].winner # loser
                 /\ Sits(B, loser, p) /\ Sits(B, B[p].winner, p)
                 /\ \A x \in E : Sits(B, x, p) => x \in {B[p].winner, loser}
  <2>1. B[p].winner \in {B[p].a, B[p].b} /\ B[p].winner # NoEntrant
        /\ B[p].a # NoEntrant /\ B[p].b # NoEntrant
    BY <1>3 DEF IsPlayed, IsReady, SoundBracket, WinnersIn
  <2>2. B[p].a # B[p].b
    BY <2>1 DEF SoundBracket, OnceEach
  <2>3. LoserOf(B[p]) = IF B[p].winner = B[p].a THEN B[p].b ELSE B[p].a
    BY <1>3 DEF LoserOf
  <2>4. QED
    BY <1>2, <2>1, <2>2, <2>3 DEF Sits
<1>4. IsPlayed(B[final]) /\ c = B[final].winner
  BY DEF Champion, IsPlayed
<1>5. /\ c \in E /\ l \in E /\ c # l /\ Sits(B, l, final) /\ Sits(B, c, final)
      /\ \A x \in E : Sits(B, x, final) => x \in {c, l}
  BY <1>1, <1>3, <1>4
<1>6. \A p \in DOMAIN B, q \in DOMAIN B, x \in E :
         Sits(B, x, p) /\ Sits(B, x, q) /\ p[1] = q[1] => p = q
  BY DEF SoundBracket, OnceEach, Sits
<1>7. \A p \in Semifinals(B) : /\ p \in DOMAIN B /\ IsPlayed(B[p])
                               /\ NextMatch(p) = final /\ p[1] = k - 1
  BY <1>1, <1>2 DEF Semifinals, NextMatch
<1>  HIDE DEF final, c, l, semis
<1>8. ASSUME NEW x \in E, NEW q \in WinsOf(B, x), q[1] = k
      PROVE  x = c
  BY <1>1, <1>4, <1>8 DEF WinsOf
<1>9. ASSUME NEW x \in E, NEW q \in WinsOf(B, x), q[1] = k - 1
      PROVE  x \in {c, l}
  <2>1. q \in DOMAIN B /\ B[q].winner = x /\ q[1] < k
    BY <1>2, <1>9 DEF WinsOf
  <2>2. NextMatch(q) \in DOMAIN B /\ NextMatch(q)[1] = k /\ Sits(B, x, NextMatch(q))
    BY <1>2, <1>9, <2>1, WinnerGoesOn
  <2>3. QED
    BY <1>1, <1>5, <2>2
<1>10. ASSUME NEW x \in E, NEW q \in WinsOf(B, x), q[1] = k - 2
       PROVE  x \in {c, l} \cup semis
  <2>1. q \in DOMAIN B /\ B[q].winner = x /\ q[1] < k /\ k >= 3
    BY <1>2, <1>10 DEF WinsOf
  <2> DEFINE u == NextMatch(q)
  <2>2. u \in DOMAIN B /\ u[1] = k - 1 /\ Sits(B, x, u)
    BY <1>2, <1>10, <2>1, WinnerGoesOn
  <2>  HIDE DEF u
  <2>3. NextMatch(u) \in DOMAIN B /\ NextMatch(u)[1] = k /\ Sits(B, B[u].winner, NextMatch(u))
    BY <1>2, <2>1, <2>2, WinnerGoesOn
  <2>4. NextMatch(u) = final
    BY <1>1, <2>3
  <2>5. B[u].winner # NoEntrant
    BY <1>4, <2>3, <2>4 DEF IsPlayed, IsReady, Sits
  <2>6. IsPlayed(B[u])
    BY <2>1, <2>2, <2>5 DEF SoundBracket, WinnersIn, IsPlayed
  <2>7. u \in Semifinals(B)
    BY <2>2, <2>4, <2>6 DEF Semifinals, final
  <2>8. x = B[u].winner \/ x = LoserOf(B[u])
    BY <1>3, <2>2, <2>6
  <2>9. B[u].winner \in {c, l}
    BY <1>3, <1>5, <2>2, <2>3, <2>4, <2>6
  <2>10. QED
    BY <2>7, <2>8, <2>9 DEF semis
<1>11. ASSUME NEW x \in E
       PROVE  /\ x # NoEntrant /\ Cardinality(WinsOf(B, x)) \in Nat
              /\ \A q \in WinsOf(B, x) : q \in DOMAIN B /\ q[1] \in 1..k
  BY <1>2, <1>11, WinsAreFinite DEF WinsOf
<1>12. ASSUME NEW p \in DOMAIN B, NEW x \in E, Sits(B, x, p)
       PROVE  Cardinality(WinsOf(B, x)) >= p[1] - 2
  <2>1. CASE p[1] = 1
    BY <1>11, <2>1
  <2>2. CASE p[1] # 1
    <3> DEFINE m == p[1] - 1
    <3>1. m \in 1..8 /\ p[1] \in 2..8 /\ m + 1 = p[1]
      BY <1>2, <2>2
    <3>2. \A r \in 2..m : r \in 2..8 /\ r < p[1]
      BY <3>1
    <3>3. \A r \in 2..m : \E q \in WinsOf(B, x) : q[1] = r
      BY <1>11, <1>12, <3>2, WinsOfASeat
    <3>  HIDE DEF m
    <3>4. Cardinality(WinsOf(B, x)) >= m - 1
      BY <1>11, <3>1, <3>3, WinsAtLeast
    <3>5. QED
      BY <1>11, <3>1, <3>4
  <2>3. QED
    BY <2>1, <2>2
<1>13. Cardinality(WinsOf(B, c)) >= k - 1
  <2>1. final \in WinsOf(B, c)
    BY <1>1, <1>4 DEF WinsOf
  <2>2. ASSUME NEW r \in 2..k
        PROVE  \E q \in WinsOf(B, c) : q[1] = r
    <3>1. CASE r = k
      BY <1>1, <2>1, <3>1
    <3>2. CASE r # k
      <4>1. r \in 2..8 /\ r < final[1]
        BY <1>1, <3>2
      <4>2. QED
        BY <1>1, <1>5, <1>11, <4>1, WinsOfASeat
    <3>3. QED
      BY <3>1, <3>2
  <2>3. QED
    BY <1>5, <1>11, <2>2, WinsAtLeast
<1>14. Cardinality(WinsOf(B, l)) <= k - 1
  <2>1. \A q \in WinsOf(B, l) : q[1] <= k - 1
    BY <1>5, <1>8, <1>11
  <2>2. k - 1 \in 0..8
    OBVIOUS
  <2>3. QED
    BY <1>5, <1>11, <2>1, <2>2, WinsAtMost
<1>15. Cardinality(WinsOf(B, l)) >= k - 2
  BY <1>1, <1>5, <1>12
<1>16. ASSUME NEW s \in semis
       PROVE  /\ s \in E \ {c, l}
              /\ Cardinality(WinsOf(B, s)) <= k - 2 /\ Cardinality(WinsOf(B, s)) >= k - 3
  <2>1. PICK p \in Semifinals(B) : s = LoserOf(B[p])
    BY DEF semis
  <2>2. p \in DOMAIN B /\ IsPlayed(B[p]) /\ NextMatch(p) = final /\ p[1] = k - 1
    BY <1>7
  <2>3. s \in E /\ B[p].winner # s /\ Sits(B, s, p)
    BY <1>3, <2>1, <2>2
  <2>4. ASSUME Sits(B, s, final)
        PROVE  FALSE
    <3>1. k - 1 \in 1..8 /\ k - 1 < final[1]
      BY <1>1, <1>2, <2>2
    <3>2. PICK f \in DOMAIN B : f[1] = k - 1 /\ B[f].winner = s
      BY <1>1, <1>11, <2>3, <2>4, <3>1, WonEarlier
    <3>3. Sits(B, s, f)
      BY <1>11, <2>3, <3>2 DEF SoundBracket, WinnersIn, Sits
    <3>4. f = p
      BY <1>6, <2>2, <2>3, <3>2, <3>3
    <3>5. QED
      BY <2>3, <3>2, <3>4
  <2>5. s \notin {c, l}
    BY <1>5, <2>4
  <2>6. \A q \in WinsOf(B, s) : q[1] <= k - 2
    BY <1>8, <1>9, <1>11, <2>3, <2>5
  <2>7. k - 2 \in 0..8
    BY <1>2, <2>2
  <2>8. Cardinality(WinsOf(B, s)) <= k - 2
    BY <1>11, <2>3, <2>6, <2>7, WinsAtMost
  <2>9. Cardinality(WinsOf(B, s)) >= (k - 1) - 2
    BY <1>12, <2>2, <2>3
  <2>10. QED
    BY <1>11, <2>3, <2>5, <2>8, <2>9
<1>17. ASSUME NEW o \in E \ ({c, l} \cup semis)
       PROVE  Cardinality(WinsOf(B, o)) = 0 \/ Cardinality(WinsOf(B, o)) <= k - 3
  <2>1. \A q \in WinsOf(B, o) : q[1] <= k - 3
    BY <1>8, <1>9, <1>10, <1>11
  <2>2. CASE k >= 3
    <3>1. k - 3 \in 0..8
      BY <2>2
    <3>2. QED
      BY <1>11, <2>1, <3>1, WinsAtMost
  <2>3. CASE ~(k >= 3)
    <3>1. \A q \in WinsOf(B, o) : q[1] <= 0
      BY <1>11, <2>1, <2>3
    <3>2. QED
      BY <1>11, <3>1, WinsAtMost
  <2>4. QED
    BY <2>2, <2>3
<1>18. QED
  BY <1>5, <1>13, <1>14, <1>15, <1>16, <1>17 DEF final, c, l, semis

--------------------------------------------------------------------------------
(* What the places pay.                                                    *)

Seeded == {seeds[i] : i \in DOMAIN seeds}

AwardOf(e, kind, source) == [player |-> e, kind |-> kind, source |-> source]
WinAwards(e)   == {AwardOf(e, "match_win", MatchRef(1, p)) : p \in WinsOf(matches, e)}
SumOfAwards(A, tier) == MapThenSumSet(LAMBDA a : PaidFor(a.kind, tier), A)

\* What is paid to e for its place, besides its entry and its wins.
PlaceOf(e) ==
  {kind \in {"champion", "finalist", "semifinalist"} :
     \/ kind = "champion" /\ e = Champion(matches)
     \/ kind = "finalist" /\ e = LoserOf(matches[FinalOf(matches)])
     \/ kind = "semifinalist" /\ e \in {LoserOf(matches[p]) : p \in Semifinals(matches)}}

LEMMA AwardsAreTheTotal ==
  ASSUME NEW A, NEW tier
  PROVE  SumOfAwards(A, tier) = Total([a \in A |-> PaidFor(a.kind, tier)], A)
<1> DEFINE w == [a \in A |-> PaidFor(a.kind, tier)]
           Adds(g) == [s \in SUBSET A |->
                        IF s = {} THEN 0
                        ELSE PaidFor((CHOOSE x \in s : TRUE).kind, tier)
                             + g[s \ {CHOOSE x \in s : TRUE}]]
<1>1. SumOfAwards(A, tier) = (CHOOSE g : g = Adds(g))[A]
  BY DEF SumOfAwards, MapThenSumSet, MapThenFoldSet
<1>2. \A g : IsSum(g, w, A) <=> g = Adds(g)
  <2>1. \A s \in SUBSET A : s # {} => w[Pick(s)] = PaidFor((CHOOSE x \in s : TRUE).kind, tier)
    BY Picked DEF Pick
  <2>2. ASSUME NEW g
        PROVE  [s \in SUBSET A |-> IF s = {} THEN 0 ELSE w[Pick(s)] + g[s \ {Pick(s)}]] = Adds(g)
    BY <2>1 DEF Pick
  <2>3. QED
    BY <2>2 DEF IsSum
<1>3. SumsOf(w, A) = (CHOOSE g : g = Adds(g))
  BY <1>2 DEF SumsOf
<1>4. QED
  BY <1>1, <1>3 DEF Total

LEMMA PayOf ==
  ASSUME NoPlayer \notin Seeded, NEW kind, NEW e, NEW source
  PROVE  Pay(Field, kind, e, source) = IF e \in Seeded THEN {AwardOf(e, kind, source)} ELSE {}
<1>1. DOMAIN Field = Seeded /\ \A x \in Seeded : Field[x] = x
  BY DEF Field, Seeded
<1>2. {y \in DOMAIN Field : y = e /\ Field[y] # NoPlayer} = IF e \in Seeded THEN {e} ELSE {}
  BY <1>1
<1>3. QED
  BY <1>1, <1>2 DEF Pay, AwardOf

\* The awards of an entrant: its entry, its wins and its place.
LEMMA AwardsOfOne ==
  ASSUME NoPlayer \notin Seeded, matches # NoMatches, NEW e \in Seeded
  PROVE  {a \in TournamentAwards(Field, matches, 1, NoEntrant) : a.player = e}
         = ({AwardOf(e, "entry", TournamentRef)} \cup WinAwards(e))
           \cup {AwardOf(e, kind, TournamentRef) : kind \in PlaceOf(e)}
<1> DEFINE A == TournamentAwards(Field, matches, 1, NoEntrant)
           Entries == UNION {Pay(Field, "entry", x, TournamentRef) : x \in DOMAIN Field}
           Wins == UNION {Pay(Field, "match_win", matches[p].winner, MatchRef(1, p)) :
                            p \in {p \in DOMAIN matches : IsPlayed(matches[p])}}
           Losers == UNION {Pay(Field, "semifinalist", LoserOf(matches[p]), TournamentRef) :
                              p \in Semifinals(matches)}
           First == Pay(Field, "champion", Champion(matches), TournamentRef)
           Second == Pay(Field, "finalist", LoserOf(matches[FinalOf(matches)]), TournamentRef)
<1>1. A = Entries \cup Wins \cup Losers \cup First \cup Second
  BY DEF TournamentAwards
<1>2. DOMAIN Field = Seeded
  BY DEF Field, Seeded
<1>3. \A x, kind, source : AwardOf(x, kind, source).player = x
  BY DEF AwardOf
<1>4. \A a : a \in Entries /\ a.player = e <=> a = AwardOf(e, "entry", TournamentRef)
  BY <1>2, <1>3, PayOf
<1>5. \A a : a \in Wins /\ a.player = e <=> a \in WinAwards(e)
  BY <1>3, PayOf DEF WinAwards, WinsOf
<1>6. \A a : a \in Losers /\ a.player = e <=>
               /\ e \in {LoserOf(matches[p]) : p \in Semifinals(matches)}
               /\ a = AwardOf(e, "semifinalist", TournamentRef)
  BY <1>3, PayOf
<1>7. \A a : a \in First /\ a.player = e <=>
               e = Champion(matches) /\ a = AwardOf(e, "champion", TournamentRef)
  BY <1>3, PayOf
<1>8. \A a : a \in Second /\ a.player = e <=>
               /\ e = LoserOf(matches[FinalOf(matches)])
               /\ a = AwardOf(e, "finalist", TournamentRef)
  BY <1>3, PayOf
<1>  HIDE DEF A, Entries, Wins, Losers, First, Second
<1>9. \A a : a \in {AwardOf(e, kind, TournamentRef) : kind \in PlaceOf(e)} <=>
               \/ e = Champion(matches) /\ a = AwardOf(e, "champion", TournamentRef)
               \/ /\ e = LoserOf(matches[FinalOf(matches)])
                  /\ a = AwardOf(e, "finalist", TournamentRef)
               \/ /\ e \in {LoserOf(matches[p]) : p \in Semifinals(matches)}
                  /\ a = AwardOf(e, "semifinalist", TournamentRef)
  BY DEF PlaceOf
<1>10. QED
  BY <1>1, <1>4, <1>5, <1>6, <1>7, <1>8, <1>9 DEF A

\* The wins are paid one by one.
LEMMA WinsPaid ==
  ASSUME NEW e, NEW tier, NEW w, IsFiniteSet(WinsOf(matches, e)),
         \A p \in DOMAIN matches : p = <<p[1], p[2]>>,
         \A a \in WinAwards(e) : w[a] = 30
  PROVE  IsFiniteSet(WinAwards(e))
         /\ Total(w, WinAwards(e)) = 30 * Cardinality(WinsOf(matches, e))
<1> DEFINE W == WinsOf(matches, e)
           f == [p \in W |-> AwardOf(e, "match_win", MatchRef(1, p))]
<1>1. ASSUME NEW p \in W, NEW q \in W, f[p] = f[q]
      PROVE  p = q
  <2>1. MatchRef(1, p) = MatchRef(1, q)
    BY <1>1 DEF AwardOf
  <2>2. p[1] = q[1] /\ p[2] = q[2]
    BY <2>1 DEF MatchRef
  <2>3. QED
    BY <2>2 DEF WinsOf
<1>2. f \in [W -> WinAwards(e)] /\ \A a \in WinAwards(e) : \E p \in W : f[p] = a
  BY DEF WinAwards
<1>3. f \in Bijection(W, WinAwards(e))
  <2>  HIDE DEF f, W
  <2>1. QED
    BY <1>1, <1>2 DEF Bijection, Injection, IsInjective, Surjection
<1>4. IsFiniteSet(WinAwards(e)) /\ Cardinality(WinAwards(e)) = Cardinality(W)
  BY <1>3, FS_Bijection DEF ExistsBijection
<1>5. QED
  BY <1>4, TotalOfEqual

\* What an entrant takes home: 40 for its entry, 30 for each win, and its place.
LEMMA HomeIs ==
  ASSUME NoPlayer \notin Seeded, NoEntrant \notin Seeded, matches # NoMatches,
         SoundBracket(matches, Seeded), NEW e \in Seeded
  PROVE  LET n    == Cardinality(WinsOf(matches, e))
             tier == TierFor(Len(seeds))
         IN  /\ PlaceOf(e) = {} => TakesHome[e] = 40 + 30 * n
             /\ \A kind \in {"champion", "finalist", "semifinalist"} :
                  PlaceOf(e) = {kind} => TakesHome[e] = 40 + 30 * n + Placement[kind][tier]
<1> DEFINE n == Cardinality(WinsOf(matches, e))
           tier == TierFor(Len(seeds))
           entry == AwardOf(e, "entry", TournamentRef)
           W == WinAwards(e)
           Prize(kind) == AwardOf(e, kind, TournamentRef)
           P == {Prize(kind) : kind \in PlaceOf(e)}
           A == ({entry} \cup W) \cup P
           w == [a \in A |-> PaidFor(a.kind, tier)]
<1>1. IsFiniteSet(WinsOf(matches, e)) /\ n \in Nat
  BY WinsAreFinite
<1>2. TakesHome[e] = SumOfAwards({a \in TournamentAwards(Field, matches, 1, NoEntrant) :
                                    a.player = e}, tier)
  BY DEF TakesHome, Field, Seeded, SumOfAwards, MapThenSumSet, MapThenFoldSet
<1>3. TakesHome[e] = Total(w, A)
  BY <1>2, AwardsOfOne, AwardsAreTheTotal
<1>4. \A a \in {entry} \cup W \cup P : w[a] = PaidFor(a.kind, tier)
  OBVIOUS
<1>5. w[entry] = 40 /\ entry.kind = "entry"
  BY <1>4 DEF PaidFor, AwardOf
<1>6. \A a \in W : w[a] = 30 /\ a.kind = "match_win"
  BY <1>4 DEF PaidFor, AwardOf, WinAwards
<1>7. tier \in FieldTier
  BY DEF TierFor, FieldTier
<1>8. \A kind \in PlaceOf(e) : /\ w[Prize(kind)] = Placement[kind][tier]
                               /\ Placement[kind][tier] \in Nat
                               /\ Prize(kind).kind = kind
                               /\ kind \in {"champion", "finalist", "semifinalist"}
  <2>1. \A kind \in PlaceOf(e) : /\ Prize(kind).kind = kind
                                 /\ kind \in {"champion", "finalist", "semifinalist"}
    BY DEF PlaceOf, AwardOf
  <2>2. \A kind \in {"champion", "finalist", "semifinalist"} :
          PaidFor(kind, tier) = Placement[kind][tier] /\ Placement[kind][tier] \in Nat
    BY <1>7 DEF PaidFor, Placement, FieldTier
  <2>3. QED
    BY <1>4, <2>1, <2>2
<1>9. \A p \in DOMAIN matches : p = <<p[1], p[2]>>
  BY SoundPositions DEF Position
<1>  HIDE DEF w, W, entry, Prize, tier
<1>10. IsFiniteSet(W) /\ Total(w, W) = 30 * n
  BY <1>1, <1>6, <1>9, WinsPaid DEF W
<1>11. Total(w, {entry} \cup W) = 40 + 30 * n /\ IsFiniteSet({entry} \cup W)
  <2>1. {entry} \cap W = {}
    BY <1>5, <1>6
  <2>2. Total(w, {entry}) = 40
    BY <1>5, TotalOfOne
  <2>3. \A x \in {entry} \cup W : w[x] \in Int
    BY <1>5, <1>6
  <2>4. IsFiniteSet({entry})
    BY FS_Singleton
  <2>5. Total(w, {entry} \cup W) = Total(w, {entry}) + Total(w, W)
    BY <1>10, <2>1, <2>3, <2>4, TotalUnion
  <2>6. IsFiniteSet({entry} \cup W)
    BY <1>10, <2>4, FS_Union
  <2>7. QED
    BY <1>1, <1>10, <2>2, <2>5, <2>6
<1>12. PlaceOf(e) = {} => TakesHome[e] = 40 + 30 * n
  <2>1. SUFFICES ASSUME PlaceOf(e) = {}
                 PROVE  TakesHome[e] = 40 + 30 * n
    OBVIOUS
  <2>2. A = {entry} \cup W
    BY <2>1
  <2>3. QED
    BY <1>3, <1>11, <2>2
<1>13. ASSUME NEW kind \in {"champion", "finalist", "semifinalist"}, PlaceOf(e) = {kind}
       PROVE  TakesHome[e] = 40 + 30 * n + Placement[kind][tier]
  <2>1. P = {Prize(kind)}
    BY <1>13
  <2>2. w[Prize(kind)] = Placement[kind][tier] /\ Placement[kind][tier] \in Nat
        /\ Prize(kind).kind = kind
    BY <1>8, <1>13
  <2>3. ({entry} \cup W) \cap P = {}
    BY <1>5, <1>6, <2>1, <2>2
  <2>4. Total(w, P) = Placement[kind][tier] /\ IsFiniteSet(P)
    <3>1. w[Prize(kind)] \in Int
      BY <2>2
    <3>2. Total(w, {Prize(kind)}) = w[Prize(kind)]
      BY <3>1, TotalOfOne
    <3>3. IsFiniteSet({Prize(kind)})
      BY FS_Singleton
    <3>  HIDE DEF P
    <3>4. QED
      BY <2>1, <2>2, <3>2, <3>3
  <2>5. \A x \in ({entry} \cup W) \cup P : w[x] \in Int
    BY <1>5, <1>6, <2>1, <2>2
  <2>  HIDE DEF P
  <2>6. Total(w, A) = Total(w, {entry} \cup W) + Total(w, P)
    BY <1>11, <2>3, <2>4, <2>5, TotalUnion
  <2>7. QED
    BY <1>1, <1>3, <1>11, <2>2, <2>4, <2>6
<1>14. QED
  BY <1>12, <1>13 DEF tier

--------------------------------------------------------------------------------
(* The brackets that are reached.                                          *)

\* A bracket that stands is one of the seeds, and its round one as it was drawn.
SeedsPlay == matches # NoMatches => SoundBracket(matches, Seeded)

LEMMA AnOrderOfItsSeeds ==
  ASSUME NEW order \in Orders
  PROVE  OrderOf(order, {order[i] : i \in DOMAIN order})
<1> DEFINE E == {order[i] : i \in DOMAIN order}
<1>1. OrderOf(order, Entrant)
  BY AnOrder
<1>2. E \subseteq Entrant
  BY <1>1 DEF OrderOf
<1>3. order \in Seq(E)
  BY <1>1 DEF OrderOf
<1>4. QED
  BY <1>1, <1>2, <1>3 DEF OrderOf

LEMMA SeedsPlayInvariant == Spec => []SeedsPlay
<1>1. Init => SeedsPlay
  BY DEF Init, SeedsPlay
<1>2. SeedsPlay /\ [Next]_vars => SeedsPlay'
  <2>  SUFFICES ASSUME SeedsPlay, [Next]_vars
                PROVE  SeedsPlay'
    OBVIOUS
  <2>1. ASSUME NEW order \in Orders, Draw(order)
        PROVE  SeedsPlay'
    <3>1. matches' = Generate(order) /\ seeds' = order
      BY <2>1 DEF Draw
    <3>2. SoundBracket(Generate(order), {order[i] : i \in DOMAIN order})
      BY AnOrderOfItsSeeds, GenerateSound
    <3> DEFINE B == Generate(order)
               E == {order[i] : i \in DOMAIN order}
    <3>3. Seeded' = E /\ matches' = B
      BY <3>1 DEF Seeded
    <3>  HIDE DEF B, E
    <3>4. SoundBracket(matches', Seeded') <=> SoundBracket(matches, Seeded)'
      BY DEF SoundBracket, SidesAgree, WinnersIn, OnceEach
    <3>5. QED
      BY <3>2, <3>3, <3>4 DEF SeedsPlay, B, E
  <2>2. CASE DeleteBracket \/ Delete
    BY <2>2 DEF DeleteBracket, Delete, SeedsPlay
  <2>3. ASSUME NEW p \in DOMAIN matches, NEW e \in {matches[p].a, matches[p].b, NoEntrant},
               IsReady(matches[p]), NextUndecided(matches, p),
               matches' = Feed([matches EXCEPT ![p].winner = e], p, e), seeds' = seeds
        PROVE  SeedsPlay'
    <3>1. SoundBracket(matches, Seeded)
      BY DEF SeedsPlay, NoMatches
    <3>2. SoundBracket(Feed([matches EXCEPT ![p].winner = e], p, e), Seeded)
      BY <2>3, <3>1, ResultSound
    <3>3. Seeded' = Seeded
      BY <2>3 DEF Seeded
    <3>4. QED
      BY <2>3, <3>2, <3>3 DEF SeedsPlay, SoundBracket, SidesAgree, WinnersIn, OnceEach
  <2>4. ASSUME NEW p \in DOMAIN matches, NEW w \in {matches[p].a, matches[p].b},
               ReportResult(p, w)
        PROVE  SeedsPlay'
    BY <2>3, <2>4 DEF ReportResult, CanReport, Reported
  <2>5. ASSUME NEW p \in DOMAIN matches, ClearResult(p)
        PROVE  SeedsPlay'
    BY <2>3, <2>5 DEF ClearResult, CanClear, Cleared, IsPlayed
  <2>6. CASE UNCHANGED vars
    BY <2>6 DEF vars, SeedsPlay, Seeded, SoundBracket, SidesAgree, WinnersIn, OnceEach
  <2>7. QED
    BY <2>1, <2>2, <2>4, <2>5, <2>6 DEF Next
<1>3. QED
  BY <1>1, <1>2, PTL DEF Spec

\* A champion has beaten somebody: the only match of a field of two is no bye.
LEMMA FinalIsPlayed ==
  ASSUME Seated, SeedsPlay, matches # NoMatches, Champion(matches) # NoEntrant
  PROVE  IsReady(matches[FinalOf(matches)])
<1> DEFINE n == Len(seeds)
           k == RoundCount(n)
<1>1. seeds \in Orders /\ DOMAIN matches = Positions(k)
  BY DEF Seated
<1>2. OrderOf(seeds, Entrant) /\ n \in 2..256
  BY <1>1, AnOrder DEF OrderOf
<1>3. k \in 1..8 /\ Pow2[k - 1] < n /\ n <= Pow2[k]
  BY <1>2, Rounds
<1>  HIDE DEF k
<1>4. FinalOf(matches) \in DOMAIN matches /\ FinalOf(matches)[1] = k
  BY <1>1, <1>3, OneFinal
<1>5. CASE k # 1
  BY <1>4, <1>5 DEF SeedsPlay, SoundBracket, WinnersIn, Champion
<1>6. CASE k = 1
  <2>1. n = 2 /\ Pow2[k] - n = 0
    <3>1. Pow2[0] = 1 /\ Pow2[1] = 2 /\ k - 1 = 0
      BY <1>6 DEF Pow2
    <3>2. Pow2[k - 1] = 1 /\ Pow2[k] = 2
      BY <1>6, <3>1
    <3>3. n \in 2..256 /\ n <= 2
      BY <1>2, <1>3, <3>2
    <3>  HIDE DEF n
    <3>4. n = 2
      BY <3>3
    <3>5. QED
      BY <3>2, <3>4
  <2>2. FinalOf(matches)[2] = 0
    <3>1. Pow2[k - k] = 1
      BY <1>6 DEF Pow2
    <3>2. FinalOf(matches) \in Positions(k)
      BY <1>1, <1>4
    <3>3. FinalOf(matches)[2] \in 0..Pow2[k - FinalOf(matches)[1]] - 1
      BY <1>3, <3>2, InPositions
    <3>4. FinalOf(matches)[2] \in 0..1 - 1
      BY <1>4, <3>1, <3>3
    <3>5. QED
      BY <3>4
  <2>3. FirstRoundMatch(seeds, 0, 0).a = seeds[1] /\ FirstRoundMatch(seeds, 0, 0).b = seeds[2]
    BY DEF FirstRoundMatch
  <2>4. matches[FinalOf(matches)].a = seeds[1] /\ matches[FinalOf(matches)].b = seeds[2]
    BY <1>4, <1>6, <2>1, <2>2, <2>3 DEF Seated, k
  <2>5. seeds[1] # NoEntrant /\ seeds[2] # NoEntrant
    <3>1. seeds \in Seq(Entrant) /\ NoEntrant \notin Entrant
      BY <1>2 DEF OrderOf
    <3>2. seeds[1] \in Entrant /\ seeds[2] \in Entrant
      BY <2>1, <3>1
    <3>3. QED
      BY <3>1, <3>2
  <2>6. QED
    BY <2>4, <2>5 DEF IsReady
<1>7. QED
  BY <1>5, <1>6

\* tournament_awards pays a better place more in every field up to MAX_ENTRANTS and
\* of every tier, however the byes fell and whatever was corrected: a place is worth
\* more than the one win that a bye may cost.
THEOREM BetterPlacesEarnMore ==
  ASSUME NoPlayer \notin Entrant
  PROVE  Spec => []PlacesPayInOrder
<1>1. Sound /\ Seated /\ SeedsPlay => PlacesPayInOrder
  <2>  SUFFICES ASSUME Seated, SeedsPlay, matches # NoMatches, Champion(matches) # NoEntrant
                PROVE  PlacesPayInOrder
    BY DEF PlacesPayInOrder
  <2>  DEFINE c == Champion(matches)
              l == LoserOf(matches[FinalOf(matches)])
              semis == {LoserOf(matches[p]) : p \in Semifinals(matches)}
              others == Seeded \ ({c, l} \cup semis)
              tier == TierFor(Len(seeds))
              Wins(x) == Cardinality(WinsOf(matches, x))
  <2>1. OrderOf(seeds, Entrant)
    BY AnOrder DEF Seated
  <2>2. Seeded \subseteq Entrant
    BY <2>1 DEF OrderOf, Seeded
  <2>3. NoPlayer \notin Seeded /\ NoEntrant \notin Seeded
    BY <2>1, <2>2 DEF OrderOf
  <2>4. SoundBracket(matches, Seeded) /\ IsReady(matches[FinalOf(matches)])
    BY FinalIsPlayed DEF SeedsPlay
  <2>5. PICK k \in 1..8 : DOMAIN matches = Positions(k)
    BY <2>4 DEF SoundBracket
  <2>6. /\ c \in Seeded /\ l \in Seeded /\ c # l
        /\ Wins(c) >= k - 1 /\ Wins(l) <= k - 1 /\ Wins(l) >= k - 2
        /\ \A s \in semis : /\ s \in Seeded \ {c, l}
                            /\ Wins(s) <= k - 2 /\ Wins(s) >= k - 3
        /\ \A o \in others : Wins(o) = 0 \/ Wins(o) <= k - 3
    BY <2>3, <2>4, <2>5, WinsByPlace
  <2>7. \A x \in Seeded : Wins(x) \in Nat
    BY <2>3, <2>4, WinsAreFinite
  <2>8. tier \in FieldTier
    BY DEF TierFor, FieldTier
  <2>9. /\ PlaceOf(c) = {"champion"} /\ PlaceOf(l) = {"finalist"}
        /\ \A s \in semis : PlaceOf(s) = {"semifinalist"}
        /\ \A o \in others : PlaceOf(o) = {}
    BY <2>6 DEF PlaceOf
  <2>10. /\ TakesHome[c] = 40 + 30 * Wins(c) + Placement["champion"][tier]
         /\ TakesHome[l] = 40 + 30 * Wins(l) + Placement["finalist"][tier]
         /\ \A s \in semis : TakesHome[s] = 40 + 30 * Wins(s) + Placement["semifinalist"][tier]
         /\ \A o \in others : TakesHome[o] = 40 + 30 * Wins(o)
    BY <2>3, <2>4, <2>6, <2>9, HomeIs
  <2>11. /\ Placement["champion"][tier] \in Nat /\ Placement["finalist"][tier] \in Nat
         /\ Placement["semifinalist"][tier] \in Nat /\ Placement["semifinalist"][tier] > 0
         /\ Placement["champion"][tier] > Placement["finalist"][tier]
         /\ Placement["finalist"][tier] > Placement["semifinalist"][tier]
    BY <2>8 DEF Placement, FieldTier
  <2>12. semis = {LoserOf(matches[p]) : p \in {q \in DOMAIN matches :
                    IsPlayed(matches[q]) /\ NextMatch(q) = FinalOf(matches)}}
    BY DEF Semifinals
  <2>13. DOMAIN Field = Seeded
    BY DEF Field, Seeded
  <2>  HIDE DEF c, l, semis, tier, Wins
  <2>14. TakesHome[c] > TakesHome[l]
    BY <2>6, <2>7, <2>10, <2>11
  <2>15. \A s \in semis : TakesHome[l] > TakesHome[s]
    BY <2>6, <2>7, <2>10, <2>11
  <2>16. \A s \in semis, o \in others : TakesHome[s] > TakesHome[o]
    BY <2>6, <2>7, <2>10, <2>11
  <2>17. QED
    BY <2>12, <2>13, <2>14, <2>15, <2>16 DEF PlacesPayInOrder, c, l
<1>2. QED
  BY <1>1, SoundInvariant, SeatedInvariant, SeedsPlayInvariant, PTL
==============================================================================
