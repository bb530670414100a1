--------------------------- MODULE SpeculationProofs ---------------------------
(***************************************************************************)
(* A drafter works from the accepted context, for every alphabet, window,  *)
(* margin, ring, number of proposals and set of prompts, however many      *)
(* rounds and requests follow each other.                                  *)
(*                                                                         *)
(* The properties say what a draft model attends to in one step.  The      *)
(* invariant says what its cache holds between the steps: the trimmed      *)
(* cache is the end of what was fed and long enough for the proposals that *)
(* commit may still drop from it; the ring holds the last positions up to  *)
(* one not far ahead, and those that are not ahead hold what was fed.  The *)
(* prompt lookup holds the prompt until it is asked first and all that is  *)
(* accepted from then on, and its index is the one of a fresh prefill.     *)
(*                                                                         *)
(* Followers and Copied are recursive: that they have a value, and that    *)
(* indexing may resume where it stopped (FollowersSplit), follows from the *)
(* least counterexample.                                                   *)
(***************************************************************************)
EXTENDS Speculation, FiniteSetTheorems, TLAPS, WellFoundedInduction

(* The invariant *)

Active == stage \in {"round", "draft", "verify"}
Drafting == stage \in {"draft", "verify"}

\* The position of the row that the draft model writes next.
NextPos == IF stage = "round" THEN LastPos ELSE Len(Fed)

\* The rows up to here were accepted when the round began, or its first step
\* wrote them.
Settled == IF stage = "round" THEN LastPos ELSE Len(context)

LoopTypes ==
  /\ drafter \in Drafters
  /\ context \in Seq(Tokens) /\ props \in Seq(Tokens)
  /\ {promptLen, wanted, requests} \subseteq Nat
  /\ stage \in {"idle", "round", "draft", "verify", "failed"}

LoopRight ==
  /\ Active => promptLen > 0 /\ promptLen < Len(context)
  /\ ~Drafting => props = <<>>
  /\ Drafting => wanted \in 1 .. MaxK
  /\ stage = "draft" => Len(props) < wanted /\ drafter # "ngram"
  /\ stage = "verify" /\ drafter # "ngram" => Len(props) = wanted

\* The trimmed cache holds the end of what was fed.
WindowedRight ==
  drafter = "windowed" /\ Active =>
    /\ nSeen = NextPos
    /\ Drafting => lastK = wanted
    /\ cache \in Seq([pos : Int, token : Tokens])
    /\ Len(cache) <= nSeen /\ Len(cache) <= Window + Margin
    /\ Len(cache) = nSeen \/ Len(cache) >= Window - MaxK + Len(props)
    /\ \A i \in 1 .. Len(cache) :
         cache[i] = Row(nSeen - Len(cache) + i - 1, Fed[nSeen - Len(cache) + i])

\* The ring holds the last positions up to m, where they belong.
Held(ring, m) ==
  /\ \A p \in 0 .. m : p > m - Ring => ring[p % Ring].pos = p
  /\ \A s \in Slots : \/ ring[s].pos = -1
                      \/ /\ ring[s].pos \in 0 .. m /\ ring[s].pos > m - Ring
                         /\ ring[s].pos % Ring = s

\* What was fed before position n is held right.
HeldRight(ring, fed, n) ==
  \A s \in Slots :
    ring[s].pos \in 0 .. n - 1 => ring[s] = Row(ring[s].pos, fed[ring[s].pos + 1])

\* Rejected proposals may be held too, of positions not far ahead.
StaticRight ==
  drafter = "static" /\ Active =>
    /\ DOMAIN slots = Slots
    /\ \E m \in NextPos - 1 .. Settled - 1 + MaxK : Held(slots, m)
    /\ HeldRight(slots, Fed, NextPos)

\* The last step attended to the end of what was fed, to enough of it.
SeenRight ==
  Drafting /\ drafter # "ngram" =>
    \E low \in 0 .. Len(Fed) - 1 :
      /\ low = 0 \/ low <= Len(Fed) - (Size - MaxK + 1)
      /\ seen = {Row(p, Fed[p + 1]) : p \in low .. Len(Fed) - 1}

DraftInv == LoopTypes /\ LoopRight /\ WindowedRight /\ StaticRight /\ SeenRight

\* What the prompt lookup knows after its first proposal.
Known ==
  IF FirstTokenLost
  THEN SubSeq(context, 1, promptLen) \o SubSeq(context, promptLen + 2, Len(context))
  ELSE context

\* Before its first proposal the prompt lookup knows the prompt, afterwards
\* what is Known, which ends with the last token.
KnownRight ==
  drafter = "ngram" /\ Active =>
    \/ /\ stage = "round" /\ Len(context) = promptLen + 1
       /\ tokens = SubSeq(context, 1, promptLen)
    \/ /\ tokens = Known
       /\ stage = "round" => Len(tokens) > 0 /\ tokens[Len(tokens)] = LastToken

NgramRight == tokens \in Seq(Tokens) /\ IndexExact /\ KnownRight

SpeculationInv == DraftInv /\ NgramRight

-----------------------------------------------------------------------------
(* Facts *)

LEMMA SizeFacts ==
  /\ Window \in Nat /\ Margin \in Nat /\ Ring \in Nat /\ Ring > 0 /\ N \in Nat /\ N > 0
  /\ MaxK \in Nat /\ MaxK > 0 /\ MaxK < Window /\ MaxK < Ring /\ NgramMaxK \in Nat
BY WindowAssumption, RingAssumption, SpeculationAssumption, NgramAssumption

LEMMA FedFacts ==
  ASSUME LoopTypes
  PROVE  /\ Len(context) \in Nat /\ Len(props) \in Nat
         /\ Fed \in Seq(Tokens) /\ Len(Fed) = Len(context) + Len(props)
         /\ \A i \in 1 .. Len(context) : Fed[i] = context[i]
         /\ \A i \in 1 .. Len(props) : Fed[Len(context) + i] = props[i]
<1>1. context \in Seq(Tokens) /\ props \in Seq(Tokens)
  BY DEF LoopTypes
<1> QED BY <1>1 DEF Fed

\* Where a position goes in the ring, and which others go there.
LEMMA SlotFacts ==
  ASSUME NEW p \in Nat
  PROVE  /\ p % Ring \in Slots
         /\ (p + Ring) % Ring = p % Ring
         /\ \A q \in Nat : p < q /\ p % Ring = q % Ring => p + Ring <= q
<1> DEFINE a == p \div Ring
           r == p % Ring
<1>1. a \in Nat /\ r \in 0 .. Ring - 1 /\ p = Ring * a + r
  BY SizeFacts
<1>2. p % Ring \in Slots
  BY <1>1, SizeFacts DEF Slots
<1>3. (p + Ring) % Ring = p % Ring
  <2> DEFINE x == p + Ring
             c == x \div Ring
             d == x % Ring
             b == a + 1
  <2>1. x = Ring * b + r /\ b \in Nat
    BY <1>1, SizeFacts
  <2>2. c \in Nat /\ d \in 0 .. Ring - 1 /\ x = Ring * c + d
    BY SizeFacts
  <2> HIDE DEF a, b, c, d, r, x
  <2>3. \A e, f \in Nat : e < f => Ring * e + Ring <= Ring * f
    <3> SUFFICES ASSUME NEW e \in Nat, NEW f \in Nat, e < f PROVE Ring * e + Ring <= Ring * f
      OBVIOUS
    <3>1. PICK g \in Nat : f = e + 1 + g
      <4>1. f - e - 1 \in Nat /\ f = e + 1 + (f - e - 1)
        OBVIOUS
      <4> QED BY <4>1
    <3>2. Ring * f = Ring * e + Ring + Ring * g /\ Ring * g \in Nat /\ Ring * e \in Nat
      BY <3>1, SizeFacts
    <3> QED BY <3>2, SizeFacts
  <2>4. Ring * b \in Nat /\ Ring * c \in Nat
    BY <2>1, <2>2, SizeFacts
  <2>5. b = c
    BY <1>1, <2>1, <2>2, <2>3, <2>4, SizeFacts
  <2>6. d = r
    BY <1>1, <2>1, <2>2, <2>4, <2>5
  <2> QED BY <2>6 DEF d, r, x
<1>4. ASSUME NEW q \in Nat, p < q, p % Ring = q % Ring
      PROVE  p + Ring <= q
  <2> DEFINE b == q \div Ring
  <2>1. b \in Nat /\ q = Ring * b + r
    BY <1>4, SizeFacts
  <2> HIDE DEF a, b, r
  <2>2. Ring * a < Ring * b
    BY <1>1, <1>4, <2>1, SizeFacts
  <2>3. a < b
    BY <1>1, <2>1, <2>2, SizeFacts
  <2>4. Ring * (a + 1) <= Ring * b
    BY <1>1, <2>1, <2>3, SizeFacts
  <2> QED BY <1>1, <2>1, <2>4, SizeFacts
<1> QED BY <1>2, <1>3, <1>4

\* One step of the trimmed cache on the token after those that were fed.
LEMMA FeedWindowed ==
  ASSUME nSeen \in Nat, cache \in Seq([pos : Int, token : Tokens]),
         Len(cache) <= nSeen, Len(cache) <= Window + Margin,
         NEW j \in 0 .. MaxK - 1, Len(cache) = nSeen \/ Len(cache) >= Window - MaxK + j,
         NEW fed \in Seq(Tokens), Len(fed) = nSeen + 1,
         \A i \in 1 .. Len(cache) :
           cache[i] = Row(nSeen - Len(cache) + i - 1, fed[nSeen - Len(cache) + i]),
         NEW k, WindowedStep(fed[nSeen + 1], k)
  PROVE  /\ nSeen' = nSeen + 1 /\ lastK' = k
         /\ cache' \in Seq([pos : Int, token : Tokens])
         /\ Len(cache') <= nSeen' /\ Len(cache') <= Window + Margin
         /\ Len(cache') = nSeen' \/ Len(cache') >= Window - MaxK + j + 1
         /\ \A i \in 1 .. Len(cache') :
              cache'[i] = Row(nSeen' - Len(cache') + i - 1, fed[nSeen' - Len(cache') + i])
         /\ {WindowedAttends(fed[nSeen + 1])[i] : i \in 1 .. Len(cache) + 1}
              = {Row(p, fed[p + 1]) : p \in nSeen - Len(cache) .. nSeen}
<1> DEFINE rows == WindowedAttends(fed[nSeen + 1])
           n == Len(cache)
           All == [pos : Int, token : Tokens]
<1>1. n \in Nat /\ fed[nSeen + 1] \in Tokens
  OBVIOUS
<1>2. rows = Append(cache, Row(nSeen, fed[nSeen + 1])) /\ Row(nSeen, fed[nSeen + 1]) \in All
  BY <1>1 DEF WindowedAttends, Row
<1>3. /\ rows \in Seq(All) /\ Len(rows) = n + 1
      /\ \A i \in 1 .. n : rows[i] = cache[i]
      /\ rows[n + 1] = Row(nSeen, fed[nSeen + 1])
  <2>1. cache \in Seq(All)
    OBVIOUS
  <2> HIDE DEF All, rows
  <2> QED BY <1>2, <2>1
<1>4. \A i \in 1 .. n + 1 : rows[i] = Row(nSeen - n + i - 1, fed[nSeen - n + i])
  <2> SUFFICES ASSUME NEW i \in 1 .. n + 1
               PROVE  rows[i] = Row(nSeen - n + i - 1, fed[nSeen - n + i])
    OBVIOUS
  <2>1. CASE i = n + 1
    <3>1. nSeen - n + i - 1 = nSeen /\ nSeen - n + i = nSeen + 1
      BY <1>1, <2>1
    <3> QED BY <1>3, <2>1, <3>1
  <2>2. CASE i # n + 1
    <3>1. i \in 1 .. n
      BY <1>1, <2>2
    <3> QED BY <1>3, <3>1
  <2> QED BY <2>1, <2>2
<1>5. /\ nSeen' = nSeen + 1 /\ lastK' = k
      /\ cache' = IF Len(rows) <= Window + Margin THEN rows
                  ELSE SubSeq(rows, Len(rows) - Window + 1, Len(rows))
  BY DEF WindowedStep, Trimmed
<1>a. nSeen' = nSeen + 1 /\ lastK' = k
  BY <1>5
<1>6. {rows[i] : i \in 1 .. n + 1} = {Row(p, fed[p + 1]) : p \in nSeen - n .. nSeen}
  <2> DEFINE g(p) == Row(p, fed[p + 1])
  <2>1. \A i \in 1 .. n + 1 : rows[i] = g(nSeen - n + i - 1) /\ nSeen - n + i - 1 \in nSeen - n .. nSeen
    <3> SUFFICES ASSUME NEW i \in 1 .. n + 1
                 PROVE  rows[i] = g(nSeen - n + i - 1) /\ nSeen - n + i - 1 \in nSeen - n .. nSeen
      OBVIOUS
    <3>1. (nSeen - n + i - 1) + 1 = nSeen - n + i /\ nSeen - n + i - 1 \in nSeen - n .. nSeen
      BY <1>1
    <3> QED BY <1>4, <3>1
  <2>2. \A p \in nSeen - n .. nSeen : p - nSeen + n + 1 \in 1 .. n + 1 /\ rows[p - nSeen + n + 1] = g(p)
    <3> SUFFICES ASSUME NEW p \in nSeen - n .. nSeen
                 PROVE  p - nSeen + n + 1 \in 1 .. n + 1 /\ rows[p - nSeen + n + 1] = g(p)
      OBVIOUS
    <3> DEFINE i == p - nSeen + n + 1
    <3>1. i \in 1 .. n + 1 /\ nSeen - n + i - 1 = p
      BY <1>1
    <3> HIDE DEF i, g, rows
    <3>2. rows[i] = g(p)
      BY <2>1, <3>1
    <3> QED BY <3>1, <3>2 DEF i
  <2> HIDE DEF g, rows
  <2>3. {rows[i] : i \in 1 .. n + 1} = {g(p) : p \in nSeen - n .. nSeen}
    BY <2>1, <2>2
  <2> QED BY <2>3 DEF g
<1> HIDE DEF rows, All
<1>7. CASE n + 1 <= Window + Margin
  <2>1. cache' = rows
    BY <1>3, <1>5, <1>7
  <2>2. \A i \in 1 .. n + 1 :
          rows[i] = Row((nSeen + 1) - (n + 1) + i - 1, fed[(nSeen + 1) - (n + 1) + i])
    <3>1. (nSeen + 1) - (n + 1) = nSeen - n
      BY <1>1
    <3> QED BY <1>4, <3>1
  <2>3. /\ n + 1 <= nSeen + 1
        /\ n + 1 = nSeen + 1 \/ n + 1 >= Window - MaxK + j + 1
    BY <1>1, SizeFacts
  <2> QED BY <1>3, <1>5, <1>6, <1>7, <2>1, <2>2, <2>3 DEF rows, All
<1>8. CASE n + 1 > Window + Margin
  <2>1. cache' = SubSeq(rows, n + 1 - Window + 1, n + 1)
    <3>1. Len(rows) = n + 1 /\ ~(n + 1 <= Window + Margin)
      BY <1>1, <1>3, <1>8, SizeFacts
    <3> HIDE DEF n
    <3>2. cache' = SubSeq(rows, Len(rows) - Window + 1, Len(rows))
      BY <1>5, <3>1
    <3>3. Len(rows) - Window + 1 = n + 1 - Window + 1
      BY <1>1, <3>1, SizeFacts
    <3> QED BY <3>1, <3>2, <3>3
  <2>2. /\ cache' \in Seq(All) /\ Len(cache') = Window
        /\ \A i \in 1 .. Window : cache'[i] = rows[n + 1 - Window + i]
    BY <1>1, <1>3, <1>8, <2>1, SizeFacts
  <2>3. ASSUME NEW i \in 1 .. Window
        PROVE  cache'[i] = Row((nSeen + 1) - Window + i - 1, fed[(nSeen + 1) - Window + i])
    <3> DEFINE h == n + 1 - Window + i
    <3>1. /\ h \in 1 .. n + 1
          /\ nSeen - n + h = (nSeen + 1) - Window + i
          /\ nSeen - n + h - 1 = (nSeen + 1) - Window + i - 1
      BY <1>1, <1>8, SizeFacts
    <3>2. cache'[i] = rows[h]
      BY <2>2
    <3> HIDE DEF h, n
    <3>3. rows[h] = Row(nSeen - n + h - 1, fed[nSeen - n + h])
      BY <1>4, <3>1
    <3> QED BY <3>1, <3>2, <3>3
  <2>4. Window <= nSeen + 1 /\ Window <= Window + Margin /\ Window >= Window - MaxK + j + 1
    BY <1>1, <1>8, SizeFacts
  <2>5. \A i \in 1 .. Len(cache') :
          cache'[i] = Row(nSeen' - Len(cache') + i - 1, fed[nSeen' - Len(cache') + i])
    BY <1>5, <2>2, <2>3
  <2>6. /\ Len(cache') <= nSeen' /\ Len(cache') <= Window + Margin
        /\ Len(cache') >= Window - MaxK + j + 1
    BY <1>5, <2>2, <2>4
  <2>7. cache' \in Seq([pos : Int, token : Tokens])
    BY <2>2 DEF All
  <2>8. {WindowedAttends(fed[nSeen + 1])[i] : i \in 1 .. Len(cache) + 1}
          = {Row(p, fed[p + 1]) : p \in nSeen - Len(cache) .. nSeen}
    BY <1>6 DEF rows
  <2> QED BY ONLY <1>a, <2>5, <2>6, <2>7, <2>8
<1>9. n + 1 <= Window + Margin \/ n + 1 > Window + Margin
  BY <1>1, SizeFacts
<1> QED BY ONLY <1>7, <1>8, <1>9


\* The rows of fed from position low to position high.
RowsOf(fed, low, high) == {Row(p, fed[p + 1]) : p \in low .. high}

\* Where the ring ends up when position p is written and at most m was.
Reach(m, p) == IF p = m + 1 THEN p ELSE m

\* One step of the ring on position p: what is not ahead of p is right, and
\* what the step attends to ends with p.
LEMMA FeedRing ==
  ASSUME NEW ring, DOMAIN ring = Slots, NEW m \in Int, m >= -1, Held(ring, m),
         NEW p \in Nat, p <= m + 1, p > m - Ring,
         NEW fed, HeldRight(ring, fed, p),
         NEW after, after = Written(ring, Row(p, fed[p + 1])),
         NEW low \in Nat, low = IF Reach(m, p) < Ring THEN 0 ELSE Reach(m, p) - Ring + 1
  PROVE  /\ DOMAIN after = Slots
         /\ Held(after, Reach(m, p))
         /\ HeldRight(after, fed, p + 1)
         /\ Visible(after, p) = RowsOf(fed, low, p)
<1> DEFINE M == Reach(m, p)
<1>1. M \in Nat /\ M >= p /\ M <= m + 1 /\ m <= M /\ (p = M \/ M = m) /\ p > M - Ring
  BY SizeFacts DEF Reach
<1>2. /\ p % Ring \in Slots /\ DOMAIN after = Slots
      /\ after[p % Ring] = Row(p, fed[p + 1])
      /\ \A s \in Slots : s # p % Ring => after[s] = ring[s]
  <2>1. p % Ring \in Slots
    BY SlotFacts
  <2> QED BY <2>1 DEF Written, Row
<1> HIDE DEF M
<1>3. \A q \in 0 .. M : q > M - Ring => after[q % Ring].pos = q
  <2> SUFFICES ASSUME NEW q \in 0 .. M, q > M - Ring
               PROVE  after[q % Ring].pos = q
    OBVIOUS
  <2>1. CASE q = p
    BY <1>2, <2>1 DEF Row
  <2>2. CASE q # p
    <3>1. q \in Nat /\ q % Ring \in Slots
      BY <1>1, SlotFacts
    <3>2. q % Ring # p % Ring
      <4>1. CASE q < p
        <5>1. q + Ring <= p => FALSE
          BY <1>1, SizeFacts
        <5> QED BY <3>1, <4>1, <5>1, SlotFacts
      <4>2. CASE q > p
        <5>1. p + Ring <= q => FALSE
          BY <1>1, SizeFacts
        <5> QED BY <3>1, <4>2, <5>1, SlotFacts
      <4> QED BY <2>2, <3>1, <4>1, <4>2
    <3>3. q \in 0 .. m /\ q > m - Ring
      BY <1>1, <2>2, SizeFacts
    <3>4. ring[q % Ring].pos = q
      BY <3>3 DEF Held
    <3> QED BY <1>2, <3>1, <3>2, <3>4
  <2> QED BY <2>1, <2>2
<1>4. ASSUME NEW s \in Slots
      PROVE  \/ after[s].pos = -1
             \/ /\ after[s].pos \in 0 .. M /\ after[s].pos > M - Ring
                /\ after[s].pos % Ring = s
  <2>1. CASE s = p % Ring
    BY <1>1, <1>2, <2>1 DEF Row
  <2>2. CASE s # p % Ring
    <3> DEFINE q == ring[s].pos
    <3>1. after[s].pos = q
      BY <1>2, <2>2
    <3>2. q = -1 \/ (q \in 0 .. m /\ q > m - Ring /\ q % Ring = s)
      BY DEF Held
    <3> HIDE DEF q
    <3>3. CASE q # -1
      <4>1. q \in Nat /\ q \in 0 .. M /\ q >= M - Ring /\ q % Ring = s
        BY <1>1, <3>2, <3>3, SizeFacts
      <4>2. q # M - Ring
        <5>1. SUFFICES ASSUME q = M - Ring PROVE FALSE
          OBVIOUS
        <5>2. p = M
          BY <1>1, <3>2, <3>3, <5>1, SizeFacts
        <5>3. q + Ring = p
          BY <1>1, <5>1, <5>2, SizeFacts
        <5> QED BY <2>2, <4>1, <5>3, SlotFacts
      <4> QED BY <1>1, <3>1, <4>1, <4>2, SizeFacts
    <3> QED BY <3>1, <3>3
  <2> QED BY <2>1, <2>2
<1>5. Held(after, M)
  BY <1>3, <1>4 DEF Held
<1>6. ASSUME NEW s \in Slots, after[s].pos \in 0 .. p
      PROVE  after[s] = Row(after[s].pos, fed[after[s].pos + 1])
  <2>1. CASE s = p % Ring
    BY <1>2, <2>1 DEF Row
  <2>2. CASE s # p % Ring
    <3>1. after[s] = ring[s]
      BY <1>2, <2>2
    <3>2. after[s].pos # p
      <4>1. after[s].pos % Ring = s
        BY <1>4, <1>6
      <4> QED BY <2>2, <4>1
    <3>3. ring[s].pos \in 0 .. p - 1
      BY <1>6, <3>1, <3>2
    <3> QED BY <3>1, <3>3 DEF HeldRight
  <2> QED BY <2>1, <2>2
<1>7. HeldRight(after, fed, p + 1)
  BY <1>6 DEF HeldRight
<1>8. ASSUME NEW s \in Slots, after[s].pos >= 0, after[s].pos <= p
      PROVE  after[s].pos \in low .. p /\ after[s] = Row(after[s].pos, fed[after[s].pos + 1])
  <2>1. after[s].pos \in 0 .. M /\ after[s].pos > M - Ring
    BY <1>4, <1>8
  <2>2. after[s].pos \in low .. p /\ after[s].pos \in 0 .. p
    BY <1>1, <1>8, <2>1, SizeFacts DEF M
  <2> QED BY <1>6, <2>2
<1>9. ASSUME NEW q \in low .. p
      PROVE  /\ q % Ring \in Slots /\ after[q % Ring] = Row(q, fed[q + 1])
             /\ after[q % Ring].pos = q /\ q >= 0 /\ q <= p /\ q > p - Ring
  <2>1. q \in Nat /\ q \in 0 .. M /\ q > M - Ring /\ q >= 0 /\ q <= p /\ q > p - Ring
    BY <1>1, SizeFacts DEF M
  <2>2. after[q % Ring].pos = q /\ q % Ring \in Slots
    BY <1>3, <2>1, SlotFacts
  <2>3. after[q % Ring].pos \in 0 .. p
    BY <2>1, <2>2
  <2> QED BY <1>6, <2>1, <2>2, <2>3
<1>10. Visible(after, p) = RowsOf(fed, low, p)
  <2> DEFINE S == {s \in Slots : after[s].pos >= 0 /\ after[s].pos <= p /\ after[s].pos > p - Ring}
             g(q) == Row(q, fed[q + 1])
  <2>1. Visible(after, p) = {after[s] : s \in S}
    BY DEF Visible
  <2>2. \A s \in S : after[s].pos \in low .. p /\ after[s] = g(after[s].pos)
    BY <1>8
  <2>3. \A q \in low .. p : q % Ring \in S /\ after[q % Ring] = g(q)
    <3> SUFFICES ASSUME NEW q \in low .. p PROVE q % Ring \in S /\ after[q % Ring] = g(q)
      OBVIOUS
    <3> QED BY <1>9
  <2> HIDE DEF S, g
  <2>4. {after[s] : s \in S} = {g(q) : q \in low .. p}
    BY <2>2, <2>3
  <2> QED BY <2>1, <2>4 DEF g, RowsOf
<1> QED BY <1>2, <1>5, <1>7, <1>10 DEF M

-----------------------------------------------------------------------------
(* A step of a draft model *)

\* Feeds(t, k): the next step of a draft model is on token t.
Feeds(t, k) ==
  /\ drafter # "ngram" /\ stage \in {"round", "draft"}
  /\ t \in Tokens /\ k \in 1 .. MaxK
  /\ ModelStep(t, NextPos, k)
  /\ wanted' = k /\ stage' \in {"draft", "verify"}
  /\ UNCHANGED <<drafter, context>>
  /\ \/ stage = "round" /\ t = LastToken /\ UNCHANGED props
     \/ stage = "draft" /\ k = wanted /\ Len(props) < wanted /\ props' = Append(props, t)

LEMMA FedGrows ==
  ASSUME LoopTypes, LoopRight, NEW t, NEW k, Feeds(t, k)
  PROVE  /\ NextPos \in Nat
         /\ Fed \in Seq(Tokens) /\ Len(Fed) >= NextPos
         /\ Fed' \in Seq(Tokens) /\ Len(Fed') = NextPos + 1
         /\ Fed'[NextPos + 1] = t
         /\ \A i \in 1 .. NextPos : Fed'[i] = Fed[i]
         /\ NextPos' = NextPos + 1
         /\ NextPos >= Settled /\ Settled \in Nat
         /\ Settled' >= Settled /\ Settled' \in Nat
         /\ NextPos < Settled' + MaxK
         /\ Len(props) \in 0 .. MaxK - 1
         /\ Len(props') \in Nat /\ Len(props') <= Len(props) + 1
<1>1. context \in Seq(Tokens) /\ props \in Seq(Tokens) /\ Len(context) \in Nat /\ Len(props) \in Nat
  BY DEF LoopTypes
<1>2. t \in Tokens /\ k \in 1 .. MaxK /\ stage' # "round" /\ context' = context
  BY DEF Feeds
<1>3. Len(context) > 0 /\ (stage # "draft" => props = <<>>)
  <2>1. stage \in {"round", "draft"}
    BY DEF Feeds
  <2> QED BY <1>1, <2>1 DEF LoopRight, Active, Drafting, LoopTypes
<1>4. CASE stage = "round"
  <2>1. t = context[Len(context)] /\ props' = <<>> /\ props = <<>>
    BY <1>3, <1>4 DEF Feeds, LastToken
  <2>2. Fed = context /\ Fed' = context
    BY <1>1, <1>2, <2>1 DEF Fed
  <2>3. NextPos = Len(context) - 1 /\ NextPos' = Len(context)
    BY <1>2, <1>4, <2>2 DEF NextPos, LastPos
  <2>4. Settled = Len(context) - 1 /\ Settled' = Len(context)
    BY <1>2, <1>4 DEF Settled, LastPos
  <2>5. Len(props) = 0 /\ Len(props') = 0
    BY <2>1
  <2> QED BY <1>1, <1>2, <1>3, <2>1, <2>2, <2>3, <2>4, <2>5, SizeFacts
<1>5. CASE stage = "draft"
  <2>1. props' = Append(props, t) /\ Len(props) < wanted /\ wanted = k
    BY <1>5 DEF Feeds
  <2>2. Fed = context \o props /\ Fed' = context \o Append(props, t)
    BY <1>2, <2>1 DEF Fed
  <2>3. /\ Fed \in Seq(Tokens) /\ Len(Fed) = Len(context) + Len(props)
        /\ Fed' = Append(Fed, t)
    BY <1>1, <1>2, <2>2
  <2>4. /\ Fed' \in Seq(Tokens) /\ Len(Fed') = Len(Fed) + 1 /\ Fed'[Len(Fed) + 1] = t
        /\ \A i \in 1 .. Len(Fed) : Fed'[i] = Fed[i]
    BY <1>2, <2>3
  <2>5. NextPos = Len(Fed) /\ NextPos' = Len(Fed) + 1
    BY <1>2, <1>5, <2>4 DEF NextPos
  <2>6. Settled = Len(context) /\ Settled' = Len(context)
    BY <1>2, <1>5 DEF Settled
  <2>7. Len(props') = Len(props) + 1
    BY <1>1, <1>2, <2>1
  <2> QED BY <1>1, <1>2, <2>1, <2>3, <2>4, <2>5, <2>6, <2>7, SizeFacts
<1> QED BY <1>4, <1>5 DEF Feeds

LEMMA FeedsWindowed ==
  ASSUME LoopTypes, LoopRight, WindowedRight, NEW t, NEW k, Feeds(t, k),
         drafter = "windowed"
  PROVE  WindowedRight' /\ SeenRight'
<1>1. /\ nSeen = NextPos
      /\ cache \in Seq([pos : Int, token : Tokens])
      /\ Len(cache) <= nSeen /\ Len(cache) <= Window + Margin
      /\ Len(cache) = nSeen \/ Len(cache) >= Window - MaxK + Len(props)
      /\ \A i \in 1 .. Len(cache) :
           cache[i] = Row(nSeen - Len(cache) + i - 1, Fed[nSeen - Len(cache) + i])
  <2>1. Active
    BY DEF Feeds, Active
  <2> QED BY <2>1 DEF WindowedRight
<1> DEFINE fed == Fed'
           j == Len(props)
<1>2. /\ nSeen \in Nat /\ fed \in Seq(Tokens) /\ Len(fed) = nSeen + 1 /\ fed[nSeen + 1] = t
      /\ \A i \in 1 .. nSeen : fed[i] = Fed[i]
      /\ NextPos' = nSeen + 1 /\ j \in 0 .. MaxK - 1
      /\ Len(props') \in Nat /\ Len(props') <= j + 1
  BY <1>1, FedGrows
<1>3. \A i \in 1 .. Len(cache) :
        cache[i] = Row(nSeen - Len(cache) + i - 1, fed[nSeen - Len(cache) + i])
  <2> SUFFICES ASSUME NEW i \in 1 .. Len(cache)
               PROVE  cache[i] = Row(nSeen - Len(cache) + i - 1, fed[nSeen - Len(cache) + i])
    OBVIOUS
  <2>1. nSeen - Len(cache) + i \in 1 .. nSeen
    BY <1>1, <1>2
  <2>2. fed[nSeen - Len(cache) + i] = Fed[nSeen - Len(cache) + i]
    BY <1>2, <2>1
  <2> QED BY <1>1, <2>2
<1>4. /\ WindowedStep(t, k)
      /\ seen' = {WindowedAttends(t)[i] : i \in 1 .. Len(cache) + 1}
  BY DEF Feeds, ModelStep
<1> HIDE DEF fed, j
<1>5. WindowedStep(fed[nSeen + 1], k)
  BY <1>2, <1>4
<1>6. Len(cache) = nSeen \/ Len(cache) >= Window - MaxK + j
  BY <1>1 DEF j
<1>7. /\ nSeen' = nSeen + 1 /\ lastK' = k
      /\ cache' \in Seq([pos : Int, token : Tokens])
      /\ Len(cache') <= nSeen' /\ Len(cache') <= Window + Margin
      /\ Len(cache') = nSeen' \/ Len(cache') >= Window - MaxK + j + 1
      /\ \A i \in 1 .. Len(cache') :
           cache'[i] = Row(nSeen' - Len(cache') + i - 1, fed[nSeen' - Len(cache') + i])
      /\ {WindowedAttends(fed[nSeen + 1])[i] : i \in 1 .. Len(cache) + 1}
           = {Row(p, fed[p + 1]) : p \in nSeen - Len(cache) .. nSeen}
  BY <1>1, <1>2, <1>3, <1>5, <1>6, FeedWindowed
<1>8. wanted' = k
  BY DEF Feeds
<1>9. Len(cache') \in Nat /\ Len(cache) \in Nat
  BY <1>1, <1>7
<1>10. Len(cache') = nSeen' \/ Len(cache') >= Window - MaxK + Len(props')
  BY <1>2, <1>7, <1>9, SizeFacts
<1>11. WindowedRight'
  BY <1>2, <1>7, <1>8, <1>10 DEF WindowedRight, fed
<1>12. SeenRight'
  <2> DEFINE low == nSeen - Len(cache)
  <2>1. low \in 0 .. Len(fed) - 1
    BY <1>1, <1>2, <1>9
  <2>2. Size' = Window
    BY DEF Feeds, Size
  <2>3. low = 0 \/ low <= Len(fed) - (Window - MaxK + 1)
    BY <1>1, <1>2, <1>6, <1>9, SizeFacts
  <2>4. seen' = {Row(p, fed[p + 1]) : p \in low .. Len(fed) - 1}
    <3>1. Len(fed) - 1 = nSeen
      BY <1>2
    <3>2. seen' = {WindowedAttends(fed[nSeen + 1])[i] : i \in 1 .. Len(cache) + 1}
      BY <1>2, <1>4
    <3>3. seen' = {Row(p, fed[p + 1]) : p \in low .. nSeen}
      BY <1>7, <3>2
    <3> QED BY ONLY <3>1, <3>3
  <2> HIDE DEF low
  <2> QED BY <2>1, <2>2, <2>3, <2>4 DEF SeenRight, fed
<1> QED BY <1>11, <1>12

LEMMA FeedsStatic ==
  ASSUME LoopTypes, LoopRight, StaticRight, NEW t, NEW k, Feeds(t, k),
         drafter = "static"
  PROVE  StaticRight' /\ SeenRight'
<1> DEFINE fed == Fed'
           p == NextPos
<1>1. DOMAIN slots = Slots /\ HeldRight(slots, Fed, p)
  BY DEF Feeds, Active, StaticRight
<1>2. PICK m \in p - 1 .. Settled - 1 + MaxK : Held(slots, m)
  BY DEF Feeds, Active, StaticRight
<1>3. /\ p \in Nat /\ Len(fed) = p + 1 /\ fed[p + 1] = t
      /\ \A i \in 1 .. p : fed[i] = Fed[i]
      /\ NextPos' = p + 1
      /\ p >= Settled /\ Settled \in Nat /\ Settled' >= Settled /\ Settled' \in Nat
      /\ p < Settled' + MaxK
  BY FedGrows
<1>4. slots' = Written(slots, Row(p, t)) /\ seen' = Visible(slots', p)
  BY DEF Feeds, ModelStep, StaticStep, StaticAttends, Row
<1>5. HeldRight(slots, fed, p)
  <2> SUFFICES ASSUME NEW s \in Slots, slots[s].pos \in 0 .. p - 1
               PROVE  slots[s] = Row(slots[s].pos, fed[slots[s].pos + 1])
    BY DEF HeldRight
  <2>1. slots[s] = Row(slots[s].pos, Fed[slots[s].pos + 1])
    BY <1>1 DEF HeldRight
  <2>2. slots[s].pos + 1 \in 1 .. p
    BY <1>3
  <2> QED BY <1>3, <2>1, <2>2
<1> DEFINE end == Settled'
<1>b. end \in Nat /\ p < end + MaxK /\ Settled <= end
  BY <1>3
<1> HIDE DEF fed, p, end
<1>6. m \in Int /\ m >= -1 /\ p <= m + 1 /\ p > m - Ring
  BY <1>2, <1>3, SizeFacts
<1> DEFINE M == Reach(m, p)
           low == IF M < Ring THEN 0 ELSE M - Ring + 1
<1>7. M \in Nat /\ M >= p /\ M <= end - 1 + MaxK
  <2>1. m <= Settled - 1 + MaxK /\ m >= p - 1
    BY <1>2, <1>3, SizeFacts
  <2>2. CASE p = m + 1
    <3>1. M = p
      BY <2>2 DEF Reach
    <3> QED BY <1>3, <1>b, <3>1, SizeFacts
  <2>3. CASE p # m + 1
    <3>1. M = m
      BY <2>3 DEF Reach
    <3> HIDE DEF M
    <3> QED BY <1>3, <1>b, <1>6, <2>1, <2>3, <3>1, SizeFacts
  <2> QED BY <2>2, <2>3
<1>8. low \in Nat /\ low <= p /\ (low = 0 \/ low <= p + 1 - (Ring - MaxK + 1))
  <2>1. M <= p + MaxK - 1
    BY <1>2, <1>3, <1>6, SizeFacts DEF Reach
  <2> HIDE DEF M
  <2> QED BY <1>3, <1>7, <2>1, SizeFacts
<1> HIDE DEF M
<1>9. low = IF Reach(m, p) < Ring THEN 0 ELSE Reach(m, p) - Ring + 1
  BY DEF M
<1> HIDE DEF low
<1>a. slots' = Written(slots, Row(p, fed[p + 1]))
  BY <1>3, <1>4
<1>10. /\ DOMAIN slots' = Slots /\ Held(slots', M) /\ HeldRight(slots', fed, p + 1)
       /\ Visible(slots', p) = RowsOf(fed, low, p)
  <2>1. DOMAIN slots = Slots /\ m \in Int /\ m >= -1 /\ Held(slots, m)
    BY <1>1, <1>2, <1>6
  <2>2. p \in Nat /\ p <= m + 1 /\ p > m - Ring /\ HeldRight(slots, fed, p) /\ low \in Nat
    BY <1>3, <1>5, <1>6, <1>8
  <2>3. /\ DOMAIN slots' = Slots /\ Held(slots', Reach(m, p)) /\ HeldRight(slots', fed, p + 1)
        /\ Visible(slots', p) = RowsOf(fed, low, p)
    BY ONLY <2>1, <2>2, <1>a, <1>9, FeedRing
  <2> QED BY ONLY <2>3 DEF M
<1>11. M \in NextPos' - 1 .. Settled' - 1 + MaxK
  <2>1. NextPos' - 1 = p /\ NextPos' - 1 \in Int
    BY <1>3
  <2>2. M \in p .. end - 1 + MaxK
    BY <1>3, <1>7, <1>b, SizeFacts
  <2> QED BY <2>1, <2>2 DEF end
<1>12. StaticRight'
  BY <1>3, <1>10, <1>11 DEF StaticRight, fed
<1>13. SeenRight'
  <2>1. low \in 0 .. Len(fed) - 1
    BY <1>3, <1>8
  <2>2. Size' = Ring
    BY DEF Feeds, Size
  <2>3. low = 0 \/ low <= Len(fed) - (Ring - MaxK + 1)
    BY <1>3, <1>8, SizeFacts
  <2>4. seen' = {Row(q, fed[q + 1]) : q \in low .. Len(fed) - 1}
    <3>1. Len(fed) - 1 = p
      BY <1>3
    <3> QED BY ONLY <1>4, <1>10, <3>1 DEF RowsOf
  <2> QED BY <2>1, <2>2, <2>3, <2>4 DEF SeenRight, fed
<1> QED BY <1>12, <1>13

LEMMA FeedsRight ==
  ASSUME LoopTypes, LoopRight, WindowedRight, StaticRight, NEW t, NEW k, Feeds(t, k)
  PROVE  WindowedRight' /\ StaticRight' /\ SeenRight'
<1>1. CASE drafter = "windowed"
  <2>1. drafter' = "windowed"
    BY <1>1 DEF Feeds
  <2> QED BY <1>1, <2>1, FeedsWindowed DEF StaticRight
<1>2. CASE drafter = "static"
  <2>1. drafter' = "static"
    BY <1>2 DEF Feeds
  <2> QED BY <1>2, <2>1, FeedsStatic DEF WindowedRight
<1> QED BY <1>1, <1>2, SpeculationAssumption DEF Feeds, LoopTypes

-----------------------------------------------------------------------------
(* The prefill of a draft model *)

LEMMA LeastNatural ==
  ASSUME NEW T \in SUBSET Nat, T # {}
  PROVE  \E m \in T : \A k \in Nat : k < m => k \notin T
<1>. DEFINE R == {ss \in Nat \X Nat : ss[1] < ss[2]}
<1>1. IsWellFoundedOn(R, Nat)
  BY NatLessThanWellFounded, Zenon DEF OpToRel
<1>. HIDE DEF R
<1>2. \E m \in T : \A k \in T : ~ (<<k, m>> \in R)
  BY <1>1, WFMin, Zenon
<1>. USE DEF R
<1>3. \A k, m \in Nat : k < m => <<k, m>> \in R
  OBVIOUS
<1>. QED
  BY <1>2, <1>3

LEMMA PromptRowsRight ==
  ASSUME NEW ids \in Seq(Tokens),
         NEW n, n = Len(PromptRows(ids))
  PROVE  /\ PromptRows(ids) \in Seq([pos : Int, token : Tokens])
         /\ Trimmed(PromptRows(ids)) = PromptRows(ids)
         /\ n <= Len(ids) /\ n <= Window /\ (n = Len(ids) \/ n = Window)
         /\ \A i \in 1 .. n :
              PromptRows(ids)[i] = Row(Len(ids) - n + i - 1, ids[Len(ids) - n + i])
<1> DEFINE start == IF Len(ids) > Window THEN Len(ids) - Window ELSE 0
           c == Len(ids) - start
           r == [i \in 1 .. c |-> Row(start + i - 1, ids[start + i])]
<1>1. PromptRows(ids) = r
  BY DEF PromptRows
<1>2. /\ start \in Nat /\ c \in Nat /\ Len(ids) \in Nat
      /\ c <= Len(ids) /\ c <= Window /\ (c = Len(ids) \/ c = Window)
      /\ start = Len(ids) - c
  BY SizeFacts
<1> HIDE DEF start, c
<1>3. \A i \in 1 .. c : start + i \in 1 .. Len(ids) /\ start + i - 1 \in Int
  BY <1>2
<1>4. \A i \in 1 .. c : Row(start + i - 1, ids[start + i]) \in [pos : Int, token : Tokens]
  BY <1>3 DEF Row
<1>5. r \in [1 .. c -> [pos : Int, token : Tokens]]
  BY <1>4
<1>6. r \in Seq([pos : Int, token : Tokens]) /\ Len(r) = c
  <2> DEFINE All == [pos : Int, token : Tokens]
  <2> HIDE DEF All, r
  <2>1. r \in [1 .. c -> All]
    BY <1>5 DEF All
  <2>2. r \in Seq(All) /\ Len(r) = c
    BY <1>2, <2>1
  <2> QED BY <2>2 DEF All
<1>7. \A i \in 1 .. c : r[i] = Row(start + i - 1, ids[start + i])
  OBVIOUS
<1> HIDE DEF r
<1>8. n = c
  BY <1>1, <1>6
<1>9. Trimmed(r) = r
  <2>1. Len(r) <= Window + Margin
    BY <1>2, <1>6, SizeFacts
  <2> QED BY <2>1 DEF Trimmed
<1> QED BY <1>1, <1>2, <1>6, <1>7, <1>8, <1>9

LEMMA PromptRingRight ==
  ASSUME NEW ids \in Seq(Tokens), Len(ids) > 0,
         NEW fed, \A i \in 1 .. Len(ids) : fed[i] = ids[i]
  PROVE  /\ DOMAIN PromptRing(ids) = Slots
         /\ Held(PromptRing(ids), Len(ids) - 1)
         /\ HeldRight(PromptRing(ids), fed, Len(ids))
<1> DEFINE L == Len(ids)
           ring == PromptRing(ids)
           at(s) == {p \in 0 .. L - 1 : p % Ring = s}
           last(s) == CHOOSE p \in at(s) : \A q \in at(s) : q <= p
<1>1. L \in Nat /\ L > 0
  OBVIOUS
<1>2. DOMAIN ring = Slots
  BY DEF PromptRing
<1>3. ASSUME NEW s \in Slots
      PROVE  \/ at(s) = {} /\ ring[s] = EmptySlot
             \/ /\ last(s) \in at(s) /\ \A q \in at(s) : q <= last(s)
                /\ ring[s] = Row(last(s), ids[last(s) + 1])
  <2>1. ring[s] = IF at(s) = {} THEN EmptySlot ELSE Row(last(s), ids[last(s) + 1])
    BY DEF PromptRing, Row
  <2>2. CASE at(s) # {}
    <3> DEFINE T == {d \in Nat : L - 1 - d \in at(s)}
    <3>1. T # {}
      <4>1. PICK p \in at(s) : TRUE
        BY <2>2
      <4>2. L - 1 - p \in Nat /\ L - 1 - (L - 1 - p) = p
        BY <1>1
      <4>3. L - 1 - p \in T
        BY <4>1, <4>2
      <4> QED BY <4>3
    <3>2. PICK d \in T : \A e \in Nat : e < d => e \notin T
      <4>1. T \in SUBSET Nat
        OBVIOUS
      <4> HIDE DEF T
      <4> QED BY <3>1, <4>1, LeastNatural
    <3> DEFINE b == L - 1 - d
    <3>3. b \in at(s)
      BY <3>2
    <3>4. \A q \in at(s) : q <= b
      <4> SUFFICES ASSUME NEW q \in at(s), q > b PROVE FALSE
        BY <1>1
      <4> DEFINE e == L - 1 - q
      <4>1. e \in Nat /\ e < d /\ L - 1 - e = q
        BY <1>1, <3>2
      <4>2. e \in T
        BY <4>1
      <4> HIDE DEF T, e
      <4> QED BY <3>2, <4>1, <4>2
    <3> HIDE DEF at, b
    <3>5. last(s) \in at(s) /\ \A q \in at(s) : q <= last(s)
      BY <3>3, <3>4
    <3> HIDE DEF last, ring
    <3> QED BY <2>1, <2>2, <3>5
  <2> HIDE DEF ring, last
  <2> QED BY <2>1, <2>2
<1> HIDE DEF last, ring
<1>4. ASSUME NEW p \in 0 .. L - 1, p > L - 1 - Ring
      PROVE  ring[p % Ring].pos = p
  <2> DEFINE s == p % Ring
  <2>1. p \in Nat /\ s \in Slots /\ p \in at(s)
    BY <1>1, SlotFacts
  <2> HIDE DEF s
  <2>2. /\ last(s) \in at(s) /\ \A q \in at(s) : q <= last(s)
        /\ ring[s] = Row(last(s), ids[last(s) + 1])
    BY <1>3, <2>1
  <2>3. last(s) \in Nat /\ p <= last(s) /\ last(s) <= L - 1 /\ p % Ring = last(s) % Ring
    BY <1>1, <2>1, <2>2
  <2>4. ~(p < last(s))
    <3> SUFFICES ASSUME p < last(s) PROVE FALSE
      OBVIOUS
    <3>1. p + Ring <= last(s)
      BY <2>1, <2>3, SlotFacts
    <3> QED BY <1>1, <1>4, <2>1, <2>3, <3>1, SizeFacts
  <2>5. last(s) = p
    BY <2>1, <2>3, <2>4
  <2> QED BY <2>2, <2>5 DEF Row, s
<1>5. ASSUME NEW s \in Slots
      PROVE  \/ ring[s].pos = -1
             \/ /\ ring[s].pos \in 0 .. L - 1 /\ ring[s].pos > L - 1 - Ring
                /\ ring[s].pos % Ring = s /\ ring[s] = Row(ring[s].pos, ids[ring[s].pos + 1])
  <2>1. CASE at(s) = {} /\ ring[s] = EmptySlot
    BY <2>1 DEF EmptySlot
  <2>2. CASE /\ last(s) \in at(s) /\ \A q \in at(s) : q <= last(s)
             /\ ring[s] = Row(last(s), ids[last(s) + 1])
    <3> DEFINE p == last(s)
    <3>1. p \in 0 .. L - 1 /\ p % Ring = s /\ ring[s] = Row(p, ids[p + 1]) /\ ring[s].pos = p
      BY <2>2 DEF Row
    <3>2. p > L - 1 - Ring
      <4> SUFFICES ASSUME p + Ring <= L - 1 PROVE FALSE
        BY <1>1, <3>1, SizeFacts
      <4> HIDE DEF p
      <4>1. p \in Nat /\ p + Ring \in 0 .. L - 1
        BY <1>1, <3>1, SizeFacts
      <4>2. (p + Ring) % Ring = s
        BY <3>1, <4>1, SlotFacts
      <4>3. p + Ring \in at(s)
        BY <4>1, <4>2
      <4>4. p + Ring <= p
        BY <2>2, <4>3 DEF p
      <4> QED BY <4>1, <4>4, SizeFacts
    <3> HIDE DEF p
    <3> QED BY <3>1, <3>2
  <2> QED BY <1>3, <2>1, <2>2
<1>6. Held(ring, L - 1)
  BY <1>4, <1>5 DEF Held
<1>7. HeldRight(ring, fed, L)
  <2> SUFFICES ASSUME NEW s \in Slots, ring[s].pos \in 0 .. L - 1
               PROVE  ring[s] = Row(ring[s].pos, fed[ring[s].pos + 1])
    BY DEF HeldRight
  <2>1. ring[s] = Row(ring[s].pos, ids[ring[s].pos + 1])
    BY <1>5
  <2>2. ring[s].pos + 1 \in 1 .. Len(ids)
    BY <1>1
  <2> QED BY <2>1, <2>2
<1> QED BY <1>2, <1>6, <1>7 DEF ring

LEMMA NewPromptRight ==
  ASSUME DraftInv, NEW ids \in Prompts, NEW y \in Tokens, NewPrompt(ids, y)
  PROVE  DraftInv'
<1> DEFINE L == Len(ids)
           fed == Append(ids, y)
<1>1. ids \in Seq(Tokens) /\ ids # <<>> /\ L \in Nat /\ L > 0
  BY SpeculationAssumption
<1>2. /\ fed \in Seq(Tokens) /\ Len(fed) = L + 1
      /\ \A i \in 1 .. Len(ids) : fed[i] = ids[i]
  BY <1>1
<1> HIDE DEF L
<1>3. /\ context' = fed /\ props' = <<>> /\ promptLen' = L /\ wanted' = 0
      /\ stage' = "round" /\ drafter' = drafter /\ requests' = requests + 1
      /\ drafter = "windowed" => WindowedPrefill(ids)
      /\ drafter = "static" => StaticPrefill(ids)
  BY DEF NewPrompt, L
<1> HIDE DEF fed
<1>4. LoopTypes'
  <2>1. /\ drafter \in Drafters /\ requests \in Nat
    BY DEF DraftInv, LoopTypes
  <2> QED BY <1>1, <1>2, <1>3, <2>1 DEF LoopTypes
<1>5. LoopRight'
  BY <1>1, <1>2, <1>3 DEF LoopRight, Active, Drafting
<1>6. Fed' = fed /\ NextPos' = L /\ Settled' = L
  <2>1. Fed' = fed
    BY <1>2, <1>3 DEF Fed
  <2>2. NextPos' = Len(fed) - 1 /\ Settled' = Len(fed) - 1
    BY <1>3 DEF NextPos, Settled, LastPos
  <2> QED BY <1>1, <1>2, <2>1, <2>2
<1>7. WindowedRight'
  <2> SUFFICES ASSUME drafter = "windowed" PROVE WindowedRight'
    BY <1>3 DEF WindowedRight
  <2> DEFINE r == PromptRows(ids)
             n == Len(r)
  <2>1. nSeen' = L /\ cache' = Trimmed(r)
    BY <1>3 DEF WindowedPrefill, L
  <2>2. /\ r \in Seq([pos : Int, token : Tokens]) /\ Trimmed(r) = r
        /\ n <= Len(ids) /\ n <= Window /\ (n = Len(ids) \/ n = Window)
        /\ \A i \in 1 .. n : r[i] = Row(Len(ids) - n + i - 1, ids[Len(ids) - n + i])
    BY <1>1, PromptRowsRight
  <2> HIDE DEF r
  <2>3. n \in Nat
    BY <2>2
  <2>4. n <= L /\ n <= Window + Margin /\ (n = L \/ n >= Window - MaxK + 0)
    BY <1>1, <2>2, <2>3, SizeFacts DEF L
  <2>5. Len(props') = 0
    BY <1>3
  <2>6. cache' = r /\ Len(cache') = n
    BY <2>1, <2>2
  <2>7. \A i \in 1 .. n : r[i] = Row(L - n + i - 1, fed[L - n + i])
    <3>1. \A i \in 1 .. n : L - n + i \in 1 .. Len(ids)
      BY <1>1, <2>3, <2>4 DEF L
    <3>2. \A i \in 1 .. n : r[i] = Row(L - n + i - 1, ids[L - n + i])
      BY <2>2 DEF L
    <3> QED BY <1>2, <3>1, <3>2
  <2> HIDE DEF n
  <2>8. ~Drafting'
    BY <1>3 DEF Drafting
  <2> QED BY <1>6, <2>1, <2>2, <2>4, <2>5, <2>6, <2>7, <2>8 DEF WindowedRight
<1>8. StaticRight'
  <2> SUFFICES ASSUME drafter = "static" PROVE StaticRight'
    BY <1>3 DEF StaticRight
  <2> DEFINE r == PromptRing(ids)
             p == L - 1
  <2>1. DOMAIN r = Slots /\ Held(r, p) /\ HeldRight(r, fed, L)
    BY <1>1, <1>2, PromptRingRight DEF L
  <2>2. slots' = r \/ slots' = Written(r, Row(p, fed[p + 1]))
    <3>1. PromptInput(ids) = Row(p, fed[p + 1])
      <4>1. p + 1 = L /\ L \in 1 .. Len(ids)
        BY <1>1 DEF L
      <4>2. PromptInput(ids) = Row(p, ids[L])
        BY DEF PromptInput, Row, L
      <4> QED BY <1>2, <4>1, <4>2
    <3> QED BY <1>3, <3>1 DEF StaticPrefill
  <2>3. p \in Nat /\ p \in Int /\ p >= -1 /\ p <= p + 1 /\ p > p - Ring /\ p + 1 = L
    BY <1>1, SizeFacts
  <2> HIDE DEF r, p
  <2>4. DOMAIN slots' = Slots /\ Held(slots', p) /\ HeldRight(slots', fed, L)
    <3>1. CASE slots' = r
      BY <2>1, <3>1
    <3>2. CASE slots' = Written(r, Row(p, fed[p + 1]))
      <4>1. Reach(p, p) = p
        BY <2>3 DEF Reach
      <4>2. HeldRight(r, fed, p)
        <5>1. 0 .. p - 1 \subseteq 0 .. L - 1
          BY <2>3
        <5> QED BY <2>1, <5>1 DEF HeldRight
      <4> DEFINE low == IF Reach(p, p) < Ring THEN 0 ELSE Reach(p, p) - Ring + 1
      <4>3. low \in Nat
        BY <2>3, <4>1, SizeFacts
      <4>4. low = IF Reach(p, p) < Ring THEN 0 ELSE Reach(p, p) - Ring + 1
        OBVIOUS
      <4> HIDE DEF low
      <4>5. /\ DOMAIN slots' = Slots /\ Held(slots', Reach(p, p))
            /\ HeldRight(slots', fed, p + 1)
        BY ONLY <2>1, <2>3, <3>2, <4>2, <4>3, <4>4, FeedRing
      <4> QED BY <2>3, <4>1, <4>5
    <3> QED BY <2>2, <3>1, <3>2
  <2>5. p \in NextPos' - 1 .. Settled' - 1 + MaxK
    <3>1. p \in L - 1 .. L - 1 + MaxK
      BY <1>1, <2>3, SizeFacts
    <3> QED BY <1>6, <3>1
  <2> QED BY <1>6, <2>4, <2>5 DEF StaticRight
<1>9. SeenRight'
  BY <1>3 DEF SeenRight, Drafting
<1> QED BY <1>4, <1>5, <1>7, <1>8, <1>9 DEF DraftInv

-----------------------------------------------------------------------------
(* The rounds *)

LEMMA ProposeFirstRight ==
  ASSUME DraftInv, NEW k \in 1 .. MaxK, ProposeFirst(k)
  PROVE  DraftInv'
<1>1. /\ LoopTypes /\ LoopRight /\ WindowedRight /\ StaticRight
      /\ stage = "round" /\ stage' = "draft" /\ wanted' = k
      /\ drafter # "ngram" /\ ModelStep(LastToken, LastPos, k)
      /\ UNCHANGED <<drafter, context, promptLen, props, requests>>
  BY DEF DraftInv, ProposeFirst, Starts, ModelStep
<1>2. context \in Seq(Tokens) /\ promptLen > 0 /\ promptLen < Len(context) /\ promptLen \in Nat
  BY <1>1 DEF LoopTypes, LoopRight, Active
<1>3. LastToken \in Tokens
  <2>1. Len(context) \in 1 .. Len(context)
    BY <1>2
  <2> QED BY <1>2, <2>1 DEF LastToken
<1>4. Feeds(LastToken, k)
  BY <1>1, <1>3 DEF Feeds, NextPos
<1>5. LoopTypes'
  <2>1. wanted' \in Nat
    BY <1>1, SizeFacts
  <2> QED BY <1>1, <2>1 DEF LoopTypes
<1>6. LoopRight'
  <2>1. props = <<>> /\ Len(props') = 0 /\ 0 < k
    BY <1>1 DEF LoopRight, Drafting
  <2> QED BY <1>1, <1>2, <2>1 DEF LoopRight, Active, Drafting
<1> QED BY <1>1, <1>4, <1>5, <1>6, FeedsRight DEF DraftInv

LEMMA ProposeNextRight ==
  ASSUME DraftInv, NEW t \in Tokens, ProposeNext(t)
  PROVE  DraftInv'
<1>1. /\ LoopTypes /\ LoopRight /\ WindowedRight /\ StaticRight
      /\ stage = "draft" /\ Len(props) < wanted /\ props' = Append(props, t)
      /\ stage' = (IF Len(props) + 1 = wanted THEN "verify" ELSE "draft")
      /\ ModelStep(t, LastPos + 1 + Len(props), wanted)
      /\ UNCHANGED <<drafter, context, promptLen, wanted, requests>>
  BY DEF DraftInv, ProposeNext
<1>2. /\ context \in Seq(Tokens) /\ props \in Seq(Tokens)
      /\ promptLen > 0 /\ promptLen < Len(context) /\ promptLen \in Nat
      /\ wanted \in 1 .. MaxK /\ drafter # "ngram"
  BY <1>1 DEF LoopTypes, LoopRight, Active, Drafting
<1>3. NextPos = LastPos + 1 + Len(props)
  <2>1. NextPos = Len(Fed) /\ Len(Fed) = Len(context) + Len(props)
    BY <1>1, FedFacts DEF NextPos
  <2> QED BY <1>2, <2>1 DEF LastPos
<1>4. Feeds(t, wanted)
  BY <1>1, <1>2, <1>3 DEF Feeds
<1>5. LoopTypes'
  <2>1. props' \in Seq(Tokens)
    BY <1>1, <1>2
  <2>2. stage' \in {"draft", "verify"}
    BY <1>1
  <2> QED BY <1>1, <2>1, <2>2 DEF LoopTypes
<1>6. LoopRight'
  <2>1. Len(props') = Len(props) + 1 /\ Len(props) \in Nat /\ wanted \in Nat
    BY <1>1, <1>2, SizeFacts
  <2>2. stage' = "draft" => Len(props') < wanted
    BY <1>1, <2>1
  <2>3. stage' = "verify" => Len(props') = wanted
    BY <1>1, <2>1
  <2>4. stage' \in {"draft", "verify"}
    BY <1>1
  <2> QED BY <1>1, <1>2, <2>2, <2>3, <2>4 DEF LoopRight, Active, Drafting
<1> QED BY <1>1, <1>4, <1>5, <1>6, FeedsRight DEF DraftInv

\* What was accepted was fed before, but for the last token.
LEMMA VerifyKeeps ==
  ASSUME LoopTypes, NEW n \in 0 .. MaxK, NEW b \in Tokens, n <= Len(props),
         NEW after, after = context \o Append(SubSeq(props, 1, n), b)
  PROVE  /\ after \in Seq(Tokens) /\ Len(after) = Len(context) + n + 1
         /\ \A i \in 1 .. Len(context) + n : after[i] = Fed[i]
<1>1. context \in Seq(Tokens) /\ props \in Seq(Tokens) /\ Len(context) \in Nat /\ Len(props) \in Nat
  BY DEF LoopTypes
<1> DEFINE got == SubSeq(props, 1, n)
           acc == Append(got, b)
<1>2. got \in Seq(Tokens) /\ Len(got) = n /\ \A i \in 1 .. n : got[i] = props[i]
  BY <1>1
<1> HIDE DEF got
<1>3. acc \in Seq(Tokens) /\ Len(acc) = n + 1 /\ \A i \in 1 .. n : acc[i] = got[i]
  BY <1>2
<1> HIDE DEF acc
<1>4. after = context \o acc
  BY DEF acc, got
<1>5. after \in Seq(Tokens) /\ Len(after) = Len(context) + n + 1
  BY <1>1, <1>3, <1>4
<1>6. ASSUME NEW i \in 1 .. Len(context) + n PROVE after[i] = Fed[i]
  <2>1. CASE i <= Len(context)
    <3>1. i \in 1 .. Len(context)
      BY <1>1, <2>1
    <3>2. after[i] = context[i]
      BY <1>1, <1>3, <1>4, <3>1
    <3> QED BY <3>1, <3>2, FedFacts
  <2>2. CASE i > Len(context)
    <3> DEFINE j == i - Len(context)
    <3>1. j \in 1 .. n /\ j \in 1 .. Len(props) /\ i = Len(context) + j
      BY <1>1, <2>2
    <3> HIDE DEF j
    <3>2. after[i] = acc[j]
      BY <1>1, <1>3, <1>4, <3>1
    <3>3. Fed[i] = props[j]
      BY <3>1, FedFacts
    <3> QED BY <1>2, <1>3, <3>1, <3>2, <3>3
  <2> QED BY <1>1, <2>1, <2>2
<1> QED BY <1>5, <1>6

LEMMA VerifyRight ==
  ASSUME DraftInv, NEW n \in 0 .. MaxK, NEW b \in Tokens, Verify(n, b)
  PROVE  DraftInv'
<1> DEFINE L == Len(context)
           fed == context'
<1>1. /\ LoopTypes /\ LoopRight /\ WindowedRight /\ StaticRight
      /\ stage = "verify" /\ stage' = "round" /\ n <= Len(props)
      /\ context' = context \o Append(SubSeq(props, 1, n), b)
      /\ props' = <<>> /\ wanted' = 0
      /\ UNCHANGED <<drafter, promptLen, requests>>
      /\ drafter = "windowed" => WindowedCommit(n)
      /\ drafter = "static" => UNCHANGED staticVars
  BY DEF DraftInv, Verify
<1>2. /\ L \in Nat /\ Len(props) \in Nat /\ n \in Nat
      /\ promptLen > 0 /\ promptLen < L /\ promptLen \in Nat /\ wanted \in 1 .. MaxK
      /\ drafter # "ngram" => Len(props) = wanted
  BY <1>1 DEF LoopTypes, LoopRight, Active, Drafting
<1>3. fed \in Seq(Tokens) /\ Len(fed) = L + n + 1 /\ \A i \in 1 .. L + n : fed[i] = Fed[i]
  BY <1>1, VerifyKeeps
<1>4. LoopTypes'
  BY <1>1, <1>3 DEF LoopTypes
<1> HIDE DEF fed, L
<1>5. LoopRight'
  <2>1. promptLen < Len(fed)
    BY <1>2, <1>3
  <2> QED BY <1>1, <1>2, <2>1 DEF LoopRight, Active, Drafting, fed
<1>6. Fed' = fed /\ NextPos' = L + n /\ Settled' = L + n
  <2>1. Fed' = fed
    BY <1>1, <1>3 DEF Fed, fed
  <2>2. NextPos' = Len(fed) - 1 /\ Settled' = Len(fed) - 1
    BY <1>1 DEF NextPos, Settled, LastPos, fed
  <2> QED BY <1>2, <1>3, <2>2, <2>1
<1>7. NextPos = L + Len(props) /\ Settled = L
  BY <1>1, FedFacts DEF NextPos, Settled, L
<1>8. WindowedRight'
  <2> SUFFICES ASSUME drafter = "windowed" PROVE WindowedRight'
    BY <1>1 DEF WindowedRight
  <2> DEFINE c == Len(cache)
             d == Dropped(n)
             All == [pos : Int, token : Tokens]
  <2>1. /\ nSeen = L + wanted /\ lastK = wanted
        /\ cache \in Seq(All) /\ c <= nSeen /\ c <= Window + Margin
        /\ c = nSeen \/ c >= Window - MaxK + wanted
        /\ \A i \in 1 .. c : cache[i] = Row(nSeen - c + i - 1, Fed[nSeen - c + i])
    <3>1. Active /\ Drafting /\ Len(props) = wanted
      BY <1>1, <1>2 DEF Active, Drafting
    <3> QED BY <1>1, <1>7, <3>1 DEF WindowedRight
  <2>2. d = wanted - n
    <3>1. lastK = wanted /\ wanted \in Nat /\ n \in Nat /\ n <= wanted
      BY <1>1, <1>2, <2>1, SizeFacts
    <3>2. d = IF wanted - n > 0 THEN wanted - n ELSE 0
      BY <3>1 DEF Dropped
    <3> QED BY <3>1, <3>2
  <2>3. cache' = SubSeq(cache, 1, c - d) /\ nSeen' = nSeen - d
    BY <1>1 DEF WindowedCommit
  <2>4. c \in Nat /\ d \in Nat /\ c >= d /\ n <= wanted
    BY <1>1, <1>2, <2>1, <2>2, SizeFacts
  <2> HIDE DEF d, All
  <2>5. /\ cache' \in Seq(All) /\ Len(cache') = c - d
        /\ \A i \in 1 .. c - d : cache'[i] = cache[i]
    BY <2>1, <2>3, <2>4
  <2>6. nSeen' = L + n /\ nSeen - d = L + n
    BY <1>2, <2>1, <2>2, <2>3
  <2> HIDE DEF c
  <2>7. ASSUME NEW i \in 1 .. c - d
        PROVE  cache'[i] = Row((L + n) - (c - d) + i - 1, fed[(L + n) - (c - d) + i])
    <3> DEFINE h == nSeen - c + i
    <3>1. i \in 1 .. c /\ h \in 1 .. L + n /\ h = (L + n) - (c - d) + i
      BY <1>2, <2>1, <2>2, <2>4
    <3>2. cache'[i] = cache[i] /\ cache[i] = Row(nSeen - c + i - 1, Fed[nSeen - c + i])
      BY <2>1, <2>5, <3>1
    <3>3. nSeen - c + i - 1 = (L + n) - (c - d) + i - 1
      BY <1>2, <2>1, <2>2, <2>4
    <3>4. Fed[h] = fed[h]
      BY <1>3, <3>1
    <3>5. fed[h] = fed[(L + n) - (c - d) + i]
      BY <3>1
    <3> QED BY ONLY <3>2, <3>3, <3>4, <3>5
  <2>8. /\ c - d <= L + n /\ c - d <= Window + Margin
        /\ c - d = L + n \/ c - d >= Window - MaxK + 0
    BY <1>2, <2>1, <2>2, <2>4, SizeFacts
  <2>9. Len(props') = 0 /\ ~Drafting'
    BY <1>1 DEF Drafting
  <2>10. \A i \in 1 .. Len(cache') :
           cache'[i] = Row(nSeen' - Len(cache') + i - 1, fed[nSeen' - Len(cache') + i])
    BY <2>5, <2>6, <2>7
  <2>11. /\ Len(cache') <= nSeen' /\ Len(cache') <= Window + Margin
         /\ Len(cache') = nSeen' \/ Len(cache') >= Window - MaxK + Len(props')
    BY <2>5, <2>6, <2>8, <2>9
  <2>12. cache' \in Seq([pos : Int, token : Tokens])
    BY <2>5 DEF All
  <2>13. nSeen' = NextPos'
    BY <1>6, <2>6
  <2> QED BY <1>6, <2>9, <2>10, <2>11, <2>12, <2>13 DEF WindowedRight
<1>9. StaticRight'
  <2> SUFFICES ASSUME drafter = "static" PROVE StaticRight'
    BY <1>1 DEF StaticRight
  <2>1. slots' = slots
    BY <1>1 DEF staticVars
  <2>2. Active
    BY <1>1 DEF Active
  <2>3. DOMAIN slots = Slots /\ HeldRight(slots, Fed, NextPos)
    BY <1>1, <2>2 DEF StaticRight
  <2>4. PICK m \in NextPos - 1 .. Settled - 1 + MaxK : Held(slots, m)
    BY <1>1, <2>2 DEF StaticRight
  <2> DEFINE q == L + n
  <2>5. m \in q - 1 .. q - 1 + MaxK
    BY <1>1, <1>2, <1>7, <2>4, SizeFacts
  <2>7. q \in Nat /\ NextPos' = q /\ Settled' = q /\ \A i \in 1 .. q : fed[i] = Fed[i]
    BY <1>2, <1>3, <1>6
  <2>8. q <= NextPos
    BY <1>1, <1>2, <1>7
  <2> HIDE DEF q
  <2>6. HeldRight(slots, fed, q)
    <3> SUFFICES ASSUME NEW s \in Slots, slots[s].pos \in 0 .. q - 1
                 PROVE  slots[s] = Row(slots[s].pos, fed[slots[s].pos + 1])
      BY DEF HeldRight
    <3>1. NextPos \in Nat
      BY <1>2, <1>7
    <3>2. slots[s].pos \in 0 .. NextPos - 1
      BY <2>7, <2>8, <3>1
    <3>3. slots[s] = Row(slots[s].pos, Fed[slots[s].pos + 1])
      BY <2>3, <3>2 DEF HeldRight
    <3>4. slots[s].pos + 1 \in 1 .. q
      BY <2>7
    <3> QED BY <2>7, <3>3, <3>4
  <2>9. Fed' = fed
    BY <1>6
  <2>10. DOMAIN slots' = Slots /\ Held(slots', m) /\ HeldRight(slots', fed, q)
    BY <2>1, <2>3, <2>4, <2>6
  <2> QED BY <2>5, <2>7, <2>9, <2>10 DEF StaticRight
<1>10. SeenRight'
  BY <1>1 DEF SeenRight, Drafting
<1> QED BY <1>4, <1>5, <1>8, <1>9, <1>10 DEF DraftInv

LEMMA RestRight ==
  ASSUME DraftInv, StepRaises \/ Finish
  PROVE  DraftInv'
<1>1. /\ UNCHANGED <<drafter, context, promptLen, requests>> /\ props' = <<>>
      /\ stage' \in {"idle", "failed"} /\ wanted' \in Nat
  BY DEF DraftInv, LoopTypes, LoopRight, Drafting, StepRaises, Finish
<1>2. /\ drafter \in Drafters /\ context \in Seq(Tokens) /\ promptLen \in Nat /\ requests \in Nat
  BY DEF DraftInv, LoopTypes
<1>3. ~Active' /\ ~Drafting' /\ <<>> \in Seq(Tokens)
  BY <1>1 DEF Active, Drafting
<1>4. LoopTypes'
  BY <1>1, <1>2, <1>3 DEF LoopTypes
<1>5. LoopRight'
  BY <1>1, <1>3 DEF LoopRight
<1>6. WindowedRight' /\ StaticRight' /\ SeenRight'
  BY <1>3 DEF WindowedRight, StaticRight, SeenRight
<1> QED BY <1>4, <1>5, <1>6 DEF DraftInv

-----------------------------------------------------------------------------
(* The index of the prompt lookup *)

\* F is defined by recursion over 0 .. m.
ByRecursion(F, m, S, base, G) ==
  /\ F \in [0 .. m -> S]
  /\ F[0] = base
  /\ \A i \in 1 .. m : F[i] = G[<<i, F[i - 1]>>]

\* There is such a function.
LEMMA Recursion ==
  ASSUME NEW m \in Nat, NEW S, NEW base \in S, NEW G \in [(1 .. m) \X S -> S]
  PROVE  \E F : ByRecursion(F, m, S, base, G)
<1> DEFINE Defined(j) == \E F \in [0 .. j -> S] :
                           /\ F[0] = base
                           /\ \A i \in 1 .. j : F[i] = G[<<i, F[i - 1]>>]
           T == {j \in 0 .. m : ~Defined(j)}
<1>1. Defined(0)
  <2>1. [i \in 0 .. 0 |-> base] \in [0 .. 0 -> S]
    OBVIOUS
  <2>2. \A i \in 1 .. 0 : FALSE
    OBVIOUS
  <2>3. [i \in 0 .. 0 |-> base][0] = base
    OBVIOUS
  <2> QED BY <2>1, <2>2, <2>3
<1>2. ASSUME NEW j \in 1 .. m, Defined(j - 1)
      PROVE  Defined(j)
  <2>1. PICK F \in [0 .. j - 1 -> S] :
          /\ F[0] = base
          /\ \A i \in 1 .. j - 1 : F[i] = G[<<i, F[i - 1]>>]
    BY <1>2
  <2> DEFINE H == [i \in 0 .. j |-> IF i = j THEN G[<<j, F[j - 1]>>] ELSE F[i]]
  <2>2. F[j - 1] \in S /\ G[<<j, F[j - 1]>>] \in S
    <3>1. j - 1 \in 0 .. j - 1
      OBVIOUS
    <3>2. F[j - 1] \in S
      BY <3>1
    <3>3. <<j, F[j - 1]>> \in (1 .. m) \X S
      BY <3>2
    <3> QED BY <3>2, <3>3
  <2>3. H \in [0 .. j -> S]
    BY <2>2
  <2>4. \A i \in 0 .. j - 1 : H[i] = F[i]
    OBVIOUS
  <2>5. H[0] = base
    BY <2>1, <2>4
  <2>6. H[j] = G[<<j, H[j - 1]>>]
    <3>1. j \in 0 .. j /\ j - 1 \in 0 .. j - 1
      OBVIOUS
    <3>2. H[j] = G[<<j, F[j - 1]>>]
      BY <3>1
    <3>3. H[j - 1] = F[j - 1]
      BY <2>4, <3>1
    <3> QED BY <3>2, <3>3
  <2>7. \A i \in 1 .. j - 1 : H[i] = G[<<i, H[i - 1]>>]
    <3>1. \A i \in 1 .. j - 1 : i \in 0 .. j - 1 /\ i - 1 \in 0 .. j - 1
      OBVIOUS
    <3> HIDE DEF H
    <3> QED BY <2>1, <2>4, <3>1
  <2> HIDE DEF H
  <2>8. \A i \in 1 .. j : i = j \/ i \in 1 .. j - 1
    OBVIOUS
  <2> QED BY <2>3, <2>5, <2>6, <2>7, <2>8
<1> HIDE DEF Defined
<1>3. T = {}
  <2>1. SUFFICES ASSUME T # {} PROVE FALSE
    OBVIOUS
  <2>2. PICK j \in T : \A i \in Nat : i < j => i \notin T
    <3>1. T \in SUBSET Nat
      OBVIOUS
    <3> HIDE DEF T
    <3> QED BY <2>1, <3>1, LeastNatural
  <2>3. j \in 0 .. m /\ ~Defined(j)
    OBVIOUS
  <2>4. j # 0
    BY <1>1, <2>3
  <2>5. Defined(j - 1)
    <3>1. j - 1 \in 0 .. m /\ j - 1 \in Nat /\ j - 1 < j
      BY <2>3, <2>4
    <3> QED BY <2>2, <3>1
  <2> QED BY <1>2, <2>3, <2>4, <2>5
<1>4. Defined(m)
  <2>1. m \in 0 .. m
    OBVIOUS
  <2> QED BY <1>3, <2>1
<1> QED BY <1>4 DEF Defined, ByRecursion

\* What holds at 0 and carries over to the next number holds up to m.
LEMMA UpTo ==
  ASSUME NEW m \in Nat, NEW T, 0 \in T, \A i \in 1 .. m : i - 1 \in T => i \in T
  PROVE  \A i \in 0 .. m : i \in T
<1> DEFINE Bad == {i \in 0 .. m : i \notin T}
<1>1. SUFFICES ASSUME Bad # {} PROVE FALSE
  OBVIOUS
<1>2. PICK j \in Bad : \A i \in Nat : i < j => i \notin Bad
  <2>1. Bad \in SUBSET Nat
    OBVIOUS
  <2> HIDE DEF Bad
  <2> QED BY <1>1, <2>1, LeastNatural
<1>3. j \in 1 .. m /\ j - 1 \in Nat /\ j - 1 < j /\ j - 1 \in 0 .. m
  BY <1>2
<1>4. j - 1 \in T
  BY <1>2, <1>3
<1> QED BY <1>2, <1>3, <1>4

\* The last place in s where a window has a follower.
LastPlace(s) == IF Len(s) > N THEN Len(s) - N ELSE 0

\* The followers found at place i, after those found before it.
Found(s, start, key, i, before) ==
  IF i > start /\ SubSeq(s, i, i + N - 1) = key THEN Append(before, s[i + N]) ELSE before

\* The equation that Followers solves.
Finds(F, s, start, key) ==
  F = [i \in 0 .. LastPlace(s) |->
         IF i = 0 THEN <<>> ELSE Found(s, start, key, i, F[i - 1])]

LEMMA LastPlaceFacts ==
  ASSUME NEW s \in Seq(Tokens)
  PROVE  /\ LastPlace(s) \in Nat /\ LastPlace(s) = NoteFrom(s)
         /\ \A i \in 1 .. LastPlace(s) : i + N \in 1 .. Len(s)
<1>1. Len(s) \in Nat
  OBVIOUS
<1> QED BY <1>1, SizeFacts DEF LastPlace, NoteFrom

LEMMA FollowersFacts ==
  ASSUME NEW s \in Seq(Tokens), NEW start \in Nat, NEW key
  PROVE  \E F \in [0 .. LastPlace(s) -> Seq(Tokens)] :
           /\ F[0] = <<>>
           /\ \A i \in 1 .. LastPlace(s) : F[i] = Found(s, start, key, i, F[i - 1])
           /\ Followers(s, start, key) = F[LastPlace(s)]
<1> DEFINE m == LastPlace(s)
           S == Seq(Tokens)
           Step(i, x) == Found(s, start, key, i, x)
           G == [p \in (1 .. m) \X S |-> Step(p[1], p[2])]
<1>1. m \in Nat /\ \A i \in 1 .. m : s[i + N] \in Tokens
  BY LastPlaceFacts
<1> HIDE DEF m
<1>2. \A i \in 1 .. m, x \in S : Step(i, x) \in S
  BY <1>1 DEF Found
<1> HIDE DEF Step
<1>3. G \in [(1 .. m) \X S -> S] /\ \A i \in 1 .. m, x \in S : G[<<i, x>>] = Step(i, x)
  <2> HIDE DEF S
  <2> QED BY <1>2
<1>4. <<>> \in S
  OBVIOUS
<1> HIDE DEF G, S
<1>5. PICK H : ByRecursion(H, m, S, <<>>, G)
  BY <1>1, <1>3, <1>4, Recursion
<1>6. H \in [0 .. m -> S] /\ H[0] = <<>> /\ \A i \in 1 .. m : H[i] = Step(i, H[i - 1])
  <2>1. H \in [0 .. m -> S] /\ H[0] = <<>> /\ \A i \in 1 .. m : H[i] = G[<<i, H[i - 1]>>]
    BY <1>5 DEF ByRecursion
  <2>2. \A i \in 1 .. m : i - 1 \in 0 .. m
    BY <1>1
  <2> QED BY <1>3, <2>1, <2>2
<1>7. Finds(H, s, start, key)
  <2>1. \A i \in 0 .. m : H[i] = IF i = 0 THEN <<>> ELSE Step(i, H[i - 1])
    <3>1. \A i \in 0 .. m : i = 0 \/ i \in 1 .. m
      BY <1>1
    <3> QED BY <1>6, <3>1
  <2>2. H = [i \in 0 .. m |-> IF i = 0 THEN <<>> ELSE Step(i, H[i - 1])]
    BY <1>6, <2>1
  <2> QED BY <2>2 DEF Finds, Step, m
<1> DEFINE C == CHOOSE F : Finds(F, s, start, key)
<1>8. Followers(s, start, key) = C[m]
  BY DEF Followers, Finds, Found, LastPlace, m
<1>9. Finds(C, s, start, key)
  BY <1>7
<1> HIDE DEF C
<1>10. C = [i \in 0 .. m |-> IF i = 0 THEN <<>> ELSE Step(i, C[i - 1])]
  BY <1>9 DEF Finds, Step, m
<1>11. C[0] = <<>> /\ \A i \in 1 .. m : C[i] = Step(i, C[i - 1])
  <2>1. 0 \in 0 .. m /\ \A i \in 1 .. m : i \in 0 .. m /\ i # 0
    BY <1>1
  <2> QED BY <1>10, <2>1
<1>12. \A i \in 0 .. m : C[i] \in S
  <2> DEFINE T == {i \in 0 .. m : C[i] \in S}
  <2>1. 0 \in T
    BY <1>1, <1>4, <1>11
  <2>2. \A i \in 1 .. m : i - 1 \in T => i \in T
    BY <1>1, <1>2, <1>11
  <2> HIDE DEF T
  <2>3. \A i \in 0 .. m : i \in T
    BY <1>1, <2>1, <2>2, UpTo
  <2> QED BY <2>3 DEF T
<1>13. C \in [0 .. m -> S]
  BY <1>10, <1>12
<1> QED BY <1>8, <1>11, <1>13 DEF Step, m, S

LEMMA AppendLast ==
  ASSUME NEW a \in Seq(Tokens), NEW b \in Seq(Tokens), NEW x \in Tokens
  PROVE  a \o Append(b, x) = Append(a \o b, x)
<1> DEFINE l == a \o Append(b, x)
           r == Append(a \o b, x)
<1>1. l \in Seq(Tokens) /\ r \in Seq(Tokens) /\ Len(l) = Len(r)
  OBVIOUS
<1>2. \A i \in 1 .. Len(l) : l[i] = r[i]
  OBVIOUS
<1> HIDE DEF l, r
<1>3. l = r
  BY <1>1, <1>2
<1> QED BY <1>3 DEF l, r

\* A window of t is one of every longer context.
LEMMA SameWindow ==
  ASSUME NEW t \in Seq(Tokens), NEW new \in Seq(Tokens), NEW i \in 1 .. LastPlace(t)
  PROVE  /\ SubSeq(t \o new, i, i + N - 1) = SubSeq(t, i, i + N - 1)
         /\ (t \o new)[i + N] = t[i + N]
<1> DEFINE s == t \o new
           l == SubSeq(s, i, i + N - 1)
           r == SubSeq(t, i, i + N - 1)
<1>1. /\ s \in Seq(Tokens) /\ Len(s) = Len(t) + Len(new)
      /\ \A j \in 1 .. Len(t) : s[j] = t[j]
  OBVIOUS
<1>2. i \in Nat /\ i > 0 /\ i + N \in 1 .. Len(t) /\ Len(t) \in Nat /\ Len(new) \in Nat
  BY LastPlaceFacts
<1> HIDE DEF s
<1>3. /\ l \in Seq(Tokens) /\ Len(l) = N /\ \A j \in 1 .. N : l[j] = s[i + j - 1]
      /\ r \in Seq(Tokens) /\ Len(r) = N /\ \A j \in 1 .. N : r[j] = t[i + j - 1]
  BY <1>1, <1>2, SizeFacts
<1>4. \A j \in 1 .. N : i + j - 1 \in 1 .. Len(t)
  BY <1>2, SizeFacts
<1> HIDE DEF l, r
<1>5. l = r
  <2>1. \A j \in 1 .. Len(l) : l[j] = r[j]
    BY <1>1, <1>3, <1>4
  <2> QED BY <1>3, <2>1
<1>6. s[i + N] = t[i + N]
  BY <1>1, <1>2
<1> QED BY <1>5, <1>6 DEF l, r, s

\* The followers in a longer context: those in t, then those that begin where
\* note_accepted resumes.
LEMMA FollowersSplit ==
  ASSUME NEW t \in Seq(Tokens), NEW new \in Seq(Tokens), NEW key
  PROVE  Followers(t \o new, 0, key)
           = Followers(t, 0, key) \o Followers(t \o new, NoteFrom(t), key)
<1> DEFINE s == t \o new
           from == LastPlace(t)
           last == LastPlace(s)
<1>1. s \in Seq(Tokens) /\ Len(s) = Len(t) + Len(new) /\ Len(t) \in Nat /\ Len(new) \in Nat
  OBVIOUS
<1>2. \A i \in 1 .. from : SubSeq(s, i, i + N - 1) = SubSeq(t, i, i + N - 1) /\ s[i + N] = t[i + N]
  BY SameWindow
<1> HIDE DEF s
<1>3. from \in Nat /\ last \in Nat /\ from <= last /\ from = NoteFrom(t)
  BY <1>1, SizeFacts DEF LastPlace, NoteFrom
<1>4. \A i \in 1 .. last : s[i + N] \in Tokens
  BY <1>1, LastPlaceFacts
<1>5. PICK A \in [0 .. last -> Seq(Tokens)] :
        /\ A[0] = <<>> /\ \A i \in 1 .. last : A[i] = Found(s, 0, key, i, A[i - 1])
        /\ Followers(s, 0, key) = A[last]
  <2>1. 0 \in Nat
    OBVIOUS
  <2> QED BY ONLY <1>1, <2>1, FollowersFacts
<1>6. PICK B \in [0 .. from -> Seq(Tokens)] :
        /\ B[0] = <<>> /\ \A i \in 1 .. from : B[i] = Found(t, 0, key, i, B[i - 1])
        /\ Followers(t, 0, key) = B[from]
  BY FollowersFacts
<1>7. PICK C \in [0 .. last -> Seq(Tokens)] :
        /\ C[0] = <<>> /\ \A i \in 1 .. last : C[i] = Found(s, from, key, i, C[i - 1])
        /\ Followers(s, from, key) = C[last]
  <2>1. s \in Seq(Tokens) /\ from \in Nat
    BY <1>1, <1>3
  <2> HIDE DEF from
  <2> QED BY ONLY <2>1, FollowersFacts
<1> HIDE DEF from, last
<1>8. \A i \in 0 .. from : A[i] = B[i] /\ C[i] = <<>>
  <2> DEFINE T == {i \in 0 .. from : A[i] = B[i] /\ C[i] = <<>>}
  <2>1. 0 \in T
    BY <1>3, <1>5, <1>6, <1>7
  <2>2. ASSUME NEW i \in 1 .. from, i - 1 \in T PROVE i \in T
    <3>1. i \in 1 .. last /\ i \in 0 .. from /\ i > 0 /\ ~(i > from)
      BY <1>3
    <3>2. A[i] = Found(s, 0, key, i, A[i - 1]) /\ B[i] = Found(t, 0, key, i, B[i - 1])
          /\ C[i] = Found(s, from, key, i, C[i - 1])
      BY <1>5, <1>6, <1>7, <3>1
    <3>3. A[i - 1] = B[i - 1] /\ C[i - 1] = <<>>
      BY <2>2
    <3>4. A[i] = B[i]
      BY <1>2, <3>2, <3>3 DEF Found
    <3>5. C[i] = <<>>
      BY <3>1, <3>2, <3>3 DEF Found
    <3> QED BY <3>1, <3>4, <3>5
  <2> HIDE DEF T
  <2>3. \A i \in 0 .. from : i \in T
    BY <1>3, <2>1, <2>2, UpTo
  <2> QED BY <2>3 DEF T
<1>9. \A d \in 0 .. last - from : A[from + d] = B[from] \o C[from + d]
  <2> DEFINE T == {d \in 0 .. last - from : A[from + d] = B[from] \o C[from + d]}
  <2>1. 0 \in T
    <3>1. from \in 0 .. from /\ from + 0 = from /\ B[from] \in Seq(Tokens)
      BY <1>3
    <3>2. A[from] = B[from] /\ C[from] = <<>>
      BY <1>8, <3>1
    <3>3. B[from] \o <<>> = B[from]
      BY <3>1
    <3>4. 0 \in 0 .. last - from
      BY <1>3
    <3>5. A[from + 0] = B[from] \o C[from + 0]
      BY <3>1, <3>2, <3>3
    <3> QED BY <3>4, <3>5
  <2>2. ASSUME NEW d \in 1 .. last - from, d - 1 \in T PROVE d \in T
    <3> DEFINE i == from + d
    <3>1. /\ i \in 1 .. last /\ i - 1 \in 0 .. last /\ i > 0 /\ i > from
          /\ i - 1 = from + (d - 1) /\ from \in 0 .. from
      <4>1. d \in Nat /\ d > 0 /\ d <= last - from /\ from \in Nat /\ last \in Nat
        BY <1>3
      <4>2. i \in Nat /\ i > from /\ i > 0 /\ i <= last
        BY <4>1
      <4>3. i - 1 = from + (d - 1) /\ from \in 0 .. from
        BY <4>1
      <4> HIDE DEF i
      <4> QED BY <4>1, <4>2, <4>3
    <3> HIDE DEF i
    <3>2. A[i - 1] = B[from] \o C[i - 1]
      BY <2>2, <3>1
    <3>3. A[i] = Found(s, 0, key, i, A[i - 1]) /\ C[i] = Found(s, from, key, i, C[i - 1])
      BY <1>5, <1>7, <3>1
    <3>4. B[from] \in Seq(Tokens) /\ C[i - 1] \in Seq(Tokens) /\ s[i + N] \in Tokens
      BY <1>4, <3>1
    <3>5. A[i] = B[from] \o C[i]
      <4>1. CASE SubSeq(s, i, i + N - 1) = key
        <5>1. A[i] = Append(A[i - 1], s[i + N]) /\ C[i] = Append(C[i - 1], s[i + N])
          BY <3>1, <3>3, <4>1 DEF Found
        <5>2. B[from] \o Append(C[i - 1], s[i + N]) = Append(B[from] \o C[i - 1], s[i + N])
          BY ONLY <3>4, AppendLast
        <5> QED BY <3>2, <5>1, <5>2
      <4>2. CASE SubSeq(s, i, i + N - 1) # key
        <5>1. A[i] = A[i - 1] /\ C[i] = C[i - 1]
          BY <3>3, <4>2 DEF Found
        <5> QED BY <3>2, <5>1
      <4> QED BY <4>1, <4>2
    <3>6. d \in 0 .. last - from
      BY <1>3
    <3> QED BY <3>5, <3>6 DEF i
  <2> HIDE DEF T
  <2>3. last - from \in Nat
    BY <1>3
  <2>4. \A d \in 0 .. last - from : d \in T
    BY <2>1, <2>2, <2>3, UpTo
  <2> QED BY <2>4 DEF T
<1>10. A[last] = B[from] \o C[last]
  <2>1. last - from \in 0 .. last - from /\ from + (last - from) = last
    BY <1>3
  <2> QED BY <1>9, <2>1
<1> QED BY <1>3, <1>5, <1>6, <1>7, <1>10 DEF s

-----------------------------------------------------------------------------
(* Proposals of the prompt lookup *)

LEMMA MostCommonType ==
  ASSUME NEW s \in Seq(Tokens), s # <<>>
  PROVE  MostCommon(s) \in Tokens
<1> DEFINE L == Len(s)
           c(i) == Count(s, s[i])
           Best(i) == \A j \in 1 .. L : c(i) > c(j) \/ (c(i) = c(j) /\ i <= j)
<1>1. L \in Nat /\ L > 0 /\ \A i \in 1 .. L : s[i] \in Tokens
  OBVIOUS
<1>2. \A i \in 1 .. L : c(i) \in Nat /\ c(i) <= L
  <2> SUFFICES ASSUME NEW i \in 1 .. L PROVE c(i) \in Nat /\ c(i) <= L
    OBVIOUS
  <2> DEFINE S == {j \in 1 .. L : s[j] = s[i]}
  <2>1. IsFiniteSet(1 .. L) /\ Cardinality(1 .. L) = L
    BY <1>1, FS_Interval
  <2>2. S \in SUBSET (1 .. L)
    OBVIOUS
  <2> HIDE DEF S, L
  <2>3. IsFiniteSet(S) /\ Cardinality(S) <= Cardinality(1 .. L)
    BY <2>1, <2>2, FS_Subset
  <2>4. Cardinality(S) \in Nat
    BY <2>3, FS_CardinalityType
  <2>5. c(i) = Cardinality(S)
    BY DEF Count, S, L
  <2> QED BY <2>1, <2>3, <2>4, <2>5
<1>3. MostCommon(s) = s[CHOOSE i \in 1 .. L : Best(i)]
  BY DEF MostCommon
<1> HIDE DEF L, c
<1> DEFINE T1 == {d \in Nat : \E i \in 1 .. L : c(i) = L - d}
<1>4. PICK d \in T1 : \A e \in Nat : e < d => e \notin T1
  <2>1. L - c(1) \in Nat /\ c(1) = L - (L - c(1)) /\ 1 \in 1 .. L
    BY <1>1, <1>2
  <2>2. L - c(1) \in T1
    BY <2>1
  <2>3. T1 \in SUBSET Nat /\ T1 # {}
    BY <2>2
  <2> HIDE DEF T1
  <2> QED BY <2>3, LeastNatural
<1> DEFINE top == L - d
           T2 == {i \in 1 .. L : c(i) = top}
<1>5. \A j \in 1 .. L : c(j) <= top
  <2> SUFFICES ASSUME NEW j \in 1 .. L, c(j) > top PROVE FALSE
    BY <1>1, <1>2, <1>4
  <2> DEFINE e == L - c(j)
  <2>1. e \in Nat /\ e < d /\ c(j) = L - e
    BY <1>1, <1>2, <1>4
  <2>2. e \in T1
    BY <2>1
  <2> HIDE DEF T1, e
  <2> QED BY <1>4, <2>1, <2>2
<1>6. PICK b \in T2 : \A i \in Nat : i < b => i \notin T2
  <2>1. T2 # {}
    BY <1>4
  <2>2. T2 \in SUBSET Nat
    BY <1>1
  <2> HIDE DEF T2
  <2> QED BY <2>1, <2>2, LeastNatural
<1>7. b \in 1 .. L /\ c(b) = top /\ top \in Nat
  BY <1>2, <1>6
<1> HIDE DEF top
<1>8. Best(b)
  <2> SUFFICES ASSUME NEW j \in 1 .. L PROVE c(b) > c(j) \/ (c(b) = c(j) /\ b <= j)
    OBVIOUS
  <2>1. c(j) <= top /\ c(j) \in Nat
    BY <1>2, <1>5
  <2>2. CASE c(j) = top
    <3>1. j \in T2 /\ j \in Nat
      BY <1>1, <2>2
    <3>2. ~(j < b)
      BY <1>6, <3>1
    <3> QED BY <1>1, <1>7, <2>2, <3>1, <3>2
  <2>3. CASE c(j) # top
    BY <1>7, <2>1, <2>3
  <2> QED BY <2>2, <2>3
<1> HIDE DEF Best
<1>9. (CHOOSE i \in 1 .. L : Best(i)) \in 1 .. L
  BY <1>7, <1>8
<1> QED BY <1>1, <1>3, <1>9

\* The proposal number j, after the earlier ones p.
Copy(s, ix, j, p) ==
  LET opts == ix[LastWindow(s \o p)]
  IN  IF Len(p) < j - 1 \/ opts = <<>> THEN p ELSE Append(p, MostCommon(opts))

\* The equation that Copied solves.
Copies(F, s, ix, k) ==
  F = [j \in 0 .. k |-> IF j = 0 THEN <<>> ELSE Copy(s, ix, j, F[j - 1])]

LEMMA CopyType ==
  ASSUME NEW s \in Seq(Tokens), Len(s) >= N,
         NEW ix, \A key \in Windows : ix[key] \in Seq(Tokens),
         NEW j \in Nat, NEW p \in Seq(Tokens)
  PROVE  Copy(s, ix, j, p) \in Seq(Tokens)
<1> DEFINE q == s \o p
           w == LastWindow(q)
<1>1. q \in Seq(Tokens) /\ Len(q) \in Nat /\ Len(q) >= N
  BY SizeFacts
<1> HIDE DEF q
<1>2. w \in Windows
  <2> DEFINE a == Len(q) - N + 1
  <2>1. a \in 1 .. Len(q) /\ Len(q) \in 1 .. Len(q) /\ Len(q) - a + 1 = N
    BY <1>1, SizeFacts
  <2>2. w = SubSeq(q, a, Len(q))
    BY DEF LastWindow
  <2> HIDE DEF a, w
  <2>3. w \in Seq(Tokens) /\ Len(w) = N
    BY <1>1, <2>1, <2>2
  <2>4. w \in [1 .. N -> Tokens]
    BY <2>3
  <2> QED BY <2>4 DEF Windows
<1> HIDE DEF w
<1>3. ix[w] \in Seq(Tokens)
  BY <1>2
<1>4. Copy(s, ix, j, p) = IF Len(p) < j - 1 \/ ix[w] = <<>> THEN p ELSE Append(p, MostCommon(ix[w]))
  BY DEF Copy, w, q
<1>5. ix[w] # <<>> => MostCommon(ix[w]) \in Tokens
  BY <1>3, MostCommonType
<1> QED BY <1>4, <1>5

LEMMA CopiedType ==
  ASSUME NEW s \in Seq(Tokens), Len(s) >= N,
         NEW ix, \A key \in Windows : ix[key] \in Seq(Tokens), NEW k \in Nat
  PROVE  Copied(s, ix, k) \in Seq(Tokens)
<1> DEFINE S == Seq(Tokens)
           Step(j, p) == Copy(s, ix, j, p)
           G == [x \in (1 .. k) \X S |-> Step(x[1], x[2])]
<1>1. \A j \in 1 .. k, p \in S : Step(j, p) \in S
  <2> SUFFICES ASSUME NEW j \in 1 .. k, NEW p \in S PROVE Step(j, p) \in S
    OBVIOUS
  <2>1. j \in Nat
    OBVIOUS
  <2> QED BY <2>1, CopyType
<1> HIDE DEF Step
<1>2. G \in [(1 .. k) \X S -> S] /\ \A j \in 1 .. k, p \in S : G[<<j, p>>] = Step(j, p)
  <2> HIDE DEF S
  <2> QED BY <1>1
<1>3. <<>> \in S
  OBVIOUS
<1> HIDE DEF G, S
<1>4. PICK H : ByRecursion(H, k, S, <<>>, G)
  BY <1>2, <1>3, Recursion
<1>5. H \in [0 .. k -> S] /\ H[0] = <<>> /\ \A j \in 1 .. k : H[j] = Step(j, H[j - 1])
  <2>1. H \in [0 .. k -> S] /\ H[0] = <<>> /\ \A j \in 1 .. k : H[j] = G[<<j, H[j - 1]>>]
    BY <1>4 DEF ByRecursion
  <2>2. \A j \in 1 .. k : j - 1 \in 0 .. k
    OBVIOUS
  <2> QED BY <1>2, <2>1, <2>2
<1>6. Copies(H, s, ix, k)
  <2>1. \A j \in 0 .. k : H[j] = IF j = 0 THEN <<>> ELSE Step(j, H[j - 1])
    <3>1. \A j \in 0 .. k : j = 0 \/ j \in 1 .. k
      OBVIOUS
    <3> QED BY <1>5, <3>1
  <2>2. H = [j \in 0 .. k |-> IF j = 0 THEN <<>> ELSE Step(j, H[j - 1])]
    BY <1>5, <2>1
  <2> QED BY <2>2 DEF Copies, Step
<1> DEFINE C == CHOOSE F : Copies(F, s, ix, k)
<1>7. Copied(s, ix, k) = C[k]
  BY DEF Copied, Copies, Copy
<1>8. Copies(C, s, ix, k)
  BY <1>6
<1> HIDE DEF C
<1>9. C = [j \in 0 .. k |-> IF j = 0 THEN <<>> ELSE Step(j, C[j - 1])]
  BY <1>8 DEF Copies, Step
<1>10. C[0] = <<>> /\ \A j \in 1 .. k : C[j] = Step(j, C[j - 1])
  <2>1. 0 \in 0 .. k /\ \A j \in 1 .. k : j \in 0 .. k /\ j # 0
    OBVIOUS
  <2> QED BY <1>9, <2>1
<1>11. \A j \in 0 .. k : C[j] \in S
  <2> DEFINE T == {j \in 0 .. k : C[j] \in S}
  <2>1. 0 \in T
    BY <1>3, <1>10
  <2>2. \A j \in 1 .. k : j - 1 \in T => j \in T
    BY <1>1, <1>10
  <2> HIDE DEF T
  <2>3. \A j \in 0 .. k : j \in T
    BY <2>1, <2>2, UpTo
  <2> QED BY <2>3 DEF T
<1>12. C[k] \in S
  <2>1. k \in 0 .. k
    OBVIOUS
  <2> QED BY <1>11, <2>1
<1> QED BY <1>7, <1>12 DEF S

-----------------------------------------------------------------------------
(* What the prompt lookup knows *)

LEMMA FollowersType ==
  ASSUME NEW s \in Seq(Tokens), NEW start \in Nat, NEW key
  PROVE  Followers(s, start, key) \in Seq(Tokens)
<1>1. PICK F \in [0 .. LastPlace(s) -> Seq(Tokens)] : Followers(s, start, key) = F[LastPlace(s)]
  BY FollowersFacts
<1>2. LastPlace(s) \in 0 .. LastPlace(s)
  BY LastPlaceFacts
<1> QED BY <1>1, <1>2

\* Noting tokens keeps the index exact.
LEMMA NoteExact ==
  ASSUME tokens \in Seq(Tokens), IndexExact, NEW new \in Seq(Tokens), NoteAccepted(new)
  PROVE  tokens' = tokens \o new /\ tokens' \in Seq(Tokens) /\ IndexExact'
<1>1. tokens' = tokens \o new /\ ngrams' = IndexFrom(ngrams, tokens', NoteFrom(tokens))
  BY DEF NoteAccepted
<1>2. tokens' \in Seq(Tokens)
  BY <1>1
<1>3. ASSUME NEW key \in Windows
      PROVE  ngrams'[key] = Followers(tokens', 0, key)
  <2>1. ngrams'[key] = ngrams[key] \o Followers(tokens', NoteFrom(tokens), key)
    BY <1>1 DEF IndexFrom
  <2>2. ngrams[key] = Followers(tokens, 0, key)
    BY DEF IndexExact
  <2>3. Followers(tokens \o new, 0, key)
          = Followers(tokens, 0, key) \o Followers(tokens \o new, NoteFrom(tokens), key)
    BY FollowersSplit
  <2> QED BY <1>1, <2>1, <2>2, <2>3
<1>4. IndexExact'
  BY <1>3 DEF IndexExact
<1> QED BY <1>1, <1>2, <1>4

\* So does a new prompt.
LEMMA PrefillExact ==
  ASSUME NEW ids \in Seq(Tokens), NgramPrefill(ids)
  PROVE  tokens' = ids /\ IndexExact'
<1>1. tokens' = ids /\ ngrams' = IndexFrom(Unindexed, ids, 0)
  BY DEF NgramPrefill
<1>2. ASSUME NEW key \in Windows
      PROVE  ngrams'[key] = Followers(ids, 0, key)
  <2>1. ngrams'[key] = <<>> \o Followers(ids, 0, key)
    BY <1>1 DEF IndexFrom, Unindexed
  <2>2. 0 \in Nat
    OBVIOUS
  <2>3. Followers(ids, 0, key) \in Seq(Tokens)
    BY ONLY ids \in Seq(Tokens), <2>2, FollowersType
  <2>4. \A f \in Seq(Tokens) : <<>> \o f = f
    OBVIOUS
  <2> QED BY <2>1, <2>3, <2>4
<1> QED BY <1>1, <1>2 DEF IndexExact

LEMMA InitNgram ==
  ASSUME NgramInit PROVE tokens = <<>> /\ tokens \in Seq(Tokens) /\ IndexExact
<1>1. tokens = <<>> /\ <<>> \in Seq(Tokens)
  BY DEF NgramInit
<1>2. ASSUME NEW key \in Windows
      PROVE  ngrams[key] = Followers(tokens, 0, key)
  <2>1. ngrams[key] = <<>>
    BY DEF NgramInit, Unindexed
  <2>2. LastPlace(<<>>) = 0
    BY SizeFacts DEF LastPlace
  <2>3. 0 \in Nat
    OBVIOUS
  <2>4. Followers(<<>>, 0, key) = <<>>
    <3>1. ASSUME NEW s \in Seq(Tokens), LastPlace(s) = 0
          PROVE  Followers(s, 0, key) = <<>>
      <4>1. PICK F \in [0 .. LastPlace(s) -> Seq(Tokens)] :
              F[0] = <<>> /\ Followers(s, 0, key) = F[LastPlace(s)]
        BY ONLY <2>3, FollowersFacts
      <4> QED BY <3>1, <4>1
    <3>2. <<>> \in Seq(Tokens)
      OBVIOUS
    <3> QED BY ONLY <2>2, <3>1, <3>2
  <2> QED BY <1>1, <2>1, <2>4
<1> QED BY <1>1, <1>2 DEF IndexExact

LEMMA NewPromptKnown ==
  ASSUME SpeculationInv, NEW ids \in Prompts, NEW y \in Tokens, NewPrompt(ids, y)
  PROVE  NgramRight'
<1>1. ids \in Seq(Tokens) /\ tokens \in Seq(Tokens) /\ IndexExact
  BY SpeculationAssumption DEF SpeculationInv, NgramRight
<1>2. /\ context' = Append(ids, y) /\ promptLen' = Len(ids) /\ stage' = "round"
      /\ UNCHANGED drafter
  BY DEF NewPrompt
<1>3. CASE drafter = "ngram"
  <2>1. tokens' = ids /\ IndexExact'
    BY <1>1, <1>3, PrefillExact DEF NewPrompt
  <2>2. Len(context') = promptLen' + 1
    BY <1>1, <1>2
  <2>3. SubSeq(context', 1, promptLen') = ids
    <3> DEFINE c == Append(ids, y)
               r == SubSeq(c, 1, Len(ids))
    <3>1. c \in Seq(Tokens) /\ Len(c) = Len(ids) + 1 /\ \A i \in 1 .. Len(ids) : c[i] = ids[i]
      BY <1>1
    <3> HIDE DEF c
    <3>2. r \in Seq(Tokens) /\ Len(r) = Len(ids) /\ \A i \in 1 .. Len(ids) : r[i] = ids[i]
      BY <1>1, <3>1
    <3> HIDE DEF r
    <3>3. r = ids
      BY <1>1, <3>2
    <3> QED BY <1>2, <3>3 DEF r, c
  <2>4. KnownRight'
    BY <1>2, <2>1, <2>2, <2>3 DEF KnownRight
  <2> QED BY <1>1, <2>1, <2>4 DEF NgramRight
<1>4. CASE drafter # "ngram"
  <2>1. tokens' = tokens /\ ngrams' = ngrams
    BY <1>4 DEF NewPrompt, ngramVars
  <2>2. IndexExact'
    BY <1>1, <2>1 DEF IndexExact
  <2>3. KnownRight'
    BY <1>2, <1>4 DEF KnownRight
  <2> QED BY <1>1, <2>1, <2>2, <2>3 DEF NgramRight
<1> QED BY <1>3, <1>4

LEMMA ContextFacts ==
  ASSUME LoopTypes, LoopRight, Active
  PROVE  /\ context \in Seq(Tokens) /\ Len(context) \in Nat /\ LastToken \in Tokens
         /\ promptLen \in Nat /\ promptLen > 0 /\ promptLen < Len(context)
<1>1. context \in Seq(Tokens) /\ promptLen \in Nat /\ promptLen > 0 /\ promptLen < Len(context)
  BY DEF LoopTypes, LoopRight
<1>2. Len(context) \in 1 .. Len(context)
  BY <1>1
<1> QED BY <1>1, <1>2 DEF LastToken

LEMMA ProposeCopiesRight ==
  ASSUME SpeculationInv, NEW k \in 1 .. MaxK, ProposeCopies(k)
  PROVE  SpeculationInv'
<1>1. /\ LoopTypes /\ LoopRight /\ KnownRight /\ tokens \in Seq(Tokens) /\ IndexExact
      /\ drafter = "ngram" /\ stage = "round" /\ stage' = "verify" /\ wanted' = k
      /\ NgramAlign(LastToken) /\ props' = NgramProposals(tokens', ngrams', k)
      /\ UNCHANGED <<drafter, context, promptLen, seen, requests>>
  BY DEF SpeculationInv, DraftInv, NgramRight, ProposeCopies, Starts
<1>2. /\ context \in Seq(Tokens) /\ Len(context) \in Nat /\ LastToken \in Tokens
      /\ promptLen \in Nat /\ promptLen > 0 /\ promptLen < Len(context)
  BY <1>1, ContextFacts DEF Active
<1>3. /\ tokens' \in Seq(Tokens) /\ IndexExact'
      /\ tokens' = IF Misaligned(LastToken) THEN Append(tokens, LastToken) ELSE tokens
  <2>1. CASE Misaligned(LastToken)
    <3>1. NoteAccepted(<<LastToken>>) /\ <<LastToken>> \in Seq(Tokens)
      BY <1>1, <1>2, <2>1 DEF NgramAlign
    <3>2. tokens' = tokens \o <<LastToken>> /\ tokens' \in Seq(Tokens) /\ IndexExact'
      BY <1>1, <3>1, NoteExact
    <3>3. tokens \o <<LastToken>> = Append(tokens, LastToken)
      BY <1>1, <1>2
    <3> QED BY <2>1, <3>2, <3>3
  <2>2. CASE ~Misaligned(LastToken)
    <3>1. tokens' = tokens /\ ngrams' = ngrams
      BY <1>1, <2>2 DEF NgramAlign, ngramVars
    <3>2. IndexExact'
      BY <1>1, <3>1 DEF IndexExact
    <3> QED BY <1>1, <2>2, <3>1, <3>2
  <2> QED BY <2>1, <2>2
<1>4. tokens' = Known
  <2>1. CASE /\ Len(context) = promptLen + 1
             /\ tokens = SubSeq(context, 1, promptLen)
    <3>1. /\ Len(tokens) = promptLen /\ tokens[promptLen] = context[promptLen]
          /\ LastToken = context[promptLen + 1]
          /\ \A i \in 1 .. promptLen : tokens[i] = context[i]
      BY <1>1, <1>2, <2>1 DEF LastToken
    <3>2. Misaligned(LastToken) <=> ~FirstTokenLost
      BY <1>2, <3>1, SizeFacts DEF Misaligned, FirstTokenLost
    <3>3. CASE FirstTokenLost
      <4>1. SubSeq(context, promptLen + 2, Len(context)) = <<>>
        BY <1>2, <2>1
      <4>2. tokens \o <<>> = tokens
        BY <1>1
      <4> QED BY <1>3, <2>1, <3>2, <3>3, <4>1, <4>2 DEF Known
    <3>4. CASE ~FirstTokenLost
      <4> DEFINE r == Append(tokens, LastToken)
      <4>1. r \in Seq(Tokens) /\ Len(r) = Len(context) /\ \A i \in 1 .. Len(context) : r[i] = context[i]
        BY <1>1, <1>2, <2>1, <3>1
      <4> HIDE DEF r
      <4>2. r = context
        BY <1>2, <4>1
      <4> QED BY <1>3, <3>2, <3>4, <4>2 DEF Known, r
    <3> QED BY <3>3, <3>4
  <2>2. CASE tokens = Known /\ tokens[Len(tokens)] = LastToken
    BY <1>3, <2>2 DEF Misaligned
  <2> QED BY <1>1, <2>1, <2>2 DEF KnownRight, Active
<1>5. Known' = Known
  BY <1>1 DEF Known, FirstTokenLost
<1>6. KnownRight'
  BY <1>1, <1>4, <1>5 DEF KnownRight
<1>7. NgramRight'
  BY <1>3, <1>6 DEF NgramRight
<1>8. props' \in Seq(Tokens)
  <2> DEFINE n == IF k < NgramMaxK THEN k ELSE NgramMaxK
  <2>1. n \in Nat
    BY SizeFacts
  <2>2. ASSUME NEW key \in Windows PROVE ngrams'[key] \in Seq(Tokens)
    <3>1. ngrams'[key] = Followers(tokens', 0, key) /\ 0 \in Nat
      BY <1>3 DEF IndexExact
    <3>2. tokens' \in Seq(Tokens)
      BY <1>3
    <3> QED BY ONLY <3>1, <3>2, FollowersType
  <2>3. CASE Len(tokens') < N
    <3>1. props' = <<>>
      BY <1>1, <2>3 DEF NgramProposals
    <3> QED BY <3>1
  <2>4. CASE ~(Len(tokens') < N)
    <3>1. props' = Copied(tokens', ngrams', n)
      BY <1>1, <2>4 DEF NgramProposals
    <3>2. tokens' \in Seq(Tokens) /\ Len(tokens') >= N
      BY <1>3, <2>4, SizeFacts
    <3> HIDE DEF n
    <3>3. Copied(tokens', ngrams', n) \in Seq(Tokens)
      BY ONLY <2>1, <2>2, <3>2, CopiedType
    <3> QED BY <3>1, <3>3
  <2> QED BY <2>3, <2>4
<1>9. LoopTypes'
  <2>1. wanted' \in Nat
    BY <1>1, SizeFacts
  <2> QED BY <1>1, <1>8, <2>1 DEF LoopTypes
<1>10. LoopRight'
  BY <1>1, <1>2 DEF LoopRight, Active, Drafting
<1>11. WindowedRight' /\ StaticRight' /\ SeenRight'
  BY <1>1 DEF WindowedRight, StaticRight, SeenRight
<1> QED BY <1>7, <1>9, <1>10, <1>11 DEF SpeculationInv, DraftInv

LEMMA CatFacts ==
  ASSUME NEW a \in Seq(Tokens), NEW b \in Seq(Tokens)
  PROVE  /\ a \o b \in Seq(Tokens) /\ Len(a \o b) = Len(a) + Len(b)
         /\ Len(a) \in Nat /\ Len(b) \in Nat
         /\ \A i \in 1 .. Len(a) : (a \o b)[i] = a[i]
         /\ \A i \in 1 .. Len(b) : (a \o b)[Len(a) + i] = b[i]
OBVIOUS

\* A part of a longer sequence.
LEMMA Extended ==
  ASSUME NEW c \in Seq(Tokens), NEW a \in Seq(Tokens), NEW l \in Nat, l < Len(c)
  PROVE  /\ SubSeq(c \o a, 1, l) = SubSeq(c, 1, l)
         /\ SubSeq(c \o a, l + 2, Len(c \o a)) = SubSeq(c, l + 2, Len(c)) \o a
         /\ SubSeq(c, 1, l) \in Seq(Tokens) /\ SubSeq(c, l + 2, Len(c)) \in Seq(Tokens)
<1> DEFINE s == c \o a
           p == SubSeq(s, 1, l)
           q == SubSeq(c, 1, l)
           u == SubSeq(s, l + 2, Len(s))
           v == SubSeq(c, l + 2, Len(c))
           w == v \o a
<1>1. /\ s \in Seq(Tokens) /\ Len(s) = Len(c) + Len(a)
      /\ \A i \in 1 .. Len(c) : s[i] = c[i]
      /\ \A i \in 1 .. Len(a) : s[Len(c) + i] = a[i]
      /\ Len(c) \in Nat /\ Len(a) \in Nat
  OBVIOUS
<1> HIDE DEF s
<1>2. p = q
  <2>1. /\ p \in Seq(Tokens) /\ Len(p) = l /\ \A i \in 1 .. l : p[i] = s[i]
        /\ q \in Seq(Tokens) /\ Len(q) = l /\ \A i \in 1 .. l : q[i] = c[i]
    BY <1>1
  <2> HIDE DEF p, q
  <2>2. \A i \in 1 .. l : i \in 1 .. Len(c)
    BY <1>1
  <2>3. \A i \in 1 .. Len(p) : p[i] = q[i]
    BY <1>1, <2>1, <2>2
  <2> QED BY <2>1, <2>3
<1> DEFINE d == Len(c) - l - 1
           e == Len(s) - l - 1
<1>3. d \in Nat /\ e = d + Len(a) /\ e \in Nat
  BY <1>1
<1>4. v \in Seq(Tokens) /\ Len(v) = d /\ \A i \in 1 .. d : v[i] = c[l + 1 + i]
  <2>1. v \in Seq(Tokens)
    BY <1>1
  <2>2. Len(v) = d
    BY <1>1
  <2>3. ASSUME NEW i \in 1 .. d PROVE v[i] = c[l + 1 + i]
    BY <1>1
  <2> QED BY <2>1, <2>2, <2>3
<1>5. u \in Seq(Tokens) /\ Len(u) = e /\ \A i \in 1 .. e : u[i] = s[l + 1 + i]
  <2>1. u \in Seq(Tokens)
    BY <1>1
  <2>2. Len(u) = e
    BY <1>1
  <2>3. ASSUME NEW i \in 1 .. e PROVE u[i] = s[l + 1 + i]
    BY <1>1
  <2> QED BY <2>1, <2>2, <2>3
<1>a. l + 1 = Len(c) - d
  BY <1>1
<1> HIDE DEF v, u, d, e
<1>6. /\ w \in Seq(Tokens) /\ Len(w) = d + Len(a)
      /\ \A i \in 1 .. d : w[i] = v[i]
      /\ \A i \in 1 .. Len(a) : w[d + i] = a[i]
  BY ONLY <1>3, <1>4, a \in Seq(Tokens), CatFacts DEF w
<1> HIDE DEF w
<1>7. \A i \in 1 .. Len(u) : u[i] = w[i]
  <2> SUFFICES ASSUME NEW i \in 1 .. e PROVE s[l + 1 + i] = w[i]
    BY <1>5
  <2>1. CASE i <= d
    <3>1. i \in 1 .. d /\ l + 1 + i \in 1 .. Len(c)
      BY <1>1, <1>3, <1>a, <2>1
    <3> QED BY <1>1, <1>4, <1>6, <3>1
  <2>2. CASE ~(i <= d)
    <3> DEFINE j == i - d
    <3>1. j \in 1 .. Len(a) /\ i = d + j /\ l + 1 + i = Len(c) + j
      BY <1>1, <1>3, <1>a, <2>2
    <3> HIDE DEF j
    <3> QED BY <1>1, <1>6, <3>1
  <2> QED BY <2>1, <2>2
<1>8. u = w
  <2>1. Len(u) = Len(w)
    BY <1>3, <1>5, <1>6
  <2> QED BY <1>5, <1>6, <1>7, <2>1
<1>9. q \in Seq(Tokens) /\ v \in Seq(Tokens)
  BY <1>1, <1>4
<1> QED BY <1>2, <1>8, <1>9 DEF p, q, u, v, w, s

LEMMA Regroup ==
  ASSUME NEW a \in Seq(Tokens), NEW b \in Seq(Tokens), NEW c \in Seq(Tokens)
  PROVE  (a \o b) \o c = a \o (b \o c)
<1> DEFINE l == (a \o b) \o c
           r == a \o (b \o c)
<1>1. l \in Seq(Tokens) /\ r \in Seq(Tokens) /\ Len(l) = Len(r)
  OBVIOUS
<1>2. \A i \in 1 .. Len(l) : l[i] = r[i]
  OBVIOUS
<1> HIDE DEF l, r
<1>3. l = r
  BY <1>1, <1>2
<1> QED BY <1>3 DEF l, r

LEMMA VerifyKnown ==
  ASSUME SpeculationInv, NEW n \in 0 .. MaxK, NEW b \in Tokens, Verify(n, b)
  PROVE  NgramRight'
<1> DEFINE acc == Append(SubSeq(props, 1, n), b)
<1>1. /\ LoopTypes /\ LoopRight /\ KnownRight /\ tokens \in Seq(Tokens) /\ IndexExact
      /\ stage = "verify" /\ stage' = "round" /\ n <= Len(props)
      /\ context' = context \o acc /\ UNCHANGED <<drafter, promptLen>>
      /\ drafter = "ngram" => NoteAccepted(acc)
      /\ drafter # "ngram" => UNCHANGED ngramVars
  BY DEF SpeculationInv, DraftInv, NgramRight, Verify
<1>2. /\ context \in Seq(Tokens) /\ Len(context) \in Nat
      /\ promptLen \in Nat /\ promptLen > 0 /\ promptLen < Len(context)
  BY <1>1, ContextFacts DEF Active
<1>3. acc \in Seq(Tokens) /\ Len(acc) = n + 1 /\ acc[n + 1] = b /\ n \in Nat
  <2>1. props \in Seq(Tokens) /\ n \in Nat /\ Len(props) \in Nat
    BY <1>1 DEF LoopTypes
  <2>2. SubSeq(props, 1, n) \in Seq(Tokens) /\ Len(SubSeq(props, 1, n)) = n
    BY <1>1, <2>1
  <2> QED BY <2>1, <2>2
<1> HIDE DEF acc
<1>4. CASE drafter = "ngram"
  <2>1. tokens' = tokens \o acc /\ tokens' \in Seq(Tokens) /\ IndexExact'
    BY <1>1, <1>3, <1>4, NoteExact
  <2>2. tokens = Known
    BY <1>1, <1>4 DEF KnownRight, Active
  <2>3. /\ context' \in Seq(Tokens) /\ Len(context') = Len(context) + n + 1
        /\ \A i \in 1 .. Len(context) : context'[i] = context[i]
        /\ context'[Len(context) + n + 1] = b
    <3>1. /\ context' \in Seq(Tokens) /\ Len(context') = Len(context) + Len(acc)
          /\ \A i \in 1 .. Len(context) : context'[i] = context[i]
          /\ \A i \in 1 .. Len(acc) : context'[Len(context) + i] = acc[i]
      BY <1>1, <1>2, <1>3, CatFacts
    <3>2. /\ n + 1 \in 1 .. Len(acc) /\ Len(context) + (n + 1) = Len(context) + n + 1
          /\ Len(context) + Len(acc) = Len(context) + n + 1
      BY <1>2, <1>3
    <3> QED BY <1>3, <3>1, <3>2
  <2>4. FirstTokenLost' <=> FirstTokenLost
    <3>1. promptLen \in 1 .. Len(context) /\ promptLen + 1 \in 1 .. Len(context)
      BY <1>2
    <3> QED BY <1>1, <2>3, <3>1 DEF FirstTokenLost
  <2>5. Known' = Known \o acc
    <3>1. CASE FirstTokenLost
      <4> DEFINE a == SubSeq(context, 1, promptLen)
                 r == SubSeq(context, promptLen + 2, Len(context))
      <4>1. /\ SubSeq(context', 1, promptLen) = a
            /\ SubSeq(context', promptLen + 2, Len(context')) = r \o acc
            /\ a \in Seq(Tokens) /\ r \in Seq(Tokens)
        BY <1>1, <1>2, <1>3, Extended
      <4>2. Known = a \o r
        BY <3>1 DEF Known
      <4>3. Known' = SubSeq(context', 1, promptLen) \o SubSeq(context', promptLen + 2, Len(context'))
        BY <1>1, <2>4, <3>1 DEF Known
      <4> HIDE DEF a, r
      <4>4. (a \o r) \o acc = a \o (r \o acc)
        BY ONLY <4>1, <1>3, Regroup
      <4> QED BY <4>1, <4>2, <4>3, <4>4
    <3>2. CASE ~FirstTokenLost
      BY <1>1, <2>4, <3>2 DEF Known
    <3> QED BY <3>1, <3>2
  <2>6. LastToken' = b
    BY <2>3 DEF LastToken
  <2>7. Len(tokens') > 0 /\ tokens'[Len(tokens')] = b
    <3>1. /\ Len(tokens') = Len(tokens) + Len(acc) /\ Len(tokens) \in Nat
          /\ \A i \in 1 .. Len(acc) : tokens'[Len(tokens) + i] = acc[i]
      BY <1>1, <1>3, <2>1, CatFacts
    <3>2. n + 1 \in 1 .. Len(acc) /\ Len(acc) = n + 1
      BY <1>3
    <3>3. tokens'[Len(tokens) + (n + 1)] = b /\ Len(tokens') = Len(tokens) + (n + 1)
      BY <1>3, <3>1, <3>2
    <3>4. Len(tokens) + (n + 1) > 0
      BY <1>3, <3>1
    <3> QED BY <3>3, <3>4
  <2>8. KnownRight'
    BY <1>1, <2>1, <2>2, <2>5, <2>6, <2>7 DEF KnownRight
  <2> QED BY <2>1, <2>8 DEF NgramRight
<1>5. CASE drafter # "ngram"
  <2>1. tokens' = tokens /\ ngrams' = ngrams
    BY <1>1, <1>5 DEF ngramVars
  <2>2. IndexExact'
    BY <1>1, <2>1 DEF IndexExact
  <2>3. KnownRight'
    BY <1>1, <1>5 DEF KnownRight
  <2> QED BY <1>1, <2>1, <2>2, <2>3 DEF NgramRight
<1> QED BY <1>4, <1>5

\* The steps that leave the prompt lookup alone.
LEMMA OthersKnown ==
  ASSUME SpeculationInv, UNCHANGED ngramVars, UNCHANGED <<drafter, context, promptLen>>,
         drafter # "ngram" \/ ~Active' \/ UNCHANGED stage
  PROVE  NgramRight'
<1>1. tokens' = tokens /\ ngrams' = ngrams
  BY DEF ngramVars
<1>2. tokens \in Seq(Tokens) /\ IndexExact /\ KnownRight
  BY DEF SpeculationInv, NgramRight
<1>3. IndexExact'
  BY <1>1, <1>2 DEF IndexExact
<1>4. KnownRight'
  <2>1. CASE drafter # "ngram" \/ ~Active'
    BY <2>1 DEF KnownRight
  <2>2. CASE UNCHANGED stage
    <3>1. Known' = Known /\ LastToken' = LastToken /\ (Active' <=> Active)
      BY <2>2 DEF Known, FirstTokenLost, LastToken, Active
    <3> QED BY <1>1, <1>2, <2>2, <3>1 DEF KnownRight
  <2> QED BY <2>1, <2>2
<1> QED BY <1>1, <1>2, <1>3, <1>4 DEF NgramRight

-----------------------------------------------------------------------------
(* The theorems *)

LEMMA SpeculationInitRight == SpeculationInit => SpeculationInv
<1> SUFFICES ASSUME SpeculationInit PROVE SpeculationInv
  OBVIOUS
<1>1. /\ drafter \in Drafters /\ context = <<>> /\ promptLen = 0 /\ props = <<>>
      /\ wanted = 0 /\ stage = "idle" /\ requests = 0 /\ NgramInit
  BY DEF SpeculationInit
<1>2. ~Active /\ ~Drafting /\ <<>> \in Seq(Tokens)
  BY <1>1 DEF Active, Drafting
<1>3. LoopTypes /\ LoopRight
  BY <1>1, <1>2 DEF LoopTypes, LoopRight
<1>4. WindowedRight /\ StaticRight /\ SeenRight /\ KnownRight
  BY <1>2 DEF WindowedRight, StaticRight, SeenRight, KnownRight
<1>5. tokens \in Seq(Tokens) /\ IndexExact
  BY <1>1, InitNgram
<1> QED BY <1>3, <1>4, <1>5 DEF SpeculationInv, DraftInv, NgramRight

LEMMA SpeculationNextRight == SpeculationInv /\ [SpeculationNext]_specVars => SpeculationInv'
<1> SUFFICES ASSUME SpeculationInv, [SpeculationNext]_specVars
             PROVE  SpeculationInv'
  OBVIOUS
<1> USE DEF SpeculationInv
<1>1. ASSUME NEW p \in Prompts, NEW y \in Tokens, NewPrompt(p, y)
      PROVE  SpeculationInv'
  BY <1>1, NewPromptRight, NewPromptKnown
<1>2. ASSUME NEW k \in 1 .. MaxK, ProposeCopies(k)
      PROVE  SpeculationInv'
  BY <1>2, ProposeCopiesRight
<1>3. ASSUME NEW k \in 1 .. MaxK, ProposeFirst(k)
      PROVE  SpeculationInv'
  <2>1. drafter # "ngram" /\ UNCHANGED ngramVars /\ UNCHANGED <<drafter, context, promptLen>>
    BY <1>3 DEF ProposeFirst, ModelStep
  <2> QED BY <1>3, <2>1, ProposeFirstRight, OthersKnown
<1>4. ASSUME NEW t \in Tokens, ProposeNext(t)
      PROVE  SpeculationInv'
  <2>1. drafter # "ngram" /\ UNCHANGED ngramVars /\ UNCHANGED <<drafter, context, promptLen>>
    BY <1>4 DEF ProposeNext, ModelStep
  <2> QED BY <1>4, <2>1, ProposeNextRight, OthersKnown
<1>5. ASSUME NEW n \in 0 .. MaxK, NEW b \in Tokens, Verify(n, b)
      PROVE  SpeculationInv'
  BY <1>5, VerifyRight, VerifyKnown
<1>6. ASSUME StepRaises \/ Finish
      PROVE  SpeculationInv'
  <2>1. ~Active' /\ UNCHANGED ngramVars /\ UNCHANGED <<drafter, context, promptLen>>
    BY <1>6 DEF StepRaises, Finish, Active
  <2> QED BY <1>6, <2>1, RestRight, OthersKnown
<1>7. ASSUME UNCHANGED specVars
      PROVE  SpeculationInv'
  <2>1. /\ UNCHANGED <<drafter, context, promptLen, props, wanted, seen, stage, requests>>
        /\ UNCHANGED ngramVars /\ UNCHANGED <<cache, nSeen, lastK>> /\ UNCHANGED <<slots>>
    BY <1>7 DEF specVars, loopVars, windowedVars, staticVars
  <2>2. LoopTypes' /\ LoopRight'
    BY <2>1 DEF DraftInv, LoopTypes, LoopRight, Active, Drafting
  <2>3. Fed' = Fed /\ NextPos' = NextPos /\ Settled' = Settled
    BY <2>1 DEF Fed, NextPos, Settled, LastPos
  <2>4. (Active' <=> Active) /\ (Drafting' <=> Drafting) /\ Size' = Size
    BY <2>1 DEF Active, Drafting, Size
  <2>5. WindowedRight'
    BY <2>1, <2>3, <2>4 DEF DraftInv, WindowedRight
  <2>6. StaticRight'
    BY <2>1, <2>3, <2>4 DEF DraftInv, StaticRight
  <2>7. SeenRight'
    BY <2>1, <2>3, <2>4 DEF DraftInv, SeenRight
  <2> QED BY <2>1, <2>2, <2>5, <2>6, <2>7, OthersKnown DEF DraftInv
<1>8. \/ \E p \in Prompts, y \in Tokens : NewPrompt(p, y)
      \/ \E k \in 1 .. MaxK : ProposeCopies(k) \/ ProposeFirst(k)
      \/ \E t \in Tokens : ProposeNext(t)
      \/ \E n \in 0 .. MaxK, b \in Tokens : Verify(n, b)
      \/ StepRaises \/ Finish
      \/ UNCHANGED specVars
  BY DEF SpeculationNext
<1> QED BY ONLY <1>1, <1>2, <1>3, <1>4, <1>5, <1>6, <1>7, <1>8

\* Between any two steps the caches and the index hold what a fresh prefill of
\* the accepted context and the current proposals would leave, as far as they
\* are read (NgramProposer, WindowedDraftRunner, StaticDraftRunner).
THEOREM SpeculationSafe == SpeculationSpec => []SpeculationInv
<1>1. SpeculationInit => SpeculationInv
  BY SpeculationInitRight
<1>2. SpeculationInv /\ [SpeculationNext]_specVars => SpeculationInv'
  BY SpeculationNextRight
<1> QED BY <1>1, <1>2, PTL DEF SpeculationSpec

\* What a draft model attends to is the end of what it was fed, whatever was
\* proposed and rejected before (drop of the trimmed cache, the masked ring).
THEOREM SeesContext == SpeculationSpec => []DraftSeesContext
<1>1. SpeculationInv => DraftSeesContext
  BY DEF SpeculationInv, DraftInv, SeenRight, Drafting, DraftSeesContext
<1> QED BY <1>1, SpeculationSafe, PTL

\* It is not cut short either: rejected proposals cost it fewer rows than a
\* round has proposals, and commit leaves the trimmed cache counting right.
THEOREM WindowExact == SpeculationSpec => []DraftWindowExact
<1>1. SpeculationInv => DraftSeesRecent
  <2> SUFFICES ASSUME SpeculationInv, stage \in {"draft", "verify"}, drafter # "ngram",
                      NEW p \in 0 .. Len(Fed) - 1, Len(Fed) - p <= Size - MaxK + 1
               PROVE  Row(p, Fed[p + 1]) \in seen
    BY DEF DraftSeesRecent
  <2>1. Len(Fed) \in Nat /\ Size \in Nat
    BY FedFacts, SizeFacts DEF SpeculationInv, DraftInv, Size
  <2>2. PICK low \in 0 .. Len(Fed) - 1 :
          /\ low = 0 \/ low <= Len(Fed) - (Size - MaxK + 1)
          /\ seen = {Row(q, Fed[q + 1]) : q \in low .. Len(Fed) - 1}
    BY DEF SpeculationInv, DraftInv, SeenRight, Drafting
  <2>3. p \in low .. Len(Fed) - 1
    BY <2>1, <2>2, SizeFacts
  <2> QED BY <2>2, <2>3
<1>2. SpeculationInv => CommitExact
  <2> SUFFICES ASSUME SpeculationInv, drafter = "windowed", stage = "round"
               PROVE  /\ nSeen = LastPos
                      /\ Len(cache) <= Window + Margin
                      /\ \A i \in 1 .. Len(cache) : cache[i].pos = nSeen - Len(cache) + i - 1
    BY DEF CommitExact
  <2>1. /\ nSeen = NextPos /\ Len(cache) <= Window + Margin
        /\ \A i \in 1 .. Len(cache) :
             cache[i] = Row(nSeen - Len(cache) + i - 1, Fed[nSeen - Len(cache) + i])
    BY DEF SpeculationInv, DraftInv, WindowedRight, Active
  <2>2. NextPos = LastPos
    BY DEF NextPos
  <2>3. \A i \in 1 .. Len(cache) : cache[i].pos = nSeen - Len(cache) + i - 1
    <3>1. \A x, y : Row(x, y).pos = x
      BY DEF Row
    <3> QED BY <2>1, <3>1
  <2> QED BY <2>1, <2>2, <2>3
<1> QED BY <1>1, <1>2, SpeculationSafe, PTL DEF DraftWindowExact

\* The prompt lookup proposes from the accepted context and nothing else: after
\* propose it knows it, and its index is the one of a fresh prefill.
THEOREM ProposesFromIt == SpeculationSpec => []ProposesFromContext
<1>1. SpeculationInv => ContextKnown
  BY DEF SpeculationInv, NgramRight, KnownRight, Active, Known, ContextKnown
<1>2. SpeculationInv => IndexExact
  BY DEF SpeculationInv, NgramRight
<1> QED BY <1>1, <1>2, SpeculationSafe, PTL DEF ProposesFromContext

=============================================================================
