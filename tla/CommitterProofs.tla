---------------------------- MODULE CommitterProofs ----------------------------
(***************************************************************************)
(* Proofs about Committer: mul_index reads its tables without a bounds     *)
(* check, for any size of windows, words and scalars; and the assembly     *)
(* routines of the field compute what they stand for, for any size of      *)
(* words and any prime.                                                    *)
(***************************************************************************)
EXTENDS Committer, TLAPS

-------------------------------------------------------------------------------
(* Quotients and powers *)

LEMMA QuotientBelow ==
  ASSUME NEW a \in Nat, NEW b \in Nat \ {0}, NEW c \in Nat, a < b * c
  PROVE  a \div b \in Nat /\ a \div b < c
OBVIOUS

LEMMA RemainderBelow ==
  ASSUME NEW a \in Nat, NEW b \in Nat \ {0}
  PROVE  a % b \in Nat /\ a % b < b /\ a % b <= a
OBVIOUS

(* Two parts of a number, one above the other, do not overlap. *)
LEMMA PartsBelow ==
  ASSUME NEW low \in Nat, NEW high \in Nat, NEW m \in Nat \ {0}, NEW n \in Nat \ {0},
         low < m, high < n
  PROVE  low + high * m \in Nat /\ low + high * m < m * n
<1>1. high + 1 <= n
  OBVIOUS
<1>2. (high + 1) * m <= n * m
  BY <1>1
<1>3. (high + 1) * m = high * m + m
  OBVIOUS
<1>4. high * m \in Nat /\ n * m \in Nat /\ n * m = m * n
  OBVIOUS
<1> QED
  BY <1>2, <1>3, <1>4

(* The sizes of a scalar, and the powers of two up to them *)
LEMMA Sizes ==
  /\ FrBits \in Nat \ {0} /\ FrWords \in Nat \ {0} /\ FrWordBits \in Nat \ {0} /\ Order \in Nat \ {0}
  /\ WindowSize \in 1 .. FrWordBits /\ FrBits < FrWords * FrWordBits /\ FrWordBits <= FrWords * FrWordBits
  /\ FrWords * FrWordBits \in Nat
<1>1. /\ FrBits \in Nat \ {0} /\ FrWords \in Nat \ {0} /\ FrWordBits \in Nat \ {0} /\ Order \in Nat \ {0}
      /\ WindowSize \in 1 .. FrWordBits /\ FrBits < FrWords * FrWordBits
  BY CommitterAssumption
<1>2. FrWordBits <= FrWords * FrWordBits /\ FrWords * FrWordBits \in Nat
  BY <1>1
<1> QED
  BY <1>1, <1>2

LEMMA Powers ==
  ASSUME NEW a \in Nat, NEW b \in Nat, a + b <= FrWords * FrWordBits
  PROVE  /\ 2 ^ a \in Nat \ {0} /\ 2 ^ b \in Nat \ {0} /\ 2 ^ (a + b) \in Nat \ {0}
         /\ 2 ^ (a + b) = 2 ^ a * 2 ^ b
BY Sizes, PowersAssumption

(* Half a window, doubled *)
LEMMA HalfOf ==
  /\ 2 ^ WindowSize \in Nat \ {0} /\ HalfWindow \in Nat \ {0} /\ 2 ^ WindowSize = 2 * HalfWindow
  /\ \A b \in 0 .. WindowSize - 1 : 2 ^ b \in Nat \ {0} /\ 2 ^ b <= HalfWindow
<1> USE DEF HalfWindow
<1>1. WindowSize - 1 \in Nat /\ WindowSize <= FrWords * FrWordBits /\ WindowSize \in Nat
  BY Sizes
<1>2. PICK m \in Nat, n \in Nat : m = WindowSize - 1 /\ n = 1 /\ m + n = WindowSize
  BY <1>1
<1>3. 2 ^ WindowSize = 2 ^ m * 2 ^ n /\ 2 ^ m \in Nat \ {0} /\ 2 ^ n = 2
  <2>1. m + n <= FrWords * FrWordBits /\ 2 ^ 1 = 2
    BY <1>1, <1>2
  <2>2. 2 ^ (m + n) = 2 ^ m * 2 ^ n /\ 2 ^ m \in Nat \ {0}
    BY <2>1, Powers
  <2> QED
    BY <1>2, <2>1, <2>2
<1>4. ASSUME NEW b \in 0 .. WindowSize - 1 PROVE 2 ^ b \in Nat \ {0} /\ 2 ^ b <= 2 ^ (WindowSize - 1)
  <2>1. PICK c \in Nat : c = WindowSize - 1 - b
    BY <1>1
  <2>2. b \in Nat /\ b + c = WindowSize - 1 /\ b + c <= FrWords * FrWordBits
    BY <1>1, <2>1, Sizes
  <2>3. 2 ^ b \in Nat \ {0} /\ 2 ^ c \in Nat \ {0} /\ 2 ^ (b + c) = 2 ^ b * 2 ^ c
    BY <2>2, Powers
  <2>4. \A x, y \in Nat \ {0} : x <= x * y
    OBVIOUS
  <2> QED
    BY <2>2, <2>3, <2>4
<1>5. HalfWindow = 2 ^ m
  BY <1>2
<1> HIDE DEF HalfWindow
<1> QED
  BY <1>2, <1>3, <1>4, <1>5

-------------------------------------------------------------------------------
(* The windows of a scalar *)

LEMMA WordBelow ==
  ASSUME NEW scalar \in Nat, NEW i \in Nat, i * FrWordBits <= FrWords * FrWordBits
  PROVE  /\ 2 ^ (i * FrWordBits) \in Nat \ {0} /\ scalar \div 2 ^ (i * FrWordBits) \in Nat
         /\ ScalarWord(scalar, i) \in Nat /\ ScalarWord(scalar, i) < 2 ^ FrWordBits
         /\ ScalarWord(scalar, i) <= scalar \div 2 ^ (i * FrWordBits)
<1>1. i * FrWordBits \in Nat
  BY Sizes
<1>2. 2 ^ (i * FrWordBits) \in Nat \ {0} /\ 2 ^ FrWordBits \in Nat \ {0}
  <2>1. 0 \in Nat /\ i * FrWordBits + 0 <= FrWords * FrWordBits /\ FrWordBits + 0 <= FrWords * FrWordBits
    BY <1>1, Sizes
  <2> QED
    BY <1>1, <2>1, Sizes, Powers
<1>3. PICK d \in Nat : d = scalar \div 2 ^ (i * FrWordBits)
  BY <1>2
<1>4. d % 2 ^ FrWordBits \in Nat /\ d % 2 ^ FrWordBits < 2 ^ FrWordBits /\ d % 2 ^ FrWordBits <= d
  BY <1>2, RemainderBelow
<1> QED
  BY <1>2, <1>3, <1>4 DEF ScalarWord

(* calculate_prefetch_index, for the window at one start bit: where it is  *)
(* in its word, and what it takes from that word and from the next.        *)
LEMMA WindowBits ==
  ASSUME NEW scalar \in 0 .. 2 ^ FrBits - 1, NEW k \in Windows
  PROVE  /\ calculate_prefetch_index(scalar)[k] \in 0 .. 2 ^ WindowSize - 1
         /\ k = FrBits \div WindowSize => calculate_prefetch_index(scalar)[k] < HalfWindow
<1> DEFINE w == WindowSize
           B == FrWordBits
           start == k * w
           i == start \div B
           offset == start % B
           left == w - (B - offset)
           word == ScalarWord(scalar, i)
           low == (word \div 2 ^ offset) % 2 ^ w
           next == ScalarWord(scalar, i + 1)
           last == FrBits \div w
           rem == FrBits % w
           whole == calculate_prefetch_index(scalar)[k]
<1>1. w \in Nat \ {0} /\ B \in Nat \ {0} /\ w <= B /\ FrBits \in Nat /\ k \in Nat /\ k <= last /\ last \in Nat
  BY Sizes DEF Windows
<1>2. last * w + rem = FrBits /\ rem \in 0 .. w - 1
  BY <1>1
<1>3. start \in Nat /\ start <= last * w /\ start <= FrBits
  <2>1. start \in Nat /\ last * w \in Nat /\ \A m \in Nat : m <= last => m * w <= last * w
    BY <1>1
  <2> QED
    BY <1>1, <1>2, <2>1
<1>4. i \in Nat /\ offset \in 0 .. B - 1 /\ start = i * B + offset
  BY <1>1, <1>3
<1>5. whole = IF left > 0 /\ i < FrWords - 1
              THEN low + (next % 2 ^ left) * 2 ^ (B - offset) ELSE low
  BY DEF calculate_prefetch_index, Windows
<1> HIDE DEF whole, last, rem, start, i, offset
<1>6. i * B \in Nat /\ i * B <= FrBits /\ i * B + offset <= FrBits /\ FrBits < FrWords * B /\ FrWords * B \in Nat
  BY <1>1, <1>3, <1>4, Sizes
<1>7. scalar \in Nat /\ scalar < 2 ^ FrBits /\ 2 ^ FrBits \in Nat \ {0}
  <2>1. FrBits + 0 <= FrWords * FrWordBits /\ 0 \in Nat
    BY Sizes
  <2>2. 2 ^ FrBits \in Nat \ {0}
    BY <1>1, <2>1, Powers
  <2> QED
    BY <2>2
<1>8. /\ word \in Nat /\ word < 2 ^ B /\ word <= scalar \div 2 ^ (i * B)
      /\ 2 ^ (i * B) \in Nat \ {0} /\ scalar \div 2 ^ (i * B) \in Nat
  <2>1. i * FrWordBits <= FrWords * FrWordBits
    BY <1>1, <1>6
  <2> QED
    BY <1>4, <1>7, <2>1, WordBelow
<1>9. 2 ^ offset \in Nat \ {0} /\ 2 ^ (B - offset) \in Nat \ {0} /\ 2 ^ B = 2 ^ offset * 2 ^ (B - offset)
  <2>1. offset \in Nat /\ B - offset \in Nat /\ offset + (B - offset) = B /\ B <= FrWords * FrWordBits
    BY <1>1, <1>4, Sizes
  <2> QED
    BY <2>1, Powers
<1>10. 2 ^ w \in Nat \ {0} /\ HalfWindow \in Nat \ {0} /\ 2 ^ rem \in Nat \ {0} /\ 2 ^ rem <= HalfWindow
  BY <1>2, HalfOf
<1>11. word \div 2 ^ offset \in Nat /\ word \div 2 ^ offset < 2 ^ (B - offset)
  BY <1>8, <1>9, QuotientBelow
<1>12. low \in Nat /\ low < 2 ^ w /\ low <= word \div 2 ^ offset /\ low < 2 ^ (B - offset)
  <2>1. PICK d \in Nat : d = word \div 2 ^ offset
    BY <1>11
  <2>2. d % 2 ^ w \in Nat /\ d % 2 ^ w < 2 ^ w /\ d % 2 ^ w <= d
    BY <1>10, RemainderBelow
  <2> QED
    BY <1>9, <1>11, <2>1, <2>2
<1>13. ASSUME k = last PROVE low < 2 ^ rem
  <2>1. i * B + offset + rem = FrBits
    BY <1>2, <1>4, <1>13 DEF start
  <2>2. 2 ^ (i * B + (offset + rem)) = 2 ^ (i * B) * 2 ^ (offset + rem) /\ 2 ^ (offset + rem) = 2 ^ offset * 2 ^ rem
        /\ 2 ^ (offset + rem) \in Nat \ {0}
    <3>1. offset \in Nat /\ rem \in Nat /\ offset + rem \in Nat
      BY <1>1, <1>2, <1>4
    <3>2. i * B + (offset + rem) <= FrWords * FrWordBits /\ offset + rem <= FrWords * FrWordBits
      BY <1>6, <2>1, <3>1
    <3> QED
      BY <1>6, <3>1, <3>2, Powers
  <2>3. FrBits = i * B + (offset + rem)
    BY <1>2, <1>4, <1>6, <2>1
  <2>4. scalar < 2 ^ (i * B) * 2 ^ (offset + rem)
    BY <1>7, <2>2, <2>3
  <2>5. scalar \div 2 ^ (i * B) < 2 ^ (offset + rem)
    BY <1>7, <1>8, <2>2, <2>4, QuotientBelow
  <2>6. word < 2 ^ offset * 2 ^ rem
    BY <1>8, <2>2, <2>5
  <2>7. word \div 2 ^ offset < 2 ^ rem
    BY <1>8, <1>9, <1>10, <2>6, QuotientBelow
  <2> QED
    BY <1>10, <1>11, <1>12, <2>7
<1>14. CASE ~ (left > 0 /\ i < FrWords - 1)
  <2>1. whole = low
    BY <1>5, <1>14
  <2> QED
    BY <1>10, <1>12, <1>13, <2>1 DEF whole, last
<1>15. CASE left > 0 /\ i < FrWords - 1
  <2>1. whole = low + (next % 2 ^ left) * 2 ^ (B - offset)
    BY <1>5, <1>15
  <2>2. /\ left \in Nat /\ (B - offset) \in Nat /\ (B - offset) + left = w
        /\ w <= FrWords * FrWordBits
    BY <1>1, <1>4, <1>15, Sizes
  <2>3. 2 ^ left \in Nat \ {0} /\ 2 ^ w = 2 ^ (B - offset) * 2 ^ left
    BY <2>2, Powers
  <2>4. i + 1 \in Nat /\ (i + 1) * B <= FrWords * B /\ (i + 1) * B \in Nat /\ (i + 1) * B = i * B + B
    <3>1. i + 1 \in Nat /\ i + 1 <= FrWords /\ FrWords \in Nat
      BY <1>4, <1>15, Sizes
    <3>2. \A m \in Nat : m <= FrWords => m * B <= FrWords * B
      BY <1>1, <3>1
    <3> QED
      BY <1>1, <1>4, <3>1, <3>2
  <2>5. /\ next \in Nat /\ next <= scalar \div 2 ^ ((i + 1) * B) /\ scalar \div 2 ^ ((i + 1) * B) \in Nat
        /\ 2 ^ ((i + 1) * B) \in Nat \ {0}
    BY <1>7, <2>4, WordBelow
  <2>6. next % 2 ^ left \in Nat /\ next % 2 ^ left < 2 ^ left /\ next % 2 ^ left <= next
    BY <2>3, <2>5, RemainderBelow
  <2>7. whole \in Nat /\ whole < 2 ^ w
    BY <1>9, <1>12, <2>1, <2>3, <2>6, PartsBelow
  <2>8. ASSUME k = last PROVE whole < 2 ^ rem
    <3>1. i * B + offset + rem = FrBits
      BY <1>2, <1>4, <2>8 DEF start
    <3>2. CASE FrBits >= (i + 1) * B
      <4>1. PICK m \in Nat : m = FrBits - (i + 1) * B
        BY <1>1, <2>4, <3>2
      <4>2. /\ (i + 1) * B + m = FrBits /\ (B - offset) + m = rem
            /\ FrBits <= FrWords * FrWordBits /\ rem <= FrWords * FrWordBits /\ rem \in Nat
        BY <1>1, <1>2, <1>4, <1>6, <2>4, <3>1, <4>1, Sizes
      <4>3. 2 ^ FrBits = 2 ^ ((i + 1) * B) * 2 ^ m /\ 2 ^ m \in Nat \ {0}
        BY <2>4, <4>2, Powers
      <4>4. 2 ^ rem = 2 ^ (B - offset) * 2 ^ m
        BY <2>2, <4>2, Powers
      <4>5. scalar \div 2 ^ ((i + 1) * B) < 2 ^ m
        BY <1>7, <2>5, <4>3, QuotientBelow
      <4>6. next % 2 ^ left < 2 ^ m
        BY <2>5, <2>6, <4>3, <4>5
      <4> QED
        BY <1>9, <1>12, <2>1, <2>6, <4>3, <4>4, <4>6, PartsBelow
    <3>3. CASE FrBits < (i + 1) * B
      <4>1. PICK m \in Nat : m = (i + 1) * B - FrBits
        BY <1>1, <2>4, <3>3
      <4>2. 2 ^ ((i + 1) * B) = 2 ^ FrBits * 2 ^ m /\ 2 ^ m \in Nat \ {0}
        <5>1. FrBits + m = (i + 1) * B /\ FrBits + m <= FrWords * FrWordBits
          BY <1>1, <2>4, <4>1
        <5> QED
          BY <1>1, <5>1, Powers
      <4>3. scalar < 2 ^ ((i + 1) * B) * 1
        <5>1. \A a, b \in Nat \ {0} : a <= a * b
          OBVIOUS
        <5>2. 2 ^ FrBits <= 2 ^ ((i + 1) * B)
          BY <1>7, <4>2, <5>1
        <5> QED
          BY <1>7, <2>5, <5>2
      <4>4. scalar \div 2 ^ ((i + 1) * B) < 1
        BY <1>7, <2>5, <4>3, QuotientBelow
      <4>5. next % 2 ^ left = 0
        BY <2>5, <2>6, <4>4
      <4>6. whole = low
        BY <1>9, <1>12, <2>1, <4>5
      <4> QED
        BY <1>13, <2>8, <4>6
    <3> QED
      BY <1>1, <2>4, <3>2, <3>3
  <2> QED
    BY <1>10, <2>7, <2>8 DEF whole, last
<1> QED
  BY <1>14, <1>15

-------------------------------------------------------------------------------
(* mul_index, window by window *)

(* The digit of a window, with the carry of the window before, is in the   *)
(* table of that window.                                                   *)
LEMMA DigitFits ==
  ASSUME NEW d \in 0 .. 2 ^ WindowSize, NEW i \in Nat
  PROVE  /\ Digit(d, i).idx \in i * (HalfWindow + 1) .. (i + 1) * (HalfWindow + 1) - 1
         /\ Digit(d, i).idx \in Nat
         /\ Digit(d, i).carry \in {0, 1}
         /\ d <= HalfWindow => Digit(d, i).carry = 0
<1>1. 2 ^ WindowSize = 2 * HalfWindow /\ HalfWindow \in Nat \ {0} /\ 2 ^ WindowSize \in Nat
  BY HalfOf
<1>2. PICK m \in Nat : m = i * (HalfWindow + 1) /\ (i + 1) * (HalfWindow + 1) = m + HalfWindow + 1
  BY <1>1
<1>3. CASE d >= HalfWindow + 1
  <2>1. Digit(d, i).idx = 2 ^ WindowSize - d + m /\ Digit(d, i).carry = 1
    BY <1>2, <1>3 DEF Digit
  <2> QED
    BY <1>1, <1>2, <1>3, <2>1
<1>4. CASE ~ (d >= HalfWindow + 1)
  <2>1. Digit(d, i).idx = d + m /\ Digit(d, i).carry = 0
    BY <1>2, <1>4 DEF Digit
  <2> QED
    BY <1>1, <1>2, <1>4, <2>1
<1> QED
  BY <1>3, <1>4

LEMMA LastWindow == FrBits \div WindowSize \in Nat /\ FrBits \div WindowSize \in Windows /\ 0 \in Windows
BY Sizes DEF Windows

LEMMA InitFits == Init => WindowsFit
BY Sizes DEF Init, WindowsFit, Fr

LEMMA MulIndexFits ==
  ASSUME WindowsFit, NEW p \in Positions, NEW new \in Scalars, NEW asm \in BOOLEAN, MulIndex(p, new, asm)
  PROVE  WindowsFit'
<1>1. PICK d, chunks : d = (new - vec[p]) % Order /\ chunks = calculate_prefetch_index(d)
  OBVIOUS
<1>2. PICK first : first = Digit(chunks[0], 0)
  OBVIOUS
<1>3. /\ vec' = vec
      /\ call' = [at |-> "window", pos |-> p, new |-> new, asm |-> asm, chunks |-> chunks,
                  window |-> 0, idx |-> first.idx, carry |-> first.carry, acc |-> ProjectiveZero]
  BY <1>1, <1>2 DEF MulIndex
<1>4. vec \in [Positions -> Fr] /\ new \in Fr
  BY CommitterAssumption DEF WindowsFit
<1>5. d \in 0 .. 2 ^ FrBits - 1
  <2>1. new - vec[p] \in Int /\ Order \in Nat \ {0} /\ Order < 2 ^ FrBits
    BY <1>4, Sizes, CommitterAssumption DEF Fr
  <2>2. d \in 0 .. Order - 1
    BY <1>1, <2>1
  <2>3. 2 ^ FrBits \in Nat
    <3>1. FrBits + 0 <= FrWords * FrWordBits /\ 0 \in Nat
      BY Sizes
    <3> QED
      BY <3>1, Sizes, Powers
  <2> QED
    BY <2>1, <2>2, <2>3
<1>6. /\ chunks \in [Windows -> 0 .. 2 ^ WindowSize - 1]
      /\ chunks[FrBits \div WindowSize] < HalfWindow
  <2>1. chunks = [k \in Windows |-> chunks[k]]
    BY <1>1 DEF calculate_prefetch_index, Windows
  <2>2. \A k \in Windows : chunks[k] \in 0 .. 2 ^ WindowSize - 1
    BY <1>1, <1>5, WindowBits
  <2>3. chunks[FrBits \div WindowSize] < HalfWindow
    BY <1>1, <1>5, LastWindow, WindowBits
  <2> QED
    BY <2>1, <2>2, <2>3
<1>7. chunks[0] \in 0 .. 2 ^ WindowSize /\ (FrBits \div WindowSize = 0 => chunks[0] <= HalfWindow)
  BY <1>6, LastWindow, HalfOf
<1>8. /\ first.idx \in 0 * (HalfWindow + 1) .. (0 + 1) * (HalfWindow + 1) - 1 /\ first.idx \in Nat
      /\ first.carry \in {0, 1} /\ (FrBits \div WindowSize = 0 => first.carry = 0)
  BY <1>2, <1>7, DigitFits
<1>9. call'.acc = ProjectiveZero /\ call' \in CallRecords(ProjectiveZero)
  BY <1>3, <1>4, <1>6, <1>8, LastWindow DEF CallRecords
<1>10. /\ call'.at = "window" /\ call'.chunks = chunks /\ call'.window = 0
       /\ call'.idx = first.idx /\ call'.carry = first.carry
  BY <1>3
<1> QED
  BY <1>3, <1>4, <1>6, <1>8, <1>9, <1>10 DEF WindowsFit

LEMMA AddWindowFits ==
  ASSUME WindowsFit, AddWindow
  PROVE  WindowsFit'
<1>1. PICK v, i, d : v = call /\ i = v.window + 1 /\ d = v.chunks[i] + v.carry
  OBVIOUS
<1>2. v.at = "window" /\ vec' = vec
  BY <1>1 DEF AddWindow
<1>3. v # NoCall
  BY <1>2 DEF NoCall
<1>4. /\ vec \in [Positions -> Fr] /\ v \in CallRecords(v.acc)
      /\ v.chunks[FrBits \div WindowSize] < HalfWindow
      /\ v.window = FrBits \div WindowSize => v.carry = 0
      /\ v.idx \in v.window * (HalfWindow + 1) .. (v.window + 1) * (HalfWindow + 1) - 1
  BY <1>1, <1>3 DEF WindowsFit
<1>5. PICK next : next = Digit(d, i)
  OBVIOUS
<1>6. \E acc : \/ i \in DOMAIN v.chunks
                  /\ call' = [v EXCEPT !.window = i, !.acc = acc, !.idx = next.idx, !.carry = next.carry]
               \/ i \notin DOMAIN v.chunks /\ call' = [v EXCEPT !.at = "add", !.acc = acc]
  BY <1>1, <1>5 DEF AddWindow
<1>7. PICK acc : \/ i \in DOMAIN v.chunks
                    /\ call' = [v EXCEPT !.window = i, !.acc = acc, !.idx = next.idx, !.carry = next.carry]
                 \/ i \notin DOMAIN v.chunks /\ call' = [v EXCEPT !.at = "add", !.acc = acc]
  BY <1>6
<1>8. v.chunks \in [Windows -> 0 .. 2 ^ WindowSize - 1] /\ v.window \in Windows /\ v.carry \in {0, 1}
  BY <1>4 DEF CallRecords
<1>9. CASE i \in DOMAIN v.chunks
  <2>1. call' = [v EXCEPT !.window = i, !.acc = acc, !.idx = next.idx, !.carry = next.carry] /\ i \in Windows
    BY <1>7, <1>8, <1>9
  <2>2. i \in Nat /\ d \in 0 .. 2 ^ WindowSize /\ (i = FrBits \div WindowSize => d <= HalfWindow)
    <3>1. v.chunks[i] \in 0 .. 2 ^ WindowSize - 1 /\ v.chunks[FrBits \div WindowSize] < HalfWindow
      BY <1>4, <1>8, <2>1
    <3>2. i \in Nat /\ 2 ^ WindowSize \in Nat /\ HalfWindow \in Nat
      BY <2>1, LastWindow, HalfOf DEF Windows
    <3>3. i = FrBits \div WindowSize => v.chunks[i] < HalfWindow
      BY <3>1
    <3>4. PICK c : c = v.chunks[i]
      OBVIOUS
    <3>5. c \in 0 .. 2 ^ WindowSize - 1 /\ (i = FrBits \div WindowSize => c < HalfWindow) /\ d = c + v.carry
      BY <1>1, <3>1, <3>3, <3>4
    <3> QED
      BY <1>8, <3>2, <3>5
  <2>3. /\ next.idx \in i * (HalfWindow + 1) .. (i + 1) * (HalfWindow + 1) - 1 /\ next.idx \in Nat
        /\ next.carry \in {0, 1} /\ (i = FrBits \div WindowSize => next.carry = 0)
    BY <1>5, <2>2, DigitFits
  <2>4. call' \in CallRecords(acc)
    BY <1>4, <2>1, <2>3 DEF CallRecords
  <2>5. /\ call'.at = "window" /\ call'.chunks = v.chunks /\ call'.window = i /\ call'.acc = acc
        /\ call'.idx = next.idx /\ call'.carry = next.carry
    BY <1>2, <1>4, <2>1 DEF CallRecords
  <2> QED
    BY <1>2, <1>4, <2>3, <2>4, <2>5 DEF WindowsFit
<1>10. CASE i \notin DOMAIN v.chunks
  <2>1. call' = [v EXCEPT !.at = "add", !.acc = acc]
    BY <1>7, <1>10
  <2>2. v.window = FrBits \div WindowSize
    BY <1>1, <1>8, <1>10, LastWindow DEF Windows
  <2>3. call' \in CallRecords(acc)
    BY <1>4, <2>1 DEF CallRecords
  <2>4. /\ call'.at = "add" /\ call'.chunks = v.chunks /\ call'.window = v.window /\ call'.acc = acc
        /\ call'.idx = v.idx /\ call'.carry = v.carry
    BY <1>4, <2>1 DEF CallRecords
  <2> QED
    BY <1>2, <1>4, <2>2, <2>3, <2>4 DEF WindowsFit
<1> QED
  BY <1>9, <1>10

(* Every step keeps a running mul_index within its windows. *)
LEMMA StepFits == WindowsFit /\ [Next]_vars => WindowsFit'
<1> SUFFICES ASSUME WindowsFit, [Next]_vars PROVE WindowsFit'
  OBVIOUS
<1>1. CASE AddDelta
  <2>1. call.at = "add" /\ vec' = [vec EXCEPT ![call.pos] = call.new] /\ call' = NoCall
    BY <1>1 DEF AddDelta
  <2>2. call # NoCall
    BY <2>1 DEF NoCall
  <2>3. vec \in [Positions -> Fr] /\ call.new \in Fr
    BY <2>2 DEF WindowsFit, CallRecords
  <2> QED
    BY <2>1, <2>3 DEF WindowsFit
<1>2. CASE UNCHANGED <<vec, call>>
  BY <1>2 DEF WindowsFit
<1>3. Next => \/ \E p \in Positions, new \in Scalars, asm \in BOOLEAN : MulIndex(p, new, asm)
              \/ AddWindow \/ AddDelta \/ UNCHANGED <<vec, call>>
  BY DEF Next, Send, Decode, MulAsm, MulBy5Asm, Return
<1> QED
  BY <1>1, <1>2, <1>3, MulIndexFits, AddWindowFits DEF vars

(* get_unchecked in mul_index never reads outside of the table of its      *)
(* window, and no carry is left at the end: for every size of windows,     *)
(* words and scalars, every table and every sequence of updates.           *)
THEOREM ReadsStayInWindow == Spec => []ReadsInWindow
<1>1. WindowsFit => ReadsInWindow
  <2> SUFFICES ASSUME WindowsFit, call.at \in {"window", "add"} PROVE ReadsInWindow
    BY DEF ReadsInWindow
  <2>1. call # NoCall
    BY DEF NoCall
  <2> QED
    BY <2>1 DEF WindowsFit, ReadsInWindow
<1> QED
  BY <1>1, InitFits, StepFits, PTL DEF Spec

(* The table of a base has room for all windows, so a read without bounds  *)
(* check is a read of a point that Committer::new put there.               *)
THEOREM ReadsStayInTable == Spec => []ReadsInTable
<1>1. Init => tables = CommitterNew
  BY DEF Init
<1>2. tables = CommitterNew /\ [Next]_vars => (tables = CommitterNew)'
  BY DEF Next, vars, MulIndex, AddWindow, AddDelta, Send, Decode, MulAsm, MulBy5Asm, Return
<1>3. WindowsFit /\ tables = CommitterNew => ReadsInTable
  <2> SUFFICES ASSUME WindowsFit, tables = CommitterNew, call.at = "window"
               PROVE  call.idx \in DOMAIN tables[call.pos]
    BY DEF ReadsInTable
  <2>1. call # NoCall
    BY DEF NoCall
  <2>2. /\ call.pos \in Positions /\ call.window \in Windows /\ call.idx \in Nat
        /\ call.idx <= (call.window + 1) * (HalfWindow + 1) - 1
    <3>1. call \in CallRecords(call.acc) /\ call.idx \in call.window * (HalfWindow + 1) .. (call.window + 1) * (HalfWindow + 1) - 1
      BY <2>1 DEF WindowsFit
    <3> QED
      BY <3>1 DEF CallRecords
  <2>3. DOMAIN tables[call.pos] = 0 .. NumWindows * (HalfWindow + 1) - 1
    BY <2>2 DEF CommitterNew, Table
  <2>4. NumWindows \in Nat /\ call.window + 1 \in Nat /\ call.window + 1 <= NumWindows /\ HalfWindow \in Nat
    BY <2>2, LastWindow, HalfOf DEF NumWindows, Windows
  <2>5. \A m \in Nat : m <= NumWindows => m * (HalfWindow + 1) <= NumWindows * (HalfWindow + 1)
    BY <2>4
  <2>6. (call.window + 1) * (HalfWindow + 1) <= NumWindows * (HalfWindow + 1)
    BY <2>4, <2>5
  <2> QED
    BY <2>2, <2>3, <2>4, <2>6
<1> QED
  BY <1>1, <1>2, <1>3, InitFits, StepFits, PTL DEF Spec

-------------------------------------------------------------------------------
(* The assembly routines of Montgomery, word by word *)

(* A word, four words, the flags that a step leaves, and what they carry *)
Word == 0 .. W - 1
IsWords(v) == \A j \in Limbs : v[j] \in Word
Flags(s) == s.hi \in Nat /\ s.cf \in Nat /\ s.of \in Nat
Carried(s) == s.hi + s.cf + s.of

(* A number is its remainder and W times its quotient. *)
LEMMA Parts ==
  ASSUME NEW a \in Int, NEW n \in Nat \ {0}
  PROVE  /\ a % n \in Nat /\ a % n < n /\ a \div n \in Int
         /\ a = (a % n) + n * (a \div n)
         /\ a \in Nat => a \div n \in Nat
OBVIOUS

(* A remainder and a quotient are determined by the sum. *)
LEMMA UniqueRemainder ==
  ASSUME NEW n \in Nat \ {0}, NEW r \in Nat, r < n, NEW z \in Int
  PROVE  (r + n * z) % n = r /\ (r + n * z) \div n = z
OBVIOUS

(* Quad has its four arguments as words. *)
LEMMA QuadWords ==
  ASSUME NEW a, NEW b, NEW c, NEW d
  PROVE  /\ Quad(a, b, c, d)[0] = a /\ Quad(a, b, c, d)[1] = b
         /\ Quad(a, b, c, d)[2] = c /\ Quad(a, b, c, d)[3] = d
         /\ Number(Quad(a, b, c, d)) = a + W * (b + W * (c + W * d))
<1>1. 0 \in Limbs /\ 1 \in Limbs /\ 2 \in Limbs /\ 3 \in Limbs
  BY DEF Limbs
<1>2. /\ Quad(a, b, c, d)[0] = a /\ Quad(a, b, c, d)[1] = b
      /\ Quad(a, b, c, d)[2] = c /\ Quad(a, b, c, d)[3] = d
  BY <1>1 DEF Quad
<1> QED
  BY <1>2 DEF Number

(* The three additions of a step, as one equation. *)
LEMMA StepSum ==
  ASSUME NEW w \in Nat, NEW t \in Nat, NEW p \in Nat, NEW hi \in Nat, NEW cf \in Nat, NEW of \in Nat,
         NEW a \in Nat, NEW b \in Nat, NEW r \in Nat, NEW x \in Nat, NEW y \in Nat, NEW z \in Nat,
         t + hi + cf = a + w * y, p = b + w * x, a + b + of = r + w * z
  PROVE  t + (hi + cf + of) + p = r + w * (x + y + z)
<1>1. w * (x + y + z) = w * x + w * y + w * z
  OBVIOUS
<1> QED
  BY <1>1

(* The same with quotients and remainders. *)
LEMMA StepExact ==
  ASSUME NEW w \in Nat \ {0}, NEW t \in Nat, NEW p \in Nat, NEW hi \in Nat, NEW cf \in Nat, NEW of \in Nat,
         NEW adcx \in Nat, adcx = t + hi + cf,
         NEW adox \in Nat, adox = (adcx % w) + (p % w) + of
  PROVE  /\ adox % w \in Nat /\ adox % w < w
         /\ p \div w \in Nat /\ adcx \div w \in Nat /\ adox \div w \in Nat
         /\ t + (hi + cf + of) + p = (adox % w) + w * (p \div w + adcx \div w + adox \div w)
<1>1. adcx \in Nat /\ adcx % w \in Nat /\ adcx \div w \in Nat /\ adcx = (adcx % w) + w * (adcx \div w)
  BY Parts
<1>2. p % w \in Nat /\ p \div w \in Nat /\ p = (p % w) + w * (p \div w)
  BY Parts
<1>3. adox \in Nat
  BY <1>1, <1>2
<1>4. adox % w \in Nat /\ adox % w < w /\ adox \div w \in Nat /\ adox = (adox % w) + w * (adox \div w)
  BY <1>3, Parts
<1>5. PICK a \in Nat, b \in Nat, r \in Nat, x \in Nat, y \in Nat, z \in Nat :
        /\ a = adcx % w /\ b = p % w /\ r = adox % w
        /\ x = p \div w /\ y = adcx \div w /\ z = adox \div w
  BY <1>1, <1>2, <1>4
<1>6. t + hi + cf = a + w * y
  BY <1>1, <1>5, Zenon
<1>7. p = b + w * x
  BY <1>2, <1>5, Zenon
<1>8. a + b + of = r + w * z
  BY <1>4, <1>5, Zenon
<1>9. t + (hi + cf + of) + p = r + w * (x + y + z)
  BY <1>6, <1>7, <1>8, StepSum
<1>10. t + (hi + cf + of) + p = (adox % w) + w * ((p \div w) + (adcx \div w) + (adox \div w))
  BY <1>5, <1>9, Zenon
<1> QED
  BY <1>1, <1>2, <1>4, <1>10

(* Four words with their carries, in one number *)
LEMMA Chain3 ==
  ASSUME NEW w \in Nat,
         NEW t1 \in Nat, NEW t2 \in Nat, NEW t3 \in Nat,
         NEW p1 \in Nat, NEW p2 \in Nat, NEW p3 \in Nat,
         NEW r1 \in Nat, NEW r2 \in Nat, NEW r3 \in Nat,
         NEW c1 \in Nat, NEW c2 \in Nat, NEW c3 \in Nat, NEW c4 \in Nat,
         t1 + c1 + p1 = r1 + w * c2,
         t2 + c2 + p2 = r2 + w * c3,
         t3 + c3 + p3 = r3 + w * c4
  PROVE  (t1 + w * (t2 + w * t3)) + c1 + (p1 + w * (p2 + w * p3)) = r1 + w * (r2 + w * (r3 + w * c4))
<1>1. w * (t3 + c3 + p3) = w * (r3 + w * c4)
  OBVIOUS
<1>2. (t2 + w * t3) + c2 + (p2 + w * p3) = r2 + w * (r3 + w * c4)
  BY <1>1
<1>3. w * ((t2 + w * t3) + c2 + (p2 + w * p3)) = w * (r2 + w * (r3 + w * c4))
  BY <1>2
<1>4. w * ((t2 + w * t3) + c2 + (p2 + w * p3)) = w * (t2 + w * t3) + w * c2 + w * (p2 + w * p3)
  OBVIOUS
<1> QED
  BY <1>3, <1>4

(* What MontgomeryAssumption says about the sizes. *)
LEMMA MontgomerySizes ==
  /\ W \in Nat \ {0} /\ W > 1 /\ Prime \in Nat \ {0} /\ Prime > 2 /\ Radix \in Nat
  /\ 2 * Prime < Radix
<1>1. W \in Nat \ {0} /\ W > 1 /\ Prime \in Nat \ {0} /\ Prime > 2 /\ 2 * Prime < Radix
  BY MontgomeryAssumption
<1>2. \A v \in Nat : v * v * v * v \in Nat
  OBVIOUS
<1> QED
  BY <1>1, <1>2 DEF Radix

(* mulx, adcx and adox on one word: what goes in comes out, as a word and  *)
(* as the upper half and the two flags that go on.                         *)
LEMMA StepOp ==
  ASSUME NEW s, Flags(s), NEW t \in Nat, NEW x \in Nat, NEW y \in Nat
  PROVE  /\ Step(s, t, x, y).w \in Word /\ Flags(Step(s, t, x, y))
         /\ Carried(Step(s, t, x, y)) \in Nat
         /\ t + Carried(s) + x * y = Step(s, t, x, y).w + W * Carried(Step(s, t, x, y))
<1>0. PICK r : r = Step(s, t, x, y)
  OBVIOUS

<1> DEFINE adcx == t + s.hi + s.cf
           adox == (adcx % W) + ((x * y) % W) + s.of
<1>1. r = [w |-> adox % W, hi |-> (x * y) \div W, cf |-> adcx \div W, of |-> adox \div W]
  BY <1>0 DEF Step
<1>2. PICK p \in Nat : p = x * y
  OBVIOUS
<1>3. PICK w \in Nat \ {0} : w = W
  BY MontgomerySizes
<1>4. PICK t1, t2 : t1 = adcx /\ t2 = adox
  OBVIOUS
<1>5. t1 = t + s.hi + s.cf /\ t2 = (t1 % w) + (p % w) + s.of
  BY <1>2, <1>3, <1>4
<1>6. r.w = t2 % w /\ r.hi = p \div w /\ r.cf = t1 \div w /\ r.of = t2 \div w
  BY <1>1, <1>2, <1>3, <1>4
<1> HIDE DEF adcx, adox
<1>7. /\ t2 % w \in Nat /\ t2 % w < w
      /\ p \div w \in Nat /\ t1 \div w \in Nat /\ t2 \div w \in Nat
      /\ t + (s.hi + s.cf + s.of) + p = (t2 % w) + w * ((p \div w) + (t1 \div w) + (t2 \div w))
  <2>1. PICK hi \in Nat, cf \in Nat, of \in Nat : hi = s.hi /\ cf = s.cf /\ of = s.of
    BY DEF Flags
  <2>2. t1 = t + hi + cf /\ t2 = (t1 % w) + (p % w) + of
    BY <1>5, <2>1
  <2>3. t1 \in Nat /\ (t1 % w) \in Nat /\ (p % w) \in Nat
    BY <2>2, Parts
  <2>4. t2 \in Nat
    BY <2>2, <2>3
  <2>5. /\ t2 % w \in Nat /\ t2 % w < w
        /\ p \div w \in Nat /\ t1 \div w \in Nat /\ t2 \div w \in Nat
        /\ t + (hi + cf + of) + p = (t2 % w) + w * ((p \div w) + (t1 \div w) + (t2 \div w))
    BY <2>2, <2>3, <2>4, StepExact
  <2> QED
    BY <2>1, <2>5
<1>8. r.w \in Word
  BY <1>3, <1>6, <1>7 DEF Word
<1>9. t + (s.hi + s.cf + s.of) + x * y = r.w + W * (r.hi + r.cf + r.of)
  BY <1>2, <1>3, <1>6, <1>7, Zenon
<1>10. Flags(r) /\ Carried(r) \in Nat
  BY <1>6, <1>7 DEF Carried, Flags
<1> QED
  BY <1>0, <1>8, <1>9, <1>10, Zenon DEF Carried

(* Numbers by their words *)
LEMMA NumberIsNat ==
  ASSUME NEW v, IsWords(v)
  PROVE  /\ v[0] \in Nat /\ v[1] \in Nat /\ v[2] \in Nat /\ v[3] \in Nat
         /\ v[0] < W /\ v[1] < W /\ v[2] < W /\ v[3] < W
         /\ Number(v) \in Nat
<1>1. /\ v[0] \in Nat /\ v[1] \in Nat /\ v[2] \in Nat /\ v[3] \in Nat
      /\ v[0] < W /\ v[1] < W /\ v[2] < W /\ v[3] < W
  BY MontgomerySizes DEF IsWords, Limbs, Word
<1>2. \A w, a, b, c, d \in Nat : a + w * (b + w * (c + w * d)) \in Nat
  OBVIOUS
<1> QED
  BY <1>1, <1>2, MontgomerySizes DEF Number

(* A number of four words times a number. *)
LEMMA Horner ==
  ASSUME NEW w \in Nat, NEW a \in Nat, NEW b \in Nat, NEW c \in Nat, NEW d \in Nat, NEW y \in Nat
  PROVE  (a + w * (b + w * (c + w * d))) * y = a * y + w * (b * y + w * (c * y + w * (d * y)))
OBVIOUS

(* A fifth word counts for the radix. *)
LEMMA FifthWord ==
  ASSUME NEW w \in Nat, NEW a \in Nat, NEW b \in Nat, NEW c \in Nat, NEW d \in Nat, NEW e \in Nat
  PROVE  a + w * (b + w * (c + w * (d + w * e))) = a + w * (b + w * (c + w * d)) + w * w * w * w * e
OBVIOUS

(* All four words with their carries, in one number *)
LEMMA Chain4 ==
  ASSUME NEW w \in Nat,
         NEW t0 \in Nat, NEW t1 \in Nat, NEW t2 \in Nat, NEW t3 \in Nat,
         NEW p0 \in Nat, NEW p1 \in Nat, NEW p2 \in Nat, NEW p3 \in Nat,
         NEW r0 \in Nat, NEW r1 \in Nat, NEW r2 \in Nat, NEW r3 \in Nat,
         NEW c0 \in Nat, NEW c1 \in Nat, NEW c2 \in Nat, NEW c3 \in Nat, NEW c4 \in Nat,
         t0 + c0 + p0 = r0 + w * c1,
         t1 + c1 + p1 = r1 + w * c2,
         t2 + c2 + p2 = r2 + w * c3,
         t3 + c3 + p3 = r3 + w * c4
  PROVE  (t0 + w * (t1 + w * (t2 + w * t3))) + c0 + (p0 + w * (p1 + w * (p2 + w * p3)))
           = r0 + w * (r1 + w * (r2 + w * r3)) + w * w * w * w * c4
<1>1. (t1 + w * (t2 + w * t3)) + c1 + (p1 + w * (p2 + w * p3)) = r1 + w * (r2 + w * (r3 + w * c4))
  BY Chain3
<1>2. PICK t \in Nat, p \in Nat, r \in Nat :
        t = t1 + w * (t2 + w * t3) /\ p = p1 + w * (p2 + w * p3) /\ r = r1 + w * (r2 + w * (r3 + w * c4))
  OBVIOUS
<1>3. t + c1 + p = r
  BY <1>1, <1>2
<1>4. (t0 + w * t) + c0 + (p0 + w * p) = r0 + w * r
  <2>1. w * (t + c1 + p) = w * t + w * c1 + w * p
    OBVIOUS
  <2> QED
    BY <1>3, <2>1
<1>5. r0 + w * r = r0 + w * (r1 + w * (r2 + w * r3)) + w * w * w * w * c4
  BY <1>2, FifthWord
<1> QED
  BY <1>2, <1>4, <1>5

(* r is the word after s, for xj * y + tj *)
Linked(s, t, x, y, r) ==
  /\ r.w \in Word /\ r.w \in Nat /\ Flags(r) /\ Carried(r) \in Nat
  /\ t + Carried(s) + x * y = r.w + W * Carried(r)

(* The step links its word to the one before it. *)
LEMMA StepLinked ==
  ASSUME NEW s, Flags(s), NEW t \in Nat, NEW x \in Nat, NEW y \in Nat
  PROVE  Linked(s, t, x, y, Step(s, t, x, y)) /\ Flags(Step(s, t, x, y))
<1>0. PICK r : r = Step(s, t, x, y)
  OBVIOUS
<1>1. /\ r.w \in Word /\ Flags(r) /\ Carried(r) \in Nat
      /\ t + Carried(s) + x * y = r.w + W * Carried(r)
  BY <1>0, StepOp, Zenon
<1>2. r.w \in Nat
  BY <1>1, MontgomerySizes DEF Word
<1> QED
  BY <1>0, <1>1, <1>2, Zenon DEF Linked

(* Four words as one number *)
Value(a, b, c, d) == a + W * (b + W * (c + W * d))

(* The first half of a row is exact: t + x * y. *)
LEMMA MulRowExact ==
  ASSUME NEW t, IsWords(t), NEW x, IsWords(x), NEW y \in Word
  PROVE  /\ IsWords(MulRow(t, x, y).t) /\ Carried(MulRow(t, x, y)) \in Nat
         /\ Number(t) + Number(x) * y = Number(MulRow(t, x, y).t) + Radix * Carried(MulRow(t, x, y))
<1>1. PICK t0 \in Nat, t1 \in Nat, t2 \in Nat, t3 \in Nat : t0 = t[0] /\ t1 = t[1] /\ t2 = t[2] /\ t3 = t[3]
  BY NumberIsNat
<1>2. PICK x0 \in Nat, x1 \in Nat, x2 \in Nat, x3 \in Nat : x0 = x[0] /\ x1 = x[1] /\ x2 = x[2] /\ x3 = x[3]
  BY NumberIsNat
<1>3. y \in Nat
  BY MontgomerySizes DEF Word
<1>4. PICK none, s0, s1, s2, s3 :
        /\ none = [hi |-> 0, cf |-> 0, of |-> 0]
        /\ s0 = Step(none, t0, x0, y) /\ s1 = Step(s0, t1, x1, y)
        /\ s2 = Step(s1, t2, x2, y) /\ s3 = Step(s2, t3, x3, y)
  OBVIOUS
<1>5. MulRow(t, x, y) = [t |-> Quad(s0.w, s1.w, s2.w, s3.w), hi |-> s3.hi, cf |-> s3.cf, of |-> s3.of]
  BY <1>1, <1>2, <1>4, Zenon DEF MulRow
<1>6. /\ s0.w \in Word /\ s1.w \in Word /\ s2.w \in Word /\ s3.w \in Word
      /\ Carried(s3) \in Nat
      /\ Value(t0, t1, t2, t3) + Value(x0, x1, x2, x3) * y = Value(s0.w, s1.w, s2.w, s3.w) + Radix * Carried(s3)
  <2>0. Flags(none) /\ Carried(none) = 0
    BY <1>4 DEF Flags, Carried
  <2>1. Linked(none, t0, x0, y, s0) /\ Flags(s0)
    BY <2>0, <1>3, <1>4, StepLinked
  <2>2. Linked(s0, t1, x1, y, s1) /\ Flags(s1)
    BY <2>1, <1>3, <1>4, StepLinked
  <2>3. Linked(s1, t2, x2, y, s2) /\ Flags(s2)
    BY <2>2, <1>3, <1>4, StepLinked
  <2>4. Linked(s2, t3, x3, y, s3)
    BY <2>3, <1>3, <1>4, StepLinked
  <2>5. PICK w \in Nat : w = W
    BY MontgomerySizes
  <2>6. PICK r0 \in Nat, r1 \in Nat, r2 \in Nat, r3 \in Nat : r0 = s0.w /\ r1 = s1.w /\ r2 = s2.w /\ r3 = s3.w
    BY <2>1, <2>2, <2>3, <2>4 DEF Linked
  <2>7. PICK c1 \in Nat, c2 \in Nat, c3 \in Nat, c4 \in Nat :
          c1 = Carried(s0) /\ c2 = Carried(s1) /\ c3 = Carried(s2) /\ c4 = Carried(s3)
    BY <2>1, <2>2, <2>3, <2>4 DEF Linked
  <2>8. PICK p0 \in Nat, p1 \in Nat, p2 \in Nat, p3 \in Nat : p0 = x0 * y /\ p1 = x1 * y /\ p2 = x2 * y /\ p3 = x3 * y
    <3>1. \A a, b \in Nat : a * b \in Nat
      OBVIOUS
    <3> QED
      BY <1>3, <3>1
  <2>9. t0 + 0 + p0 = r0 + w * c1
    BY <2>0, <2>1, <2>5, <2>6, <2>7, <2>8, Zenon DEF Linked
  <2>10. t1 + c1 + p1 = r1 + w * c2
    BY <2>2, <2>5, <2>6, <2>7, <2>8, Zenon DEF Linked
  <2>11. t2 + c2 + p2 = r2 + w * c3
    BY <2>3, <2>5, <2>6, <2>7, <2>8, Zenon DEF Linked
  <2>12. t3 + c3 + p3 = r3 + w * c4
    BY <2>4, <2>5, <2>6, <2>7, <2>8, Zenon DEF Linked
  <2>13. (t0 + w * (t1 + w * (t2 + w * t3))) + 0 + (p0 + w * (p1 + w * (p2 + w * p3)))
           = r0 + w * (r1 + w * (r2 + w * r3)) + w * w * w * w * c4
    BY <2>9, <2>10, <2>11, <2>12, Chain4
  <2>14. (x0 + w * (x1 + w * (x2 + w * x3))) * y = p0 + w * (p1 + w * (p2 + w * p3))
    BY <1>3, <2>8, Horner
  <2>15. (t0 + w * (t1 + w * (t2 + w * t3))) \in Nat /\ (p0 + w * (p1 + w * (p2 + w * p3))) \in Nat
    OBVIOUS
  <2>16. (t0 + w * (t1 + w * (t2 + w * t3))) + (x0 + w * (x1 + w * (x2 + w * x3))) * y
           = r0 + w * (r1 + w * (r2 + w * r3)) + w * w * w * w * c4
    BY <1>3, <2>13, <2>14, <2>15
  <2>17. Value(t0, t1, t2, t3) + Value(x0, x1, x2, x3) * y = Value(s0.w, s1.w, s2.w, s3.w) + Radix * Carried(s3)
    BY <2>5, <2>6, <2>7, <2>16, Zenon DEF Value, Radix
  <2> QED
    BY <2>1, <2>2, <2>3, <2>4, <2>17 DEF Linked
<1>7. PICK r : r = MulRow(t, x, y)
  OBVIOUS
<1>8. r.t = Quad(s0.w, s1.w, s2.w, s3.w) /\ Carried(r) = Carried(s3)
  BY <1>5, <1>7 DEF Carried
<1>9. IsWords(r.t)
  BY <1>6, <1>8, QuadWords DEF IsWords, Limbs
<1>10. Number(r.t) = Value(s0.w, s1.w, s2.w, s3.w)
  BY <1>8, QuadWords DEF Value
<1>11. Number(t) = Value(t0, t1, t2, t3) /\ Number(x) = Value(x0, x1, x2, x3)
  BY <1>1, <1>2, Zenon DEF Number, Value
<1> QED
  BY <1>6, <1>7, <1>8, <1>9, <1>10, <1>11, Zenon

(* Below the radix there are only four words. *)
LEMMA FourthQuotient ==
  ASSUME NEW w \in Nat, NEW x \in Nat, NEW a \in Nat, NEW b \in Nat, NEW c \in Nat,
         NEW x1 \in Nat, NEW x2 \in Nat, NEW x3 \in Nat,
         x = a + w * x1, x1 = b + w * x2, x2 = c + w * x3, x < w * w * w * w
  PROVE  x3 < w
<1> SUFFICES ASSUME x3 >= w
             PROVE  FALSE
  OBVIOUS
<1>1. w * x3 >= w * w
  OBVIOUS
<1>2. PICK ww \in Nat : ww = w * w
  OBVIOUS
<1>3. x2 >= ww
  BY <1>1, <1>2
<1>4. w * x2 >= w * ww
  BY <1>3
<1>5. PICK www \in Nat : www = w * ww
  BY <1>2
<1>6. x1 >= www
  BY <1>4, <1>5
<1>7. w * x1 >= w * www
  BY <1>6
<1>8. w * www = w * w * w * w
  BY <1>2, <1>5
<1> QED
  BY <1>7, <1>8

(* Words and Number are inverse to each other below the radix. *)
LEMMA WordsExact ==
  ASSUME NEW x \in Nat, x < Radix
  PROVE  IsWords(Words(x)) /\ Number(Words(x)) = x
<1>1. PICK w \in Nat \ {0} : w = W
  BY MontgomerySizes
<1>2. PICK x1 \in Nat, a \in Nat : x1 = x \div w /\ a = x % w /\ x = a + w * x1 /\ a < w
  <2>1. x % w \in Nat /\ x % w < w /\ x \div w \in Nat /\ x = (x % w) + w * (x \div w)
    BY Parts
  <2> QED
    BY <2>1, Zenon
<1>3. PICK x2 \in Nat, b \in Nat : x2 = x1 \div w /\ b = x1 % w /\ x1 = b + w * x2 /\ b < w
  BY Parts
<1>4. PICK x3 \in Nat, c \in Nat : x3 = x2 \div w /\ c = x2 % w /\ x2 = c + w * x3 /\ c < w
  BY Parts
<1>5. x3 < w
  BY <1>1, <1>2, <1>3, <1>4, FourthQuotient DEF Radix
<1>6. x3 % w = x3
  BY <1>5
<1>7. Words(x) = Quad(a, b, c, x3)
  BY <1>1, <1>2, <1>3, <1>4, <1>6, Zenon DEF Words
<1>8. /\ Words(x)[0] = a /\ Words(x)[1] = b /\ Words(x)[2] = c /\ Words(x)[3] = x3
      /\ Number(Words(x)) = a + w * (b + w * (c + w * x3))
  BY <1>1, <1>7, QuadWords
<1>9. a + w * (b + w * (c + w * x3)) = x
  BY <1>2, <1>3, <1>4, Zenon
<1>10. a \in Word /\ b \in Word /\ c \in Word /\ x3 \in Word
  BY <1>1, <1>2, <1>3, <1>4, <1>5 DEF Word
<1> QED
  BY <1>8, <1>9, <1>10 DEF IsWords, Limbs

(* The constant q is the prime. *)
LEMMA QExact == IsWords(q) /\ Number(q) = Prime
<1>1. Prime \in Nat /\ Prime < Radix
  BY MontgomerySizes
<1> QED
  BY <1>1, WordsExact DEF q

(* The multiple of the prime that makes the lowest word vanish *)
LEMMA LowWord ==
  ASSUME NEW t \in Nat
  PROVE  \A m : m = (t * q_inv) % W =>
           /\ m \in Word /\ (m * q[0]) \div W \in Nat /\ (((m * q[0]) % W) + t) \div W \in Nat
           /\ t + m * q[0] = W * (((m * q[0]) \div W) + ((((m * q[0]) % W) + t) \div W))
<1>0. SUFFICES ASSUME NEW m, m = (t * q_inv) % W
               PROVE  /\ m \in Word /\ (m * q[0]) \div W \in Nat /\ (((m * q[0]) % W) + t) \div W \in Nat
                      /\ t + m * q[0] = W * (((m * q[0]) \div W) + ((((m * q[0]) % W) + t) \div W))
  BY Zenon
<1>1. PICK w \in Nat \ {0} : w = W
  BY MontgomerySizes
<1>2. PICK q0 \in Nat : q0 = q[0]
  BY QExact, NumberIsNat
<1>3. PICK i \in 0 .. w - 1 : i = q_inv /\ (i * q0 + 1) % w = 0
  <2>1. \E j \in 0 .. W - 1 : IsNegatedInverse(j)
    BY InverseAssumption
  <2>2. q_inv \in 0 .. W - 1 /\ IsNegatedInverse(q_inv)
    BY <2>1, Zenon DEF q_inv
  <2> QED
    BY <1>1, <1>2, <2>2 DEF IsNegatedInverse
<1>4. i \in Nat /\ i * q0 + 1 \in Nat /\ t * i \in Nat
  <2>1. i \in Nat
    BY <1>3
  <2> QED
    BY <2>1
<1>5. PICK k \in Int : i * q0 + 1 = w * k
  <2>1. PICK n \in Nat : n = i * q0 + 1
    BY <1>4
  <2>2. n % w = 0 /\ n = (n % w) + w * (n \div w) /\ n \div w \in Int
    BY <1>3, <2>1, Parts
  <2>3. n = w * (n \div w)
    BY <2>2
  <2> QED
    BY <2>1, <2>2, <2>3
<1>6. PICK a \in Int : m \in Nat /\ m < w /\ t * i = m + w * a
  <2>1. PICK n \in Nat : n = t * i
    BY <1>4
  <2>2. m = n % w
    BY <1>0, <1>1, <1>3, <2>1
  <2>3. n % w \in Nat /\ n % w < w /\ n \div w \in Int /\ n = (n % w) + w * (n \div w)
    BY Parts
  <2> QED
    BY <2>1, <2>2, <2>3, Zenon
<1>7. m * q0 + t = w * (t * k - a * q0)
  <2>1. t * (i * q0 + 1) = t * (w * k)
    BY <1>5
  <2>2. t * (i * q0 + 1) = (t * i) * q0 + t
    BY <1>4
  <2>3. (t * i) * q0 = m * q0 + (w * a) * q0
    BY <1>6
  <2>4. t * (w * k) = w * (t * k) /\ (w * a) * q0 = w * (a * q0)
    OBVIOUS
  <2>5. w * (t * k - a * q0) = w * (t * k) - w * (a * q0)
    OBVIOUS
  <2>6. m * q0 \in Int /\ w * (t * k) \in Int /\ w * (a * q0) \in Int
    BY <1>6
  <2> QED
    BY <2>1, <2>2, <2>3, <2>4, <2>5, <2>6
<1>8. PICK p \in Nat : p = m * q0
  BY <1>6
<1>9. PICK b \in Nat, h \in Nat : b = p % w /\ h = p \div w /\ p = b + w * h
  BY Parts
<1>10. PICK z \in Int : z = t * k - a * q0
  OBVIOUS
<1>11. b + t = w * (z - h)
  <2>1. w * (z - h) = w * z - w * h
    OBVIOUS
  <2> QED
    BY <1>7, <1>8, <1>9, <1>10, <2>1
<1>12. PICK c \in Nat, d \in Int : c = (b + t) % w /\ d = (b + t) \div w /\ b + t = c + w * d /\ c < w /\ d \in Nat
  <2>1. b + t \in Nat /\ b + t \in Int
    OBVIOUS
  <2> QED
    BY <2>1, Parts
<1>13. d = z - h
  <2>1. PICK e \in Int : e = z - h
    OBVIOUS
  <2>2. 0 + w * e = b + t
    BY <1>11, <2>1
  <2>3. (0 + w * e) \div w = e
    BY UniqueRemainder
  <2> QED
    BY <1>12, <2>1, <2>2, <2>3
<1>14. t + p = w * (h + d)
  BY <1>7, <1>8, <1>10, <1>13
<1>15. t + m * q0 = w * (((m * q0) \div w) + ((((m * q0) % w) + t) \div w))
  BY <1>8, <1>9, <1>12, <1>14, Zenon
<1>16. (m * q0) \div w \in Nat /\ (((m * q0) % w) + t) \div w \in Nat
  BY <1>8, <1>9, <1>12, Zenon
<1>17. m \in Word
  BY <1>1, <1>6 DEF Word
<1> QED
  BY <1>1, <1>2, <1>15, <1>16, <1>17, Zenon

LEMMA HornerLeft ==
  ASSUME NEW w \in Nat, NEW a \in Nat, NEW b \in Nat, NEW c \in Nat, NEW d \in Nat, NEW y \in Nat
  PROVE  y * (a + w * (b + w * (c + w * d))) = y * a + w * (y * b + w * (y * c + w * (y * d)))
OBVIOUS

(* The second half is exact: (t + m * q) / W. *)
LEMMA ReduceRowExact ==
  ASSUME NEW t, IsWords(t)
  PROVE  \A m : m = (t[0] * q_inv) % W =>
           \E a \in Word, b \in Word, c \in Word :
             /\ m \in Word
             /\ ReduceRow(t, m).t = <<a, b, c>> /\ Carried(ReduceRow(t, m)) \in Nat
             /\ Number(t) + m * Prime = W * (a + W * (b + W * (c + W * Carried(ReduceRow(t, m)))))
<1>0. SUFFICES ASSUME NEW m, m = (t[0] * q_inv) % W
               PROVE  \E a \in Word, b \in Word, c \in Word :
                        /\ m \in Word
                        /\ ReduceRow(t, m).t = <<a, b, c>> /\ Carried(ReduceRow(t, m)) \in Nat
                        /\ Number(t) + m * Prime = W * (a + W * (b + W * (c + W * Carried(ReduceRow(t, m)))))
  BY Zenon
<1>1. PICK t0 \in Nat, t1 \in Nat, t2 \in Nat, t3 \in Nat : t0 = t[0] /\ t1 = t[1] /\ t2 = t[2] /\ t3 = t[3]
  BY NumberIsNat
<1>2. PICK q0 \in Nat, q1 \in Nat, q2 \in Nat, q3 \in Nat : q0 = q[0] /\ q1 = q[1] /\ q2 = q[2] /\ q3 = q[3]
  BY QExact, NumberIsNat
<1>3. /\ m \in Word /\ (m * q0) \div W \in Nat /\ (((m * q0) % W) + t0) \div W \in Nat
      /\ t0 + m * q0 = W * (((m * q0) \div W) + ((((m * q0) % W) + t0) \div W))
  BY <1>0, <1>1, <1>2, LowWord, Zenon
<1>4. PICK n \in Nat : n = m
  BY <1>3, MontgomerySizes DEF Word
<1>5. PICK s0, s1, s2, s3 :
        /\ s0 = [hi |-> (n * q0) \div W, cf |-> (((n * q0) % W) + t0) \div W, of |-> 0]
        /\ s1 = Step(s0, t1, n, q1)
        /\ s2 = Step(s1, t2, n, q2) /\ s3 = Step(s2, t3, n, q3)
  OBVIOUS
<1>6. ReduceRow(t, m) = [t |-> <<s1.w, s2.w, s3.w>>, hi |-> s3.hi, cf |-> s3.cf, of |-> s3.of]
  BY <1>1, <1>2, <1>4, <1>5, Zenon DEF ReduceRow
<1>7. PICK h \in Nat, f \in Nat : h = (n * q0) \div W /\ f = (((n * q0) % W) + t0) \div W /\ t0 + n * q0 = W * (h + f)
  BY <1>3, <1>4, Zenon
<1>8. Flags(s0) /\ Carried(s0) = h + f
  <2>1. s0 = [hi |-> h, cf |-> f, of |-> 0]
    BY <1>5, <1>7, Zenon
  <2> QED
    BY <2>1 DEF Flags, Carried
<1>9. Linked(s0, t1, n, q1, s1) /\ Flags(s1)
  BY <1>5, <1>8, StepLinked
<1>10. Linked(s1, t2, n, q2, s2) /\ Flags(s2)
  BY <1>5, <1>9, StepLinked
<1>11. Linked(s2, t3, n, q3, s3) /\ Flags(s3)
  BY <1>5, <1>10, StepLinked
<1>12. PICK w \in Nat : w = W
  BY MontgomerySizes
<1>13. PICK r1 \in Nat, r2 \in Nat, r3 \in Nat : r1 = s1.w /\ r2 = s2.w /\ r3 = s3.w
  BY <1>9, <1>10, <1>11 DEF Linked
<1>14. PICK c1 \in Nat, c2 \in Nat, c3 \in Nat, c4 \in Nat :
         c1 = h + f /\ c1 = Carried(s0) /\ c2 = Carried(s1) /\ c3 = Carried(s2) /\ c4 = Carried(s3)
  BY <1>8, <1>9, <1>10, <1>11 DEF Linked
<1>15. PICK p0 \in Nat, p1 \in Nat, p2 \in Nat, p3 \in Nat : p0 = n * q0 /\ p1 = n * q1 /\ p2 = n * q2 /\ p3 = n * q3
  <2>1. \A a, b \in Nat : a * b \in Nat
    OBVIOUS
  <2> QED
    BY <2>1
<1>16. t0 + 0 + p0 = 0 + w * c1
  BY <1>7, <1>12, <1>14, <1>15
<1>17. t1 + c1 + p1 = r1 + w * c2
  BY <1>9, <1>12, <1>13, <1>14, <1>15, Zenon DEF Linked
<1>18. t2 + c2 + p2 = r2 + w * c3
  BY <1>10, <1>12, <1>13, <1>14, <1>15, Zenon DEF Linked
<1>19. t3 + c3 + p3 = r3 + w * c4
  BY <1>11, <1>12, <1>13, <1>14, <1>15, Zenon DEF Linked
<1>20. (t1 + w * (t2 + w * t3)) + c1 + (p1 + w * (p2 + w * p3)) = r1 + w * (r2 + w * (r3 + w * c4))
  BY <1>17, <1>18, <1>19, Chain3
<1>21. (t0 + w * (t1 + w * (t2 + w * t3))) + (p0 + w * (p1 + w * (p2 + w * p3)))
         = w * (r1 + w * (r2 + w * (r3 + w * c4)))
  <2>1. PICK u \in Nat, v \in Nat, z \in Nat :
          u = t1 + w * (t2 + w * t3) /\ v = p1 + w * (p2 + w * p3) /\ z = r1 + w * (r2 + w * (r3 + w * c4))
    OBVIOUS
  <2>2. u + c1 + v = z
    BY <1>20, <2>1
  <2>3. w * (u + c1 + v) = w * u + w * c1 + w * v
    OBVIOUS
  <2>4. (t0 + w * u) + (p0 + w * v) = w * z
    BY <1>16, <2>2, <2>3
  <2> QED
    BY <2>1, <2>4, Zenon
<1>22. n * (q0 + w * (q1 + w * (q2 + w * q3))) = p0 + w * (p1 + w * (p2 + w * p3))
  BY <1>15, HornerLeft
<1>23. Number(t) + m * Prime = W * (s1.w + W * (s2.w + W * (s3.w + W * Carried(s3))))
  <2>1. Prime = q0 + w * (q1 + w * (q2 + w * q3))
    BY <1>2, <1>12, QExact, Zenon DEF Number
  <2>2. Number(t) = t0 + w * (t1 + w * (t2 + w * t3))
    BY <1>1, <1>12, Zenon DEF Number
  <2> QED
    BY <1>4, <1>12, <1>13, <1>14, <1>21, <1>22, <2>1, <2>2, Zenon
<1>24. ReduceRow(t, m).t = <<s1.w, s2.w, s3.w>> /\ Carried(ReduceRow(t, m)) = Carried(s3)
  BY <1>6 DEF Carried
<1>25. s1.w \in Word /\ s2.w \in Word /\ s3.w \in Word /\ Carried(s3) \in Nat
  BY <1>9, <1>10, <1>11, Zenon DEF Linked
<1> QED
  BY <1>3, <1>23, <1>24, <1>25, Zenon

(* The fifth word A of a row is a word: the sum is below W times the       *)
(* radix.                                                                  *)
LEMMA FifthBelow ==
  ASSUME NEW w \in Nat, NEW p \in Nat, NEW r \in Nat, 2 * p < r,
         NEW t \in Nat, t < 2 * p, NEW x \in Nat, x < p, NEW y \in Nat, y < w,
         NEW u \in Nat, NEW a \in Nat, t + x * y = u + r * a
  PROVE  a < w
<1> SUFFICES ASSUME a >= w
             PROVE  FALSE
  OBVIOUS
<1>1. r * a >= r * w
  OBVIOUS
<1>2. r * w >= r * (y + 1)
  OBVIOUS
<1>3. r * (y + 1) = r * y + r
  OBVIOUS
<1>4. r * y >= x * y
  OBVIOUS
<1>5. r * a \in Nat /\ r * w \in Nat /\ r * y \in Nat /\ x * y \in Nat
  OBVIOUS
<1> QED
  BY <1>1, <1>2, <1>3, <1>4, <1>5

(* A row ends below twice the prime, as it began. *)
LEMMA RowBelow ==
  ASSUME NEW w \in Nat, NEW p \in Nat, p > 0, NEW t \in Nat, t < 2 * p, NEW x \in Nat, x < p,
         NEW y \in Nat, y < w, NEW m \in Nat, m < w, NEW v \in Nat, w * v = t + x * y + m * p
  PROVE  v < 2 * p
<1> SUFFICES ASSUME v >= 2 * p
             PROVE  FALSE
  OBVIOUS
<1>1. w * v >= w * (2 * p)
  OBVIOUS
<1>2. x * y <= p * y
  OBVIOUS
<1>3. p * y <= p * (w - 1) /\ m * p <= (w - 1) * p
  OBVIOUS
<1>4. p * (w - 1) = p * w - p /\ (w - 1) * p = p * w - p /\ w * (2 * p) = 2 * (p * w)
  OBVIOUS
<1>5. x * y \in Nat /\ p * y \in Nat /\ m * p \in Nat /\ p * w \in Nat /\ w * v \in Nat
  OBVIOUS
<1> QED
  BY <1>1, <1>2, <1>3, <1>4, <1>5

LEMMA TopBelow ==
  ASSUME NEW w \in Nat, NEW a \in Nat, NEW b \in Nat, NEW c \in Nat, NEW d \in Nat,
         a + w * (b + w * (c + w * d)) < w * w * w * w
  PROVE  d < w
<1>1. PICK x2 \in Nat : x2 = c + w * d
  OBVIOUS
<1>2. PICK x1 \in Nat : x1 = b + w * x2
  OBVIOUS
<1>3. PICK x \in Nat : x = a + w * x1
  OBVIOUS
<1>4. x < w * w * w * w
  BY <1>1, <1>2, <1>3
<1> QED
  BY <1>1, <1>2, <1>3, <1>4, FourthQuotient

LEMMA AddFifth ==
  ASSUME NEW w \in Nat, NEW a \in Nat, NEW b \in Nat, NEW c \in Nat, NEW d \in Nat, NEW e \in Nat
  PROVE  w * (a + w * (b + w * (c + w * (d + e)))) = w * (a + w * (b + w * (c + w * d))) + (w * w * w * w) * e
OBVIOUS

(* Between two rows the number is below twice the prime. *)
RowState(s) == IsWords(s.t) /\ s.lost = 0 /\ Number(s.t) \in Nat /\ Number(s.t) < 2 * Prime
RowFrom(t, x, y, r) == \E k \in Nat : W * r = t + x * y + k * Prime

(* A row loses no carry, keeps the bound, and divides by W what it was     *)
(* given, up to a multiple of the prime.                                   *)
LEMMA RowExact ==
  ASSUME NEW s, RowState(s), NEW x, IsWords(x), Number(x) < Prime, NEW y \in Word
  PROVE  RowState(Row(s, x, y)) /\ RowFrom(Number(s.t), Number(x), y, Number(Row(s, x, y).t))
<1>0. PICK mul, A : mul = MulRow(s.t, x, y) /\ A = mul.hi + mul.cf + mul.of /\ Row(s, x, y) = ShiftDown(s, mul, A)
  BY Zenon DEF Row
<1>1. PICK m, red, top :
        /\ m = (mul.t[0] * q_inv) % W /\ red = ReduceRow(mul.t, m)
        /\ top = red.hi + red.cf + red.of + (A % W)
        /\ ShiftDown(s, mul, A)
             = [t |-> Quad(red.t[1], red.t[2], red.t[3], top % W), lost |-> s.lost + A \div W + top \div W]
  BY DEF ShiftDown
<1>2. Row(s, x, y) = [t |-> Quad(red.t[1], red.t[2], red.t[3], top % W), lost |-> s.lost + A \div W + top \div W]
  BY <1>0, <1>1, Zenon
<1>3. PICK w \in Nat \ {0}, p \in Nat \ {0} : w = W /\ p = Prime /\ p > 0 /\ 2 * p < w * w * w * w
  BY MontgomerySizes DEF Radix
<1>4. PICK T \in Nat : T = Number(s.t) /\ T < 2 * p
  BY <1>3 DEF RowState
<1>5. PICK X \in Nat : X = Number(x) /\ X < p
  BY <1>3, NumberIsNat
<1>6. PICK Y \in Nat : Y = y /\ Y < w
  BY <1>3, MontgomerySizes DEF Word
<1>7. /\ IsWords(mul.t) /\ A \in Nat
      /\ Number(s.t) + Number(x) * y = Number(mul.t) + Radix * A
  <2>1. IsWords(s.t)
    BY DEF RowState
  <2>2. A = Carried(mul)
    BY <1>0, Zenon DEF Carried
  <2>3. /\ IsWords(mul.t) /\ Carried(mul) \in Nat
        /\ Number(s.t) + Number(x) * y = Number(mul.t) + Radix * Carried(mul)
    <3>1. PICK t : t = s.t
      OBVIOUS
    <3>2. mul = MulRow(t, x, y) /\ IsWords(t)
      BY <1>0, <2>1, <3>1
    <3>3. /\ IsWords(mul.t) /\ Carried(mul) \in Nat
          /\ Number(t) + Number(x) * y = Number(mul.t) + Radix * Carried(mul)
      BY <3>2, MulRowExact, Zenon
    <3> QED
      BY <3>1, <3>3, Zenon
  <2> QED
    BY <2>2, <2>3, Zenon
<1>8. PICK M \in Nat, R \in Nat : M = Number(mul.t) /\ R = Radix
  BY <1>7, NumberIsNat, MontgomerySizes
<1>9. R = w * w * w * w /\ 2 * p < R
  BY <1>3, <1>8 DEF Radix
<1>10. T + X * Y = M + R * A
  BY <1>4, <1>5, <1>6, <1>7, <1>8, Zenon
<1>11. A < w
  BY <1>3, <1>4, <1>5, <1>6, <1>7, <1>9, <1>10, FifthBelow
<1>12. PICK a \in Word, b \in Word, c \in Word :
         /\ m \in Word /\ red.t = <<a, b, c>> /\ Carried(red) \in Nat
         /\ Number(mul.t) + m * Prime = W * (a + W * (b + W * (c + W * Carried(red))))
  <2>1. PICK t : t = mul.t /\ IsWords(t)
    BY <1>7
  <2>2. m = (t[0] * q_inv) % W /\ red = ReduceRow(t, m)
    BY <1>1, <2>1, Zenon
  <2>3. \E a \in Word, b \in Word, c \in Word :
          /\ m \in Word
          /\ ReduceRow(t, m).t = <<a, b, c>> /\ Carried(ReduceRow(t, m)) \in Nat
          /\ Number(t) + m * Prime = W * (a + W * (b + W * (c + W * Carried(ReduceRow(t, m)))))
    BY <2>1, <2>2, ReduceRowExact, Zenon
  <2> QED
    BY <2>1, <2>2, <2>3, Zenon
<1>13. PICK C \in Nat, n \in Nat : C = Carried(red) /\ n = m /\ n < w
  BY <1>3, <1>12, MontgomerySizes DEF Word
<1>14. a \in Nat /\ b \in Nat /\ c \in Nat
  BY <1>12, MontgomerySizes DEF Word
<1>15. M + n * p = w * (a + w * (b + w * (c + w * C)))
  BY <1>3, <1>8, <1>12, <1>13, Zenon
<1>16. PICK V \in Nat : V = a + w * (b + w * (c + w * (C + A)))
  <2>1. PICK e \in Nat : e = C + A
    BY <1>7
  <2>2. a + w * (b + w * (c + w * e)) \in Nat
    BY <1>14
  <2> QED
    BY <2>1, <2>2
<1>17. w * V = T + X * Y + n * p
  <2>1. w * V = w * (a + w * (b + w * (c + w * C))) + R * A
    BY <1>7, <1>9, <1>14, <1>16, AddFifth
  <2>2. PICK u \in Nat, v \in Nat, z \in Nat : u = X * Y /\ v = n * p /\ z = R * A
    BY <1>7
  <2> QED
    BY <1>10, <1>15, <2>1, <2>2
<1>18. V < 2 * p
  BY <1>3, <1>4, <1>5, <1>6, <1>13, <1>17, RowBelow
<1>19. C + A < w
  <2>1. PICK e \in Nat : e = C + A
    BY <1>7
  <2>2. a + w * (b + w * (c + w * e)) < w * w * w * w
    BY <1>9, <1>16, <1>18, <2>1
  <2> QED
    BY <1>14, <2>1, <2>2, TopBelow
<1>20. A % W = A /\ A \div W = 0
  BY <1>3, <1>7, <1>11
<1>21. top = C + A
  BY <1>1, <1>7, <1>12, <1>13, <1>20 DEF Carried
<1>22. top % W = C + A /\ top \div W = 0 /\ C + A \in Word
  BY <1>3, <1>7, <1>13, <1>19, <1>21 DEF Word
<1>23. PICK r : r = Row(s, x, y)
  OBVIOUS
<1>24. r.t = Quad(a, b, c, C + A) /\ r.lost = 0
  <2>1. red.t[1] = a /\ red.t[2] = b /\ red.t[3] = c
    BY <1>12
  <2>2. s.lost = 0
    BY DEF RowState
  <2>3. r.t = Quad(a, b, c, C + A)
    BY <1>2, <1>22, <1>23, <2>1
  <2>4. r.lost = s.lost + A \div W + top \div W
    BY <1>2, <1>23
  <2> QED
    BY <1>20, <1>22, <2>2, <2>3, <2>4
<1>25. IsWords(r.t)
  BY <1>12, <1>22, <1>24, QuadWords DEF IsWords, Limbs
<1>26. Number(r.t) = V
  <2>1. PICK e : e = C + A
    OBVIOUS
  <2>2. Number(Quad(a, b, c, e)) = a + W * (b + W * (c + W * e))
    BY QuadWords
  <2> QED
    BY <1>3, <1>16, <1>24, <2>1, <2>2, Zenon
<1>27. RowState(r)
  BY <1>3, <1>18, <1>24, <1>25, <1>26, Zenon DEF RowState
<1>28. RowFrom(Number(s.t), Number(x), y, Number(r.t))
  BY <1>3, <1>4, <1>5, <1>6, <1>17, <1>26, Zenon DEF RowFrom
<1> QED
  BY <1>23, <1>27, <1>28, Zenon

(* Four words are below the radix. *)
LEMMA NumberBelow ==
  ASSUME NEW v, IsWords(v)
  PROVE  Number(v) \in Nat /\ Number(v) < Radix
<1>1. PICK w \in Nat, a \in Nat, b \in Nat, c \in Nat, d \in Nat :
        /\ w = W /\ a = v[0] /\ b = v[1] /\ c = v[2] /\ d = v[3]
        /\ a < w /\ b < w /\ c < w /\ d < w
  BY NumberIsNat, MontgomerySizes
<1>2. PICK x1 \in Nat : x1 = c + w * d /\ x1 < w * w
  <2>1. w * d <= w * (w - 1) /\ w * (w - 1) = w * w - w
    BY <1>1
  <2>2. c + w * d \in Nat /\ w * d \in Nat /\ w * w \in Nat
    OBVIOUS
  <2> QED
    BY <1>1, <2>1, <2>2
<1>3. PICK x2 \in Nat : x2 = b + w * x1 /\ x2 < w * w * w
  <2>1. PICK u \in Nat : u = w * w
    OBVIOUS
  <2>2. w * x1 <= w * (u - 1) /\ w * (u - 1) = w * u - w
    BY <1>1, <1>2, <2>1
  <2>3. w * x1 \in Nat /\ w * u \in Nat /\ b + w * x1 \in Nat
    OBVIOUS
  <2>4. w * u = w * w * w
    BY <2>1
  <2> QED
    BY <1>1, <2>2, <2>3, <2>4
<1>4. a + w * x2 < w * w * w * w
  <2>1. PICK u \in Nat : u = w * w * w
    OBVIOUS
  <2>2. w * x2 <= w * (u - 1) /\ w * (u - 1) = w * u - w
    BY <1>1, <1>3, <2>1
  <2>3. w * x2 \in Nat /\ w * u \in Nat
    OBVIOUS
  <2>4. w * u = w * w * w * w
    BY <2>1
  <2> QED
    BY <1>1, <2>2, <2>3, <2>4
<1>5. Number(v) = a + w * x2
  BY <1>1, <1>2, <1>3, Zenon DEF Number
<1>6. Radix = w * w * w * w
  BY <1>1, Zenon DEF Radix
<1> QED
  BY <1>4, <1>5, <1>6

(* One word of a sum, with its carry *)
LEMMA SumWord ==
  ASSUME NEW x \in Nat, NEW y \in Nat, NEW c \in Nat
  PROVE  \E r \in Nat, d \in Nat :
           /\ r = (x + y + c) % W /\ d = (x + y + c) \div W
           /\ r \in Word /\ x + c + y = r + W * d
<1>1. PICK w \in Nat \ {0}, s \in Nat : w = W /\ s = x + y + c
  BY MontgomerySizes
<1>2. s % w \in Nat /\ s % w < w /\ s \div w \in Nat /\ s = (s % w) + w * (s \div w)
  BY Parts
<1>3. x + c + y = s
  BY <1>1
<1>4. s % w \in Word
  BY <1>1, <1>2 DEF Word
<1> QED
  BY <1>1, <1>2, <1>3, <1>4, Zenon

(* A chain of additions is exact up to the last carry. *)
LEMMA AddWordsExact ==
  ASSUME NEW x, IsWords(x), NEW y, IsWords(y)
  PROVE  /\ IsWords(AddWords(x, y).t) /\ AddWords(x, y).lost \in Nat
         /\ Number(x) + Number(y) = Number(AddWords(x, y).t) + Radix * AddWords(x, y).lost
<1>1. PICK x0 \in Nat, x1 \in Nat, x2 \in Nat, x3 \in Nat : x0 = x[0] /\ x1 = x[1] /\ x2 = x[2] /\ x3 = x[3]
  BY NumberIsNat
<1>2. PICK y0 \in Nat, y1 \in Nat, y2 \in Nat, y3 \in Nat : y0 = y[0] /\ y1 = y[1] /\ y2 = y[2] /\ y3 = y[3]
  BY NumberIsNat
<1>3. PICK r0 \in Nat, c1 \in Nat :
        r0 = (x0 + y0) % W /\ c1 = (x0 + y0) \div W /\ r0 \in Word /\ x0 + 0 + y0 = r0 + W * c1
  <2>1. \E r \in Nat, d \in Nat :
           r = (x0 + y0 + 0) % W /\ d = (x0 + y0 + 0) \div W /\ r \in Word /\ x0 + 0 + y0 = r + W * d
    BY SumWord
  <2>2. x0 + y0 + 0 = x0 + y0
    OBVIOUS
  <2> QED
    BY <2>1, <2>2, Zenon
<1>4. PICK r1 \in Nat, c2 \in Nat :
        r1 = (x1 + y1 + c1) % W /\ c2 = (x1 + y1 + c1) \div W /\ r1 \in Word /\ x1 + c1 + y1 = r1 + W * c2
  BY SumWord
<1>5. PICK r2 \in Nat, c3 \in Nat :
        r2 = (x2 + y2 + c2) % W /\ c3 = (x2 + y2 + c2) \div W /\ r2 \in Word /\ x2 + c2 + y2 = r2 + W * c3
  BY SumWord
<1>6. PICK r3 \in Nat, c4 \in Nat :
        r3 = (x3 + y3 + c3) % W /\ c4 = (x3 + y3 + c3) \div W /\ r3 \in Word /\ x3 + c3 + y3 = r3 + W * c4
  BY SumWord
<1>7. AddWords(x, y) = [t |-> Quad(r0, r1, r2, r3), lost |-> c4]
  BY <1>1, <1>2, <1>3, <1>4, <1>5, <1>6, Zenon DEF AddWords
<1>8. PICK r : r = AddWords(x, y)
  OBVIOUS
<1>9. r.t = Quad(r0, r1, r2, r3) /\ r.lost = c4
  BY <1>7, <1>8
<1>10. PICK w \in Nat : w = W
  BY MontgomerySizes
<1>11. (x0 + w * (x1 + w * (x2 + w * x3))) + 0 + (y0 + w * (y1 + w * (y2 + w * y3)))
         = r0 + w * (r1 + w * (r2 + w * r3)) + w * w * w * w * c4
  <2>1. x0 + 0 + y0 = r0 + w * c1
    BY <1>3, <1>10, Zenon
  <2>2. x1 + c1 + y1 = r1 + w * c2
    BY <1>4, <1>10, Zenon
  <2>3. x2 + c2 + y2 = r2 + w * c3
    BY <1>5, <1>10, Zenon
  <2>4. x3 + c3 + y3 = r3 + w * c4
    BY <1>6, <1>10, Zenon
  <2> QED
    BY <2>1, <2>2, <2>3, <2>4, Chain4
<1>12. Number(x) = x0 + w * (x1 + w * (x2 + w * x3)) /\ Number(y) = y0 + w * (y1 + w * (y2 + w * y3))
  BY <1>1, <1>2, <1>10, Zenon DEF Number
<1>13. Number(r.t) = r0 + w * (r1 + w * (r2 + w * r3)) /\ Radix = w * w * w * w
  BY <1>9, <1>10, QuadWords DEF Radix
<1>14. Number(x) + 0 + Number(y) = Number(r.t) + Radix * r.lost
  BY <1>9, <1>11, <1>12, <1>13, Zenon
<1>15. IsWords(r.t)
  BY <1>3, <1>4, <1>5, <1>6, <1>9, QuadWords DEF IsWords, Limbs
<1>16. Number(x) \in Nat /\ Number(y) \in Nat
  BY NumberIsNat
<1>17. Number(x) + Number(y) = Number(r.t) + Radix * r.lost
  BY <1>14, <1>16
<1> QED
  BY <1>8, <1>9, <1>15, <1>17, Zenon

(* r and d are the word of x - y - b and its borrow *)
Borrowed(x, y, b, r, d) ==
  /\ r = (x - y - b) % W /\ d = Borrow(x - y - b)
  /\ r \in Word /\ r + b + y = x + W * d

(* One word of a difference, with its borrow *)
LEMMA BorrowWord ==
  ASSUME NEW x \in Word, NEW y \in Word, NEW b \in {0, 1}
  PROVE  \E r \in Nat, d \in {0, 1} : Borrowed(x, y, b, r, d)
<1>1. PICK w \in Nat \ {0}, z \in Int : w = W /\ z = x - y - b /\ z < w /\ z >= 0 - w
  BY MontgomerySizes DEF Word
<1>2. x \in Nat /\ y \in Nat
  BY MontgomerySizes DEF Word
<1>3. CASE z < 0
  <2>1. z % w = z + w
    <3>1. PICK r \in Nat : r = z + w /\ r < w
      BY <1>1, <1>3
    <3>2. z = r + w * (0 - 1)
      BY <3>1
    <3>3. (r + w * (0 - 1)) % w = r
      BY <3>1, UniqueRemainder
    <3> QED
      BY <3>1, <3>2, <3>3
  <2>2. Borrow(z) = 1
    BY <1>3 DEF Borrow
  <2>3. z + w \in Nat /\ z + w \in Word
    BY <1>1, <1>3 DEF Word
  <2>4. (z + w) + b + y = x + w * 1
    BY <1>1, <1>2
  <2> QED
    BY <1>1, <2>1, <2>2, <2>3, <2>4 DEF Borrowed
<1>4. CASE z >= 0
  <2>1. z % w = z
    BY <1>1, <1>4
  <2>2. Borrow(z) = 0
    BY <1>4 DEF Borrow
  <2>3. z \in Nat /\ z \in Word
    BY <1>1, <1>4 DEF Word
  <2>4. z + b + y = x + w * 0
    BY <1>1, <1>2
  <2> QED
    BY <1>1, <2>1, <2>2, <2>3, <2>4 DEF Borrowed
<1> QED
  BY <1>1, <1>3, <1>4

(* A chain of subtractions is exact up to the last borrow. *)
LEMMA SubWordsExact ==
  ASSUME NEW x, IsWords(x), NEW y, IsWords(y)
  PROVE  /\ IsWords(SubWords(x, y).t) /\ SubWords(x, y).borrow \in {0, 1}
         /\ Number(SubWords(x, y).t) + Number(y) = Number(x) + Radix * SubWords(x, y).borrow
<1>1. PICK x0 \in Word, x1 \in Word, x2 \in Word, x3 \in Word : x0 = x[0] /\ x1 = x[1] /\ x2 = x[2] /\ x3 = x[3]
  BY DEF IsWords, Limbs
<1>2. PICK y0 \in Word, y1 \in Word, y2 \in Word, y3 \in Word : y0 = y[0] /\ y1 = y[1] /\ y2 = y[2] /\ y3 = y[3]
  BY DEF IsWords, Limbs
<1>3. PICK r0 \in Nat, b1 \in {0, 1} :
        r0 = (x0 - y0) % W /\ b1 = Borrow(x0 - y0) /\ r0 \in Word /\ r0 + 0 + y0 = x0 + W * b1
  <2>1. \E r \in Nat, d \in {0, 1} : Borrowed(x0, y0, 0, r, d)
    BY BorrowWord
  <2>2. x0 - y0 - 0 = x0 - y0
    BY MontgomerySizes DEF Word
  <2> QED
    BY <2>1, <2>2, Zenon DEF Borrowed
<1>4. PICK r1 \in Nat, b2 \in {0, 1} :
        r1 = (x1 - y1 - b1) % W /\ b2 = Borrow(x1 - y1 - b1) /\ r1 \in Word /\ r1 + b1 + y1 = x1 + W * b2
  <2>1. \E r \in Nat, d \in {0, 1} : Borrowed(x1, y1, b1, r, d)
    BY BorrowWord
  <2> QED
    BY <2>1, Zenon DEF Borrowed
<1>5. PICK r2 \in Nat, b3 \in {0, 1} :
        r2 = (x2 - y2 - b2) % W /\ b3 = Borrow(x2 - y2 - b2) /\ r2 \in Word /\ r2 + b2 + y2 = x2 + W * b3
  <2>1. \E r \in Nat, d \in {0, 1} : Borrowed(x2, y2, b2, r, d)
    BY BorrowWord
  <2> QED
    BY <2>1, Zenon DEF Borrowed
<1>6. PICK r3 \in Nat, b4 \in {0, 1} :
        r3 = (x3 - y3 - b3) % W /\ b4 = Borrow(x3 - y3 - b3) /\ r3 \in Word /\ r3 + b3 + y3 = x3 + W * b4
  <2>1. \E r \in Nat, d \in {0, 1} : Borrowed(x3, y3, b3, r, d)
    BY BorrowWord
  <2> QED
    BY <2>1, Zenon DEF Borrowed
<1>7. SubWords(x, y) = [t |-> Quad(r0, r1, r2, r3), borrow |-> b4]
  BY <1>1, <1>2, <1>3, <1>4, <1>5, <1>6, Zenon DEF SubWords
<1>8. PICK r : r = SubWords(x, y)
  OBVIOUS
<1>9. r.t = Quad(r0, r1, r2, r3) /\ r.borrow = b4
  BY <1>7, <1>8
<1>10. PICK w \in Nat : w = W
  BY MontgomerySizes
<1>11. (r0 + w * (r1 + w * (r2 + w * r3))) + 0 + (y0 + w * (y1 + w * (y2 + w * y3)))
         = x0 + w * (x1 + w * (x2 + w * x3)) + w * w * w * w * b4
  <2>1. r0 + 0 + y0 = x0 + w * b1
    BY <1>3, <1>10, Zenon
  <2>2. r1 + b1 + y1 = x1 + w * b2
    BY <1>4, <1>10, Zenon
  <2>3. r2 + b2 + y2 = x2 + w * b3
    BY <1>5, <1>10, Zenon
  <2>4. r3 + b3 + y3 = x3 + w * b4
    BY <1>6, <1>10, Zenon
  <2>5. x0 \in Nat /\ x1 \in Nat /\ x2 \in Nat /\ x3 \in Nat
    BY MontgomerySizes DEF Word
  <2>6. y0 \in Nat /\ y1 \in Nat /\ y2 \in Nat /\ y3 \in Nat
    BY MontgomerySizes DEF Word
  <2>7. b1 \in Nat /\ b2 \in Nat /\ b3 \in Nat /\ b4 \in Nat
    OBVIOUS
  <2> QED
    BY <2>1, <2>2, <2>3, <2>4, <2>5, <2>6, <2>7, Chain4
<1>12. Number(x) = x0 + w * (x1 + w * (x2 + w * x3)) /\ Number(y) = y0 + w * (y1 + w * (y2 + w * y3))
  BY <1>1, <1>2, <1>10, Zenon DEF Number
<1>13. Number(r.t) = r0 + w * (r1 + w * (r2 + w * r3)) /\ Radix = w * w * w * w
  BY <1>9, <1>10, QuadWords DEF Radix
<1>14. Number(r.t) + 0 + Number(y) = Number(x) + Radix * r.borrow
  BY <1>9, <1>11, <1>12, <1>13, Zenon
<1>15. IsWords(r.t)
  BY <1>3, <1>4, <1>5, <1>6, <1>9, QuadWords DEF IsWords, Limbs
<1>16. Number(r.t) \in Nat /\ Number(y) \in Nat
  BY <1>15, NumberIsNat
<1>17. Number(r.t) + Number(y) = Number(x) + Radix * r.borrow
  BY <1>14, <1>16
<1> QED
  BY <1>8, <1>9, <1>15, <1>17, Zenon

(* One subtraction of the prime is enough for what is below its double. *)
LEMMA ReduceExact ==
  ASSUME NEW t, IsWords(t), Number(t) < 2 * Prime
  PROVE  /\ IsWords(Reduce(t)) /\ Number(Reduce(t)) \in Fq
         /\ Number(Reduce(t)) = Number(t) \/ Number(Reduce(t)) = Number(t) - Prime
<1>1. PICK p \in Nat, R \in Nat : p = Prime /\ R = Radix /\ 2 * p < R /\ Fq = 0 .. p - 1
  BY MontgomerySizes DEF Fq
<1>2. PICK n \in Nat : n = Number(t) /\ n < 2 * p
  BY <1>1, NumberBelow
<1>3. PICK d, v : d = SubWords(t, q) /\ v = d.t
  OBVIOUS
<1>4. IsWords(v) /\ d.borrow \in {0, 1} /\ Number(v) + Prime = n + R * d.borrow
  BY <1>1, <1>2, <1>3, QExact, SubWordsExact, Zenon
<1>5. PICK u \in Nat : u = Number(v) /\ u < R
  BY <1>1, <1>4, NumberBelow
<1>6. Reduce(t) = IF d.borrow = 1 THEN t ELSE v
  BY <1>3, Zenon DEF Reduce
<1>7. CASE d.borrow = 1
  <2>1. Reduce(t) = t
    BY <1>6, <1>7
  <2>2. u + p = n + R
    BY <1>1, <1>4, <1>5, <1>7
  <2>3. n < p
    BY <1>5, <2>2
  <2> QED
    BY <1>1, <1>2, <2>1, <2>3
<1>8. CASE d.borrow = 0
  <2>1. Reduce(t) = v
    BY <1>6, <1>8
  <2>2. u + p = n
    BY <1>1, <1>4, <1>5, <1>8
  <2> QED
    BY <1>1, <1>2, <1>4, <1>5, <2>1, <2>2
<1> QED
  BY <1>4, <1>7, <1>8

(* Four rows have multiplied by four words and divided by the radix. *)
LEMMA FourRows ==
  ASSUME NEW w \in Nat, NEW p \in Nat, NEW x \in Nat,
         NEW y0 \in Nat, NEW y1 \in Nat, NEW y2 \in Nat, NEW y3 \in Nat,
         NEW k0 \in Nat, NEW k1 \in Nat, NEW k2 \in Nat, NEW k3 \in Nat,
         NEW t1 \in Nat, NEW t2 \in Nat, NEW t3 \in Nat, NEW t4 \in Nat,
         w * t1 = 0 + x * y0 + k0 * p, w * t2 = t1 + x * y1 + k1 * p,
         w * t3 = t2 + x * y2 + k2 * p, w * t4 = t3 + x * y3 + k3 * p
  PROVE  w * w * w * w * t4 = x * (y0 + w * (y1 + w * (y2 + w * y3))) + (k0 + w * (k1 + w * (k2 + w * k3))) * p
<1>1. PICK z0 \in Nat, z1 \in Nat, z2 \in Nat, z3 \in Nat :
        z0 = x * y0 + k0 * p /\ z1 = x * y1 + k1 * p /\ z2 = x * y2 + k2 * p /\ z3 = x * y3 + k3 * p
  OBVIOUS
<1>2. w * t1 = z0 /\ w * t2 = t1 + z1 /\ w * t3 = t2 + z2 /\ w * t4 = t3 + z3
  BY <1>1
<1>3. w * (w * t2) = z0 + w * z1
  <2>1. w * (w * t2) = w * (t1 + z1) /\ w * (t1 + z1) = w * t1 + w * z1
    BY <1>2
  <2> QED
    BY <1>2, <2>1
<1>4. w * (w * (w * t3)) = z0 + w * z1 + w * (w * z2)
  <2>1. w * (w * (w * t3)) = w * (w * (t2 + z2))
    BY <1>2
  <2>2. w * (w * (t2 + z2)) = w * (w * t2) + w * (w * z2)
    OBVIOUS
  <2> QED
    BY <1>3, <2>1, <2>2
<1>5. w * (w * (w * (w * t4))) = z0 + w * z1 + w * (w * z2) + w * (w * (w * z3))
  <2>1. w * (w * (w * (w * t4))) = w * (w * (w * (t3 + z3)))
    BY <1>2
  <2>2. w * (w * (w * (t3 + z3))) = w * (w * (w * t3)) + w * (w * (w * z3))
    OBVIOUS
  <2> QED
    BY <1>4, <2>1, <2>2
<1>6. w * w * w * w * t4 = w * (w * (w * (w * t4)))
  OBVIOUS
<1>7. z0 + w * z1 + w * (w * z2) + w * (w * (w * z3)) = z0 + w * (z1 + w * (z2 + w * z3))
  OBVIOUS
<1>8. PICK a0 \in Nat, a1 \in Nat, a2 \in Nat, a3 \in Nat : a0 = x * y0 /\ a1 = x * y1 /\ a2 = x * y2 /\ a3 = x * y3
  OBVIOUS
<1>9. PICK b0 \in Nat, b1 \in Nat, b2 \in Nat, b3 \in Nat : b0 = k0 * p /\ b1 = k1 * p /\ b2 = k2 * p /\ b3 = k3 * p
  OBVIOUS
<1>10. z0 + w * (z1 + w * (z2 + w * z3)) = (a0 + w * (a1 + w * (a2 + w * a3))) + (b0 + w * (b1 + w * (b2 + w * b3)))
  <2>1. z0 = a0 + b0 /\ z1 = a1 + b1 /\ z2 = a2 + b2 /\ z3 = a3 + b3
    BY <1>1, <1>8, <1>9
  <2>2. \A e0, e1, e2, e3, f0, f1, f2, f3 \in Nat :
          (e0 + f0) + w * ((e1 + f1) + w * ((e2 + f2) + w * (e3 + f3)))
             = (e0 + w * (e1 + w * (e2 + w * e3))) + (f0 + w * (f1 + w * (f2 + w * f3)))
    OBVIOUS
  <2> QED
    BY <2>1, <2>2
<1>11. x * (y0 + w * (y1 + w * (y2 + w * y3))) = a0 + w * (a1 + w * (a2 + w * a3))
  BY <1>8, HornerLeft
<1>12. (k0 + w * (k1 + w * (k2 + w * k3))) * p = b0 + w * (b1 + w * (b2 + w * b3))
  BY <1>9, Horner
<1> QED
  BY <1>5, <1>6, <1>7, <1>10, <1>11, <1>12

(* The product divided by the radix, up to a multiple of the prime *)
LEMMA ProductRows ==
  ASSUME NEW x, IsWords(x), Number(x) < Prime, NEW y, IsWords(y)
  PROVE  /\ IsWords(mont_mul_asm(x, y).t) /\ mont_mul_asm(x, y).lost = 0
         /\ Number(mont_mul_asm(x, y).t) \in Fq
         /\ \E k \in Int : Radix * Number(mont_mul_asm(x, y).t) = Number(x) * Number(y) + k * Prime
<1>1. PICK z, r0, r1, r2, r3 :
        /\ z = [t |-> Words(0), lost |-> 0]
        /\ r0 = Row(z, x, y[0]) /\ r1 = Row(r0, x, y[1]) /\ r2 = Row(r1, x, y[2]) /\ r3 = Row(r2, x, y[3])
  OBVIOUS
<1>2. mont_mul_asm(x, y) = [t |-> Reduce(r3.t), lost |-> r3.lost]
  BY <1>1, Zenon DEF mont_mul_asm
<1>3. RowState(z) /\ Number(z.t) = 0
  <2>1. z.t = Words(0) /\ z.lost = 0
    BY <1>1
  <2>2. IsWords(Words(0)) /\ Number(Words(0)) = 0
    <3>1. 0 \in Nat /\ 0 < Radix
      BY MontgomerySizes
    <3> QED
      BY <3>1, WordsExact
  <2> QED
    BY <2>1, <2>2, MontgomerySizes DEF RowState
<1>4. y[0] \in Word /\ y[1] \in Word /\ y[2] \in Word /\ y[3] \in Word
  BY DEF IsWords, Limbs
<1>5. RowState(r0) /\ RowFrom(Number(z.t), Number(x), y[0], Number(r0.t))
  BY <1>1, <1>3, <1>4, RowExact
<1>6. RowState(r1) /\ RowFrom(Number(r0.t), Number(x), y[1], Number(r1.t))
  BY <1>1, <1>4, <1>5, RowExact
<1>7. RowState(r2) /\ RowFrom(Number(r1.t), Number(x), y[2], Number(r2.t))
  BY <1>1, <1>4, <1>6, RowExact
<1>8. RowState(r3) /\ RowFrom(Number(r2.t), Number(x), y[3], Number(r3.t))
  BY <1>1, <1>4, <1>7, RowExact
<1>9. PICK w \in Nat, p \in Nat, R \in Nat, X \in Nat : w = W /\ p = Prime /\ R = Radix /\ X = Number(x)
  BY NumberIsNat, MontgomerySizes
<1>10. PICK y0 \in Nat, y1 \in Nat, y2 \in Nat, y3 \in Nat : y0 = y[0] /\ y1 = y[1] /\ y2 = y[2] /\ y3 = y[3]
  BY NumberIsNat
<1>11. PICK t1 \in Nat, t2 \in Nat, t3 \in Nat, t4 \in Nat :
         t1 = Number(r0.t) /\ t2 = Number(r1.t) /\ t3 = Number(r2.t) /\ t4 = Number(r3.t)
  BY <1>5, <1>6, <1>7, <1>8 DEF RowState
<1>12. PICK k0 \in Nat : w * t1 = 0 + X * y0 + k0 * p
  BY <1>3, <1>5, <1>9, <1>10, <1>11, Zenon DEF RowFrom
<1>13. PICK k1 \in Nat : w * t2 = t1 + X * y1 + k1 * p
  BY <1>6, <1>9, <1>10, <1>11, Zenon DEF RowFrom
<1>14. PICK k2 \in Nat : w * t3 = t2 + X * y2 + k2 * p
  BY <1>7, <1>9, <1>10, <1>11, Zenon DEF RowFrom
<1>15. PICK k3 \in Nat : w * t4 = t3 + X * y3 + k3 * p
  BY <1>8, <1>9, <1>10, <1>11, Zenon DEF RowFrom
<1>16. PICK K \in Nat, Y \in Nat :
         K = k0 + w * (k1 + w * (k2 + w * k3)) /\ Y = y0 + w * (y1 + w * (y2 + w * y3))
  OBVIOUS
<1>17. w * w * w * w * t4 = X * Y + K * p
  BY <1>12, <1>13, <1>14, <1>15, <1>16, FourRows
<1>18. Number(y) = Y /\ R = w * w * w * w
  BY <1>9, <1>10, <1>16, Zenon DEF Number, Radix
<1>19. PICK v : v = r3.t /\ IsWords(v) /\ Number(v) = t4 /\ t4 < 2 * Prime
  BY <1>8, <1>11 DEF RowState
<1>20. IsWords(Reduce(v)) /\ Number(Reduce(v)) \in Fq /\ (Number(Reduce(v)) = t4 \/ Number(Reduce(v)) = t4 - Prime)
  BY <1>19, ReduceExact, Zenon
<1>21. PICK r : r = mont_mul_asm(x, y)
  OBVIOUS
<1>22. r.t = Reduce(v) /\ r.lost = 0
  BY <1>2, <1>8, <1>19, <1>21 DEF RowState
<1>23. R * t4 = X * Y + K * p
  BY <1>17, <1>18
<1>24. \E k \in Int : R * Number(Reduce(v)) = X * Y + k * p
  <2>1. CASE Number(Reduce(v)) = t4
    BY <1>23, <2>1
  <2>2. CASE Number(Reduce(v)) = t4 - p
    <3>1. PICK k \in Int : k = K - R
      OBVIOUS
    <3>2. R * (t4 - p) = R * t4 - R * p /\ k * p = K * p - R * p
      BY <3>1
    <3>3. R * t4 \in Int /\ R * p \in Int /\ K * p \in Int /\ X * Y \in Int
      OBVIOUS
    <3>4. R * (t4 - p) = X * Y + k * p
      BY <1>23, <3>2, <3>3
    <3> QED
      BY <2>2, <3>4
  <2> QED
    BY <1>9, <1>20, <2>1, <2>2
<1> QED
  BY <1>9, <1>18, <1>20, <1>21, <1>22, <1>24, Zenon

(* A number below the prime has its words. *)
LEMMA FqBelow ==
  ASSUME NEW x \in Fq
  PROVE  x \in Nat /\ x < Prime /\ x < Radix /\ IsWords(Words(x)) /\ Number(Words(x)) = x
<1>1. x \in Nat /\ x < Prime /\ x < Radix
  BY MontgomerySizes DEF Fq
<1> QED
  BY <1>1, WordsExact

(* mont_mul_asm is the Montgomery product. *)
LEMMA ProductExact ==
  ASSUME NEW x \in Fq, NEW y \in Fq
  PROVE  /\ mont_mul_asm(Words(x), Words(y)).lost = 0
         /\ Number(mont_mul_asm(Words(x), Words(y)).t) = MontMul(x, y)
<1>1. PICK a, b, res : a = Words(x) /\ b = Words(y) /\ res = mont_mul_asm(a, b)
  OBVIOUS
<1>2. IsWords(a) /\ Number(a) = x /\ IsWords(b) /\ Number(b) = y /\ x \in Nat /\ y \in Nat /\ Number(a) < Prime
  BY <1>1, FqBelow
<1>3. /\ res.lost = 0 /\ Number(res.t) \in Fq
      /\ \E k \in Int : Radix * Number(res.t) = Number(a) * Number(b) + k * Prime
  BY <1>1, <1>2, ProductRows, Zenon
<1>4. PICK p \in Nat \ {0}, R \in Nat : p = Prime /\ R = Radix
  BY MontgomerySizes
<1>5. PICK r \in Nat : r = Number(res.t) /\ r < p
  BY <1>3, <1>4, FqBelow
<1>6. PICK z \in Nat : z = x * y
  BY <1>2
<1>7. PICK k \in Int : R * r = z + k * p
  BY <1>2, <1>3, <1>4, <1>5, <1>6, Zenon
<1>8. PICK i \in Nat : i = RadixInverse /\ (i * R) % p = 1
  <2>1. RadixInverse \in Fq /\ IsRadixInverse(RadixInverse)
    BY InverseAssumption, Zenon DEF RadixInverse
  <2> QED
    BY <1>4, <2>1, FqBelow DEF IsRadixInverse
<1>9. PICK j \in Int : i * R = 1 + p * j
  <2>1. PICK n \in Nat : n = i * R
    OBVIOUS
  <2>2. n % p = 1
    BY <1>8, <2>1
  <2>3. n = (n % p) + p * (n \div p) /\ n \div p \in Int
    BY Parts
  <2> QED
    BY <2>1, <2>2, <2>3
<1>10. PICK g \in Nat, h \in Int : g = z % p /\ z = g + p * h
  <2>1. z % p \in Nat /\ z \div p \in Int /\ z = (z % p) + p * (z \div p)
    BY Parts
  <2> QED
    BY <2>1
<1>11. (g * i) % p = r
  <2>0. z = g + p * h /\ r < p
    BY <1>5, <1>10
  <2>1. (i * R) * r = r + p * (j * r)
    <3>1. (1 + p * j) * r = r + p * (j * r)
      OBVIOUS
    <3> QED
      BY <1>9, <3>1
  <2>2. (i * R) * r = i * (R * r)
    OBVIOUS
  <2>3. i * (R * r) = i * (g + p * h + k * p)
    BY <1>7, <2>0
  <2>4. i * (g + p * h + k * p) = g * i + p * (i * (h + k))
    OBVIOUS
  <2>5. PICK u \in Int, v \in Int, e \in Int : u = j * r /\ v = i * (h + k) /\ e = g * i
    OBVIOUS
  <2>6. r + p * u = e + p * v
    BY <2>1, <2>2, <2>3, <2>4, <2>5
  <2>7. p * (u - v) = p * u - p * v
    OBVIOUS
  <2>8. e = r + p * (u - v)
    BY <2>6, <2>7
  <2>9. (r + p * (u - v)) % p = r
    BY <2>0, UniqueRemainder
  <2> QED
    BY <2>5, <2>8, <2>9
<1>12. MontMul(x, y) = r
  BY <1>4, <1>6, <1>8, <1>10, <1>11, Zenon DEF MontMul
<1> QED
  BY <1>1, <1>3, <1>5, <1>12

(* The sum of two numbers below the prime has no fifth word: 2 * Prime <   *)
(* Radix.                                                                  *)
LEMMA AddBelow ==
  ASSUME NEW x, IsWords(x), Number(x) < Prime, NEW y, IsWords(y), Number(y) < Prime
  PROVE  LET sum == AddWords(x, y)
         IN  /\ sum.lost = 0 /\ IsWords(sum.t) /\ Number(sum.t) = Number(x) + Number(y) /\ Number(sum.t) < 2 * Prime
<1>1. PICK sum : sum = AddWords(x, y)
  OBVIOUS
<1>2. IsWords(sum.t) /\ sum.lost \in Nat /\ Number(x) + Number(y) = Number(sum.t) + Radix * sum.lost
  BY <1>1, AddWordsExact, Zenon
<1>3. PICK R \in Nat, p \in Nat, a \in Nat, b \in Nat, c \in Nat, l \in Nat :
        /\ R = Radix /\ p = Prime /\ 2 * p < R /\ a = Number(x) /\ b = Number(y) /\ c = Number(sum.t) /\ l = sum.lost
  BY <1>2, MontgomerySizes, NumberIsNat
<1>4. a + b = c + R * l /\ a < p /\ b < p
  BY <1>2, <1>3
<1>5. l = 0
  <2> SUFFICES ASSUME l >= 1
               PROVE  FALSE
    OBVIOUS
  <2>1. R * l >= R
    OBVIOUS
  <2>2. R * l \in Nat
    OBVIOUS
  <2> QED
    BY <1>3, <1>4, <2>1, <2>2
<1>6. a + b = c
  BY <1>4, <1>5
<1>7. c < 2 * p
  BY <1>4, <1>6
<1> QED
  BY <1>1, <1>2, <1>3, <1>5, <1>6, <1>7

(* Three sums, each reduced at most once, are five times the number. *)
LEMMA FiveTimes ==
  ASSUME NEW p \in Nat \ {0}, NEW x \in Nat, NEW a \in Nat, NEW b \in Nat, NEW c \in Nat, c < p,
         a = x + x \/ a = x + x - p, b = a + a \/ b = a + a - p, c = b + x \/ c = b + x - p
  PROVE  (5 * x) % p = c
<1>1. \E j \in Int : 5 * x = c + p * j
  <2>1. PICK i \in {0, 1} : a = x + x - p * i
    OBVIOUS
  <2>2. PICK k \in {0, 1} : b = a + a - p * k
    OBVIOUS
  <2>3. PICK l \in {0, 1} : c = b + x - p * l
    OBVIOUS
  <2>4. p * (2 * i + k + l) = 2 * (p * i) + p * k + p * l
    OBVIOUS
  <2>5. 5 * x = c + p * (2 * i + k + l)
    BY <2>1, <2>2, <2>3, <2>4
  <2>6. 2 * i + k + l \in Int
    OBVIOUS
  <2> QED
    BY <2>5, <2>6
<1>2. PICK j \in Int : 5 * x = c + p * j
  BY <1>1
<1>3. (c + p * j) % p = c
  BY UniqueRemainder
<1> QED
  BY <1>2, <1>3

(* A sum and its reduction *)
LEMMA Reduced ==
  ASSUME NEW x, IsWords(x), Number(x) < Prime, NEW y, IsWords(y), Number(y) < Prime, NEW r, r = Reduce(AddWords(x, y).t)
  PROVE  /\ IsWords(r) /\ Number(r) \in Nat /\ Number(r) < Prime
         /\ Number(r) = Number(x) + Number(y) \/ Number(r) = Number(x) + Number(y) - Prime
<1>1. PICK t : t = AddWords(x, y).t /\ IsWords(t) /\ Number(t) = Number(x) + Number(y) /\ Number(t) < 2 * Prime
  BY AddBelow
<1>2. r = Reduce(t)
  BY <1>1
<1>3. IsWords(r) /\ Number(r) \in Fq /\ (Number(r) = Number(t) \/ Number(r) = Number(t) - Prime)
  BY <1>1, <1>2, ReduceExact, Zenon
<1>4. Number(r) \in Nat /\ Number(r) < Prime
  BY <1>3, FqBelow
<1> QED
  <2>1. PICK n : n = Number(x) + Number(y) /\ Number(t) = n
    BY <1>1
  <2>2. Number(r) = n \/ Number(r) = n - Prime
    BY <1>3, <2>1, Zenon
  <2>3. Number(r) = Number(x) + Number(y) \/ Number(r) = Number(x) + Number(y) - Prime
    BY <2>1, <2>2, NumberIsNat, MontgomerySizes
  <2> QED
    BY <1>3, <1>4, <2>3, Zenon

(* mont_mul_by5_asm multiplies by five. *)
LEMMA By5Exact ==
  ASSUME NEW x \in Fq
  PROVE  /\ mont_mul_by5_asm(Words(x)).lost = 0
         /\ Number(mont_mul_by5_asm(Words(x)).t) = MontMulBy5(x)
<1>1. PICK v, two, a, four, b, five, c, res :
        /\ v = Words(x) /\ two = AddWords(v, v) /\ a = Reduce(two.t)
        /\ four = AddWords(a, a) /\ b = Reduce(four.t)
        /\ five = AddWords(b, v) /\ c = Reduce(five.t) /\ res = mont_mul_by5_asm(v)
  OBVIOUS
<1>2. res = [t |-> c, lost |-> two.lost + four.lost + five.lost]
  BY <1>1, Zenon DEF mont_mul_by5_asm
<1>3. IsWords(v) /\ Number(v) = x /\ x \in Nat /\ Number(v) < Prime
  BY <1>1, FqBelow
<1>4. /\ two.lost = 0 /\ IsWords(a) /\ Number(a) \in Nat /\ Number(a) < Prime
      /\ Number(a) = x + x \/ Number(a) = x + x - Prime
  <2>1. two.lost = 0
    BY <1>1, <1>3, AddBelow
  <2>2. /\ IsWords(a) /\ Number(a) \in Nat /\ Number(a) < Prime
        /\ Number(a) = Number(v) + Number(v) \/ Number(a) = Number(v) + Number(v) - Prime
    BY <1>1, <1>3, Reduced
  <2> QED
    BY <1>3, <2>1, <2>2, Zenon
<1>5. /\ four.lost = 0 /\ IsWords(b) /\ Number(b) \in Nat /\ Number(b) < Prime
      /\ Number(b) = Number(a) + Number(a) \/ Number(b) = Number(a) + Number(a) - Prime
  <2>1. four.lost = 0
    BY <1>1, <1>4, AddBelow
  <2> QED
    BY <1>1, <1>4, <2>1, Reduced
<1>6. /\ five.lost = 0 /\ Number(c) \in Nat /\ Number(c) < Prime
      /\ Number(c) = Number(b) + x \/ Number(c) = Number(b) + x - Prime
  <2>1. five.lost = 0
    BY <1>1, <1>3, <1>5, AddBelow
  <2>2. /\ Number(c) \in Nat /\ Number(c) < Prime
        /\ Number(c) = Number(b) + Number(v) \/ Number(c) = Number(b) + Number(v) - Prime
    BY <1>1, <1>3, <1>5, Reduced
  <2> QED
    BY <1>3, <2>1, <2>2, Zenon
<1>7. (5 * x) % Prime = Number(c)
  <2>1. PICK p \in Nat \ {0}, d \in Nat, e \in Nat, f \in Nat : p = Prime /\ d = Number(a) /\ e = Number(b) /\ f = Number(c)
    BY <1>4, <1>5, <1>6, MontgomerySizes
  <2>2. f < p /\ (d = x + x \/ d = x + x - p)
    BY <1>4, <1>6, <2>1, Zenon
  <2>3. e = d + d \/ e = d + d - p
    BY <1>5, <2>1, Zenon
  <2>4. f = e + x \/ f = e + x - p
    BY <1>6, <2>1, Zenon
  <2>5. PICK n \in Nat : n = x
    BY <1>3
  <2>6. (5 * n) % p = f
    BY <2>2, <2>3, <2>4, <2>5, FiveTimes
  <2> QED
    BY <2>1, <2>5, <2>6, Zenon
<1>8. res.t = c /\ res.lost = 0
  BY <1>2, <1>4, <1>5, <1>6
<1> QED
  BY <1>1, <1>7, <1>8, Zenon DEF MontMulBy5

(* For every size of words and every prime that leaves the top bit of the  *)
(* radix free, the assembly routines return the reduced product divided by *)
(* the radix and five times a number, and no carry of either chain is      *)
(* dropped. The bound that carries the proof is that between two rows the  *)
(* number is below twice the prime.                                        *)
THEOREM AssemblyExact == Spec => []MontgomeryExact
<1>1. Init => MontgomeryExact
  BY DEF Init, NoProbe, MontgomeryExact
<1>2. MontgomeryExact /\ [Next]_vars => MontgomeryExact'
  <2> SUFFICES ASSUME MontgomeryExact, [Next]_vars
               PROVE  MontgomeryExact'
    OBVIOUS
  <2>1. CASE UNCHANGED probe
    BY <2>1 DEF MontgomeryExact
  <2>2. ASSUME NEW i \in Positions, NEW new \in Scalars, NEW asm \in BOOLEAN, MulIndex(i, new, asm)
        PROVE  UNCHANGED probe
    BY <2>2, Zenon DEF MulIndex
  <2>3. CASE AddWindow \/ AddDelta \/ Send
    BY <2>3, <2>1, Zenon DEF AddWindow, AddDelta, Send
  <2>4. ASSUME NEW bytes \in ByteStrings, Decode(bytes)
        PROVE  MontgomeryExact'
    <3>1. probe'.of = "from_bytes"
      BY <2>4 DEF Decode
    <3> QED
      BY <3>1 DEF MontgomeryExact
  <2>5. ASSUME NEW x \in Fq, NEW y \in Fq, MulAsm(x, y)
        PROVE  MontgomeryExact'
    <3>1. PICK r : r = mont_mul_asm(Words(x), Words(y)) /\ r.lost = 0 /\ Number(r.t) = MontMul(x, y)
      BY ProductExact
    <3>2. probe' = [of |-> "mont_mul", x |-> x, y |-> y, result |-> r]
      BY <2>5, <3>1, Zenon DEF MulAsm
    <3>3. probe'.of = "mont_mul" /\ probe'.x = x /\ probe'.y = y /\ probe'.result = r
      BY <3>2
    <3> QED
      BY <3>1, <3>3 DEF MontgomeryExact
  <2>6. ASSUME NEW x \in Fq, MulBy5Asm(x)
        PROVE  MontgomeryExact'
    <3>1. PICK r : r = mont_mul_by5_asm(Words(x)) /\ r.lost = 0 /\ Number(r.t) = MontMulBy5(x)
      BY By5Exact
    <3>2. probe' = [of |-> "mont_mul_by5", x |-> x, result |-> r]
      BY <2>6, <3>1, Zenon DEF MulBy5Asm
    <3>3. probe'.of = "mont_mul_by5" /\ probe'.x = x /\ probe'.result = r
      BY <3>2
    <3> QED
      BY <3>1, <3>3 DEF MontgomeryExact
  <2>7. CASE Return
    BY <2>7 DEF Return, NoProbe, MontgomeryExact
  <2>8. CASE UNCHANGED vars
    BY <2>1, <2>8 DEF vars
  <2> QED
    BY <2>1, <2>2, <2>3, <2>4, <2>5, <2>6, <2>7, <2>8 DEF Next
<1> QED
  BY <1>1, <1>2, PTL DEF Spec
================================================================================
