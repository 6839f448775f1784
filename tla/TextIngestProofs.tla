-------------------------- MODULE TextIngestProofs --------------------------
(***************************************************************************)
(* addfile's text (vecdb/src/main.c, embed.c, index.c), for every text,    *)
(* alphabet, hash, dimension and length of a token.                        *)
(*                                                                         *)
(* The paragraphs: behind what ingest_text has stored lies a newline at    *)
(* which no paragraph goes on (Gap), so each paragraph of the text lies    *)
(* before it or behind it, and the stored ones are those before it         *)
(* (Divided).  Between that newline and p all is blank, or it is the       *)
(* beginning of one paragraph, no line of which is blank (Inside).         *)
(*                                                                         *)
(* The words: when tokenize has read a part of a payload, the words that   *)
(* end in it are counted (Counted) and its token is the letters behind     *)
(* the last delimiter, cut to TOKEN_MAX - 1 (Open).  Induction over the    *)
(* characters is by the first position at which that is not so.            *)
(***************************************************************************)
EXTENDS TextIngest, TLAPS, SequenceTheorems, FiniteSetTheorems, WellFoundedInduction

----------------------------------------------------------------------------
(* A set of numbers has a least one.                                       *)
LEMMA Least ==
    ASSUME NEW S \in SUBSET Nat, S # {}
    PROVE  \E m \in S : \A n \in S : m <= n
<1> DEFINE R == {ss \in Nat \X Nat : ss[1] < ss[2]}
<1>1. IsWellFoundedOn(R, Nat)
  BY NatLessThanWellFounded DEF OpToRel
<1>2. PICK m \in S : \A n \in S : ~ (<<n, m>> \in R)
  BY <1>1, WFMin
<1>3. \A n \in S : <<n, m>> \in Nat \X Nat /\ <<n, m>>[1] = n /\ <<n, m>>[2] = m
  OBVIOUS
<1>4. \A n \in S : ~(n < m)
  BY <1>2, <1>3
<1> QED
  BY <1>4

LEMMA SmallestIs ==
    ASSUME NEW S \in SUBSET Nat, S # {}
    PROVE  Min(S) \in S /\ \A n \in S : Min(S) <= n
BY Least DEF Min

----------------------------------------------------------------------------
(* The paragraphs.                                                         *)

TypeOK == /\ text \in Seq(Chars)
          /\ p \in 1..(Len(text) + 1)
          /\ para \in Nat
          /\ pc \in {"between", "paragraph", "done"}
          /\ payloads \in Seq(Seq(Chars))

(* No paragraph goes on behind the newline e: one of the ends of the text, *)
(* or a blank line comes next.                                             *)
Gap(e) == \/ e = 0 \/ e = Len(text) + 1
          \/ \E n \in Newlines : n > e /\ Blank(e + 1, n - 1)

Before(e) == {x \in Places : x[2] < e}

(* Where ingest_text is behind the last paragraph, which ends at e.        *)
Between(e) == e <= p /\ Blank(e + 1, p - 1)

Inside(e) ==
    /\ e < para /\ para <= p /\ para <= Len(text)
    /\ Blank(e + 1, para - 1) /\ ~Blank(para, para)
    /\ \A m, n \in Newlines : para <= m /\ m < p /\ m < n => ~Blank(m + 1, n - 1)

Divided ==
    \E e \in Newlines :
        /\ Gap(e) /\ InOrder(payloads, Before(e))
        /\ pc # "paragraph" => Between(e)
        /\ pc = "paragraph" => Inside(e)

(* Where the newlines are.                                                 *)
LEMMA NewlinesAre ==
    ASSUME TypeOK
    PROVE  /\ Len(text) \in Nat /\ DOMAIN text = 1..Len(text)
           /\ \A i \in 1..Len(text) : text[i] \in Chars
           /\ Newlines \subseteq 0..(Len(text) + 1) /\ 0 \in Newlines /\ Len(text) + 1 \in Newlines
           /\ \A i \in 1..Len(text) : i \in Newlines <=> text[i] = "nl"
BY LenProperties, ElementOfSeq DEF TypeOK, Newlines

LEMMA BlankPart ==
    ASSUME NEW i, NEW j, Blank(i, j), NEW k, NEW l, \A x \in k..l : x \in i..j
    PROVE  Blank(k, l)
BY DEF Blank

(* BlankLineFollows looks for a blank line.                                *)
LEMMA BlankLine ==
    ASSUME TypeOK
    PROVE  BlankLineFollows <=>
               /\ p <= Len(text) /\ p \in Newlines
               /\ \E n \in Newlines : n > p /\ Blank(p + 1, n - 1)
<1>1. CASE AtEnd
  BY <1>1, NewlinesAre DEF AtEnd, BlankLineFollows, TypeOK
<1>2. CASE ~AtEnd
  <2>1. p \in 1..Len(text) /\ Len(text) \in Nat
    BY <1>2, NewlinesAre DEF AtEnd, TypeOK
  <2>2. PICK rest : rest = SubSeq(text, p + 1, Len(text))
    OBVIOUS
  <2>3. rest \in Seq(Chars) /\ Len(rest) = Len(text) - p /\ \A k \in 1..(Len(text) - p) : rest[k] = text[p + k]
    <3>1. text \in Seq(Chars) /\ p + 1 \in 1..(Len(text) + 1) /\ Len(text) \in p..Len(text)
      BY <2>1 DEF TypeOK
    <3> QED
      BY <2>1, <2>2, <3>1, SubSeqProperties
  <2>4. PICK ahead : ahead = Following
    OBVIOUS
  <2>5. /\ Len(ahead) = Len(text) - p + 1
        /\ \A k \in 1..(Len(text) - p) : ahead[k] = text[p + k]
        /\ ahead[Len(text) - p + 1] = "nl"
    BY <2>1, <2>2, <2>3, <2>4, AppendProperties DEF Following, Chars
  <2> DEFINE I == {k \in 1..Len(ahead) : ahead[k] \notin {"cr", "sp"}}
             look == Min(I)
  <2>6. I \in SUBSET Nat /\ Len(text) - p + 1 \in I
    BY <2>1, <2>5
  <2>7. look \in I /\ \A k \in I : look <= k
    <3> HIDE DEF I
    <3> QED
      BY <2>6, SmallestIs
  <2>8. BlankLineFollows <=> text[p] = "nl" /\ ahead[look] = "nl"
    <3>1. SelectInSeq(Following, LAMBDA c : c \notin {"cr", "sp"}) = look
      BY <2>4, <2>6 DEF SelectInSeq
    <3> QED
      BY <1>2, <2>4, <3>1 DEF BlankLineFollows
  <2>9. p \in Newlines <=> text[p] = "nl"
    BY <2>1, NewlinesAre
  <2>10. ASSUME ahead[look] = "nl" PROVE \E n \in Newlines : n > p /\ Blank(p + 1, n - 1)
    <3>1. PICK k : k = look
      OBVIOUS
    <3>2. k \in 1..(Len(text) - p + 1) /\ \A l \in 1..(k - 1) : l \notin I
      <4>1. k \in 1..(Len(text) - p + 1)
        BY <2>1, <2>5, <2>7, <3>1
      <4>2. \A l \in I : k <= l
        BY <2>7, <3>1
      <4> HIDE DEF I, look
      <4> QED
        BY <2>1, <4>1, <4>2
    <3>3. p + k \in Newlines
      <4>1. CASE k = Len(text) - p + 1
        <5>1. p + k = Len(text) + 1
          BY <2>1, <4>1
        <5> QED
          BY <5>1, NewlinesAre
      <4>2. CASE k # Len(text) - p + 1
        <5>1. k \in 1..(Len(text) - p) /\ p + k \in 1..Len(text)
          BY <2>1, <3>2, <4>2
        <5>2. text[p + k] = "nl"
          BY <2>5, <2>10, <3>1, <5>1
        <5> QED
          BY <5>1, <5>2, NewlinesAre
      <4> QED
        BY <4>1, <4>2
    <3>4. ASSUME NEW x \in (p + 1)..(p + k - 1) PROVE text[x] \in {"nl", "cr", "sp"}
      <4>1. PICK l : l = x - p
        OBVIOUS
      <4>2. l \in 1..(k - 1) /\ l \in 1..(Len(text) - p) /\ p + l = x /\ l \in 1..Len(ahead)
        BY <2>1, <2>5, <3>2, <4>1
      <4>3. ahead[l] \in {"cr", "sp"}
        BY <3>2, <4>2
      <4> QED
        BY <2>5, <4>2, <4>3
    <3>5. PICK n : n = p + k
      OBVIOUS
    <3>6. n \in Newlines /\ n > p /\ Blank(p + 1, n - 1)
      BY <2>1, <3>2, <3>3, <3>4, <3>5 DEF Blank
    <3> QED
      BY <3>6
  <2>11. ASSUME NEW n \in Newlines, n > p, Blank(p + 1, n - 1) PROVE ahead[look] = "nl"
    <3> SUFFICES ASSUME ahead[look] # "nl" PROVE FALSE
      OBVIOUS
    <3>1. PICK k : k = look
      OBVIOUS
    <3>2. k \in 1..(Len(text) - p) /\ ahead[k] \notin {"nl", "cr", "sp"}
      BY <2>1, <2>5, <2>7, <3>1
    <3>3. p + k \in 1..Len(text) /\ text[p + k] \notin {"nl", "cr", "sp"}
      BY <2>1, <2>5, <3>2
    <3>4. n \in 0..(Len(text) + 1)
      BY NewlinesAre
    <3>5. ~(n > p + k)
      <4> SUFFICES ASSUME n > p + k PROVE FALSE
        OBVIOUS
      <4>1. p + k \in (p + 1)..(n - 1)
        BY <2>1, <3>2, <3>4
      <4> QED
        BY <2>11, <3>3, <4>1 DEF Blank
    <3>6. n \in 1..Len(text) /\ text[n] = "nl"
      BY <2>1, <2>11, <3>3, <3>4, <3>5, NewlinesAre
    <3>7. n # p + k
      BY <3>3, <3>6
    <3>8. PICK l : l = n - p
      OBVIOUS
    <3>9. l \in 1..(Len(text) - p) /\ p + l = n /\ l < k /\ l \in 1..Len(ahead)
      BY <2>1, <2>5, <2>11, <3>2, <3>4, <3>5, <3>6, <3>7, <3>8
    <3>10. ahead[l] = "nl"
      BY <2>5, <3>6, <3>9
    <3>11. l \in I
      BY <3>9, <3>10
    <3> QED
      BY <2>7, <3>1, <3>2, <3>9, <3>11
  <2> HIDE DEF look
  <2> QED
    BY <2>1, <2>8, <2>9, <2>10, <2>11
<1> QED
  BY <1>1, <1>2

LEMMA FullPart ==
    ASSUME TypeOK, NEW i \in Int, NEW j \in Int, FullLines(i, j), NEW k \in Int, NEW l \in Int,
           i <= k, k <= l, l <= j, k - 1 \in Newlines, l + 1 \in Newlines
    PROVE  FullLines(k, l)
<1>1. ASSUME NEW m \in Newlines, NEW n \in Newlines, k - 1 <= m, m < n, n <= l + 1
      PROVE  ~Blank(m + 1, n - 1)
  <2>1. m \in Int /\ n \in Int
    BY NewlinesAre
  <2>2. i - 1 <= m /\ n <= j + 1
    BY <1>1, <2>1
  <2> QED
    BY <1>1, <2>2 DEF FullLines
<1> QED
  BY <1>1 DEF FullLines

(* A paragraph lies on one side of a gap.                                  *)
LEMMA GapDivides ==
    ASSUME TypeOK, NEW e \in Newlines, Gap(e), NEW x \in Places
    PROVE  x[2] < e \/ x[1] > e
<1>1. /\ x[1] \in 1..Len(text) /\ x[2] \in 1..Len(text) /\ FullLines(x[1], x[2])
      /\ e \in 0..(Len(text) + 1) /\ Len(text) \in Nat
  BY NewlinesAre DEF Places, IsParagraph
<1>2. CASE e = 0 \/ e = Len(text) + 1
  BY <1>1, <1>2
<1>3. ASSUME NEW n \in Newlines, n > e, Blank(e + 1, n - 1), x[1] <= e, e <= x[2] PROVE FALSE
  <2>1. n \in 0..(Len(text) + 1)
    BY NewlinesAre
  <2>2. PICK l : l = x[2] + 1
    OBVIOUS
  <2>3. l \in Newlines /\ l \in Int
    BY <1>1, <2>2 DEF FullLines
  <2>4. CASE n <= l
    <3>1. x[1] - 1 <= e /\ n <= x[2] + 1
      BY <1>1, <1>3, <2>2, <2>4
    <3> QED
      BY <1>1, <1>3, <3>1 DEF FullLines
  <2>5. CASE n > l
    <3>1. x[1] - 1 <= e /\ e < l /\ l <= x[2] + 1
      BY <1>1, <1>3, <2>2, <2>3
    <3>2. ~Blank(e + 1, l - 1)
      BY <1>1, <2>3, <3>1 DEF FullLines
    <3>3. \A y \in (e + 1)..(l - 1) : y \in (e + 1)..(n - 1)
      BY <1>1, <2>1, <2>3, <2>5
    <3> QED
      BY <1>3, <3>2, <3>3, BlankPart
  <2> QED
    BY <2>1, <2>3, <2>4, <2>5
<1> QED
  BY <1>1, <1>2, <1>3 DEF Gap

(* The line in which the paragraph begins.                                 *)
LEMMA FirstLine ==
    ASSUME TypeOK, NEW e \in Newlines, Inside(e)
    PROVE  \E m \in Newlines : /\ e <= m /\ m < para
                               /\ \A n \in Newlines : n <= m \/ n > para
<1>1. /\ Len(text) \in Nat /\ e \in 0..(Len(text) + 1) /\ para \in 1..Len(text) /\ text[para] \notin {"nl", "cr", "sp"}
      /\ Newlines \subseteq 0..(Len(text) + 1)
  <2>1. Len(text) \in Nat /\ Newlines \subseteq 0..(Len(text) + 1)
    BY NewlinesAre
  <2>2. e \in 0..(Len(text) + 1) /\ para \in 1..Len(text)
    BY <2>1 DEF Inside, TypeOK
  <2>3. text[para] \notin {"nl", "cr", "sp"}
    BY <2>2 DEF Inside, Blank
  <2> QED
    BY <2>1, <2>2, <2>3
<1> DEFINE S == {para - n : n \in {m \in Newlines : m < para}}
<1>2. S \in SUBSET Nat /\ S # {}
  <2>1. e < para
    BY DEF Inside
  <2> QED
    BY <1>1, <2>1
<1>3. PICK d \in S : \A c \in S : d <= c
  <2> HIDE DEF S
  <2> QED
    BY <1>2, Least
<1>4. PICK m \in Newlines : m < para /\ d = para - m
  BY <1>3
<1>5. ASSUME NEW n \in Newlines PROVE n <= m \/ n > para
  <2>1. n \in Int /\ m \in Int
    BY <1>1
  <2>2. n # para
    BY <1>1, NewlinesAre
  <2>3. ASSUME n < para PROVE n <= m
    <3>1. d <= para - n
      BY <1>3, <2>3
    <3> QED
      BY <1>1, <1>4, <2>1, <3>1
  <2> QED
    BY <1>1, <2>1, <2>2, <2>3
<1>6. e <= m
  BY <1>1, <1>5 DEF Inside
<1> QED
  BY <1>4, <1>5, <1>6

(* Where a paragraph ends.                                                 *)
LEMMA EndIsGap ==
    ASSUME TypeOK, AtEnd \/ BlankLineFollows
    PROVE  p \in Newlines /\ Gap(p)
<1>1. CASE AtEnd
  <2>1. p = Len(text) + 1
    BY <1>1, NewlinesAre DEF TypeOK, AtEnd
  <2> QED
    BY <2>1, NewlinesAre DEF Gap
<1>2. CASE BlankLineFollows
  BY <1>2, BlankLine DEF Gap
<1> QED
  BY <1>1, <1>2

----------------------------------------------------------------------------
(* A paragraph that ends at p is the only one since the last gap.          *)

(* What ingest_text is in, and where it ends.                              *)
Closes(e, m) ==
    /\ Gap(e) /\ Inside(e) /\ (AtEnd \/ BlankLineFollows)
    /\ e <= m /\ m < para /\ \A n \in Newlines : n <= m \/ n > para

LEMMA ClosesTyped ==
    ASSUME TypeOK, NEW e \in Newlines, NEW m \in Newlines, Closes(e, m)
    PROVE  /\ e \in Nat /\ m \in Nat /\ para \in Nat /\ p \in Nat /\ Len(text) \in Nat
           /\ e <= m /\ m < para /\ para < p /\ p <= Len(text) + 1
           /\ para <= Len(text) /\ text[para] \notin {"nl", "cr", "sp"}
           /\ p \in Newlines /\ \A n \in Newlines : n \in Nat /\ n <= Len(text) + 1
<1>1. /\ e \in Nat /\ m \in Nat /\ Len(text) \in Nat /\ p \in Nat /\ p <= Len(text) + 1 /\ para \in Nat
      /\ \A n \in Newlines : n \in Nat /\ n <= Len(text) + 1
  BY NewlinesAre DEF TypeOK
<1>2. p \in Newlines
  BY EndIsGap DEF Closes
<1>3. para <= p /\ para <= Len(text) /\ m < para /\ e <= m
  BY DEF Closes, Inside
<1>4. text[para] \notin {"nl", "cr", "sp"}
  BY <1>1, <1>3 DEF Closes, Inside, Blank
<1>5. para # p
  BY <1>1, <1>2, <1>3, <1>4, NewlinesAre
<1> QED
  BY <1>1, <1>2, <1>3, <1>4, <1>5

LEMMA ClosedIsFull ==
    ASSUME TypeOK, NEW e \in Newlines, NEW m \in Newlines, Closes(e, m)
    PROVE  FullLines(m + 1, p - 1)
<1>1. /\ e \in Nat /\ m \in Nat /\ para \in Nat /\ p \in Nat /\ Len(text) \in Nat
      /\ e <= m /\ m < para /\ para < p /\ para <= Len(text) /\ text[para] \notin {"nl", "cr", "sp"}
      /\ p \in Newlines /\ \A n \in Newlines : n \in Nat
  BY ClosesTyped
<1>2. ASSUME NEW k \in Newlines, NEW n \in Newlines, m <= k, k < n, n <= p
      PROVE  ~Blank(k + 1, n - 1)
  <2>1. k \in Nat /\ n \in Nat /\ (k <= m \/ k > para) /\ (n <= m \/ n > para)
    BY <1>1 DEF Closes
  <2>2. CASE k = m
    <3>1. para \in (k + 1)..(n - 1)
      BY <1>1, <1>2, <2>1, <2>2
    <3> QED
      BY <1>1, <3>1 DEF Blank
  <2>3. CASE k # m
    <3>1. para <= k /\ k < p
      BY <1>1, <1>2, <2>1, <2>3
    <3> QED
      BY <1>2, <3>1 DEF Closes, Inside
  <2> QED
    BY <2>2, <2>3
<1>3. (m + 1) - 1 = m /\ (p - 1) + 1 = p /\ m + 1 <= p - 1
  BY <1>1
<1> QED
  BY <1>1, <1>2, <1>3 DEF FullLines

(* No more lines before it ...                                             *)
LEMMA ClosedFromHere ==
    ASSUME TypeOK, NEW e \in Newlines, NEW m \in Newlines, Closes(e, m), NEW k \in Newlines, k < m,
           NEW j \in Int, j + 1 \in Newlines, e <= k \/ j + 1 >= m, k <= j
    PROVE  ~FullLines(k + 1, j)
<1>1. /\ e \in Nat /\ m \in Nat /\ para \in Nat /\ p \in Nat /\ Len(text) \in Nat /\ k \in Nat
      /\ e <= m /\ m < para /\ para < p /\ para <= Len(text) /\ text[para] \notin {"nl", "cr", "sp"}
      /\ \A n \in Newlines : n \in Nat /\ n <= Len(text) + 1
  BY ClosesTyped
<1> SUFFICES ASSUME FullLines(k + 1, j) PROVE FALSE
  OBVIOUS
<1>2. \A a, b \in Newlines : k <= a /\ a < b /\ b <= j + 1 => ~Blank(a + 1, b - 1)
  <2>1. (k + 1) - 1 = k
    BY <1>1
  <2> QED
    BY <2>1 DEF FullLines
<1>3. Blank(e + 1, para - 1)
  BY DEF Closes, Inside
<1>4. ASSUME NEW a \in Newlines, NEW b \in Newlines, e <= a, a < b, b <= m PROVE Blank(a + 1, b - 1)
  <2>1. \A x \in (a + 1)..(b - 1) : x \in (e + 1)..(para - 1)
    BY <1>1, <1>4
  <2> QED
    BY <1>3, <2>1, BlankPart
<1>5. PICK l \in Newlines : l = j + 1 /\ l \in Nat
  BY <1>1
<1>6. CASE e <= k /\ m <= l
  BY <1>2, <1>4, <1>5, <1>6
<1>7. CASE e <= k /\ l < m
  <2>1. Blank(k + 1, l - 1)
    BY <1>1, <1>4, <1>5, <1>7
  <2> QED
    BY <1>1, <1>2, <1>5, <2>1
<1>8. CASE k < e /\ m <= l
  <2>1. CASE e < m
    BY <1>1, <1>2, <1>4, <1>5, <1>8, <2>1
  <2>2. CASE e = m
    <3>1. PICK n \in Newlines : n > e /\ Blank(e + 1, n - 1)
      BY <1>1, <1>8 DEF Closes, Gap
    <3>2. n <= para
      <4> SUFFICES ASSUME n > para PROVE FALSE
        BY <1>1
      <4>1. para \in (e + 1)..(n - 1)
        BY <1>1, <2>2
      <4> QED
        BY <1>1, <3>1, <4>1 DEF Blank
    <3> QED
      BY <1>1, <2>2, <3>1, <3>2 DEF Closes
  <2> QED
    BY <1>1, <2>1, <2>2
<1> QED
  BY <1>1, <1>5, <1>6, <1>7, <1>8

(* ... and none behind it.                                                 *)
LEMMA ClosedToThere ==
    ASSUME TypeOK, NEW e \in Newlines, NEW m \in Newlines, Closes(e, m), NEW n \in Newlines, n > p
    PROVE  ~FullLines(m + 1, n - 1)
<1>1. /\ m \in Nat /\ p \in Nat /\ Len(text) \in Nat /\ n \in Nat /\ n <= Len(text) + 1
      /\ m < p /\ p \in Newlines /\ \A k \in Newlines : k \in Nat
  BY ClosesTyped
<1> SUFFICES ASSUME FullLines(m + 1, n - 1) PROVE FALSE
  OBVIOUS
<1>2. \A a, b \in Newlines : m <= a /\ a < b /\ b <= n => ~Blank(a + 1, b - 1)
  <2>1. (m + 1) - 1 = m /\ (n - 1) + 1 = n
    BY <1>1
  <2> QED
    BY <2>1 DEF FullLines
<1>3. BlankLineFollows
  BY <1>1 DEF Closes, AtEnd
<1>4. PICK b \in Newlines : b > p /\ Blank(p + 1, b - 1)
  BY <1>3, BlankLine
<1>5. CASE b <= n
  BY <1>1, <1>2, <1>4, <1>5
<1>6. CASE b > n
  <2>1. \A x \in (p + 1)..(n - 1) : x \in (p + 1)..(b - 1)
    BY <1>1, <1>4, <1>6
  <2>2. Blank(p + 1, n - 1)
    BY <1>4, <2>1, BlankPart
  <2> QED
    BY <1>1, <1>2, <2>2
<1> QED
  BY <1>1, <1>4, <1>5, <1>6

LEMMA ClosedIsParagraph ==
    ASSUME TypeOK, NEW e \in Newlines, NEW m \in Newlines, Closes(e, m)
    PROVE  <<m + 1, p - 1>> \in Places
<1>1. /\ e \in Nat /\ m \in Nat /\ para \in Nat /\ p \in Nat /\ Len(text) \in Nat
      /\ e <= m /\ m < para /\ para < p /\ p <= Len(text) + 1 /\ p \in Newlines /\ \A n \in Newlines : n \in Nat
  BY ClosesTyped
<1>2. FullLines(m + 1, p - 1)
  BY ClosedIsFull
<1>3. ASSUME NEW k \in Newlines, k < m PROVE ~FullLines(k + 1, p - 1)
  <2>1. PICK j \in Int : j = p - 1
    BY <1>1
  <2>2. j + 1 \in Newlines /\ j + 1 >= m /\ k <= j
    <3>1. j + 1 = p /\ k \in Nat
      BY <1>1, <2>1
    <3> QED
      BY <1>1, <1>3, <3>1
  <2> QED
    BY <1>3, <2>1, <2>2, ClosedFromHere
<1>4. ASSUME NEW n \in Newlines, n > p PROVE ~FullLines(m + 1, n - 1)
  BY <1>4, ClosedToThere
<1>5. PICK i, j : i = m + 1 /\ j = p - 1
  OBVIOUS
<1>6. i - 1 = m /\ j + 1 = p /\ i \in 1..Len(text) /\ j \in 1..Len(text)
  BY <1>1, <1>5
<1>7. IsParagraph(i, j)
  BY <1>2, <1>3, <1>4, <1>5, <1>6 DEF IsParagraph
<1> QED
  BY <1>5, <1>6, <1>7 DEF Places

(* There is no other between the gaps e and p.                             *)
LEMMA ClosedIsOnly ==
    ASSUME TypeOK, NEW e \in Newlines, NEW m \in Newlines, Closes(e, m), NEW x \in Places, x[2] < p, ~(x[2] < e)
    PROVE  x = <<m + 1, p - 1>>
<1>1. /\ e \in Nat /\ m \in Nat /\ para \in Nat /\ p \in Nat /\ Len(text) \in Nat
      /\ e <= m /\ m < para /\ para < p /\ p <= Len(text) + 1 /\ p \in Newlines /\ \A n \in Newlines : n \in Nat
  BY ClosesTyped
<1>2. PICK a \in 1..Len(text), c \in 1..Len(text) : x = <<a, c>> /\ IsParagraph(a, c)
  BY DEF Places
<1>3. PICK k, l : k = a - 1 /\ l = c + 1
  OBVIOUS
<1>4. /\ k \in Newlines /\ l \in Newlines /\ k \in Nat /\ l \in Nat /\ a = k + 1 /\ c = l - 1
      /\ l <= p /\ k < l - 1 + 1 /\ FullLines(a, c)
  BY <1>1, <1>2, <1>3 DEF IsParagraph, FullLines
<1>5. e <= k
  <2>1. x[2] < e \/ x[1] > e
    BY GapDivides DEF Closes
  <2> QED
    BY <1>1, <1>2, <1>4, <2>1
<1>6. ~(k < m)
  <2> SUFFICES ASSUME k < m PROVE FALSE
    OBVIOUS
  <2>1. c \in Int /\ c + 1 \in Newlines /\ k <= c
    BY <1>1, <1>2, <1>3, <1>4
  <2>2. ~FullLines(k + 1, c)
    BY <1>4, <1>5, <2>1, ClosedFromHere
  <2> QED
    BY <1>4, <2>2
<1>7. FullLines(m + 1, p - 1)
  BY ClosedIsFull
<1>8. ~(m < k)
  <2> SUFFICES ASSUME m < k PROVE FALSE
    OBVIOUS
  <2>1. ~FullLines(m + 1, c)
    BY <1>2, <1>3 DEF IsParagraph
  <2>2. PICK i \in Int, j \in Int : i = m + 1 /\ j = p - 1
    BY <1>1
  <2>3. i - 1 \in Newlines /\ c + 1 \in Newlines /\ i <= c /\ c <= j /\ c \in Int
    <3>1. i - 1 = m /\ c + 1 = l
      BY <1>1, <1>3, <2>2
    <3> QED
      BY <1>1, <1>2, <1>4, <2>2, <3>1
  <2>4. FullLines(i, c)
    BY <1>7, <2>2, <2>3, FullPart
  <2> QED
    BY <2>1, <2>2, <2>4
<1>9. k = m
  BY <1>1, <1>4, <1>6, <1>8
<1>10. ~(l < p)
  <2> SUFFICES ASSUME l < p PROVE FALSE
    OBVIOUS
  <2>1. p > c + 1
    BY <1>3
  <2>2. ~FullLines(a, p - 1)
    BY <1>1, <1>2, <2>1 DEF IsParagraph
  <2> QED
    BY <1>4, <1>7, <1>9, <2>2
<1> QED
  BY <1>1, <1>2, <1>4, <1>9, <1>10

(* There are finitely many paragraphs.                                     *)
LEMMA PlacesFinite ==
    ASSUME TypeOK, NEW e
    PROVE  IsFiniteSet(Before(e))
<1>1. Len(text) \in Nat
  BY NewlinesAre
<1>2. IsFiniteSet(1..Len(text))
  BY <1>1, FS_Interval
<1>3. IsFiniteSet((1..Len(text)) \X (1..Len(text)))
  BY <1>2, FS_Product
<1> QED
  BY <1>3, FS_Subset DEF Before, Places

(* The paragraph that ends here, as it is stored.                          *)
LEMMA ClosedText ==
    ASSUME TypeOK, NEW e \in Newlines, NEW m \in Newlines, Closes(e, m)
    PROVE  Paragraph(<<m + 1, p - 1>>) = Fold(SubSeq(text, para, p - 1))
<1>1. /\ e \in Nat /\ m \in Nat /\ para \in Nat /\ p \in Nat /\ Len(text) \in Nat
      /\ e <= m /\ m < para /\ para < p /\ p <= Len(text) + 1
  BY ClosesTyped
<1>2. Blank(e + 1, para - 1) /\ ~Blank(para, para)
  BY DEF Closes, Inside
<1>3. PICK i, j : i = m + 1 /\ j = p - 1
  OBVIOUS
<1>4. i \in Nat /\ j \in Nat /\ para \in i..j /\ e + 1 <= i
  BY <1>1, <1>3
<1>5. Blank(i, para - 1)
  <2>1. \A x \in i..(para - 1) : x \in (e + 1)..(para - 1)
    BY <1>1, <1>4
  <2> QED
    BY <1>2, <2>1, BlankPart
<1>6. ASSUME NEW k \in i..j, ~Blank(k, k), Blank(i, k - 1) PROVE k = para
  <2>1. ~(para < k)
    <3> SUFFICES ASSUME para < k PROVE FALSE
      OBVIOUS
    <3>1. \A x \in para..para : x \in i..(k - 1)
      BY <1>1, <1>4
    <3> QED
      BY <1>2, <1>6, <3>1, BlankPart
  <2>2. ~(k < para)
    <3> SUFFICES ASSUME k < para PROVE FALSE
      OBVIOUS
    <3>1. \A x \in k..k : x \in i..(para - 1)
      BY <1>1, <1>4
    <3> QED
      BY <1>5, <1>6, <3>1, BlankPart
  <2> QED
    BY <1>1, <1>4, <2>1, <2>2
<1>7. (CHOOSE k \in i..j : ~Blank(k, k) /\ Blank(i, k - 1)) = para
  BY <1>2, <1>4, <1>5, <1>6
<1> QED
  BY <1>3, <1>7 DEF Paragraph

(* One more, behind the others.                                            *)
LEMMA InOrderNext ==
    ASSUME NEW L, NEW S, L \in Seq(S), NEW s \in S, NEW E, IsFiniteSet(E), InOrder(L, E),
           NEW z, z \notin E, Paragraph(z) = s, z[1] \in Nat,
           \A x \in E : x[1] \in Nat /\ x[1] < z[1]
    PROVE  InOrder(Append(L, s), E \cup {z})
<1> DEFINE F == E \cup {z}
           M == Append(L, s)
           UpTo(X, x) == {y \in X : y[1] <= x[1]}
<1>1. IsFiniteSet(F) /\ Cardinality(F) = Cardinality(E) + 1 /\ Cardinality(E) \in Nat
  BY FS_AddElement, FS_CardinalityType
<1>2. /\ Len(L) = Cardinality(E) /\ Len(M) = Cardinality(F)
      /\ M[Cardinality(F)] = s /\ \A k \in 1..Cardinality(E) : M[k] = L[k]
  <2>1. Len(L) = Cardinality(E)
    BY DEF InOrder
  <2>2. Len(M) = Len(L) + 1 /\ M[Len(L) + 1] = s /\ \A k \in 1..Len(L) : M[k] = L[k]
    BY AppendProperties
  <2> QED
    BY <1>1, <2>1, <2>2
<1>3. ASSUME NEW x \in E PROVE M[Cardinality(UpTo(F, x))] = Paragraph(x)
  <2>1. UpTo(F, x) = UpTo(E, x)
    <3>1. ~(z[1] <= x[1])
      OBVIOUS
    <3> QED
      BY <3>1
  <2>2. x \in UpTo(E, x) /\ UpTo(E, x) \subseteq E
    OBVIOUS
  <2>3. PICK U : U = UpTo(E, x)
    OBVIOUS
  <2>4. IsFiniteSet(U) /\ Cardinality(U) <= Cardinality(E) /\ Cardinality(U) \in Nat /\ Cardinality(U) # 0
    BY <2>2, <2>3, FS_Subset, FS_CardinalityType, FS_EmptySet
  <2>5. Cardinality(U) \in 1..Cardinality(E)
    BY <1>1, <2>4
  <2>6. L[Cardinality(U)] = Paragraph(x)
    BY <2>3 DEF InOrder
  <2> QED
    BY <1>2, <2>1, <2>3, <2>5, <2>6
<1>4. M[Cardinality(UpTo(F, z))] = Paragraph(z)
  <2>1. UpTo(F, z) = F
    <3>1. \A y \in F : y[1] <= z[1]
      OBVIOUS
    <3> QED
      BY <3>1
  <2> QED
    BY <1>2, <2>1
<1>5. \A x \in F : M[Cardinality(UpTo(F, x))] = Paragraph(x)
  BY <1>3, <1>4
<1> QED
  BY <1>2, <1>5 DEF InOrder

LEMMA ParagraphStored ==
    ASSUME TypeOK, NEW e \in Newlines, Gap(e), Inside(e), AtEnd \/ BlankLineFollows, InOrder(payloads, Before(e)),
           NEW s, s = Fold(SubSeq(text, para, p - 1)), s \in Seq(Chars)
    PROVE  InOrder(Append(payloads, s), Before(p))
<1>1. PICK m \in Newlines : Closes(e, m)
  BY FirstLine DEF Closes
<1>2. /\ e \in Nat /\ m \in Nat /\ para \in Nat /\ p \in Nat /\ Len(text) \in Nat
      /\ e <= m /\ m < para /\ para < p /\ p <= Len(text) + 1
  BY <1>1, ClosesTyped
<1>3. PICK z : z = <<m + 1, p - 1>>
  OBVIOUS
<1>4. z \in Places /\ Paragraph(z) = s
  BY <1>1, <1>3, ClosedIsParagraph, ClosedText
<1>5. z[1] = m + 1 /\ z[2] = p - 1 /\ z[2] < p /\ ~(z[2] < e) /\ z[1] \in Nat
  BY <1>2, <1>3
<1>6. \A x \in Places : x[2] < p /\ ~(x[2] < e) => x = z
  BY <1>1, <1>3, ClosedIsOnly
<1>7. \A x \in Places : x[1] \in Nat /\ x[2] \in Nat /\ x[1] <= x[2]
  BY <1>2 DEF Places, IsParagraph, FullLines
<1>8. Before(p) = Before(e) \cup {z} /\ z \notin Before(e)
  BY <1>2, <1>4, <1>5, <1>6, <1>7 DEF Before
<1>9. \A x \in Before(e) : x[1] \in Nat /\ x[1] < z[1]
  BY <1>2, <1>5, <1>7 DEF Before
<1>10. IsFiniteSet(Before(e)) /\ payloads \in Seq(Seq(Chars))
  BY PlacesFinite DEF TypeOK
<1>11. InOrder(Append(payloads, s), Before(e) \cup {z})
  BY <1>4, <1>5, <1>8, <1>9, <1>10, InOrderNext
<1> QED
  BY <1>8, <1>11

----------------------------------------------------------------------------
(* The steps of ingest_text.                                               *)

(* What the text alone decides does not change.                            *)
LEMMA SameText ==
    ASSUME text' = text
    PROVE  /\ Newlines' = Newlines /\ Places' = Places
           /\ \A e : Before(e)' = Before(e) /\ (Gap(e) => Gap(e)')
           /\ \A L, E : InOrder(L, E) => InOrder(L, E)'
           /\ \A i, j : Blank(i, j)' <=> Blank(i, j)
<1>1. Newlines' = Newlines
  BY DEF Newlines
<1>2. \A i, j : Blank(i, j)' <=> Blank(i, j)
  BY DEF Blank
<1>3. \A i, j : FullLines(i, j)' <=> FullLines(i, j)
  BY <1>1, <1>2 DEF FullLines
<1>4. \A i, j : IsParagraph(i, j)' <=> IsParagraph(i, j)
  BY <1>1, <1>3 DEF IsParagraph
<1>5. Places' = Places
  BY <1>4 DEF Places
<1>6. \A e : Before(e)' = Before(e)
  BY <1>5 DEF Before
<1>7. \A e : Gap(e) => Gap(e)'
  BY <1>1, <1>2 DEF Gap
<1>8. ASSUME NEW x PROVE Paragraph(x)' = Paragraph(x)
  <2>1. (CHOOSE i \in x[1]..x[2] : ~Blank(i, i)' /\ Blank(x[1], i - 1)')
            = (CHOOSE i \in x[1]..x[2] : ~Blank(i, i) /\ Blank(x[1], i - 1))
    BY DEF Blank
  <2> QED
    BY <2>1 DEF Paragraph
<1>9. \A L, E : InOrder(L, E) => InOrder(L, E)'
  BY <1>8 DEF InOrder
<1> QED
  BY <1>1, <1>2, <1>5, <1>6, <1>7, <1>9

(* A payload is a text.                                                    *)
LEMMA Stored ==
    ASSUME TypeOK, NEW e \in Newlines, Inside(e), NEW s, s = Fold(SubSeq(text, para, p - 1))
    PROVE  s \in Seq(Chars)
<1>1. e \in Nat /\ Len(text) \in Nat
  BY NewlinesAre
<1>2. text \in Seq(Chars) /\ para \in 1..(Len(text) + 1) /\ p - 1 \in (para - 1)..Len(text)
  BY <1>1 DEF TypeOK, Inside
<1>3. PICK c : c = SubSeq(text, para, p - 1)
  OBVIOUS
<1>4. c \in Seq(Chars)
  BY <1>1, <1>2, <1>3, SubSeqProperties
<1>5. s = [i \in DOMAIN c |-> IF c[i] \in {"nl", "cr"} THEN "sp" ELSE c[i]]
  BY <1>3 DEF Fold
<1>6. PICK n \in Nat : DOMAIN c = 1..n /\ \A i \in 1..n : c[i] \in Chars
  BY <1>4, LenProperties, ElementOfSeq
<1>7. s \in [1..n -> Chars]
  BY <1>5, <1>6 DEF Chars
<1> QED
  BY <1>6, <1>7, SeqDef

PInv == TypeOK /\ Divided /\ (pc = "done" => p = Len(text) + 1)

LEMMA ParagraphsFirst ==
    ASSUME Init
    PROVE  PInv
<1>1. text \in Seq(Chars) /\ p = 1 /\ para = 1 /\ pc = "between" /\ payloads = <<>>
  <2>1. \A n \in Nat : [1..n -> Chars] \subseteq Seq(Chars)
    BY SeqDef
  <2>2. 0..MaxText \subseteq Nat
    BY IngestAssumption
  <2> QED
    BY <2>1, <2>2 DEF Init
<1>2. TypeOK
  <2>1. Len(text) \in Nat
    BY <1>1, LenProperties
  <2> QED
    BY <1>1, <2>1, EmptySeq DEF TypeOK
<1>3. 0 \in Newlines /\ Len(text) \in Nat
  BY <1>2, NewlinesAre
<1>4. Before(0) = {}
  BY <1>3 DEF Before, Places
<1>5. InOrder(payloads, Before(0))
  BY <1>1, <1>4, FS_EmptySet, EmptySeq DEF InOrder
<1>6. Gap(0) /\ Between(0)
  BY <1>1 DEF Gap, Between, Blank
<1> QED
  BY <1>1, <1>2, <1>3, <1>5, <1>6 DEF PInv, Divided

LEMMA SkipBlankDivided ==
    ASSUME PInv, SkipBlank
    PROVE  PInv'
<1>1. /\ pc = "between" /\ ~AtEnd /\ text[p] \in {"nl", "cr", "sp"} /\ p' = p + 1
      /\ UNCHANGED <<text, para, pc, payloads, counts, df>>
  BY DEF SkipBlank
<1>2. TypeOK /\ Len(text) \in Nat
  BY NewlinesAre DEF PInv
<1>3. p \in 1..Len(text)
  BY <1>1, <1>2 DEF AtEnd, TypeOK
<1>4. TypeOK'
  BY <1>1, <1>2, <1>3 DEF TypeOK
<1>5. PICK e \in Newlines : Gap(e) /\ InOrder(payloads, Before(e)) /\ Between(e)
  BY <1>1 DEF PInv, Divided
<1>6. e \in Nat
  BY <1>2, NewlinesAre
<1>7. Between(e)'
  <2>1. e <= p + 1
    BY <1>3, <1>5, <1>6 DEF Between
  <2>2. \A x \in (e + 1)..p : x \in (e + 1)..(p - 1) \/ x = p
    BY <1>3, <1>6
  <2>3. Blank(e + 1, p)
    BY <1>1, <1>5, <2>2 DEF Between, Blank
  <2>4. p' - 1 = p
    BY <1>1, <1>3
  <2>5. Blank(e + 1, p' - 1)
    BY <2>3, <2>4
  <2> QED
    BY <1>1, <2>1, <2>5, SameText DEF Between
<1> QED
  BY <1>1, <1>4, <1>5, <1>7, SameText DEF PInv, Divided

LEMMA BeginDivided ==
    ASSUME PInv, BeginParagraph
    PROVE  PInv'
<1>1. /\ pc = "between" /\ ~AtEnd /\ text[p] \notin {"nl", "cr", "sp"} /\ para' = p /\ pc' = "paragraph"
      /\ UNCHANGED <<text, p, payloads, counts, df>>
  BY DEF BeginParagraph
<1>2. TypeOK /\ Len(text) \in Nat
  BY NewlinesAre DEF PInv
<1>3. p \in 1..Len(text)
  BY <1>1, <1>2 DEF AtEnd, TypeOK
<1>4. TypeOK'
  BY <1>1, <1>2, <1>3 DEF TypeOK
<1>5. PICK e \in Newlines : Gap(e) /\ InOrder(payloads, Before(e)) /\ Between(e)
  BY <1>1 DEF PInv, Divided
<1>6. e \in Nat /\ e # p /\ \A n \in Newlines : n \in Nat
  BY <1>1, <1>2, <1>3, NewlinesAre
<1>7. Inside(e)'
  <2>1. e < p
    BY <1>3, <1>5, <1>6 DEF Between
  <2>2. ~Blank(p, p)
    BY <1>1, <1>3 DEF Blank
  <2>3. Blank(e + 1, p - 1)
    BY <1>5 DEF Between
  <2>4. ~ \E m \in Newlines : p <= m /\ m < p
    BY <1>3, <1>6
  <2>5. Newlines' = Newlines
    BY <1>1, SameText
  <2> QED
    BY <1>1, <1>3, <2>1, <2>2, <2>3, <2>4, <2>5, SameText DEF Inside
<1> QED
  BY <1>1, <1>4, <1>5, <1>7, SameText DEF PInv, Divided

LEMMA AdvanceDivided ==
    ASSUME PInv, Advance
    PROVE  PInv'
<1>1. /\ pc = "paragraph" /\ ~AtEnd /\ ~BlankLineFollows /\ p' = p + 1
      /\ UNCHANGED <<text, para, pc, payloads, counts, df>>
  BY DEF Advance
<1>2. TypeOK /\ Len(text) \in Nat
  BY NewlinesAre DEF PInv
<1>3. p \in 1..Len(text)
  BY <1>1, <1>2 DEF AtEnd, TypeOK
<1>4. TypeOK'
  BY <1>1, <1>2, <1>3 DEF TypeOK
<1>5. PICK e \in Newlines : Gap(e) /\ InOrder(payloads, Before(e)) /\ Inside(e)
  BY <1>1 DEF PInv, Divided
<1>6. \A n \in Newlines : n \in Nat
  BY <1>2, NewlinesAre
<1>7. ASSUME NEW m \in Newlines, NEW n \in Newlines, para <= m, m < p + 1, m < n PROVE ~Blank(m + 1, n - 1)
  <2>1. CASE m < p
    BY <1>5, <1>7, <2>1 DEF Inside
  <2>2. CASE m = p
    BY <1>1, <1>2, <1>3, <1>7, <2>2, BlankLine
  <2> QED
    BY <1>3, <1>6, <1>7, <2>1, <2>2
<1>8. Inside(e)'
  <2>1. para <= p + 1
    BY <1>2, <1>3, <1>5 DEF Inside, TypeOK
  <2>2. Newlines' = Newlines
    BY <1>1, SameText
  <2>3. e < para /\ para <= Len(text) /\ Blank(e + 1, para - 1) /\ ~Blank(para, para)
    BY <1>5 DEF Inside
  <2> QED
    BY <1>1, <1>7, <2>1, <2>2, <2>3, SameText DEF Inside
<1> QED
  BY <1>1, <1>4, <1>5, <1>8, SameText DEF PInv, Divided

LEMMA EndDivided ==
    ASSUME PInv, EndParagraph
    PROVE  PInv'
<1>1. PICK s : s = Fold(SubSeq(text, para, p - 1))
  OBVIOUS
<1>2. /\ pc = "paragraph" /\ (AtEnd \/ BlankLineFollows)
      /\ payloads' = Append(payloads, s)
      /\ p' = IF AtEnd THEN p ELSE p + 1
      /\ pc' = "between" /\ UNCHANGED <<text, para, df>>
  BY <1>1 DEF EndParagraph
<1>3. TypeOK /\ Len(text) \in Nat
  BY NewlinesAre DEF PInv
<1>4. PICK e \in Newlines : Gap(e) /\ InOrder(payloads, Before(e)) /\ Inside(e)
  BY <1>2 DEF PInv, Divided
<1>5. s \in Seq(Chars)
  BY <1>1, <1>3, <1>4, Stored
<1>6. InOrder(payloads', Before(p))
  BY <1>1, <1>2, <1>3, <1>4, <1>5, ParagraphStored
<1>7. p \in Newlines /\ Gap(p)
  BY <1>2, <1>3, EndIsGap
<1>8. p \in Nat /\ p' \in 1..(Len(text) + 1) /\ p <= p' /\ p' - 1 <= p
  BY <1>2, <1>3 DEF TypeOK, AtEnd
<1>9. TypeOK'
  <2>1. payloads' \in Seq(Seq(Chars))
    BY <1>2, <1>3, <1>5, AppendProperties DEF TypeOK
  <2> QED
    BY <1>2, <1>3, <1>8, <2>1 DEF TypeOK
<1>10. PICK h : h = p
  OBVIOUS
<1>11. h \in Newlines /\ Gap(h) /\ InOrder(payloads', Before(h)) /\ h <= p' /\ \A x \in (h + 1)..(p' - 1) : FALSE
  <2>1. h <= p' /\ \A x \in (h + 1)..(p' - 1) : FALSE
    <3>1. PICK q \in Nat : q = p'
      BY <1>3, <1>8
    <3>2. h \in Nat /\ h <= q /\ q - 1 <= h
      BY <1>8, <1>10, <3>1
    <3>3. \A x \in (h + 1)..(q - 1) : FALSE
      BY <3>2
    <3> QED
      BY <3>1, <3>2, <3>3
  <2> QED
    BY <1>6, <1>7, <1>10, <2>1
<1>12. Between(h)'
  BY <1>2, <1>11 DEF Between, Blank
<1>13. InOrder(payloads, Before(h))'
  <2>1. PICK L, E : L = payloads' /\ E = Before(h)
    OBVIOUS
  <2>2. InOrder(L, E)' /\ E = Before(h)'
    BY <1>2, <1>11, <2>1, SameText
  <2> QED
    BY <2>1, <2>2 DEF InOrder
<1>14. h \in Newlines' /\ Gap(h)'
  BY <1>2, <1>11, SameText
<1> QED
  BY <1>2, <1>9, <1>12, <1>13, <1>14 DEF PInv, Divided

LEMMA IndexDivided ==
    ASSUME PInv, BuildIndex \/ UNCHANGED vars
    PROVE  PInv'
<1>1. UNCHANGED <<text, p, para, payloads>> /\ (UNCHANGED pc \/ (pc = "between" /\ AtEnd /\ pc' = "done"))
  BY DEF BuildIndex, vars
<1>2. TypeOK /\ Len(text) \in Nat
  BY NewlinesAre DEF PInv
<1>3. TypeOK'
  BY <1>1, <1>2 DEF TypeOK
<1>4. PICK e \in Newlines : /\ Gap(e) /\ InOrder(payloads, Before(e))
                            /\ pc # "paragraph" => Between(e)
                            /\ pc = "paragraph" => Inside(e)
  BY DEF PInv, Divided
<1>5. (pc # "paragraph" => Between(e))'
  BY <1>1, <1>4 DEF Between, Blank
<1>6. (pc = "paragraph" => Inside(e))'
  BY <1>1, <1>4, SameText DEF Inside
<1>7. (pc = "done" => p = Len(text) + 1)'
  BY <1>1, <1>2 DEF PInv, AtEnd, TypeOK
<1>8. e \in Newlines' /\ Gap(e)' /\ InOrder(payloads, Before(e))'
  <2>1. PICK L, E : L = payloads /\ E = Before(e)
    OBVIOUS
  <2>2. InOrder(L, E)' /\ E = Before(e)' /\ L = payloads'
    BY <1>1, <1>4, <2>1, SameText
  <2> QED
    BY <1>1, <1>4, <2>1, <2>2, SameText DEF InOrder
<1> QED
  BY <1>3, <1>5, <1>6, <1>7, <1>8 DEF PInv, Divided

(* At the end nothing is left.                                             *)
LEMMA NoneLeft ==
    ASSUME TypeOK, NEW e \in Newlines, Gap(e), Between(e), p = Len(text) + 1
    PROVE  Before(e) = Places
<1>1. Len(text) \in Nat /\ e \in Nat
  BY NewlinesAre
<1>2. ASSUME NEW x \in Places PROVE x[2] < e
  <2>1. PICK a \in 1..Len(text), c \in 1..Len(text) : x = <<a, c>> /\ FullLines(a, c)
    BY DEF Places, IsParagraph
  <2>2. ASSUME a > e PROVE FALSE
    <3>1. \A y \in a..c : y \in (e + 1)..(p - 1)
      BY <1>1, <2>1, <2>2
    <3>2. Blank(a, c)
      BY <3>1, BlankPart DEF Between
    <3>3. PICK m \in Newlines, n \in Newlines : m = a - 1 /\ n = c + 1
      BY <2>1 DEF FullLines
    <3>4. m < n /\ m + 1 = a /\ n - 1 = c /\ a - 1 <= m /\ n <= c + 1
      BY <1>1, <2>1, <3>3 DEF FullLines
    <3>5. ~Blank(m + 1, n - 1)
      BY <2>1, <3>4 DEF FullLines
    <3> QED
      BY <3>2, <3>4, <3>5
  <2> QED
    BY <2>1, <2>2, GapDivides
<1> QED
  BY <1>2 DEF Before

(* A step of ingest_text.                                                  *)
LEMMA PInvStep ==
    ASSUME PInv, [Next]_vars
    PROVE  PInv'
<1>1. CASE SkipBlank
  BY <1>1, SkipBlankDivided
<1>2. CASE BeginParagraph
  BY <1>2, BeginDivided
<1>3. CASE Advance
  BY <1>3, AdvanceDivided
<1>4. CASE EndParagraph
  BY <1>4, EndDivided
<1>5. CASE BuildIndex \/ UNCHANGED vars
  BY <1>5, IndexDivided
<1> QED
  BY <1>1, <1>2, <1>3, <1>4, <1>5 DEF Next, Done

(* ingest_text stores the paragraphs of any text, each once, in order.     *)
THEOREM TextIsDivided == Spec => []ParagraphsExact
<1>1. Init => PInv
  BY ParagraphsFirst
<1>2. PInv /\ [Next]_vars => PInv'
  BY PInvStep
<1>3. PInv => ParagraphsExact
  <2> SUFFICES ASSUME PInv, pc = "done" PROVE InOrder(payloads, Places)
    BY DEF ParagraphsExact
  <2>1. PICK e \in Newlines : Gap(e) /\ InOrder(payloads, Before(e)) /\ Between(e)
    BY DEF PInv, Divided
  <2>2. Before(e) = Places
    BY <2>1, NoneLeft DEF PInv
  <2> QED
    BY <2>1, <2>2
<1> QED
  BY <1>1, <1>2, <1>3, PTL DEF Spec

----------------------------------------------------------------------------
(* The words of a paragraph.                                               *)

(* What has been read of s when the character at i has: the words that end *)
(* before i are counted, and the token is what follows the last of them.   *)
EndedIn(s, i, b, g) == {x \in WordsOf(s) : x[2] < i /\ Hash[Cut(s, x)] = [bucket |-> b, sign |-> g]}

Counted(s, i, vec) ==
    /\ vec \in [Buckets -> Int]
    /\ \A b \in Buckets : vec[b] = Cardinality(EndedIn(s, i, b, 1)) - Cardinality(EndedIn(s, i, b, -1))

Opens(s, i, j) ==
    /\ j \in 1..(i + 1) /\ \A x \in j..i : s[x] \in Letters
    /\ j = 1 \/ s[j - 1] \notin Letters

Open(s, i, tok) == \E j \in 1..(i + 1) : Opens(s, i, j) /\ tok = Cut(s, <<j, i>>)

(* How long the token of a run of letters is.                              *)
LEMMA CutIs ==
    ASSUME NEW s, NEW i \in Nat, NEW j \in 1..(i + 1),
           NEW n, n = i - j + 1, NEW l, l = (IF n < TokenMax THEN n ELSE TokenMax - 1)
    PROVE  /\ n \in Nat /\ l \in Nat /\ l <= TokenMax - 1
           /\ Cut(s, <<j, i>>) = [k \in 1..l |-> Lower[s[j + k - 1]]]
BY IngestAssumption DEF Cut

(* A letter makes the token longer, or is dropped.                         *)
LEMMA TokenRead ==
    ASSUME NEW s, NEW i \in Nat, NEW tok, Open(s, i, tok), s[i + 1] \in Letters
    PROVE  Open(s, i + 1, AppendChar(tok, s[i + 1]))
<1>1. PICK j \in 1..(i + 1) : Opens(s, i, j) /\ tok = Cut(s, <<j, i>>)
  BY DEF Open
<1>2. PICK i2 \in Nat : i2 = i + 1
  OBVIOUS
<1>3. j \in 1..(i2 + 1) /\ TokenMax \in Nat /\ TokenMax > 1
  BY <1>2, IngestAssumption
<1>4. Opens(s, i2, j)
  <2>1. \A x \in j..i2 : x \in j..i \/ x = i2
    BY <1>2
  <2> QED
    BY <1>1, <1>2, <1>3, <2>1 DEF Opens
<1>5. PICK n : n = i - j + 1
  OBVIOUS
<1>6. PICK l : l = IF n < TokenMax THEN n ELSE TokenMax - 1
  OBVIOUS
<1>7. PICK n2 : n2 = i2 - j + 1
  OBVIOUS
<1>8. PICK l2 : l2 = IF n2 < TokenMax THEN n2 ELSE TokenMax - 1
  OBVIOUS
<1>9. n \in Nat /\ l \in Nat /\ l <= TokenMax - 1 /\ tok = [k \in 1..l |-> Lower[s[j + k - 1]]]
  BY <1>1, <1>5, <1>6, CutIs
<1>10. n2 = n + 1 /\ l2 \in Nat /\ Cut(s, <<j, i2>>) = [k \in 1..l2 |-> Lower[s[j + k - 1]]]
  <2>1. n2 = n + 1
    BY <1>1, <1>2, <1>3, <1>5, <1>7
  <2>2. i2 \in Nat /\ j \in 1..(i2 + 1)
    BY <1>2, <1>3
  <2>3. l2 \in Nat /\ Cut(s, <<j, i2>>) = [k \in 1..l2 |-> Lower[s[j + k - 1]]]
    <3>1. n2 \in Nat /\ l2 \in Nat
      BY <1>3, <1>7, <1>8, <1>9, <2>1
    <3>2. Cut(s, <<j, i2>>) = [k \in 1..l2 |-> Lower[s[j + k - 1]]]
      BY <1>7, <1>8 DEF Cut
    <3> QED
      BY <3>1, <3>2
  <2> QED
    BY <2>1, <2>3
<1>11. Len(tok) = l
  BY <1>9
<1>12. CASE l < TokenMax - 1
  <2>1. l2 = l + 1 /\ l = n
    BY <1>3, <1>6, <1>8, <1>9, <1>10, <1>12
  <2>2. PICK c : c = Lower[s[i2]]
    OBVIOUS
  <2>3. Append(tok, c) = [k \in 1..(l + 1) |-> IF k = l + 1 THEN c ELSE tok[k]]
    BY <1>9, <1>11
  <2>4. ASSUME NEW k \in 1..(l + 1) PROVE (IF k = l + 1 THEN c ELSE tok[k]) = Lower[s[j + k - 1]]
    <3>1. CASE k = l + 1
      <4>1. j + k - 1 = i2
        BY <1>2, <1>5, <2>1, <3>1
      <4> QED
        BY <2>2, <3>1, <4>1
    <3>2. CASE k # l + 1
      <4>1. k \in 1..l
        BY <1>9, <3>2
      <4> QED
        BY <1>9, <3>2, <4>1
    <3> QED
      BY <3>1, <3>2
  <2>5. Append(tok, c) = Cut(s, <<j, i2>>)
    BY <1>10, <2>1, <2>3, <2>4
  <2>6. AppendChar(tok, s[i2]) = Append(tok, c)
    BY <1>11, <1>12, <2>2 DEF AppendChar
  <2> QED
    BY <1>2, <1>3, <1>4, <2>5, <2>6 DEF Open
<1>13. CASE ~(l < TokenMax - 1)
  <2>1. l2 = l
    BY <1>3, <1>6, <1>8, <1>9, <1>10, <1>13
  <2>2. AppendChar(tok, s[i2]) = tok
    BY <1>11, <1>13 DEF AppendChar
  <2>3. tok = Cut(s, <<j, i2>>)
    BY <1>9, <1>10, <2>1
  <2> QED
    BY <1>2, <1>3, <1>4, <2>2, <2>3 DEF Open
<1> QED
  BY <1>12, <1>13

(* A word lies in s, and delimiters or ends around it.                     *)
LEMMA WordsTyped ==
    ASSUME NEW s \in Seq(Chars), NEW x \in WordsOf(s)
    PROVE  /\ x[1] \in 1..Len(s) /\ x[2] \in 1..Len(s) /\ x[1] <= x[2] /\ x = <<x[1], x[2]>>
           /\ \A k \in x[1]..x[2] : s[k] \in Letters
           /\ x[1] = 1 \/ s[x[1] - 1] \notin Letters
           /\ x[2] = Len(s) \/ s[x[2] + 1] \notin Letters
<1>1. DOMAIN s = 1..Len(s) /\ Len(s) \in Nat
  BY LenProperties
<1>2. x[1] \in 1..Len(s) /\ x[2] \in 1..Len(s) /\ x[1] <= x[2] /\ x = <<x[1], x[2]>> /\ Word(s, x[1], x[2])
  BY <1>1 DEF WordsOf
<1>3. PICK i \in 1..Len(s), j \in 1..Len(s) : i = x[1] /\ j = x[2]
  BY <1>2
<1>4. Word(s, i, j)
  BY <1>2, <1>3
<1>5. (i = 1 \/ s[i - 1] \notin Letters) /\ (j = Len(s) \/ s[j + 1] \notin Letters)
  <2>1. (i - 1 \notin 1..Len(s) \/ s[i - 1] \notin Letters) /\ (j + 1 \notin 1..Len(s) \/ s[j + 1] \notin Letters)
    BY <1>1, <1>4 DEF Word
  <2>2. i # 1 => i - 1 \in 1..Len(s)
    BY <1>1, <1>3
  <2>3. j # Len(s) => j + 1 \in 1..Len(s)
    BY <1>1, <1>3
  <2> QED
    BY <2>1, <2>2, <2>3
<1> QED
  BY <1>2, <1>3, <1>4, <1>5 DEF Word

(* The words that end at i.                                                *)
LEMMA WordsHere ==
    ASSUME NEW s \in Seq(Chars), NEW i \in Nat, i <= Len(s), NEW j \in Nat, Opens(s, i, j),
           i = Len(s) \/ s[i + 1] \notin Letters, NEW x
    PROVE  x \in WordsOf(s) /\ x[2] = i <=> j <= i /\ x = <<j, i>>
<1>1. PICK N \in Nat : N = Len(s) /\ DOMAIN s = 1..N
  BY LenProperties
<1>2. i <= N /\ j >= 1 /\ j <= i + 1 /\ (i = N \/ s[i + 1] \notin Letters)
  BY <1>1 DEF Opens
<1>3. (j = 1 \/ s[j - 1] \notin Letters) /\ \A k \in j..i : s[k] \in Letters
  BY DEF Opens
<1>4. ASSUME x \in WordsOf(s), x[2] = i PROVE j <= i /\ x = <<j, i>>
  <2>1. PICK a : a = x[1] /\ x = <<a, i>>
    BY <1>4, WordsTyped
  <2>2. a \in 1..N /\ a <= i
    BY <1>1, <1>4, <2>1, WordsTyped
  <2>3. (a = 1 \/ s[a - 1] \notin Letters) /\ \A k \in a..i : s[k] \in Letters
    BY <1>4, <2>1, WordsTyped
  <2>4. ~(a < j)
    <3> SUFFICES ASSUME a < j PROVE FALSE
      OBVIOUS
    <3>1. j - 1 \in a..i /\ j # 1
      BY <1>2, <2>2
    <3> QED
      BY <1>3, <2>3, <3>1
  <2>5. ~(j < a)
    <3> SUFFICES ASSUME j < a PROVE FALSE
      OBVIOUS
    <3>1. a - 1 \in j..i /\ a # 1
      BY <1>2, <2>2
    <3> QED
      BY <1>3, <2>3, <3>1
  <2>6. a = j
    BY <2>2, <2>4, <2>5
  <2> QED
    BY <2>1, <2>2, <2>6
<1>5. ASSUME j <= i, x = <<j, i>> PROVE x \in WordsOf(s) /\ x[2] = i
  <2>1. x[1] = j /\ x[2] = i /\ j \in 1..N /\ i \in 1..N
    BY <1>2, <1>5
  <2>2. j - 1 \notin 1..N \/ s[j - 1] \notin Letters
    BY <1>2, <1>3
  <2>3. i + 1 \notin 1..N \/ s[i + 1] \notin Letters
    BY <1>2
  <2>4. Word(s, j, i)
    BY <1>1, <1>3, <2>2, <2>3 DEF Word
  <2> QED
    BY <1>1, <1>5, <2>1, <2>4 DEF WordsOf
<1> QED
  BY <1>4, <1>5

LEMMA WordsFinite ==
    ASSUME NEW s \in Seq(Chars), NEW i, NEW b, NEW g
    PROVE  IsFiniteSet(EndedIn(s, i, b, g)) /\ Cardinality(EndedIn(s, i, b, g)) \in Nat
<1>1. Len(s) \in Nat /\ DOMAIN s = 1..Len(s)
  BY LenProperties
<1>2. IsFiniteSet(1..Len(s))
  BY <1>1, FS_Interval
<1>3. IsFiniteSet((1..Len(s)) \X (1..Len(s)))
  BY <1>2, FS_Product
<1>4. EndedIn(s, i, b, g) \subseteq (1..Len(s)) \X (1..Len(s))
  BY <1>1 DEF EndedIn, WordsOf
<1>5. IsFiniteSet(EndedIn(s, i, b, g))
  BY <1>3, <1>4, FS_Subset
<1> QED
  BY <1>5, FS_CardinalityType

(* A letter ends no word.                                                  *)
LEMMA LetterCounts ==
    ASSUME NEW s \in Seq(Chars), NEW i \in Nat, i + 1 <= Len(s), s[i + 1] \in Letters, NEW vec, Counted(s, i, vec)
    PROVE  Counted(s, i + 1, vec)
<1>1. PICK N \in Nat : N = Len(s)
  BY LenProperties
<1>2. ASSUME NEW x \in WordsOf(s), x[2] < i + 1 PROVE x[2] < i
  <2>1. PICK c \in 1..N : c = x[2]
    BY <1>1, WordsTyped
  <2>2. c = N \/ s[c + 1] \notin Letters
    BY <1>1, <2>1, WordsTyped
  <2>3. c # i
    BY <1>1, <2>2
  <2> QED
    BY <1>2, <2>1, <2>3
<1>3. ASSUME NEW x \in WordsOf(s), x[2] < i PROVE x[2] < i + 1
  <2>1. PICK c \in 1..N : c = x[2]
    BY <1>1, WordsTyped
  <2> QED
    BY <1>3, <2>1
<1>4. \A b, g : EndedIn(s, i + 1, b, g) = EndedIn(s, i, b, g)
  BY <1>2, <1>3 DEF EndedIn
<1> QED
  BY <1>4 DEF Counted

(* What a delimiter ends.                                                  *)
LEMMA EndedHere ==
    ASSUME NEW s \in Seq(Chars), NEW i \in Nat, i <= Len(s), NEW j \in Nat, Opens(s, i, j),
           i = Len(s) \/ s[i + 1] \notin Letters, NEW b, NEW g
    PROVE  EndedIn(s, i + 1, b, g)
               = EndedIn(s, i, b, g) \cup
                     {x \in {<<j, i>>} : j <= i /\ Hash[Cut(s, x)] = [bucket |-> b, sign |-> g]}
<1>1. PICK N \in Nat : N = Len(s)
  BY LenProperties
<1>2. ASSUME NEW x \in WordsOf(s) PROVE x[2] < i + 1 <=> x[2] < i \/ x[2] = i
  <2>1. PICK c \in 1..N : c = x[2]
    BY <1>1, WordsTyped
  <2> QED
    BY <2>1
<1>3. \A x : x \in WordsOf(s) /\ x[2] = i <=> j <= i /\ x = <<j, i>>
  BY WordsHere
<1> QED
  BY <1>2, <1>3 DEF EndedIn

(* Hash is defined on what tokenize hands on.                              *)
LEMMA TokenHashed ==
    ASSUME NEW s \in Seq(Chars), NEW i \in Nat, i <= Len(s), NEW j \in Nat, Opens(s, i, j)
    PROVE  /\ j > i => Cut(s, <<j, i>>) = <<>>
           /\ j <= i => /\ Cut(s, <<j, i>>) # <<>>
                        /\ Hash[Cut(s, <<j, i>>)] \in [bucket : Buckets, sign : {-1, 1}]
<1>1. PICK n : n = i - j + 1
  OBVIOUS
<1>2. PICK l : l = (IF n < TokenMax THEN n ELSE TokenMax - 1)
  OBVIOUS
<1>3. TokenMax \in Nat /\ TokenMax > 1 /\ j >= 1 /\ j <= i + 1
  BY IngestAssumption DEF Opens
<1>4. n \in Nat /\ l \in Nat /\ l <= TokenMax - 1 /\ l <= n
  BY <1>1, <1>2, <1>3
<1>5. Cut(s, <<j, i>>) = [k \in 1..l |-> Lower[s[j + k - 1]]]
  BY <1>1, <1>2 DEF Cut
<1>6. CASE j > i
  <2>1. l = 0
    BY <1>1, <1>3, <1>4, <1>6
  <2> QED
    BY <1>5, <1>6, <2>1
<1>7. CASE j <= i
  <2>1. l \in 1..(TokenMax - 1)
    BY <1>1, <1>2, <1>3, <1>4, <1>7
  <2>2. PICK tok : tok = Cut(s, <<j, i>>)
    OBVIOUS
  <2>3. ASSUME NEW k \in 1..l PROVE Lower[s[j + k - 1]] \in {Lower[c] : c \in Letters}
    <3>1. j + k - 1 \in j..i
      BY <1>1, <1>4
    <3> QED
      BY <3>1 DEF Opens
  <2>4. tok \in [1..l -> {Lower[c] : c \in Letters}]
    BY <1>5, <2>2, <2>3
  <2>5. tok \in TokensUpTo(TokenMax - 1)
    BY <2>1, <2>4 DEF TokensUpTo
  <2>6. Hash[tok] \in [bucket : Buckets, sign : {-1, 1}]
    BY <2>5, IngestAssumption
  <2>7. tok # <<>>
    BY <2>1, <2>4
  <2> QED
    BY <1>3, <1>7, <2>2, <2>6, <2>7
<1> QED
  BY <1>3, <1>6, <1>7

(* A delimiter counts the word before it, if there is one.                 *)
LEMMA DelimiterCounts ==
    ASSUME NEW s \in Seq(Chars), NEW i \in Nat, i <= Len(s), i = Len(s) \/ s[i + 1] \notin Letters,
           NEW tok, Open(s, i, tok), NEW vec, Counted(s, i, vec)
    PROVE  Counted(s, i + 1, IF tok = <<>> THEN vec ELSE TfAccumulate(vec, tok))
<1>1. PICK j \in Nat : Opens(s, i, j) /\ tok = Cut(s, <<j, i>>)
  <2>1. PICK j \in 1..(i + 1) : Opens(s, i, j) /\ tok = Cut(s, <<j, i>>)
    BY DEF Open
  <2>2. j \in Nat
    OBVIOUS
  <2> QED
    BY <2>1, <2>2
<1>2. vec \in [Buckets -> Int]
  BY DEF Counted
<1> DEFINE E(b, g) == EndedIn(s, i, b, g)
           F(b, g) == EndedIn(s, i + 1, b, g)
           z == <<j, i>>
<1>3. ASSUME NEW b, NEW g
      PROVE  F(b, g) = IF j <= i /\ Hash[tok] = [bucket |-> b, sign |-> g] THEN E(b, g) \cup {z} ELSE E(b, g)
  <2>1. F(b, g) = E(b, g) \cup {x \in {z} : j <= i /\ Hash[Cut(s, x)] = [bucket |-> b, sign |-> g]}
    BY <1>1, EndedHere
  <2>2. tok = Cut(s, z)
    BY <1>1
  <2> HIDE DEF E, F, z
  <2> QED
    BY <2>1, <2>2
<1>4. \A b, g : IsFiniteSet(E(b, g)) /\ Cardinality(E(b, g)) \in Nat /\ (j <= i => z \notin E(b, g))
  <2>1. \A b, g : IsFiniteSet(E(b, g)) /\ Cardinality(E(b, g)) \in Nat
    BY WordsFinite
  <2>2. \A b, g : z \notin E(b, g)
    BY DEF EndedIn
  <2> QED
    BY <2>1, <2>2
<1>8. (\A b \in Buckets : vec[b] = Cardinality(E(b, 1)) - Cardinality(E(b, -1)))
  BY DEF Counted
<1>9. ASSUME NEW new \in [Buckets -> Int], \A b \in Buckets : new[b] = Cardinality(F(b, 1)) - Cardinality(F(b, -1))
      PROVE  Counted(s, i + 1, new)
  BY <1>9 DEF Counted
<1> HIDE DEF E, F, z
<1>5. CASE j > i
  <2>1. tok = <<>>
    BY <1>1, <1>5, TokenHashed
  <2>2. \A b, g : F(b, g) = E(b, g)
    <3>1. ~(j <= i)
      BY <1>5
    <3> QED
      BY <1>3, <3>1
  <2> QED
    BY <1>2, <1>8, <1>9, <2>1, <2>2
<1>6. CASE j <= i
  <2>1. PICK h \in [bucket : Buckets, sign : {-1, 1}] : h = Hash[tok] /\ tok # <<>>
    BY <1>1, <1>6, TokenHashed
  <2>2. TfAccumulate(vec, tok) = [vec EXCEPT ![h.bucket] = @ + h.sign]
    BY <2>1 DEF TfAccumulate
  <2>3. PICK new : new = TfAccumulate(vec, tok)
    OBVIOUS
  <2>4. h.bucket \in Buckets /\ h.sign \in {-1, 1} /\ h = [bucket |-> h.bucket, sign |-> h.sign]
    BY <2>1
  <2>5. /\ new \in [Buckets -> Int] /\ new[h.bucket] = vec[h.bucket] + h.sign
        /\ \A b \in Buckets : b # h.bucket => new[b] = vec[b]
    BY <1>2, <2>2, <2>3, <2>4
  <2>6. ASSUME NEW b, NEW g, h # [bucket |-> b, sign |-> g] PROVE F(b, g) = E(b, g)
    BY <1>3, <2>1, <2>6
  <2>7. F(h.bucket, h.sign) = E(h.bucket, h.sign) \cup {z}
    BY <1>3, <1>6, <2>1, <2>4
  <2>8. z \notin E(h.bucket, h.sign)
    BY <1>4, <1>6
  <2>9. Cardinality(F(h.bucket, h.sign)) = Cardinality(E(h.bucket, h.sign)) + 1
    BY <1>4, <2>7, <2>8, FS_AddElement
  <2>10. \A b \in Buckets : vec[b] = Cardinality(E(b, 1)) - Cardinality(E(b, -1))
    BY <1>8
  <2>11. ASSUME NEW b \in Buckets PROVE new[b] = Cardinality(F(b, 1)) - Cardinality(F(b, -1))
    <3>1. CASE b # h.bucket
      <4>1. F(b, 1) = E(b, 1) /\ F(b, -1) = E(b, -1)
        <5>1. h # [bucket |-> b, sign |-> 1] /\ h # [bucket |-> b, sign |-> -1]
          BY <3>1
        <5> QED
          BY <2>6, <5>1
      <4> QED
        BY <2>5, <2>10, <3>1, <4>1
    <3>2. CASE b = h.bucket /\ h.sign = 1
      <4>1. F(b, -1) = E(b, -1)
        <5>1. h # [bucket |-> b, sign |-> -1]
          BY <3>2
        <5> QED
          BY <2>6, <5>1
      <4>2. Cardinality(F(b, 1)) = Cardinality(E(b, 1)) + 1
        BY <2>9, <3>2
      <4>3. new[b] = vec[b] + 1
        BY <2>5, <3>2
      <4>4. Cardinality(E(b, 1)) \in Nat /\ Cardinality(E(b, -1)) \in Nat
        BY <1>4
      <4> QED
        BY <2>10, <4>1, <4>2, <4>3, <4>4
    <3>3. CASE b = h.bucket /\ h.sign = -1
      <4>1. F(b, 1) = E(b, 1)
        <5>1. h # [bucket |-> b, sign |-> 1]
          BY <3>3
        <5> QED
          BY <2>6, <5>1
      <4>2. Cardinality(F(b, -1)) = Cardinality(E(b, -1)) + 1
        BY <2>9, <3>3
      <4>3. new[b] = vec[b] - 1
        BY <1>2, <2>5, <3>3
      <4>4. Cardinality(E(b, 1)) \in Nat /\ Cardinality(E(b, -1)) \in Nat
        BY <1>4
      <4> QED
        BY <2>10, <4>1, <4>2, <4>3, <4>4
    <3> QED
      BY <2>4, <3>1, <3>2, <3>3
  <2>12. Counted(s, i + 1, new)
    BY <1>9, <2>5, <2>11
  <2> QED
    BY <2>1, <2>3, <2>12
<1>7. j > i \/ j <= i
  OBVIOUS
<1> QED
  BY <1>5, <1>6, <1>7

----------------------------------------------------------------------------
(* tokenize, from the first character to the end of the text.              *)

(* What tokenize has after each character.                                 *)
IsScan(acc, s, n) ==
    acc = [i \in 0..n |-> IF i = 0 THEN NoTokens ELSE Tokenize(acc[i - 1], s[i])]

(* tokenize has something after each character.                            *)
LEMMA ScanExists ==
    ASSUME NEW s, NEW N \in Nat
    PROVE  \E acc : IsScan(acc, s, N)
<1> DEFINE Bad == {n \in 0..N : ~ \E acc : IsScan(acc, s, n)}
           Character(acc, i) == IF i = 0 THEN NoTokens ELSE Tokenize(acc[i - 1], s[i])
<1> SUFFICES ASSUME Bad # {} PROVE FALSE
  OBVIOUS
<1>1. PICK n \in Bad : \A m \in Bad : n <= m
  <2>1. Bad \in SUBSET Nat
    OBVIOUS
  <2> HIDE DEF Bad
  <2> QED
    BY <2>1, Least
<1>2. CASE n = 0
  <2> DEFINE c == [i \in 0..0 |-> NoTokens]
  <2>1. \A i \in 0..0 : i = 0
    OBVIOUS
  <2>2. \A i \in 0..0 : Character(c, i) = NoTokens
    BY <2>1
  <2>3. IsScan(c, s, 0)
    BY <2>2 DEF IsScan
  <2> QED
    BY <1>2, <2>3
<1>3. CASE n # 0
  <2>1. n \in 1..N /\ n - 1 \in 0..N /\ ~(n <= n - 1)
    BY <1>3
  <2>2. PICK c : IsScan(c, s, n - 1)
    <3>1. n - 1 \notin Bad
      BY <1>1, <2>1
    <3> QED
      BY <2>1, <3>1
  <2> DEFINE top == Character(c, n)
             h == [i \in 0..n |-> IF i = n THEN top ELSE c[i]]
  <2>3. \A i \in 0..(n - 1) : c[i] = Character(c, i)
    BY <2>2 DEF IsScan
  <2>4. ASSUME NEW i \in 0..n PROVE h[i] = Character(h, i)
    <3>1. i # 0 => h[i - 1] = c[i - 1]
      BY <2>1
    <3>2. Character(h, i) = Character(c, i)
      <4> HIDE DEF h
      <4> QED
        BY <3>1
    <3>3. CASE i = n
      <4>1. h[i] = top
        BY <3>3
      <4> QED
        BY <3>2, <3>3, <4>1
    <3>4. CASE i # n
      <4>1. i \in 0..(n - 1) /\ h[i] = c[i]
        BY <2>1, <3>4
      <4> HIDE DEF h
      <4> QED
        BY <2>3, <3>2, <4>1
    <3> QED
      BY <3>3, <3>4
  <2>5. h = [i \in 0..n |-> Character(h, i)]
    BY <2>4
  <2>6. IsScan(h, s, n)
    BY <2>5 DEF IsScan
  <2> QED
    BY <2>6
<1> QED
  BY <1>2, <1>3

LEMMA Scanned ==
    ASSUME NEW s, NEW n \in Nat, Len(s) = n
    PROVE  \E acc : /\ Tokenized(s) = acc[n] /\ acc[0] = NoTokens
                    /\ \A i \in 1..n : acc[i] = Tokenize(acc[i - 1], s[i])
<1> DEFINE c == CHOOSE acc : acc = [i \in 0..n |-> IF i = 0 THEN NoTokens ELSE Tokenize(acc[i - 1], s[i])]
<1>1. Tokenized(s) = c[n]
  BY DEF Tokenized
<1>2. \E h : IsScan(h, s, n)
  BY ScanExists
<1>3. IsScan(c, s, n)
  BY <1>2 DEF IsScan
<1> HIDE DEF c
<1>4. c[0] = NoTokens
  BY <1>3 DEF IsScan
<1>5. ASSUME NEW i \in 1..n PROVE c[i] = Tokenize(c[i - 1], s[i])
  <2>1. i \in 0..n /\ i # 0
    OBVIOUS
  <2> QED
    BY <1>3, <2>1 DEF IsScan
<1> QED
  BY <1>1, <1>4, <1>5

IsAcc(a) == a = [tok |-> a.tok, vec |-> a.vec]

(* One character more.                                                     *)
LEMMA CharacterRead ==
    ASSUME NEW s \in Seq(Chars), NEW i \in Nat, i + 1 <= Len(s),
           NEW a, IsAcc(a), Open(s, i, a.tok), Counted(s, i, a.vec),
           NEW b, b = Tokenize(a, s[i + 1])
    PROVE  IsAcc(b) /\ Open(s, i + 1, b.tok) /\ Counted(s, i + 1, b.vec)
<1>1. PICK c : c = s[i + 1]
  OBVIOUS
<1>2. CASE c \in Letters
  <2>1. b = [a EXCEPT !.tok = AppendChar(@, c)]
    BY <1>1, <1>2 DEF Tokenize
  <2>2. b = [tok |-> AppendChar(a.tok, c), vec |-> a.vec]
    BY <2>1 DEF IsAcc
  <2>3. IsAcc(b) /\ b.tok = AppendChar(a.tok, c) /\ b.vec = a.vec
    BY <2>2 DEF IsAcc
  <2> QED
    BY <1>1, <1>2, <2>3, TokenRead, LetterCounts
<1>3. CASE c \notin Letters
  <2>1. b = [tok |-> <<>>, vec |-> IF a.tok = <<>> THEN a.vec ELSE TfAccumulate(a.vec, a.tok)]
    BY <1>1, <1>3 DEF Tokenize
  <2>2. IsAcc(b) /\ b.tok = <<>> /\ b.vec = IF a.tok = <<>> THEN a.vec ELSE TfAccumulate(a.vec, a.tok)
    BY <2>1 DEF IsAcc
  <2>3. PICK N \in Nat : N = Len(s)
    BY LenProperties
  <2>4. i <= Len(s) /\ s[i + 1] \notin Letters
    BY <1>1, <1>3, <2>3
  <2>5. Counted(s, i + 1, b.vec)
    BY <2>2, <2>4, DelimiterCounts
  <2>6. Open(s, i + 1, b.tok)
    <3>1. PICK k \in Nat : k = i + 1
      OBVIOUS
    <3>2. PICK j \in 1..(k + 1) : j = k + 1 /\ k < j
      BY <3>1
    <3>3. j - 1 = i + 1 /\ \A x \in j..k : FALSE
      BY <3>1, <3>2
    <3>4. Opens(s, k, j)
      BY <2>4, <3>2, <3>3 DEF Opens
    <3>5. Cut(s, <<j, k>>) = <<>>
      BY <1>1, <2>3, <3>1, <3>2, <3>4, TokenHashed
    <3> QED
      BY <2>2, <3>1, <3>2, <3>4, <3>5 DEF Open
  <2> QED
    BY <2>2, <2>5, <2>6
<1> QED
  BY <1>2, <1>3

(* Before the first character.                                             *)
LEMMA NothingRead ==
    ASSUME NEW s \in Seq(Chars)
    PROVE  IsAcc(NoTokens) /\ Open(s, 0, NoTokens.tok) /\ Counted(s, 0, NoTokens.vec)
<1>1. IsAcc(NoTokens) /\ NoTokens.tok = <<>> /\ NoTokens.vec = [b \in Buckets |-> 0]
  BY DEF NoTokens, IsAcc
<1>2. PICK N \in Nat : N = Len(s)
  BY LenProperties
<1>3. Open(s, 0, <<>>)
  <2>1. PICK j \in 1..(0 + 1) : j = 1
    OBVIOUS
  <2>2. Opens(s, 0, j)
    BY <2>1 DEF Opens
  <2>3. Cut(s, <<j, 0>>) = <<>>
    BY <1>2, <2>1, <2>2, TokenHashed
  <2> QED
    BY <2>1, <2>2, <2>3 DEF Open
<1>4. \A b, g : EndedIn(s, 0, b, g) = {}
  <2> SUFFICES ASSUME NEW x \in WordsOf(s), x[2] < 0 PROVE FALSE
    BY DEF EndedIn
  <2>1. x[2] \in 1..N
    BY <1>2, WordsTyped
  <2> QED
    BY <1>2, <2>1
<1>5. Counted(s, 0, NoTokens.vec)
  <2>1. PICK zero : zero = NoTokens.vec
    OBVIOUS
  <2>2. zero \in [Buckets -> Int] /\ \A b \in Buckets : zero[b] = 0
    BY <1>1, <2>1
  <2>3. \A b, g : Cardinality(EndedIn(s, 0, b, g)) = 0
    BY <1>4, FS_EmptySet
  <2>4. \A b \in Buckets : zero[b] = Cardinality(EndedIn(s, 0, b, 1)) - Cardinality(EndedIn(s, 0, b, -1))
    BY <2>2, <2>3
  <2> QED
    BY <2>1, <2>2, <2>4 DEF Counted
<1> QED
  BY <1>1, <1>3, <1>5

(* embed_tfidf counts the words.                                           *)
LEMMA WordsCounted ==
    ASSUME NEW s \in Seq(Chars)
    PROVE  Counted(s, Len(s) + 1, EmbedTf(s))
<1>1. PICK N \in Nat : N = Len(s)
  BY LenProperties
<1>2. PICK t : t = Append(s, "end")
  OBVIOUS
<1>3. Len(t) = N + 1 /\ t[N + 1] = "end" /\ \A i \in 1..N : t[i] = s[i]
  BY <1>1, <1>2, AppendProperties
<1>4. PICK M \in Nat : M = N + 1
  OBVIOUS
<1>5. PICK acc : /\ Tokenized(t) = acc[M] /\ acc[0] = NoTokens
                 /\ \A i \in 1..M : acc[i] = Tokenize(acc[i - 1], t[i])
  BY <1>3, <1>4, Scanned
<1> DEFINE Good(i) == IsAcc(acc[i]) /\ Open(s, i, acc[i].tok) /\ Counted(s, i, acc[i].vec)
           Bad == {i \in 0..N : ~Good(i)}
<1>6. Bad = {}
  <2> SUFFICES ASSUME Bad # {} PROVE FALSE
    OBVIOUS
  <2>1. PICK n \in Bad : \A m \in Bad : n <= m
    <3>1. Bad \in SUBSET Nat
      OBVIOUS
    <3> HIDE DEF Bad
    <3> QED
      BY <3>1, Least
  <2>2. n # 0
    BY <1>5, NothingRead
  <2>3. PICK l \in Nat : l + 1 = n /\ l < N /\ l \in 0..N
    <3>1. n \in 1..N
      BY <2>2
    <3>2. n - 1 \in Nat /\ (n - 1) + 1 = n /\ n - 1 < N
      BY <3>1
    <3> QED
      BY <3>2
  <2>4. l \notin Bad
    <3>1. ~(n <= l)
      BY <2>3
    <3> HIDE DEF Bad
    <3> QED
      BY <2>1, <3>1
  <2>5. Good(l)
    BY <2>3, <2>4
  <2>6. acc[n] = Tokenize(acc[l], s[l + 1])
    <3>1. n \in 1..M /\ n \in 1..N /\ n - 1 = l
      BY <1>4, <2>3
    <3> QED
      BY <1>3, <1>5, <2>3, <3>1
  <2>7. PICK a, b : a = acc[l] /\ b = acc[n]
    OBVIOUS
  <2>8. IsAcc(b) /\ Open(s, l + 1, b.tok) /\ Counted(s, l + 1, b.vec)
    <3>1. IsAcc(a) /\ Open(s, l, a.tok) /\ Counted(s, l, a.vec) /\ b = Tokenize(a, s[l + 1])
      BY <2>5, <2>6, <2>7
    <3>2. l + 1 <= Len(s)
      BY <1>1, <2>3
    <3> QED
      BY <3>1, <3>2, CharacterRead
  <2>9. Good(n)
    BY <2>3, <2>7, <2>8
  <2> QED
    BY <2>9
<1>7. Good(N)
  BY <1>6
<1>8. PICK a : a = acc[N] /\ Open(s, N, a.tok) /\ Counted(s, N, a.vec)
  BY <1>7
<1>9. acc[M] = Tokenize(a, "end")
  <2>1. M \in 1..M /\ M - 1 = N
    BY <1>4
  <2> QED
    BY <1>3, <1>4, <1>5, <1>8, <2>1
<1>10. "end" \notin Letters
  BY IngestAssumption
<1>11. acc[M] = [tok |-> <<>>, vec |-> IF a.tok = <<>> THEN a.vec ELSE TfAccumulate(a.vec, a.tok)]
  BY <1>9, <1>10 DEF Tokenize
<1>12. EmbedTf(s) = IF a.tok = <<>> THEN a.vec ELSE TfAccumulate(a.vec, a.tok)
  BY <1>2, <1>5, <1>11 DEF EmbedTf
<1>13. Counted(s, N + 1, IF a.tok = <<>> THEN a.vec ELSE TfAccumulate(a.vec, a.tok))
  BY <1>1, <1>8, DelimiterCounts
<1> QED
  BY <1>1, <1>12, <1>13

----------------------------------------------------------------------------
(* The vectors and the index.                                              *)

(* ... so EmbedTf counts them.                                             *)
LEMMA EmbedCounts ==
    ASSUME NEW s \in Seq(Chars)
    PROVE  /\ EmbedTf(s) \in [Buckets -> Int]
           /\ \A b \in Buckets : /\ HashedTo(s, b, 1) \in Nat /\ HashedTo(s, b, -1) \in Nat
                                 /\ EmbedTf(s)[b] = HashedTo(s, b, 1) - HashedTo(s, b, -1)
<1>1. PICK N \in Nat : N = Len(s)
  BY LenProperties
<1>2. \A b, g : EndedIn(s, N + 1, b, g) = {x \in WordsOf(s) : Hash[Cut(s, x)] = [bucket |-> b, sign |-> g]}
  <2>1. ASSUME NEW x \in WordsOf(s) PROVE x[2] < N + 1
    <3>1. PICK c \in 1..N : c = x[2]
      BY <1>1, WordsTyped
    <3> QED
      BY <3>1
  <2> QED
    BY <2>1 DEF EndedIn
<1>3. \A b, g : HashedTo(s, b, g) = Cardinality(EndedIn(s, N + 1, b, g))
  BY <1>2 DEF HashedTo
<1>4. \A b, g : HashedTo(s, b, g) \in Nat
  BY <1>3, WordsFinite
<1>5. Counted(s, N + 1, EmbedTf(s))
  BY <1>1, WordsCounted
<1> QED
  BY <1>3, <1>4, <1>5 DEF Counted

(* A vector for each payload.                                              *)
Embedded ==
    /\ counts \in Seq([Buckets -> Int]) /\ Len(counts) = Len(payloads)
    /\ \A i \in 1..Len(payloads) : counts[i] = EmbedTf(payloads[i])

VInv == PInv /\ Embedded /\ (pc = "done" => df = [b \in Buckets |-> DocumentsInBucket(b)])

(* The paragraph that ends is embedded as it is stored.                    *)
LEMMA EndEmbeds ==
    ASSUME PInv, Embedded, EndParagraph
    PROVE  Embedded'
<1>1. PICK s : s = Fold(SubSeq(text, para, p - 1))
  OBVIOUS
<1>2. /\ pc = "paragraph" /\ payloads' = Append(payloads, s) /\ counts' = Append(counts, EmbedTf(s))
  BY <1>1 DEF EndParagraph
<1>3. TypeOK /\ payloads \in Seq(Seq(Chars))
  BY DEF PInv, TypeOK
<1>4. PICK e \in Newlines : Inside(e)
  BY <1>2 DEF PInv, Divided
<1>5. s \in Seq(Chars)
  BY <1>1, <1>3, <1>4, Stored
<1>6. PICK v : v = EmbedTf(s)
  OBVIOUS
<1>7. v \in [Buckets -> Int]
  BY <1>5, <1>6, EmbedCounts
<1>8. PICK n \in Nat : n = Len(payloads) /\ n = Len(counts)
  BY <1>3, LenProperties DEF Embedded
<1>9. /\ counts' \in Seq([Buckets -> Int]) /\ Len(counts') = n + 1 /\ counts'[n + 1] = v
      /\ \A i \in 1..n : counts'[i] = counts[i]
  BY <1>2, <1>6, <1>7, <1>8, AppendProperties DEF Embedded
<1>10. Len(payloads') = n + 1 /\ payloads'[n + 1] = s /\ \A i \in 1..n : payloads'[i] = payloads[i]
  <2>1. PICK L : L = payloads
    OBVIOUS
  <2>2. PICK T : T = Seq(Chars)
    OBVIOUS
  <2>3. L \in Seq(T) /\ s \in T /\ Len(L) = n /\ payloads' = Append(L, s)
    BY <1>2, <1>3, <1>5, <1>8, <2>1, <2>2
  <2>4. Len(payloads') = n + 1 /\ payloads'[n + 1] = s /\ \A i \in 1..n : payloads'[i] = L[i]
    BY <2>3, AppendProperties
  <2> QED
    BY <2>1, <2>4
<1>11. ASSUME NEW i \in 1..(n + 1) PROVE counts'[i] = EmbedTf(payloads'[i])
  <2>1. CASE i = n + 1
    BY <1>6, <1>9, <1>10, <2>1
  <2>2. CASE i # n + 1
    <3>1. i \in 1..n
      BY <2>2
    <3> QED
      BY <1>8, <1>9, <1>10, <3>1 DEF Embedded
  <2> QED
    BY <2>1, <2>2
<1>12. \A i \in 1..(n + 1) : counts'[i] = EmbedTf(payloads'[i])
  BY <1>11
<1> QED
  BY <1>9, <1>10, <1>12 DEF Embedded, EmbedTf, Tokenized

LEMMA VInvFirst ==
    ASSUME Init
    PROVE  VInv
<1>1. PInv /\ counts = <<>> /\ payloads = <<>> /\ pc = "between"
  BY ParagraphsFirst DEF Init
<1>2. counts \in Seq([Buckets -> Int]) /\ Len(counts) = 0 /\ Len(payloads) = 0
  BY <1>1, EmptySeq
<1>3. Embedded
  BY <1>2 DEF Embedded
<1> QED
  BY <1>1, <1>3 DEF VInv

LEMMA VInvStep ==
    ASSUME VInv, [Next]_vars
    PROVE  VInv'
<1>1. PInv /\ PInv'
  BY PInvStep DEF VInv
<1>2. Embedded
  BY DEF VInv
<1>3. CASE UNCHANGED <<payloads, counts>>
  <2>1. Embedded'
    <3>1. payloads' = payloads /\ counts' = counts
      BY <1>3
    <3>2. counts' \in Seq([Buckets -> Int]) /\ Len(counts') = Len(payloads')
      BY <1>2, <3>1 DEF Embedded
    <3>3. \A i \in 1..Len(payloads') : counts'[i] = EmbedTf(payloads'[i])
      BY <1>2, <3>1 DEF Embedded
    <3> QED
      BY <3>2, <3>3 DEF Embedded
  <2>2. \A b : DocumentsInBucket(b)' = DocumentsInBucket(b)
    BY <1>3 DEF DocumentsInBucket
  <2>3. (pc = "done" => df = [b \in Buckets |-> DocumentsInBucket(b)])'
    <3>1. CASE BuildIndex
      BY <2>2, <3>1 DEF BuildIndex
    <3>2. CASE SkipBlank \/ BeginParagraph \/ Advance \/ EndParagraph
      BY <3>2 DEF SkipBlank, BeginParagraph, Advance, EndParagraph
    <3>3. CASE UNCHANGED vars
      BY <2>2, <3>3 DEF vars, VInv
    <3> QED
      BY <3>1, <3>2, <3>3 DEF Next, Done
  <2> QED
    BY <1>1, <2>1, <2>3 DEF VInv
<1>4. CASE EndParagraph
  <2>1. Embedded' /\ pc' # "done"
    BY <1>1, <1>2, <1>4, EndEmbeds DEF EndParagraph
  <2> QED
    BY <1>1, <2>1 DEF VInv
<1> QED
  BY <1>3, <1>4 DEF Next, Done, vars, SkipBlank, BeginParagraph, Advance, BuildIndex

(* What the vector of a record holds.                                      *)
LEMMA RecordCounts ==
    ASSUME VInv, NEW i \in DOMAIN payloads, NEW b \in Buckets
    PROVE  /\ DOMAIN counts = DOMAIN payloads
           /\ HashedTo(payloads[i], b, 1) \in Nat /\ HashedTo(payloads[i], b, -1) \in Nat
           /\ counts[i][b] = HashedTo(payloads[i], b, 1) - HashedTo(payloads[i], b, -1)
<1>1. payloads \in Seq(Seq(Chars)) /\ Embedded
  BY DEF VInv, PInv, TypeOK
<1>2. DOMAIN counts = DOMAIN payloads /\ DOMAIN payloads = 1..Len(payloads)
  BY <1>1, LenProperties DEF Embedded
<1>3. PICK s : s = payloads[i]
  OBVIOUS
<1>4. s \in Seq(Chars)
  BY <1>1, <1>2, <1>3, ElementOfSeq
<1>5. counts[i] = EmbedTf(s)
  BY <1>1, <1>2, <1>3 DEF Embedded
<1> QED
  BY <1>2, <1>3, <1>4, <1>5, EmbedCounts

(* Every record's vector counts the words of its paragraph.                *)
THEOREM VectorsAreCounts == Spec => []VectorsExact
<1>1. VInv => VectorsExact
  BY RecordCounts DEF VectorsExact
<1> QED
  BY <1>1, VInvFirst, VInvStep, PTL DEF Spec

(* The index counts the documents that touch a bucket.                     *)
THEOREM DocumentsAreCounted == Spec => []DocumentsCounted
<1>1. VInv => DocumentsCounted
  <2> SUFFICES ASSUME VInv, pc = "done", NEW b \in Buckets,
                      NEW touching, touching = {i \in DOMAIN payloads :
                          HashedTo(payloads[i], b, 1) + HashedTo(payloads[i], b, -1) > 0},
                      NEW cancelled, cancelled = {i \in touching :
                          HashedTo(payloads[i], b, 1) = HashedTo(payloads[i], b, -1)}
               PROVE  df[b] = Cardinality(touching) - Cardinality(cancelled)
    BY DEF DocumentsCounted
  <2>1. df[b] = Cardinality({i \in DOMAIN counts : counts[i][b] # 0})
    BY DEF VInv, DocumentsInBucket
  <2>2. {i \in DOMAIN counts : counts[i][b] # 0} = touching \ cancelled
    <3>1. DOMAIN counts = DOMAIN payloads
      BY LenProperties DEF VInv, PInv, TypeOK, Embedded
    <3>2. ASSUME NEW i \in DOMAIN payloads
          PROVE  counts[i][b] # 0 <=> i \in touching \ cancelled
      <4>1. PICK up \in Nat, down \in Nat : /\ up = HashedTo(payloads[i], b, 1)
                                            /\ down = HashedTo(payloads[i], b, -1)
                                            /\ counts[i][b] = up - down
        BY RecordCounts
      <4>2. i \in touching \ cancelled <=> up + down > 0 /\ up # down
        BY <4>1
      <4> QED
        BY <4>1, <4>2
    <3> QED
      BY <3>1, <3>2
  <2>3. IsFiniteSet(touching)
    <3>1. DOMAIN payloads = 1..Len(payloads) /\ Len(payloads) \in Nat
      BY LenProperties DEF VInv, PInv, TypeOK
    <3>2. IsFiniteSet(DOMAIN payloads)
      BY <3>1, FS_Interval
    <3> QED
      BY <3>2, FS_Subset
  <2>4. cancelled \in SUBSET touching
    OBVIOUS
  <2>5. Cardinality(touching \ cancelled) = Cardinality(touching) - Cardinality(touching \cap cancelled)
    BY <2>3, FS_Difference
  <2>6. touching \cap cancelled = cancelled
    BY <2>4
  <2> QED
    BY <2>1, <2>2, <2>5, <2>6
<1> QED
  BY <1>1, VInvFirst, VInvStep, PTL DEF Spec
=============================================================================
