------------------------- MODULE StatusFile_proofs -------------------------
(***************************************************************************)
(* Proofs about StatusFile and the parts of json.hpp it is made of, for    *)
(* status files of any length, with values of any depth.  First the        *)
(* grammar and what the parser accepts; then the value that is built, the  *)
(* pointers into it, and its end; then the tokens of a status, and the     *)
(* three invariants.  The second half follows the parser along the text of *)
(* a status, whole or cut, up to what is loaded of it.                     *)
(***************************************************************************)
EXTENDS StatusFile, Induction, SequenceTheorems, FiniteSetTheorems, TLAPS

-----------------------------------------------------------------------------
(****************************************************************************)
(* The grammar: a saying is about its shorter ones, so there is one function *)
(* that says of every text what it is, and Is is it.                         *)
(****************************************************************************)

\* What the grammar says of a saying if is says it of shorter ones.
OneOf(is, saying) ==
  LET s == saying[2]
      n == Len(s)
  IN CASE saying[1] = "value" -> ValueOf(is, s, n)
       [] saying[1] = "members" -> MembersOf(is, s, n)
       [] saying[1] = "elements" -> ElementsOf(is, s, n)

\* Elements may be one value, of the same text.
Size(saying) == 2 * Len(saying[2]) + (IF saying[1] = "elements" THEN 1 ELSE 0)

\* A size is a number.
LEMMA SizeType == \A x \in Sayings : Size(x) \in Nat
<1> SUFFICES ASSUME NEW x \in Sayings
             PROVE  Size(x) \in Nat
  OBVIOUS
<1>1. x[2] \in Seq(Token)
  BY DEF Sayings
<1>2. Len(x[2]) \in Nat
  BY <1>1
<1>3. CASE x[1] = "elements"
  BY <1>2, <1>3 DEF Size
<1>4. CASE x[1] # "elements"
  BY <1>2, <1>4 DEF Size
<1>5. QED
  BY <1>3, <1>4

\* What the grammar asks of a part of a text is a saying, and a smaller one.
LEMMA Parts ==
  ASSUME NEW s \in Seq(Token), NEW a \in Nat \ {0}, NEW b \in Nat, b <= Len(s),
         NEW what \in {"value", "members", "elements"}
  PROVE  /\ <<what, SubSeq(s, a, b)>> \in Sayings
         /\ a > 1 \/ b < Len(s) => Size(<<what, SubSeq(s, a, b)>>) < 2 * Len(s) \/ Len(s) = 0
<1> DEFINE p == SubSeq(s, a, b)
<1>1. p \in Seq(Token) /\ Len(s) \in Nat
  OBVIOUS
<1>2. Len(p) = IF a <= b THEN b - a + 1 ELSE 0
  OBVIOUS
<1> HIDE DEF p
<1>3. a > 1 \/ b < Len(s) => Len(p) < Len(s) \/ Len(s) = 0
  BY <1>1, <1>2
<1>4. Len(p) \in Nat
  BY <1>1
<1>5. Size(<<what, p>>) <= 2 * Len(p) + 1
  BY <1>4 DEF Size
<1>6. <<what, p>> \in Sayings
  BY <1>1 DEF Sayings
<1>7. Size(<<what, p>>) \in Nat
  BY <1>6, SizeType
<1> DEFINE z == Size(<<what, p>>)
<1> HIDE DEF z
<1>8. z \in Nat /\ z <= 2 * Len(p) + 1
  BY <1>5, <1>7 DEF z
<1>9. a > 1 \/ b < Len(s) => z < 2 * Len(s) \/ Len(s) = 0
  BY <1>1, <1>3, <1>4, <1>8
<1>10. QED
  BY <1>6, <1>9 DEF z, p

\* A saying is about shorter ones only.
LEMMA OneOfShorter ==
  ASSUME NEW f, NEW g, NEW x \in Sayings,
         \A y \in Sayings : Size(y) < Size(x) => f[y] = g[y]
  PROVE  OneOf(f, x) = OneOf(g, x)
<1> DEFINE s == x[2]
           n == Len(s)
<1>1. s \in Seq(Token) /\ n \in Nat /\ x = <<x[1], s>> /\ x[1] \in {"value", "members", "elements"}
  BY DEF Sayings
<1> HIDE DEF s, n
<1>2. Size(x) = 2 * n + (IF x[1] = "elements" THEN 1 ELSE 0)
  BY DEF Size, s, n
<1>3. ASSUME NEW a \in Nat \ {0}, NEW b \in Nat, b <= n, a > 1 \/ b < n, n # 0,
             NEW what \in {"value", "members", "elements"}
      PROVE  f[<<what, SubSeq(s, a, b)>>] = g[<<what, SubSeq(s, a, b)>>]
  <2> DEFINE y == <<what, SubSeq(s, a, b)>>
  <2>1. y \in Sayings /\ Size(y) < 2 * n
    BY <1>1, <1>3, Parts DEF n
  <2>2. Size(y) \in Nat /\ Size(x) \in Nat
    BY <2>1, SizeType
  <2> HIDE DEF y
  <2>3. Size(y) < Size(x)
    BY <2>1, <2>2, <1>1, <1>2
  <2>4. f[y] = g[y]
    BY <2>1, <2>3
  <2>5. QED
    BY <2>4 DEF y
<1>4. CASE x[1] = "value"
  <2>1. n >= 2 => /\ f[<<"members", SubSeq(s, 2, n - 1)>>] = g[<<"members", SubSeq(s, 2, n - 1)>>]
                  /\ f[<<"elements", SubSeq(s, 2, n - 1)>>] = g[<<"elements", SubSeq(s, 2, n - 1)>>]
    <3> SUFFICES ASSUME n >= 2
                 PROVE  /\ f[<<"members", SubSeq(s, 2, n - 1)>>] = g[<<"members", SubSeq(s, 2, n - 1)>>]
                        /\ f[<<"elements", SubSeq(s, 2, n - 1)>>] = g[<<"elements", SubSeq(s, 2, n - 1)>>]
      OBVIOUS
    <3>1. 2 \in Nat \ {0} /\ n - 1 \in Nat /\ n - 1 <= n /\ n # 0 /\ 2 > 1
      BY <1>1
    <3>2. QED
      BY <3>1, <1>3
  <2>2. ValueOf(f, s, n) <=> ValueOf(g, s, n)
    BY <2>1 DEF ValueOf
  <2>3. OneOf(f, x) = ValueOf(f, s, n) /\ OneOf(g, x) = ValueOf(g, s, n)
    BY <1>4 DEF OneOf, s, n
  <2>4. ValueOf(f, s, n) \in BOOLEAN /\ ValueOf(g, s, n) \in BOOLEAN
    BY DEF ValueOf
  <2>5. QED
    BY <2>2, <2>3, <2>4
<1>5. CASE x[1] = "members"
  <2>1. n >= 3 => f[<<"value", SubSeq(s, 3, n)>>] = g[<<"value", SubSeq(s, 3, n)>>]
    <3> SUFFICES ASSUME n >= 3
                 PROVE  f[<<"value", SubSeq(s, 3, n)>>] = g[<<"value", SubSeq(s, 3, n)>>]
      OBVIOUS
    <3>1. 3 \in Nat \ {0} /\ n \in Nat /\ n <= n /\ n # 0 /\ 3 > 1
      BY <1>1
    <3>2. QED
      BY <3>1, <1>3
  <2>2. ASSUME NEW k \in 4..n
        PROVE  /\ f[<<"value", SubSeq(s, 3, k - 1)>>] = g[<<"value", SubSeq(s, 3, k - 1)>>]
               /\ f[<<"members", SubSeq(s, k + 1, n)>>] = g[<<"members", SubSeq(s, k + 1, n)>>]
    <3>1. /\ 3 \in Nat \ {0} /\ n \in Nat /\ n <= n /\ n # 0 /\ 3 > 1
          /\ k - 1 \in Nat /\ k - 1 <= n /\ k + 1 \in Nat \ {0} /\ k + 1 > 1
      BY <1>1
    <3>2. QED
      BY <3>1, <1>3
  <2>3. MembersOf(f, s, n) <=> MembersOf(g, s, n)
    <3>1. (\E k \in 4..n : /\ s[k].type = "value_separator"
                           /\ f[<<"value", SubSeq(s, 3, k - 1)>>]
                           /\ f[<<"members", SubSeq(s, k + 1, n)>>])
          <=> (\E k \in 4..n : /\ s[k].type = "value_separator"
                               /\ g[<<"value", SubSeq(s, 3, k - 1)>>]
                               /\ g[<<"members", SubSeq(s, k + 1, n)>>])
      BY <2>2
    <3>2. QED
      BY <3>1, <2>1 DEF MembersOf
  <2>4. OneOf(f, x) = MembersOf(f, s, n) /\ OneOf(g, x) = MembersOf(g, s, n)
    BY <1>5 DEF OneOf, s, n
  <2>5. MembersOf(f, s, n) \in BOOLEAN /\ MembersOf(g, s, n) \in BOOLEAN
    BY DEF MembersOf
  <2>6. QED
    BY <2>3, <2>4, <2>5
<1>6. CASE x[1] = "elements"
  <2>1. f[<<"value", s>>] = g[<<"value", s>>]
    <3>1. <<"value", s>> \in Sayings /\ Size(<<"value", s>>) = 2 * n
      BY <1>1 DEF Sayings, Size, n
    <3>2. Size(<<"value", s>>) < Size(x)
      BY <3>1, <1>1, <1>2, <1>6
    <3>3. QED
      BY <3>1, <3>2
  <2>2. ASSUME NEW k \in 2..n
        PROVE  /\ f[<<"value", SubSeq(s, 1, k - 1)>>] = g[<<"value", SubSeq(s, 1, k - 1)>>]
               /\ f[<<"elements", SubSeq(s, k + 1, n)>>] = g[<<"elements", SubSeq(s, k + 1, n)>>]
    <3>1. /\ 1 \in Nat \ {0} /\ n \in Nat /\ n <= n /\ n # 0
          /\ k - 1 \in Nat /\ k - 1 <= n /\ k - 1 < n /\ k + 1 \in Nat \ {0} /\ k + 1 > 1
      BY <1>1
    <3>2. QED
      BY <3>1, <1>3
  <2>3. ElementsOf(f, s, n) <=> ElementsOf(g, s, n)
    <3>1. (\E k \in 2..n : /\ s[k].type = "value_separator"
                           /\ f[<<"value", SubSeq(s, 1, k - 1)>>]
                           /\ f[<<"elements", SubSeq(s, k + 1, n)>>])
          <=> (\E k \in 2..n : /\ s[k].type = "value_separator"
                               /\ g[<<"value", SubSeq(s, 1, k - 1)>>]
                               /\ g[<<"elements", SubSeq(s, k + 1, n)>>])
      BY <2>2
    <3>2. QED
      BY <3>1, <2>1 DEF ElementsOf
  <2>4. OneOf(f, x) = ElementsOf(f, s, n) /\ OneOf(g, x) = ElementsOf(g, s, n)
    BY <1>6 DEF OneOf, s, n
  <2>5. ElementsOf(f, s, n) \in BOOLEAN /\ ElementsOf(g, s, n) \in BOOLEAN
    BY DEF ElementsOf
  <2>6. QED
    BY <2>3, <2>4, <2>5
<1>7. QED
  BY <1>1, <1>4, <1>5, <1>6

\* The function is says what the grammar does, of sayings smaller than n.
Over(is, n) == \A x \in Sayings : Size(x) < n => is[x] = OneOf(is, x)

\* Two such functions agree where both are right.
LEMMA OverAgree ==
  ASSUME NEW f, NEW g, NEW n \in Nat, NEW m \in Nat, Over(f, n), Over(g, m),
         NEW z \in Sayings, Size(z) < n, Size(z) < m
  PROVE  f[z] = g[z]
<1> DEFINE S == {j \in Nat : \A x \in Sayings : Size(x) < j /\ Size(x) < n /\ Size(x) < m => f[x] = g[x]}
<1>1. 0 \in S
  <2>1. \A x \in Sayings : ~(Size(x) < 0)
    BY SizeType
  <2>2. QED
    BY <2>1
<1>2. ASSUME NEW j \in S
      PROVE  j + 1 \in S
  <2> SUFFICES ASSUME NEW x \in Sayings, Size(x) < j + 1, Size(x) < n, Size(x) < m
               PROVE  f[x] = g[x]
    OBVIOUS
  <2>1. ASSUME NEW y \in Sayings, Size(y) < Size(x)
        PROVE  f[y] = g[y]
    <3>1. Size(y) < j /\ Size(y) < n /\ Size(y) < m
      BY <2>1, SizeType
    <3>2. QED
      BY <3>1
  <2>2. OneOf(f, x) = OneOf(g, x)
    BY <2>1, OneOfShorter
  <2>3. QED
    BY <2>2 DEF Over
<1> HIDE DEF S
<1>3. S = Nat
  BY <1>1, <1>2, NatSetInduction DEF S
<1>4. Size(z) + 1 \in S /\ Size(z) < Size(z) + 1
  BY <1>3, SizeType
<1>5. QED
  BY <1>4 DEF S

\* For every size there is one, by induction.
LEMMA OverExists == \A n \in Nat : \E is : Over(is, n)
<1> DEFINE S == {n \in Nat : \E is : Over(is, n)}
<1>1. 0 \in S
  <2>1. Over(0, 0)
    BY SizeType DEF Over
  <2>2. QED
    BY <2>1
<1>2. ASSUME NEW n \in S
      PROVE  n + 1 \in S
  <2>1. PICK f : Over(f, n)
    OBVIOUS
  <2> DEFINE g == [x \in Sayings |-> OneOf(f, x)]
  <2>2. \A x \in Sayings : g[x] = OneOf(f, x)
    OBVIOUS
  <2> HIDE DEF g
  <2>3. \A x \in Sayings : Size(x) < n => g[x] = f[x]
    BY <2>1, <2>2 DEF Over
  <2>4. ASSUME NEW x \in Sayings, Size(x) < n + 1
        PROVE  g[x] = OneOf(g, x)
    <3>1. ASSUME NEW y \in Sayings, Size(y) < Size(x)
          PROVE  f[y] = g[y]
      <4>1. Size(y) < n
        BY <2>4, <3>1, SizeType
      <4>2. QED
        BY <4>1, <2>3
    <3>2. OneOf(f, x) = OneOf(g, x)
      BY <3>1, OneOfShorter
    <3>3. QED
      BY <2>2, <3>2
  <2>5. Over(g, n + 1)
    BY <2>4 DEF Over
  <2>6. QED
    BY <2>5
<1> HIDE DEF S
<1>3. S = Nat
  BY <1>1, <1>2, NatSetInduction DEF S
<1>4. QED
  BY <1>3 DEF S

\* Is by the name of what it is chosen for.
LEMMA IsChosen == Is = CHOOSE is : is = [x \in Sayings |-> OneOf(is, x)]
BY DEF Is, OneOf

\* There is such a grammar.
LEMMA Grammar == \A x \in Sayings : Is[x] = OneOf(Is, x)
<1> DEFINE Upto(n) == CHOOSE is : Over(is, n)
           whole == [x \in Sayings |-> Upto(Size(x) + 1)[x]]
<1>1. \A n \in Nat : Over(Upto(n), n)
  BY OverExists
<1> HIDE DEF Upto
<1>2. \A x \in Sayings : whole[x] = Upto(Size(x) + 1)[x]
  OBVIOUS
<1>3. ASSUME NEW x \in Sayings
      PROVE  whole[x] = OneOf(whole, x)
  <2> DEFINE f == Upto(Size(x) + 1)
  <2>1. Size(x) \in Nat /\ Over(f, Size(x) + 1)
    BY <1>1, SizeType
  <2>2. f[x] = OneOf(f, x)
    BY <2>1 DEF Over
  <2>3. ASSUME NEW y \in Sayings, Size(y) < Size(x)
        PROVE  f[y] = whole[y]
    <3> DEFINE g == Upto(Size(y) + 1)
    <3>1. Size(y) \in Nat /\ Over(g, Size(y) + 1)
      BY <1>1, SizeType
    <3>2. /\ Size(y) < Size(y) + 1 /\ Size(y) < Size(x) + 1
          /\ Size(y) + 1 \in Nat /\ Size(x) + 1 \in Nat
      BY <2>1, <2>3, <3>1
    <3> HIDE DEF f, g, whole
    <3>3. f[y] = g[y]
      BY <2>1, <3>1, <3>2, OverAgree
    <3>4. QED
      BY <1>2, <3>3 DEF g
  <2> HIDE DEF f, whole
  <2>4. OneOf(f, x) = OneOf(whole, x)
    BY <2>3, OneOfShorter
  <2>5. QED
    BY <1>2, <2>2, <2>4 DEF f
<1>4. whole = [x \in Sayings |-> OneOf(whole, x)]
  <2>1. \A x \in Sayings : whole[x] = OneOf(whole, x)
    BY <1>3
  <2>2. [x \in Sayings |-> whole[x]] = [x \in Sayings |-> OneOf(whole, x)]
    <3> HIDE DEF whole
    <3>1. QED
      BY <2>1
  <2>3. whole = [x \in Sayings |-> whole[x]]
    OBVIOUS
  <2>4. QED
    BY <2>2, <2>3
<1> HIDE DEF whole
<1>5. Is = [x \in Sayings |-> OneOf(Is, x)]
  <2>1. \E is : is = [x \in Sayings |-> OneOf(is, x)]
    BY <1>4
  <2>2. QED
    BY <2>1, IsChosen, Zenon
<1>6. QED
  <2>1. \A x \in Sayings : [y \in Sayings |-> OneOf(Is, y)][x] = OneOf(Is, x)
    OBVIOUS
  <2>2. QED
    BY <1>5, <2>1, Zenon

-----------------------------------------------------------------------------
(****************************************************************************)
(* Texts, their parts, and the values among them.                            *)
(****************************************************************************)

\* Texts, the tokens of one type, and what the grammar says of a text.
Texts == Seq(Token)
Punctuation(sign) == {c \in Token : c.type = sign}
Members(s) == Is[<<"members", s>>]
Elements(s) == Is[<<"elements", s>>]

\* Two texts one after the other.
LEMMA Concat ==
  ASSUME NEW s \in Texts, NEW u \in Texts
  PROVE  s \o u \in Texts /\ Len(s \o u) = Len(s) + Len(u) /\ Len(s) \in Nat /\ Len(u) \in Nat
BY DEF Texts

\* Three texts one after the other, by the name of the fact: as a fact about
\* concatenation it would be tried on every term there is.
Regroup(s, u, v) == (s \o u) \o v = s \o (u \o v)

\* Concatenation is associative.
LEMMA Assoc == \A s, u, v \in Texts : Regroup(s, u, v)
BY ConcatAssociative DEF Texts, Regroup

\* The three parts of a text.
Parted(s, a, c, b) ==
  /\ s \in Texts /\ Len(s) = Len(a) + 1 + Len(b) /\ Len(a) \in Nat /\ Len(b) \in Nat
  /\ SubSeq(s, 1, Len(a)) = a
  /\ s[Len(a) + 1] = c
  /\ SubSeq(s, Len(a) + 2, Len(s)) = b

\* A text made of two texts and a token between them has these parts.
LEMMA PartsOf ==
  ASSUME NEW a \in Texts, NEW c \in Token, NEW b \in Texts, NEW s, s = (a \o <<c>>) \o b
  PROVE  Parted(s, a, c, b)
<1> DEFINE ac == a \o <<c>>
<1>1. /\ ac \in Texts /\ Len(ac) = Len(a) + 1 /\ ac[Len(a) + 1] = c
      /\ \A j \in 1..Len(a) : ac[j] = a[j]
      /\ Len(a) \in Nat /\ Len(b) \in Nat
  BY DEF Texts
<1> HIDE DEF ac
<1>2. /\ s \in Texts /\ Len(s) = Len(ac) + Len(b)
      /\ \A j \in 1..(Len(ac) + Len(b)) : s[j] = IF j <= Len(ac) THEN ac[j] ELSE b[j - Len(ac)]
  <2>1. /\ ac \o b \in Texts /\ Len(ac \o b) = Len(ac) + Len(b)
        /\ \A j \in 1..(Len(ac) + Len(b)) :
             (ac \o b)[j] = IF j <= Len(ac) THEN ac[j] ELSE b[j - Len(ac)]
    BY <1>1, ConcatProperties, Zenon DEF Texts
  <2>2. s = ac \o b
    BY DEF ac
  <2>3. QED
    BY <2>1, <2>2
<1>3. SubSeq(s, 1, Len(a)) = a
  <2> DEFINE p == SubSeq(s, 1, Len(a))
  <2>1. p \in Texts /\ Len(p) = Len(a) /\ \A j \in 1..Len(a) : p[j] = s[j]
    BY <1>1, <1>2 DEF Texts
  <2> HIDE DEF p
  <2>2. \A j \in 1..Len(p) : p[j] = a[j]
    BY <1>1, <1>2, <2>1
  <2>3. QED
    BY <2>1, <2>2, SeqEqual DEF Texts, p
<1>4. s[Len(a) + 1] = c
  BY <1>1, <1>2
<1>5. SubSeq(s, Len(a) + 2, Len(s)) = b
  <2> DEFINE p == SubSeq(s, Len(a) + 2, Len(s))
  <2>1. p \in Texts /\ Len(p) = Len(b) /\ \A j \in 1..Len(b) : p[j] = s[Len(a) + 1 + j]
    BY <1>1, <1>2 DEF Texts
  <2> HIDE DEF p
  <2>2. ASSUME NEW j \in 1..Len(p)
        PROVE  p[j] = b[j]
    <3> DEFINE k == Len(a) + 1 + j
    <3>1. k \in 1..(Len(ac) + Len(b)) /\ ~(k <= Len(ac)) /\ k - Len(ac) = j /\ j \in 1..Len(b)
      BY <1>1, <2>1
    <3> HIDE DEF k
    <3>2. s[k] = b[j]
      BY <3>1, <1>2
    <3>3. QED
      BY <3>1, <3>2, <2>1 DEF k
  <2>3. QED
    BY <2>1, <2>2, SeqEqual DEF Texts, p
<1>6. QED
  BY <1>1, <1>2, <1>3, <1>4, <1>5 DEF Parted

\* A text around one of its tokens.
LEMMA PartsAt ==
  ASSUME NEW s \in Texts, NEW k \in 1..Len(s)
  PROVE  /\ SubSeq(s, 1, k - 1) \in Texts /\ SubSeq(s, k + 1, Len(s)) \in Texts /\ s[k] \in Token
         /\ s = SubSeq(s, 1, k - 1) \o <<s[k]>> \o SubSeq(s, k + 1, Len(s))
         /\ Len(SubSeq(s, k + 1, Len(s))) < Len(s)
<1> DEFINE a == SubSeq(s, 1, k - 1)
           b == SubSeq(s, k + 1, Len(s))
<1>1. /\ a \in Texts /\ b \in Texts /\ s[k] \in Token
      /\ Len(a) = k - 1 /\ Len(b) = Len(s) - k /\ Len(s) \in Nat
      /\ \A j \in 1..(k - 1) : a[j] = s[j]
      /\ \A j \in 1..(Len(s) - k) : b[j] = s[k + j]
  BY DEF Texts
<1> DEFINE c == a \o <<s[k]>>
<1>2. /\ c \in Texts /\ Len(c) = k /\ \A j \in 1..k : c[j] = s[j]
  <2> HIDE DEF a
  <2>1. c \in Texts /\ Len(c) = k /\ c[k] = s[k] /\ \A j \in 1..(k - 1) : c[j] = a[j]
    BY <1>1 DEF Texts
  <2> HIDE DEF c
  <2>2. QED
    BY <1>1, <2>1
<1> HIDE DEF c, b
<1>3. /\ c \o b \in Texts /\ Len(c \o b) = Len(s)
      /\ \A j \in 1..(Len(c) + Len(b)) : (c \o b)[j] = IF j <= Len(c) THEN c[j] ELSE b[j - Len(c)]
  <2>1. /\ c \o b \in Texts /\ Len(c \o b) = Len(c) + Len(b)
        /\ \A j \in 1..(Len(c) + Len(b)) : (c \o b)[j] = IF j <= Len(c) THEN c[j] ELSE b[j - Len(c)]
    BY <1>1, <1>2, ConcatProperties, Zenon DEF Texts
  <2>2. QED
    BY <2>1, <1>1, <1>2
<1>4. ASSUME NEW j \in 1..Len(s)
      PROVE  (c \o b)[j] = s[j]
  <2>1. j \in 1..(Len(c) + Len(b))
    BY <1>1, <1>2
  <2>2. CASE j <= k
    BY <1>2, <1>3, <2>1, <2>2
  <2>3. CASE ~(j <= k)
    <3> DEFINE i == j - k
    <3>1. i \in 1..(Len(s) - k) /\ k + i = j
      BY <1>1, <2>3
    <3> HIDE DEF i
    <3>2. b[i] = s[j]
      BY <3>1, <1>1
    <3>3. (c \o b)[j] = b[j - Len(c)] /\ j - Len(c) = i
      BY <1>2, <1>3, <2>1, <2>3 DEF i
    <3>4. QED
      BY <3>2, <3>3
  <2>4. QED
    BY <2>2, <2>3
<1>5. s = c \o b
  BY <1>3, <1>4, SeqEqual DEF Texts
<1>6. Len(b) < Len(s)
  BY <1>1
<1>7. QED
  BY <1>1, <1>5, <1>6, Zenon DEF a, b, c

\* The three rules of the grammar, for one text.
LEMMA ValueIs ==
  ASSUME NEW s \in Texts
  PROVE  IsValue(s) <=> ValueOf(Is, s, Len(s))
<1> DEFINE x == <<"value", s>>
<1>1. x \in Sayings
  BY DEF Sayings, Texts
<1>2. Is[x] = OneOf(Is, x)
  BY <1>1, Grammar
<1>3. OneOf(Is, x) <=> ValueOf(Is, s, Len(s))
  BY DEF OneOf
<1>4. QED
  BY <1>2, <1>3 DEF IsValue

LEMMA MembersIs ==
  ASSUME NEW s \in Texts
  PROVE  Members(s) <=> MembersOf(Is, s, Len(s))
<1> DEFINE x == <<"members", s>>
<1>1. x \in Sayings
  BY DEF Sayings, Texts
<1>2. Is[x] = OneOf(Is, x)
  BY <1>1, Grammar
<1>3. OneOf(Is, x) <=> MembersOf(Is, s, Len(s))
  BY DEF OneOf
<1>4. QED
  BY <1>2, <1>3 DEF Members

LEMMA ElementsIs ==
  ASSUME NEW s \in Texts
  PROVE  Elements(s) <=> ElementsOf(Is, s, Len(s))
<1> DEFINE x == <<"elements", s>>
<1>1. x \in Sayings
  BY DEF Sayings, Texts
<1>2. Is[x] = OneOf(Is, x)
  BY <1>1, Grammar
<1>3. OneOf(Is, x) <=> ElementsOf(Is, s, Len(s))
  BY DEF OneOf
<1>4. QED
  BY <1>2, <1>3 DEF Elements

\* No value is an empty text.
LEMMA ValueNotEmpty ==
  ASSUME NEW s \in Texts, IsValue(s)
  PROVE  Len(s) >= 1 /\ Len(s) \in Nat
<1>1. Len(s) \in Nat
  BY DEF Texts
<1>2. ValueOf(Is, s, Len(s))
  BY ValueIs
<1>3. Len(s) = 1 \/ Len(s) >= 2
  BY <1>2, Zenon DEF ValueOf
<1>4. QED
  BY <1>1, <1>3

\* A token for a scalar is a value.
LEMMA ScalarIsValue ==
  ASSUME NEW c \in Token, c.type \in Scalars
  PROVE  IsValue(<<c>>)
<1>1. <<c>> \in Texts /\ Len(<<c>>) = 1 /\ <<c>>[1] = c
  BY DEF Texts
<1>2. ValueOf(Is, <<c>>, 1)
  BY <1>1 DEF ValueOf
<1>3. QED
  BY <1>1, <1>2, ValueIs

\* What stands between the tokens of a container.
Contents(x, s) == IF x = "array" THEN Elements(s) ELSE Members(s)
Opening(x) == Punctuation(IF x = "array" THEN "begin_array" ELSE "begin_object")
Ending(x) == Punctuation(IF x = "array" THEN "end_array" ELSE "end_object")

\* The tokens around either container, and what is between them.
LEMMA Signs ==
  /\ \A sign : \A c \in Punctuation(sign) : c \in Token /\ c.type = sign
  /\ Opening("array") = Punctuation("begin_array") /\ Opening("object") = Punctuation("begin_object")
  /\ Ending("array") = Punctuation("end_array") /\ Ending("object") = Punctuation("end_object")
  /\ \A s : Contents("array", s) <=> Elements(s)
  /\ \A s : Contents("object", s) <=> Members(s)
<1>1. \A sign : \A c \in Punctuation(sign) : c \in Token /\ c.type = sign
  BY DEF Punctuation
<1>2. QED
  BY <1>1 DEF Opening, Ending, Contents

\* The types of those tokens.
LEMMA SignsOf ==
  ASSUME NEW x \in {"array", "object"}, NEW o \in Opening(x), NEW c \in Ending(x)
  PROVE  /\ o \in Token /\ c \in Token
         /\ x = "array" => o.type = "begin_array" /\ c.type = "end_array"
         /\ x = "object" => o.type = "begin_object" /\ c.type = "end_object"
<1>1. CASE x = "array"
  <2>1. o \in Punctuation("begin_array") /\ c \in Punctuation("end_array")
    BY <1>1, Signs, Zenon
  <2>2. QED
    BY <1>1, <2>1, Signs
<1>2. CASE x = "object"
  <2>1. o \in Punctuation("begin_object") /\ c \in Punctuation("end_object")
    BY <1>2, Signs, Zenon
  <2>2. QED
    BY <1>2, <2>1, Signs
<1>3. QED
  BY <1>1, <1>2

\* A container with nothing in it is a value.
LEMMA EmptyIsValue ==
  ASSUME NEW x \in {"array", "object"}, NEW o \in Opening(x), NEW c \in Ending(x)
  PROVE  IsValue(<<o, c>>)
<1>0. o \in Token /\ c \in Token
  BY SignsOf
<1>1. <<o, c>> \in Texts /\ Len(<<o, c>>) = 2 /\ <<o, c>>[1] = o /\ <<o, c>>[2] = c
  BY <1>0 DEF Texts
<1>2. (o.type = "begin_array" /\ c.type = "end_array") \/ (o.type = "begin_object" /\ c.type = "end_object")
  BY SignsOf
<1> DEFINE v == <<o, c>>
<1> HIDE DEF v
<1>5. v[1] = o /\ v[2] = c
  BY <1>1 DEF v
<1>3. ValueOf(Is, v, 2)
  <2>1. 2 >= 2
    OBVIOUS
  <2>2. QED
    BY <2>1, <1>2, <1>5, Zenon DEF ValueOf
<1>4. QED
  BY <1>1, <1>3, ValueIs DEF v

\* A container is a value.
LEMMA ContainerIsValue ==
  ASSUME NEW x \in {"array", "object"}, NEW o \in Opening(x), NEW c \in Ending(x),
         NEW s \in Texts, Contents(x, s)
  PROVE  IsValue((<<o>> \o s) \o <<c>>)
<1> DEFINE os == <<o>> \o s
           v == os \o <<c>>
           n == Len(s) + 2
<1>1. o \in Token /\ c \in Token /\ Len(s) \in Nat
  <2>1. o \in Token /\ c \in Token
    BY SignsOf
  <2>2. Len(s) \in Nat
    BY DEF Texts
  <2>3. QED
    BY <2>1, <2>2
<1>2. /\ os \in Texts /\ Len(os) = Len(s) + 1 /\ os[1] = o
      /\ \A j \in 1..Len(s) : os[j + 1] = s[j]
  BY <1>1 DEF Texts
<1> HIDE DEF os
<1>3. /\ v \in Texts /\ Len(v) = n /\ v[n] = c /\ \A j \in 1..(Len(s) + 1) : v[j] = os[j]
  BY <1>1, <1>2 DEF Texts
<1> HIDE DEF v
<1>4. SubSeq(v, 2, n - 1) = s
  <2> DEFINE p == SubSeq(v, 2, n - 1)
  <2>1. p \in Texts /\ Len(p) = Len(s) /\ \A j \in 1..Len(s) : p[j] = v[j + 1]
    BY <1>1, <1>3 DEF Texts
  <2> HIDE DEF p
  <2>2. \A j \in 1..Len(p) : p[j] = s[j]
    BY <1>1, <1>2, <1>3, <2>1
  <2>3. QED
    BY <2>1, <2>2, SeqEqual DEF Texts, p
<1>5. v[1] = o /\ n >= 2
  BY <1>1, <1>2, <1>3
<1>6. ValueOf(Is, v, n)
  <2>1. CASE x = "array"
    <3>1. o.type = "begin_array" /\ c.type = "end_array" /\ Is[<<"elements", s>>]
      BY <2>1, Signs, SignsOf DEF Elements
    <3> HIDE DEF n
    <3>2. QED
      BY <3>1, <1>3, <1>4, <1>5 DEF ValueOf
  <2>2. CASE x = "object"
    <3>1. o.type = "begin_object" /\ c.type = "end_object" /\ Is[<<"members", s>>]
      BY <2>2, Signs, SignsOf DEF Members
    <3> HIDE DEF n
    <3>2. QED
      BY <3>1, <1>3, <1>4, <1>5 DEF ValueOf
  <2>3. QED
    BY <2>1, <2>2
<1>7. QED
  BY <1>3, <1>6, ValueIs DEF v, os

-----------------------------------------------------------------------------
(****************************************************************************)
(* What stands in a container: members and elements are joined and split at  *)
(* their commas.                                                             *)
(****************************************************************************)

\* A member, of a key and a value.
Member(p) ==
  \E name \in Punctuation("string"), colon \in Punctuation("name_separator"), v \in Texts :
    IsValue(v) /\ p = <<name, colon>> \o v

\* The parts of a member.
LEMMA MemberParts ==
  ASSUME NEW name \in Token, NEW colon \in Token, NEW v \in Texts
  PROVE  LET p == <<name, colon>> \o v IN
         /\ p \in Texts /\ Len(p) = Len(v) + 2 /\ Len(v) \in Nat
         /\ p[1] = name /\ p[2] = colon /\ SubSeq(p, 3, Len(p)) = v
<1> DEFINE p == <<name, colon>> \o v
<1>1. /\ p \in Texts /\ Len(p) = Len(v) + 2 /\ Len(v) \in Nat /\ p[1] = name /\ p[2] = colon
      /\ \A j \in 1..Len(v) : p[j + 2] = v[j]
  BY DEF Texts
<1> HIDE DEF p
<1>2. SubSeq(p, 3, Len(p)) = v
  <2> DEFINE q == SubSeq(p, 3, Len(p))
  <2>1. q \in Texts /\ Len(q) = Len(v) /\ \A j \in 1..Len(v) : q[j] = p[j + 2]
    BY <1>1 DEF Texts
  <2> HIDE DEF q
  <2>2. \A j \in 1..Len(q) : q[j] = v[j]
    BY <1>1, <2>1
  <2>3. QED
    BY <2>1, <2>2, SeqEqual DEF Texts, q
<1>3. QED
  BY <1>1, <1>2 DEF p

\* One thing a container may hold: a value, or a member.
One(x, p) == IF x = "array" THEN IsValue(p) ELSE Member(p)

LEMMA OneIs ==
  /\ \A p : One("array", p) <=> IsValue(p)
  /\ \A p : One("object", p) <=> Member(p)
BY DEF One

\* One alone is all that stands in its container.
LEMMA OneIsContents ==
  ASSUME NEW x \in {"array", "object"}, NEW p \in Texts, One(x, p)
  PROVE  Contents(x, p)
<1>1. CASE x = "array"
  <2>1. Is[<<"value", p>>]
    BY <1>1, OneIs DEF IsValue
  <2>2. Elements(p)
    BY <2>1, ElementsIs, Zenon DEF ElementsOf
  <2>3. QED
    BY <1>1, <2>2, Signs
<1>2. CASE x = "object"
  <2>1. PICK name \in Punctuation("string"), colon \in Punctuation("name_separator"), v \in Texts :
          IsValue(v) /\ p = <<name, colon>> \o v
    BY <1>2, OneIs DEF Member
  <2>2. name \in Token /\ colon \in Token /\ name.type = "string" /\ colon.type = "name_separator"
    BY Signs
  <2>3. /\ Len(p) = Len(v) + 2 /\ Len(v) \in Nat
        /\ p[1] = name /\ p[2] = colon /\ SubSeq(p, 3, Len(p)) = v
    BY <2>1, <2>2, MemberParts
  <2>4. Len(p) >= 3
    BY <2>1, <2>3, ValueNotEmpty
  <2>5. MembersOf(Is, p, Len(p))
    BY <2>1, <2>2, <2>3, <2>4, Zenon DEF MembersOf, IsValue
  <2>6. QED
    BY <1>2, <2>5, MembersIs, Signs
<1>3. QED
  BY <1>1, <1>2

\* One, a comma and contents are contents.
LEMMA ContentsJoin ==
  ASSUME NEW x \in {"array", "object"}, NEW p \in Texts, NEW c \in Punctuation("value_separator"),
         NEW m \in Texts, One(x, p), Contents(x, m)
  PROVE  Contents(x, (p \o <<c>>) \o m)
<1> DEFINE s == (p \o <<c>>) \o m
           n == Len(s)
           k == Len(p) + 1
<1>1. c \in Token /\ c.type = "value_separator"
  BY Signs
<1>0. s = (p \o <<c>>) \o m
  OBVIOUS
<1> HIDE DEF s
<1>2. /\ s \in Texts /\ n = Len(p) + 1 + Len(m) /\ Len(p) \in Nat /\ Len(m) \in Nat
      /\ SubSeq(s, 1, Len(p)) = p /\ s[Len(p) + 1] = c /\ SubSeq(s, Len(p) + 2, n) = m
  <2>1. c \in Token
    BY <1>1
  <2>2. Parted(s, p, c, m)
    BY <1>0, <2>1, PartsOf
  <2>3. QED
    BY <2>2 DEF Parted
<1> HIDE DEF n
<1>3. SubSeq(s, 1, k - 1) = p /\ s[k].type = "value_separator" /\ SubSeq(s, k + 1, n) = m
  <2>1. k - 1 = Len(p) /\ k + 1 = Len(p) + 2
    BY <1>2
  <2>2. QED
    BY <1>1, <1>2, <2>1
<1>4. CASE x = "array"
  <2>1. Is[<<"value", p>>] /\ Is[<<"elements", m>>]
    BY <1>4, OneIs, Signs DEF IsValue, Elements
  <2>2. k \in 2..n
    BY <1>2, <2>1, ValueNotEmpty DEF IsValue
  <2> HIDE DEF k
  <2>3. ElementsOf(Is, s, n)
    BY <1>3, <2>1, <2>2, Zenon DEF ElementsOf
  <2>4. Elements(s)
    BY <1>2, <2>3, ElementsIs DEF n
  <2>5. QED
    BY <1>4, <2>4, Signs DEF s
<1>5. CASE x = "object"
  <2>1. PICK name \in Punctuation("string"), colon \in Punctuation("name_separator"), v \in Texts :
          IsValue(v) /\ p = <<name, colon>> \o v
    BY <1>5, OneIs DEF Member
  <2>2. name \in Token /\ colon \in Token /\ name.type = "string" /\ colon.type = "name_separator"
    BY Signs
  <2>3. /\ Len(p) = Len(v) + 2 /\ Len(v) \in Nat
        /\ p[1] = name /\ p[2] = colon /\ SubSeq(p, 3, Len(p)) = v
    BY <2>1, <2>2, MemberParts
  <2>4. Len(v) >= 1
    BY <2>1, ValueNotEmpty
  <2>5. k \in 4..n /\ n >= 3
    BY <1>2, <2>3, <2>4
  <2>6. s[1] = name /\ s[2] = colon /\ SubSeq(s, 3, k - 1) = v
    <3>1. \A j \in 1..Len(p) : s[j] = p[j]
      <4>1. \A j \in 1..Len(p) : SubSeq(s, 1, Len(p))[j] = s[j]
        BY <1>2 DEF Texts
      <4>2. QED
        BY <4>1, <1>2
    <3>2. 1 \in 1..Len(p) /\ 2 \in 1..Len(p)
      BY <2>3
    <3>3. SubSeq(s, 3, k - 1) = SubSeq(p, 3, Len(p))
      <4>1. 3 \in 1..Len(p) /\ Len(p) \in 1..Len(p) /\ k - 1 = Len(p)
        BY <2>3, <2>4
      <4>2. p \in Seq(Token) /\ <<c>> \o m \in Seq(Token) /\ s = p \o (<<c>> \o m)
        <5>1. <<c>> \in Texts
          BY <1>1 DEF Texts
        <5>2. QED
          BY <5>1, Assoc, Concat DEF s, Texts
      <4> HIDE DEF k
      <4>3. SubSeq(p \o (<<c>> \o m), 3, Len(p)) = SubSeq(p, 3, Len(p))
        BY <4>1, <4>2, SubSeqOfConcat1
      <4>4. QED
        BY <4>1, <4>2, <4>3
    <3>4. QED
      BY <3>1, <3>2, <3>3, <2>3
  <2>7. Is[<<"members", m>>]
    BY <1>5, Signs DEF Members
  <2> HIDE DEF k
  <2>8. MembersOf(Is, s, n)
    BY <1>3, <2>1, <2>2, <2>5, <2>6, <2>7, Zenon DEF MembersOf, IsValue
  <2>9. Members(s)
    BY <1>2, <2>8, MembersIs DEF n
  <2>10. QED
    BY <1>5, <2>9, Signs DEF s
<1>6. QED
  BY <1>4, <1>5

\* The text s is one, a comma, and shorter contents.
Splits(x, s) ==
  \E p \in Texts, c \in Punctuation("value_separator"), m \in Texts :
    One(x, p) /\ Contents(x, m) /\ s = (p \o <<c>>) \o m /\ Len(m) < Len(s)

\* Contents are one, or one before a comma and contents.
LEMMA ContentsSplit ==
  ASSUME NEW x \in {"array", "object"}, NEW s \in Texts, Contents(x, s)
  PROVE  One(x, s) \/ Splits(x, s)
<1> DEFINE n == Len(s)
<1>1. n \in Nat
  BY DEF Texts
<1>2. ASSUME NEW k \in 1..n, s[k].type = "value_separator",
             One(x, SubSeq(s, 1, k - 1)), Contents(x, SubSeq(s, k + 1, n))
      PROVE  Splits(x, s)
  <2> DEFINE p == SubSeq(s, 1, k - 1)
             m == SubSeq(s, k + 1, n)
  <2>1. p \in Texts /\ m \in Texts /\ s[k] \in Token /\ s = p \o <<s[k]>> \o m /\ Len(m) < Len(s)
    BY PartsAt, Zenon
  <2>2. s[k] \in Punctuation("value_separator")
    BY <1>2, <2>1 DEF Punctuation
  <2>3. One(x, p) /\ Contents(x, m)
    BY <1>2
  <2> HIDE DEF p, m
  <2>4. QED
    BY <2>1, <2>2, <2>3, Zenon DEF Splits
<1>3. CASE x = "array"
  <2>1. ElementsOf(Is, s, n)
    BY <1>3, Signs, ElementsIs
  <2>2. CASE Is[<<"value", s>>]
    BY <1>3, <2>2, OneIs DEF IsValue
  <2>3. CASE \E k \in 2..n : /\ s[k].type = "value_separator"
                             /\ Is[<<"value", SubSeq(s, 1, k - 1)>>]
                             /\ Is[<<"elements", SubSeq(s, k + 1, n)>>]
    <3>1. PICK k \in 2..n : /\ s[k].type = "value_separator"
                            /\ Is[<<"value", SubSeq(s, 1, k - 1)>>]
                            /\ Is[<<"elements", SubSeq(s, k + 1, n)>>]
      BY <2>3
    <3>2. One(x, SubSeq(s, 1, k - 1)) /\ Contents(x, SubSeq(s, k + 1, n))
      BY <1>3, <3>1, OneIs, Signs DEF IsValue, Elements
    <3>3. k \in 1..n
      BY <1>1
    <3>4. QED
      BY <1>2, <3>1, <3>2, <3>3
  <2>4. QED
    BY <2>1, <2>2, <2>3 DEF ElementsOf
<1>4. CASE x = "object"
  <2>1. MembersOf(Is, s, n)
    BY <1>4, Signs, MembersIs
  <2>2. n >= 3 /\ s[1].type = "string" /\ s[2].type = "name_separator"
    BY <2>1 DEF MembersOf
  <2>3. s[1] \in Punctuation("string") /\ s[2] \in Punctuation("name_separator")
    <3>1. s[1] \in Token /\ s[2] \in Token
      BY <2>2, <1>1 DEF Texts
    <3>2. QED
      BY <2>2, <3>1 DEF Punctuation
  <2>4. ASSUME NEW j \in 3..n, Is[<<"value", SubSeq(s, 3, j)>>]
        PROVE  Member(SubSeq(s, 1, j))
    <3> DEFINE v == SubSeq(s, 3, j)
    <3>1. v \in Texts
      BY <1>1 DEF Texts
    <3>2. SubSeq(s, 1, 2) = <<s[1], s[2]>>
      <4> DEFINE q == SubSeq(s, 1, 2)
      <4>1. q \in Texts /\ Len(q) = 2 /\ q[1] = s[1] /\ q[2] = s[2]
        BY <1>1, <2>2 DEF Texts
      <4> HIDE DEF q
      <4>2. q = <<q[1], q[2]>>
        BY <4>1 DEF Texts
      <4>3. QED
        BY <4>1, <4>2 DEF q
    <3>3. SubSeq(s, 1, 2) \o SubSeq(s, 2 + 1, j) = SubSeq(s, 1, j)
      <4>1. 1 \in 1..(Len(s) + 1) /\ 2 \in (1 - 1)..Len(s) /\ j \in 2..Len(s)
        BY <1>1, <2>2
      <4>2. QED
        BY <4>1, ConcatAdjacentSubSeq DEF Texts
    <3>4. SubSeq(s, 1, j) = <<s[1], s[2]>> \o v
      BY <3>2, <3>3
    <3> HIDE DEF v
    <3>5. IsValue(v)
      BY <2>4 DEF v, IsValue
    <3>6. QED
      BY <2>3, <3>1, <3>4, <3>5, Zenon DEF Member
  <2>5. CASE Is[<<"value", SubSeq(s, 3, n)>>]
    <3>1. n \in 3..n /\ SubSeq(s, 1, n) = s
      BY <1>1, <2>2 DEF Texts
    <3>2. Member(s)
      BY <2>4, <2>5, <3>1
    <3>3. QED
      BY <1>4, <3>2, OneIs
  <2>6. CASE \E k \in 4..n : /\ s[k].type = "value_separator"
                             /\ Is[<<"value", SubSeq(s, 3, k - 1)>>]
                             /\ Is[<<"members", SubSeq(s, k + 1, n)>>]
    <3>1. PICK k \in 4..n : /\ s[k].type = "value_separator"
                            /\ Is[<<"value", SubSeq(s, 3, k - 1)>>]
                            /\ Is[<<"members", SubSeq(s, k + 1, n)>>]
      BY <2>6
    <3>2. k - 1 \in 3..n /\ k \in 1..n
      BY <1>1
    <3>3. One(x, SubSeq(s, 1, k - 1)) /\ Contents(x, SubSeq(s, k + 1, n))
      BY <1>4, <2>4, <3>1, <3>2, OneIs, Signs DEF Members
    <3>4. QED
      BY <1>2, <3>1, <3>2, <3>3
  <2>7. QED
    BY <2>1, <2>5, <2>6 DEF MembersOf
<1>5. QED
  BY <1>3, <1>4

\* Contents, a comma and contents are contents.
LEMMA ContentsGrow ==
  ASSUME NEW x \in {"array", "object"}, NEW s \in Texts, NEW c \in Punctuation("value_separator"),
         NEW u \in Texts, Contents(x, s), Contents(x, u)
  PROVE  Contents(x, (s \o <<c>>) \o u)
<1> DEFINE Grows(e) == Contents(x, e) => Contents(x, (e \o <<c>>) \o u)
           S == {n \in Nat : \A e \in Texts : Len(e) < n => Grows(e)}
<1>1. 0 \in S
  <2>1. \A e \in Texts : Len(e) \in Nat
    BY DEF Texts
  <2>2. QED
    BY <2>1
<1>2. ASSUME NEW n \in S
      PROVE  n + 1 \in S
  <2> SUFFICES ASSUME NEW e \in Texts, Len(e) < n + 1, Contents(x, e)
               PROVE  Contents(x, (e \o <<c>>) \o u)
    OBVIOUS
  <2>1. CASE One(x, e)
    BY <2>1, ContentsJoin
  <2>2. CASE Splits(x, e)
    <3>1. PICK p \in Texts, d \in Punctuation("value_separator"), m \in Texts :
            One(x, p) /\ Contents(x, m) /\ e = (p \o <<d>>) \o m /\ Len(m) < Len(e)
      BY <2>2 DEF Splits
    <3>2. Len(m) < n
      <4>1. Len(m) \in Nat /\ Len(e) \in Nat
        BY DEF Texts
      <4>2. QED
        BY <4>1, <3>1
    <3>3. Contents(x, (m \o <<c>>) \o u)
      BY <3>1, <3>2
    <3>4. <<c>> \in Texts /\ <<d>> \in Texts
      BY Signs DEF Texts
    <3>5. (m \o <<c>>) \o u \in Texts
      BY <3>4, Concat
    <3>6. Contents(x, (p \o <<d>>) \o ((m \o <<c>>) \o u))
      BY <3>1, <3>3, <3>5, ContentsJoin
    <3>7. (p \o <<d>>) \o ((m \o <<c>>) \o u) = (e \o <<c>>) \o u
      <4> DEFINE pd == p \o <<d>>
                 mc == m \o <<c>>
      <4>1. pd \in Texts /\ mc \in Texts
        BY <3>4, Concat
      <4>2. e \o <<c>> = pd \o mc
        <5>1. pd \in Texts
          BY <4>1
        <5> HIDE DEF pd
        <5>2. (pd \o m) \o <<c>> = pd \o (m \o <<c>>)
          <6>1. Regroup(pd, m, <<c>>)
            BY <3>4, <5>1, Assoc
          <6>2. QED
            BY <3>4, <5>1, <6>1 DEF Regroup
        <5>3. QED
          BY <3>1, <5>2 DEF pd
      <4> HIDE DEF pd, mc
      <4>3. (pd \o mc) \o u = pd \o (mc \o u)
        <5>1. Regroup(pd, mc, u)
          BY <4>1, Assoc
        <5>2. QED
          BY <5>1 DEF Regroup
      <4>4. QED
        BY <4>2, <4>3 DEF pd, mc
    <3>8. QED
      BY <3>6, <3>7
  <2>3. QED
    BY <2>1, <2>2, ContentsSplit
<1> HIDE DEF S
<1>3. S = Nat
  BY <1>1, <1>2, NatSetInduction DEF S
<1>4. Len(s) + 1 \in S /\ Len(s) < Len(s) + 1
  <2>1. Len(s) \in Nat
    BY DEF Texts
  <2>2. QED
    BY <1>3, <2>1
<1>5. Grows(s)
  BY <1>4 DEF S
<1>6. QED
  BY <1>5

-----------------------------------------------------------------------------
(****************************************************************************)
(* The places of a text where a value is expected.                           *)
(****************************************************************************)

\* What stands before a value in a container: a key, if it is an object, behind what
\* stands before that.
Keyed(x) ==
  IF x = "array" THEN {<<>>}
  ELSE {<<name, colon>> : name \in Punctuation("string"), colon \in Punctuation("name_separator")}

\* What stands between the token that begins a container and a value in it.
Lead(x) ==
  Keyed(x) \cup
  {(p[1] \o <<p[2]>>) \o p[3] :
     p \in {s \in Texts : Contents(x, s)} \X Punctuation("value_separator") \X Keyed(x)}

\* With its key before it a value is one of the container's.
LEMMA KeyedIs ==
  ASSUME NEW x \in {"array", "object"}, NEW k \in Keyed(x), NEW v \in Texts, IsValue(v)
  PROVE  k \in Texts /\ One(x, k \o v) /\ k \o v \in Texts
<1>1. CASE x = "array"
  <2>1. k = <<>>
    BY <1>1 DEF Keyed
  <2>2. k \in Texts /\ k \o v = v
    BY <2>1, ConcatEmptySeq DEF Texts
  <2>3. QED
    BY <1>1, <2>2, OneIs
<1>2. CASE x = "object"
  <2>1. PICK name \in Punctuation("string"), colon \in Punctuation("name_separator") :
          k = <<name, colon>>
    BY <1>2 DEF Keyed
  <2>2. name \in Token /\ colon \in Token
    BY Signs
  <2>3. k \in Texts
    BY <2>1, <2>2 DEF Texts
  <2>4. Member(k \o v)
    BY <2>1 DEF Member
  <2>5. QED
    BY <1>2, <2>3, <2>4, OneIs, Concat
<1>3. QED
  BY <1>1, <1>2

\* A value ends the contents it is the last of.
LEMMA LeadIs ==
  ASSUME NEW x \in {"array", "object"}, NEW l \in Lead(x), NEW v \in Texts, IsValue(v)
  PROVE  l \in Texts /\ Contents(x, l \o v)
<1>1. CASE l \in Keyed(x)
  BY <1>1, KeyedIs, OneIsContents
<1>2. CASE l \notin Keyed(x)
  <2>1. PICK p \in {s \in Texts : Contents(x, s)} \X Punctuation("value_separator") \X Keyed(x) :
          l = (p[1] \o <<p[2]>>) \o p[3]
    BY <1>2 DEF Lead
  <2> DEFINE s == p[1]
             c == p[2]
             k == p[3]
  <2>2. /\ s \in Texts /\ Contents(x, s) /\ c \in Punctuation("value_separator") /\ k \in Keyed(x)
        /\ l = (s \o <<c>>) \o k
    BY <2>1
  <2> HIDE DEF s, c, k
  <2>3. k \in Texts /\ One(x, k \o v) /\ k \o v \in Texts
    BY <2>2, KeyedIs
  <2>4. <<c>> \in Texts
    BY <2>2, Signs DEF Texts
  <2>5. s \o <<c>> \in Texts
    BY <2>2, <2>4, Concat
  <2>6. Contents(x, (s \o <<c>>) \o (k \o v))
    BY <2>2, <2>3, OneIsContents, ContentsGrow
  <2>7. l \o v = (s \o <<c>>) \o (k \o v)
    <3>1. Regroup(s \o <<c>>, k, v)
      BY <2>2, <2>3, <2>5, Assoc
    <3>2. QED
      BY <2>2, <2>3, <2>5, <3>1 DEF Regroup
  <2>8. l \in Texts
    BY <2>2, <2>3, <2>5, Concat
  <2>9. QED
    BY <2>6, <2>7, <2>8
<1>3. QED
  BY <1>1, <1>2

\* Behind contents and a comma another value may begin.
LEMMA MoreLead ==
  ASSUME NEW x \in {"array", "object"}, NEW s \in Texts, Contents(x, s),
         NEW c \in Punctuation("value_separator"), NEW k \in Keyed(x)
  PROVE  (s \o <<c>>) \o k \in Lead(x)
<1> DEFINE p == <<s, c, k>>
<1>1. p \in {u \in Texts : Contents(x, u)} \X Punctuation("value_separator") \X Keyed(x)
  OBVIOUS
<1>2. (s \o <<c>>) \o k = (p[1] \o <<p[2]>>) \o p[3]
  OBVIOUS
<1> HIDE DEF p
<1>3. QED
  BY <1>1, <1>2 DEF Lead

\* r ends where, inside these containers, a value is expected: cut[j] is what comes
\* before the value of the j-th.
CutAt(cut, r, containers) ==
  /\ cut \in [0..Len(containers) -> Texts]
  /\ cut[0] = <<>> /\ cut[Len(containers)] = r
  /\ \A j \in 1..Len(containers) :
       \E o \in Opening(containers[j]), l \in Lead(containers[j]) :
         cut[j] = (cut[j - 1] \o <<o>>) \o l

\* r ends where a value is expected, inside these containers.
Hole(r, containers) == \E cut : CutAt(cut, r, containers)

Stacks == Seq({"array", "object"})

\* Outside of every container a value is expected at the beginning only.
LEMMA NoContainer == Hole(<<>>, <<>>) /\ \A r : Hole(r, <<>>) => r = <<>>
<1>1. Len(<<>>) = 0 /\ <<>> \in Texts
  BY DEF Texts
<1>2. CutAt([j \in 0..0 |-> <<>>], <<>>, <<>>)
  BY <1>1 DEF CutAt
<1>3. ASSUME NEW r, Hole(r, <<>>)
      PROVE  r = <<>>
  BY <1>1, <1>3 DEF Hole, CutAt
<1>4. QED
  BY <1>2, <1>3 DEF Hole

\* Such an r is a text.
LEMMA HoleType == \A st \in Stacks : \A r : Hole(r, st) => r \in Texts
<1> SUFFICES ASSUME NEW st \in Stacks, NEW r, Hole(r, st)
             PROVE  r \in Texts
  OBVIOUS
<1>1. Len(st) \in 0..Len(st)
  BY DEF Stacks
<1>2. QED
  BY <1>1 DEF Hole, CutAt

\* A container that begins where a value is expected makes another such place.
LEMMA Deeper ==
  ASSUME NEW st \in Stacks, NEW r, Hole(r, st), NEW x \in {"array", "object"},
         NEW o \in Opening(x), NEW l \in Lead(x), (r \o <<o>>) \o l \in Texts
  PROVE  Hole((r \o <<o>>) \o l, Append(st, x))
<1> DEFINE n == Len(st)
           new == (r \o <<o>>) \o l
           st1 == Append(st, x)
<1>1. PICK cut : CutAt(cut, r, st)
  BY DEF Hole
<1>2. /\ n \in Nat /\ Len(st1) = n + 1 /\ st1[n + 1] = x
      /\ \A j \in 1..n : st1[j] = st[j]
  BY DEF Stacks
<1>3. /\ cut \in [0..n -> Texts] /\ cut[0] = <<>> /\ cut[n] = r
      /\ \A j \in 1..n : \E u \in Opening(st[j]), m \in Lead(st[j]) :
           cut[j] = (cut[j - 1] \o <<u>>) \o m
  BY <1>1 DEF CutAt
<1> DEFINE more == [j \in 0..(n + 1) |-> IF j = n + 1 THEN new ELSE cut[j]]
<1> HIDE DEF n, new, st1
<1>4. /\ \A j \in 0..n : more[j] = cut[j]
      /\ more[n + 1] = new
      /\ more \in [0..(n + 1) -> Texts]
  <2>1. \A j \in 0..n : j # n + 1 /\ j \in 0..(n + 1)
    BY <1>2
  <2>2. \A j \in 0..(n + 1) : j = n + 1 \/ j \in 0..n
    BY <1>2
  <2>3. n + 1 \in 0..(n + 1) /\ new \in Texts
    BY <1>2 DEF new
  <2>4. QED
    BY <2>1, <2>2, <2>3, <1>3
<1> HIDE DEF more
<1>5. ASSUME NEW j \in 1..(n + 1)
      PROVE  \E u \in Opening(st1[j]), m \in Lead(st1[j]) : more[j] = (more[j - 1] \o <<u>>) \o m
  <2>1. CASE j = n + 1
    <3>1. j - 1 = n /\ n \in 0..n
      BY <1>2, <2>1
    <3>2. more[j - 1] = r /\ more[j] = new /\ st1[j] = x
      BY <3>1, <2>1, <1>2, <1>3, <1>4
    <3>3. QED
      BY <3>2 DEF new
  <2>2. CASE j # n + 1
    <3>1. j \in 1..n /\ j \in 0..n /\ j - 1 \in 0..n
      BY <1>2, <2>2
    <3>2. more[j] = cut[j] /\ more[j - 1] = cut[j - 1] /\ st1[j] = st[j]
      BY <3>1, <1>2, <1>4
    <3>3. QED
      BY <3>1, <3>2, <1>3
  <2>3. QED
    BY <2>1, <2>2
<1>6. more[0] = <<>>
  <2>1. 0 \in 0..n
    BY <1>2
  <2>2. QED
    BY <2>1, <1>3, <1>4
<1>7. CutAt(more, new, st1)
  BY <1>2, <1>4, <1>5, <1>6 DEF CutAt
<1>8. QED
  BY <1>7 DEF Hole, new, st1

\* A sequence is its front and its last.
LEMMA FrontIs ==
  ASSUME NEW S, NEW st \in Seq(S), st # <<>>
  PROVE  /\ Front(st) \in Seq(S) /\ Last(st) \in S /\ st = Append(Front(st), Last(st))
         /\ Len(st) \in Nat /\ Len(st) >= 1 /\ Len(Front(st)) = Len(st) - 1
         /\ Last(st) = st[Len(st)] /\ \A j \in 1..(Len(st) - 1) : Front(st)[j] = st[j]
<1> DEFINE n == Len(st)
           top == st[n]
           st0 == SubSeq(st, 1, n - 1)
<1>1. n \in Nat /\ n >= 1
  OBVIOUS
<1>2. \A j \in 1..n : st[j] \in S
  OBVIOUS
<1>3. st0 \in Seq(S) /\ Len(st0) = IF 1 <= n - 1 THEN n - 1 - 1 + 1 ELSE 0
  <2>1. 1 \in Int /\ n - 1 \in Int /\ \A j \in 1..(n - 1) : st[j] \in S
    BY <1>1, <1>2
  <2> HIDE DEF n
  <2>2. QED
    BY <2>1, SubSeqProperties
<1>4. \A j \in 1..(n - 1) : st0[j] = st[j]
  BY <1>1
<1>5. Front(st) = st0 /\ Last(st) = top
  BY DEF Front, Last
<1>6. st = Append(st0, top)
  <2> DEFINE u == Append(st0, top)
  <2> HIDE DEF st0, n
  <2>1. Len(st0) = n - 1 /\ top \in S
    BY <1>1, <1>2, <1>3
  <2> HIDE DEF top
  <2>2. u \in Seq(S) /\ Len(u) = n /\ u[n] = top /\ \A j \in 1..(n - 1) : u[j] = st0[j]
    BY <1>1, <1>3, <2>1
  <2> HIDE DEF u
  <2>3. \A j \in 1..n : u[j] = st[j]
    BY <1>1, <1>4, <2>2 DEF top
  <2>4. QED
    BY <2>2, <2>3, SeqEqual DEF u, n
<1> HIDE DEF n, st0, top
<1>7. Len(st0) = n - 1 /\ top \in S
  BY <1>1, <1>2, <1>3 DEF top
<1>8. QED
  BY <1>1, <1>3, <1>4, <1>5, <1>6, <1>7 DEF n, top

\* The value expected is one of the innermost container's.
Inner(r, st) ==
  \E s \in Texts, o \in Opening(Last(st)), l \in Lead(Last(st)) :
    Hole(s, Front(st)) /\ r = (s \o <<o>>) \o l

\* Every place inside a container is one of the innermost container's.
LEMMA Shallower ==
  ASSUME NEW st \in Stacks, st # <<>>, NEW r, Hole(r, st)
  PROVE  Inner(r, st)
<1> DEFINE n == Len(st)
           top == st[n]
           st0 == Front(st)
<1>1. /\ n \in Nat /\ n >= 1 /\ top \in {"array", "object"}
      /\ st0 \in Stacks /\ Len(st0) = n - 1 /\ st = Append(st0, top)
      /\ \A j \in 1..(n - 1) : st0[j] = st[j]
      /\ Last(st) = top
  BY FrontIs DEF Stacks
<1>2. Front(st) = st0 /\ Last(st) = top
  BY <1>1
<1>3. PICK cut : CutAt(cut, r, st)
  BY DEF Hole
<1>4. /\ cut \in [0..n -> Texts] /\ cut[0] = <<>> /\ cut[n] = r
      /\ \A j \in 1..n : \E u \in Opening(st[j]), m \in Lead(st[j]) :
           cut[j] = (cut[j - 1] \o <<u>>) \o m
  BY <1>3 DEF CutAt
<1> HIDE DEF n, top, st0
<1> DEFINE less == [j \in 0..(n - 1) |-> cut[j]]
<1>5. /\ \A j \in 0..(n - 1) : less[j] = cut[j]
      /\ less \in [0..(n - 1) -> Texts]
  <2>1. \A j \in 0..(n - 1) : j \in 0..n
    BY <1>1
  <2>2. QED
    BY <2>1, <1>4
<1> HIDE DEF less
<1>6. CutAt(less, cut[n - 1], st0)
  <2>1. 0 \in 0..(n - 1) /\ n - 1 \in 0..(n - 1)
    BY <1>1
  <2>2. ASSUME NEW j \in 1..(n - 1)
        PROVE  \E u \in Opening(st0[j]), m \in Lead(st0[j]) :
                 less[j] = (less[j - 1] \o <<u>>) \o m
    <3>1. j \in 1..n /\ j \in 0..(n - 1) /\ j - 1 \in 0..(n - 1)
      BY <1>1
    <3>2. st0[j] = st[j] /\ less[j] = cut[j] /\ less[j - 1] = cut[j - 1]
      BY <3>1, <1>1, <1>5
    <3>3. \E u \in Opening(st[j]), m \in Lead(st[j]) : cut[j] = (cut[j - 1] \o <<u>>) \o m
      BY <3>1, <1>4
    <3>4. QED
      BY <3>2, <3>3
  <2>3. QED
    BY <2>1, <2>2, <1>1, <1>4, <1>5 DEF CutAt
<1>7. cut[n - 1] \in Texts
  <2>1. n - 1 \in 0..n
    BY <1>1
  <2>2. QED
    BY <2>1, <1>4
<1>8. \E u \in Opening(top), m \in Lead(top) : cut[n] = (cut[n - 1] \o <<u>>) \o m
  <2>1. n \in 1..n
    BY <1>1
  <2>2. QED
    BY <2>1, <1>4 DEF top
<1>9. Hole(cut[n - 1], st0)
  BY <1>6 DEF Hole
<1>10. \E s \in Texts, o \in Opening(top), l \in Lead(top) :
         Hole(s, st0) /\ r = (s \o <<o>>) \o l
  BY <1>4, <1>7, <1>8, <1>9
<1>11. QED
  BY <1>2, <1>10 DEF Inner

-----------------------------------------------------------------------------
(****************************************************************************)
(* The rest of a value that is not complete.                                 *)
(****************************************************************************)

\* The token that closes a container.
CloserOf(x) == IF x = "array" THEN Tok("end_array") ELSE Tok("end_object")

\* The tokens without a text.
LEMMA TokIs ==
  \A type \in Scalars \cup Structural :
    Tok(type) \in Token /\ Tok(type).type = type
<1>1. \E e \in STRING : \A type : Tok(type) = [type |-> type, val |-> e]
  <2>1. "none" \in STRING
    BY ParserAssumption
  <2>2. \A type : Tok(type) = [type |-> type, val |-> "none"]
    BY Zenon DEF Tok
  <2>3. QED
    BY <2>1, <2>2, Zenon
<1>2. QED
  BY <1>1 DEF Token

\* The tokens that complete a value are what they are taken for.
LEMMA SignsOfTokens ==
  /\ Null \in Token /\ IsValue(<<Null>>)
  /\ \A x \in {"array", "object"} : CloserOf(x) \in Token
  /\ \A x \in {"array", "object"} : CloserOf(x) \in Ending(x)
  /\ Tok("name_separator") \in Punctuation("name_separator")
  /\ Tok("string") \in Punctuation("string")
<1>1. Null \in Token /\ Null.type \in Scalars
  BY TokIs, Zenon DEF Null, Scalars
<1>2. \A x \in {"array", "object"} : CloserOf(x) \in Ending(x)
  <2>1. /\ Tok("end_array") \in Punctuation("end_array")
        /\ Tok("end_object") \in Punctuation("end_object")
    BY TokIs, Zenon DEF Punctuation, Structural
  <2>2. QED
    BY <2>1, Zenon DEF CloserOf, Ending
<1>3. /\ Tok("name_separator") \in Punctuation("name_separator")
      /\ Tok("string") \in Punctuation("string")
  BY TokIs, Zenon DEF Punctuation, Scalars, Structural
<1>4. \A x \in {"array", "object"} : CloserOf(x) \in Token
  BY <1>2, Signs, Zenon DEF Ending
<1>5. QED
  BY <1>1, <1>2, <1>3, <1>4, ScalarIsValue

\* The containers are closed from the innermost one outwards.
LEMMA ClosingIs ==
  /\ Closing(<<>>) = <<>>
  /\ \A st \in Stacks :
       /\ Closing(st) \in Texts
       /\ st # <<>> => Closing(st) = <<CloserOf(Last(st))>> \o Closing(Front(st))
<1>1. Closing(<<>>) = <<>>
  BY DEF Closing
<1>2. ASSUME NEW st \in Stacks
      PROVE  /\ Closing(st) \in Texts /\ Len(Closing(st)) = Len(st) /\ Len(st) \in Nat
             /\ \A i \in 1..Len(st) : Closing(st)[i] = CloserOf(st[Len(st) - i + 1])
  <2>1. DOMAIN st = 1..Len(st) /\ Len(st) \in Nat /\ \A i \in 1..Len(st) : st[i] \in {"array", "object"}
    BY DEF Stacks
  <2>2. \A i \in 1..Len(st) : Reverse(st)[i] = st[Len(st) - i + 1]
    BY <2>1 DEF Reverse
  <2>3. Closing(st) = [i \in 1..Len(st) |-> CloserOf(st[Len(st) - i + 1])]
    BY <2>1, <2>2 DEF Closing, CloserOf
  <2>4. \A i \in 1..Len(st) : CloserOf(st[Len(st) - i + 1]) \in Token
    <3> SUFFICES ASSUME NEW i \in 1..Len(st)
                 PROVE  CloserOf(st[Len(st) - i + 1]) \in Token
      OBVIOUS
    <3>1. Len(st) - i + 1 \in 1..Len(st)
      BY <2>1
    <3>2. st[Len(st) - i + 1] \in {"array", "object"}
      BY <2>1, <3>1
    <3>3. QED
      BY <3>2, SignsOfTokens
  <2> DEFINE c == Closing(st)
             f(i) == CloserOf(st[Len(st) - i + 1])
             n == Len(st)
  <2>5. c = [i \in 1..n |-> f(i)] /\ n \in Nat /\ \A i \in 1..n : f(i) \in Token
    BY <2>1, <2>3, <2>4
  <2> HIDE DEF c, f, n
  <2>6. c \in Seq(Token) /\ Len(c) = n /\ \A i \in 1..n : c[i] = f(i)
    BY <2>5
  <2>7. QED
    BY <2>1, <2>6 DEF c, f, n, Texts
<1>3. ASSUME NEW st \in Stacks, st # <<>>
      PROVE  Closing(st) = <<CloserOf(Last(st))>> \o Closing(Front(st))
  <2> DEFINE n == Len(st)
             c == Closing(st)
             c0 == Closing(Front(st))
             e == <<CloserOf(Last(st))>>
             d == e \o c0
  <2>1. /\ n \in Nat /\ n >= 1 /\ Front(st) \in Stacks /\ Len(Front(st)) = n - 1
        /\ Last(st) = st[n] /\ \A j \in 1..(n - 1) : Front(st)[j] = st[j]
    <3>1. n \in Nat /\ n >= 1 /\ Last(st) = st[n]
      BY <1>3 DEF Stacks, Last
    <3>2. Front(st) \in Stacks /\ Len(Front(st)) = n - 1
      BY <1>3, FrontIs DEF Stacks
    <3>3. \A j \in 1..(n - 1) : Front(st)[j] = st[j]
      BY <3>1 DEF Stacks, Front
    <3>4. QED
      BY <3>1, <3>2, <3>3
  <2>2. /\ c \in Texts /\ Len(c) = n /\ c0 \in Texts /\ Len(c0) = n - 1
        /\ \A i \in 1..n : c[i] = CloserOf(st[n - i + 1])
        /\ \A i \in 1..(n - 1) : c0[i] = CloserOf(Front(st)[n - 1 - i + 1])
    BY <1>2, <2>1
  <2>3. e \in Texts /\ Len(e) = 1 /\ e[1] = CloserOf(st[n])
    <3>1. st[n] \in {"array", "object"}
      BY <2>1 DEF Stacks
    <3>2. CloserOf(st[n]) \in Token
      BY <3>1, SignsOfTokens
    <3>3. QED
      BY <3>2, <2>1 DEF Texts
  <2> HIDE DEF c, c0, e, n
  <2>4. /\ d \in Texts /\ Len(d) = n
        /\ \A i \in 1..n : d[i] = IF i <= 1 THEN e[i] ELSE c0[i - 1]
    <3>1. /\ d \in Texts /\ Len(d) = Len(e) + Len(c0)
          /\ \A i \in 1..(Len(e) + Len(c0)) : d[i] = IF i <= Len(e) THEN e[i] ELSE c0[i - Len(e)]
      BY <2>2, <2>3, ConcatProperties, Zenon DEF Texts
    <3> HIDE DEF d
    <3>2. QED
      BY <3>1, <2>1, <2>2, <2>3
  <2> HIDE DEF d
  <2>5. ASSUME NEW i \in 1..n
        PROVE  d[i] = c[i]
    <3>1. CASE i = 1
      <4>1. n - i + 1 = n
        BY <3>1, <2>1
      <4>2. QED
        BY <3>1, <4>1, <2>2, <2>3, <2>4
    <3>2. CASE i # 1
      <4> DEFINE k == i - 1
                 m == n - i + 1
      <4>1. k \in 1..(n - 1) /\ ~(i <= 1) /\ n - 1 - k + 1 = m /\ m \in 1..(n - 1)
        BY <3>2, <2>1
      <4>2. d[i] = c0[k] /\ c[i] = CloserOf(st[m])
        BY <4>1, <2>2, <2>4
      <4> HIDE DEF k, m
      <4>3. c0[k] = CloserOf(Front(st)[m]) /\ Front(st)[m] = st[m]
        BY <4>1, <2>1, <2>2
      <4>4. QED
        BY <4>2, <4>3
    <3>3. QED
      BY <3>1, <3>2
  <2>6. d = c
    BY <2>2, <2>4, <2>5, SeqEqual DEF Texts
  <2>7. QED
    BY <2>6 DEF c, d, e, c0
<1>4. QED
  BY <1>1, <1>2, <1>3

\* A value at such a place and the tokens that close the containers are a value.
LEMMA Completion ==
  ASSUME NEW st \in Stacks, NEW r, Hole(r, st), NEW v \in Texts, IsValue(v)
  PROVE  IsValue((r \o v) \o Closing(st))
<1> DEFINE Completes(u) == \A q : \A w \in Texts :
             Hole(q, u) /\ IsValue(w) => IsValue((q \o w) \o Closing(u))
           S == {n \in Nat : \A u \in Stacks : Len(u) = n => Completes(u)}
<1>1. 0 \in S
  <2> SUFFICES ASSUME NEW u \in Stacks, Len(u) = 0, NEW q, NEW w \in Texts, Hole(q, u), IsValue(w)
               PROVE  IsValue((q \o w) \o Closing(u))
    OBVIOUS
  <2>1. u = <<>>
    BY DEF Stacks
  <2>2. q = <<>> /\ Closing(u) = <<>>
    BY <2>1, NoContainer, ClosingIs
  <2>3. (<<>> \o w) \o <<>> = w
    BY DEF Texts
  <2>4. QED
    BY <2>2, <2>3
<1>2. ASSUME NEW n \in S
      PROVE  n + 1 \in S
  <2> SUFFICES ASSUME NEW u \in Stacks, Len(u) = n + 1, NEW q, NEW w \in Texts, Hole(q, u), IsValue(w)
               PROVE  IsValue((q \o w) \o Closing(u))
    OBVIOUS
  <2> DEFINE x == Last(u)
             u0 == Front(u)
  <2>1. u # <<>>
    BY DEF Stacks
  <2>2. u0 \in Stacks /\ x \in {"array", "object"} /\ Len(u0) = n
    <3>1. /\ u0 \in Seq({"array", "object"}) /\ x \in {"array", "object"}
          /\ Len(u0) = Len(u) - 1
      BY <2>1, FrontIs DEF Stacks
    <3> HIDE DEF u0, x
    <3>2. QED
      BY <3>1 DEF Stacks
  <2>3. PICK s \in Texts, o \in Opening(x), l \in Lead(x) : Hole(s, u0) /\ q = (s \o <<o>>) \o l
    <3>1. Inner(q, u)
      BY <2>1, Shallower
    <3>2. QED
      BY <3>1, Zenon DEF Inner
  <2>4. l \in Texts /\ Contents(x, l \o w)
    BY <2>2, <2>3, LeadIs
  <2> DEFINE c == CloserOf(x)
             lw == l \o w
             val == (<<o>> \o lw) \o <<c>>
             rest0 == Closing(u0)
  <2>5. c \in Ending(x) /\ o \in Token /\ c \in Token /\ lw \in Texts
    BY <2>2, <2>4, SignsOfTokens, SignsOf, Concat
  <2>6. <<o>> \in Texts /\ <<c>> \in Texts /\ rest0 \in Texts /\ <<o>> \o lw \in Texts /\ val \in Texts
    <3>1. <<o>> \in Texts /\ <<c>> \in Texts
      BY <2>5 DEF Texts
    <3>2. rest0 \in Texts
      BY <2>2, ClosingIs
    <3>3. QED
      BY <3>1, <3>2, <2>5, Concat
  <2>7. IsValue(val)
    BY <2>2, <2>3, <2>4, <2>5, ContainerIsValue
  <2>8. IsValue((s \o val) \o rest0)
    BY <2>2, <2>3, <2>6, <2>7
  <2>9. Closing(u) = <<c>> \o rest0
    BY <2>1, ClosingIs
  <2>10. (q \o w) \o Closing(u) = (s \o val) \o rest0
    <3> HIDE DEF rest0, c
    <3>1. (q \o w) = s \o (<<o>> \o lw)
      <4>1. s \o <<o>> \in Texts
        BY <2>6, Concat
      <4>2. q \o w = (s \o <<o>>) \o lw
        <5>1. Regroup(s \o <<o>>, l, w)
          BY <2>3, <2>4, <4>1, Assoc
        <5>2. QED
          BY <2>3, <2>4, <4>1, <5>1 DEF Regroup
      <4>3. QED
        <5>1. Regroup(s, <<o>>, lw)
          BY <4>2, <2>5, <2>6, Assoc
        <5>2. QED
          BY <4>2, <2>5, <2>6, <5>1 DEF Regroup
    <3>2. s \o (<<o>> \o lw) \in Texts
      BY <2>6, Concat
    <3> HIDE DEF lw
    <3>3. (q \o w) \o (<<c>> \o rest0) = ((s \o (<<o>> \o lw)) \o <<c>>) \o rest0
      <4> DEFINE z == s \o (<<o>> \o lw)
      <4>1. z \in Texts /\ q \o w = z
        BY <3>1, <3>2
      <4> HIDE DEF z
      <4>2. z \o (<<c>> \o rest0) = (z \o <<c>>) \o rest0
        <5>1. Regroup(z, <<c>>, rest0)
          BY <4>1, <2>6, Assoc
        <5>2. QED
          BY <4>1, <2>6, <5>1 DEF Regroup
      <4>3. QED
        BY <4>1, <4>2, Zenon DEF z
    <3>4. (s \o (<<o>> \o lw)) \o <<c>> = s \o val
      <4>1. Regroup(s, <<o>> \o lw, <<c>>)
        BY <2>6, Assoc
      <4>2. QED
        BY <2>6, <4>1 DEF Regroup
    <3>5. QED
      BY <2>9, <3>3, <3>4
  <2>11. QED
    BY <2>8, <2>10
<1> HIDE DEF S
<1>3. S = Nat
  BY <1>1, <1>2, NatSetInduction DEF S
<1>4. Len(st) \in S
  BY <1>3 DEF Stacks
<1>5. QED
  BY <1>4 DEF S

-----------------------------------------------------------------------------
(****************************************************************************)
(* What the parser has read, at each of its places.                          *)
(****************************************************************************)

\* What was read, at each place of the grammar.
ReadAt ==
  /\ at = "value" => Hole(read, states)
  /\ at = "object" =>
       \E r \in Texts, o \in Opening("object") : Hole(r, states) /\ read = r \o <<o>>
  /\ at = "array" =>
       \E r \in Texts, o \in Opening("array") : Hole(r, states) /\ read = r \o <<o>>
  /\ at = "first_separator" =>
       \E r \in Texts, o \in Opening("object"), name \in Punctuation("string") :
         Hole(r, states) /\ read = (r \o <<o>>) \o <<name>>
  /\ at = "separator" =>
       \A colon \in Punctuation("name_separator") : Hole(read \o <<colon>>, states)
  /\ at = "key" =>
       \A name \in Punctuation("string"), colon \in Punctuation("name_separator") :
         Hole(read \o <<name, colon>>, states)
  /\ at = "evaluate" =>
       \E r \in Texts, v \in Texts : Hole(r, states) /\ IsValue(v) /\ read = r \o v
  /\ at = "accepted" => IsValue(read)

\* The places of the parser's loop.
Places == {"value", "object", "array", "first_separator", "separator", "key",
           "evaluate", "accepted", "error"}

\* The invariant: where the parser is, what it has read and the containers it
\* remembers belong together.
ReadInv ==
  /\ text \in Texts /\ read \in Texts /\ states \in Stacks /\ at \in Places
  /\ ReadAt

\* Texts of one and of two tokens, and a token more.
LEMMA ShortTexts ==
  /\ \A c \in Token : <<c>> \in Texts
  /\ \A c, d \in Token : <<c, d>> \in Texts /\ <<c>> \o <<d>> = <<c, d>>
  /\ \A s \in Texts : \A c \in Token : Append(s, c) = s \o <<c>> /\ s \o <<c>> \in Texts
  /\ \A s \in Texts : s \o <<>> = s /\ <<>> \o s = s
<1>1. \A c \in Token : <<c>> \in Texts
  BY DEF Texts
<1>2. ASSUME NEW c \in Token, NEW d \in Token
      PROVE  <<c, d>> \in Texts /\ <<c>> \o <<d>> = <<c, d>>
  <2> DEFINE u == <<c, d>>
             v == <<c>> \o <<d>>
  <2>1. u \in Texts /\ Len(u) = 2 /\ u[1] = c /\ u[2] = d
    BY DEF Texts
  <2>2. v \in Texts /\ Len(v) = 2 /\ v[1] = c /\ v[2] = d
    BY DEF Texts
  <2> HIDE DEF u, v
  <2>3. \A j \in 1..2 : u[j] = v[j]
    BY <2>1, <2>2
  <2>4. u = v
    BY <2>1, <2>2, <2>3, SeqEqual DEF Texts
  <2>5. QED
    BY <2>1, <2>4 DEF u, v
<1>3. ASSUME NEW s \in Texts, NEW c \in Token
      PROVE  Append(s, c) = s \o <<c>> /\ s \o <<c>> \in Texts
  BY AppendIsConcat, <1>1, Concat DEF Texts
<1>4. ASSUME NEW s \in Texts
      PROVE  s \o <<>> = s /\ <<>> \o s = s
  BY ConcatEmptySeq DEF Texts
<1>5. QED
  BY <1>1, <1>2, <1>3, <1>4

\* What was accepted is a value; what was read before that is the beginning of one.
Completable ==
  /\ at = "accepted" => IsValue(read)
  /\ at \notin {"accepted", "error"} => IsValue(read \o Missing)

\* What was read before the parser is in error can be completed to a value:
\* the witness closes the containers behind what the place expects.
LEMMA ReadIsCompletable == ReadInv => Completable
<1> SUFFICES ASSUME ReadInv
             PROVE  Completable
  OBVIOUS
<1> DEFINE close == Closing(states)
           colon == Tok("name_separator")
           name == Tok("string")
<1>1. read \in Texts /\ states \in Stacks /\ close \in Texts /\ at \in Places
  BY ClosingIs DEF ReadInv
<1>2. /\ colon \in Token /\ name \in Token /\ Null \in Token /\ <<Null>> \in Texts /\ IsValue(<<Null>>)
      /\ colon \in Punctuation("name_separator") /\ name \in Punctuation("string")
      /\ Tok("end_object") \in Ending("object") /\ Tok("end_array") \in Ending("array")
      /\ Tok("end_object") \in Token /\ Tok("end_array") \in Token
  <2>1. Tok("end_object") = CloserOf("object") /\ Tok("end_array") = CloserOf("array")
    BY Zenon DEF CloserOf
  <2>2. QED
    BY <2>1, SignsOfTokens, ShortTexts, Signs
<1> HIDE DEF close, colon, name
<1>4. at = "accepted" => IsValue(read)
  BY DEF ReadInv, ReadAt
<1>5. CASE at = "value"
  <2>1. Missing = (<<Null>> \o <<>>) \o close
    BY <1>5 DEF Missing, close
  <2>2. Missing = <<Null>> \o close
    BY <2>1, <1>2, ShortTexts
  <2>3. Hole(read, states)
    BY <1>5 DEF ReadInv, ReadAt
  <2>4. IsValue((read \o <<Null>>) \o close)
    BY <1>1, <1>2, <2>3, Completion DEF close
  <2>5. read \o Missing = (read \o <<Null>>) \o close
    <3>1. Regroup(read, <<Null>>, close)
      BY <1>1, <1>2, <2>2, Assoc
    <3>2. QED
      BY <1>1, <1>2, <2>2, <3>1 DEF Regroup
  <2>6. QED
    BY <1>5, <2>4, <2>5 DEF Completable
<1>6. CASE at \in {"object", "array"}
  <2> DEFINE c == IF at = "object" THEN Tok("end_object") ELSE Tok("end_array")
  <2>1. Missing = (<<c>> \o <<>>) \o close
    BY <1>6 DEF Missing, close
  <2>2. c \in Ending(at) /\ c \in Token
    BY <1>2, <1>6
  <2> HIDE DEF c
  <2>3. Missing = <<c>> \o close
    BY <2>1, <2>2, ShortTexts
  <2>4. PICK r \in Texts, o \in Opening(at) : Hole(r, states) /\ read = r \o <<o>>
    BY <1>6, Zenon DEF ReadInv, ReadAt
  <2>5. o \in Token /\ IsValue(<<o, c>>) /\ <<o, c>> \in Texts /\ <<o>> \in Texts /\ <<c>> \in Texts
    BY <1>6, <2>2, <2>4, SignsOf, EmptyIsValue, ShortTexts
  <2>6. IsValue((r \o <<o, c>>) \o close)
    BY <1>1, <2>4, <2>5, Completion DEF close
  <2>7. r \o <<o, c>> = read \o <<c>>
    <3>1. <<o, c>> = <<o>> \o <<c>>
      BY <2>2, <2>5, ShortTexts
    <3>2. QED
      <4>1. Regroup(r, <<o>>, <<c>>)
        BY <2>4, <2>5, <3>1, Assoc
      <4>2. QED
        BY <2>4, <2>5, <3>1, <4>1 DEF Regroup
  <2>8. read \o Missing = (read \o <<c>>) \o close
    <3>1. Regroup(read, <<c>>, close)
      BY <1>1, <2>3, <2>5, Assoc
    <3>2. QED
      BY <1>1, <2>3, <2>5, <3>1 DEF Regroup
  <2>9. IsValue(read \o Missing)
    BY <2>6, <2>7, <2>8
  <2>10. QED
    BY <1>6, <2>9 DEF Completable
<1>7. CASE at = "first_separator"
  <2> DEFINE c == Tok("end_object")
             cn == <<colon, Null>>
  <2>1. Missing = (cn \o <<c>>) \o close
    BY <1>7 DEF Missing, close, colon
  <2>2. c \in Ending("object") /\ c \in Token /\ <<c>> \in Texts /\ cn \in Texts
    BY <1>2, ShortTexts
  <2>3. cn = <<colon>> \o <<Null>>
    BY <1>2, ShortTexts
  <2>4. PICK r \in Texts, o \in Opening("object"), n \in Punctuation("string") :
          Hole(r, states) /\ read = (r \o <<o>>) \o <<n>>
    BY <1>7 DEF ReadInv, ReadAt
  <2>5. n \in Token /\ o \in Token /\ <<n>> \in Texts /\ <<o>> \in Texts /\ <<colon>> \in Texts
    BY <1>2, Signs, SignsOf, <2>2, ShortTexts
  <2> DEFINE k == <<n, colon>>
             m == k \o <<Null>>
             v == (<<o>> \o m) \o <<c>>
  <2>6. k \in Keyed("object") /\ k \in Texts /\ k = <<n>> \o <<colon>>
    <3>1. k \in Keyed("object")
      BY <1>2 DEF Keyed
    <3>2. QED
      BY <3>1, <1>2, <2>5, ShortTexts
  <2>7. m \in Texts /\ Contents("object", m)
    <3>1. One("object", m) /\ m \in Texts
      BY <1>2, <2>6, KeyedIs
    <3>2. QED
      BY <3>1, OneIsContents
  <2> HIDE DEF k, c, cn
  <2>8. IsValue(v)
    BY <2>2, <2>4, <2>7, ContainerIsValue
  <2>9. <<o>> \o m \in Texts /\ v \in Texts
    BY <2>2, <2>5, <2>7, Concat
  <2>10. IsValue((r \o v) \o close)
    BY <1>1, <2>4, <2>8, <2>9, Completion DEF close
  <2>11. r \o v = (read \o cn) \o <<c>>
    <3>1. r \o v = (r \o (<<o>> \o m)) \o <<c>>
      <4>1. Regroup(r, <<o>> \o m, <<c>>)
        BY <2>2, <2>4, <2>9, Assoc
      <4>2. QED
        BY <2>2, <2>4, <2>9, <4>1 DEF Regroup
    <3>2. r \o (<<o>> \o m) = (r \o <<o>>) \o m
      <4>1. Regroup(r, <<o>>, m)
        BY <2>4, <2>5, <2>7, Assoc
      <4>2. QED
        BY <2>4, <2>5, <2>7, <4>1 DEF Regroup
    <3>3. m = <<n>> \o cn
      <4>1. Regroup(<<n>>, <<colon>>, <<Null>>)
        BY <1>2, <2>3, <2>5, <2>6, Assoc
      <4>2. QED
        BY <1>2, <2>3, <2>5, <2>6, <4>1 DEF Regroup
    <3>4. r \o <<o>> \in Texts
      BY <2>4, <2>5, Concat
    <3> HIDE DEF m
    <3>5. (r \o <<o>>) \o (<<n>> \o cn) = ((r \o <<o>>) \o <<n>>) \o cn
      <4>1. Regroup(r \o <<o>>, <<n>>, cn)
        BY <2>2, <2>5, <3>4, Assoc DEF cn
      <4>2. QED
        BY <2>2, <2>5, <3>4, <4>1 DEF Regroup, cn
    <3>6. QED
      BY <2>4, <3>1, <3>2, <3>3, <3>5
  <2>12. read \o Missing = ((read \o cn) \o <<c>>) \o close
    <3>1. read \o cn \in Texts /\ cn \o <<c>> \in Texts
      BY <1>1, <2>2, Concat DEF cn
    <3>2. read \o Missing = (read \o (cn \o <<c>>)) \o close
      <4>1. Regroup(read, cn \o <<c>>, close)
        BY <1>1, <2>1, <3>1, Assoc
      <4>2. QED
        BY <1>1, <2>1, <3>1, <4>1 DEF Regroup
    <3>3. read \o (cn \o <<c>>) = (read \o cn) \o <<c>>
      <4>1. Regroup(read, cn, <<c>>)
        BY <1>1, <2>2, Assoc DEF cn
      <4>2. QED
        BY <1>1, <2>2, <4>1 DEF Regroup, cn
    <3>4. QED
      BY <3>2, <3>3
  <2>13. IsValue(read \o Missing)
    BY <2>10, <2>11, <2>12
  <2>14. QED
    BY <1>7, <2>13 DEF Completable
<1>8. CASE at = "separator"
  <2> DEFINE cn == <<colon, Null>>
             rc == read \o <<colon>>
  <2>1. Missing = (cn \o <<>>) \o close
    BY <1>8 DEF Missing, close, colon
  <2>2. cn \in Texts /\ cn = <<colon>> \o <<Null>> /\ <<colon>> \in Texts
    BY <1>2, ShortTexts
  <2> HIDE DEF cn
  <2>3. Missing = cn \o close
    BY <2>1, <2>2, ShortTexts
  <2>4. Hole(rc, states)
    BY <1>2, <1>8 DEF ReadInv, ReadAt
  <2>5. IsValue((rc \o <<Null>>) \o close)
    BY <1>1, <1>2, <2>4, Completion DEF close
  <2>6. rc \o <<Null>> = read \o cn
    <3>1. Regroup(read, <<colon>>, <<Null>>)
      BY <1>1, <1>2, <2>2, Assoc
    <3>2. QED
      BY <1>1, <1>2, <2>2, <3>1 DEF Regroup
  <2>7. read \o Missing = (read \o cn) \o close
    <3>1. Regroup(read, cn, close)
      BY <1>1, <2>2, <2>3, Assoc
    <3>2. QED
      BY <1>1, <2>2, <2>3, <3>1 DEF Regroup
  <2>8. IsValue(read \o Missing)
    BY <2>5, <2>6, <2>7
  <2>9. QED
    BY <1>8, <2>8 DEF Completable
<1>9. CASE at = "key"
  <2> DEFINE k == <<name, colon>>
             knc == <<name, colon, Null>>
             rk == read \o k
  <2>1. Missing = (knc \o <<>>) \o close
    BY <1>9 DEF Missing, close, colon, name
  <2>2. knc \in Texts /\ knc = k \o <<Null>> /\ k \in Texts
    <3>1. k \in Texts
      BY <1>2, ShortTexts
    <3>2. \A a, b, c \in Token : <<a, b, c>> \in Texts /\ <<a, b, c>> = <<a, b>> \o <<c>>
      BY DEF Texts
    <3>3. QED
      BY <1>2, <3>1, <3>2
  <2>4. Hole(rk, states)
    BY <1>2, <1>9 DEF ReadInv, ReadAt
  <2> HIDE DEF k, knc
  <2>3. Missing = knc \o close
    BY <2>1, <2>2, ShortTexts
  <2>5. IsValue((rk \o <<Null>>) \o close)
    BY <1>1, <1>2, <2>4, Completion DEF close
  <2>6. rk \o <<Null>> = read \o knc
    <3>1. Regroup(read, k, <<Null>>)
      BY <1>1, <1>2, <2>2, Assoc
    <3>2. QED
      BY <1>1, <1>2, <2>2, <3>1 DEF Regroup
  <2>7. read \o Missing = (read \o knc) \o close
    <3>1. Regroup(read, knc, close)
      BY <1>1, <2>2, <2>3, Assoc
    <3>2. QED
      BY <1>1, <2>2, <2>3, <3>1 DEF Regroup
  <2>8. IsValue(read \o Missing)
    BY <2>5, <2>6, <2>7
  <2>9. QED
    BY <1>9, <2>8 DEF Completable
<1>10. CASE at = "evaluate"
  <2>1. Missing = (<<>> \o <<>>) \o close
    BY <1>10 DEF Missing, close
  <2>2. Missing = close
    <3>1. <<>> \o <<>> = <<>>
      BY ShortTexts DEF Texts
    <3>2. QED
      BY <2>1, <3>1, <1>1, ShortTexts
  <2>3. PICK r \in Texts, v \in Texts : Hole(r, states) /\ IsValue(v) /\ read = r \o v
    BY <1>10 DEF ReadInv, ReadAt
  <2>4. IsValue((r \o v) \o close)
    BY <1>1, <2>3, Completion DEF close
  <2>5. QED
    BY <1>10, <2>2, <2>3, <2>4 DEF Completable
<1>11. CASE at \in {"accepted", "error"}
  BY <1>4, <1>11 DEF Completable
<1>12. QED
  BY <1>1, <1>5, <1>6, <1>7, <1>8, <1>9, <1>10, <1>11 DEF Places

\* A step of the parser reads one token.
LEMMA TookToken ==
  ASSUME ReadInv, NEW where, GetToken(where)
  PROVE  /\ t \in Token /\ <<t>> \in Texts /\ read' = read \o <<t>>
         /\ read' \in Texts /\ text' \in Texts
         /\ at = where
<1>1. text \in Texts /\ read \in Texts
  BY DEF ReadInv
<1>2. t \in Token
  <2>1. CASE text = <<>>
    BY <2>1, TokIs DEF t, EndOfInput, Structural
  <2>2. CASE text # <<>>
    BY <1>1, <2>2 DEF t, Texts
  <2>3. QED
    BY <2>1, <2>2
<1>3. text' \in Texts
  BY <1>1 DEF GetToken, Texts
<1>4. read' = Append(read, t) /\ at = where
  BY DEF GetToken
<1>5. QED
  BY <1>1, <1>2, <1>3, <1>4, ShortTexts

\* A token where a value is expected: a scalar is a value, a container begins.
LEMMA SwitchReads ==
  ASSUME NEW r \in Texts, NEW st, Hole(r, st), states' = st, Switch,
         t \in Token, <<t>> \in Texts, read' = r \o <<t>>
  PROVE  ReadAt' /\ at' \in Places
<1>1. CASE t.type = "begin_object" /\ at' = "object"
  <2>1. t \in Opening("object")
    BY <1>1, Signs DEF Punctuation
  <2>2. QED
    BY <1>1, <2>1, Zenon DEF ReadAt, Places
<1>2. CASE t.type = "begin_array" /\ at' = "array"
  <2>1. t \in Opening("array")
    BY <1>2, Signs DEF Punctuation
  <2>2. QED
    BY <1>2, <2>1, Zenon DEF ReadAt, Places
<1>3. CASE t.type \in Scalars /\ at' = "evaluate"
  <2>1. IsValue(<<t>>)
    BY <1>3, ScalarIsValue
  <2>2. QED
    BY <1>3, <2>1, Zenon DEF ReadAt, Places
<1>4. CASE at' = "error"
  BY <1>4, Zenon DEF ReadAt, Places
<1>5. QED
  BY <1>1, <1>2, <1>3, <1>4, Zenon DEF Switch

\* Of a text that is in error nothing is said.
LEMMA ErrorReads == at' = "error" => ReadAt' /\ at' \in Places
BY Zenon DEF ReadAt, Places

\* Each step of the parser preserves it.
LEMMA ValueReads == ReadInv /\ Value => ReadInv'
<1> SUFFICES ASSUME ReadInv, Value
             PROVE  ReadInv'
  OBVIOUS
<1>1. /\ t \in Token /\ <<t>> \in Texts /\ read' = read \o <<t>> /\ read' \in Texts
      /\ text' \in Texts /\ at = "value"
  BY TookToken DEF Value
<1>2. Switch /\ states' = states
  BY DEF Value
<1>3. read \in Texts /\ states \in Stacks /\ Hole(read, states)
  BY <1>1 DEF ReadInv, ReadAt
<1>4. ReadAt' /\ at' \in Places
  BY <1>1, <1>2, <1>3, SwitchReads
<1>5. QED
  BY <1>1, <1>2, <1>3, <1>4 DEF ReadInv

LEMMA ObjectBegunReads == ReadInv /\ ObjectBegun => ReadInv'
<1> SUFFICES ASSUME ReadInv, ObjectBegun
             PROVE  ReadInv'
  OBVIOUS
<1>1. /\ t \in Token /\ <<t>> \in Texts /\ read' = read \o <<t>> /\ read' \in Texts
      /\ text' \in Texts /\ at = "object"
  BY TookToken DEF ObjectBegun
<1>2. states \in Stacks
  BY DEF ReadInv
<1>3. PICK r \in Texts, o \in Opening("object") : Hole(r, states) /\ read = r \o <<o>>
  BY <1>1, Zenon DEF ReadInv, ReadAt
<1>4. o \in Token
  BY <1>3, Signs, Zenon
<1>5. CASE t.type = "end_object" /\ at' = "evaluate" /\ states' = states
  <2>1. t \in Ending("object")
    BY <1>1, <1>5, Signs DEF Punctuation
  <2>2. IsValue(<<o, t>>) /\ <<o, t>> \in Texts /\ <<o>> \o <<t>> = <<o, t>> /\ <<o>> \in Texts
    BY <1>1, <1>3, <1>4, <2>1, EmptyIsValue, ShortTexts
  <2>3. read' = r \o <<o, t>>
    <3>1. Regroup(r, <<o>>, <<t>>)
      BY <1>1, <1>3, <2>2, Assoc
    <3>2. QED
      BY <1>1, <1>3, <2>2, <3>1 DEF Regroup
  <2>4. ReadAt' /\ at' \in Places
    BY <1>3, <1>5, <2>2, <2>3, Zenon DEF ReadAt, Places
  <2>5. QED
    BY <1>1, <1>2, <1>5, <2>4 DEF ReadInv
<1>6. CASE t.type = "string" /\ at' = "first_separator" /\ states' = states
  <2>1. t \in Punctuation("string")
    BY <1>1, <1>6 DEF Punctuation
  <2>2. ReadAt' /\ at' \in Places
    BY <1>1, <1>3, <1>6, <2>1, Zenon DEF ReadAt, Places
  <2>3. QED
    BY <1>1, <1>2, <1>6, <2>2 DEF ReadInv
<1>7. CASE at' = "error" /\ states' = states
  BY <1>1, <1>2, <1>7, ErrorReads DEF ReadInv
<1>8. QED
  BY <1>5, <1>6, <1>7, Zenon DEF ObjectBegun, Error

LEMMA ArrayBegunReads == ReadInv /\ ArrayBegun => ReadInv'
<1> SUFFICES ASSUME ReadInv, ArrayBegun
             PROVE  ReadInv'
  OBVIOUS
<1>1. /\ t \in Token /\ <<t>> \in Texts /\ read' = read \o <<t>> /\ read' \in Texts
      /\ text' \in Texts /\ at = "array"
  BY TookToken DEF ArrayBegun
<1>2. states \in Stacks /\ read \in Texts
  BY DEF ReadInv
<1>3. PICK r \in Texts, o \in Opening("array") : Hole(r, states) /\ read = r \o <<o>>
  BY <1>1, Zenon DEF ReadInv, ReadAt
<1>4. o \in Token
  BY <1>3, Signs, Zenon
<1>5. CASE t.type = "end_array" /\ at' = "evaluate" /\ states' = states
  <2>1. t \in Ending("array")
    BY <1>1, <1>5, Signs DEF Punctuation
  <2>2. IsValue(<<o, t>>) /\ <<o, t>> \in Texts /\ <<o>> \o <<t>> = <<o, t>> /\ <<o>> \in Texts
    BY <1>1, <1>3, <1>4, <2>1, EmptyIsValue, ShortTexts
  <2>3. read' = r \o <<o, t>>
    <3>1. Regroup(r, <<o>>, <<t>>)
      BY <1>1, <1>3, <2>2, Assoc
    <3>2. QED
      BY <1>1, <1>3, <2>2, <3>1 DEF Regroup
  <2>4. ReadAt' /\ at' \in Places
    BY <1>3, <1>5, <2>2, <2>3, Zenon DEF ReadAt, Places
  <2>5. QED
    BY <1>1, <1>2, <1>5, <2>4 DEF ReadInv
<1>6. CASE states' = InArray /\ Switch
  <2> DEFINE st == Append(states, "array")
  <2>1. st \in Stacks /\ states' = st
    BY <1>2, <1>6 DEF Stacks, InArray
  <2>2. <<>> \in Lead("array")
    <3>1. <<>> \in Keyed("array")
      BY DEF Keyed
    <3>2. QED
      BY <3>1, Zenon DEF Lead
  <2>3. (r \o <<o>>) \o <<>> = read
    BY <1>2, <1>3, ShortTexts
  <2>4. Hole((r \o <<o>>) \o <<>>, st)
    BY <1>2, <1>3, <2>2, <2>3, Deeper
  <2>5. Hole(read, st)
    BY <2>3, <2>4
  <2> HIDE DEF st
  <2>6. ReadAt' /\ at' \in Places
    BY <1>1, <1>2, <1>6, <2>1, <2>5, SwitchReads
  <2>7. QED
    BY <1>1, <2>1, <2>6 DEF ReadInv
<1>7. QED
  BY <1>5, <1>6, Zenon DEF ArrayBegun

LEMMA SeparatorReads == ReadInv /\ Separator => ReadInv'
<1> SUFFICES ASSUME ReadInv, Separator
             PROVE  ReadInv'
  OBVIOUS
<1>1. /\ t \in Token /\ <<t>> \in Texts /\ read' = read \o <<t>> /\ read' \in Texts
      /\ text' \in Texts
  BY TookToken DEF Separator
<1>2. states \in Stacks
  BY DEF ReadInv
<1>3. CASE /\ at = "first_separator" /\ t.type = "name_separator" /\ at' = "value"
           /\ states' = Append(states, "object")
  <2>1. PICK r \in Texts, o \in Opening("object"), name \in Punctuation("string") :
          Hole(r, states) /\ read = (r \o <<o>>) \o <<name>>
    BY <1>3, Zenon DEF ReadInv, ReadAt
  <2> DEFINE l == <<name, t>>
             st == Append(states, "object")
  <2>2. t \in Punctuation("name_separator") /\ name \in Token /\ o \in Token
    BY <1>1, <1>3, <2>1, Signs DEF Punctuation
  <2>3. l \in Lead("object")
    <3>1. l \in Keyed("object")
      BY <2>1, <2>2 DEF Keyed
    <3>2. QED
      BY <3>1 DEF Lead
  <2>4. st \in Stacks
    BY <1>2 DEF Stacks
  <2>5. l \in Texts /\ l = <<name>> \o <<t>> /\ <<name>> \in Texts /\ <<o>> \in Texts
    BY <1>1, <2>2, ShortTexts
  <2> HIDE DEF l, st
  <2>6. (r \o <<o>>) \o l = read'
    <3>1. r \o <<o>> \in Texts
      BY <2>1, <2>5, Concat
    <3>2. QED
      <4>1. Regroup(r \o <<o>>, <<name>>, <<t>>)
        BY <1>1, <2>1, <2>5, <3>1, Assoc
      <4>2. QED
        BY <1>1, <2>1, <2>5, <3>1, <4>1 DEF Regroup
  <2>7. (r \o <<o>>) \o l \in Texts
    BY <1>1, <2>6
  <2>8. Hole((r \o <<o>>) \o l, st)
    BY <1>2, <2>1, <2>3, <2>7, Deeper DEF st
  <2>9. Hole(read', st) /\ states' = st
    BY <1>3, <2>6, <2>8 DEF st
  <2>10. ReadAt' /\ at' \in Places
    BY <1>3, <2>9, Zenon DEF ReadAt, Places
  <2>11. QED
    BY <1>1, <2>4, <2>9, <2>10 DEF ReadInv
<1>4. CASE at = "separator" /\ t.type = "name_separator" /\ at' = "value" /\ states' = states
  <2>1. t \in Punctuation("name_separator")
    BY <1>1, <1>4 DEF Punctuation
  <2>2. Hole(read', states')
    BY <1>1, <1>4, <2>1 DEF ReadInv, ReadAt
  <2>3. ReadAt' /\ at' \in Places
    BY <1>4, <2>2, Zenon DEF ReadAt, Places
  <2>4. QED
    BY <1>1, <1>2, <1>4, <2>3 DEF ReadInv
<1>5. CASE at' = "error" /\ states' = states
  BY <1>1, <1>2, <1>5, ErrorReads DEF ReadInv
<1>6. QED
  BY <1>3, <1>4, <1>5, Zenon DEF Separator, Error, GetToken

LEMMA KeyReads == ReadInv /\ Key => ReadInv'
<1> SUFFICES ASSUME ReadInv, Key
             PROVE  ReadInv'
  OBVIOUS
<1>1. /\ t \in Token /\ <<t>> \in Texts /\ read' = read \o <<t>> /\ read' \in Texts
      /\ text' \in Texts /\ at = "key"
  BY TookToken DEF Key
<1>2. states \in Stacks /\ read \in Texts
  BY DEF ReadInv
<1>3. CASE t.type = "string" /\ at' = "separator" /\ states' = states
  <2>1. t \in Punctuation("string")
    BY <1>1, <1>3 DEF Punctuation
  <2>2. ASSUME NEW colon \in Punctuation("name_separator")
        PROVE  Hole(read' \o <<colon>>, states)
    <3>1. colon \in Token
      BY Signs
    <3>2. <<colon>> \in Texts /\ <<t, colon>> = <<t>> \o <<colon>>
      BY <1>1, <3>1, ShortTexts
    <3>3. Hole(read \o <<t, colon>>, states)
      BY <1>1, <2>1 DEF ReadInv, ReadAt
    <3>4. read \o <<t, colon>> = read' \o <<colon>>
      <4>1. read \o (<<t>> \o <<colon>>) = (read \o <<t>>) \o <<colon>>
        <5>1. Regroup(read, <<t>>, <<colon>>)
          BY <1>1, <1>2, <3>2, Assoc
        <5>2. QED
          BY <1>1, <1>2, <3>2, <5>1 DEF Regroup
      <4>2. QED
        BY <1>1, <3>2, <4>1, Zenon
    <3>5. QED
      BY <3>3, <3>4
  <2>3. ReadAt' /\ at' \in Places
    BY <1>3, <2>2, Zenon DEF ReadAt, Places
  <2>4. QED
    BY <1>1, <1>2, <1>3, <2>3 DEF ReadInv
<1>4. CASE at' = "error" /\ states' = states
  BY <1>1, <1>2, <1>4, ErrorReads DEF ReadInv
<1>5. QED
  BY <1>3, <1>4, Zenon DEF Key, Error

\* A token that the innermost container takes for its end is its end.
LEMMA CloserIs ==
  ASSUME NEW x \in {"array", "object"}, t \in Token, t.type \in Closer(x)
  PROVE  t \in Ending(x)
<1>1. CASE x = "array"
  <2>1. t.type = "end_array"
    BY <1>1, Zenon DEF Closer
  <2>2. QED
    BY <1>1, <2>1, Signs DEF Punctuation
<1>2. CASE x = "object"
  <2>1. t.type = "end_object"
    BY <1>2, Zenon DEF Closer
  <2>2. QED
    BY <1>2, <2>1, Signs DEF Punctuation
<1>3. QED
  BY <1>1, <1>2

\* Behind a value: the end of the text, a comma, or the innermost container's
\* end, which makes the container the value.
LEMMA EvaluateReads == ReadInv /\ Evaluate => ReadInv'
<1> SUFFICES ASSUME ReadInv, Evaluate
             PROVE  ReadInv'
  OBVIOUS
<1>1. /\ states \in Stacks /\ read \in Texts /\ text \in Texts
      /\ at = "evaluate"
  BY Zenon DEF ReadInv, Evaluate, GetToken
<1>2. PICK r \in Texts, v \in Texts : Hole(r, states) /\ IsValue(v) /\ read = r \o v
  BY <1>1, Zenon DEF ReadInv, ReadAt
<1>3. CASE /\ states = <<>> /\ at' = "accepted"
           /\ UNCHANGED <<textVars, states, domVars>>
  <2>1. r = <<>>
    BY <1>2, <1>3, NoContainer
  <2>2. read = v
    BY <1>2, <2>1, ShortTexts
  <2>3. read' = read /\ text' = text /\ states' = states
    BY <1>3 DEF textVars
  <2>4. ReadAt' /\ at' \in Places
    BY <1>2, <1>3, <2>2, <2>3, Zenon DEF ReadAt, Places
  <2>5. QED
    BY <1>1, <2>3, <2>4 DEF ReadInv
<1>4. CASE /\ states # <<>> /\ GetToken("evaluate")
           /\ \/ /\ t.type = "value_separator"
                 /\ at' = (IF Last(states) = "array" THEN "value" ELSE "key")
                 /\ UNCHANGED <<states, domVars>>
              \/ /\ t.type \in Closer(Last(states)) /\ end
                 /\ states' = Front(states)
                 /\ UNCHANGED at
              \/ t.type \notin Closer(Last(states)) \cup {"value_separator"} /\ Error
  <2> DEFINE x == Last(states)
             st0 == Front(states)
  <2>1. /\ t \in Token /\ <<t>> \in Texts /\ read' = read \o <<t>> /\ read' \in Texts
        /\ text' \in Texts
    BY <1>4, TookToken
  <2>2. st0 \in Stacks /\ x \in {"array", "object"} /\ states = Append(st0, x)
    BY <1>1, <1>4, FrontIs DEF Stacks
  <2>3. PICK s \in Texts, o \in Opening(x), l \in Lead(x) : Hole(s, st0) /\ r = (s \o <<o>>) \o l
    <3>1. Inner(r, states)
      BY <1>1, <1>2, <1>4, Shallower
    <3>2. QED
      BY <3>1, Zenon DEF Inner
  <2> HIDE DEF st0, x
  <2> DEFINE lv == l \o v
             so == s \o <<o>>
  <2>4. l \in Texts /\ Contents(x, lv) /\ lv \in Texts
    <3>1. l \in Texts /\ Contents(x, lv)
      BY <1>2, <2>2, <2>3, LeadIs
    <3>2. QED
      BY <1>2, <3>1, Concat
  <2>5. <<o>> \in Texts /\ so \in Texts /\ o \in Token
    <3>1. o \in Token
      BY <2>2, <2>3, SignsOfTokens, SignsOf
    <3>2. QED
      BY <2>3, <3>1, ShortTexts, Concat
  <2>6. read = so \o lv
    <3> HIDE DEF so
    <3>1. so \in Texts /\ l \in Texts /\ v \in Texts
      BY <1>2, <2>4, <2>5
    <3>2. (so \o l) \o v = so \o (l \o v)
      <4>1. Regroup(so, l, v)
        BY <3>1, Assoc
      <4>2. QED
        BY <3>1, <4>1 DEF Regroup
    <3>3. QED
      BY <1>2, <2>3, <3>2, Zenon DEF so
  <2>7. CASE t.type = "value_separator" /\ at' = (IF x = "array" THEN "value" ELSE "key") /\ states' = states
    <3>1. t \in Punctuation("value_separator")
      BY <2>1, <2>7 DEF Punctuation
    <3>2. ASSUME NEW k \in Keyed(x), k \in Texts
          PROVE  Hole(read' \o k, states)
      <4> DEFINE l2 == (lv \o <<t>>) \o k
      <4>1. l2 \in Lead(x)
        BY <2>2, <2>4, <3>1, <3>2, MoreLead
      <4>2. lv \o <<t>> \in Texts /\ l2 \in Texts /\ so \o l2 \in Texts
        BY <2>1, <2>4, <2>5, <3>2, Concat
      <4>3. so \o l2 = read' \o k
        <5> HIDE DEF lv, so
        <5>1. read' = so \o (lv \o <<t>>)
          <6>1. so \in Texts /\ lv \in Texts /\ <<t>> \in Texts
            BY <2>1, <2>4, <2>5
          <6>2. (so \o lv) \o <<t>> = so \o (lv \o <<t>>)
            <7>1. Regroup(so, lv, <<t>>)
              BY <6>1, Assoc
            <7>2. QED
              BY <6>1, <7>1 DEF Regroup
          <6>3. QED
            BY <2>1, <2>6, <6>2, Zenon
        <5>2. (so \o (lv \o <<t>>)) \o k = so \o l2
          <6> DEFINE lt == lv \o <<t>>
          <6>1. so \in Texts /\ lt \in Texts /\ k \in Texts
            BY <2>5, <3>2, <4>2
          <6> HIDE DEF lt
          <6>2. (so \o lt) \o k = so \o (lt \o k)
            <7>1. Regroup(so, lt, k)
              BY <6>1, Assoc
            <7>2. QED
              BY <6>1, <7>1 DEF Regroup
          <6>3. QED
            BY <6>2 DEF lt
        <5>3. QED
          BY <5>1, <5>2, Zenon
      <4> HIDE DEF l2
      <4>4. Hole(so \o l2, Append(st0, x))
        BY <2>2, <2>3, <4>1, <4>2, Deeper
      <4>5. QED
        BY <2>2, <4>3, <4>4
    <3>3. CASE x = "array"
      <4>1. <<>> \in Keyed(x) /\ <<>> \in Texts
        BY <3>3 DEF Keyed, Texts
      <4>2. Hole(read' \o <<>>, states)
        BY <3>2, <4>1
      <4>3. Hole(read', states')
        BY <2>1, <2>7, <4>2, ShortTexts
      <4>4. at' = "value"
        BY <2>7, <3>3, Zenon
      <4>5. ReadAt' /\ at' \in Places
        BY <4>3, <4>4, Zenon DEF ReadAt, Places
      <4>6. QED
        BY <1>1, <2>1, <2>7, <4>5 DEF ReadInv
    <3>4. CASE x = "object"
      <4>1. ASSUME NEW name \in Punctuation("string"), NEW colon \in Punctuation("name_separator")
            PROVE  Hole(read' \o <<name, colon>>, states)
        <5>1. <<name, colon>> \in Keyed(x)
          BY <3>4 DEF Keyed
        <5>2. <<name, colon>> \in Texts
          BY Signs, ShortTexts
        <5>3. QED
          BY <3>2, <5>1, <5>2
      <4>2. at' = "key"
        BY <2>7, <3>4
      <4>3. ReadAt' /\ at' \in Places
        BY <2>7, <4>1, <4>2, Zenon DEF ReadAt, Places
      <4>4. QED
        BY <1>1, <2>1, <2>7, <4>3 DEF ReadInv
    <3>5. QED
      BY <2>2, <3>3, <3>4
  <2>8. CASE t.type \in Closer(x) /\ states' = st0 /\ at' = at
    <3> DEFINE w == (<<o>> \o lv) \o <<t>>
    <3>1. t \in Ending(x)
      BY <2>1, <2>2, <2>8, CloserIs
    <3>2. IsValue(w)
      BY <2>2, <2>3, <2>4, <3>1, ContainerIsValue
    <3>3. <<o>> \o lv \in Texts /\ w \in Texts
      BY <2>1, <2>4, <2>5, Concat
    <3>4. read' = s \o w
      <4> HIDE DEF lv
      <4>1. (s \o <<o>>) \o lv = s \o (<<o>> \o lv)
        <5>1. Regroup(s, <<o>>, lv)
          BY <2>3, <2>4, <2>5, Assoc
        <5>2. QED
          BY <2>3, <2>4, <2>5, <5>1 DEF Regroup
      <4>2. (s \o (<<o>> \o lv)) \o <<t>> = s \o w
        <5>1. Regroup(s, <<o>> \o lv, <<t>>)
          BY <2>1, <2>3, <3>3, Assoc
        <5>2. QED
          BY <2>1, <2>3, <3>3, <5>1 DEF Regroup
      <4>3. QED
        BY <2>1, <2>6, <4>1, <4>2, Zenon
    <3> HIDE DEF w
    <3>5. ReadAt' /\ at' \in Places
      BY <1>1, <2>3, <2>8, <3>2, <3>3, <3>4, Zenon DEF ReadAt, Places
    <3>6. QED
      BY <2>1, <2>2, <2>8, <3>5 DEF ReadInv
  <2>9. CASE at' = "error" /\ states' = states
    BY <1>1, <2>1, <2>9, ErrorReads DEF ReadInv
  <2>10. QED
    BY <1>4, <2>7, <2>8, <2>9, Zenon DEF Error, x, st0
<1>5. QED
  BY <1>3, <1>4, Zenon DEF Evaluate

\* All of them.
LEMMA ParseReads == ReadInv /\ Parse => ReadInv'
BY ValueReads, ObjectBegunReads, ArrayBegunReads, SeparatorReads, KeyReads, EvaluateReads DEF Parse

-----------------------------------------------------------------------------
(****************************************************************************)
(* What may follow, at each of the parser's places, in a text that is a      *)
(* value.                                                                    *)
(****************************************************************************)

\* What follows a value in a container, up to the container's end.
Tails(x, u) ==
  \E c \in Ending(x) :
    \/ u = <<c>>
    \/ \E comma \in Punctuation("value_separator"), m \in Texts :
         Contents(x, m) /\ u = <<comma>> \o (m \o <<c>>)

\* R relates to the containers around a value what may follow the value: nothing, or
\* the tail of the innermost and what may follow that.
Follows(R) ==
  /\ << <<>>, <<>> >> \in R
  /\ \A st \in Stacks, w \in Texts, x \in {"array", "object"}, u \in Texts :
       <<st, w>> \in R /\ Tails(x, u) => <<Append(st, x), u \o w>> \in R

\* The smallest such relation.
Beyond(st, w) == \A R : Follows(R) => <<st, w>> \in R

\* What follows a value follows the container it is the last of, behind its tail.
LEMMA BeyondDeeper ==
  ASSUME NEW st \in Stacks, NEW w \in Texts, NEW x \in {"array", "object"}, NEW u \in Texts,
         Beyond(st, w), Tails(x, u)
  PROVE  Beyond(Append(st, x), u \o w)
BY DEF Beyond, Follows

\* What follows a value, by the innermost container around it.
Around(st, w) ==
  IF st = <<>> THEN w = <<>>
  ELSE \E u, w0 \in Texts : Tails(Last(st), u) /\ Beyond(Front(st), w0) /\ w = u \o w0

\* Nothing else follows it.
LEMMA BeyondIs ==
  ASSUME NEW st \in Stacks, NEW w \in Texts, Beyond(st, w)
  PROVE  Around(st, w)
<1> DEFINE R == {p \in Stacks \X Texts : Beyond(p[1], p[2]) /\ Around(p[1], p[2])}
<1>1. \A s \in Stacks, v \in Texts : <<s, v>> \in R <=> Beyond(s, v) /\ Around(s, v)
  OBVIOUS
<1> HIDE DEF R
<1>2. << <<>>, <<>> >> \in R
  <2>1. <<>> \in Stacks /\ <<>> \in Texts
    BY DEF Stacks, Texts
  <2>2. Beyond(<<>>, <<>>) /\ Around(<<>>, <<>>)
    BY DEF Beyond, Follows, Around
  <2>3. QED
    BY <1>1, <2>1, <2>2
<1>3. ASSUME NEW s \in Stacks, NEW v \in Texts, NEW x \in {"array", "object"}, NEW u \in Texts,
             <<s, v>> \in R, Tails(x, u)
      PROVE  <<Append(s, x), u \o v>> \in R
  <2>1. Beyond(s, v)
    BY <1>1, <1>3
  <2>2. Beyond(Append(s, x), u \o v)
    BY <1>3, <2>1, BeyondDeeper
  <2> DEFINE q == Append(s, x)
  <2>3. q \in Stacks /\ q # <<>> /\ u \o v \in Texts
    <3>1. q \in Stacks /\ q # <<>>
      BY AppendProperties DEF Stacks
    <3>2. QED
      BY <3>1, Concat
  <2>4. Last(q) = x /\ Front(q) = s
    <3>1. Front(q) \in Stacks /\ Last(q) \in {"array", "object"} /\ q = Append(Front(q), Last(q))
      BY <2>3, FrontIs DEF Stacks
    <3>2. QED
      BY <3>1, AppendInjective DEF Stacks
  <2>5. Around(Append(s, x), u \o v)
    BY <1>3, <2>1, <2>3, <2>4 DEF Around
  <2>6. QED
    BY <1>1, <2>2, <2>3, <2>5
<1>4. <<st, w>> \in R
  BY <1>2, <1>3, Zenon DEF Beyond, Follows
<1>5. QED
  BY <1>1, <1>4

\* A token and a text are the same text as others only if they are the same.
OneWay(h, a, c, b) == <<h>> \o a = <<c>> \o b => h = c /\ a = b

\* A text is its first token and the others, in one way.
LEMMA FirstToken ==
  /\ \A a \in Texts : a = <<>> \/ \E h \in Token, r \in Texts : a = <<h>> \o r
  /\ \A h, c \in Token : \A a, b \in Texts : OneWay(h, a, c, b)
<1>1. ASSUME NEW a \in Texts, a # <<>>
      PROVE  \E h \in Token, r \in Texts : a = <<h>> \o r
  <2> DEFINE e == SubSeq(a, 1, 1 - 1)
             r == SubSeq(a, 1 + 1, Len(a))
  <2>1. 1 \in 1..Len(a) /\ e = <<>>
    BY <1>1 DEF Texts
  <2>2. e \in Texts /\ r \in Texts /\ a[1] \in Token /\ a = (e \o <<a[1]>>) \o r
    BY <2>1, PartsAt
  <2>3. e \o <<a[1]>> = <<a[1]>>
    BY <2>1, <2>2, ShortTexts
  <2> HIDE DEF e, r
  <2>4. QED
    BY <2>2, <2>3
<1>2. ASSUME NEW h \in Token, NEW c \in Token, NEW a \in Texts, NEW b \in Texts,
             <<h>> \o a = <<c>> \o b
      PROVE  h = c /\ a = b
  <2> DEFINE u == <<h>> \o a
             v == <<c>> \o b
  <2>1. /\ Len(u) = Len(a) + 1 /\ u[1] = h /\ \A i \in 1..Len(a) : u[i + 1] = a[i]
        /\ Len(v) = Len(b) + 1 /\ v[1] = c /\ \A i \in 1..Len(b) : v[i + 1] = b[i]
        /\ Len(a) \in Nat /\ Len(b) \in Nat
    BY DEF Texts
  <2>2. u = v
    BY <1>2
  <2> HIDE DEF u, v
  <2>3. h = c /\ Len(a) = Len(b)
    BY <2>1, <2>2
  <2>4. \A i \in 1..Len(a) : a[i] = b[i]
    BY <2>1, <2>2, <2>3
  <2>5. QED
    BY <2>3, <2>4, SeqEqual DEF Texts
<1>3. QED
  BY <1>1, <1>2 DEF OneWay

\* If a text that begins with a token is two texts, the token is the first's, unless
\* that is empty.
Begins(c, w, a, b) ==
  <<c>> \o w = a \o b =>
    \/ a = <<>> /\ b = <<c>> \o w
    \/ \E a0 \in Texts : a = <<c>> \o a0 /\ w = a0 \o b

\* Every such text.
LEMMA BeginsWith == \A c \in Token : \A w, a, b \in Texts : Begins(c, w, a, b)
<1> SUFFICES ASSUME NEW c \in Token, NEW w \in Texts, NEW a \in Texts, NEW b \in Texts,
                    <<c>> \o w = a \o b
             PROVE  \/ a = <<>> /\ b = <<c>> \o w
                    \/ \E a0 \in Texts : a = <<c>> \o a0 /\ w = a0 \o b
  BY DEF Begins
<1>1. CASE a = <<>>
  <2>1. <<>> \o b = b
    BY ShortTexts
  <2>2. QED
    BY <1>1, <2>1
<1>2. CASE a # <<>>
  <2>1. PICK h \in Token, a0 \in Texts : a = <<h>> \o a0
    BY <1>2, FirstToken
  <2>2. <<h>> \o (a0 \o b) = <<c>> \o w
    <3>1. Regroup(<<h>>, a0, b)
      BY ShortTexts, Assoc
    <3>2. QED
      BY <2>1, <3>1 DEF Regroup
  <2> DEFINE z == a0 \o b
  <2>3. z \in Texts /\ <<h>> \o z = <<c>> \o w
    BY <2>2, Concat
  <2> HIDE DEF z
  <2>4. OneWay(h, z, c, w)
    BY <2>3, FirstToken
  <2>5. h = c /\ z = w
    BY <2>3, <2>4 DEF OneWay
  <2>6. QED
    BY <2>1, <2>5 DEF z
<1>3. QED
  BY <1>1, <1>2

\* What follows the token that begins a container, up to the one that ends it.
Body(x, u) ==
  \E m \in Texts, d \in Ending(x) : (m = <<>> \/ Contents(x, m)) /\ u = m \o <<d>>

\* A value is a scalar, or begins a container.
LEMMA ValueBegins ==
  ASSUME NEW c \in Token, NEW u \in Texts, NEW s, s = << c >> \o u, IsValue(s)
  PROVE  \/ c.type \in Scalars /\ u = << >>
         \/ \E x \in {"array", "object"} : c \in Opening(x) /\ Body(x, u)
<1> DEFINE n == Len(u) + 1
<1>1. /\ s \in Texts /\ Len(s) = n /\ Len(u) \in Nat /\ s[1] = c
      /\ \A i \in 1..Len(u) : s[i + 1] = u[i]
  BY DEF Texts
<1>2. ValueOf(Is, s, n)
  BY <1>1, ValueIs
<1>3. CASE n = 1 /\ s[1].type \in Scalars
  <2>1. Len(u) = 0
    BY <1>1, <1>3
  <2>2. u = <<>>
    BY <2>1 DEF Texts
  <2>3. QED
    BY <1>1, <1>3, <2>2
<1>4. ASSUME n >= 2, NEW x \in {"array", "object"}, s[1] \in Opening(x), s[n] \in Ending(x),
             n = 2 \/ Contents(x, SubSeq(s, 2, n - 1))
      PROVE  c \in Opening(x) /\ Body(x, u)
  <2> DEFINE k == Len(u)
             m == SubSeq(u, 1, k - 1)
             e == SubSeq(u, k + 1, k)
  <2>1. k \in 1..Len(u) /\ k \in Nat /\ s[n] = u[k] /\ n = k + 1
    BY <1>1, <1>4
  <2>2. m \in Texts /\ e \in Texts /\ u[k] \in Token /\ u = (m \o <<u[k]>>) \o e
    BY <2>1, PartsAt
  <2>3. e = <<>> /\ (k = 1 => m = <<>>)
    BY <2>1, SubSeqEmpty
  <2>4. u = m \o <<u[k]>>
    <3>1. m \o <<u[k]>> \in Texts
      BY <2>2, ShortTexts
    <3>2. QED
      BY <2>2, <2>3, <3>1, ShortTexts
  <2>5. m = SubSeq(s, 2, n - 1)
    <3> DEFINE q == SubSeq(s, 2, n - 1)
    <3>1. q \in Texts /\ Len(q) = k - 1 /\ \A i \in 1..(k - 1) : q[i] = s[i + 1]
      BY <1>1, <2>1 DEF Texts
    <3>2. Len(m) = k - 1 /\ \A i \in 1..(k - 1) : m[i] = u[i]
      BY <2>1 DEF Texts
    <3> HIDE DEF q, m, k
    <3>3. \A i \in 1..Len(q) : q[i] = m[i]
      BY <3>1, <3>2, <1>1, <2>1
    <3>4. q = m
      BY <2>2, <3>1, <3>2, <3>3, SeqEqual DEF Texts
    <3>5. QED
      BY <3>4 DEF q
  <2> HIDE DEF m, e, k
  <2>6. m = <<>> \/ Contents(x, m)
    BY <1>4, <2>1, <2>3, <2>5
  <2>7. Body(x, u)
    BY <1>4, <2>1, <2>2, <2>4, <2>6, Zenon DEF Body
  <2>8. QED
    BY <1>1, <1>4, <2>7
<1>5. ASSUME n >= 2
      PROVE  s[1] \in Token /\ s[n] \in Token
  BY <1>1, <1>5 DEF Texts
<1>6. CASE /\ n >= 2 /\ s[1].type = "begin_object" /\ s[n].type = "end_object"
           /\ n = 2 \/ Is[<<"members", SubSeq(s, 2, n - 1)>>]
  <2>1. s[1] \in Opening("object") /\ s[n] \in Ending("object")
    BY <1>5, <1>6, Signs DEF Punctuation
  <2>2. n = 2 \/ Contents("object", SubSeq(s, 2, n - 1))
    BY <1>6, Signs DEF Members
  <2> HIDE DEF n
  <2>3. QED
    BY <1>4, <1>6, <2>1, <2>2
<1>7. CASE /\ n >= 2 /\ s[1].type = "begin_array" /\ s[n].type = "end_array"
           /\ n = 2 \/ Is[<<"elements", SubSeq(s, 2, n - 1)>>]
  <2>1. s[1] \in Opening("array") /\ s[n] \in Ending("array")
    BY <1>5, <1>7, Signs DEF Punctuation
  <2>2. n = 2 \/ Contents("array", SubSeq(s, 2, n - 1))
    BY <1>7, Signs DEF Elements
  <2> HIDE DEF n
  <2>3. QED
    BY <1>4, <1>7, <2>1, <2>2
<1>8. QED
  BY <1>2, <1>3, <1>6, <1>7, Zenon DEF ValueOf

\* One of what a container holds, and what may follow it inside these containers.
Holds(x, st, w) ==
  \E p, w0 \in Texts : One(x, p) /\ Beyond(st, w0) /\ w = p \o w0

\* What is left of a container that has just begun.
Begun(x, st, w) ==
  \E u, w0 \in Texts : Body(x, u) /\ Beyond(st, w0) /\ w = u \o w0

\* What is left of a member behind its key.
AfterKey(st, w) ==
  \E colon \in Punctuation("name_separator"), w0 \in Texts :
    w = <<colon>> \o w0 /\ Holds("array", st, w0)

\* The first of what a container holds stands inside it.
LEMMA FirstInside ==
  ASSUME NEW x \in {"array", "object"}, NEW st \in Stacks, NEW m \in Texts, NEW d \in Ending(x),
         NEW w0 \in Texts, Contents(x, m), Beyond(st, w0)
  PROVE  Holds(x, Append(st, x), (m \o << d >>) \o w0)
<1> DEFINE e == <<d>>
           st1 == Append(st, x)
<1>1. e \in Texts /\ m \o e \in Texts
  <2>1. d \in Token
    BY Signs DEF Ending
  <2>2. QED
    BY <2>1, ShortTexts
<1>2. ASSUME NEW p \in Texts, NEW u \in Texts, One(x, p), Tails(x, u), m \o e = p \o u
      PROVE  Holds(x, st1, (m \o e) \o w0)
  <2>1. Beyond(st1, u \o w0) /\ u \o w0 \in Texts
    BY <1>2, BeyondDeeper, Concat
  <2>2. (m \o e) \o w0 = p \o (u \o w0)
    <3>1. Regroup(p, u, w0)
      BY Assoc
    <3>2. QED
      BY <1>2, <3>1 DEF Regroup
  <2>3. QED
    BY <1>2, <2>1, <2>2, Zenon DEF Holds
<1> HIDE DEF st1
<1>3. CASE One(x, m)
  <2>1. Tails(x, e)
    BY DEF Tails
  <2>2. QED
    BY <1>1, <1>2, <1>3, <2>1 DEF e, st1
<1>4. CASE Splits(x, m)
  <2>1. PICK p \in Texts, comma \in Punctuation("value_separator"), m0 \in Texts :
          One(x, p) /\ Contents(x, m0) /\ m = (p \o <<comma>>) \o m0
    BY <1>4 DEF Splits
  <2> DEFINE c == <<comma>>
             u == c \o (m0 \o e)
             pc == p \o c
  <2>2. c \in Texts
    BY Signs, ShortTexts
  <2>3. Tails(x, u)
    BY <2>1, Zenon DEF Tails, e
  <2> HIDE DEF e, c
  <2>4. m0 \o e \in Texts /\ u \in Texts /\ pc \in Texts
    BY <1>1, <2>2, Concat
  <2>5. m \o e = p \o u
    <3>1. Regroup(pc, m0, e) /\ Regroup(p, c, m0 \o e)
      BY <1>1, <2>2, <2>4, Assoc
    <3>2. m = pc \o m0
      BY <2>1 DEF c
    <3>3. QED
      BY <3>1, <3>2 DEF Regroup
  <2> HIDE DEF u, pc
  <2>6. Holds(x, st1, (m \o e) \o w0)
    BY <1>2, <2>1, <2>3, <2>4, <2>5
  <2>7. QED
    BY <2>6 DEF e, st1
<1>5. QED
  BY <1>3, <1>4, ContentsSplit

\* The first token of a value, and what is left behind it.
LEMMA ValueFirst ==
  ASSUME NEW c \in Token, NEW w \in Texts, NEW st \in Stacks, Holds("array", st, << c >> \o w)
  PROVE  \/ c.type \in Scalars /\ Beyond(st, w)
         \/ \E x \in {"array", "object"} : c \in Opening(x) /\ Begun(x, st, w)
<1>1. PICK v \in Texts, w0 \in Texts : IsValue(v) /\ Beyond(st, w0) /\ <<c>> \o w = v \o w0
  BY OneIs DEF Holds
<1>2. v # <<>>
  BY <1>1, ValueNotEmpty
<1>3. PICK v0 \in Texts : v = <<c>> \o v0 /\ w = v0 \o w0
  <2>1. Begins(c, w, v, w0)
    BY BeginsWith
  <2>2. QED
    BY <1>1, <1>2, <2>1 DEF Begins
<1>4. CASE c.type \in Scalars /\ v0 = <<>>
  BY <1>1, <1>3, <1>4, ShortTexts
<1>5. CASE \E x \in {"array", "object"} : c \in Opening(x) /\ Body(x, v0)
  BY <1>1, <1>3, <1>5, Zenon DEF Begun
<1>6. \/ c.type \in Scalars /\ v0 = <<>>
      \/ \E x \in {"array", "object"} : c \in Opening(x) /\ Body(x, v0)
  BY <1>1, <1>3, ValueBegins
<1>7. QED
  BY <1>4, <1>5, <1>6

\* The token behind the one that begins a container: it ends it, or begins the
\* first of what it holds.
LEMMA BegunFirst ==
  ASSUME NEW c \in Token, NEW w \in Texts, NEW st \in Stacks, NEW x \in {"array", "object"},
         Begun(x, st, << c >> \o w)
  PROVE  \/ c \in Ending(x) /\ Beyond(st, w)
         \/ Holds(x, Append(st, x), << c >> \o w)
<1>1. PICK u \in Texts, w0 \in Texts : Body(x, u) /\ Beyond(st, w0) /\ <<c>> \o w = u \o w0
  BY DEF Begun
<1>2. PICK m \in Texts, d \in Ending(x) : (m = <<>> \/ Contents(x, m)) /\ u = m \o <<d>>
  BY <1>1 DEF Body
<1>3. CASE m = <<>>
  <2>1. d \in Token /\ <<d>> \in Texts
    BY Signs, ShortTexts DEF Ending
  <2>2. u = <<d>>
    BY <1>2, <1>3, <2>1, ShortTexts
  <2>3. OneWay(c, w, d, w0)
    BY <2>1, FirstToken
  <2>4. c = d /\ w = w0
    BY <1>1, <2>2, <2>3 DEF OneWay
  <2>5. QED
    BY <1>1, <2>4
<1>4. CASE Contents(x, m)
  <2>1. Holds(x, Append(st, x), (m \o <<d>>) \o w0)
    BY <1>1, <1>4, FirstInside
  <2>2. QED
    BY <1>1, <1>2, <2>1
<1>5. QED
  BY <1>2, <1>3, <1>4

\* A member begins with its key.
LEMMA MemberFirst ==
  ASSUME NEW c \in Token, NEW w \in Texts, NEW st, Holds("object", st, << c >> \o w)
  PROVE  c \in Punctuation("string") /\ AfterKey(st, w)
<1>1. PICK p \in Texts, w0 \in Texts : Member(p) /\ Beyond(st, w0) /\ <<c>> \o w = p \o w0
  BY OneIs DEF Holds
<1>2. PICK name \in Punctuation("string"), colon \in Punctuation("name_separator"), v \in Texts :
        IsValue(v) /\ p = <<name, colon>> \o v
  BY <1>1 DEF Member
<1> DEFINE n == <<name>>
           k == <<colon>>
           vw == v \o w0
           kvw == k \o vw
<1>3. n \in Texts /\ k \in Texts /\ name \in Token /\ <<name, colon>> = n \o k
  BY Signs, ShortTexts
<1>4. vw \in Texts /\ kvw \in Texts /\ n \o k \in Texts
  BY <1>3, Concat
<1>5. p \o w0 = n \o kvw
  <2>1. Regroup(n \o k, v, w0) /\ Regroup(n, k, vw)
    BY <1>3, <1>4, Assoc
  <2>2. QED
    BY <1>2, <1>3, <2>1 DEF Regroup
<1> HIDE DEF kvw
<1>6. OneWay(c, w, name, kvw)
  BY <1>3, <1>4, FirstToken
<1>7. c = name /\ w = kvw
  BY <1>1, <1>5, <1>6 DEF OneWay
<1>8. Holds("array", st, vw)
  BY <1>1, <1>2, OneIs DEF Holds
<1>9. QED
  BY <1>4, <1>7, <1>8, Zenon DEF AfterKey, kvw

\* A colon, and a value.
LEMMA ColonFirst ==
  ASSUME NEW c \in Token, NEW w \in Texts, NEW st, AfterKey(st, << c >> \o w)
  PROVE  c.type = "name_separator" /\ Holds("array", st, w)
<1>1. PICK colon \in Punctuation("name_separator"), w0 \in Texts :
        <<c>> \o w = <<colon>> \o w0 /\ Holds("array", st, w0)
  BY DEF AfterKey
<1>2. colon \in Token /\ colon.type = "name_separator"
  BY Signs
<1>3. OneWay(c, w, colon, w0)
  BY <1>2, FirstToken
<1>4. c = colon /\ w = w0
  BY <1>1, <1>3 DEF OneWay
<1>5. QED
  BY <1>1, <1>2, <1>4

\* Behind a value: a comma and what the container holds next, or its end.
LEMMA BeyondFirst ==
  ASSUME NEW c \in Token, NEW w \in Texts, NEW st \in Stacks, Beyond(st, << c >> \o w)
  PROVE  /\ st # << >>
         /\ \/ c \in Ending(Last(st)) /\ Beyond(Front(st), w)
            \/ c.type = "value_separator" /\ Holds(Last(st), st, w)
<1> DEFINE x == Last(st)
           st0 == Front(st)
           cw == <<c>> \o w
<1>1. cw \in Texts /\ cw # <<>>
  <2>1. <<c>> \in Texts
    BY ShortTexts
  <2>2. QED
    BY <2>1, Concat DEF Texts
<1>2. Around(st, cw)
  BY <1>1, BeyondIs
<1>3. st # <<>>
  BY <1>1, <1>2 DEF Around
<1>4. st0 \in Stacks /\ x \in {"array", "object"} /\ st = Append(st0, x)
  BY <1>3, FrontIs DEF Stacks
<1>5. PICK u \in Texts, w0 \in Texts : Tails(x, u) /\ Beyond(st0, w0) /\ cw = u \o w0
  BY <1>2, <1>3 DEF Around
<1> HIDE DEF x, st0
<1>6. PICK d \in Ending(x) :
        \/ u = <<d>>
        \/ \E comma \in Punctuation("value_separator"), m \in Texts :
             Contents(x, m) /\ u = <<comma>> \o (m \o <<d>>)
  BY <1>5 DEF Tails
<1>7. d \in Token /\ <<d>> \in Texts
  BY Signs, ShortTexts DEF Ending
<1>8. CASE u = <<d>>
  <2>1. OneWay(c, w, d, w0)
    BY <1>7, FirstToken
  <2>2. c = d /\ w = w0
    BY <1>5, <1>8, <2>1 DEF OneWay
  <2>3. QED
    BY <1>3, <1>5, <2>2 DEF x, st0
<1>9. CASE \E comma \in Punctuation("value_separator"), m \in Texts :
             Contents(x, m) /\ u = <<comma>> \o (m \o <<d>>)
  <2>1. PICK comma \in Punctuation("value_separator"), m \in Texts :
          Contents(x, m) /\ u = <<comma>> \o (m \o <<d>>)
    BY <1>9
  <2>2. comma \in Token /\ comma.type = "value_separator" /\ <<comma>> \in Texts
    BY Signs, ShortTexts
  <2> DEFINE md == m \o <<d>>
             z == md \o w0
  <2>3. md \in Texts /\ z \in Texts
    BY <1>7, Concat
  <2>4. Holds(x, st, z)
    BY <1>4, <1>5, <2>1, FirstInside
  <2> HIDE DEF md
  <2>5. u \o w0 = <<comma>> \o z
    <3>1. Regroup(<<comma>>, md, w0)
      BY <2>2, <2>3, Assoc
    <3>2. QED
      BY <2>1, <3>1 DEF Regroup, md
  <2> HIDE DEF z
  <2>6. OneWay(c, w, comma, z)
    BY <2>2, <2>3, FirstToken
  <2>7. c = comma /\ w = z
    BY <1>5, <2>5, <2>6 DEF OneWay
  <2>8. QED
    BY <1>3, <2>2, <2>4, <2>7 DEF x
<1>10. QED
  BY <1>6, <1>8, <1>9

\* What was read and a text behind it are a value only if the text is what the place
\* expects.
MayFollow(w) ==
  /\ at = "value" => Holds("array", states, w)
  /\ at \in {"object", "array"} => Begun(at, states, w)
  /\ at = "first_separator" => AfterKey(Append(states, "object"), w)
  /\ at = "separator" => AfterKey(states, w)
  /\ at = "key" => Holds("object", states, w)
  /\ at = "evaluate" => Beyond(states, w)
  /\ at = "error" => Overflows(Last(read))

Expected == \A w \in Texts : IsValue(read \o w) => MayFollow(w)

\* A file is opened with nothing read of it: what follows is a value.
LEMMA InitExpected == ReadInv /\ ParserInit => Expected
<1> SUFFICES ASSUME ReadInv, ParserInit, NEW w \in Texts, IsValue(read \o w)
             PROVE  MayFollow(w)
  BY DEF Expected
<1>1. read = <<>> /\ at = "value" /\ states = <<>>
  BY DEF ParserInit
<1>2. <<>> \in Texts /\ <<>> \o w = w /\ w \o <<>> = w
  BY ShortTexts DEF Texts
<1>3. Beyond(<<>>, <<>>)
  BY DEF Beyond, Follows
<1>4. Holds("array", <<>>, w)
  BY <1>1, <1>2, <1>3, OneIs, Zenon DEF Holds
<1>5. QED
  BY <1>1, <1>4 DEF MayFollow

\* A token that was read is the first of what followed.
LEMMA ReadExpected ==
  ASSUME ReadInv, Expected, NEW where, GetToken(where), NEW w \in Texts, IsValue(read' \o w)
  PROVE  t \in Token /\ at = where /\ MayFollow(<< t >> \o w) /\ Last(read') = t
<1>1. t \in Token /\ <<t>> \in Texts /\ read' = read \o <<t>> /\ read \in Texts /\ at = where
  BY TookToken DEF ReadInv
<1>2. Regroup(read, <<t>>, w)
  BY <1>1, Assoc
<1>3. <<t>> \o w \in Texts
  BY <1>1, Concat
<1>4. MayFollow(<<t>> \o w)
  BY <1>1, <1>2, <1>3 DEF Regroup, Expected
<1>5. Last(read') = t
  BY <1>1 DEF Last, Texts
<1>6. QED
  BY <1>1, <1>4, <1>5

\* A token where a value is expected: only one that begins a value is taken, and only
\* a number that overflows is refused among those.
LEMMA SwitchExpected ==
  ASSUME NEW st \in Stacks, states' = st, Switch, t \in Token, Last(read') = t,
         NEW w \in Texts, Holds("array", st, << t >> \o w)
  PROVE  MayFollow(w)'
<1>1. CASE t.type \in Scalars /\ Beyond(st, w)
  <2>1. at' = "evaluate" \/ (at' = "error" /\ Overflows(t))
    BY <1>1, Zenon DEF Switch, Scalars
  <2>2. QED
    BY <1>1, <2>1, Zenon DEF MayFollow
<1>2. ASSUME NEW x \in {"array", "object"}, t \in Opening(x), Begun(x, st, w)
      PROVE  MayFollow(w)'
  <2>1. /\ x = "array" => t.type = "begin_array"
        /\ x = "object" => t.type = "begin_object"
    BY <1>2, Signs
  <2>2. at' = x
    BY <1>2, <2>1 DEF Switch, Scalars, Overflows
  <2>3. QED
    BY <1>2, <2>2 DEF MayFollow
<1>3. \/ t.type \in Scalars /\ Beyond(st, w)
      \/ \E x \in {"array", "object"} : t \in Opening(x) /\ Begun(x, st, w)
  BY ValueFirst
<1>4. QED
  BY <1>1, <1>2, <1>3

\* The token read at a place is one the place expects, and what is left behind it is
\* what the next place expects.
LEMMA ParseExpected == ReadInv /\ Expected /\ Parse => Expected'
<1> SUFFICES ASSUME ReadInv, Expected, Parse, NEW w \in Texts, IsValue(read' \o w)
             PROVE  MayFollow(w)'
  BY DEF Expected
<1> DEFINE cw == <<t>> \o w
<1>1. states \in Stacks
  BY DEF ReadInv
<1>2. ASSUME NEW where, GetToken(where)
      PROVE  t \in Token /\ at = where /\ MayFollow(cw) /\ Last(read') = t
  BY <1>2, ReadExpected
<1>3. CASE Value
  <2>1. Switch /\ states' = states /\ GetToken("value")
    BY <1>3 DEF Value
  <2>2. t \in Token /\ Last(read') = t /\ Holds("array", states, cw)
    BY <1>2, <2>1 DEF MayFollow
  <2>3. QED
    BY <1>1, <2>1, <2>2, SwitchExpected
<1>4. CASE ObjectBegun
  <2>1. t \in Token /\ Begun("object", states, cw)
    BY <1>2, <1>4 DEF MayFollow, ObjectBegun
  <2>2. CASE t \in Ending("object") /\ Beyond(states, w)
    <3>1. t.type = "end_object"
      BY <2>2, Signs
    <3>2. at' = "evaluate" /\ states' = states
      BY <1>4, <3>1 DEF ObjectBegun, Error
    <3>3. QED
      BY <2>2, <3>2 DEF MayFollow
  <2>3. CASE Holds("object", Append(states, "object"), cw)
    <3>1. t.type = "string" /\ AfterKey(Append(states, "object"), w)
      BY <2>1, <2>3, MemberFirst, Signs
    <3>2. at' = "first_separator" /\ states' = states
      BY <1>4, <3>1 DEF ObjectBegun, Error
    <3>3. QED
      BY <3>1, <3>2 DEF MayFollow
  <2>4. QED
    BY <1>1, <2>1, <2>2, <2>3, BegunFirst
<1>5. CASE ArrayBegun
  <2>1. t \in Token /\ Last(read') = t /\ Begun("array", states, cw)
    BY <1>2, <1>5 DEF MayFollow, ArrayBegun
  <2>2. CASE t \in Ending("array") /\ Beyond(states, w)
    <3>1. t.type = "end_array"
      BY <2>2, Signs
    <3>2. at' = "evaluate" /\ states' = states
      BY <1>5, <3>1 DEF ArrayBegun
    <3>3. QED
      BY <2>2, <3>2 DEF MayFollow
  <2>3. CASE Holds("array", InArray, cw)
    <3>1. InArray \in Stacks
      BY <1>1 DEF InArray, Stacks
    <3>2. t.type # "end_array"
      <4>1. t.type \in Scalars \/ \E x \in {"array", "object"} : t \in Opening(x)
        BY <2>1, <2>3, <3>1, ValueFirst
      <4>2. \A x \in {"array", "object"} : t \in Opening(x) => t.type \in {"begin_array", "begin_object"}
        BY Signs
      <4>3. QED
        BY <4>1, <4>2 DEF Scalars
    <3>3. Switch /\ states' = InArray
      BY <1>5, <3>2 DEF ArrayBegun
    <3>4. QED
      BY <2>1, <2>3, <3>1, <3>3, SwitchExpected
  <2>4. QED
    BY <1>1, <2>1, <2>2, <2>3, BegunFirst DEF InArray
<1>6. CASE Separator
  <2>1. CASE /\ GetToken("first_separator")
             /\ \/ /\ t.type = "name_separator" /\ at' = "value"
                   /\ states' = Append(states, "object")
                   /\ UNCHANGED domVars
                \/ t.type # "name_separator" /\ Error
    <3>1. t \in Token /\ AfterKey(Append(states, "object"), cw)
      BY <1>2, <2>1 DEF MayFollow
    <3>2. t.type = "name_separator" /\ Holds("array", Append(states, "object"), w)
      BY <3>1, ColonFirst
    <3>3. QED
      BY <2>1, <3>2 DEF MayFollow
  <2>2. CASE /\ GetToken("separator")
             /\ \/ t.type = "name_separator" /\ at' = "value" /\ UNCHANGED <<states, domVars>>
                \/ t.type # "name_separator" /\ Error
    <3>1. t \in Token /\ AfterKey(states, cw)
      BY <1>2, <2>2 DEF MayFollow
    <3>2. t.type = "name_separator" /\ Holds("array", states, w)
      BY <3>1, ColonFirst
    <3>3. QED
      BY <2>2, <3>2 DEF MayFollow
  <2>3. QED
    BY <1>6, <2>1, <2>2, Zenon DEF Separator
<1>7. CASE Key
  <2>1. t \in Token /\ Holds("object", states, cw)
    BY <1>2, <1>7 DEF MayFollow, Key
  <2>2. t.type = "string" /\ AfterKey(states, w)
    BY <2>1, MemberFirst, Signs
  <2>3. at' = "separator" /\ states' = states
    BY <1>7, <2>2 DEF Key, Error
  <2>4. QED
    BY <2>2, <2>3 DEF MayFollow
<1>8. CASE Evaluate
  <2>1. CASE at' = "accepted"
    BY <2>1 DEF MayFollow
  <2>2. CASE /\ states # <<>> /\ GetToken("evaluate")
             /\ \/ /\ t.type = "value_separator"
                   /\ at' = (IF Last(states) = "array" THEN "value" ELSE "key")
                   /\ UNCHANGED <<states, domVars>>
                \/ /\ t.type \in Closer(Last(states)) /\ end
                   /\ states' = Front(states)
                   /\ UNCHANGED at
                \/ t.type \notin Closer(Last(states)) \cup {"value_separator"} /\ Error
    <3>1. t \in Token /\ at = "evaluate" /\ Beyond(states, cw)
      BY <1>2, <2>2 DEF MayFollow
    <3>2. Last(states) \in {"array", "object"}
      BY <1>1, <2>2, FrontIs DEF Stacks
    <3>3. CASE t \in Ending(Last(states)) /\ Beyond(Front(states), w)
      <4>1. t.type \in Closer(Last(states)) /\ t.type # "value_separator"
        BY <3>2, <3>3, Signs DEF Closer
      <4>2. at' = "evaluate" /\ states' = Front(states)
        BY <2>2, <3>1, <4>1
      <4>3. QED
        BY <3>3, <4>2 DEF MayFollow
    <3>4. CASE t.type = "value_separator" /\ Holds(Last(states), states, w)
      <4>1. t.type \notin Closer(Last(states))
        BY <3>4 DEF Closer
      <4>2. states' = states /\ at' = IF Last(states) = "array" THEN "value" ELSE "key"
        BY <2>2, <3>4, <4>1
      <4>3. QED
        BY <3>2, <3>4, <4>2 DEF MayFollow
    <3>5. QED
      BY <1>1, <3>1, <3>3, <3>4, BeyondFirst
  <2>3. QED
    BY <1>8, <2>1, <2>2, Zenon DEF Evaluate
<1>9. QED
  BY <1>3, <1>4, <1>5, <1>6, <1>7, <1>8 DEF Parse

\* What is in error was to be a value in no way, unless it ends in a number that
\* overflows.
LEMMA ExpectedIsValuesOnly == Completable /\ Expected => ValuesOnly
<1> SUFFICES ASSUME Completable, Expected
             PROVE  ValuesOnly
  OBVIOUS
<1>1. ASSUME at = "error", NEW ending \in Endings, IsValue(read \o ending)
      PROVE  Overflows(Last(read))
  <2>1. ending \in Texts
    BY ParserAssumption DEF Texts
  <2>2. QED
    BY <1>1, <2>1 DEF Expected, MayFollow
<1>2. QED
  BY <1>1 DEF Completable, ValuesOnly

-----------------------------------------------------------------------------
(****************************************************************************)
(* Paths.                                                                    *)
(****************************************************************************)

\* A prefix, token by token.
LEMMA PrefixIs ==
  ASSUME NEW S, NEW p \in Seq(S), NEW q \in Seq(S)
  PROVE  IsPrefix(p, q) <=> Len(p) <= Len(q) /\ \A i \in 1..Len(p) : p[i] = q[i]
<1> DEFINE n == Len(p)
           a == SubSeq(p, 1, n)
           b == SubSeq(q, 1, n)
<1>1. n \in Nat /\ Len(q) \in Nat
  OBVIOUS
<1>2. \A i \in 1..n : p[i] \in S
  OBVIOUS
<1>3. a \in Seq(S) /\ Len(a) = n /\ \A i \in 1..n : a[i] = p[i]
  OBVIOUS
<1>4. CASE n <= Len(q)
  <2>1. b \in Seq(S) /\ Len(b) = n /\ \A i \in 1..n : b[i] = q[i]
    BY <1>1, <1>4
  <2> HIDE DEF a, b, n
  <2>2. a = b <=> \A i \in 1..n : a[i] = b[i]
    BY <1>3, <2>1, SeqEqual
  <2>3. a = b <=> \A i \in 1..n : p[i] = q[i]
    BY <1>3, <2>1, <2>2
  <2>4. IsPrefix(p, q) <=> n <= Len(q) /\ a = b
    BY DEF IsPrefix, a, b, n
  <2>5. QED
    BY <1>4, <2>3, <2>4 DEF n
<1>5. CASE ~(n <= Len(q))
  BY <1>5 DEF IsPrefix
<1>6. QED
  BY <1>4, <1>5

\* Prefixes are an order, and two prefixes of one path are prefixes of each
\* other.
LEMMA PrefixOrder ==
  ASSUME NEW S, NEW p \in Seq(S), NEW q \in Seq(S)
  PROVE  /\ IsPrefix(p, p) /\ IsPrefix(<<>>, p)
         /\ IsPrefix(p, q) /\ Len(p) = Len(q) => p = q
         /\ \A r \in Seq(S) : IsPrefix(p, q) /\ IsPrefix(q, r) => IsPrefix(p, r)
         /\ \A r \in Seq(S) : IsPrefix(p, r) /\ IsPrefix(q, r) /\ Len(p) <= Len(q) => IsPrefix(p, q)
<1>1. Len(p) \in Nat /\ Len(q) \in Nat /\ <<>> \in Seq(S) /\ Len(<<>>) = 0
  OBVIOUS
<1>2. IsPrefix(p, p) /\ IsPrefix(<<>>, p)
  <2>1. Len(p) <= Len(p) /\ Len(<<>>) <= Len(p) /\ \A i \in 1..Len(<<>>) : FALSE
    BY <1>1
  <2>2. IsPrefix(p, p)
    BY <2>1, PrefixIs
  <2>3. IsPrefix(<<>>, p)
    BY <1>1, <2>1, PrefixIs
  <2>4. QED
    BY <2>2, <2>3
<1>3. ASSUME IsPrefix(p, q), Len(p) = Len(q)
      PROVE  p = q
  <2>1. \A i \in 1..Len(p) : p[i] = q[i]
    BY <1>3, PrefixIs
  <2>2. QED
    BY <1>3, <2>1, SeqEqual
<1>4. ASSUME NEW r \in Seq(S), IsPrefix(p, q), IsPrefix(q, r)
      PROVE  IsPrefix(p, r)
  <2>1. /\ Len(p) <= Len(q) /\ \A i \in 1..Len(p) : p[i] = q[i]
        /\ Len(q) <= Len(r) /\ \A i \in 1..Len(q) : q[i] = r[i]
        /\ Len(r) \in Nat
    BY <1>4, PrefixIs
  <2>2. \A i \in 1..Len(p) : i \in 1..Len(q)
    BY <1>1, <2>1
  <2>3. Len(p) <= Len(r) /\ \A i \in 1..Len(p) : p[i] = r[i]
    BY <1>1, <2>1, <2>2
  <2>4. QED
    BY <2>3, PrefixIs
<1>5. ASSUME NEW r \in Seq(S), IsPrefix(p, r), IsPrefix(q, r), Len(p) <= Len(q)
      PROVE  IsPrefix(p, q)
  <2>1. /\ \A i \in 1..Len(p) : p[i] = r[i]
        /\ \A i \in 1..Len(q) : q[i] = r[i]
    BY <1>5, PrefixIs
  <2>2. \A i \in 1..Len(p) : i \in 1..Len(q)
    BY <1>1, <1>5
  <2>3. \A i \in 1..Len(p) : p[i] = q[i]
    BY <2>1, <2>2
  <2>4. QED
    BY <1>5, <2>3, PrefixIs
<1>6. QED
  BY <1>2, <1>3, <1>4, <1>5

\* A path is the root or an extension of its parent's.
LEMMA PrefixFront ==
  ASSUME NEW S, NEW p \in Seq(S), NEW q \in Seq(S), q # <<>>
  PROVE  /\ Front(q) \in Seq(S) /\ Len(Front(q)) = Len(q) - 1 /\ Len(q) \in Nat /\ Len(q) >= 1
         /\ IsPrefix(Front(q), q)
         /\ IsPrefix(p, q) <=> p = q \/ IsPrefix(p, Front(q))
<1>1. /\ Front(q) \in Seq(S) /\ Len(Front(q)) = Len(q) - 1 /\ Len(q) \in Nat /\ Len(q) >= 1
      /\ \A j \in 1..(Len(q) - 1) : Front(q)[j] = q[j]
  BY FrontIs
<1>2. Len(Front(q)) <= Len(q) /\ \A j \in 1..Len(Front(q)) : Front(q)[j] = q[j]
  BY <1>1
<1>3. IsPrefix(Front(q), q)
  BY <1>1, <1>2, PrefixIs
<1>4. ASSUME IsPrefix(p, q), p # q
      PROVE  IsPrefix(p, Front(q))
  <2>1. Len(p) <= Len(q) /\ Len(p) # Len(q) /\ Len(p) \in Nat
    BY <1>4, PrefixOrder, PrefixIs
  <2>2. Len(p) <= Len(Front(q))
    BY <1>1, <2>1
  <2>3. QED
    BY <1>1, <1>3, <1>4, <2>2, PrefixOrder
<1>5. ASSUME IsPrefix(p, Front(q))
      PROVE  IsPrefix(p, q)
  BY <1>1, <1>3, <1>5, PrefixOrder
<1>6. ASSUME p = q
      PROVE  IsPrefix(p, q)
  BY <1>6, PrefixOrder
<1>7. QED
  BY <1>1, <1>3, <1>4, <1>5, <1>6

\* A child is a path whose front is the parent.
LEMMA ChildIs ==
  ASSUME NEW S, NEW p \in Seq(S), NEW q \in Seq(S)
  PROVE  Len(q) = Len(p) + 1 /\ IsPrefix(p, q) <=> q # <<>> /\ Front(q) = p
<1>1. Len(p) \in Nat /\ Len(q) \in Nat
  OBVIOUS
<1>2. ASSUME Len(q) = Len(p) + 1, IsPrefix(p, q)
      PROVE  q # <<>> /\ Front(q) = p
  <2>1. q # <<>>
    BY <1>1, <1>2
  <2>2. IsPrefix(p, Front(q)) /\ Len(Front(q)) = Len(p) /\ Front(q) \in Seq(S)
    <3>1. p # q
      BY <1>1, <1>2
    <3>2. QED
      BY <1>1, <1>2, <2>1, <3>1, PrefixFront
  <2>3. QED
    BY <2>1, <2>2, PrefixOrder
<1>3. ASSUME q # <<>>, Front(q) = p
      PROVE  Len(q) = Len(p) + 1 /\ IsPrefix(p, q)
  <2>1. Len(p) = Len(q) - 1 /\ IsPrefix(p, q)
    BY <1>3, PrefixFront
  <2>2. QED
    BY <1>1, <2>1
<1>4. QED
  BY <1>2, <1>3

\* A path and one edge more.
LEMMA AppendIs ==
  ASSUME NEW S, NEW p \in Seq(S), NEW x \in S
  PROVE  /\ Append(p, x) \in Seq(S) /\ Append(p, x) # <<>> /\ Front(Append(p, x)) = p
         /\ Len(Append(p, x)) = Len(p) + 1 /\ Len(p) \in Nat
         /\ Append(p, x)[Len(p) + 1] = x
<1> DEFINE q == Append(p, x)
<1>1. /\ q \in Seq(S) /\ q # <<>> /\ Len(q) = Len(p) + 1 /\ \A i \in 1..Len(p) : q[i] = p[i]
      /\ q[Len(p) + 1] = x /\ Len(p) \in Nat
  BY AppendProperties
<1> HIDE DEF q
<1>2. IsPrefix(p, q)
  <2>1. Len(p) <= Len(q)
    BY <1>1
  <2>2. QED
    BY <1>1, <2>1, PrefixIs
<1>3. Front(q) = p
  BY <1>1, <1>2, ChildIs
<1>4. QED
  BY <1>1, <1>3 DEF q

-----------------------------------------------------------------------------
(****************************************************************************)
(* The value that is built: a tree of paths, in which one value is put at a  *)
(* time.                                                                     *)
(****************************************************************************)

\* An edge of a path: the key of a member or the index of an element.
Edge == ({"key"} \X STRING) \cup ({"index"} \X Nat)

LEMMA PathIs == Path = Seq(Edge) /\ <<>> \in Path
BY DEF Path, Edge

\* The children of a place, all that is below it, and the value with v put at
\* s in the place of what was there.
Kids(T, p) == {q \in DOMAIN T : Len(q) = Len(p) + 1 /\ IsPrefix(p, q)}
Under(T, p) == {q \in DOMAIN T : IsPrefix(p, q)}
Put(T, s, v) ==
  [q \in (DOMAIN T \ Under(T, s)) \cup {s} |-> IF q = s THEN v ELSE T[q]]

\* A value is a tree, at each of its paths.
TreeAt(T, p) ==
  /\ p \in Path /\ T[p] \in Node
  /\ p # <<>> => Front(p) \in DOMAIN T
  /\ T[p].type \notin {"array", "object"} => Kids(T, p) = {}
  /\ T[p].type = "array" =>
       Kids(T, p) = {ItemPath(p, i) : i \in 0..Cardinality(Kids(T, p)) - 1}

\* There are finitely many paths, and the root is one.
IsTree(T) ==
  /\ T = [p \in DOMAIN T |-> T[p]]
  /\ IsFiniteSet(DOMAIN T) /\ <<>> \in DOMAIN T
  /\ \A p \in DOMAIN T : TreeAt(T, p)

\* Where a value may be put.
SlotIn(T, s) ==
  /\ s \in Path
  /\ s # <<>> => /\ Front(s) \in DOMAIN T /\ T[Front(s)].type \in {"array", "object"}
                 /\ T[Front(s)].type = "array" =>
                      s = ItemPath(Front(s), Cardinality(Kids(T, Front(s))))

\* The children are the paths with this front.
LEMMA KidsAre ==
  ASSUME NEW T, IsTree(T), NEW p \in Path
  PROVE  Kids(T, p) = {q \in DOMAIN T : q # <<>> /\ Front(q) = p}
<1>1. \A q \in DOMAIN T : q \in Path
  BY DEF IsTree, TreeAt
<1>2. ASSUME NEW q \in DOMAIN T
      PROVE  Len(q) = Len(p) + 1 /\ IsPrefix(p, q) <=> q # <<>> /\ Front(q) = p
  BY <1>1, PathIs, ChildIs
<1>3. QED
  BY <1>2 DEF Kids

\* They can be counted.
LEMMA KidsFinite ==
  ASSUME NEW T, IsTree(T), NEW p
  PROVE  IsFiniteSet(Kids(T, p)) /\ Cardinality(Kids(T, p)) \in Nat
<1>1. Kids(T, p) \in SUBSET DOMAIN T
  BY DEF Kids
<1>2. IsFiniteSet(Kids(T, p))
  BY <1>1, FS_Subset DEF IsTree
<1>3. QED
  BY <1>2, FS_CardinalityType

\* Nothing is below what is not there.
LEMMA NothingUnder ==
  ASSUME NEW T, IsTree(T), NEW s \in Path, s \notin DOMAIN T
  PROVE  Under(T, s) = {}
<1> DEFINE N == {n \in Nat : \A q \in DOMAIN T : Len(q) = n => ~IsPrefix(s, q)}
<1>1. \A q \in DOMAIN T : q \in Path /\ Len(q) \in Nat /\ (q # <<>> => Front(q) \in DOMAIN T)
  BY PathIs DEF IsTree, TreeAt
<1>2. s # <<>>
  BY DEF IsTree
<1>3. 0 \in N
  <2> SUFFICES ASSUME NEW q \in DOMAIN T, Len(q) = 0, IsPrefix(s, q)
               PROVE  FALSE
    OBVIOUS
  <2>1. Len(s) <= 0
    BY <1>1, PathIs, PrefixIs
  <2>2. s = <<>>
    BY <2>1, PathIs
  <2>3. QED
    BY <1>2, <2>2
<1>4. ASSUME NEW n \in N
      PROVE  n + 1 \in N
  <2> SUFFICES ASSUME NEW q \in DOMAIN T, Len(q) = n + 1, IsPrefix(s, q)
               PROVE  FALSE
    OBVIOUS
  <2>1. q # <<>> /\ q \in Seq(Edge) /\ s \in Seq(Edge)
    BY <1>1, PathIs
  <2>2. IsPrefix(s, Front(q)) /\ Len(Front(q)) = Len(q) - 1
    BY <2>1, PrefixFront
  <2>3. Front(q) \in DOMAIN T /\ Len(Front(q)) = n
    BY <1>1, <2>1, <2>2
  <2>4. QED
    BY <2>2, <2>3
<1> HIDE DEF N
<1>5. N = Nat
  BY <1>3, <1>4, NatSetInduction DEF N
<1>6. ASSUME NEW q \in DOMAIN T
      PROVE  ~IsPrefix(s, q)
  <2>1. Len(q) \in N
    BY <1>1, <1>5
  <2>2. QED
    BY <2>1 DEF N
<1>7. QED
  BY <1>6 DEF Under

\* What is put, and where.
LEMMA PutIsFunction ==
  ASSUME NEW T, NEW s, NEW v
  PROVE  Put(T, s, v) = [q \in DOMAIN Put(T, s, v) |-> Put(T, s, v)[q]]
BY DEF Put

LEMMA PutIs ==
  ASSUME NEW T, NEW s, NEW v
  PROVE  /\ DOMAIN Put(T, s, v) = (DOMAIN T \ Under(T, s)) \cup {s}
         /\ Put(T, s, v)[s] = v
         /\ \A q \in DOMAIN Put(T, s, v) : q # s => Put(T, s, v)[q] = T[q] /\ q \in DOMAIN T /\ ~IsPrefix(s, q)
BY DEF Put, Under

\* Only the parent has another child.
LEMMA PutKids ==
  ASSUME NEW T, IsTree(T), NEW s, SlotIn(T, s), NEW v
  PROVE  LET U == Put(T, s, v) IN
         /\ Kids(U, s) = {}
         /\ \A p \in DOMAIN U : p # s =>
              Kids(U, p) = IF s # <<>> /\ p = Front(s) THEN Kids(T, p) \cup {s} ELSE Kids(T, p)
<1> DEFINE U == Put(T, s, v)
<1>1. /\ DOMAIN U = (DOMAIN T \ Under(T, s)) \cup {s}
      /\ \A q \in DOMAIN U : q # s => q \in DOMAIN T /\ ~IsPrefix(s, q)
  BY PutIs
<1> HIDE DEF U
<1>2. s \in Path /\ \A q \in DOMAIN T : q \in Path
  BY DEF IsTree, TreeAt, SlotIn
<1>3. \A q \in DOMAIN U : q \in Path
  BY <1>1, <1>2
<1>4. \A p \in Path : Kids(U, p) = {q \in DOMAIN U : q # <<>> /\ Front(q) = p}
  <2> SUFFICES ASSUME NEW p \in Path
               PROVE  Kids(U, p) = {q \in DOMAIN U : q # <<>> /\ Front(q) = p}
    OBVIOUS
  <2>1. ASSUME NEW q \in DOMAIN U
        PROVE  Len(q) = Len(p) + 1 /\ IsPrefix(p, q) <=> q # <<>> /\ Front(q) = p
    BY <1>3, PathIs, ChildIs
  <2>2. QED
    BY <2>1 DEF Kids
<1>5. Kids(U, s) = {}
  <2> SUFFICES ASSUME NEW q \in Kids(U, s)
               PROVE  FALSE
    OBVIOUS
  <2>1. q \in DOMAIN U /\ IsPrefix(s, q) /\ Len(q) = Len(s) + 1
    BY DEF Kids
  <2>2. q # s
    BY <1>2, <2>1, PathIs
  <2>3. QED
    BY <1>1, <2>1, <2>2
<1>6. ASSUME NEW p \in DOMAIN U, p # s
      PROVE  Kids(U, p) = IF s # <<>> /\ p = Front(s) THEN Kids(T, p) \cup {s} ELSE Kids(T, p)
  <2>1. p \in DOMAIN T /\ ~IsPrefix(s, p) /\ p \in Path
    BY <1>1, <1>2, <1>6
  <2>2. Kids(T, p) = {q \in DOMAIN T : q # <<>> /\ Front(q) = p}
    BY <2>1, KidsAre
  <2>3. ASSUME NEW q \in DOMAIN T, q # <<>>, Front(q) = p, q # s
        PROVE  q \in DOMAIN U
    <3>1. ~IsPrefix(s, q)
      BY <1>2, <2>1, <2>3, PathIs, PrefixFront
    <3>2. QED
      BY <1>1, <3>1 DEF Under
  <2>4. s \in DOMAIN U
    BY <1>1
  <2>5. Kids(U, p) = {q \in DOMAIN U : q # <<>> /\ Front(q) = p}
    BY <1>4, <2>1
  <2>6. QED
    BY <1>1, <2>2, <2>3, <2>4, <2>5
<1>7. QED
  BY <1>5, <1>6 DEF U

\* The paths of elements, of which no two are the same, and of members.
LEMMA ItemPathIs ==
  ASSUME NEW p \in Path, NEW i \in Nat, NEW j \in Nat
  PROVE  /\ ItemPath(p, i) \in Path /\ ItemPath(p, i) # <<>> /\ Front(ItemPath(p, i)) = p
         /\ ItemPath(p, i) = ItemPath(p, j) => i = j
<1>1. <<"index", i>> \in Edge /\ <<"index", j>> \in Edge
  BY DEF Edge
<1>2. /\ ItemPath(p, i) \in Path /\ ItemPath(p, i) # <<>> /\ Front(ItemPath(p, i)) = p
      /\ ItemPath(p, i)[Len(p) + 1] = <<"index", i>>
      /\ ItemPath(p, j)[Len(p) + 1] = <<"index", j>>
  BY <1>1, PathIs, AppendIs DEF ItemPath
<1>3. QED
  BY <1>2

LEMMA MemberPathIs ==
  ASSUME NEW p \in Path, NEW k \in STRING
  PROVE  MemberPath(p, k) \in Path /\ MemberPath(p, k) # <<>> /\ Front(MemberPath(p, k)) = p
<1>1. <<"key", k>> \in Edge
  BY DEF Edge
<1>2. QED
  BY <1>1, PathIs, AppendIs DEF MemberPath

\* The place behind an array's last element is free.
LEMMA NextIsNew ==
  ASSUME NEW T, IsTree(T), NEW p \in DOMAIN T, T[p].type = "array"
  PROVE  ItemPath(p, Cardinality(Kids(T, p))) \notin DOMAIN T
<1> DEFINE n == Cardinality(Kids(T, p))
           s == ItemPath(p, n)
<1>1. n \in Nat /\ p \in Path /\ Kids(T, p) = {ItemPath(p, i) : i \in 0..(n - 1)}
  BY KidsFinite DEF IsTree, TreeAt
<1> HIDE DEF n
<1>2. s # <<>> /\ Front(s) = p
  BY <1>1, ItemPathIs
<1>3. \A i \in 0..(n - 1) : i \in Nat /\ i # n
  BY <1>1
<1>4. \A i \in 0..(n - 1) : ItemPath(p, i) # s
  BY <1>1, <1>3, ItemPathIs
<1>5. s \notin Kids(T, p)
  BY <1>1, <1>4
<1>6. QED
  BY <1>1, <1>2, <1>5, KidsAre DEF n

\* A tree in which a value is put where it may be is a tree.
LEMMA PutIsTree ==
  ASSUME NEW T, IsTree(T), NEW s, SlotIn(T, s), NEW v \in Node
  PROVE  IsTree(Put(T, s, v))
<1> DEFINE U == Put(T, s, v)
<1>0. U = [q \in DOMAIN U |-> U[q]]
  BY PutIsFunction
<1>1. /\ DOMAIN U = (DOMAIN T \ Under(T, s)) \cup {s}
      /\ U[s] = v
      /\ \A q \in DOMAIN U : q # s => U[q] = T[q] /\ q \in DOMAIN T /\ ~IsPrefix(s, q)
  BY PutIs
<1>2. /\ Kids(U, s) = {}
      /\ \A p \in DOMAIN U : p # s =>
           Kids(U, p) = IF s # <<>> /\ p = Front(s) THEN Kids(T, p) \cup {s} ELSE Kids(T, p)
  BY PutKids
<1> HIDE DEF U
<1>3. s \in Path /\ \A q \in DOMAIN T : q \in Path /\ TreeAt(T, q)
  BY DEF IsTree, TreeAt, SlotIn
<1>4. IsFiniteSet(DOMAIN U)
  <2>1. IsFiniteSet(DOMAIN T \ Under(T, s))
    BY FS_Difference DEF IsTree
  <2>2. QED
    BY <1>1, <2>1, FS_AddElement
<1>5. <<>> \in DOMAIN U
  <2>1. CASE s = <<>>
    BY <1>1, <2>1
  <2>2. CASE s # <<>>
    <3>1. ~IsPrefix(s, <<>>)
      <4>1. Len(s) \in Nat /\ Len(s) # 0 /\ Len(<<>>) = 0
        BY <1>3, <2>2, PathIs
      <4>2. ~(Len(s) <= Len(<<>>))
        BY <4>1
      <4>3. QED
        BY <1>3, <4>2, PathIs, PrefixIs
    <3>2. <<>> \in DOMAIN T
      BY DEF IsTree
    <3>3. QED
      BY <1>1, <3>1, <3>2 DEF Under
  <2>3. QED
    BY <2>1, <2>2
<1>6. TreeAt(U, s)
  <2>1. s # <<>> => Front(s) \in DOMAIN U
    <3> SUFFICES ASSUME s # <<>>
                 PROVE  Front(s) \in DOMAIN U
      OBVIOUS
    <3>1. Front(s) \in DOMAIN T
      BY DEF SlotIn
    <3>2. Len(Front(s)) = Len(s) - 1 /\ Len(s) \in Nat
      BY <1>3, PathIs, PrefixFront
    <3>3. ~IsPrefix(s, Front(s))
      BY <1>3, <3>1, <3>2, PathIs, PrefixIs
    <3>4. QED
      BY <1>1, <3>1, <3>3 DEF Under
  <2>2. Kids(U, s) = {ItemPath(s, i) : i \in 0..Cardinality(Kids(U, s)) - 1}
    <3>1. Cardinality(Kids(U, s)) = 0
      BY <1>2, FS_EmptySet
    <3>2. \A i \in 0..(0 - 1) : FALSE
      OBVIOUS
    <3>3. QED
      BY <1>2, <3>1, <3>2
  <2>3. QED
    BY <1>1, <1>2, <1>3, <2>1, <2>2 DEF TreeAt
<1>7. ASSUME NEW p \in DOMAIN U, p # s
      PROVE  TreeAt(U, p)
  <2>1. U[p] = T[p] /\ p \in DOMAIN T /\ ~IsPrefix(s, p) /\ TreeAt(T, p) /\ p \in Path
    BY <1>1, <1>3, <1>7
  <2>2. p # <<>> => Front(p) \in DOMAIN U
    <3> SUFFICES ASSUME p # <<>>
                 PROVE  Front(p) \in DOMAIN U
      OBVIOUS
    <3>1. Front(p) \in DOMAIN T
      BY <2>1 DEF TreeAt
    <3>2. ~IsPrefix(s, Front(p))
      BY <1>3, <2>1, PathIs, PrefixFront
    <3>3. QED
      BY <1>1, <3>1, <3>2 DEF Under
  <2>3. CASE s # <<>> /\ p = Front(s)
    <3>1. Kids(U, p) = Kids(T, p) \cup {s}
      BY <1>2, <1>7, <2>3
    <3>2. U[p].type \in {"array", "object"}
      BY <2>1, <2>3 DEF SlotIn
    <3>3. ASSUME U[p].type = "array"
          PROVE  Kids(U, p) = {ItemPath(p, i) : i \in 0..Cardinality(Kids(U, p)) - 1}
      <4> DEFINE n == Cardinality(Kids(T, p))
      <4>1. n \in Nat /\ IsFiniteSet(Kids(T, p))
        BY KidsFinite
      <4>2. s = ItemPath(p, n)
        BY <2>1, <2>3, <3>3 DEF SlotIn
      <4>3. s \notin Kids(T, p)
        <5>1. s \notin DOMAIN T
          BY <2>1, <3>3, <4>2, NextIsNew
        <5>2. QED
          BY <5>1 DEF Kids
      <4>4. Cardinality(Kids(U, p)) = n + 1
        BY <3>1, <4>1, <4>3, FS_AddElement
      <4>5. Kids(T, p) = {ItemPath(p, i) : i \in 0..(n - 1)}
        BY <2>1, <3>3 DEF TreeAt
      <4> HIDE DEF n
      <4>6. 0..(n + 1 - 1) = (0..(n - 1)) \cup {n}
        BY <4>1
      <4>7. Kids(U, p) = {ItemPath(p, i) : i \in (0..(n - 1)) \cup {n}}
        BY <3>1, <4>2, <4>5
      <4>8. QED
        BY <4>4, <4>6, <4>7
    <3>4. QED
      BY <2>1, <2>2, <3>2, <3>3 DEF TreeAt
  <2>4. CASE ~(s # <<>> /\ p = Front(s))
    <3>1. Kids(U, p) = Kids(T, p)
      BY <1>2, <1>7, <2>4
    <3>2. QED
      BY <2>1, <2>2, <3>1 DEF TreeAt
  <2>5. QED
    BY <2>3, <2>4
<1>8. QED
  BY <1>0, <1>1, <1>4, <1>5, <1>6, <1>7 DEF IsTree, U

-----------------------------------------------------------------------------
(****************************************************************************)
(* The stack of pointers to the containers that are open.                    *)
(****************************************************************************)

\* Pointers down into a value, each to a child of the one before.
StackIn(T, rs) ==
  /\ rs \in Seq(DOMAIN T)
  /\ \A i \in 1..Len(rs) : Len(rs[i]) = i - 1
  /\ \A i \in 2..Len(rs) :
       /\ rs[i] \in Kids(T, rs[i - 1])
       /\ T[rs[i - 1]].type = "array" =>
            rs[i] = ItemPath(rs[i - 1], Cardinality(Kids(T, rs[i - 1])) - 1)

\* Of which types the containers are.
TypesOf(T, rs) == [i \in DOMAIN rs |-> T[rs[i]].type]

\* Without its last pointer the stack is one.
LEMMA StackFront ==
  ASSUME NEW T, NEW rs, StackIn(T, rs), rs # <<>>
  PROVE  StackIn(T, Front(rs)) /\ TypesOf(T, Front(rs)) = Front(TypesOf(T, rs))
<1>1. rs \in Seq(DOMAIN T)
  BY DEF StackIn
<1> DEFINE n == Len(rs)
           r0 == Front(rs)
           ts == TypesOf(T, rs)
<1>2. /\ r0 \in Seq(DOMAIN T) /\ n \in Nat /\ n >= 1 /\ Len(r0) = n - 1
      /\ \A i \in 1..(n - 1) : r0[i] = rs[i]
  BY <1>1, FrontIs
<1>3. DOMAIN rs = 1..n /\ DOMAIN r0 = 1..(n - 1)
  BY <1>1, <1>2
<1>4. ts = [i \in 1..n |-> T[rs[i]].type]
  BY <1>3 DEF TypesOf
<1>5. ts \in Seq({T[rs[i]].type : i \in 1..n}) /\ Len(ts) = n /\ ts # <<>>
  BY <1>2, <1>4
<1> HIDE DEF n, r0
<1>6. \A i \in 1..(n - 1) : i \in 1..n
  BY <1>2
<1>7. StackIn(T, r0)
  <2>1. \A i \in 1..(n - 1) : Len(r0[i]) = i - 1
    BY <1>2, <1>6 DEF StackIn, n
  <2>2. ASSUME NEW i \in 2..(n - 1)
        PROVE  /\ r0[i] \in Kids(T, r0[i - 1])
               /\ T[r0[i - 1]].type = "array" =>
                    r0[i] = ItemPath(r0[i - 1], Cardinality(Kids(T, r0[i - 1])) - 1)
    <3>1. i \in 2..n /\ i \in 1..(n - 1) /\ i - 1 \in 1..(n - 1)
      BY <1>2
    <3>2. r0[i] = rs[i] /\ r0[i - 1] = rs[i - 1]
      BY <1>2, <3>1
    <3>3. QED
      BY <3>1, <3>2 DEF StackIn, n
  <2>3. QED
    BY <1>2, <2>1, <2>2 DEF StackIn
<1>8. TypesOf(T, r0) = Front(ts)
  <2> DEFINE S == {T[rs[i]].type : i \in 1..n}
             tf == Front(ts)
             t0 == TypesOf(T, r0)
  <2>1. ts \in Seq(S) /\ ts # <<>>
    BY <1>5
  <2>2. ts \in Seq(S) => (ts # <<>> => /\ tf \in Seq(S) /\ Len(tf) = Len(ts) - 1
                        /\ \A i \in 1..(Len(ts) - 1) : tf[i] = ts[i])
    <3> HIDE DEF S, ts
    <3>1. QED
      BY FrontIs
  <2>3. t0 = [i \in 1..(n - 1) |-> T[r0[i]].type]
    BY <1>3 DEF TypesOf
  <2>4. tf \in Seq(S) /\ Len(tf) = n - 1 /\ \A i \in 1..(n - 1) : tf[i] = ts[i]
    BY <1>5, <2>1, <2>2
  <2>5. \A i \in 1..(n - 1) : t0[i] = T[rs[i]].type /\ ts[i] = T[rs[i]].type
    BY <1>2, <1>4, <1>6, <2>3
  <2>6. \A i \in 1..(n - 1) : T[rs[i]].type \in S
    BY <1>6
  <2>7. t0 \in Seq(S) /\ Len(t0) = n - 1
    <3> HIDE DEF S
    <3>1. \A i \in 1..(n - 1) : T[r0[i]].type \in S
      BY <1>2, <2>6
    <3>2. QED
      BY <1>2, <2>3, <3>1
  <2> HIDE DEF S, tf, t0, ts
  <2>8. \A i \in 1..(n - 1) : t0[i] = tf[i]
    BY <2>4, <2>5
  <2>9. t0 = tf
    BY <2>4, <2>7, <2>8, SeqEqual
  <2>10. QED
    BY <2>9 DEF t0, tf
<1>9. QED
  BY <1>7, <1>8 DEF r0

\* Its last pointer.
LEMMA StackTop ==
  ASSUME NEW T, NEW rs, StackIn(T, rs), rs # <<>>
  PROVE  /\ TypesOf(T, rs) # <<>> /\ Last(TypesOf(T, rs)) = T[Last(rs)].type
         /\ Last(rs) \in DOMAIN T /\ Len(Last(rs)) = Len(rs) - 1 /\ Last(rs) = rs[Len(rs)]
<1>1. rs \in Seq(DOMAIN T)
  BY DEF StackIn
<1>2. Len(rs) \in 1..Len(rs) /\ Last(rs) \in DOMAIN T /\ Last(rs) = rs[Len(rs)]
  BY <1>1, FrontIs
<1>3. DOMAIN rs = 1..Len(rs) /\ Len(rs) \in Nat
  BY <1>1
<1>4. TypesOf(T, rs) = [i \in 1..Len(rs) |-> T[rs[i]].type]
  BY <1>3 DEF TypesOf
<1>5. Len(TypesOf(T, rs)) = Len(rs)
  BY <1>3, <1>4
<1>6. Last(TypesOf(T, rs)) = T[Last(rs)].type /\ TypesOf(T, rs) # <<>>
  BY <1>2, <1>4, <1>5 DEF Last
<1>7. QED
  BY <1>2, <1>6 DEF StackIn

\* Before the first container.
LEMMA NoTypes == \A T : StackIn(T, <<>>) /\ TypesOf(T, <<>>) = <<>>
BY DEF StackIn, TypesOf

\* The pointers are valid in a value that is put below the last of them.
LEMMA StackPut ==
  ASSUME NEW T, IsTree(T), NEW rs, StackIn(T, rs), NEW s, SlotIn(T, s), NEW v,
         IF rs = <<>> THEN s = <<>> ELSE s # <<>> /\ Front(s) = Last(rs)
  PROVE  LET U == Put(T, s, v) IN
         /\ StackIn(U, rs) /\ TypesOf(U, rs) = TypesOf(T, rs)
         /\ \A i \in 1..Len(rs) : U[rs[i]] = T[rs[i]]
         /\ StackIn(U, Append(rs, s)) /\ TypesOf(U, Append(rs, s)) = Append(TypesOf(T, rs), v.type)
<1> DEFINE U == Put(T, s, v)
           n == Len(rs)
<1>1. /\ DOMAIN U = (DOMAIN T \ Under(T, s)) \cup {s}
      /\ U[s] = v
      /\ \A q \in DOMAIN U : q # s => U[q] = T[q] /\ q \in DOMAIN T /\ ~IsPrefix(s, q)
  BY PutIs
<1>2. /\ Kids(U, s) = {}
      /\ \A p \in DOMAIN U : p # s =>
           Kids(U, p) = IF s # <<>> /\ p = Front(s) THEN Kids(T, p) \cup {s} ELSE Kids(T, p)
  BY PutKids
<1> HIDE DEF U
<1>3. s \in Path /\ \A q \in DOMAIN T : q \in Path
  BY DEF IsTree, TreeAt, SlotIn
<1>4. /\ rs \in Seq(DOMAIN T) /\ n \in Nat
      /\ \A i \in 1..n : rs[i] \in DOMAIN T /\ Len(rs[i]) = i - 1
  BY DEF StackIn
<1>5. Len(s) = n
  <2>1. CASE rs = <<>>
    BY <2>1
  <2>2. CASE rs # <<>>
    <3>1. Len(Last(rs)) = n - 1 /\ Len(Front(s)) = Len(s) - 1 /\ Len(s) \in Nat
      BY <1>3, <2>2, StackTop, PathIs, PrefixFront
    <3>2. QED
      BY <1>4, <2>2, <3>1
  <2>3. QED
    BY <2>1, <2>2
<1>6. ASSUME NEW i \in 1..n
      PROVE  rs[i] \in DOMAIN U /\ rs[i] # s /\ U[rs[i]] = T[rs[i]]
  <2>1. rs[i] \in DOMAIN T /\ Len(rs[i]) < Len(s) /\ Len(rs[i]) \in Nat /\ Len(s) \in Nat
    BY <1>4, <1>5
  <2>2. ~IsPrefix(s, rs[i])
    BY <1>3, <2>1, PathIs, PrefixIs
  <2>3. rs[i] \in DOMAIN U /\ rs[i] # s
    BY <1>1, <2>1, <2>2 DEF Under
  <2>4. QED
    BY <1>1, <2>3
<1>7. ASSUME NEW i \in 1..n, i # n
      PROVE  Kids(U, rs[i]) = Kids(T, rs[i])
  <2>1. rs # <<>> /\ n \in 1..n
    BY <1>4
  <2>2. s # <<>> /\ Front(s) = rs[n] /\ Len(rs[n]) = n - 1 /\ Len(rs[i]) = i - 1
    BY <1>4, <2>1, StackTop
  <2>3. rs[i] # Front(s)
    BY <1>4, <1>7, <2>2
  <2>4. QED
    BY <1>2, <1>6, <2>3
<1>8. ASSUME NEW i \in 2..n
      PROVE  /\ rs[i] \in Kids(U, rs[i - 1])
             /\ U[rs[i - 1]].type = "array" =>
                  rs[i] = ItemPath(rs[i - 1], Cardinality(Kids(U, rs[i - 1])) - 1)
  <2>1. i - 1 \in 1..n /\ i - 1 # n
    BY <1>4
  <2>2. Kids(U, rs[i - 1]) = Kids(T, rs[i - 1]) /\ U[rs[i - 1]] = T[rs[i - 1]]
    BY <1>6, <1>7, <2>1
  <2>3. QED
    BY <2>2 DEF StackIn
<1>9. rs \in Seq(DOMAIN U)
  <2> DEFINE there == DOMAIN U
  <2>1. \A i \in 1..n : rs[i] \in there
    BY <1>6
  <2> HIDE DEF there
  <2>2. rs \in [1..n -> there]
    BY <1>4, <2>1
  <2>3. rs \in Seq(there)
    BY <1>4, <2>2
  <2>4. QED
    BY <2>3 DEF there
<1>10. StackIn(U, rs)
  BY <1>4, <1>8, <1>9 DEF StackIn
<1>11. TypesOf(U, rs) = TypesOf(T, rs)
  <2>1. DOMAIN rs = 1..n
    BY <1>4
  <2>2. QED
    BY <1>6, <2>1 DEF TypesOf
<1> DEFINE more == Append(rs, s)
<1>12. /\ more \in Seq(DOMAIN U) /\ Len(more) = n + 1 /\ more[n + 1] = s
       /\ \A i \in 1..n : more[i] = rs[i]
  <2>1. s \in DOMAIN U
    BY <1>1
  <2>2. QED
    BY <1>9, <2>1, AppendProperties
<1> HIDE DEF more
<1>13. StackIn(U, more)
  <2>1. ASSUME NEW i \in 1..(n + 1)
        PROVE  Len(more[i]) = i - 1
    <3>1. CASE i = n + 1
      BY <1>4, <1>5, <1>12, <3>1
    <3>2. CASE i # n + 1
      <4>1. i \in 1..n
        BY <1>4, <3>2
      <4>2. QED
        BY <1>4, <1>12, <4>1
    <3>3. QED
      BY <3>1, <3>2
  <2>2. ASSUME NEW i \in 2..(n + 1)
        PROVE  /\ more[i] \in Kids(U, more[i - 1])
               /\ U[more[i - 1]].type = "array" =>
                    more[i] = ItemPath(more[i - 1], Cardinality(Kids(U, more[i - 1])) - 1)
    <3>1. CASE i = n + 1
      <4>1. n \in 1..n /\ i - 1 = n /\ rs # <<>>
        BY <1>4, <3>1
      <4> DEFINE b == rs[n]
      <4>2. more[i] = s /\ more[i - 1] = b
        BY <1>12, <3>1, <4>1
      <4>3. s # <<>> /\ Front(s) = b /\ b \in DOMAIN U /\ b # s /\ U[b] = T[b] /\ b \in DOMAIN T
        BY <1>4, <1>6, <4>1, StackTop
      <4> HIDE DEF b
      <4>4. Kids(U, b) = Kids(T, b) \cup {s}
        BY <1>2, <4>3
      <4>5. ASSUME U[b].type = "array"
            PROVE  s = ItemPath(b, Cardinality(Kids(U, b)) - 1)
        <5> DEFINE m == Cardinality(Kids(T, b))
        <5>1. s = ItemPath(b, m) /\ T[b].type = "array"
          BY <4>3, <4>5 DEF SlotIn
        <5>2. s \notin Kids(T, b)
          BY <4>3, <5>1, NextIsNew DEF Kids
        <5>3. Cardinality(Kids(U, b)) = m + 1 /\ m \in Nat
          BY <4>4, <5>2, KidsFinite, FS_AddElement
        <5> HIDE DEF m
        <5>4. m + 1 - 1 = m
          BY <5>3
        <5>5. QED
          BY <5>1, <5>3, <5>4
      <4>6. QED
        BY <4>2, <4>4, <4>5
    <3>2. CASE i # n + 1
      <4>1. i \in 2..n /\ i \in 1..n /\ i - 1 \in 1..n
        BY <1>4, <3>2
      <4>2. more[i] = rs[i] /\ more[i - 1] = rs[i - 1]
        BY <1>12, <4>1
      <4>3. QED
        BY <1>8, <4>1, <4>2
    <3>3. QED
      BY <3>1, <3>2
  <2>3. QED
    BY <1>12, <2>1, <2>2 DEF StackIn
<1>14. TypesOf(U, more) = Append(TypesOf(T, rs), v.type)
  <2> DEFINE ts == TypesOf(T, rs)
             S == {U[q].type : q \in DOMAIN U}
  <2>1. ts = [i \in 1..n |-> U[rs[i]].type]
    <3>1. DOMAIN rs = 1..n
      BY <1>4
    <3>2. QED
      BY <1>6, <3>1 DEF TypesOf
  <2>2. ts \in Seq(S) /\ Len(ts) = n /\ v.type \in S
    <3>1. \A i \in 1..n : U[rs[i]].type \in S
      BY <1>6
    <3>2. v.type \in S
      BY <1>1
    <3> HIDE DEF S
    <3>3. QED
      BY <1>4, <2>1, <3>1, <3>2
  <2> DEFINE tm == TypesOf(U, more)
             ta == Append(ts, v.type)
  <2>3. tm = [i \in 1..(n + 1) |-> U[more[i]].type]
    <3>1. DOMAIN more = 1..(n + 1)
      BY <1>12
    <3>2. QED
      BY <3>1 DEF TypesOf
  <2>4. /\ ta \in Seq(S) /\ Len(ta) = n + 1 /\ ta[n + 1] = v.type
        /\ \A i \in 1..n : ta[i] = ts[i]
    <3> HIDE DEF S, ts
    <3>1. QED
      BY <2>2, AppendProperties
  <2>5. \A i \in 1..(n + 1) : U[more[i]].type \in S
    BY <1>12
  <2>6. tm \in Seq(S) /\ Len(tm) = n + 1
    <3> HIDE DEF S
    <3>1. QED
      BY <1>4, <2>3, <2>5
  <2>7. ASSUME NEW i \in 1..(n + 1)
        PROVE  tm[i] = ta[i]
    <3>1. CASE i = n + 1
      BY <1>1, <1>12, <2>3, <2>4, <3>1
    <3>2. CASE i # n + 1
      <4>1. i \in 1..n
        BY <1>4, <3>2
      <4>2. tm[i] = U[rs[i]].type /\ ts[i] = U[rs[i]].type
        BY <1>12, <2>1, <2>3, <4>1
      <4>3. QED
        BY <2>4, <4>1, <4>2
    <3>3. QED
      BY <3>1, <3>2
  <2> HIDE DEF tm, ta, S
  <2>8. tm = ta
    BY <2>4, <2>6, <2>7, SeqEqual
  <2>9. QED
    BY <2>8 DEF tm, ta
<1>15. QED
  BY <1>6, <1>10, <1>11, <1>13, <1>14 DEF U, more

-----------------------------------------------------------------------------
(****************************************************************************)
(* The pointers of the parser that builds a value.                           *)
(****************************************************************************)

\* The containers that are open: the ones that are remembered, and the one that
\* has just begun.
Entered ==
  CASE at \in {"object", "first_separator"} -> Append(states, "object")
    [] at = "array" -> Append(states, "array")
    [] OTHER -> states

\* Where there is no container yet the value is the root; in an object
\* object_element is one of its members.
ElementFits ==
  /\ ref_stack = <<>> => object_element = <<>>
  /\ ref_stack # <<>> /\ tree[Back].type = "object" => object_element \in Kids(tree, Back)

\* The invariant: the stack of pointers is that of the containers, each pointer
\* to a container of the type that the parser remembers.
PtrInv ==
  /\ IsTree(tree) /\ StackIn(tree, ref_stack) /\ object_element \in DOMAIN tree
  /\ at # "error" => TypesOf(tree, ref_stack) = Entered
  /\ at \in {"first_separator", "separator", "value"} => ElementFits
  /\ at \in {"separator", "key"} => states # <<>> /\ Last(states) = "object"

\* The last container and the last one of their stack.
LEMMA BackIs ==
  ASSUME IsTree(tree), StackIn(tree, ref_stack), NEW st \in Stacks,
         TypesOf(tree, ref_stack) = st
  PROVE  /\ ref_stack = <<>> <=> st = <<>>
         /\ ref_stack # <<>> => /\ tree[Back].type = Last(st)
                                /\ tree[Back].type \in {"array", "object"}
                                /\ Back \in DOMAIN tree /\ Back \in Path
<1>1. CASE ref_stack = <<>>
  BY <1>1, NoTypes
<1>2. CASE ref_stack # <<>>
  <2>1. st # <<>> /\ Last(st) = tree[Back].type /\ Back \in DOMAIN tree
    BY <1>2, StackTop DEF Back
  <2>2. st \in Seq({"array", "object"})
    BY DEF Stacks
  <2>3. Last(st) \in {"array", "object"}
    BY <2>1, <2>2, FrontIs
  <2>4. Back \in Path
    BY <2>1 DEF IsTree, TreeAt
  <2>5. QED
    BY <1>2, <2>1, <2>3, <2>4
<1>3. QED
  BY <1>1, <1>2

\* handle_value has a place for its value, and the pointers outlive it.
LEMMA SlotIs ==
  ASSUME IsTree(tree), StackIn(tree, ref_stack), object_element \in DOMAIN tree, ElementFits,
         NEW st \in Stacks, TypesOf(tree, ref_stack) = st
  PROVE  /\ SlotIn(tree, Slot)
         /\ IF ref_stack = <<>> THEN Slot = <<>> ELSE Slot # <<>> /\ Front(Slot) = Last(ref_stack)
         /\ \A v : object_element \in DOMAIN Put(tree, Slot, v)
<1>1. ASSUME SlotIn(tree, Slot), Slot = object_element \/ Slot \notin DOMAIN tree, NEW v
      PROVE  object_element \in DOMAIN Put(tree, Slot, v)
  <2>1. DOMAIN Put(tree, Slot, v) = (DOMAIN tree \ Under(tree, Slot)) \cup {Slot}
    BY PutIs
  <2>2. CASE Slot = object_element
    BY <2>1, <2>2
  <2>3. CASE Slot \notin DOMAIN tree
    <3>1. Under(tree, Slot) = {}
      BY <1>1, <2>3, NothingUnder DEF SlotIn
    <3>2. QED
      BY <2>1, <3>1
  <2>4. QED
    BY <1>1, <2>2, <2>3
<1>2. CASE ref_stack = <<>>
  <2>1. Slot = <<>> /\ object_element = <<>>
    BY <1>2 DEF Slot, ElementFits
  <2>2. SlotIn(tree, Slot)
    BY <2>1, PathIs DEF SlotIn
  <2>3. QED
    BY <1>1, <1>2, <2>1, <2>2
<1>3. CASE ref_stack # <<>>
  <2>1. tree[Back].type \in {"array", "object"} /\ Back \in DOMAIN tree /\ Back \in Path
    BY <1>3, BackIs
  <2>2. CASE tree[Back].type = "array"
    <3> DEFINE n == Cardinality(Kids(tree, Back))
    <3>1. Slot = ItemPath(Back, n)
      BY <1>3, <2>2 DEF Slot, Children, Kids
    <3>2. n \in Nat
      BY KidsFinite
    <3>3. Slot \notin DOMAIN tree
      BY <2>1, <2>2, <3>1, NextIsNew
    <3> HIDE DEF n
    <3>4. Slot \in Path /\ Slot # <<>> /\ Front(Slot) = Back
      BY <2>1, <3>1, <3>2, ItemPathIs
    <3>5. SlotIn(tree, Slot)
      BY <2>1, <3>1, <3>4 DEF SlotIn, n
    <3>6. QED
      BY <1>1, <1>3, <3>3, <3>4, <3>5 DEF Back
  <2>3. CASE tree[Back].type = "object"
    <3>1. Slot = object_element
      <4>1. tree[Back].type # "array"
        BY <2>3
      <4>2. QED
        BY <1>3, <4>1, Zenon DEF Slot
    <3>2. object_element \in Kids(tree, Back)
      BY <1>3, <2>3 DEF ElementFits
    <3>3. Slot # <<>> /\ Front(Slot) = Back
      BY <2>1, <3>1, <3>2, KidsAre
    <3>4. Slot \in Path
      BY <3>1 DEF IsTree, TreeAt
    <3>5. SlotIn(tree, Slot)
      BY <2>1, <2>3, <3>3, <3>4 DEF SlotIn
    <3>6. QED
      BY <1>1, <1>3, <3>1, <3>3, <3>5 DEF Back
  <2>4. QED
    BY <2>1, <2>2, <2>3
<1>4. QED
  BY <1>2, <1>3

\* handle_value puts a value.
LEMMA HandlePuts == \A v : handle_value(v) => tree' = Put(tree, Slot, v)
BY DEF handle_value, Put, Replaced, Under

\* The values that are put.
LEMMA NodeIs ==
  /\ Tok("object") \in Node /\ Tok("object").type = "object"
  /\ Tok("array") \in Node /\ Tok("array").type = "array"
  /\ Null \in Node /\ Null.type = "null"
  /\ \A c \in Token : c.type \in Scalars => c \in Node
<1>1. "none" \in STRING
  BY ParserAssumption
<1>2. \A c \in Token : c.type \in Scalars => c \in Node
  BY DEF Token, Node
<1>3. QED
  BY <1>1, <1>2 DEF Tok, Node, Null, Scalars

\* A token where a value is expected is put there.
LEMMA SwitchPoints ==
  ASSUME IsTree(tree), StackIn(tree, ref_stack), object_element \in DOMAIN tree, ElementFits,
         NEW st \in Stacks, TypesOf(tree, ref_stack) = st, states' = st, t \in Token, Switch
  PROVE  PtrInv'
<1> DEFINE s == Slot
<1>1. /\ SlotIn(tree, s)
      /\ IF ref_stack = <<>> THEN s = <<>> ELSE s # <<>> /\ Front(s) = Last(ref_stack)
      /\ \A v : object_element \in DOMAIN Put(tree, s, v)
  BY SlotIs
<1> HIDE DEF s
<1>2. \A v \in Node : IsTree(Put(tree, s, v))
  BY <1>1, PutIsTree
<1>3. ASSUME NEW v \in Node
      PROVE  LET U == Put(tree, s, v) IN
             /\ StackIn(U, ref_stack) /\ TypesOf(U, ref_stack) = st
             /\ StackIn(U, Append(ref_stack, s))
             /\ TypesOf(U, Append(ref_stack, s)) = Append(st, v.type)
  BY <1>1, StackPut
<1>4. CASE start("object") /\ at' = "object"
  <2>1. /\ tree' = Put(tree, s, Tok("object")) /\ ref_stack' = Append(ref_stack, s)
        /\ object_element' = object_element
    BY <1>4, HandlePuts DEF start, s
  <2>2. TypesOf(tree', ref_stack') = Entered' /\ StackIn(tree', ref_stack')
    <3>1. Entered' = Append(st, "object")
      BY <1>4 DEF Entered
    <3>2. QED
      BY <1>3, <2>1, <3>1, NodeIs
  <2>3. IsTree(tree') /\ object_element' \in DOMAIN tree'
    BY <1>1, <1>2, <2>1, NodeIs
  <2>4. QED
    BY <1>4, <2>2, <2>3, Zenon DEF PtrInv
<1>5. CASE start("array") /\ at' = "array"
  <2>1. /\ tree' = Put(tree, s, Tok("array")) /\ ref_stack' = Append(ref_stack, s)
        /\ object_element' = object_element
    BY <1>5, HandlePuts DEF start, s
  <2>2. TypesOf(tree', ref_stack') = Entered' /\ StackIn(tree', ref_stack')
    <3>1. Entered' = Append(st, "array")
      BY <1>5 DEF Entered
    <3>2. QED
      BY <1>3, <2>1, <3>1, NodeIs
  <2>3. IsTree(tree') /\ object_element' \in DOMAIN tree'
    BY <1>1, <1>2, <2>1, NodeIs
  <2>4. QED
    BY <1>5, <2>2, <2>3, Zenon DEF PtrInv
<1>6. CASE /\ t.type \in Scalars /\ handle_value(t) /\ at' = "evaluate"
           /\ UNCHANGED <<ref_stack, object_element>>
  <2>1. /\ tree' = Put(tree, s, t) /\ ref_stack' = ref_stack
        /\ object_element' = object_element /\ t \in Node
    BY <1>6, HandlePuts, NodeIs DEF s
  <2>2. TypesOf(tree', ref_stack') = Entered' /\ StackIn(tree', ref_stack')
    <3>1. Entered' = st
      BY <1>6 DEF Entered
    <3>2. QED
      BY <1>3, <2>1, <3>1
  <2>3. IsTree(tree') /\ object_element' \in DOMAIN tree'
    BY <1>1, <1>2, <2>1
  <2>4. QED
    BY <1>6, <2>2, <2>3, Zenon DEF PtrInv
<1>7. CASE at' = "error" /\ UNCHANGED domVars
  BY <1>7 DEF PtrInv, domVars
<1>8. QED
  BY <1>4, <1>5, <1>6, <1>7, Zenon DEF Switch

\* An error leaves the pointers alone.
LEMMA ErrorPoints == PtrInv /\ Error => PtrInv'
BY DEF PtrInv, Error, domVars

\* A container ends: the parser's stack is what is around it.
LEMMA EndPoints ==
  ASSUME PtrInv, end, NEW st \in Stacks, st # <<>>, TypesOf(tree, ref_stack) = st,
         states' = Front(st), at' = "evaluate"
  PROVE  PtrInv'
<1>1. ref_stack # <<>>
  BY NoTypes
<1>2. /\ tree' = tree /\ object_element' = object_element /\ ref_stack' = Front(ref_stack)
  BY DEF end
<1>3. StackIn(tree, Front(ref_stack)) /\ TypesOf(tree, Front(ref_stack)) = Front(st)
  BY <1>1, StackFront DEF PtrInv
<1>4. Entered' = Front(st)
  BY DEF Entered
<1>5. QED
  BY <1>2, <1>3, <1>4, Zenon DEF PtrInv

\* A key is read in the innermost container, an object.
LEMMA KeyPoints ==
  ASSUME PtrInv, NEW k \in STRING, key(k), NEW st \in Stacks, st # <<>>, Last(st) = "object",
         TypesOf(tree, ref_stack) = st
  PROVE  /\ IsTree(tree') /\ StackIn(tree', ref_stack') /\ TypesOf(tree', ref_stack') = st
         /\ object_element' \in DOMAIN tree' /\ ElementFits'
<1> DEFINE s == Element(k)
<1>1. /\ ref_stack # <<>> /\ tree[Back].type = "object" /\ Back \in DOMAIN tree /\ Back \in Path
      /\ IsTree(tree) /\ StackIn(tree, ref_stack)
  BY BackIs DEF PtrInv
<1>2. s \in Path /\ s # <<>> /\ Front(s) = Back
  BY <1>1, MemberPathIs DEF Element
<1>3. /\ object_element' = s /\ ref_stack' = ref_stack
      /\ tree' = [q \in DOMAIN tree \cup {s} |-> IF q \in DOMAIN tree THEN tree[q] ELSE Null]
  BY DEF key
<1> HIDE DEF s
<1>4. /\ IsTree(tree') /\ StackIn(tree', ref_stack) /\ TypesOf(tree', ref_stack) = st
      /\ s \in DOMAIN tree' /\ tree'[Back] = tree[Back]
  <2>1. CASE s \in DOMAIN tree
    <3>1. DOMAIN tree \cup {s} = DOMAIN tree
      BY <2>1
    <3>2. tree' = [q \in DOMAIN tree |-> tree[q]]
      BY <1>3, <3>1
    <3>3. tree' = tree
      BY <1>1, <3>2 DEF IsTree
    <3>4. QED
      BY <1>1, <2>1, <3>3
  <2>2. CASE s \notin DOMAIN tree
    <3>1. Under(tree, s) = {}
      BY <1>1, <1>2, <2>2, NothingUnder
    <3>2. tree' = Put(tree, s, Null)
      BY <1>3, <2>2, <3>1 DEF Put
    <3>3. SlotIn(tree, s)
      BY <1>1, <1>2 DEF SlotIn
    <3>4. IsTree(tree')
      BY <1>1, <3>2, <3>3, PutIsTree, NodeIs
    <3>5. IF ref_stack = <<>> THEN s = <<>> ELSE s # <<>> /\ Front(s) = Last(ref_stack)
      BY <1>1, <1>2 DEF Back
    <3>6. /\ StackIn(Put(tree, s, Null), ref_stack) /\ TypesOf(Put(tree, s, Null), ref_stack) = st
      BY <1>1, <3>3, <3>5, StackPut
    <3>7. Back # s
      BY <1>1, <2>2
    <3>8. s \in DOMAIN tree' /\ tree'[Back] = tree[Back]
      BY <1>1, <1>3, <3>7
    <3>9. QED
      BY <3>2, <3>4, <3>6, <3>8
  <2>3. QED
    BY <2>1, <2>2
<1>5. ElementFits'
  <2>1. Back' = Back
    BY <1>3 DEF Back
  <2>2. s \in Kids(tree', Back)
    BY <1>1, <1>2, <1>4, KidsAre
  <2>3. QED
    BY <1>1, <1>3, <2>1, <2>2 DEF ElementFits
<1>6. QED
  BY <1>3, <1>4, <1>5

LEMMA TokenIs == ASSUME NEW c \in Token
                 PROVE  c.val \in STRING
BY DEF Token

\* Each step of the parser preserves it.
LEMMA ValuePoints == ReadInv /\ PtrInv /\ Value => PtrInv'
<1> SUFFICES ASSUME ReadInv, PtrInv, Value
             PROVE  PtrInv'
  OBVIOUS
<1>1. at = "value" /\ t \in Token /\ Switch /\ states' = states /\ states \in Stacks
  BY TookToken DEF Value, ReadInv
<1>2. Entered = states
  BY <1>1 DEF Entered
<1>3. /\ IsTree(tree) /\ StackIn(tree, ref_stack) /\ object_element \in DOMAIN tree /\ ElementFits
      /\ TypesOf(tree, ref_stack) = states
  BY <1>1, <1>2 DEF PtrInv
<1>4. QED
  BY <1>1, <1>3, SwitchPoints

LEMMA ObjectBegunPoints == ReadInv /\ PtrInv /\ ObjectBegun => PtrInv'
<1> SUFFICES ASSUME ReadInv, PtrInv, ObjectBegun
             PROVE  PtrInv'
  OBVIOUS
<1> DEFINE st == Append(states, "object")
<1>1. at = "object" /\ t \in Token /\ states \in Stacks
  BY TookToken DEF ObjectBegun, ReadInv
<1>2. Entered = st
  BY <1>1 DEF Entered
<1>3. TypesOf(tree, ref_stack) = st
  BY <1>1, <1>2 DEF PtrInv
<1>4. st \in Stacks /\ st # <<>> /\ Last(st) = "object" /\ Front(st) = states
  <2>1. states \in Seq({"array", "object"}) /\ "object" \in {"array", "object"}
    BY <1>1 DEF Stacks
  <2>2. st \in Seq({"array", "object"}) /\ st # <<>> /\ Front(st) = states
    BY <2>1, AppendIs
  <2>3. Last(st) = "object"
    BY <2>1 DEF Last
  <2>4. QED
    BY <2>2, <2>3 DEF Stacks
<1> HIDE DEF st
<1>5. CASE end /\ at' = "evaluate" /\ states' = states
  BY <1>3, <1>4, <1>5, EndPoints
<1>6. CASE key(t.val) /\ at' = "first_separator" /\ states' = states
  <2>1. t.val \in STRING
    BY <1>1, TokenIs
  <2>2. /\ IsTree(tree') /\ StackIn(tree', ref_stack') /\ TypesOf(tree', ref_stack') = st
        /\ object_element' \in DOMAIN tree' /\ ElementFits'
    BY <1>3, <1>4, <1>6, <2>1, KeyPoints
  <2>3. Entered' = st
    BY <1>6 DEF Entered, st
  <2>4. QED
    BY <1>6, <2>2, <2>3, Zenon DEF PtrInv
<1>7. QED
  BY <1>5, <1>6, ErrorPoints, Zenon DEF ObjectBegun

LEMMA ArrayBegunPoints == ReadInv /\ PtrInv /\ ArrayBegun => PtrInv'
<1> SUFFICES ASSUME ReadInv, PtrInv, ArrayBegun
             PROVE  PtrInv'
  OBVIOUS
<1> DEFINE st == Append(states, "array")
<1>1. at = "array" /\ t \in Token /\ states \in Stacks
  BY TookToken DEF ArrayBegun, ReadInv
<1>2. Entered = st
  BY <1>1 DEF Entered
<1>3. TypesOf(tree, ref_stack) = st
  BY <1>1, <1>2 DEF PtrInv
<1>4. st \in Stacks /\ st # <<>> /\ Last(st) = "array" /\ Front(st) = states
  <2>1. states \in Seq({"array", "object"}) /\ "array" \in {"array", "object"}
    BY <1>1 DEF Stacks
  <2>2. st \in Seq({"array", "object"}) /\ st # <<>> /\ Front(st) = states
    BY <2>1, AppendIs
  <2>3. Last(st) = "array"
    BY <2>1 DEF Last
  <2>4. QED
    BY <2>2, <2>3 DEF Stacks
<1>5. InArray = st
  BY DEF InArray
<1> HIDE DEF st
<1>6. CASE end /\ at' = "evaluate" /\ states' = states
  BY <1>3, <1>4, <1>6, EndPoints
<1>7. CASE states' = InArray /\ Switch
  <2>1. ref_stack # <<>> /\ tree[Back].type = "array"
    BY <1>3, <1>4, BackIs DEF PtrInv
  <2>2. ElementFits
    BY <2>1 DEF ElementFits
  <2>3. IsTree(tree) /\ StackIn(tree, ref_stack) /\ object_element \in DOMAIN tree
    BY DEF PtrInv
  <2>4. QED
    BY <1>1, <1>3, <1>4, <1>5, <1>7, <2>2, <2>3, SwitchPoints
<1>8. QED
  BY <1>6, <1>7, Zenon DEF ArrayBegun

LEMMA SeparatorPoints == ReadInv /\ PtrInv /\ Separator => PtrInv'
<1> SUFFICES ASSUME ReadInv, PtrInv, Separator
             PROVE  PtrInv'
  OBVIOUS
<1>1. /\ IsTree(tree) /\ StackIn(tree, ref_stack) /\ object_element \in DOMAIN tree
      /\ at # "error" => TypesOf(tree, ref_stack) = Entered
      /\ at \in {"first_separator", "separator"} => ElementFits
  BY DEF PtrInv
<1>2. CASE /\ at \in {"first_separator", "separator"} /\ at' = "value" /\ UNCHANGED domVars
           /\ states' = Entered
  <2>1. Entered' = Entered
    BY <1>2 DEF Entered
  <2>2. UNCHANGED <<tree, ref_stack, object_element>>
    BY <1>2 DEF domVars
  <2>3. ElementFits'
    BY <1>1, <1>2, <2>2 DEF ElementFits, Back
  <2>4. TypesOf(tree', ref_stack') = Entered'
    BY <1>1, <1>2, <2>1, <2>2
  <2>5. QED
    BY <1>1, <1>2, <2>2, <2>3, <2>4, Zenon DEF PtrInv
<1>3. CASE /\ at = "first_separator" /\ at' = "value" /\ states' = Append(states, "object")
           /\ UNCHANGED domVars
  <2>1. Entered = Append(states, "object")
    BY <1>3 DEF Entered
  <2>2. QED
    BY <1>2, <1>3, <2>1
<1>4. CASE at = "separator" /\ at' = "value" /\ UNCHANGED <<states, domVars>>
  <2>1. Entered = states
    BY <1>4 DEF Entered
  <2>2. QED
    BY <1>2, <1>4, <2>1
<1>5. QED
  BY <1>3, <1>4, ErrorPoints, Zenon DEF Separator, GetToken

LEMMA KeyStepPoints == ReadInv /\ PtrInv /\ Key => PtrInv'
<1> SUFFICES ASSUME ReadInv, PtrInv, Key
             PROVE  PtrInv'
  OBVIOUS
<1>1. at = "key" /\ t \in Token /\ states \in Stacks
  BY TookToken DEF Key, ReadInv
<1>2. Entered = states
  BY <1>1 DEF Entered
<1>3. TypesOf(tree, ref_stack) = states /\ states # <<>> /\ Last(states) = "object"
  BY <1>1, <1>2 DEF PtrInv
<1>4. CASE key(t.val) /\ at' = "separator" /\ states' = states
  <2>1. t.val \in STRING
    BY <1>1, TokenIs
  <2>2. /\ IsTree(tree') /\ StackIn(tree', ref_stack') /\ TypesOf(tree', ref_stack') = states
        /\ object_element' \in DOMAIN tree' /\ ElementFits'
    BY <1>1, <1>3, <1>4, <2>1, KeyPoints
  <2>3. Entered' = states
    BY <1>4 DEF Entered
  <2>4. QED
    BY <1>3, <1>4, <2>2, <2>3, Zenon DEF PtrInv
<1>5. QED
  BY <1>4, ErrorPoints, Zenon DEF Key

LEMMA EvaluatePoints == ReadInv /\ PtrInv /\ Evaluate => PtrInv'
<1> SUFFICES ASSUME ReadInv, PtrInv, Evaluate
             PROVE  PtrInv'
  OBVIOUS
<1>1. at = "evaluate" /\ states \in Stacks
  BY DEF Evaluate, ReadInv, GetToken
<1>2. Entered = states
  BY <1>1 DEF Entered
<1>3. /\ IsTree(tree) /\ StackIn(tree, ref_stack) /\ object_element \in DOMAIN tree
      /\ TypesOf(tree, ref_stack) = states
  BY <1>1, <1>2 DEF PtrInv
<1>4. CASE at' = "accepted" /\ UNCHANGED <<states, domVars>>
  <2>1. Entered' = states
    BY <1>4 DEF Entered
  <2>2. UNCHANGED <<tree, ref_stack, object_element>>
    BY <1>4 DEF domVars
  <2>3. QED
    BY <1>3, <1>4, <2>1, <2>2, Zenon DEF PtrInv
<1>5. CASE /\ states # <<>> /\ at' = IF Last(states) = "array" THEN "value" ELSE "key"
           /\ UNCHANGED <<states, domVars>>
  <2>1. Entered' = states
    BY <1>5 DEF Entered
  <2>2. UNCHANGED <<tree, ref_stack, object_element>>
    BY <1>5 DEF domVars
  <2>3. ref_stack # <<>> /\ tree[Back].type = Last(states) /\ Last(states) \in {"array", "object"}
    BY <1>1, <1>3, <1>5, BackIs
  <2>4. CASE Last(states) = "array" /\ at' = "value"
    <3>1. ElementFits'
      BY <2>2, <2>3, <2>4 DEF ElementFits, Back
    <3>2. QED
      BY <1>3, <2>1, <2>2, <2>4, <3>1, Zenon DEF PtrInv
  <2>5. CASE Last(states) = "object" /\ at' = "key"
    <3>1. states' # <<>> /\ Last(states') = "object"
      BY <1>5, <2>5
    <3>2. QED
      BY <1>3, <2>1, <2>2, <2>5, <3>1, Zenon DEF PtrInv
  <2>6. QED
    BY <1>5, <2>3, <2>4, <2>5
<1>6. CASE states # <<>> /\ end /\ states' = Front(states) /\ UNCHANGED at
  <2>1. at' = "evaluate"
    BY <1>1, <1>6
  <2>2. QED
    BY <1>1, <1>3, <1>6, <2>1, EndPoints
<1>7. QED
  BY <1>4, <1>5, <1>6, ErrorPoints, Zenon DEF Evaluate

LEMMA ParsePoints == ReadInv /\ PtrInv /\ Parse => PtrInv'
BY ValuePoints, ObjectBegunPoints, ArrayBegunPoints, SeparatorPoints, KeyStepPoints, EvaluatePoints
   DEF Parse

\* Before the first token the value is null.
LEMMA InitPoints == ParserInit => PtrInv
<1> SUFFICES ASSUME ParserInit
             PROVE  PtrInv
  OBVIOUS
<1>1. /\ at = "value" /\ states = <<>> /\ ref_stack = <<>> /\ object_element = <<>>
      /\ tree = [p \in {<<>>} |-> Null]
  BY DEF ParserInit
<1>2. DOMAIN tree = {<<>>} /\ tree[<<>>] = Null
  BY <1>1
<1>3. Kids(tree, <<>>) = {}
  <2>1. Len(<<>>) # Len(<<>>) + 1
    OBVIOUS
  <2>2. QED
    BY <1>2, <2>1 DEF Kids
<1>4. TreeAt(tree, <<>>)
  <2>1. tree[<<>>] \in Node /\ tree[<<>>].type # "array"
    BY <1>2, NodeIs
  <2>2. QED
    BY <1>3, <2>1, PathIs DEF TreeAt
<1>5. IsTree(tree)
  <2>1. IsFiniteSet(DOMAIN tree)
    BY <1>2, FS_Singleton
  <2>2. QED
    BY <1>1, <1>2, <1>4, <2>1 DEF IsTree
<1>6. StackIn(tree, ref_stack) /\ TypesOf(tree, ref_stack) = <<>>
  BY <1>1, NoTypes
<1>7. Entered = <<>> /\ ElementFits
  BY <1>1 DEF Entered, ElementFits
<1>8. QED
  BY <1>1, <1>2, <1>5, <1>6, <1>7, Zenon DEF PtrInv

\* Pointers into a tree are into the value, at the containers they are for.
LEMMA PtrInvIsPointersValid == open \in BOOLEAN /\ ReadInv /\ PtrInv => PointersValid /\ ValueIsTree
<1> SUFFICES ASSUME open \in BOOLEAN, ReadInv, PtrInv
             PROVE  PointersValid /\ ValueIsTree
  OBVIOUS
<1>1. /\ IsTree(tree) /\ StackIn(tree, ref_stack) /\ object_element \in DOMAIN tree
  BY DEF PtrInv
<1>2. \A p : Children(p) = Kids(tree, p)
  BY DEF Children, Kids
<1>3. ParserTypeOK
  <2>1. \A p \in DOMAIN tree : p \in Path /\ tree[p] \in Node
    BY <1>1 DEF IsTree, TreeAt
  <2>2. ref_stack \in Seq(DOMAIN tree)
    BY <1>1 DEF StackIn
  <2>3. /\ text \in Texts /\ read \in Texts /\ states \in Stacks /\ at \in Places
    BY DEF ReadInv
  <2>4. QED
    BY <1>1, <2>1, <2>2, <2>3 DEF ParserTypeOK, Texts, Stacks, Places
<1>4. StacksAgree
  <2> SUFFICES ASSUME at # "error"
               PROVE  Containers = states \o (CASE at \in {"object", "first_separator"} -> <<"object">>
                                                [] at = "array" -> <<"array">>
                                                [] OTHER -> <<>>)
    BY DEF StacksAgree
  <2>1. Containers = Entered
    BY DEF PtrInv, TypesOf, Containers
  <2>2. \A x \in {"array", "object"} : Append(states, x) = states \o <<x>>
    BY AppendIsConcat DEF ReadInv, Stacks
  <2>3. states \o <<>> = states
    BY ConcatEmptySeq DEF ReadInv, Stacks
  <2>4. QED
    BY <2>1, <2>2, <2>3 DEF Entered
<1>5. PointersValid
  <2>1. /\ at \in {"first_separator", "separator", "value"} /\ ref_stack # <<>>
        /\ tree[Back].type = "object"
        => object_element \in Children(Back)
    BY <1>2 DEF PtrInv, ElementFits
  <2>2. \A i \in 2..Len(ref_stack) :
          /\ ref_stack[i] \in Children(ref_stack[i - 1])
          /\ tree[ref_stack[i - 1]].type = "array" =>
               ref_stack[i] = ItemPath(ref_stack[i - 1], Cardinality(Children(ref_stack[i - 1])) - 1)
    BY <1>1, <1>2 DEF StackIn
  <2>3. QED
    BY <1>3, <1>4, <2>1, <2>2 DEF PointersValid
<1>6. ValueIsTree
  BY <1>1, <1>2 DEF ValueIsTree, IsTree, TreeAt
<1>7. QED
  BY <1>5, <1>6

-----------------------------------------------------------------------------
(****************************************************************************)
(* Sequences that hold each member of a set once.                            *)
(****************************************************************************)

\* A sequence that holds each member of a set once.
OnceEach(s, S) == s \in Seq(S) /\ IsInjective(s) /\ ToSet(s) = S

\* By its positions.
LEMMA OnceIs ==
  ASSUME NEW s, NEW S
  PROVE  OnceEach(s, S) <=>
           /\ s \in Seq(S)
           /\ \A i, j \in 1..Len(s) : s[i] = s[j] => i = j
           /\ \A x \in S : \E i \in 1..Len(s) : s[i] = x
<1>1. CASE s \in Seq(S)
  <2>1. DOMAIN s = 1..Len(s) /\ \A i \in 1..Len(s) : s[i] \in S
    BY <1>1
  <2>2. IsInjective(s) <=> \A i, j \in 1..Len(s) : s[i] = s[j] => i = j
    BY <2>1, Zenon DEF IsInjective
  <2>3. ToSet(s) = S <=> \A x \in S : \E i \in 1..Len(s) : s[i] = x
    BY <2>1 DEF ToSet
  <2>4. QED
    BY <1>1, <2>2, <2>3 DEF OnceEach
<1>2. QED
  BY <1>1 DEF OnceEach

\* Nothing once.
LEMMA OnceEmpty ==
  /\ OnceEach(<<>>, {})
  /\ \A S : OnceEach(<<>>, S) => S = {}
<1>1. Len(<<>>) = 0 /\ \A i \in 1..0 : FALSE
  OBVIOUS
<1>2. <<>> \in Seq({})
  OBVIOUS
<1>3. OnceEach(<<>>, {})
  BY <1>1, <1>2, OnceIs
<1>4. ASSUME NEW S, OnceEach(<<>>, S)
      PROVE  S = {}
  BY <1>1, <1>4, OnceIs
<1>5. QED
  BY <1>3, <1>4

\* Any sequence of a finite set's members.
LEMMA OnceSetToSeq ==
  ASSUME NEW S, IsFiniteSet(S)
  PROVE  OnceEach(SetToSeq(S), S)
<1> DEFINE n == Cardinality(S)
           Fs == {f \in [1..n -> S] : IsInjective(f)}
           s == SetToSeq(S)
<1>1. n \in Nat /\ ExistsBijection(1..n, S)
  BY FS_CardinalityType
<1>2. PICK b : b \in Bijection(1..n, S)
  BY <1>1 DEF ExistsBijection
<1> HIDE DEF n
<1>3. b \in [1..n -> S] /\ IsInjective(b)
  BY <1>2 DEF Bijection, Injection
<1>4. s = CHOOSE f \in [1..n -> S] : IsInjective(f)
  BY DEF SetToSeq, n
<1>5. s \in [1..n -> S] /\ IsInjective(s)
  <2> HIDE DEF s
  <2>1. QED
    BY <1>3, <1>4, Zenon
<1> HIDE DEF s
<1>6. s \in Seq(S)
  BY <1>1, <1>5
<1>7. ToSet(s) = S
  <2>1. DOMAIN s = 1..n
    BY <1>5
  <2> DEFINE R == {s[i] : i \in 1..n}
  <2>2. ToSet(s) = R /\ R \in SUBSET S
    BY <1>5, <2>1 DEF ToSet
  <2>3. \A i, j \in 1..n : s[i] = s[j] => i = j
    BY <1>5, <2>1, Zenon DEF IsInjective
  <2>4. s \in Bijection(1..n, R)
    <3>1. s \in [1..n -> R]
      BY <1>5
    <3>2. \A x \in R : \E i \in 1..n : s[i] = x
      OBVIOUS
    <3>3. s \in Surjection(1..n, R)
      BY <3>1, <3>2 DEF Surjection
    <3>4. s \in Injection(1..n, R)
      BY <1>5, <3>1 DEF Injection
    <3>5. QED
      BY <3>3, <3>4 DEF Bijection
  <2>5. ExistsBijection(1..n, R)
    BY <2>4 DEF ExistsBijection
  <2> HIDE DEF R
  <2>6. Cardinality(R) = n
    BY <1>1, <2>5, FS_CountingElements
  <2>7. R = S
    <3>1. Cardinality(R) = Cardinality(S)
      BY <2>6 DEF n
    <3>2. QED
      BY <2>2, <3>1, FS_Subset
  <2>8. QED
    BY <2>2, <2>7
<1>8. QED
  BY <1>5, <1>6, <1>7 DEF OnceEach, s

\* Two such sequences of sets that share nothing.
LEMMA OnceConcat ==
  ASSUME NEW S, NEW U, S \cap U = {}, NEW s, NEW u, OnceEach(s, S), OnceEach(u, U)
  PROVE  OnceEach(s \o u, S \cup U)
<1> DEFINE W == S \cup U
           w == s \o u
           m == Len(s)
           n == Len(u)
<1>1. /\ s \in Seq(S) /\ \A i, j \in 1..m : s[i] = s[j] => i = j
      /\ \A x \in S : \E i \in 1..m : s[i] = x
  BY OnceIs
<1>2. /\ u \in Seq(U) /\ \A i, j \in 1..n : u[i] = u[j] => i = j
      /\ \A x \in U : \E i \in 1..n : u[i] = x
  BY OnceIs
<1>3. m \in Nat /\ n \in Nat /\ s \in Seq(W) /\ u \in Seq(W)
  BY <1>1, <1>2
<1>4. /\ w \in Seq(W) /\ Len(w) = m + n
      /\ \A i \in 1..m : w[i] = s[i]
      /\ \A i \in 1..n : w[m + i] = u[i]
  BY <1>3, ConcatProperties
<1>5. /\ \A i \in 1..m : s[i] \in S
      /\ \A i \in 1..n : u[i] \in U
  BY <1>1, <1>2
<1> HIDE DEF w, m, n
<1>6. ASSUME NEW i \in 1..(m + n), i \notin 1..m
      PROVE  i - m \in 1..n /\ w[i] = u[i - m] /\ i = m + (i - m)
  <2>1. i - m \in 1..n /\ i = m + (i - m)
    BY <1>3, <1>6
  <2> DEFINE k == i - m
  <2>2. k \in 1..n /\ i = m + k
    BY <2>1
  <2> HIDE DEF k
  <2>3. w[i] = u[k]
    BY <1>4, <2>2
  <2>4. QED
    BY <2>1, <2>3 DEF k
<1>7. ASSUME NEW i \in 1..(m + n), NEW j \in 1..(m + n), w[i] = w[j]
      PROVE  i = j
  <2>1. CASE i \in 1..m /\ j \in 1..m
    BY <1>1, <1>4, <1>7, <2>1
  <2>2. CASE i \notin 1..m /\ j \notin 1..m
    <3>1. i - m = j - m
      BY <1>2, <1>6, <1>7, <2>2
    <3>2. QED
      BY <1>3, <3>1
  <2>3. CASE i \in 1..m /\ j \notin 1..m
    <3>1. w[i] \in S /\ w[j] \in U
      BY <1>4, <1>5, <1>6, <2>3
    <3>2. QED
      BY <1>7, <3>1
  <2>4. CASE i \notin 1..m /\ j \in 1..m
    <3>1. w[i] \in U /\ w[j] \in S
      BY <1>4, <1>5, <1>6, <2>4
    <3>2. QED
      BY <1>7, <3>1
  <2>5. QED
    BY <2>1, <2>2, <2>3, <2>4
<1>8. ASSUME NEW x \in W
      PROVE  \E i \in 1..(m + n) : w[i] = x
  <2>1. CASE x \in S
    <3>1. PICK i \in 1..m : s[i] = x
      BY <1>1, <2>1
    <3>2. i \in 1..(m + n)
      BY <1>3
    <3>3. QED
      BY <1>4, <3>1, <3>2
  <2>2. CASE x \in U
    <3>1. PICK i \in 1..n : u[i] = x
      BY <1>2, <2>2
    <3>2. m + i \in 1..(m + n)
      BY <1>3
    <3>3. w[m + i] = x
      BY <1>4, <3>1
    <3>4. QED
      BY <3>2, <3>3
  <2>3. QED
    BY <2>1, <2>2
<1> HIDE DEF W
<1>9. OnceEach(w, W)
  BY <1>4, <1>7, <1>8, OnceIs
<1>10. QED
  BY <1>9 DEF w, W

\* The last is taken away.
LEMMA OnceFront ==
  ASSUME NEW S, NEW s, OnceEach(s, S), s # <<>>
  PROVE  Last(s) \in S /\ OnceEach(Front(s), S \ {Last(s)})
<1> DEFINE n == Len(s)
           f == Front(s)
           c == Last(s)
<1>1. /\ s \in Seq(S) /\ \A i, j \in 1..n : s[i] = s[j] => i = j
      /\ \A x \in S : \E i \in 1..n : s[i] = x
  BY OnceIs
<1>2. /\ f \in Seq(S) /\ c \in S /\ n \in Nat /\ n >= 1 /\ Len(f) = n - 1 /\ c = s[n]
      /\ \A j \in 1..(n - 1) : f[j] = s[j]
  BY <1>1, FrontIs
<1> HIDE DEF n, f, c
<1>3. n \in 1..n /\ \A i \in 1..(n - 1) : i \in 1..n /\ i # n
  BY <1>2
<1>4. \A i \in 1..(n - 1) : f[i] \in S \ {c}
  BY <1>1, <1>2, <1>3
<1>5. f \in Seq(S \ {c})
  BY <1>2, <1>4
<1>6. \A i, j \in 1..Len(f) : f[i] = f[j] => i = j
  BY <1>1, <1>2, <1>3 DEF n
<1>7. ASSUME NEW x \in S \ {c}
      PROVE  \E i \in 1..Len(f) : f[i] = x
  <2>1. PICK i \in 1..n : s[i] = x
    BY <1>1 DEF n
  <2>2. i # n
    BY <1>2, <2>1
  <2>3. i \in 1..(n - 1)
    BY <1>2, <2>2
  <2>4. QED
    BY <1>2, <2>1, <2>3
<1> DEFINE D == S \ {c}
<1>8. f \in Seq(D) /\ \A x \in D : \E i \in 1..Len(f) : f[i] = x
  BY <1>5, <1>7
<1> HIDE DEF D
<1>9. OnceEach(f, D)
  BY <1>6, <1>8, OnceIs
<1>10. QED
  BY <1>2, <1>9 DEF D, f, c

-----------------------------------------------------------------------------
(****************************************************************************)
(* The end of a value, which its destructor takes apart without recursion.   *)
(****************************************************************************)

\* What was moved out of the root and of these values.
Held(T, F) == {q \in DOMAIN T \ {<<>>} : Front(q) \in F \cup {<<>>}}

\* These values were freed, each after what it was in, and the ones that were
\* moved and are not free are on the stack.
Emptying(T, F, st, nu, fr) ==
  /\ F \subseteq Held(T, F)
  /\ OnceEach(fr, F)
  /\ nu = Held(T, F)
  /\ OnceEach(st, Held(T, F) \ F)

\* The invariant: before, while and after the value is taken apart.
ValueInv ==
  /\ at_end \in {"alive", "flattened", "destroyed"}
  /\ at_end = "alive" => stack = <<>> /\ nulls = {} /\ freed = <<>>
  /\ at_end = "flattened" => \E F : Emptying(tree, F, stack, nulls, freed)
  /\ at_end = "destroyed" => OnceEach(freed, DOMAIN tree)

\* The paths of a tree, and what is above them.
LEMMA TreePaths ==
  ASSUME NEW T, IsTree(T)
  PROVE  /\ <<>> \in DOMAIN T /\ IsFiniteSet(DOMAIN T)
         /\ \A q \in DOMAIN T : /\ q \in Path /\ q \in Seq(Edge) /\ Len(q) \in Nat
                                /\ q # <<>> => /\ Front(q) \in DOMAIN T /\ Len(Front(q)) = Len(q) - 1
                                               /\ Len(q) >= 1 /\ IsPrefix(Front(q), q)
         /\ \A q \in DOMAIN T : \A p \in Path : IsPrefix(p, q) => p \in DOMAIN T
<1>1. <<>> \in DOMAIN T /\ IsFiniteSet(DOMAIN T)
  BY DEF IsTree
<1>2. \A q \in DOMAIN T : q \in Path /\ q \in Seq(Edge) /\ Len(q) \in Nat
                          /\ (q # <<>> => Front(q) \in DOMAIN T)
  BY PathIs DEF IsTree, TreeAt
<1>3. ASSUME NEW q \in DOMAIN T, q # <<>>
      PROVE  Len(Front(q)) = Len(q) - 1 /\ Len(q) >= 1 /\ IsPrefix(Front(q), q)
  BY <1>2, <1>3, PrefixFront
<1>4. ASSUME NEW q \in DOMAIN T, NEW p \in Path, IsPrefix(p, q)
      PROVE  p \in DOMAIN T
  <2>1. q \in Under(T, p)
    BY <1>4 DEF Under
  <2>2. QED
    BY <2>1, NothingUnder
<1>5. QED
  BY <1>1, <1>2, <1>3, <1>4

\* What a freed value was in is freed or the root.
LEMMA FreedAbove ==
  ASSUME NEW T, IsTree(T), NEW F, F \subseteq Held(T, F)
  PROVE  \A a \in Path : \A q \in F \cup {<<>>} : IsPrefix(a, q) => a \in F \cup {<<>>}
<1> DEFINE G == F \cup {<<>>}
           N == {n \in Nat : \A a \in Path : \A q \in G :
                               Len(q) = n /\ IsPrefix(a, q) => a \in G}
<1>1. \A q \in G : /\ q \in DOMAIN T /\ q \in Path /\ Len(q) \in Nat
                   /\ q # <<>> => Front(q) \in G /\ Len(Front(q)) = Len(q) - 1
  BY TreePaths DEF Held
<1> HIDE DEF G
<1>2. ASSUME NEW a \in Path, NEW q \in G, IsPrefix(a, q), Len(q) = 0
      PROVE  a \in G
  <2>1. Len(a) <= 0 /\ Len(a) \in Nat
    BY <1>1, <1>2, PathIs, PrefixIs
  <2>2. a = <<>>
    BY <2>1, PathIs
  <2>3. QED
    BY <2>2 DEF G
<1>3. ASSUME NEW n \in N
      PROVE  n + 1 \in N
  <2> SUFFICES ASSUME NEW a \in Path, NEW q \in G, Len(q) = n + 1, IsPrefix(a, q)
               PROVE  a \in G
    OBVIOUS
  <2>1. q # <<>> /\ Front(q) \in G /\ Len(Front(q)) = n
    BY <1>1
  <2>2. a = q \/ IsPrefix(a, Front(q))
    BY <1>1, <2>1, PathIs, PrefixFront
  <2>3. QED
    BY <2>1, <2>2
<1>4. 0 \in N
  BY <1>2
<1> HIDE DEF N
<1>5. N = Nat
  BY <1>3, <1>4, NatSetInduction DEF N
<1>6. ASSUME NEW a \in Path, NEW q \in G, IsPrefix(a, q)
      PROVE  a \in G
  <2>1. Len(q) \in N
    BY <1>1, <1>5
  <2>2. QED
    BY <1>6, <2>1 DEF N
<1>7. QED
  BY <1>6 DEF G

\* What is neither free nor the root is in one of the values on the stack.
LEMMA InOneItem ==
  ASSUME NEW T, IsTree(T), NEW F, F \subseteq Held(T, F),
         NEW p \in DOMAIN T, p \notin F \cup {<<>>}
  PROVE  \E a \in Held(T, F) \ F :
           IsPrefix(a, p) /\ \A b \in Held(T, F) \ F : IsPrefix(b, p) => b = a
<1> DEFINE G == F \cup {<<>>}
           Items1 == Held(T, F) \ F
           N == {n \in Nat : \A q \in DOMAIN T :
                               Len(q) = n /\ q \notin G => \E a \in Items1 : IsPrefix(a, q)}
<1>1. \A q \in DOMAIN T : /\ q \in Path /\ q \in Seq(Edge) /\ Len(q) \in Nat
                          /\ q # <<>> => /\ Front(q) \in DOMAIN T /\ Len(Front(q)) = Len(q) - 1
                                         /\ IsPrefix(Front(q), q)
  BY TreePaths
<1>2. \A q \in DOMAIN T : q \notin G /\ Front(q) \in G => q \in Items1
  BY DEF Held
<1>3. \A a \in Items1 : a \in DOMAIN T /\ a # <<>> /\ a \notin G /\ Front(a) \in G
  BY DEF Held
<1>4. <<>> \in G
  OBVIOUS
<1> HIDE DEF G, Items1
<1>5. 0 \in N
  BY <1>1, <1>4
<1>6. ASSUME NEW n \in N
      PROVE  n + 1 \in N
  <2> SUFFICES ASSUME NEW q \in DOMAIN T, Len(q) = n + 1, q \notin G
               PROVE  \E a \in Items1 : IsPrefix(a, q)
    OBVIOUS
  <2>1. q # <<>> /\ Front(q) \in DOMAIN T /\ Len(Front(q)) = n /\ IsPrefix(Front(q), q)
    BY <1>1, <1>4
  <2>2. CASE Front(q) \in G
    <3>1. q \in Items1 /\ IsPrefix(q, q)
      BY <1>1, <1>2, <2>2, PrefixOrder
    <3>2. QED
      BY <3>1
  <2>3. CASE Front(q) \notin G
    <3>1. PICK a \in Items1 : IsPrefix(a, Front(q))
      BY <2>1, <2>3
    <3>2. a \in Seq(Edge) /\ q \in Seq(Edge) /\ Front(q) \in Seq(Edge)
      BY <1>1, <1>3, <2>1
    <3>3. IsPrefix(a, q)
      BY <2>1, <3>1, <3>2, PrefixOrder
    <3>4. QED
      BY <3>3
  <2>4. QED
    BY <2>2, <2>3
<1> HIDE DEF N
<1>7. N = Nat
  BY <1>5, <1>6, NatSetInduction DEF N
<1>8. PICK a \in Items1 : IsPrefix(a, p)
  <2>1. Len(p) \in N
    BY <1>1, <1>7
  <2>2. QED
    BY <2>1 DEF N, G
\* Of two of them one would be in the other, and the outer one free.
<1>9. ASSUME NEW x \in Items1, NEW y \in Items1, IsPrefix(x, p), IsPrefix(y, p), Len(x) <= Len(y)
      PROVE  x = y
  <2>1. x \in Seq(Edge) /\ y \in Seq(Edge) /\ p \in Seq(Edge) /\ y # <<>> /\ x \in Path
    BY <1>1, <1>3
  <2>2. IsPrefix(x, y)
    BY <1>9, <2>1, PrefixOrder
  <2>3. x = y \/ IsPrefix(x, Front(y))
    BY <2>1, <2>2, PrefixFront
  <2>4. ~IsPrefix(x, Front(y))
    BY <1>3, <2>1, FreedAbove DEF G
  <2>5. QED
    BY <2>3, <2>4
<1>10. ASSUME NEW b \in Items1, IsPrefix(b, p)
       PROVE  b = a
  <2>1. Len(a) \in Nat /\ Len(b) \in Nat
    BY <1>1, <1>3
  <2>2. Len(a) <= Len(b) \/ Len(b) <= Len(a)
    BY <2>1
  <2>3. QED
    BY <1>8, <1>9, <1>10, <2>2
<1>11. QED
  BY <1>8, <1>10 DEF Items1

\* A value that was emptied has nothing in it that its destructor would destroy.
LEMMA Alone ==
  ASSUME IsTree(tree), NEW p \in DOMAIN tree, NEW moved, Children(p) \subseteq moved
  PROVE  StillIn(p, moved) = {p}
<1>1. \A q \in DOMAIN tree : q \in Path /\ q \in Seq(Edge) /\ Len(q) \in Nat
  BY TreePaths
<1>2. p \in StillIn(p, moved)
  <2>1. IsPrefix(p, p) /\ \A n \in Len(p) + 1..Len(p) : FALSE
    BY <1>1, PrefixOrder
  <2>2. QED
    BY <2>1 DEF StillIn
<1>3. ASSUME NEW q \in StillIn(p, moved), q # p
      PROVE  FALSE
  <2> DEFINE n == Len(p) + 1
             a == SubSeq(q, 1, n)
  <2>1. q \in DOMAIN tree /\ IsPrefix(p, q) /\ \A m \in Len(p) + 1..Len(q) : SubSeq(q, 1, m) \notin moved
    BY DEF StillIn
  <2>2. p \in Seq(Edge) /\ q \in Seq(Edge)
    BY <1>1, <2>1
  <2>3. Len(p) <= Len(q) /\ Len(p) # Len(q)
    BY <1>3, <2>1, <2>2, PrefixIs, PrefixOrder
  <2>4. n \in 1..Len(q) /\ n \in Len(p) + 1..Len(q) /\ n \in Nat
    BY <1>1, <2>1, <2>3
  <2>5. a \in Seq(Edge) /\ Len(a) = n /\ \A i \in 1..n : a[i] = q[i]
    BY <2>2, <2>4
  <2>6. a \notin moved
    BY <2>1, <2>4
  <2>7. n <= Len(q) /\ Len(p) <= n
    BY <1>1, <2>4
  <2> HIDE DEF a
  <2>8. IsPrefix(a, q)
    BY <2>2, <2>5, <2>7, PrefixIs
  <2>9. IsPrefix(p, a)
    BY <2>1, <2>2, <2>5, <2>7, <2>8, PrefixOrder
  <2>10. a \in DOMAIN tree
    BY <2>1, <2>5, <2>8, TreePaths, PathIs
  <2>11. a \in Children(p)
    BY <2>5, <2>9, <2>10 DEF Children
  <2>12. QED
    BY <2>6, <2>11
<1>4. QED
  BY <1>2, <1>3

\* The children of a value, and the order in which it gives them away.
LEMMA ChildrenAre ==
  ASSUME IsTree(tree), NEW p \in DOMAIN tree
  PROVE  /\ Children(p) = {q \in DOMAIN tree \ {<<>>} : Front(q) = p}
         /\ OnceEach(Items(p), Children(p))
<1>1. Children(p) = Kids(tree, p)
  BY DEF Children, Kids
<1>2. p \in Path
  BY TreePaths
<1>3. Children(p) = {q \in DOMAIN tree \ {<<>>} : Front(q) = p}
  BY <1>1, <1>2, KidsAre
<1>4. IsFiniteSet(Children(p))
  BY <1>1, KidsFinite
<1>5. OnceEach(Items(p), Children(p))
  BY <1>4, OnceSetToSeq DEF Items
<1>6. QED
  BY <1>3, <1>5

\* The members of the root are moved to the stack.
LEMMA FlattenStep ==
  ASSUME IsTree(tree), ValueInv, Flatten
  PROVE  Emptying(tree, {}, stack', nulls', freed')
<1>1. stack' = Items(<<>>) /\ nulls' = nulls \cup Children(<<>>) /\ freed' = <<>> /\ nulls = {}
  BY DEF Flatten, ValueInv, MovedFrom
<1>2. <<>> \in DOMAIN tree
  BY TreePaths
<1> DEFINE H == Held(tree, {})
<1>3. H = Children(<<>>)
  BY <1>2, ChildrenAre DEF Held
<1> HIDE DEF H
<1>4. nulls' = H /\ OnceEach(stack', H)
  BY <1>1, <1>2, <1>3, ChildrenAre
<1>5. OnceEach(stack', H \ {})
  <2>1. H \ {} = H
    OBVIOUS
  <2>2. QED
    BY <1>4, <2>1
<1>6. OnceEach(freed', {})
  BY <1>1, OnceEmpty
<1>7. QED
  BY <1>4, <1>5, <1>6 DEF Emptying, H

\* The last one on the stack is freed, and its children are moved there.
LEMMA TakeItemStep ==
  ASSUME IsTree(tree), NEW F, Emptying(tree, F, stack, nulls, freed), TakeItem
  PROVE  Emptying(tree, F \cup {Last(stack)}, stack', nulls', freed')
<1> DEFINE c == Last(stack)
           D == DOMAIN tree
           H == Held(tree, F)
           kids == Children(c)
           F1 == F \cup {c}
           H1 == Held(tree, F1)
           more == (H \ F) \ {c}
<1>1. F \subseteq H /\ OnceEach(freed, F) /\ nulls = H /\ OnceEach(stack, H \ F)
  BY DEF Emptying
<1>2. /\ stack # <<>> /\ stack' = Front(stack) \o Items(c) /\ nulls' = nulls \cup kids
      /\ freed' = freed \o SetToSeq(StillIn(c, nulls'))
  BY DEF TakeItem, MovedFrom
<1>3. H = {q \in D \ {<<>>} : Front(q) \in F \cup {<<>>}}
  BY DEF Held
<1>4. H1 = {q \in D \ {<<>>} : Front(q) \in F1 \cup {<<>>}}
  BY DEF Held
<1> HIDE DEF c, H, H1
<1>5. c \in H /\ c \notin F /\ OnceEach(Front(stack), (H \ F) \ {c})
  <2> DEFINE U == H \ F
  <2>1. OnceEach(stack, U) /\ stack # <<>>
    BY <1>1, <1>2
  <2> HIDE DEF U
  <2>2. c \in U /\ OnceEach(Front(stack), U \ {c})
    BY <2>1, OnceFront DEF c
  <2>3. QED
    BY <2>2 DEF U
<1>6. c \in D /\ c # <<>> /\ kids = {q \in D \ {<<>>} : Front(q) = c} /\ OnceEach(Items(c), kids)
  BY <1>3, <1>5, ChildrenAre
<1>7. c \notin kids
  <2>1. Len(Front(c)) = Len(c) - 1 /\ Len(c) \in Nat
    BY <1>6, TreePaths
  <2>2. Front(c) # c
    BY <2>1
  <2>3. QED
    BY <1>6, <2>2
<1>8. StillIn(c, nulls') = {c}
  BY <1>2, <1>6, Alone
<1>9. OnceEach(freed', F1)
  <2>1. OnceEach(SetToSeq({c}), {c})
    BY FS_Singleton, OnceSetToSeq
  <2>2. F \cap {c} = {}
    BY <1>5
  <2>3. OnceEach(freed \o SetToSeq({c}), F \cup {c})
    BY <1>1, <2>1, <2>2, OnceConcat
  <2>4. QED
    BY <1>2, <1>8, <2>3
<1> HIDE DEF kids
<1>10. H1 = H \cup kids
  BY <1>3, <1>4, <1>6
<1>11. F1 \subseteq H1
  BY <1>1, <1>5, <1>10
<1>12. kids \cap H = {}
  <2>1. c \notin F \cup {<<>>}
    BY <1>5, <1>6
  <2>2. QED
    BY <1>3, <1>6, <2>1
<1>13. H1 \ F1 = more \cup kids
  BY <1>1, <1>7, <1>10, <1>12
<1>14. OnceEach(stack', H1 \ F1)
  <2>1. more \cap kids = {}
    BY <1>12
  <2> HIDE DEF more
  <2>2. OnceEach(Front(stack), more)
    BY <1>5 DEF more
  <2>3. OnceEach(Front(stack) \o Items(c), more \cup kids)
    BY <1>6, <2>1, <2>2, OnceConcat
  <2>4. QED
    BY <1>2, <1>13, <2>3
<1>15. nulls' = H1
  BY <1>1, <1>2, <1>10
<1> HIDE DEF F1
<1>16. Emptying(tree, F1, stack', nulls', freed')
  BY <1>9, <1>11, <1>14, <1>15 DEF Emptying, H1
<1>17. QED
  BY <1>16 DEF F1, c

\* The stack is empty: all but the root were freed.
LEMMA FreeRootStep ==
  ASSUME IsTree(tree), NEW F, Emptying(tree, F, stack, nulls, freed), FreeRoot
  PROVE  OnceEach(freed', DOMAIN tree)
<1> DEFINE H == Held(tree, F)
<1>1. F \subseteq H /\ OnceEach(freed, F) /\ nulls = H /\ OnceEach(stack, H \ F)
  BY DEF Emptying
<1>2. stack = <<>> /\ freed' = freed \o SetToSeq(StillIn(<<>>, nulls))
  BY DEF FreeRoot
<1>3. <<>> \in DOMAIN tree /\ H \subseteq DOMAIN tree /\ <<>> \notin H
  BY TreePaths DEF Held
<1>4. Children(<<>>) \subseteq nulls
  BY <1>1, <1>3, ChildrenAre DEF Held
<1> HIDE DEF H
<1>5. H \ F = {}
  <2> DEFINE U == H \ F
  <2>1. OnceEach(<<>>, U)
    BY <1>1, <1>2
  <2> HIDE DEF U
  <2>2. U = {}
    BY <2>1, OnceEmpty
  <2>3. QED
    BY <2>2 DEF U
<1>6. DOMAIN tree = F \cup {<<>>}
  <2>1. ASSUME NEW p \in DOMAIN tree, p \notin F \cup {<<>>}
        PROVE  FALSE
    <3>1. \E a \in H \ F : TRUE
      BY <1>1, <2>1, InOneItem DEF H
    <3>2. QED
      BY <1>5, <3>1
  <2>2. QED
    BY <1>1, <1>3, <2>1
<1>7. StillIn(<<>>, nulls) = {<<>>}
  BY <1>3, <1>4, Alone
<1>8. OnceEach(SetToSeq({<<>>}), {<<>>})
  BY FS_Singleton, OnceSetToSeq
<1>9. F \cap {<<>>} = {}
  BY <1>1, <1>3
<1>10. OnceEach(freed \o SetToSeq({<<>>}), F \cup {<<>>})
  BY <1>1, <1>8, <1>9, OnceConcat
<1>11. QED
  BY <1>2, <1>6, <1>7, <1>10

\* Each step of the destructor preserves it.
LEMMA DestroyFrees ==
  ASSUME IsTree(tree), ValueInv, Destroy, tree' = tree
  PROVE  ValueInv'
<1>1. CASE Flatten
  <2>1. at_end' = "flattened"
    BY <1>1 DEF Flatten
  <2>2. \E F : Emptying(tree', F, stack', nulls', freed')
    BY <1>1, FlattenStep
  <2>3. QED
    BY <2>1, <2>2, Zenon DEF ValueInv
<1>2. CASE TakeItem
  <2>1. at_end = "flattened" /\ at_end' = "flattened"
    BY <1>2 DEF TakeItem
  <2>2. PICK F : Emptying(tree, F, stack, nulls, freed)
    BY <2>1 DEF ValueInv
  <2>3. \E E : Emptying(tree', E, stack', nulls', freed')
    <3>1. Emptying(tree, F \cup {Last(stack)}, stack', nulls', freed')
      BY <1>2, <2>2, TakeItemStep
    <3>2. QED
      BY <3>1
  <2>4. QED
    BY <2>1, <2>3, Zenon DEF ValueInv
<1>3. CASE FreeRoot
  <2>1. at_end = "flattened" /\ at_end' = "destroyed"
    BY <1>3 DEF FreeRoot
  <2>2. PICK F : Emptying(tree, F, stack, nulls, freed)
    BY <2>1 DEF ValueInv
  <2>3. OnceEach(freed', DOMAIN tree')
    BY <1>3, <2>2, FreeRootStep
  <2>4. QED
    BY <2>1, <2>3, Zenon DEF ValueInv
<1>4. QED
  BY <1>1, <1>2, <1>3 DEF Destroy

\* Each value is freed once, and not before what it was in.
LEMMA ValueInvIsFreedOnce == IsTree(tree) /\ ValueIsTree /\ ValueInv => FreedOnce
<1> SUFFICES ASSUME IsTree(tree), ValueIsTree, ValueInv
             PROVE  FreedOnce
  OBVIOUS
<1>1. ASSUME at_end = "alive"
      PROVE  IsInjective(freed)
  <2>1. freed = <<>>
    BY <1>1 DEF ValueInv
  <2>2. QED
    BY <2>1, OnceEmpty DEF OnceEach
<1>2. ASSUME at_end = "flattened"
      PROVE  /\ IsInjective(freed)
             /\ \A p \in DOMAIN tree \ ({<<>>} \cup ToSet(freed)) :
                  Cardinality({i \in DOMAIN stack : IsPrefix(stack[i], p)}) = 1
  <2>1. PICK F : Emptying(tree, F, stack, nulls, freed)
    BY <1>2 DEF ValueInv
  <2>2. /\ F \subseteq Held(tree, F) /\ OnceEach(freed, F) /\ OnceEach(stack, Held(tree, F) \ F)
    BY <2>1 DEF Emptying
  <2>3. IsInjective(freed) /\ ToSet(freed) = F
    BY <2>2 DEF OnceEach
  <2>4. ASSUME NEW p \in DOMAIN tree, p \notin {<<>>} \cup F
        PROVE  Cardinality({i \in DOMAIN stack : IsPrefix(stack[i], p)}) = 1
    <3> DEFINE U == Held(tree, F) \ F
    <3>1. PICK a \in U : IsPrefix(a, p) /\ \A b \in U : IsPrefix(b, p) => b = a
      BY <2>2, <2>4, InOneItem
    <3> HIDE DEF U
    <3>2. /\ stack \in Seq(U) /\ \A i, j \in 1..Len(stack) : stack[i] = stack[j] => i = j
          /\ \A x \in U : \E i \in 1..Len(stack) : stack[i] = x
      BY <2>2, OnceIs DEF U
    <3>3. PICK i \in 1..Len(stack) : stack[i] = a
      BY <3>1, <3>2
    <3>4. DOMAIN stack = 1..Len(stack) /\ \A j \in 1..Len(stack) : stack[j] \in U
      BY <3>2
    <3>5. {j \in DOMAIN stack : IsPrefix(stack[j], p)} = {i}
      BY <3>1, <3>2, <3>3, <3>4
    <3>6. QED
      BY <3>5, FS_Singleton
  <2>5. QED
    BY <2>3, <2>4
<1>3. ASSUME at_end = "destroyed"
      PROVE  IsInjective(freed) /\ ToSet(freed) = DOMAIN tree
  BY <1>3 DEF ValueInv, OnceEach
<1>4. at_end \in {"alive", "flattened", "destroyed"}
  BY DEF ValueInv
<1>5. IsInjective(freed)
  BY <1>1, <1>2, <1>3, <1>4
<1>6. QED
  BY <1>2, <1>3, <1>5, Zenon DEF FreedOnce

-----------------------------------------------------------------------------
(****************************************************************************)
(* The tokens of a value that is written.                                     *)
(****************************************************************************)

\* Sequences one after the other: the sums of the first ones.
LEMMA FlattenIs ==
  ASSUME NEW S, NEW seqs \in Seq(Seq(S))
  PROVE  \E f \in [1..Len(seqs) -> Seq(S)] :
           /\ \A i \in 1..Len(seqs) : f[i] = IF i = 1 THEN seqs[i] ELSE f[i - 1] \o seqs[i]
           /\ FlattenSeq(seqs) = IF Len(seqs) = 0 THEN <<>> ELSE f[Len(seqs)]
<1> DEFINE n == Len(seqs)
           Flat(f, m) == \A i \in 1..m : f[i] = IF i = 1 THEN seqs[i] ELSE f[i - 1] \o seqs[i]
           Whole(f) == [i \in 1..n |-> IF i = 1 THEN seqs[i] ELSE f[i - 1] \o seqs[i]]
           flatten == CHOOSE f : f = Whole(f)
           Done == {m \in Nat : m <= n => \E f \in [1..m -> Seq(S)] : Flat(f, m)}
<1>1. n \in Nat /\ \A i \in 1..n : seqs[i] \in Seq(S)
  OBVIOUS
<1>2. FlattenSeq(seqs) = IF n = 0 THEN seqs ELSE flatten[n]
  BY DEF FlattenSeq
<1> HIDE DEF n
<1>3. 0 \in Done
  <2>1. \E f \in [1..0 -> Seq(S)] : Flat(f, 0)
    <3>1. [i \in 1..0 |-> <<>>] \in [1..0 -> Seq(S)]
      OBVIOUS
    <3>2. \A i \in 1..0 : FALSE
      OBVIOUS
    <3> DEFINE none == [i \in 1..0 |-> <<>>]
    <3> HIDE DEF none
    <3>3. Flat(none, 0)
      BY <3>2
    <3>4. QED
      BY <3>1, <3>3 DEF none
  <2>2. QED
    BY <2>1
<1>4. ASSUME NEW m \in Done
      PROVE  m + 1 \in Done
  <2> SUFFICES ASSUME m + 1 <= n
               PROVE  \E f \in [1..(m + 1) -> Seq(S)] : Flat(f, m + 1)
    OBVIOUS
  <2>1. m \in Nat /\ m <= n /\ m + 1 \in 1..n
    BY <1>1
  <2>2. PICK f \in [1..m -> Seq(S)] : Flat(f, m)
    BY <2>1
  <2> DEFINE last == IF m = 0 THEN seqs[1] ELSE f[m] \o seqs[m + 1]
             g == [i \in 1..(m + 1) |-> IF i = m + 1 THEN last ELSE f[i]]
  <2>3. last \in Seq(S)
    <3>1. CASE m = 0
      BY <1>1, <2>1, <3>1
    <3>2. CASE m # 0
      <4>1. f[m] \in Seq(S) /\ seqs[m + 1] \in Seq(S)
        BY <1>1, <2>1, <2>2, <3>2
      <4>2. QED
        BY <3>2, <4>1
    <3>3. QED
      BY <3>1, <3>2
  <2>4. ASSUME NEW i \in 1..(m + 1)
        PROVE  (i = m + 1 \/ i \in 1..m) /\ (i # 1 => i - 1 \in 1..m /\ i - 1 # m + 1 /\ i - 1 \in 1..(m + 1))
    BY <2>1
  <2> HIDE DEF last
  <2>5. g \in [1..(m + 1) -> Seq(S)]
    BY <2>2, <2>3, <2>4
  <2>6. ASSUME NEW i \in 1..(m + 1)
        PROVE  g[i] = IF i = 1 THEN seqs[i] ELSE g[i - 1] \o seqs[i]
    <3>1. i # 1 => g[i - 1] = f[i - 1]
      BY <2>4
    <3>2. CASE i = m + 1
      <4>1. g[i] = last
        BY <3>2
      <4>2. i - 1 = m /\ (i = 1 <=> m = 0)
        BY <3>2, <2>1
      <4> HIDE DEF g
      <4>3. QED
        BY <3>1, <3>2, <4>1, <4>2 DEF last
    <3>3. CASE i # m + 1
      <4>1. i \in 1..m /\ g[i] = f[i]
        BY <2>4, <3>3
      <4> HIDE DEF g
      <4>2. f[i] = IF i = 1 THEN seqs[i] ELSE f[i - 1] \o seqs[i]
        BY <2>2, <4>1
      <4>3. QED
        BY <3>1, <4>1, <4>2
    <3>4. QED
      BY <3>2, <3>3
  <2> HIDE DEF g
  <2>7. Flat(g, m + 1)
    BY <2>6
  <2>8. QED
    BY <2>5, <2>7
<1> HIDE DEF Done
<1>5. Done = Nat
  BY <1>3, <1>4, NatSetInduction DEF Done
<1>6. PICK f \in [1..n -> Seq(S)] : Flat(f, n)
  <2>1. n \in Done /\ n <= n
    BY <1>1, <1>5
  <2> HIDE DEF Flat
  <2>2. QED
    BY <2>1 DEF Done
<1>7. f = Whole(f)
  BY <1>6
<1>8. flatten = Whole(flatten)
  <2> HIDE DEF Whole
  <2>1. QED
    BY <1>7, Zenon
<1> HIDE DEF flatten
<1>9. \A i \in 1..n : flatten[i] = IF i = 1 THEN seqs[i] ELSE flatten[i - 1] \o seqs[i]
  <2>1. \A i \in 1..n : Whole(flatten)[i] = IF i = 1 THEN seqs[i] ELSE flatten[i - 1] \o seqs[i]
    OBVIOUS
  <2> HIDE DEF Whole
  <2>2. QED
    BY <1>8, <2>1, Zenon
<1> DEFINE Typed == {m \in Nat : m \in 1..n => flatten[m] \in Seq(S)}
<1>10. 0 \in Typed
  BY <1>1
<1>11. ASSUME NEW m \in Typed
       PROVE  m + 1 \in Typed
  <2> SUFFICES ASSUME m + 1 \in 1..n
               PROVE  flatten[m + 1] \in Seq(S)
    OBVIOUS
  <2>1. CASE m = 0
    <3>1. flatten[1] = seqs[1] /\ 1 \in 1..n
      BY <1>9, <2>1
    <3>2. QED
      BY <1>1, <2>1, <3>1
  <2>2. CASE m # 0
    <3> DEFINE k == m + 1
    <3>1. m \in 1..n /\ k \in 1..n /\ k # 1 /\ k - 1 = m
      BY <1>1, <2>2
    <3> HIDE DEF k
    <3>2. flatten[k] = flatten[k - 1] \o seqs[k]
      BY <1>9, <3>1
    <3>3. flatten[m] \in Seq(S) /\ seqs[k] \in Seq(S)
      BY <1>1, <3>1
    <3>4. QED
      BY <3>1, <3>2, <3>3 DEF k
  <2>3. QED
    BY <2>1, <2>2
<1> HIDE DEF Typed
<1>12. Typed = Nat
  BY <1>10, <1>11, NatSetInduction DEF Typed
<1>13. \A i \in 1..n : flatten[i] \in Seq(S)
  <2>1. \A i \in 1..n : i \in Typed
    BY <1>1, <1>12
  <2>2. QED
    BY <2>1 DEF Typed
<1> DEFINE parts == [i \in 1..n |-> flatten[i]]
<1>14. parts \in [1..n -> Seq(S)] /\ \A i \in 1..n : parts[i] = flatten[i]
  BY <1>13
<1> HIDE DEF parts
<1>15. ASSUME NEW i \in 1..n
       PROVE  parts[i] = IF i = 1 THEN seqs[i] ELSE parts[i - 1] \o seqs[i]
  <2>1. CASE i = 1
    BY <1>9, <1>14, <2>1
  <2>2. CASE i # 1
    <3>1. i - 1 \in 1..n
      BY <1>1, <2>2
    <3>2. parts[i] = flatten[i] /\ parts[i - 1] = flatten[i - 1]
      BY <1>14, <3>1
    <3>3. QED
      BY <1>9, <2>2, <3>2
  <2>3. QED
    BY <2>1, <2>2
<1>16. FlattenSeq(seqs) = IF n = 0 THEN <<>> ELSE parts[n]
  <2>1. CASE n = 0
    <3>1. seqs = <<>>
      BY <2>1 DEF n
    <3>2. QED
      BY <1>2, <2>1, <3>1
  <2>2. CASE n # 0
    <3>1. n \in 1..n
      BY <1>1, <2>2
    <3>2. QED
      BY <1>2, <1>14, <2>2, <3>1
  <2>3. QED
    BY <2>1, <2>2
<1>17. QED
  BY <1>14, <1>15, <1>16, Zenon DEF n

\* So they are a sequence together.
LEMMA FlattenType ==
  ASSUME NEW S, NEW seqs \in Seq(Seq(S))
  PROVE  FlattenSeq(seqs) \in Seq(S)
<1>1. PICK f \in [1..Len(seqs) -> Seq(S)] :
        FlattenSeq(seqs) = IF Len(seqs) = 0 THEN <<>> ELSE f[Len(seqs)]
  BY FlattenIs
<1>2. Len(seqs) \in Nat
  OBVIOUS
<1>3. CASE Len(seqs) = 0
  BY <1>1, <1>3
<1>4. CASE Len(seqs) # 0
  <2>1. Len(seqs) \in 1..Len(seqs)
    BY <1>2, <1>4
  <2>2. QED
    BY <1>1, <1>4, <2>1
<1>5. QED
  BY <1>3, <1>4

\* The sums of the last ones: what follows each of them.
LEMMA FlattenSuffix ==
  ASSUME NEW seqs \in Seq(Texts)
  PROVE  \E suf \in [0..Len(seqs) -> Texts] :
           /\ suf[Len(seqs)] = <<>> /\ suf[0] = FlattenSeq(seqs)
           /\ \A i \in 1..Len(seqs) : suf[i - 1] = seqs[i] \o suf[i]
<1> DEFINE n == Len(seqs)
           Right(g, k) == /\ g \in [(n - k)..n -> Texts] /\ g[n] = <<>>
                          /\ \A i \in (n - k + 1)..n : g[i - 1] = seqs[i] \o g[i]
           Done == {k \in Nat : k <= n => \E g : Right(g, k)}
<1>1. n \in Nat /\ \A i \in 1..n : seqs[i] \in Texts
  OBVIOUS
<1>2. <<>> \in Texts
  BY DEF Texts
<1> HIDE DEF n
<1>3. 0 \in Done
  <2> DEFINE g == [i \in n..n |-> <<>>]
  <2>1. n - 0 = n /\ (n - 0 + 1)..n = {} /\ n \in n..n
    BY <1>1
  <2>2. g \in [n..n -> Texts] /\ g[n] = <<>>
    BY <1>2, <2>1
  <2> HIDE DEF g
  <2>3. Right(g, 0)
    BY <2>1, <2>2
  <2>4. QED
    BY <2>3
<1>4. ASSUME NEW k \in Done
      PROVE  k + 1 \in Done
  <2>0. k \in Nat /\ k + 1 \in Nat
    OBVIOUS
  <2> HIDE DEF Right
  <2> SUFFICES ASSUME k + 1 <= n
               PROVE  \E g : Right(g, k + 1)
    BY <2>0
  <2> USE DEF Right
  <2>1. k \in Nat /\ k <= n
    BY <1>1
  <2>2. PICK g : Right(g, k)
    BY <2>1
  <2> DEFINE m == n - k
             first == seqs[m] \o g[m]
             h == [i \in (m - 1)..n |-> IF i = m - 1 THEN first ELSE g[i]]
  <2>3. /\ m \in 1..n /\ m \in Nat /\ n - (k + 1) = m - 1 /\ n - (k + 1) + 1 = m
        /\ n - k + 1 = m + 1
    BY <1>1, <2>1
  <2> HIDE DEF m
  <2>4. g \in [m..n -> Texts] /\ g[n] = <<>> /\ \A i \in (m + 1)..n : g[i - 1] = seqs[i] \o g[i]
    BY <2>2, <2>3 DEF m
  <2>5. seqs[m] \in Texts /\ g[m] \in Texts
    BY <1>1, <2>3, <2>4
  <2>6. first \in Texts
    BY <2>5, Concat
  <2> HIDE DEF first
  <2>7. \A i \in (m - 1)..n : i = m - 1 \/ i \in m..n
    BY <1>1, <2>3
  <2>8. h \in [(m - 1)..n -> Texts]
    BY <2>4, <2>6, <2>7
  <2>9. h[n] = <<>>
    <3>1. n \in (m - 1)..n /\ n # m - 1
      BY <1>1, <2>3
    <3>2. QED
      BY <2>4, <3>1
  <2>10. ASSUME NEW i \in m..n
         PROVE  h[i - 1] = seqs[i] \o h[i]
    <3>1. i \in (m - 1)..n /\ i # m - 1 /\ i - 1 \in (m - 1)..n
      BY <1>1, <2>3
    <3>2. h[i] = g[i]
      BY <3>1
    <3>3. CASE i = m
      <4>1. h[i - 1] = first
        BY <3>1, <3>3
      <4>2. QED
        BY <3>2, <3>3, <4>1 DEF first
    <3>4. CASE i # m
      <4>1. i - 1 # m - 1 /\ i \in (m + 1)..n
        BY <1>1, <2>3, <3>4
      <4>2. h[i - 1] = g[i - 1]
        BY <3>1, <4>1
      <4>3. QED
        BY <2>4, <3>2, <4>1, <4>2
    <3>5. QED
      BY <3>3, <3>4
  <2> HIDE DEF h
  <2>11. Right(h, k + 1)
    BY <2>3, <2>8, <2>9, <2>10
  <2>12. QED
    BY <2>11
<1> HIDE DEF Done
<1>5. Done = Nat
  BY <1>3, <1>4, NatSetInduction DEF Done
<1>6. PICK g : Right(g, n)
  <2>1. n \in Done /\ n <= n
    BY <1>1, <1>5
  <2> HIDE DEF Right
  <2>2. QED
    BY <2>1 DEF Done
<1>7. g \in [0..n -> Texts] /\ g[n] = <<>> /\ \A i \in 1..n : g[i - 1] = seqs[i] \o g[i]
  <2>1. n - n = 0 /\ n - n + 1 = 1
    BY <1>1
  <2>2. QED
    BY <1>6, <2>1
<1>8. PICK f \in [1..n -> Texts] :
        /\ \A i \in 1..n : f[i] = IF i = 1 THEN seqs[i] ELSE f[i - 1] \o seqs[i]
        /\ FlattenSeq(seqs) = IF n = 0 THEN <<>> ELSE f[n]
  <2>1. seqs \in Seq(Seq(Token))
    BY DEF Texts
  <2>2. QED
    BY <2>1, FlattenIs DEF Texts, n
<1> DEFINE Same == {k \in Nat : k \in 1..n => f[k] \o g[k] = g[0]}
<1>9. 0 \in Same
  BY <1>1
<1>10. ASSUME NEW k \in Same
       PROVE  k + 1 \in Same
  <2> DEFINE j == k + 1
  <2>0. k \in Nat /\ j \in Nat
    OBVIOUS
  <2> SUFFICES ASSUME j \in 1..n
               PROVE  f[j] \o g[j] = g[0]
    BY <2>0
  <2>1. k \in Nat /\ j - 1 = k /\ (k # 0 => k \in 1..n /\ j # 1) /\ (k = 0 => j = 1)
    BY <1>1
  <2> HIDE DEF j
  <2>2. g[k] = seqs[j] \o g[j]
    BY <1>7, <2>1
  <2>3. CASE k = 0
    BY <1>8, <2>1, <2>2, <2>3
  <2>4. CASE k # 0
    <3>1. f[j] = f[k] \o seqs[j]
      BY <1>8, <2>1, <2>4
    <3>2. f[k] \in Texts /\ seqs[j] \in Texts /\ g[j] \in Texts
      <4>1. j \in 0..n
        BY <1>1
      <4>2. QED
        BY <1>1, <1>7, <1>8, <2>1, <2>4, <4>1
    <3>3. (f[k] \o seqs[j]) \o g[j] = f[k] \o (seqs[j] \o g[j])
      BY <3>2, Assoc, Zenon DEF Regroup
    <3>4. f[k] \o g[k] = g[0]
      BY <2>1, <2>4
    <3>5. QED
      BY <2>2, <3>1, <3>3, <3>4, Zenon
  <2>5. QED
    BY <2>3, <2>4
<1> HIDE DEF Same
<1>11. Same = Nat
  BY <1>9, <1>10, NatSetInduction DEF Same
<1>12. g[0] = FlattenSeq(seqs)
  <2>1. CASE n = 0
    BY <1>7, <1>8, <2>1
  <2>2. CASE n # 0
    <3>1. n \in Same /\ n \in 1..n
      BY <1>1, <1>11, <2>2
    <3>2. f[n] \o g[n] = g[0] /\ f[n] \in Texts
      BY <1>8, <3>1 DEF Same
    <3>3. f[n] \o <<>> = f[n]
      BY <3>2 DEF Texts
    <3>4. QED
      BY <1>7, <1>8, <2>2, <3>2, <3>3
  <2>3. QED
    BY <2>1, <2>2
<1>13. QED
  BY <1>7, <1>12 DEF n

\* What dump makes of the value at p, if d is what it makes of its members.
DumpOf(d, v, p) ==
  LET present(i) == MemberPath(p, Sorted[i]) \in DOMAIN v
      member(i) ==
        IF ~present(i) THEN <<>>
        ELSE (IF \E j \in 1..i - 1 : present(j) THEN <<Tok("value_separator")>> ELSE <<>>)
             \o <<Leaf("string", Sorted[i]), Tok("name_separator")>>
             \o d[MemberPath(p, Sorted[i])]
  IN IF v[p].type # "object" THEN <<v[p]>>
     ELSE <<Tok("begin_object")>> \o FlattenSeq([i \in DOMAIN Sorted |-> member(i)])
          \o <<Tok("end_object")>>

\* dump, at every path.
LEMMA DumpIs == \A v : Dump(v) = (CHOOSE d : d = [p \in DOMAIN v |-> DumpOf(d, v, p)])[<<>>]
BY DEF Dump, DumpOf

\* The tokens of a member, with the comma and the key before it.
MemberOf(d, v, p, i) ==
  IF MemberPath(p, Sorted[i]) \notin DOMAIN v THEN <<>>
  ELSE (IF \E j \in 1..i - 1 : MemberPath(p, Sorted[j]) \in DOMAIN v
        THEN <<Tok("value_separator")>> ELSE <<>>)
       \o <<Leaf("string", Sorted[i]), Tok("name_separator")>>
       \o d[MemberPath(p, Sorted[i])]

\* The same in the words of MemberOf.
LEMMA DumpOfIs ==
  ASSUME NEW d, NEW v, NEW p
  PROVE  DumpOf(d, v, p) =
           IF v[p].type # "object" THEN <<v[p]>>
           ELSE <<Tok("begin_object")>> \o FlattenSeq([i \in DOMAIN Sorted |-> MemberOf(d, v, p, i)])
                \o <<Tok("end_object")>>
<1> DEFINE present(i) == MemberPath(p, Sorted[i]) \in DOMAIN v
           member(i) ==
             IF ~present(i) THEN <<>>
             ELSE (IF \E j \in 1..i - 1 : present(j) THEN <<Tok("value_separator")>> ELSE <<>>)
                  \o <<Leaf("string", Sorted[i]), Tok("name_separator")>>
                  \o d[MemberPath(p, Sorted[i])]
<1>1. \A i : member(i) = MemberOf(d, v, p, i)
  BY Zenon DEF MemberOf
<1>2. DumpOf(d, v, p) =
        IF v[p].type # "object" THEN <<v[p]>>
        ELSE <<Tok("begin_object")>> \o FlattenSeq([i \in DOMAIN Sorted |-> member(i)])
             \o <<Tok("end_object")>>
  BY Zenon DEF DumpOf
<1> HIDE DEF member
<1>3. [i \in DOMAIN Sorted |-> member(i)] = [i \in DOMAIN Sorted |-> MemberOf(d, v, p, i)]
  BY <1>1
<1>4. QED
  BY <1>2, <1>3, Zenon

\* Values that are written: at most three members deep, with tokens for leaves.
Shallow(v) ==
  \A p \in DOMAIN v : /\ Len(p) \in Nat /\ Len(p) <= 3
                      /\ \A k : Len(MemberPath(p, k)) = Len(p) + 1
                      /\ v[p] \in Token \/ v[p].type = "object"

\* It looks at what is made of the children only.
LEMMA DumpAgrees ==
  ASSUME NEW v, Shallow(v), NEW p \in DOMAIN v, NEW f, NEW g,
         \A q \in DOMAIN v : Len(q) = Len(p) + 1 => f[q] = g[q]
  PROVE  DumpOf(f, v, p) = DumpOf(g, v, p)
<1>1. ASSUME NEW i
      PROVE  MemberOf(f, v, p, i) = MemberOf(g, v, p, i)
  <2>1. CASE MemberPath(p, Sorted[i]) \notin DOMAIN v
    BY <2>1, Zenon DEF MemberOf
  <2>2. CASE MemberPath(p, Sorted[i]) \in DOMAIN v
    <3>1. f[MemberPath(p, Sorted[i])] = g[MemberPath(p, Sorted[i])]
      BY <2>2, Zenon DEF Shallow
    <3>2. QED
      BY <3>1, Zenon DEF MemberOf
  <2>3. QED
    BY <2>1, <2>2
<1>2. [i \in DOMAIN Sorted |-> MemberOf(f, v, p, i)] = [i \in DOMAIN Sorted |-> MemberOf(g, v, p, i)]
  BY <1>1
<1>3. QED
  BY <1>2, DumpOfIs, Zenon

\* The tokens of a member are a text if those of its value are.
LEMMA MemberOfType ==
  ASSUME NEW v, NEW p, NEW d, NEW i \in DOMAIN Sorted,
         MemberPath(p, Sorted[i]) \in DOMAIN v => d[MemberPath(p, Sorted[i])] \in Texts
  PROVE  MemberOf(d, v, p, i) \in Texts
<1>1. CASE MemberPath(p, Sorted[i]) \notin DOMAIN v
  <2>1. <<>> \in Texts
    BY DEF Texts
  <2>2. QED
    BY <1>1, <2>1, Zenon DEF MemberOf
<1>2. CASE MemberPath(p, Sorted[i]) \in DOMAIN v
  <2> DEFINE comma == IF \E j \in 1..i - 1 : MemberPath(p, Sorted[j]) \in DOMAIN v
                      THEN <<Tok("value_separator")>> ELSE <<>>
             name == <<Leaf("string", Sorted[i]), Tok("name_separator")>>
  <2>1. comma \in Texts
    <3>1. <<Tok("value_separator")>> \in Texts
      BY TokIs, ShortTexts DEF Structural
    <3>2. <<>> \in Texts
      BY DEF Texts
    <3>3. QED
      BY <3>1, <3>2
  <2>2. name \in Texts
    <3>1. Leaf("string", Sorted[i]) \in Token
      BY StatusAssumption DEF Leaf, Token, Scalars
    <3>2. Tok("name_separator") \in Token
      BY TokIs DEF Structural
    <3>3. QED
      BY <3>1, <3>2, ShortTexts
  <2>3. MemberOf(d, v, p, i) = comma \o name \o d[MemberPath(p, Sorted[i])]
    BY <1>2, Zenon DEF MemberOf
  <2> HIDE DEF comma, name
  <2> DEFINE lead == comma \o name
  <2>4. lead \in Texts
    BY <2>1, <2>2, Concat
  <2> HIDE DEF lead
  <2>5. lead \o d[MemberPath(p, Sorted[i])] \in Texts
    BY <1>2, <2>4, Concat
  <2>6. QED
    BY <2>3, <2>5 DEF lead
<1>3. QED
  BY <1>1, <1>2

\* It is a text.
LEMMA DumpOfType ==
  ASSUME NEW v, Shallow(v), NEW p \in DOMAIN v, NEW d,
         \A q \in DOMAIN v : Len(q) = Len(p) + 1 => d[q] \in Texts
  PROVE  DumpOf(d, v, p) \in Texts
<1>1. CASE v[p].type # "object"
  <2>1. v[p] \in Token
    BY <1>1 DEF Shallow
  <2>2. <<v[p]>> \in Texts
    BY <2>1, ShortTexts
  <2>3. QED
    BY <1>1, <2>2, DumpOfIs, Zenon
<1>2. CASE ~(v[p].type # "object")
  <2> DEFINE members == [i \in DOMAIN Sorted |-> MemberOf(d, v, p, i)]
  <2>1. Sorted \in Seq(STRING)
    BY StatusAssumption
  <2>2. ASSUME NEW i \in DOMAIN Sorted
        PROVE  MemberOf(d, v, p, i) \in Texts
    <3>1. MemberPath(p, Sorted[i]) \in DOMAIN v => d[MemberPath(p, Sorted[i])] \in Texts
      BY Zenon DEF Shallow
    <3>2. QED
      BY <3>1, MemberOfType
  <2>3. members \in Seq(Seq(Token))
    BY <2>1, <2>2 DEF Texts
  <2> HIDE DEF members
  <2>4. FlattenSeq(members) \in Texts
    BY <2>3, FlattenType DEF Texts
  <2>5. <<Tok("begin_object")>> \in Texts /\ <<Tok("end_object")>> \in Texts
    BY TokIs, ShortTexts DEF Structural
  <2>6. <<Tok("begin_object")>> \o FlattenSeq(members) \o <<Tok("end_object")>> \in Texts
    BY <2>4, <2>5, Concat
  <2>7. DumpOf(d, v, p) = <<Tok("begin_object")>> \o FlattenSeq(members) \o <<Tok("end_object")>>
    BY <1>2, DumpOfIs, Zenon DEF members
  <2>8. QED
    BY <2>6, <2>7
<1>3. QED
  BY <1>1, <1>2

\* There is a function that is right at every path: leaves first.
LEMMA DumpExists ==
  ASSUME NEW v, Shallow(v)
  PROVE  \E d : d = [p \in DOMAIN v |-> DumpOf(d, v, p)]
<1> DEFINE Right(d, n) == \A p \in DOMAIN v : Len(p) + n > 3 => d[p] = DumpOf(d, v, p)
           S == {n \in Nat : \E d : d = [p \in DOMAIN v |-> d[p]] /\ Right(d, n)}
<1>1. \A p \in DOMAIN v : Len(p) \in Nat /\ Len(p) <= 3
  BY DEF Shallow
<1>2. 0 \in S
  <2>1. \A p \in DOMAIN v : ~(Len(p) + 0 > 3)
    BY <1>1
  <2> DEFINE none == [p \in DOMAIN v |-> 0]
  <2>2. none = [p \in DOMAIN v |-> none[p]]
    OBVIOUS
  <2> HIDE DEF none
  <2>3. QED
    BY <2>1, <2>2
<1>3. ASSUME NEW n \in S
      PROVE  n + 1 \in S
  <2>1. PICK d : Right(d, n)
    OBVIOUS
  <2> DEFINE e == [p \in DOMAIN v |-> DumpOf(d, v, p)]
  <2>2. e = [p \in DOMAIN v |-> e[p]] /\ \A p \in DOMAIN v : e[p] = DumpOf(d, v, p)
    OBVIOUS
  <2> HIDE DEF e
  <2>3. ASSUME NEW p \in DOMAIN v, Len(p) + (n + 1) > 3
        PROVE  e[p] = DumpOf(e, v, p)
    <3>1. ASSUME NEW q \in DOMAIN v, Len(q) = Len(p) + 1
          PROVE  d[q] = e[q]
      <4>1. Len(q) + n > 3
        BY <1>1, <2>3, <3>1
      <4>2. QED
        BY <2>1, <2>2, <4>1
    <3>2. DumpOf(d, v, p) = DumpOf(e, v, p)
      BY <3>1, DumpAgrees
    <3>3. QED
      BY <2>2, <3>2
  <2>4. Right(e, n + 1)
    BY <2>3
  <2> HIDE DEF Right
  <2>5. QED
    BY <2>2, <2>4
<1> HIDE DEF S
<1>4. S = Nat
  BY <1>2, <1>3, NatSetInduction DEF S
<1>5. PICK d : d = [p \in DOMAIN v |-> d[p]] /\ Right(d, 4)
  <2>1. 4 \in S
    BY <1>4
  <2>2. QED
    BY <2>1 DEF S
<1>6. \A p \in DOMAIN v : d[p] = DumpOf(d, v, p)
  <2>1. \A p \in DOMAIN v : Len(p) + 4 > 3
    BY <1>1
  <2>2. QED
    BY <1>5, <2>1
<1>7. [p \in DOMAIN v |-> d[p]] = [p \in DOMAIN v |-> DumpOf(d, v, p)]
  BY <1>6
<1>8. QED
  BY <1>5, <1>7, Zenon

\* The one function that dump computes.
LEMMA DumpFunction ==
  ASSUME NEW v, Shallow(v)
  PROVE  \E d : /\ Dump(v) = d[<<>>]
                /\ \A p \in DOMAIN v : d[p] = DumpOf(d, v, p) /\ d[p] \in Texts
<1> DEFINE Whole(d) == [p \in DOMAIN v |-> DumpOf(d, v, p)]
           d == CHOOSE e : e = Whole(e)
           S == {n \in Nat : \A p \in DOMAIN v : Len(p) + n > 3 => d[p] \in Texts}
<1>1. \A p \in DOMAIN v : Len(p) \in Nat /\ Len(p) <= 3
  BY DEF Shallow
<1>2. d = Whole(d)
  <2>1. \E e : e = Whole(e)
    BY DumpExists
  <2> HIDE DEF Whole
  <2>2. QED
    BY <2>1, Zenon
<1>3. Dump(v) = d[<<>>]
  BY DumpIs
<1> HIDE DEF d
<1>4. \A p \in DOMAIN v : d[p] = DumpOf(d, v, p)
  <2>1. \A p \in DOMAIN v : Whole(d)[p] = DumpOf(d, v, p)
    OBVIOUS
  <2> HIDE DEF Whole
  <2>2. QED
    BY <1>2, <2>1, Zenon
<1>5. 0 \in S
  BY <1>1
<1>6. ASSUME NEW n \in S
      PROVE  n + 1 \in S
  <2> SUFFICES ASSUME NEW p \in DOMAIN v, Len(p) + (n + 1) > 3
               PROVE  d[p] \in Texts
    OBVIOUS
  <2>1. ASSUME NEW q \in DOMAIN v, Len(q) = Len(p) + 1
        PROVE  d[q] \in Texts
    <3>1. Len(q) + n > 3
      BY <1>1, <2>1
    <3>2. QED
      BY <3>1
  <2>2. DumpOf(d, v, p) \in Texts
    BY <2>1, DumpOfType
  <2>3. QED
    BY <1>4, <2>2
<1> HIDE DEF S
<1>7. S = Nat
  BY <1>5, <1>6, NatSetInduction DEF S
<1>8. \A p \in DOMAIN v : d[p] \in Texts
  <2>1. 4 \in S /\ \A p \in DOMAIN v : Len(p) + 4 > 3
    BY <1>1, <1>7
  <2>2. QED
    BY <2>1 DEF S
<1>9. QED
  BY <1>3, <1>4, <1>8

-----------------------------------------------------------------------------
(****************************************************************************)
(* The value of a status: its paths, and what is at them.                    *)
(****************************************************************************)

\* Sequences grown by one, of whatever they are made.
LEMMA Extended ==
  ASSUME NEW S, NEW p \in Seq(S), NEW x
  PROVE  /\ Append(p, x) \in Seq(S \cup {x}) /\ Len(p) \in Nat
         /\ Len(Append(p, x)) = Len(p) + 1 /\ Append(p, x)[Len(p) + 1] = x
         /\ \A i \in 1..Len(p) : Append(p, x)[i] = p[i]
<1>1. p \in Seq(S \cup {x}) /\ x \in S \cup {x} /\ Len(p) \in Nat
  OBVIOUS
<1>2. QED
  BY <1>1, AppendProperties

\* The path of a member is longer by one.
LEMMA MemberLonger ==
  ASSUME NEW S, NEW p \in Seq(S), NEW k
  PROVE  Len(p) \in Nat /\ Len(MemberPath(p, k)) = Len(p) + 1
BY Extended DEF MemberPath

\* The paths of a status: its fields, its segments, and theirs.
LEMMA PathsOf ==
  /\ \A k : LET p == MemberPath(<<>>, k) IN
       /\ p \in Seq({<<"key", k>>}) /\ Len(p) = 1 /\ p[1] = <<"key", k>>
  /\ \A id : LET p == SegmentPath(id) IN
       /\ p \in Seq({<<"key", "segments">>, <<"key", id>>}) /\ Len(p) = 2 /\ p[2] = <<"key", id>>
  /\ \A id, k : LET p == MemberPath(SegmentPath(id), k) IN
       /\ p \in Seq({<<"key", "segments">>, <<"key", id>>, <<"key", k>>}) /\ Len(p) = 3
       /\ p[2] = <<"key", id>> /\ p[3] = <<"key", k>>
<1>1. ASSUME NEW k
      PROVE  LET p == MemberPath(<<>>, k) IN
             /\ p \in Seq({<<"key", k>>}) /\ Len(p) = 1 /\ p[1] = <<"key", k>>
  <2>1. <<>> \in Seq({}) /\ Len(<<>>) = 0 /\ {} \cup {<<"key", k>>} = {<<"key", k>>}
    OBVIOUS
  <2>2. QED
    BY <2>1, Extended DEF MemberPath
<1>2. ASSUME NEW id
      PROVE  LET p == SegmentPath(id) IN
             /\ p \in Seq({<<"key", "segments">>, <<"key", id>>}) /\ Len(p) = 2
             /\ p[2] = <<"key", id>>
  <2> DEFINE S == {<<"key", "segments">>}
             x == <<"key", id>>
  <2>1. SegmentsPath \in Seq(S) /\ Len(SegmentsPath) = 1
    BY <1>1 DEF SegmentsPath
  <2>2. S \cup {x} = {<<"key", "segments">>, <<"key", id>>}
    OBVIOUS
  <2>3. SegmentPath(id) = Append(SegmentsPath, x)
    BY DEF SegmentPath, MemberPath
  <2> HIDE DEF S, x
  <2>4. LET p == Append(SegmentsPath, x) IN
        /\ p \in Seq(S \cup {x}) /\ Len(p) = Len(SegmentsPath) + 1
        /\ p[Len(SegmentsPath) + 1] = x
    BY <2>1, Extended
  <2>5. 1 + 1 = 2
    OBVIOUS
  <2>6. QED
    BY <2>1, <2>2, <2>3, <2>4, <2>5 DEF x
<1>3. ASSUME NEW id, NEW k
      PROVE  LET p == MemberPath(SegmentPath(id), k) IN
             /\ p \in Seq({<<"key", "segments">>, <<"key", id>>, <<"key", k>>}) /\ Len(p) = 3
             /\ p[2] = <<"key", id>> /\ p[3] = <<"key", k>>
  <2> DEFINE S == {<<"key", "segments">>, <<"key", id>>}
             x == <<"key", k>>
             q == SegmentPath(id)
  <2>1. q \in Seq(S) /\ Len(q) = 2 /\ q[2] = <<"key", id>>
    BY <1>2
  <2>2. S \cup {x} = {<<"key", "segments">>, <<"key", id>>, <<"key", k>>}
    OBVIOUS
  <2>3. MemberPath(SegmentPath(id), k) = Append(q, x)
    BY DEF MemberPath
  <2> HIDE DEF S, x, q
  <2>4. LET p == Append(q, x) IN
        /\ p \in Seq(S \cup {x}) /\ Len(p) = Len(q) + 1
        /\ p[Len(q) + 1] = x /\ \A i \in 1..Len(q) : p[i] = q[i]
    <3>1. q \in Seq(S)
      BY <2>1
    <3>2. QED
      BY <3>1, Extended
  <2>5. 2 + 1 = 3 /\ 2 \in 1..2
    OBVIOUS
  <2>6. QED
    BY <2>1, <2>2, <2>3, <2>4, <2>5 DEF x
<1>4. QED
  BY <1>1, <1>2, <1>3

\* The members' paths, of which no two are the same.
LEMMA MemberIs ==
  ASSUME NEW p \in Path, NEW i \in DOMAIN Sorted
  PROVE  LET q == MemberPath(p, Sorted[i]) IN
         /\ q \in Path /\ q # <<>> /\ Front(q) = p /\ Len(q) = Len(p) + 1 /\ IsPrefix(p, q)
         /\ \A j \in DOMAIN Sorted : MemberPath(p, Sorted[j]) = q => i = j
<1> DEFINE q == MemberPath(p, Sorted[i])
<1>1. \A j \in DOMAIN Sorted : Sorted[j] \in STRING
  BY StatusAssumption
<1>2. \A j \in DOMAIN Sorted : Sorted[i] = Sorted[j] => i = j
  BY StatusAssumption DEF IsInjective
<1>3. q \in Path /\ q # <<>> /\ Front(q) = p
  BY <1>1, MemberPathIs
<1>4. \A j \in DOMAIN Sorted : <<"key", Sorted[j]>> \in Edge
  BY <1>1 DEF Edge
<1>5. /\ \A j \in DOMAIN Sorted : MemberPath(p, Sorted[j])[Len(p) + 1] = <<"key", Sorted[j]>>
      /\ Len(q) = Len(p) + 1
  BY <1>4, PathIs, AppendIs DEF MemberPath
<1>6. IsPrefix(p, q)
  BY <1>3, PathIs, PrefixFront
<1>7. ASSUME NEW j \in DOMAIN Sorted, MemberPath(p, Sorted[j]) = q
      PROVE  i = j
  <2>1. <<"key", Sorted[j]>> = <<"key", Sorted[i]>>
    BY <1>5, <1>7
  <2>2. QED
    BY <1>2, <2>1
<1> HIDE DEF q
<1>8. QED
  BY <1>3, <1>5, <1>6, <1>7 DEF q

\* The values that are written: objects, and strings, numbers and Booleans in
\* them.
Leaves == {c \in Token : c.type \in {"string", "unsigned", "true", "false"}}

Written(v) ==
  /\ IsTree(v)
  /\ v[<<>>] = Tok("object")
  /\ \A p \in DOMAIN v :
       /\ v[p] = Tok("object") \/ v[p] \in Leaves
       /\ Len(p) <= 3
       /\ p # <<>> => \E i \in DOMAIN Sorted : p = MemberPath(Front(p), Sorted[i])

\* They are not deep, and a member is in an object.
LEMMA WrittenIs ==
  ASSUME NEW v, Written(v)
  PROVE  /\ Shallow(v) /\ <<>> \in DOMAIN v
         /\ \A p \in DOMAIN v : /\ p \in Path /\ Len(p) \in Nat
                                /\ v[p] \in Leaves => v[p] \in Token /\ v[p].type \in Scalars
                                                      /\ v[p].type # "object"
                                /\ v[p].type = "object" => v[p] = Tok("object")
                                /\ v[p].type # "object" => v[p] \in Leaves
         /\ \A p \in DOMAIN v : p # <<>> =>
              /\ Front(p) \in DOMAIN v /\ v[Front(p)].type = "object"
              /\ \E i \in DOMAIN Sorted : p = MemberPath(Front(p), Sorted[i])
<1>1. IsTree(v) /\ <<>> \in DOMAIN v
  BY DEF Written, IsTree
<1>2. \A p \in DOMAIN v : p \in Path /\ Len(p) \in Nat /\ p \in Seq(Edge)
  BY <1>1, TreePaths
<1>3. \A p \in DOMAIN v : v[p] = Tok("object") \/ v[p] \in Leaves
  BY DEF Written
<1>4. \A c \in Leaves : c \in Token /\ c.type \in Scalars /\ c.type # "object"
  BY DEF Leaves, Scalars
<1>5. Tok("object").type = "object"
  BY NodeIs
<1>6. \A p \in DOMAIN v : /\ v[p] \in Leaves => v[p] \in Token /\ v[p].type \in Scalars
                                                      /\ v[p].type # "object"
                          /\ v[p].type = "object" => v[p] = Tok("object")
                          /\ v[p].type # "object" => v[p] \in Leaves
  BY <1>3, <1>4, <1>5
<1>7. Shallow(v)
  <2>1. \A p \in DOMAIN v : Len(p) <= 3
    BY DEF Written
  <2>2. \A p \in DOMAIN v : \A k : Len(MemberPath(p, k)) = Len(p) + 1
    BY <1>2, MemberLonger
  <2>3. \A p \in DOMAIN v : v[p] \in Token \/ v[p].type = "object"
    BY <1>3, <1>4, <1>5
  <2>4. QED
    BY <1>2, <2>1, <2>2, <2>3 DEF Shallow
<1>8. ASSUME NEW p \in DOMAIN v, p # <<>>
      PROVE  /\ Front(p) \in DOMAIN v /\ v[Front(p)].type = "object"
             /\ \E i \in DOMAIN Sorted : p = MemberPath(Front(p), Sorted[i])
  <2>1. Front(p) \in DOMAIN v
    BY <1>1, <1>8, TreePaths
  <2>2. \E i \in DOMAIN Sorted : p = MemberPath(Front(p), Sorted[i])
    BY <1>8 DEF Written
  <2>3. ASSUME v[Front(p)].type # "object"
        PROVE  FALSE
    <3>1. v[Front(p)].type \in Scalars
      BY <1>6, <2>1, <2>3
    <3>2. v[Front(p)].type \notin {"array", "object"}
      BY <3>1 DEF Scalars
    <3>3. Kids(v, Front(p)) = {}
      BY <1>1, <2>1, <3>2 DEF IsTree, TreeAt
    <3>4. p \in Kids(v, Front(p))
      BY <1>1, <1>2, <1>8, <2>1, KidsAre
    <3>5. QED
      BY <3>3, <3>4
  <2>4. QED
    BY <2>1, <2>2, <2>3
<1>9. QED
  BY <1>1, <1>2, <1>6, <1>7, <1>8

StatusKeys == {"source_file", "destination_file", "total_size", "total_copied", "checksum", "segments"}
SegmentKeys == {"start_byte", "end_byte", "last_copied_byte", "completed"}

\* Every key has its place in the order.
LEMMA KeysSorted ==
  /\ \A k \in StatusKeys \cup SegmentKeys : \E i \in DOMAIN Sorted : Sorted[i] = k
  /\ \A id \in Range(Ids) : \E i \in DOMAIN Sorted : Sorted[i] = id
<1> DEFINE fields == <<"checksum", "completed", "destination_file", "end_byte", "last_copied_byte",
                       "segments", "source_file", "start_byte", "total_copied", "total_size">>
           names == {"checksum", "completed", "destination_file", "end_byte", "last_copied_byte",
                     "segments", "source_file", "start_byte", "total_copied", "total_size"}
<1>1. fields \in Seq(names) /\ Len(fields) = 10
  OBVIOUS
<1>2. \A k \in StatusKeys \cup SegmentKeys : \E j \in 1..10 : fields[j] = k
  BY DEF StatusKeys, SegmentKeys
<1>3. Sorted = Ids \o fields
  BY DEF Sorted
<1>4. Ids \in Seq(STRING) /\ Ids \in Seq(STRING \cup names) /\ Len(Ids) \in Nat
  BY StatusAssumption
<1> HIDE DEF fields
<1> DEFINE S == STRING \cup names
<1>5. fields \in Seq(S) /\ Ids \in Seq(S)
  BY <1>1, <1>4
<1> HIDE DEF names, S
<1>6. /\ Len(Sorted) = Len(Ids) + 10 /\ DOMAIN Sorted = 1..Len(Sorted)
      /\ \A i \in 1..Len(Ids) : i \in DOMAIN Sorted /\ Sorted[i] = Ids[i]
      /\ \A j \in 1..10 : Len(Ids) + j \in DOMAIN Sorted /\ Sorted[Len(Ids) + j] = fields[j]
  <2> DEFINE n == Len(Ids)
             whole == Ids \o fields
  <2>1. /\ n \in Nat /\ Len(whole) = n + 10 /\ whole \in Seq(S)
        /\ \A i \in 1..n + 10 : whole[i] = IF i <= n THEN Ids[i] ELSE fields[i - n]
    <3>1. /\ Len(Ids \o fields) = Len(Ids) + Len(fields) /\ Ids \o fields \in Seq(S)
          /\ \A i \in 1..Len(Ids) + Len(fields) :
               (Ids \o fields)[i] = IF i <= Len(Ids) THEN Ids[i] ELSE fields[i - Len(Ids)]
      BY <1>5, ConcatProperties
    <3>2. QED
      BY <1>1, <1>4, <3>1
  <2>2. whole = Sorted /\ n = Len(Ids)
    BY <1>3
  <2> HIDE DEF n, whole
  <2>3. DOMAIN whole = 1..n + 10
    BY <2>1
  <2>4. \A i \in 1..n : i \in 1..n + 10 /\ whole[i] = Ids[i]
    BY <2>1
  <2>5. \A j \in 1..10 : n + j \in 1..n + 10 /\ whole[n + j] = fields[j]
    <3> SUFFICES ASSUME NEW j \in 1..10
                 PROVE  n + j \in 1..n + 10 /\ whole[n + j] = fields[j]
      OBVIOUS
    <3>1. n + j \in 1..n + 10 /\ ~(n + j <= n) /\ (n + j) - n = j
      BY <2>1
    <3>2. QED
      BY <2>1, <3>1
  <2>6. QED
    BY <2>1, <2>2, <2>3, <2>4, <2>5
<1>7. ASSUME NEW k \in StatusKeys \cup SegmentKeys
      PROVE  \E i \in DOMAIN Sorted : Sorted[i] = k
  <2>1. PICK j \in 1..10 : fields[j] = k
    BY <1>2
  <2>2. Len(Ids) + j \in DOMAIN Sorted /\ Sorted[Len(Ids) + j] = k
    BY <1>6, <2>1
  <2>3. QED
    BY <2>2
<1>8. ASSUME NEW id \in Range(Ids)
      PROVE  \E i \in DOMAIN Sorted : Sorted[i] = id
  <2>1. PICK i \in 1..Len(Ids) : Ids[i] = id
    BY <1>4 DEF Range
  <2>2. i \in DOMAIN Sorted /\ Sorted[i] = id
    BY <1>4, <1>6, <2>1
  <2>3. QED
    BY <2>2
<1>9. QED
  BY <1>7, <1>8

\* The fields of a status and of a segment: leaves, and one object.
LEMMA FieldsAre ==
  ASSUME NEW s \in Statuses
  PROVE  /\ DOMAIN StatusJson(s) = StatusKeys /\ StatusJson(s)["segments"] = Tok("object")
         /\ \A k \in StatusKeys : k # "segments" => StatusJson(s)[k] \in Leaves
         /\ \A id \in DOMAIN s.segments : \A k \in SegmentKeys : SegmentJson(s.segments[id])[k] \in Leaves
         /\ \A id \in DOMAIN s.segments : id \in Range(Ids)
<1>1. ASSUME NEW v \in STRING
      PROVE  Leaf("string", v) \in Leaves /\ Leaf("unsigned", v) \in Leaves
  BY <1>1 DEF Leaf, Leaves, Token, Scalars
<1>2. /\ s.source_file \in STRING /\ s.destination_file \in STRING /\ s.total_size \in STRING
      /\ s.total_copied \in STRING /\ s.checksum \in STRING
      /\ \E ids \in SUBSET Range(Ids) : s.segments \in [ids -> Segment]
  BY StatusAssumption
<1>3. DOMAIN StatusJson(s) = StatusKeys
  BY DEF StatusJson, StatusKeys
<1>4. /\ StatusJson(s)["source_file"] = Leaf("string", s.source_file)
      /\ StatusJson(s)["destination_file"] = Leaf("string", s.destination_file)
      /\ StatusJson(s)["total_size"] = Leaf("unsigned", s.total_size)
      /\ StatusJson(s)["total_copied"] = Leaf("unsigned", s.total_copied)
      /\ StatusJson(s)["checksum"] = Leaf("string", s.checksum)
      /\ StatusJson(s)["segments"] = Tok("object")
  BY DEF StatusJson
<1>5. ASSUME NEW k \in StatusKeys, k # "segments"
      PROVE  StatusJson(s)[k] \in Leaves
  BY <1>1, <1>2, <1>4, <1>5 DEF StatusKeys
<1>6. ASSUME NEW id \in DOMAIN s.segments
      PROVE  s.segments[id] \in Segment /\ id \in Range(Ids)
  BY <1>2
<1>7. ASSUME NEW seg \in Segment, NEW k \in SegmentKeys
      PROVE  SegmentJson(seg)[k] \in Leaves
  <2>1. seg.start_byte \in STRING /\ seg.end_byte \in STRING /\ seg.copied_offset_ \in STRING
    BY DEF Segment
  <2>2. \A type \in {"true", "false"} : Tok(type) \in Leaves
    BY TokIs DEF Scalars, Leaves
  <2>3. /\ SegmentJson(seg)["start_byte"] = Leaf("unsigned", seg.start_byte)
        /\ SegmentJson(seg)["end_byte"] = Leaf("unsigned", seg.end_byte)
        /\ SegmentJson(seg)["last_copied_byte"] = Leaf("unsigned", seg.copied_offset_)
        /\ SegmentJson(seg)["completed"] = Tok(IF seg.completed_ THEN "true" ELSE "false")
    BY DEF SegmentJson
  <2>4. SegmentJson(seg)["completed"] \in Leaves
    BY <2>2, <2>3
  <2>5. QED
    BY <1>1, <2>1, <2>3, <2>4 DEF SegmentKeys
<1>8. QED
  BY <1>3, <1>4, <1>5, <1>6, <1>7

\* What is where in the value of a status.
LEMMA ToJsonIs ==
  ASSUME NEW s \in Statuses
  PROVE  /\ DOMAIN to_json(s) = Paths(s) /\ to_json(s) = [p \in DOMAIN to_json(s) |-> to_json(s)[p]]
         /\ <<>> \in Paths(s) /\ to_json(s)[<<>>] = Tok("object")
         /\ \A k \in StatusKeys : MemberPath(<<>>, k) \in Paths(s) /\ to_json(s)[MemberPath(<<>>, k)] = StatusJson(s)[k]
         /\ \A id \in DOMAIN s.segments : SegmentPath(id) \in Paths(s) /\ to_json(s)[SegmentPath(id)] = Tok("object")
         /\ \A id \in DOMAIN s.segments : \A k \in SegmentKeys :
              /\ MemberPath(SegmentPath(id), k) \in Paths(s)
              /\ to_json(s)[MemberPath(SegmentPath(id), k)] = SegmentJson(s.segments[id])[k]
         /\ \A p \in Paths(s) : \/ p = <<>>
                                \/ \E k \in StatusKeys : p = MemberPath(<<>>, k)
                                \/ \E id \in DOMAIN s.segments : p = SegmentPath(id)
                                \/ \E id \in DOMAIN s.segments : \E k \in SegmentKeys : p = MemberPath(SegmentPath(id), k)
<1>1. DOMAIN to_json(s) = Paths(s) /\ to_json(s) = [p \in DOMAIN to_json(s) |-> to_json(s)[p]]
  BY DEF to_json
<1>2. ASSUME NEW p \in Paths(s)
      PROVE  to_json(s)[p] = CASE Len(p) = 1 -> StatusJson(s)[p[1][2]]
                               [] Len(p) = 3 -> SegmentJson(s.segments[p[2][2]])[p[3][2]]
                               [] OTHER -> Tok("object")
  BY DEF to_json
<1>3. DOMAIN StatusJson(s) = StatusKeys
  BY FieldsAre
<1>4. /\ <<>> \in Paths(s)
      /\ \A k \in StatusKeys : MemberPath(<<>>, k) \in Paths(s)
      /\ \A id \in DOMAIN s.segments : SegmentPath(id) \in Paths(s)
      /\ \A id \in DOMAIN s.segments : \A k \in SegmentKeys : MemberPath(SegmentPath(id), k) \in Paths(s)
  <2>1. ASSUME NEW id \in DOMAIN s.segments, NEW k \in SegmentKeys
        PROVE  MemberPath(SegmentPath(id), k) \in Paths(s)
    <3> DEFINE x == <<id, k>>
    <3>1. x \in (DOMAIN s.segments) \X {"start_byte", "end_byte", "last_copied_byte", "completed"}
          /\ x[1] = id /\ x[2] = k
      BY DEF SegmentKeys
    <3>2. MemberPath(SegmentPath(x[1]), x[2]) \in Paths(s)
      <4> HIDE DEF x
      <4>1. QED
        BY <3>1, Zenon DEF Paths
    <3>3. QED
      BY <3>1, <3>2, Zenon
  <2>2. QED
    BY <1>3, <2>1 DEF Paths
<1>5. \A p \in Paths(s) : \/ p = <<>>
                          \/ \E k \in StatusKeys : p = MemberPath(<<>>, k)
                          \/ \E id \in DOMAIN s.segments : p = SegmentPath(id)
                          \/ \E id \in DOMAIN s.segments : \E k \in SegmentKeys : p = MemberPath(SegmentPath(id), k)
  BY <1>3 DEF Paths, SegmentKeys
<1>6. to_json(s)[<<>>] = Tok("object")
  <2>1. Len(<<>>) = 0
    OBVIOUS
  <2>2. QED
    BY <1>2, <1>4, <2>1
<1>7. ASSUME NEW k \in StatusKeys
      PROVE  to_json(s)[MemberPath(<<>>, k)] = StatusJson(s)[k]
  <2>1. Len(MemberPath(<<>>, k)) = 1 /\ MemberPath(<<>>, k)[1] = <<"key", k>>
    BY PathsOf
  <2>2. QED
    BY <1>2, <1>4, <2>1
<1>8. ASSUME NEW id \in DOMAIN s.segments
      PROVE  to_json(s)[SegmentPath(id)] = Tok("object")
  <2>1. Len(SegmentPath(id)) = 2
    BY PathsOf
  <2>2. QED
    BY <1>2, <1>4, <2>1
<1>9. ASSUME NEW id \in DOMAIN s.segments, NEW k \in SegmentKeys
      PROVE  to_json(s)[MemberPath(SegmentPath(id), k)] = SegmentJson(s.segments[id])[k]
  <2>1. /\ Len(MemberPath(SegmentPath(id), k)) = 3
        /\ MemberPath(SegmentPath(id), k)[2] = <<"key", id>> /\ MemberPath(SegmentPath(id), k)[3] = <<"key", k>>
    BY PathsOf
  <2>2. QED
    BY <1>2, <1>4, <2>1
<1>10. QED
  BY <1>1, <1>4, <1>5, <1>6, <1>7, <1>8, <1>9

\* The paths one member longer than these, of which there are finitely many.
Grown(P) == {MemberPath(x[1], Sorted[x[2]]) : x \in P \X DOMAIN Sorted}

\* They are, and a member of each is among them.
LEMMA GrownFinite ==
  ASSUME NEW P, IsFiniteSet(P)
  PROVE  /\ IsFiniteSet(Grown(P))
         /\ \A p \in P : \A i \in DOMAIN Sorted : MemberPath(p, Sorted[i]) \in Grown(P)
<1> DEFINE S == P \X DOMAIN Sorted
           f == [x \in S |-> MemberPath(x[1], Sorted[x[2]])]
<1>1. IsFiniteSet(S)
  <2>1. DOMAIN Sorted = 1..Len(Sorted) /\ Len(Sorted) \in Nat
    BY StatusAssumption
  <2>2. IsFiniteSet(DOMAIN Sorted)
    BY <2>1, FS_Interval
  <2>3. QED
    BY <2>2, FS_Product
<1>2. f \in Surjection(S, Grown(P))
  BY DEF Surjection, Grown
<1>3. IsFiniteSet(Grown(P))
  <2> HIDE DEF f, S
  <2>1. QED
    BY <1>1, <1>2, FS_Surjection
<1>4. ASSUME NEW p \in P, NEW i \in DOMAIN Sorted
      PROVE  MemberPath(p, Sorted[i]) \in Grown(P)
  <2> DEFINE x == <<p, i>>
  <2>1. x \in S /\ x[1] = p /\ x[2] = i
    OBVIOUS
  <2>2. MemberPath(x[1], Sorted[x[2]]) \in Grown(P)
    <3> HIDE DEF x
    <3>1. QED
      BY <2>1, Zenon DEF Grown
  <2>3. QED
    BY <2>1, <2>2, Zenon
<1>5. QED
  BY <1>3, <1>4

\* A value that is a member of an object, at most n members deep.
Nested(v, p, n) ==
  /\ p \in Path /\ Len(p) = n
  /\ v[p] = Tok("object") \/ v[p] \in Leaves
  /\ p # <<>> => \E r \in DOMAIN v : \E i \in DOMAIN Sorted : p = MemberPath(r, Sorted[i]) /\ v[r] = Tok("object")

\* A member of a nested object is nested.
LEMMA NestedMember ==
  ASSUME NEW v, NEW r \in DOMAIN v, NEW n \in Nat, Nested(v, r, n), v[r] = Tok("object"),
         NEW k, \E i \in DOMAIN Sorted : Sorted[i] = k,
         v[MemberPath(r, k)] = Tok("object") \/ v[MemberPath(r, k)] \in Leaves
  PROVE  Nested(v, MemberPath(r, k), n + 1)
<1>1. PICK i \in DOMAIN Sorted : Sorted[i] = k
  OBVIOUS
<1>2. r \in Path /\ Len(r) = n
  BY DEF Nested
<1>3. MemberPath(r, Sorted[i]) \in Path /\ Len(MemberPath(r, Sorted[i])) = n + 1
  BY <1>2, MemberIs
<1>4. QED
  BY <1>1, <1>3 DEF Nested

\* Everything in a status is.
LEMMA StatusNested ==
  ASSUME NEW s \in Statuses
  PROVE  LET v == to_json(s) IN
         /\ Nested(v, <<>>, 0)
         /\ \A k \in StatusKeys : Nested(v, MemberPath(<<>>, k), 1)
         /\ \A id \in DOMAIN s.segments : Nested(v, SegmentPath(id), 2)
         /\ \A id \in DOMAIN s.segments : \A k \in SegmentKeys : Nested(v, MemberPath(SegmentPath(id), k), 3)
<1> DEFINE v == to_json(s)
<1>1. /\ <<>> \in DOMAIN v /\ v[<<>>] = Tok("object")
      /\ \A k \in StatusKeys : MemberPath(<<>>, k) \in DOMAIN v /\ v[MemberPath(<<>>, k)] = StatusJson(s)[k]
      /\ \A id \in DOMAIN s.segments : SegmentPath(id) \in DOMAIN v /\ v[SegmentPath(id)] = Tok("object")
      /\ \A id \in DOMAIN s.segments : \A k \in SegmentKeys :
           v[MemberPath(SegmentPath(id), k)] = SegmentJson(s.segments[id])[k]
  BY ToJsonIs
<1> HIDE DEF v
<1>2. Nested(v, <<>>, 0)
  <2>1. Len(<<>>) = 0 /\ <<>> \in Path
    BY PathIs
  <2>2. QED
    BY <1>1, <2>1 DEF Nested
<1>3. ASSUME NEW k \in StatusKeys
      PROVE  Nested(v, MemberPath(<<>>, k), 1)
  <2>1. \E i \in DOMAIN Sorted : Sorted[i] = k
    BY KeysSorted
  <2>2. v[MemberPath(<<>>, k)] = Tok("object") \/ v[MemberPath(<<>>, k)] \in Leaves
    BY <1>1, FieldsAre
  <2>3. Nested(v, MemberPath(<<>>, k), 0 + 1)
    BY <1>1, <1>2, <2>1, <2>2, NestedMember
  <2>4. QED
    BY <2>3
<1>4. /\ SegmentsPath \in DOMAIN v /\ v[SegmentsPath] = Tok("object") /\ Nested(v, SegmentsPath, 1)
  <2>1. "segments" \in StatusKeys
    BY DEF StatusKeys
  <2>2. QED
    BY <1>1, <1>3, <2>1, FieldsAre DEF SegmentsPath
<1>5. ASSUME NEW id \in DOMAIN s.segments
      PROVE  Nested(v, SegmentPath(id), 2)
  <2>1. \E i \in DOMAIN Sorted : Sorted[i] = id
    BY FieldsAre, KeysSorted
  <2>2. v[MemberPath(SegmentsPath, id)] = Tok("object") \/ v[MemberPath(SegmentsPath, id)] \in Leaves
    BY <1>1 DEF SegmentPath
  <2>3. Nested(v, MemberPath(SegmentsPath, id), 1 + 1)
    BY <1>4, <2>1, <2>2, NestedMember
  <2>4. QED
    BY <2>3 DEF SegmentPath
<1>6. ASSUME NEW id \in DOMAIN s.segments, NEW k \in SegmentKeys
      PROVE  Nested(v, MemberPath(SegmentPath(id), k), 3)
  <2>1. \E i \in DOMAIN Sorted : Sorted[i] = k
    BY KeysSorted
  <2>2. v[MemberPath(SegmentPath(id), k)] \in Leaves
    BY <1>1, FieldsAre
  <2>3. Nested(v, MemberPath(SegmentPath(id), k), 2 + 1)
    BY <1>1, <1>5, <2>1, <2>2, NestedMember
  <2>4. QED
    BY <2>3
<1>7. QED
  BY <1>2, <1>3, <1>5, <1>6 DEF v

\* The value of a status is one of those.
LEMMA WrittenStatus ==
  ASSUME NEW s \in Statuses
  PROVE  Written(to_json(s))
<1> DEFINE v == to_json(s)
<1>1. /\ v = [p \in DOMAIN v |-> v[p]] /\ <<>> \in DOMAIN v /\ v[<<>>] = Tok("object")
      /\ \A p \in DOMAIN v : \/ p = <<>>
                             \/ \E k \in StatusKeys : p = MemberPath(<<>>, k)
                             \/ \E id \in DOMAIN s.segments : p = SegmentPath(id)
                             \/ \E id \in DOMAIN s.segments : \E k \in SegmentKeys : p = MemberPath(SegmentPath(id), k)
  BY ToJsonIs
<1>2. /\ Nested(v, <<>>, 0)
      /\ \A k \in StatusKeys : Nested(v, MemberPath(<<>>, k), 1)
      /\ \A id \in DOMAIN s.segments : Nested(v, SegmentPath(id), 2)
      /\ \A id \in DOMAIN s.segments : \A k \in SegmentKeys : Nested(v, MemberPath(SegmentPath(id), k), 3)
  BY StatusNested
<1>3. IsFiniteSet(DOMAIN v)
  <2> DEFINE A0 == {<<>>}
             B == Grown(A0)
             C == Grown(B)
             D == Grown(C)
             S == A0 \cup B \cup C \cup D
  <2>1. IsFiniteSet(A0) /\ <<>> \in A0
    BY FS_Singleton
  <2> HIDE DEF A0
  <2>2. /\ IsFiniteSet(B)
        /\ \A p \in A0 : \A i \in DOMAIN Sorted : MemberPath(p, Sorted[i]) \in B
    BY <2>1, GrownFinite
  <2> HIDE DEF B
  <2>3. /\ IsFiniteSet(C)
        /\ \A p \in B : \A i \in DOMAIN Sorted : MemberPath(p, Sorted[i]) \in C
    BY <2>2, GrownFinite
  <2> HIDE DEF C
  <2>4. /\ IsFiniteSet(D)
        /\ \A p \in C : \A i \in DOMAIN Sorted : MemberPath(p, Sorted[i]) \in D
    BY <2>3, GrownFinite
  <2> HIDE DEF D
  <2>5. \A k \in StatusKeys : MemberPath(<<>>, k) \in B
    BY <2>1, <2>2, KeysSorted
  <2>6. \A id \in DOMAIN s.segments : SegmentPath(id) \in C
    <3>1. SegmentsPath \in B
      BY <2>5 DEF SegmentsPath, StatusKeys
    <3>2. QED
      BY <2>3, <3>1, KeysSorted, FieldsAre DEF SegmentPath
  <2>7. \A id \in DOMAIN s.segments : \A k \in SegmentKeys : MemberPath(SegmentPath(id), k) \in D
    BY <2>4, <2>6, KeysSorted
  <2> HIDE DEF v
  <2>8. DOMAIN v \subseteq S
    BY <1>1, <2>1, <2>5, <2>6, <2>7
  <2>9. IsFiniteSet(S)
    BY <2>1, <2>2, <2>3, <2>4, FS_Union
  <2> HIDE DEF S
  <2>10. QED
    BY <2>8, <2>9, FS_Subset
<1> HIDE DEF v
<1>4. \A p \in DOMAIN v : \E n \in 0..3 : Nested(v, p, n)
  BY <1>1, <1>2
<1>5. ASSUME NEW p \in DOMAIN v
      PROVE  /\ p \in Path /\ Len(p) <= 3
             /\ v[p] = Tok("object") \/ v[p] \in Leaves
             /\ p # <<>> => /\ Front(p) \in DOMAIN v /\ v[Front(p)] = Tok("object")
                            /\ \E i \in DOMAIN Sorted : p = MemberPath(Front(p), Sorted[i])
  <2>1. PICK n \in 0..3 : Nested(v, p, n)
    BY <1>4
  <2>2. p \in Path /\ Len(p) <= 3 /\ (v[p] = Tok("object") \/ v[p] \in Leaves)
    BY <2>1 DEF Nested
  <2>3. ASSUME p # <<>>
        PROVE  /\ Front(p) \in DOMAIN v /\ v[Front(p)] = Tok("object")
               /\ \E i \in DOMAIN Sorted : p = MemberPath(Front(p), Sorted[i])
    <3>1. PICK r \in DOMAIN v, i \in DOMAIN Sorted : p = MemberPath(r, Sorted[i]) /\ v[r] = Tok("object")
      BY <2>1, <2>3 DEF Nested
    <3>2. r \in Path
      BY <1>4 DEF Nested
    <3>3. Front(p) = r
      BY <3>1, <3>2, MemberIs
    <3>4. QED
      BY <3>1, <3>3
  <2>4. QED
    BY <2>2, <2>3
<1>6. ASSUME NEW p \in DOMAIN v
      PROVE  TreeAt(v, p)
  <2>1. Tok("object") \in Node /\ Tok("object").type = "object"
    BY NodeIs
  <2>2. \A c \in Leaves : c \in Node /\ c.type \notin {"array", "object"}
    <3>1. \A c \in Leaves : c \in Token /\ c.type \in Scalars /\ c.type \notin {"array", "object"}
      BY DEF Leaves, Scalars
    <3>2. QED
      BY <3>1, NodeIs
  <2>3. v[p] \in Node /\ v[p].type # "array"
    BY <1>5, <2>1, <2>2
  <2>4. ASSUME v[p].type # "object", NEW q \in Kids(v, p)
        PROVE  FALSE
    <3>1. q \in DOMAIN v /\ Len(q) = Len(p) + 1 /\ IsPrefix(p, q)
      BY <2>4 DEF Kids
    <3>2. q \in Seq(Edge) /\ p \in Seq(Edge)
      BY <1>5, <3>1, PathIs
    <3>3. q # <<>> /\ Front(q) = p
      BY <3>1, <3>2, ChildIs
    <3>4. v[p] = Tok("object")
      BY <1>5, <3>1, <3>3
    <3>5. QED
      BY <2>1, <2>4, <3>4
  <2>5. QED
    BY <1>5, <2>3, <2>4 DEF TreeAt
<1>7. IsTree(v)
  BY <1>1, <1>3, <1>6 DEF IsTree
<1>8. Written(v)
  BY <1>1, <1>5, <1>7 DEF Written
<1>9. QED
  BY <1>8 DEF v

-----------------------------------------------------------------------------
(****************************************************************************)
(* What the parser has read while the file is written.                       *)
(****************************************************************************)

\* The tokens of the file.
FileInv ==
  phase = "writing" => dumped \in Texts /\ rest \in Texts

\* With the parser's.
GrammarInv == ReadInv /\ Expected /\ FileInv

\* A file is opened with nothing read of it.
LEMMA InitGrammar == FileInit => GrammarInv
<1> SUFFICES ASSUME FileInit
             PROVE  GrammarInv
  OBVIOUS
<1>1. text = <<>> /\ read = <<>> /\ states = <<>> /\ at = "value"
  BY DEF FileInit, ParserInit
<1>2. <<>> \in Texts /\ <<>> \in Stacks
  BY DEF Texts, Stacks
<1>3. ReadInv
  BY <1>1, <1>2, NoContainer DEF ReadInv, ReadAt, Places
<1>4. ASSUME phase = "writing"
      PROVE  dumped \in Texts /\ rest \in Texts
  <2>1. status \in Statuses /\ dumped = <<>> /\ rest = Dump(to_json(status))
    BY <1>4 DEF FileInit
  <2>2. Shallow(to_json(status)) /\ <<>> \in DOMAIN to_json(status)
    BY <2>1, WrittenStatus, WrittenIs
  <2>3. PICK d : Dump(to_json(status)) = d[<<>>] /\ \A p \in DOMAIN to_json(status) : d[p] \in Texts
    BY <2>2, DumpFunction
  <2>4. QED
    BY <1>2, <2>1, <2>2, <2>3
<1>5. Expected
  BY <1>3, InitExpected DEF FileInit
<1>6. QED
  BY <1>3, <1>4, <1>5 DEF GrammarInv, FileInv

\* Neither writing nor cutting the file touches the parser's reading; a file
\* that is opened begins a new one.
LEMMA StepGrammar == GrammarInv /\ [FileNext]_allVars => GrammarInv'
<1> SUFFICES ASSUME GrammarInv, [FileNext]_allVars
             PROVE  GrammarInv'
  OBVIOUS
<1>1. ReadInv /\ Expected /\ FileInv
  BY DEF GrammarInv
<1>2. ASSUME text' \in Texts, UNCHANGED <<read, at, states>>
      PROVE  ReadInv' /\ Expected'
  <2>1. ReadInv'
    BY <1>1, <1>2, Zenon DEF ReadInv, ReadAt
  <2>2. Expected'
    BY <1>1, <1>2, Zenon DEF Expected, MayFollow
  <2>3. QED
    BY <2>1, <2>2
<1>3. CASE WriteToken
  <2>1. UNCHANGED <<text, read, at, states>>
    BY <1>3 DEF WriteToken, textVars, parserVars
  <2>2. dumped' \in Texts /\ rest' \in Texts
    BY <1>1, <1>3 DEF FileInv, WriteToken, Texts
  <2>3. QED
    BY <1>1, <1>2, <2>1, <2>2 DEF GrammarInv, FileInv, ReadInv
<1>4. CASE Close
  <2>1. UNCHANGED <<read, at, states>> /\ phase' = "closed"
    BY <1>4 DEF Close, parserVars
  <2>2. dumped \in Texts /\ rest \in Texts
    BY <1>1, <1>4 DEF FileInv, Close
  <2>3. text' \in Texts
    <3>1. CASE text' = dumped
      BY <2>2, <3>1
    <3>2. CASE \E end_of_file \in Torn : text' = dumped \o end_of_file
      <4>1. <<>> \in Texts /\ <<Tok("parse_error")>> \in Texts
        BY TokIs, ShortTexts DEF Structural, Texts
      <4>2. <<Leaf("unsigned", "cut")>> \in Texts
        BY StatusAssumption, ShortTexts DEF Leaf, Token, Scalars
      <4>3. \A end_of_file \in Torn : end_of_file \in Texts
        BY <4>1, <4>2, Zenon DEF Torn
      <4>4. QED
        BY <2>2, <3>2, <4>3, Concat
    <3>3. QED
      BY <1>4, <3>1, <3>2 DEF Close
  <2>4. QED
    BY <1>2, <2>1, <2>3 DEF GrammarInv, FileInv
<1>5. CASE Edited
  <2>1. UNCHANGED <<read, at, states>> /\ phase' = phase /\ dumped' = dumped /\ rest' = rest
    BY <1>5 DEF Edited, Edit, parserVars, fileVars
  <2>2. text' \in Texts
    <3>1. \A c \in Tokens : <<c>> \in Texts
      BY ParserAssumption, ShortTexts
    <3>2. QED
      BY <1>1, <1>5, <3>1 DEF Edited, Edit, ReadInv
  <2>3. QED
    BY <1>1, <1>2, <2>1, <2>2 DEF GrammarInv, FileInv
<1>6. CASE Read
  <2>1. ReadInv' /\ Expected'
    BY <1>1, <1>6, ParseReads, ParseExpected DEF Read
  <2>2. QED
    BY <1>1, <1>6, <2>1 DEF Read, fileVars, GrammarInv, FileInv
<1>7. CASE Load
  BY <1>1, <1>2, <1>7 DEF Load, textVars, parserVars, fileVars, GrammarInv, FileInv, ReadInv
<1>8. CASE Release
  BY <1>1, <1>2, <1>8 DEF Release, textVars, parserVars, fileVars, GrammarInv, FileInv, ReadInv
<1>9. CASE UNCHANGED allVars
  BY <1>1, <1>2, <1>9 DEF allVars, textVars, parserVars, fileVars, GrammarInv, FileInv, ReadInv
<1>10. QED
  BY <1>3, <1>4, <1>5, <1>6, <1>7, <1>8, <1>9 DEF FileNext

\* parser::parse_internal and accept (include/json.hpp) take JSON and nothing else:
\* whatever a status file holds, of any length and with containers in each other
\* to any depth, what was read before the parser is in error can be completed to
\* a value, what it accepts is one, and what it refuses begins none, unless its last
\* token is a number that overflows.  The states it keeps, one bit for each container
\* that is open, are enough to tell which token may follow.
THEOREM AcceptsValuesOnly == FileSpec => []ValuesOnly
<1>1. GrammarInv => ValuesOnly
  BY ReadIsCompletable, ExpectedIsValuesOnly DEF GrammarInv
<1>2. QED
  BY InitGrammar, StepGrammar, <1>1, PTL DEF FileSpec

-----------------------------------------------------------------------------
(****************************************************************************)
(* Every step: what is read, what is built of it, and its end.                *)
(****************************************************************************)

\* The value, its pointers and its end.  A file is loaded when the parser has
\* stopped, and the value released when the file is loaded.
BuilderInv ==
  /\ GrammarInv /\ PtrInv /\ ValueInv
  /\ open \in BOOLEAN
  /\ loaded # <<>> => at \in {"accepted", "error"}
  /\ at_end # "alive" => loaded # <<>>

\* The parser begins with nothing but a null.
LEMMA InitBuilder == FileInit => BuilderInv
<1> SUFFICES ASSUME FileInit
             PROVE  BuilderInv
  OBVIOUS
<1>1. GrammarInv /\ PtrInv
  BY InitGrammar, InitPoints DEF FileInit
<1>2. /\ at_end = "alive" /\ stack = <<>> /\ nulls = {} /\ freed = <<>> /\ open = TRUE
      /\ loaded = <<>>
  BY DEF FileInit, ValueInit
<1>3. QED
  BY <1>1, <1>2 DEF BuilderInv, ValueInv

\* A step of neither the parser nor the destructor.
LEMMA StillPoints == PtrInv /\ UNCHANGED parserVars => PtrInv'
BY DEF PtrInv, parserVars, domVars, Entered, ElementFits, Back

\* The same of the destructor.
LEMMA StillValue == ValueInv /\ UNCHANGED <<tree, valueVars>> => ValueInv'
BY DEF ValueInv, valueVars

\* Every step.
LEMMA StepBuilder == BuilderInv /\ [FileNext]_allVars => BuilderInv'
<1> SUFFICES ASSUME BuilderInv, [FileNext]_allVars
             PROVE  BuilderInv'
  OBVIOUS
<1>1. /\ ReadInv /\ PtrInv /\ ValueInv /\ open \in BOOLEAN
      /\ loaded # <<>> => at \in {"accepted", "error"}
      /\ at_end # "alive" => loaded # <<>>
      /\ IsTree(tree)
  BY DEF BuilderInv, GrammarInv, PtrInv
<1>2. GrammarInv'
  BY StepGrammar DEF BuilderInv
<1>3. ASSUME UNCHANGED <<parserVars, valueVars, loaded>>, open' \in BOOLEAN
      PROVE  BuilderInv'
  <2>1. tree' = tree /\ at' = at /\ at_end' = at_end
    BY <1>3 DEF parserVars, domVars, valueVars
  <2>2. PtrInv' /\ ValueInv'
    BY <1>1, <1>3, <2>1, StillPoints, StillValue
  <2>3. QED
    BY <1>1, <1>2, <1>3, <2>1, <2>2 DEF BuilderInv
<1>4. CASE WriteToken
  BY <1>1, <1>3, <1>4 DEF WriteToken, textVars
<1>5. CASE Close
  BY <1>1, <1>3, <1>5 DEF Close
<1>6. CASE Edited
  BY <1>1, <1>3, <1>6 DEF Edited, Edit
<1>7. CASE Read
  <2>1. UNCHANGED <<valueVars, loaded>> /\ Parse
    BY <1>7 DEF Read
  <2>2. PtrInv'
    BY <1>1, <2>1, ParsePoints
  <2>3. at \notin {"accepted", "error"}
    BY <2>1, Zenon DEF Parse, Value, ObjectBegun, ArrayBegun, Separator, Key, Evaluate, GetToken
  <2>4. loaded = <<>> /\ at_end = "alive"
    BY <1>1, <2>3
  <2>5. at_end' = "alive" /\ loaded' = <<>> /\ ValueInv'
    BY <1>1, <2>1, <2>4 DEF ValueInv, valueVars
  <2>6. open' = open
    BY <2>1, Zenon DEF Parse, Value, ObjectBegun, ArrayBegun, Separator, Key, Evaluate, GetToken, textVars
  <2>7. QED
    BY <1>1, <1>2, <2>2, <2>5, <2>6 DEF BuilderInv
<1>8. CASE Load
  <2>1. /\ UNCHANGED <<textVars, parserVars, valueVars>> /\ at \in {"accepted", "error"}
        /\ loaded = <<>>
    BY <1>8 DEF Load
  <2>2. tree' = tree /\ at' = at /\ at_end' = at_end /\ open' = open
    BY <2>1 DEF parserVars, domVars, valueVars, textVars
  <2>3. PtrInv' /\ ValueInv'
    BY <1>1, <2>1, <2>2, StillPoints, StillValue
  <2>4. at_end' = "alive"
    BY <1>1, <2>1, <2>2
  <2>5. QED
    BY <1>1, <1>2, <2>1, <2>2, <2>3, <2>4 DEF BuilderInv
<1>9. CASE Release
  <2>1. Destroy /\ UNCHANGED <<textVars, parserVars, loaded>> /\ loaded # <<>>
    BY <1>9 DEF Release
  <2>2. tree' = tree /\ at' = at /\ open' = open
    BY <2>1 DEF parserVars, domVars, textVars
  <2>3. PtrInv' /\ ValueInv'
    BY <1>1, <2>1, <2>2, StillPoints, DestroyFrees
  <2>4. QED
    BY <1>1, <1>2, <2>1, <2>2, <2>3 DEF BuilderInv
<1>10. CASE UNCHANGED allVars
  BY <1>1, <1>3, <1>10 DEF allVars, textVars
<1>11. QED
  BY <1>4, <1>5, <1>6, <1>7, <1>8, <1>9, <1>10 DEF FileNext

\* json_sax_dom_parser (include/json.hpp) keeps raw pointers into the value that
\* it builds, and the elements of its containers move when they grow.  For every
\* file, ref_stack and object_element point to containers and members that are
\* there, each of the type that the parser believes it is in: nothing that an
\* outer pointer needs moves before it was popped.
THEOREM PointersSafe == FileSpec => []PointersValid
<1>1. BuilderInv => PointersValid
  BY PtrInvIsPointersValid DEF BuilderInv, GrammarInv
<1>2. QED
  BY InitBuilder, StepBuilder, <1>1, PTL DEF FileSpec

\* json_value::destroy (include/json.hpp) moves the children of what it destroys
\* to a stack of its own, so that deep values need no deep recursion.  For every
\* value that a file may hold no part of it is freed twice, what is not free yet
\* is in exactly one value of the stack, and at the end all of it is free.
THEOREM ValuesFreedOnce == FileSpec => []FreedOnce
<1>1. BuilderInv => FreedOnce
  BY PtrInvIsPointersValid, ValueInvIsFreedOnce DEF BuilderInv, GrammarInv, PtrInv
<1>2. QED
  BY InitBuilder, StepBuilder, <1>1, PTL DEF FileSpec

-----------------------------------------------------------------------------
(****************************************************************************)
(* The text of a status: what stands where in it.                            *)
(****************************************************************************)

\* What follows each member of the object at p, up to its end, is in sfx.
Inside(v, d, sfx, p) ==
  /\ sfx \in [0..Len(Sorted) -> Texts] /\ sfx[Len(Sorted)] = <<>>
  /\ \A i \in DOMAIN Sorted : sfx[i - 1] = MemberOf(d, v, p, i) \o sfx[i]
  /\ d[p] = <<Tok("begin_object")>> \o (sfx[0] \o <<Tok("end_object")>>)

\* What follows the member at q in the whole text, if S is what follows the
\* members in their objects and x what follows the object it is in.
Behind(S, q, x) ==
  LET i == CHOOSE i \in DOMAIN Sorted : q = MemberPath(Front(q), Sorted[i])
  IN S[Front(q)][i] \o (<<Tok("end_object")>> \o x)

\* What follows the value at q, if a is what follows the objects.
Following(a, S, q) == IF q = <<>> THEN <<>> ELSE Behind(S, q, a[Front(q)])

\* The text of a value: of each path, of what follows the members in it, and of
\* what follows it.
Arranged(v, d, S, A) ==
  \A p \in DOMAIN v :
    /\ d[p] \in Texts /\ A[p] \in Texts
    /\ v[p].type # "object" => d[p] = <<v[p]>>
    /\ v[p].type = "object" => Inside(v, d, S[p], p)
    /\ A[p] = Following(A, S, p)

\* What follows a member: the rest of its object, and what follows that.
LEMMA FollowingIs ==
  ASSUME NEW a, NEW S, NEW p \in Path, NEW i \in DOMAIN Sorted
  PROVE  Following(a, S, MemberPath(p, Sorted[i])) = S[p][i] \o (<<Tok("end_object")>> \o a[p])
<1> DEFINE q == MemberPath(p, Sorted[i])
           k == CHOOSE j \in DOMAIN Sorted : q = MemberPath(Front(q), Sorted[j])
<1>1. q # <<>> /\ Front(q) = p /\ \A j \in DOMAIN Sorted : MemberPath(p, Sorted[j]) = q => i = j
  BY MemberIs
<1>2. k = i
  <2>1. \E j \in DOMAIN Sorted : q = MemberPath(Front(q), Sorted[j])
    BY <1>1
  <2>2. k \in DOMAIN Sorted /\ q = MemberPath(Front(q), Sorted[k])
    <3> HIDE DEF q
    <3>1. QED
      BY <2>1, Zenon
  <2> HIDE DEF k
  <2>3. QED
    BY <1>1, <2>2
<1>3. Following(a, S, q) = S[Front(q)][k] \o (<<Tok("end_object")>> \o a[Front(q)])
  <2> HIDE DEF q
  <2>1. QED
    BY <1>1, Zenon DEF Following, Behind, k
<1>4. QED
  BY <1>1, <1>2, <1>3, Zenon

\* There is such an arrangement.
LEMMA MembersArranged ==
  ASSUME NEW v, Written(v), NEW d, \A p \in DOMAIN v : d[p] = DumpOf(d, v, p) /\ d[p] \in Texts,
         NEW p \in DOMAIN v, v[p].type = "object"
  PROVE  \E sfx : Inside(v, d, sfx, p)
<1> DEFINE members == [i \in DOMAIN Sorted |-> MemberOf(d, v, p, i)]
<1>1. Sorted \in Seq(STRING)
  BY StatusAssumption
<1>2. \A i \in DOMAIN Sorted : MemberOf(d, v, p, i) \in Texts
  BY MemberOfType
<1>3. members \in Seq(Texts) /\ Len(members) = Len(Sorted) /\ DOMAIN Sorted = 1..Len(Sorted)
  BY <1>1, <1>2
<1>4. \A i \in DOMAIN Sorted : members[i] = MemberOf(d, v, p, i)
  OBVIOUS
<1>5. d[p] = <<Tok("begin_object")>> \o FlattenSeq(members) \o <<Tok("end_object")>>
  <2>1. ~(v[p].type # "object")
    OBVIOUS
  <2>2. QED
    BY <2>1, DumpOfIs, Zenon
<1> HIDE DEF members
<1>6. PICK suf \in [0..Len(Sorted) -> Texts] :
        /\ suf[Len(Sorted)] = <<>> /\ suf[0] = FlattenSeq(members)
        /\ \A i \in 1..Len(Sorted) : suf[i - 1] = members[i] \o suf[i]
  BY <1>3, FlattenSuffix
<1>7. \A i \in DOMAIN Sorted : suf[i - 1] = MemberOf(d, v, p, i) \o suf[i]
  BY <1>3, <1>4, <1>6
<1>8. <<Tok("begin_object")>> \o suf[0] \o <<Tok("end_object")>>
        = <<Tok("begin_object")>> \o (suf[0] \o <<Tok("end_object")>>)
  <2>1. <<Tok("begin_object")>> \in Texts /\ <<Tok("end_object")>> \in Texts
    BY TokIs, ShortTexts DEF Structural
  <2>2. suf[0] \in Texts
    <3>1. 0 \in 0..Len(Sorted)
      BY <1>1
    <3>2. QED
      BY <1>6, <3>1
  <2>3. QED
    BY <2>1, <2>2, Assoc, Zenon DEF Regroup
<1>9. QED
  BY <1>5, <1>6, <1>7, <1>8, Zenon DEF Inside

\* Every value that is written has such an arrangement.
LEMMA Arrangement ==
  ASSUME NEW v, Written(v)
  PROVE  \E d, S, A : Arranged(v, d, S, A) /\ Dump(v) = d[<<>>]
<1>1. Shallow(v) /\ <<>> \in DOMAIN v /\ IsTree(v)
  BY WrittenIs DEF Written
<1>2. PICK d : /\ Dump(v) = d[<<>>]
               /\ \A p \in DOMAIN v : d[p] = DumpOf(d, v, p) /\ d[p] \in Texts
  BY <1>1, DumpFunction
<1> DEFINE S == [p \in DOMAIN v |-> CHOOSE sfx : Inside(v, d, sfx, p)]
<1>3. \A p \in DOMAIN v : v[p].type = "object" => Inside(v, d, S[p], p)
  <2> SUFFICES ASSUME NEW p \in DOMAIN v, v[p].type = "object"
               PROVE  Inside(v, d, S[p], p)
    OBVIOUS
  <2>1. \E sfx : Inside(v, d, sfx, p)
    BY <1>2, MembersArranged
  <2>2. S[p] = CHOOSE sfx : Inside(v, d, sfx, p)
    OBVIOUS
  <2>3. QED
    BY <2>1, <2>2, Zenon
<1>4. \A p \in DOMAIN v : v[p].type # "object" => d[p] = <<v[p]>>
  BY <1>2, DumpOfIs, Zenon
<1> HIDE DEF S
<1> DEFINE Right(a, k) == \A p \in DOMAIN v : Len(p) <= k => a[p] = Following(a, S, p) /\ a[p] \in Texts
           Done == {k \in Nat : \E a : Right(a, k)}
<1>5. \A p \in DOMAIN v : /\ p \in Path /\ Len(p) \in Nat /\ Len(p) <= 3
                          /\ p # <<>> => /\ Front(p) \in DOMAIN v /\ Len(Front(p)) = Len(p) - 1
                                         /\ v[Front(p)].type = "object"
                                         /\ \E i \in DOMAIN Sorted : p = MemberPath(Front(p), Sorted[i])
  BY <1>1, TreePaths, WrittenIs DEF Written
<1>6. ASSUME NEW a, NEW p \in DOMAIN v, p # <<>> => a[Front(p)] \in Texts
      PROVE  Following(a, S, p) \in Texts
  <2>1. CASE p = <<>>
    <3>1. <<>> \in Texts
      BY DEF Texts
    <3>2. QED
      BY <2>1, <3>1, Zenon DEF Following
  <2>2. CASE p # <<>>
    <3>1. PICK i \in DOMAIN Sorted : p = MemberPath(Front(p), Sorted[i])
      BY <1>5, <2>2
    <3>2. Front(p) \in Path /\ Front(p) \in DOMAIN v /\ a[Front(p)] \in Texts
      BY <1>5, <1>6, <2>2
    <3>3. Following(a, S, p) = S[Front(p)][i] \o (<<Tok("end_object")>> \o a[Front(p)])
      BY <3>1, <3>2, FollowingIs
    <3>4. S[Front(p)][i] \in Texts
      <4>1. i \in 0..Len(Sorted)
        BY StatusAssumption
      <4>2. Inside(v, d, S[Front(p)], Front(p))
        BY <1>3, <1>5, <2>2
      <4>3. QED
        BY <4>1, <4>2 DEF Inside
    <3>5. <<Tok("end_object")>> \in Texts
      BY TokIs, ShortTexts DEF Structural
    <3>6. <<Tok("end_object")>> \o a[Front(p)] \in Texts
      BY <3>2, <3>5, Concat
    <3>7. S[Front(p)][i] \o (<<Tok("end_object")>> \o a[Front(p)]) \in Texts
      BY <3>4, <3>6, Concat
    <3>8. QED
      BY <3>3, <3>7
  <2>3. QED
    BY <2>1, <2>2
<1>7. ASSUME NEW a, NEW b, NEW p \in DOMAIN v, p # <<>> => a[Front(p)] = b[Front(p)]
      PROVE  Following(a, S, p) = Following(b, S, p)
  <2>1. CASE p = <<>>
    BY <2>1, Zenon DEF Following
  <2>2. CASE p # <<>>
    <3>1. a[Front(p)] = b[Front(p)]
      BY <1>7, <2>2
    <3>2. QED
      BY <3>1, Zenon DEF Following
  <2>3. QED
    BY <2>1, <2>2
<1>8. 0 \in Done
  <2> DEFINE a == [p \in DOMAIN v |-> <<>>]
  <2>1. ASSUME NEW p \in DOMAIN v, Len(p) <= 0
        PROVE  a[p] = Following(a, S, p) /\ a[p] \in Texts
    <3>1. p = <<>>
      BY <1>5, <2>1, PathIs
    <3>2. a[p] = <<>>
      OBVIOUS
    <3>3. <<>> \in Texts
      BY DEF Texts
    <3> HIDE DEF a
    <3>4. QED
      BY <3>1, <3>2, <3>3, Zenon DEF Following
  <2> HIDE DEF a
  <2>2. Right(a, 0)
    BY <2>1
  <2>3. QED
    BY <2>2
<1>9. ASSUME NEW k \in Done
      PROVE  k + 1 \in Done
  <2>1. PICK a : Right(a, k)
    OBVIOUS
  <2> DEFINE e == [p \in DOMAIN v |-> Following(a, S, p)]
  <2>2. \A p \in DOMAIN v : e[p] = Following(a, S, p)
    OBVIOUS
  <2> HIDE DEF e
  <2>3. ASSUME NEW p \in DOMAIN v, Len(p) <= k + 1
        PROVE  e[p] = Following(e, S, p) /\ e[p] \in Texts
    <3>1. ASSUME p # <<>>
          PROVE  a[Front(p)] = e[Front(p)] /\ a[Front(p)] \in Texts
      <4>1. Front(p) \in DOMAIN v /\ Len(Front(p)) <= k
        BY <1>5, <2>3, <3>1
      <4>2. a[Front(p)] = Following(a, S, Front(p)) /\ a[Front(p)] \in Texts
        BY <2>1, <4>1
      <4>3. QED
        BY <2>2, <4>1, <4>2
    <3>2. Following(a, S, p) = Following(e, S, p)
      BY <1>7, <3>1
    <3>3. Following(a, S, p) \in Texts
      BY <1>6, <3>1
    <3>4. QED
      BY <2>2, <3>2, <3>3
  <2>4. Right(e, k + 1)
    BY <2>3
  <2> HIDE DEF Right
  <2>5. QED
    BY <2>4
<1> HIDE DEF Done
<1>10. Done = Nat
  BY <1>8, <1>9, NatSetInduction DEF Done
<1>11. PICK A : Right(A, 3)
  <2>1. 3 \in Done
    BY <1>10
  <2> HIDE DEF Right
  <2>2. QED
    BY <2>1 DEF Done
<1>12. \A p \in DOMAIN v : A[p] = Following(A, S, p) /\ A[p] \in Texts
  BY <1>5, <1>11
<1>13. Arranged(v, d, S, A)
  BY <1>2, <1>3, <1>4, <1>12, Zenon DEF Arranged
<1>14. QED
  BY <1>2, <1>13

\* The tokens between the values, and the key of a member.
Comma == Tok("value_separator")
Colon == Tok("name_separator")
Begin == Tok("begin_object")
Finish == Tok("end_object")
Name(j) == Leaf("string", Sorted[j])

\* They are tokens.
LEMMA SignsAre ==
  /\ Comma \in Token /\ Comma.type = "value_separator" /\ <<Comma>> \in Texts
  /\ Colon \in Token /\ Colon.type = "name_separator" /\ <<Colon>> \in Texts
  /\ Begin \in Token /\ Begin.type = "begin_object" /\ <<Begin>> \in Texts
  /\ Finish \in Token /\ Finish.type = "end_object" /\ <<Finish>> \in Texts
  /\ \A j \in DOMAIN Sorted : /\ Name(j) \in Token /\ Name(j).type = "string"
                              /\ Name(j).val = Sorted[j] /\ <<Name(j)>> \in Texts
<1>1. \A j \in DOMAIN Sorted : Sorted[j] \in STRING
  BY StatusAssumption
<1>2. \A j \in DOMAIN Sorted : /\ Name(j) \in Token /\ Name(j).type = "string"
                              /\ Name(j).val = Sorted[j]
  BY <1>1 DEF Name, Leaf, Token, Scalars
<1>3. /\ Comma \in Token /\ Comma.type = "value_separator"
      /\ Colon \in Token /\ Colon.type = "name_separator"
      /\ Begin \in Token /\ Begin.type = "begin_object"
      /\ Finish \in Token /\ Finish.type = "end_object"
  BY TokIs, Zenon DEF Comma, Colon, Begin, Finish, Structural
<1>4. QED
  BY <1>2, <1>3, ShortTexts, Zenon

\* The members behind the k-th key: none, or the next one that is there.
NoMore(v, p, k) == \A j \in DOMAIN Sorted : j > k => MemberPath(p, Sorted[j]) \notin DOMAIN v
NextIs(v, p, k, j) ==
  /\ j \in DOMAIN Sorted /\ j > k /\ MemberPath(p, Sorted[j]) \in DOMAIN v
  /\ \A i \in DOMAIN Sorted : i > k /\ i < j => MemberPath(p, Sorted[i]) \notin DOMAIN v

\* What of the text the k-th key has behind it.
NextText(v, d, sfx, p, k) ==
  \/ NoMore(v, p, k) /\ sfx[k] = <<>>
  \/ \E j : NextIs(v, p, k, j) /\ sfx[k] = MemberOf(d, v, p, j) \o sfx[j]

\* One of the two it is.
LEMMA NextMember ==
  ASSUME NEW v, NEW d, NEW sfx, NEW p, Inside(v, d, sfx, p), NEW k \in 0..Len(Sorted)
  PROVE  NextText(v, d, sfx, p, k)
<1> DEFINE n == Len(Sorted)
           Says(i) == \/ NoMore(v, p, i) /\ sfx[i] = <<>>
                      \/ \E j : NextIs(v, p, i, j) /\ sfx[i] = MemberOf(d, v, p, j) \o sfx[j]
           N == {m \in Nat : \A i \in 0..n : n - i = m => Says(i)}
<1>1. n \in Nat /\ DOMAIN Sorted = 1..n
  BY StatusAssumption
<1>2. /\ \A i \in 0..n : sfx[i] \in Texts
      /\ sfx[n] = <<>> /\ \A i \in 1..n : sfx[i - 1] = MemberOf(d, v, p, i) \o sfx[i]
  BY <1>1 DEF Inside
<1> HIDE DEF n
<1>3. 0 \in N
  <2> SUFFICES ASSUME NEW i \in 0..n, n - i = 0
               PROVE  Says(i)
    OBVIOUS
  <2>1. i = n /\ \A j \in 1..n : ~(j > i)
    BY <1>1
  <2>2. QED
    BY <1>1, <1>2, <2>1 DEF NoMore
<1>4. ASSUME NEW m \in N
      PROVE  m + 1 \in N
  <2>0. m \in Nat /\ m + 1 \in Nat
    OBVIOUS
  <2> HIDE DEF Says
  <2> SUFFICES ASSUME NEW i \in 0..n, n - i = m + 1
               PROVE  Says(i)
    BY <2>0
  <2> DEFINE e == i + 1
  <2>1. /\ e \in 0..n /\ e \in 1..n /\ n - e = m /\ e - 1 = i /\ i \in Nat
        /\ \A j \in 1..n : j > i <=> j = e \/ j > e
        /\ \A j \in 1..n : j > e => j > i
    BY <1>1
  <2> HIDE DEF e
  <2>2. Says(e)
    BY <2>1
  <2>3. sfx[i] = MemberOf(d, v, p, e) \o sfx[e] /\ sfx[e] \in Texts
    BY <1>2, <2>1
  <2>4. CASE MemberPath(p, Sorted[e]) \in DOMAIN v
    <3>1. NextIs(v, p, i, e)
      <4>1. e > i /\ \A j \in 1..n : ~(j > i /\ j < e)
        BY <1>1, <2>1
      <4>2. QED
        BY <1>1, <2>1, <2>4, <4>1 DEF NextIs
    <3>2. QED
      BY <2>3, <3>1 DEF Says
  <2>5. CASE MemberPath(p, Sorted[e]) \notin DOMAIN v
    <3>1. sfx[i] = sfx[e]
      <4>1. MemberOf(d, v, p, e) = <<>>
        BY <2>5, Zenon DEF MemberOf
      <4>2. QED
        BY <2>3, <4>1, ShortTexts, Zenon
    <3>2. CASE NoMore(v, p, e) /\ sfx[e] = <<>>
      <4>1. NoMore(v, p, i)
        BY <1>1, <2>1, <2>5, <3>2 DEF NoMore
      <4>2. QED
        BY <3>1, <3>2, <4>1 DEF Says
    <3>3. ASSUME NEW j, NextIs(v, p, e, j), sfx[e] = MemberOf(d, v, p, j) \o sfx[j]
          PROVE  Says(i)
      <4>1. NextIs(v, p, i, j)
        BY <1>1, <2>1, <2>5, <3>3 DEF NextIs
      <4>2. QED
        BY <3>1, <3>3, <4>1 DEF Says
    <3>4. QED
      BY <2>2, <3>2, <3>3 DEF Says
  <2>6. QED
    BY <2>4, <2>5
<1> HIDE DEF N
<1>5. N = Nat
  BY <1>3, <1>4, NatSetInduction DEF N
<1>6. n - k \in N /\ k \in 0..n
  BY <1>1, <1>5 DEF n
<1>7. Says(k)
  <2> HIDE DEF Says
  <2>1. QED
    BY <1>6 DEF N
<1>8. QED
  BY <1>7 DEF NextText

\* What is read from the value at q on, from behind its key on, and from its key
\* on, to the end of the text.
FromValue(d, A, q) == d[q] \o A[q]
FromColon(d, A, q) == <<Colon>> \o FromValue(d, A, q)
FromName(d, A, p, j) == <<Name(j)>> \o FromColon(d, A, MemberPath(p, Sorted[j]))
FromEnd(A, p) == <<Finish>> \o A[p]
FromMembers(S, A, p) == S[p][0] \o FromEnd(A, p)

\* A member with the comma before it, or without if it is the first.
FirstText(v, d, S, A, p, j) ==
  /\ (\A i \in 1..j - 1 : MemberPath(p, Sorted[i]) \notin DOMAIN v) =>
       MemberOf(d, v, p, j) \o S[p][j] \o FromEnd(A, p) = FromName(d, A, p, j)
  /\ (\E i \in 1..j - 1 : MemberPath(p, Sorted[i]) \in DOMAIN v) =>
       MemberOf(d, v, p, j) \o S[p][j] \o FromEnd(A, p) = <<Comma>> \o FromName(d, A, p, j)

\* From the comma or the brace before it, a member is its key, a colon and its value.
LEMMA MemberText ==
  ASSUME NEW v, NEW d, NEW S, NEW A, Arranged(v, d, S, A), Written(v),
         NEW p \in DOMAIN v, NEW j \in DOMAIN Sorted, MemberPath(p, Sorted[j]) \in DOMAIN v
  PROVE  FirstText(v, d, S, A, p, j)
<1> DEFINE q == MemberPath(p, Sorted[j])
           c == <<Comma>>
           a == <<Name(j), Colon>>
           b == <<Name(j)>>
           m == <<Colon>>
           x == d[q]
           s == S[p][j]
           z == <<Finish>> \o A[p]
           whole == MemberOf(d, v, p, j) \o s \o z
           more == b \o (m \o (x \o A[q]))
<1>1. v[p].type = "object" /\ p \in Path
  <2>1. p \in Path
    BY WrittenIs
  <2>2. q # <<>> /\ Front(q) = p
    BY <2>1, MemberIs
  <2>3. QED
    BY <2>1, <2>2, WrittenIs
<1>2. Inside(v, d, S[p], p) /\ x \in Texts /\ A[p] \in Texts /\ A[q] = s \o z /\ A[q] \in Texts
  <2>1. A[q] = Following(A, S, q)
    BY DEF Arranged
  <2>2. A[q] = s \o z
    BY <1>1, <2>1, FollowingIs DEF Finish
  <2>3. QED
    BY <1>1, <2>2 DEF Arranged
<1>3. s \in Texts
  <2>1. j \in 0..Len(Sorted)
    BY StatusAssumption
  <2>2. QED
    BY <1>2, <2>1 DEF Inside
<1>4. c \in Texts /\ b \in Texts /\ m \in Texts /\ a \in Texts /\ a = b \o m /\ z \in Texts
  <2>1. c \in Texts /\ b \in Texts /\ m \in Texts /\ <<Finish>> \in Texts
    BY SignsAre
  <2>2. a \in Texts /\ b \o m = a
    BY SignsAre, ShortTexts
  <2>3. z \in Texts
    BY <1>2, <2>1, Concat
  <2>4. QED
    BY <2>1, <2>2, <2>3
<1>5. MemberOf(d, v, p, j) =
        (IF \E i \in 1..j - 1 : MemberPath(p, Sorted[i]) \in DOMAIN v THEN c ELSE <<>>) \o a \o x
  BY Zenon DEF MemberOf, Name, Colon, Comma
<1> HIDE DEF q, c, a, b, m, x, s, z
<1>6. ((a \o x) \o s) \o z = more
  <2>1. a \o x \in Texts /\ x \o A[q] \in Texts /\ m \o (x \o A[q]) \in Texts /\ x \o s \in Texts
    BY <1>2, <1>3, <1>4, Concat
  <2>2. Regroup(a \o x, s, z) /\ Regroup(a, x, A[q]) /\ Regroup(b, m, x \o A[q])
    BY <1>2, <1>3, <1>4, <2>1, Assoc
  <2>3. /\ ((a \o x) \o s) \o z = (a \o x) \o (s \o z)
        /\ (a \o x) \o A[q] = a \o (x \o A[q])
        /\ (b \o m) \o (x \o A[q]) = b \o (m \o (x \o A[q]))
    BY <2>2, Zenon DEF Regroup
  <2>4. QED
    BY <1>2, <1>4, <2>3, Zenon
<1>7. ASSUME \A i \in 1..j - 1 : MemberPath(p, Sorted[i]) \notin DOMAIN v
      PROVE  whole = more
  <2>1. MemberOf(d, v, p, j) = <<>> \o a \o x
    BY <1>5, <1>7, Zenon
  <2>2. <<>> \o a = a
    BY <1>4, ShortTexts
  <2>3. QED
    BY <1>6, <2>1, <2>2, Zenon
<1>8. ASSUME \E i \in 1..j - 1 : MemberPath(p, Sorted[i]) \in DOMAIN v
      PROVE  whole = c \o more
  <2>1. MemberOf(d, v, p, j) = c \o a \o x
    BY <1>5, <1>8, Zenon
  <2>2. a \o x \in Texts /\ (a \o x) \o s \in Texts
    BY <1>2, <1>3, <1>4, Concat
  <2>3. Regroup(c, a, x) /\ Regroup(c, a \o x, s) /\ Regroup(c, (a \o x) \o s, z)
    BY <1>2, <1>3, <1>4, <2>2, Assoc
  <2>4. /\ (c \o a) \o x = c \o (a \o x)
        /\ (c \o (a \o x)) \o s = c \o ((a \o x) \o s)
        /\ (c \o ((a \o x) \o s)) \o z = c \o (((a \o x) \o s) \o z)
    BY <2>3, Zenon DEF Regroup
  <2>5. QED
    BY <1>6, <2>1, <2>4, Zenon
<1>9. QED
  BY <1>7, <1>8 DEF FirstText, q, c, b, m, x, s, z, FromEnd, FromName, FromColon, FromValue

\* They are texts.
LEMMA FromTypes ==
  ASSUME NEW v, NEW d, NEW S, NEW A, Arranged(v, d, S, A), Written(v), NEW p \in DOMAIN v
  PROVE  /\ A[p] \in Texts /\ FromValue(d, A, p) \in Texts /\ FromColon(d, A, p) \in Texts
         /\ FromEnd(A, p) \in Texts
         /\ \A j \in DOMAIN Sorted : MemberPath(p, Sorted[j]) \in DOMAIN v => FromName(d, A, p, j) \in Texts
         /\ v[p].type = "object" => S[p][0] \in Texts /\ FromMembers(S, A, p) \in Texts
<1>1. \A q \in DOMAIN v : A[q] \in Texts /\ d[q] \in Texts
  BY DEF Arranged
<1>2. \A q \in DOMAIN v : FromValue(d, A, q) \in Texts
  BY <1>1, Concat DEF FromValue
<1>3. \A q \in DOMAIN v : FromColon(d, A, q) \in Texts
  BY <1>2, SignsAre, Concat DEF FromColon
<1>4. ASSUME NEW j \in DOMAIN Sorted, MemberPath(p, Sorted[j]) \in DOMAIN v
      PROVE  FromName(d, A, p, j) \in Texts
  BY <1>3, <1>4, SignsAre, Concat DEF FromName
<1>5. FromEnd(A, p) \in Texts
  BY <1>1, SignsAre, Concat DEF FromEnd
<1>6. ASSUME v[p].type = "object"
      PROVE  S[p][0] \in Texts /\ FromMembers(S, A, p) \in Texts
  <2>1. S[p][0] \in Texts
    <3>1. 0 \in 0..Len(Sorted)
      BY StatusAssumption
    <3>2. QED
      BY <1>6, <3>1 DEF Arranged, Inside
  <2>2. QED
    BY <1>5, <2>1, Concat DEF FromMembers
<1>7. QED
  BY <1>1, <1>2, <1>3, <1>4, <1>5, <1>6

\* The tokens of a leaf, and of an object.
LEMMA LeafText ==
  ASSUME NEW v, NEW d, NEW S, NEW A, Arranged(v, d, S, A), NEW p \in DOMAIN v, v[p].type # "object"
  PROVE  FromValue(d, A, p) = <<v[p]>> \o A[p]
<1>1. d[p] = <<v[p]>>
  BY DEF Arranged
<1>2. QED
  BY <1>1 DEF FromValue

\* From an object: its brace and its members.
LEMMA ObjectText ==
  ASSUME NEW v, NEW d, NEW S, NEW A, Arranged(v, d, S, A), Written(v), NEW p \in DOMAIN v,
         v[p].type = "object"
  PROVE  FromValue(d, A, p) = <<Begin>> \o FromMembers(S, A, p)
<1> DEFINE s == S[p][0]
           b == <<Begin>>
           e == <<Finish>>
           z == A[p]
<1>1. s \in Texts /\ z \in Texts /\ e \o z \in Texts /\ b \in Texts /\ e \in Texts
  BY FromTypes, SignsAre DEF FromEnd
<1>2. d[p] = b \o (s \o e)
  BY DEF Arranged, Inside, Begin, Finish
<1>3. FromValue(d, A, p) = d[p] \o z /\ FromMembers(S, A, p) = s \o (e \o z)
  BY DEF FromValue, FromMembers, FromEnd
<1> HIDE DEF s, b, e, z
<1>4. s \o e \in Texts
  BY <1>1, Concat
<1>5. Regroup(b, s \o e, z) /\ Regroup(s, e, z)
  BY <1>1, <1>4, Assoc
<1>6. (b \o (s \o e)) \o z = b \o ((s \o e) \o z) /\ (s \o e) \o z = s \o (e \o z)
  BY <1>5, Zenon DEF Regroup
<1>7. QED
  BY <1>2, <1>3, <1>6, Zenon DEF b

\* Behind the beginning of an object its first member follows, or its end.
LEMMA MembersText ==
  ASSUME NEW v, NEW d, NEW S, NEW A, Arranged(v, d, S, A), Written(v), NEW p \in DOMAIN v,
         v[p].type = "object"
  PROVE  \/ NoMore(v, p, 0) /\ FromMembers(S, A, p) = FromEnd(A, p)
         \/ \E j : NextIs(v, p, 0, j) /\ FromMembers(S, A, p) = FromName(d, A, p, j)
<1>1. Inside(v, d, S[p], p) /\ 0 \in 0..Len(Sorted) /\ DOMAIN Sorted = 1..Len(Sorted) /\ Len(Sorted) \in Nat
  BY StatusAssumption DEF Arranged
<1>2. CASE NoMore(v, p, 0) /\ S[p][0] = <<>>
  <2>1. FromEnd(A, p) \in Texts
    BY FromTypes
  <2>2. FromMembers(S, A, p) = FromEnd(A, p)
    BY <1>2, <2>1, ShortTexts DEF FromMembers
  <2>3. QED
    BY <1>2, <2>2
<1>3. ASSUME NEW j, NextIs(v, p, 0, j), S[p][0] = MemberOf(d, v, p, j) \o S[p][j]
      PROVE  FromMembers(S, A, p) = FromName(d, A, p, j)
  <2>1. j \in DOMAIN Sorted /\ MemberPath(p, Sorted[j]) \in DOMAIN v
    BY <1>3 DEF NextIs
  <2>2. \A i \in 1..j - 1 : i \in DOMAIN Sorted /\ i > 0 /\ i < j
    BY <1>1, <2>1
  <2>3. \A i \in 1..j - 1 : MemberPath(p, Sorted[i]) \notin DOMAIN v
    BY <1>3, <2>2 DEF NextIs
  <2>4. MemberOf(d, v, p, j) \o S[p][j] \o FromEnd(A, p) = FromName(d, A, p, j)
    <3>1. FirstText(v, d, S, A, p, j)
      BY <2>1, MemberText
    <3>2. QED
      BY <2>3, <3>1 DEF FirstText
  <2>5. QED
    BY <1>3, <2>4, Zenon DEF FromMembers
<1>4. \/ NoMore(v, p, 0) /\ S[p][0] = <<>>
      \/ \E j : NextIs(v, p, 0, j) /\ S[p][0] = MemberOf(d, v, p, j) \o S[p][j]
  <2>1. NextText(v, d, S[p], p, 0)
    BY <1>1, NextMember
  <2>2. QED
    BY <2>1, Zenon DEF NextText
<1>5. QED
  BY <1>2, <1>3, <1>4, Zenon

\* Behind a member a comma and the next one follows, or the end of the object.
LEMMA MoreText ==
  ASSUME NEW v, NEW d, NEW S, NEW A, Arranged(v, d, S, A), Written(v), NEW p \in DOMAIN v,
         NEW k \in DOMAIN Sorted, MemberPath(p, Sorted[k]) \in DOMAIN v
  PROVE  \/ NoMore(v, p, k) /\ A[MemberPath(p, Sorted[k])] = FromEnd(A, p)
         \/ \E j : /\ NextIs(v, p, k, j)
                   /\ A[MemberPath(p, Sorted[k])] = <<Comma>> \o FromName(d, A, p, j)
<1> DEFINE q == MemberPath(p, Sorted[k])
<1>1. /\ k \in 0..Len(Sorted) /\ DOMAIN Sorted = 1..Len(Sorted) /\ Len(Sorted) \in Nat
      /\ p \in Path
  BY StatusAssumption, WrittenIs
<1>2. v[p].type = "object"
  <2>1. q # <<>> /\ Front(q) = p
    BY <1>1, MemberIs
  <2>2. QED
    BY <2>1, WrittenIs
<1>3. Inside(v, d, S[p], p)
  BY <1>2 DEF Arranged
<1>4. A[q] = S[p][k] \o FromEnd(A, p)
  <2>1. A[q] = Following(A, S, q)
    BY DEF Arranged
  <2>2. QED
    BY <1>1, <2>1, FollowingIs DEF FromEnd, Finish
<1> HIDE DEF q
<1>5. CASE NoMore(v, p, k) /\ S[p][k] = <<>>
  <2>1. FromEnd(A, p) \in Texts
    BY FromTypes
  <2>2. A[q] = FromEnd(A, p)
    BY <1>4, <1>5, <2>1, ShortTexts
  <2>3. QED
    BY <1>5, <2>2 DEF q
<1>6. ASSUME NEW j, NextIs(v, p, k, j), S[p][k] = MemberOf(d, v, p, j) \o S[p][j]
      PROVE  A[q] = <<Comma>> \o FromName(d, A, p, j)
  <2>1. j \in DOMAIN Sorted /\ MemberPath(p, Sorted[j]) \in DOMAIN v
    BY <1>6 DEF NextIs
  <2>2. k \in 1..j - 1
    BY <1>1, <1>6, <2>1 DEF NextIs
  <2>3. \E i \in 1..j - 1 : MemberPath(p, Sorted[i]) \in DOMAIN v
    BY <2>2 DEF q
  <2>4. MemberOf(d, v, p, j) \o S[p][j] \o FromEnd(A, p) = <<Comma>> \o FromName(d, A, p, j)
    <3>1. FirstText(v, d, S, A, p, j)
      BY <2>1, MemberText
    <3>2. QED
      BY <2>3, <3>1 DEF FirstText
  <2>5. QED
    BY <1>4, <1>6, <2>4, Zenon
<1>7. \/ NoMore(v, p, k) /\ S[p][k] = <<>>
      \/ \E j : NextIs(v, p, k, j) /\ S[p][k] = MemberOf(d, v, p, j) \o S[p][j]
  <2>1. NextText(v, d, S[p], p, k)
    BY <1>1, <1>3, NextMember
  <2>2. QED
    BY <2>1, Zenon DEF NextText
<1>8. QED
  BY <1>5, <1>6, <1>7, Zenon DEF q

-----------------------------------------------------------------------------
(****************************************************************************)
(* The parser on its way along that text: what it has built, what is left to *)
(* read and where the pointers are.                                          *)
(****************************************************************************)

\* The values that are written before the one at q: those that it is in, and
\* those in or below an earlier member of one of these.
Above(x, q) == IsPrefix(x, q) /\ x # q
Earlier(v, x, q) ==
  \E p \in DOMAIN v, i, j \in DOMAIN Sorted :
    j < i /\ IsPrefix(MemberPath(p, Sorted[i]), q) /\ IsPrefix(MemberPath(p, Sorted[j]), x)
Before(v, q) == {x \in DOMAIN v : Above(x, q) \/ Earlier(v, x, q)}

\* Prefixes of paths.
LEMMA PathOrder ==
  ASSUME NEW p \in Path, NEW q \in Path
  PROVE  /\ IsPrefix(p, p) /\ IsPrefix(<<>>, p)
         /\ IsPrefix(p, q) /\ Len(p) = Len(q) => p = q
         /\ IsPrefix(p, q) /\ IsPrefix(q, p) => p = q
         /\ \A r \in Path : IsPrefix(p, q) /\ IsPrefix(q, r) => IsPrefix(p, r)
         /\ \A r \in Path : IsPrefix(p, r) /\ IsPrefix(q, r) /\ Len(p) = Len(q) => p = q
<1>1. p \in Seq(Edge) /\ q \in Seq(Edge) /\ Path = Seq(Edge)
  BY PathIs
<1>2. /\ IsPrefix(p, p) /\ IsPrefix(<<>>, p)
      /\ IsPrefix(p, q) /\ Len(p) = Len(q) => p = q
      /\ \A r \in Path : IsPrefix(p, q) /\ IsPrefix(q, r) => IsPrefix(p, r)
      /\ \A r \in Path : IsPrefix(p, r) /\ IsPrefix(q, r) /\ Len(p) <= Len(q) => IsPrefix(p, q)
  BY <1>1, PrefixOrder
<1>3. IsPrefix(p, q) /\ IsPrefix(q, p) => p = q
  <2>1. IsPrefix(p, q) => Len(p) <= Len(q)
    BY <1>1, PrefixIs
  <2>2. IsPrefix(q, p) => Len(q) <= Len(p)
    BY <1>1, PrefixIs
  <2>3. Len(p) \in Nat /\ Len(q) \in Nat
    BY <1>1
  <2>4. QED
    BY <1>2, <2>1, <2>2, <2>3
<1>4. \A r \in Path : IsPrefix(p, r) /\ IsPrefix(q, r) /\ Len(p) = Len(q) => p = q
  <2>1. Len(p) \in Nat /\ Len(q) \in Nat
    BY <1>1
  <2>2. QED
    BY <1>2, <2>1
<1>5. QED
  BY <1>2, <1>3, <1>4

\* Members of one value are not in each other.
LEMMA OneMember ==
  ASSUME NEW p \in Path, NEW x \in Path, NEW i \in DOMAIN Sorted, NEW j \in DOMAIN Sorted,
         IsPrefix(MemberPath(p, Sorted[i]), x), IsPrefix(MemberPath(p, Sorted[j]), x)
  PROVE  i = j
<1>1. /\ MemberPath(p, Sorted[i]) \in Path /\ MemberPath(p, Sorted[j]) \in Path
      /\ Len(MemberPath(p, Sorted[i])) = Len(MemberPath(p, Sorted[j]))
  BY MemberIs
<1>2. MemberPath(p, Sorted[i]) = MemberPath(p, Sorted[j])
  BY <1>1, PathOrder
<1>3. QED
  BY <1>2, MemberIs

\* What is in a value is in one of its members.
LEMMA InMember ==
  ASSUME NEW v, Written(v), NEW p \in DOMAIN v, NEW x \in DOMAIN v, IsPrefix(p, x), x # p
  PROVE  \E i \in DOMAIN Sorted :
           MemberPath(p, Sorted[i]) \in DOMAIN v /\ IsPrefix(MemberPath(p, Sorted[i]), x)
<1> DEFINE y == SubSeq(x, 1, Len(p) + 1)
<1>1. IsTree(v) /\ p \in Path /\ x \in Path /\ p \in Seq(Edge) /\ x \in Seq(Edge)
  BY TreePaths DEF Written
<1>2. Len(p) \in Nat /\ Len(x) \in Nat /\ Len(p) < Len(x) /\ \A i \in 1..Len(p) : p[i] = x[i]
  <2>1. Len(p) <= Len(x) /\ \A i \in 1..Len(p) : p[i] = x[i]
    BY <1>1, PrefixIs
  <2>2. Len(p) # Len(x)
    BY <1>1, PathOrder
  <2>3. QED
    BY <1>1, <2>1, <2>2
<1>3. y \in Seq(Edge) /\ Len(y) = Len(p) + 1 /\ \A i \in 1..Len(p) + 1 : y[i] = x[i]
  BY <1>1, <1>2
<1> HIDE DEF y
<1>4. IsPrefix(y, x)
  BY <1>1, <1>2, <1>3, PrefixIs
<1>5. y # <<>> /\ Front(y) = p
  <2>1. IsPrefix(p, y)
    BY <1>1, <1>2, <1>3, PrefixIs
  <2>2. QED
    BY <1>1, <1>3, <2>1, ChildIs
<1>6. y \in DOMAIN v
  BY <1>1, <1>3, <1>4, PathIs, TreePaths
<1>7. PICK i \in DOMAIN Sorted : y = MemberPath(p, Sorted[i])
  BY <1>5, <1>6, WrittenIs
<1>8. QED
  BY <1>4, <1>6, <1>7

\* Nothing in the value at q is written before it.
LEMMA NotBefore ==
  ASSUME NEW v, Written(v), NEW q \in DOMAIN v, NEW x \in Before(v, q)
  PROVE  x \in DOMAIN v /\ ~IsPrefix(q, x)
<1>1. x \in DOMAIN v /\ x \in Path /\ q \in Path /\ \A p \in DOMAIN v : p \in Path
  BY WrittenIs DEF Before
<1>2. CASE Above(x, q)
  BY <1>1, <1>2, PathOrder DEF Above
<1>3. ASSUME Earlier(v, x, q), IsPrefix(q, x)
      PROVE  FALSE
  <2>1. PICK p \in DOMAIN v, i \in DOMAIN Sorted, j \in DOMAIN Sorted :
          j < i /\ IsPrefix(MemberPath(p, Sorted[i]), q) /\ IsPrefix(MemberPath(p, Sorted[j]), x)
    BY <1>3 DEF Earlier
  <2>2. p \in Path /\ MemberPath(p, Sorted[i]) \in Path
    BY <1>1, MemberIs
  <2>3. IsPrefix(MemberPath(p, Sorted[i]), x)
    BY <1>1, <1>3, <2>1, <2>2, PathOrder
  <2>4. i = j
    BY <1>1, <2>1, <2>2, <2>3, OneMember
  <2>5. j \in Nat
    BY StatusAssumption
  <2>6. QED
    BY <2>1, <2>4, <2>5
<1>4. QED
  BY <1>1, <1>2, <1>3 DEF Before

\* What is written before a member is written before the value it is a member
\* of, is that, or is in one of its earlier members.
LEMMA BeforeMember ==
  ASSUME NEW v, Written(v), NEW p \in DOMAIN v, NEW j \in DOMAIN Sorted,
         MemberPath(p, Sorted[j]) \in DOMAIN v, NEW x
  PROVE  x \in Before(v, MemberPath(p, Sorted[j])) <=>
           \/ x \in Before(v, p) \/ x = p
           \/ /\ x \in DOMAIN v
              /\ \E i \in DOMAIN Sorted : /\ i < j /\ MemberPath(p, Sorted[i]) \in DOMAIN v
                                          /\ IsPrefix(MemberPath(p, Sorted[i]), x)
<1> DEFINE q == MemberPath(p, Sorted[j])
<1>1. IsTree(v) /\ p \in Path /\ \A r \in DOMAIN v : r \in Path /\ r \in Seq(Edge)
  BY TreePaths DEF Written
<1>2. q \in Path /\ q # <<>> /\ Front(q) = p /\ IsPrefix(p, q) /\ Len(q) = Len(p) + 1
  BY <1>1, MemberIs
<1>3. \A r \in Path : IsPrefix(r, q) <=> r = q \/ IsPrefix(r, p)
  <2>1. q \in Seq(Edge) /\ Path = Seq(Edge)
    BY <1>2, PathIs
  <2>2. QED
    BY <1>2, <2>1, PrefixFront
<1>4. ~IsPrefix(q, p) /\ q # p /\ IsPrefix(p, p)
  <2>1. IsPrefix(p, p) /\ (IsPrefix(q, p) => q = p)
    BY <1>1, <1>2, PathOrder
  <2>2. q # p
    <3>1. Len(p) \in Nat
      BY <1>1
    <3>2. QED
      BY <1>2, <3>1
  <2>3. QED
    BY <2>1, <2>2
<1> HIDE DEF q
<1>5. ASSUME NEW y \in DOMAIN v
      PROVE  Above(y, q) <=> Above(y, p) \/ y = p
  BY <1>1, <1>3, <1>4 DEF Above
<1>6. ASSUME NEW y \in DOMAIN v, Earlier(v, y, q)
      PROVE  \/ Earlier(v, y, p)
             \/ \E i \in DOMAIN Sorted : /\ i < j /\ MemberPath(p, Sorted[i]) \in DOMAIN v
                                         /\ IsPrefix(MemberPath(p, Sorted[i]), y)
  <2>1. PICK r \in DOMAIN v, k \in DOMAIN Sorted, i \in DOMAIN Sorted :
          i < k /\ IsPrefix(MemberPath(r, Sorted[k]), q) /\ IsPrefix(MemberPath(r, Sorted[i]), y)
    BY <1>6 DEF Earlier
  <2>2. /\ r \in Path /\ MemberPath(r, Sorted[k]) \in Path /\ Front(MemberPath(r, Sorted[k])) = r
        /\ MemberPath(r, Sorted[i]) \in Path
    BY <1>1, MemberIs
  <2>3. CASE IsPrefix(MemberPath(r, Sorted[k]), p)
    <3>1. Earlier(v, y, p)
      BY <2>1, <2>3 DEF Earlier
    <3>2. QED
      BY <3>1
  <2>4. CASE MemberPath(r, Sorted[k]) = q
    <3>1. r = p
      BY <1>2, <2>2, <2>4
    <3>2. k = j
      BY <1>1, <2>4, <3>1, MemberIs DEF q
    <3>3. MemberPath(p, Sorted[i]) \in DOMAIN v
      BY <1>1, <2>1, <2>2, <3>1, TreePaths
    <3>4. QED
      BY <2>1, <3>1, <3>2, <3>3
  <2>5. QED
    BY <1>3, <2>1, <2>2, <2>3, <2>4
<1>7. ASSUME NEW y \in DOMAIN v, Earlier(v, y, p)
      PROVE  Earlier(v, y, q)
  <2>1. PICK r \in DOMAIN v, k \in DOMAIN Sorted, i \in DOMAIN Sorted :
          i < k /\ IsPrefix(MemberPath(r, Sorted[k]), p) /\ IsPrefix(MemberPath(r, Sorted[i]), y)
    BY <1>7 DEF Earlier
  <2>2. IsPrefix(MemberPath(r, Sorted[k]), q)
    <3>1. MemberPath(r, Sorted[k]) \in Path
      BY <1>1, MemberIs
    <3>2. QED
      BY <1>3, <2>1, <3>1
  <2>3. QED
    BY <2>1, <2>2 DEF Earlier
<1>8. ASSUME NEW y \in DOMAIN v, NEW i \in DOMAIN Sorted, i < j, IsPrefix(MemberPath(p, Sorted[i]), y)
      PROVE  Earlier(v, y, q)
  <2>1. IsPrefix(q, q)
    BY <1>2, PathOrder
  <2>2. QED
    BY <1>8, <2>1 DEF Earlier, q
<1>9. x \in Before(v, q) => x \in DOMAIN v
  BY DEF Before
<1>10. x \in Before(v, p) \/ x = p => x \in DOMAIN v
  BY DEF Before
<1>11. ASSUME x \in DOMAIN v
       PROVE  x \in Before(v, q) <=>
                \/ x \in Before(v, p) \/ x = p
                \/ \E i \in DOMAIN Sorted : /\ i < j /\ MemberPath(p, Sorted[i]) \in DOMAIN v
                                            /\ IsPrefix(MemberPath(p, Sorted[i]), x)
  <2>1. x \in Before(v, q) <=> Above(x, q) \/ Earlier(v, x, q)
    BY <1>11 DEF Before
  <2>2. x \in Before(v, p) <=> Above(x, p) \/ Earlier(v, x, p)
    BY <1>11 DEF Before
  <2>3. QED
    BY <1>5, <1>6, <1>7, <1>8, <1>11, <2>1, <2>2
<1>12. QED
  BY <1>9, <1>10, <1>11 DEF q

\* Before the first member come the values it is in.
LEMMA BeforeFirst ==
  ASSUME NEW v, Written(v), NEW p \in DOMAIN v, NEW j, NextIs(v, p, 0, j)
  PROVE  Before(v, MemberPath(p, Sorted[j])) \subseteq Before(v, p) \cup {p}
<1>1. j \in DOMAIN Sorted /\ MemberPath(p, Sorted[j]) \in DOMAIN v
  BY DEF NextIs
<1>2. \A i \in DOMAIN Sorted : i > 0
  BY StatusAssumption
<1>3. \A i \in DOMAIN Sorted : ~(i < j /\ MemberPath(p, Sorted[i]) \in DOMAIN v)
  BY <1>2 DEF NextIs
<1>4. QED
  BY <1>1, <1>3, BeforeMember

\* Before the next member come what comes before this one, and this one.
LEMMA BeforeNext ==
  ASSUME NEW v, Written(v), NEW p \in DOMAIN v, NEW k \in DOMAIN Sorted,
         MemberPath(p, Sorted[k]) \in DOMAIN v, NEW j, NextIs(v, p, k, j)
  PROVE  Before(v, MemberPath(p, Sorted[j]))
           \subseteq Before(v, MemberPath(p, Sorted[k])) \cup Under(v, MemberPath(p, Sorted[k]))
<1>1. j \in DOMAIN Sorted /\ MemberPath(p, Sorted[j]) \in DOMAIN v
  BY DEF NextIs
<1>2. DOMAIN Sorted \subseteq Nat
  BY StatusAssumption
<1>3. \A i \in DOMAIN Sorted : i < j /\ MemberPath(p, Sorted[i]) \in DOMAIN v => i < k \/ i = k
  BY <1>1, <1>2 DEF NextIs
<1>4. ASSUME NEW x \in Before(v, MemberPath(p, Sorted[j]))
      PROVE  x \in Before(v, MemberPath(p, Sorted[k])) \cup Under(v, MemberPath(p, Sorted[k]))
  <2>1. CASE x \in Before(v, p) \/ x = p
    BY <2>1, BeforeMember
  <2>2. ASSUME x \in DOMAIN v, NEW i \in DOMAIN Sorted, i < j, MemberPath(p, Sorted[i]) \in DOMAIN v,
               IsPrefix(MemberPath(p, Sorted[i]), x)
        PROVE  x \in Before(v, MemberPath(p, Sorted[k])) \cup Under(v, MemberPath(p, Sorted[k]))
    <3>1. i < k \/ i = k
      BY <1>3, <2>2
    <3>2. CASE i < k
      BY <2>2, <3>2, BeforeMember
    <3>3. CASE i = k
      BY <2>2, <3>3 DEF Under
    <3>4. QED
      BY <3>1, <3>2, <3>3
  <2>3. QED
    BY <1>1, <1>4, <2>1, <2>2, BeforeMember
<1>5. QED
  BY <1>4

\* With the last member the value it is in is written.
LEMMA BeforeEnd ==
  ASSUME NEW v, Written(v), NEW p \in DOMAIN v, NEW k \in DOMAIN Sorted,
         MemberPath(p, Sorted[k]) \in DOMAIN v, NoMore(v, p, k)
  PROVE  Before(v, p) \cup Under(v, p)
           \subseteq Before(v, MemberPath(p, Sorted[k])) \cup Under(v, MemberPath(p, Sorted[k]))
<1>1. ASSUME NEW x \in Under(v, p), x # p
      PROVE  x \in Before(v, MemberPath(p, Sorted[k])) \cup Under(v, MemberPath(p, Sorted[k]))
  <2>1. x \in DOMAIN v /\ IsPrefix(p, x)
    BY <1>1 DEF Under
  <2>2. PICK i \in DOMAIN Sorted : MemberPath(p, Sorted[i]) \in DOMAIN v /\ IsPrefix(MemberPath(p, Sorted[i]), x)
    BY <1>1, <2>1, InMember
  <2>3. i < k \/ i = k
    <3>1. ~(i > k)
      BY <2>2 DEF NoMore
    <3>2. i \in Nat /\ k \in Nat
      BY StatusAssumption
    <3>3. QED
      BY <3>1, <3>2
  <2>4. CASE i < k
    BY <2>1, <2>2, <2>4, BeforeMember
  <2>5. CASE i = k
    BY <2>1, <2>2, <2>5 DEF Under
  <2>6. QED
    BY <2>3, <2>4, <2>5
<1>2. ASSUME NEW x \in Before(v, p) \cup {p}
      PROVE  x \in Before(v, MemberPath(p, Sorted[k]))
  BY BeforeMember
<1>3. QED
  BY <1>1, <1>2

\* In a value without members there is nothing else.
LEMMA NothingIn ==
  ASSUME NEW v, Written(v), NEW p \in DOMAIN v, NoMore(v, p, 0) \/ v[p].type # "object"
  PROVE  Under(v, p) = {p}
<1>1. p \in Path
  BY WrittenIs
<1>2. p \in Under(v, p)
  BY <1>1, PathOrder DEF Under
<1>3. ASSUME NEW x \in Under(v, p), x # p
      PROVE  FALSE
  <2>1. x \in DOMAIN v /\ IsPrefix(p, x)
    BY <1>3 DEF Under
  <2>2. PICK i \in DOMAIN Sorted : MemberPath(p, Sorted[i]) \in DOMAIN v
    BY <1>3, <2>1, InMember
  <2>3. v[p].type = "object"
    <3>1. MemberPath(p, Sorted[i]) # <<>> /\ Front(MemberPath(p, Sorted[i])) = p
      BY <1>1, MemberIs
    <3>2. QED
      BY <2>2, <3>1, WrittenIs
  <2>4. i > 0
    BY StatusAssumption
  <2>5. QED
    BY <2>2, <2>3, <2>4 DEF NoMore
<1>4. QED
  BY <1>2, <1>3

\* Everything is in the root.
LEMMA AllInRoot ==
  ASSUME NEW v, Written(v)
  PROVE  Under(v, <<>>) = DOMAIN v /\ Before(v, <<>>) = {}
<1>1. \A x \in DOMAIN v : x \in Path
  BY WrittenIs
<1>2. \A x \in DOMAIN v : IsPrefix(<<>>, x)
  BY <1>1, PathOrder
<1>3. <<>> \in DOMAIN v
  BY WrittenIs
<1>4. \A x \in Before(v, <<>>) : FALSE
  BY <1>2, <1>3, NotBefore
<1>5. QED
  BY <1>2, <1>4 DEF Under

\* The value that is built is right at these paths, and at other paths of v it
\* may be anything.
Built(T, v, W) == W \subseteq DOMAIN T /\ DOMAIN T \subseteq DOMAIN v /\ \A x \in W : T[x] = v[x]

\* The containers that are open are those that the value at q is in.
Below(rs, q) == IF q = <<>> THEN rs = <<>> ELSE rs # <<>> /\ Last(rs) = Front(q)

\* Where the parser is when rem is what it has yet to read of the text.
AtValue(v, d, A, rem) ==
  \E q \in DOMAIN v : /\ Below(ref_stack, q) /\ rem = FromValue(d, A, q)
                      /\ q # <<>> => object_element = q
                      /\ Built(tree, v, Before(v, q))
AtObject(v, S, A, rem) ==
  \E p \in DOMAIN v : /\ v[p].type = "object" /\ ref_stack # <<>> /\ Back = p
                      /\ rem = FromMembers(S, A, p)
                      /\ Built(tree, v, Before(v, p) \cup {p})
AtColon(v, d, A, rem) ==
  \E q \in DOMAIN v : /\ q # <<>> /\ Below(ref_stack, q) /\ rem = FromColon(d, A, q)
                      /\ object_element = q
                      /\ Built(tree, v, Before(v, q))
AtName(v, d, A, rem) ==
  \E p \in DOMAIN v, j \in DOMAIN Sorted :
    /\ MemberPath(p, Sorted[j]) \in DOMAIN v /\ ref_stack # <<>> /\ Back = p
    /\ rem = FromName(d, A, p, j)
    /\ Built(tree, v, Before(v, MemberPath(p, Sorted[j])))
AtEvaluate(v, A, rem) ==
  \E q \in DOMAIN v : /\ Below(ref_stack, q) /\ rem = A[q]
                      /\ Built(tree, v, Before(v, q) \cup Under(v, q))

Along(v, d, S, A, rem) ==
  /\ at \in {"value", "object", "first_separator", "separator", "key", "evaluate", "accepted"}
  /\ at = "value" => AtValue(v, d, A, rem)
  /\ at = "object" => AtObject(v, S, A, rem)
  /\ at \in {"first_separator", "separator"} => AtColon(v, d, A, rem)
  /\ at = "key" => AtName(v, d, A, rem)
  /\ at = "evaluate" => AtEvaluate(v, A, rem)
  /\ at = "accepted" => rem = <<>> /\ Built(tree, v, DOMAIN v)

\* A text that begins with a token.
LEMMA ConsIs ==
  ASSUME NEW c \in Token, NEW s \in Texts
  PROVE  <<c>> \o s # <<>> /\ Head(<<c>> \o s) = c /\ Tail(<<c>> \o s) = s
<1>1. s \in Seq(Token) /\ <<c>> \in Seq(Token)
  BY DEF Texts
<1>2. Len(<<c>> \o s) = 1 + Len(s) /\ <<c>> \o s \in Seq(Token) /\ Len(s) \in Nat
  BY <1>1
<1>3. (<<c>> \o s)[1] = c
  BY <1>1
<1>4. <<c>> \o s # <<>> /\ Head(<<c>> \o s) = c
  BY <1>2, <1>3
<1>5. Tail(<<c>> \o s) = s
  <2>1. Tail(<<c>> \o s) \in Seq(Token) /\ Len(Tail(<<c>> \o s)) = Len(s)
    BY <1>2, <1>4
  <2>2. \A i \in 1..Len(s) : Tail(<<c>> \o s)[i] = s[i]
    BY <1>1, <1>2
  <2>3. QED
    BY <1>1, <2>1, <2>2
<1>6. QED
  BY <1>4, <1>5

\* The containers around a container that ends.
LEMMA PopBelow ==
  ASSUME NEW T, IsTree(T), NEW rs, StackIn(T, rs), rs # <<>>
  PROVE  Below(Front(rs), Last(rs))
<1>1. rs \in Seq(DOMAIN T) /\ rs \in Seq(Path)
  BY DEF StackIn, IsTree, TreeAt
<1>2. /\ Len(rs) \in Nat /\ Len(rs) >= 1 /\ Last(rs) = rs[Len(rs)] /\ Last(rs) \in DOMAIN T
      /\ Front(rs) \in Seq(DOMAIN T) /\ Len(Front(rs)) = Len(rs) - 1
      /\ \A j \in 1..Len(rs) - 1 : Front(rs)[j] = rs[j]
  BY <1>1, FrontIs
<1>3. Last(rs) \in Path /\ Len(Last(rs)) = Len(rs) - 1
  BY <1>1, <1>2 DEF StackIn, IsTree, TreeAt
<1>4. CASE Last(rs) = <<>>
  <2>1. Len(Front(rs)) = 0
    BY <1>2, <1>3, <1>4
  <2>2. Front(rs) = <<>>
    BY <1>2, <2>1
  <2>3. QED
    BY <1>4, <2>2 DEF Below
<1>5. CASE Last(rs) # <<>>
  <2>1. Len(Last(rs)) # 0
    BY <1>3, <1>5, PathIs, SMTT(20)
  <2>2. Len(rs) \in 2..Len(rs) /\ Len(rs) - 1 \in 1..Len(rs) - 1
    BY <1>2, <1>3, <2>1
  <2>3. rs[Len(rs)] \in Kids(T, rs[Len(rs) - 1])
    BY <2>2 DEF StackIn
  <2>4. rs[Len(rs) - 1] \in Path
    BY <1>1, <1>2, <2>2
  <2>5. Front(Last(rs)) = rs[Len(rs) - 1]
    BY <1>2, <2>3, <2>4, KidsAre
  <2>6. Front(rs) # <<>>
    BY <1>2, <2>2
  <2>7. Last(Front(rs)) = Front(rs)[Len(rs) - 1]
    BY <1>2 DEF Last
  <2>8. QED
    BY <1>2, <1>5, <2>2, <2>5, <2>6, <2>7 DEF Below
<1>6. QED
  BY <1>4, <1>5

\* What a value is in is written before it.
LEMMA FrontBefore ==
  ASSUME NEW v, Written(v), NEW q \in DOMAIN v, q # <<>>
  PROVE  Front(q) \in Before(v, q) /\ v[Front(q)].type = "object"
<1>1. Front(q) \in DOMAIN v /\ v[Front(q)].type = "object"
  BY WrittenIs
<1>2. IsPrefix(Front(q), q) /\ Len(Front(q)) = Len(q) - 1 /\ Len(q) \in Nat
  BY TreePaths DEF Written
<1>3. QED
  BY <1>1, <1>2 DEF Before, Above

\* handle_value puts the value where it belongs.
LEMMA SlotAlong ==
  ASSUME NEW v, Written(v), NEW q \in DOMAIN v, Below(ref_stack, q), q # <<>> => object_element = q,
         Built(tree, v, Before(v, q))
  PROVE  Slot = q
<1>1. CASE q = <<>>
  BY <1>1, Zenon DEF Slot, Below
<1>2. CASE q # <<>>
  <2>1. ref_stack # <<>> /\ Back = Front(q)
    BY <1>2 DEF Below, Back
  <2>2. Front(q) \in Before(v, q) /\ v[Front(q)].type = "object"
    BY <1>2, FrontBefore
  <2>3. tree[Back].type = "object"
    BY <2>1, <2>2 DEF Built
  <2>4. tree[Back].type # "array"
    BY <2>3
  <2>5. QED
    BY <1>2, <2>1, <2>4, Zenon DEF Slot
<1>3. QED
  BY <1>1, <1>2

\* The value that is put is one more.
LEMMA BuiltPut ==
  ASSUME NEW v, Written(v), NEW q \in DOMAIN v, NEW T, Built(T, v, Before(v, q))
  PROVE  Built(Put(T, q, v[q]), v, Before(v, q) \cup {q})
<1> DEFINE n == v[q]
           U == Put(T, q, n)
<1> HIDE DEF n, U
<1>1. /\ DOMAIN U = (DOMAIN T \ Under(T, q)) \cup {q} /\ U[q] = n
      /\ \A x \in DOMAIN U : x # q => U[x] = T[x]
  <2>1. /\ DOMAIN Put(T, q, n) = (DOMAIN T \ Under(T, q)) \cup {q}
        /\ Put(T, q, n)[q] = n
        /\ \A x \in DOMAIN Put(T, q, n) :
             x # q => Put(T, q, n)[x] = T[x] /\ x \in DOMAIN T /\ ~IsPrefix(q, x)
    BY Zenon, PutIs
  <2>2. QED
    BY <2>1, Zenon DEF U
<1>2. ASSUME NEW x \in Before(v, q)
      PROVE  x \in DOMAIN U /\ U[x] = v[x]
  <2>1. x \in DOMAIN T /\ T[x] = v[x]
    BY DEF Built
  <2>2. x \notin Under(T, q)
    BY NotBefore DEF Under
  <2>3. QED
    BY <1>1, <2>1, <2>2 DEF n
<1>3. DOMAIN U \subseteq DOMAIN v
  BY <1>1 DEF Built
<1>4. QED
  BY <1>1, <1>2, <1>3 DEF Built, U, n

\* A key adds a null, or nothing.
LEMMA BuiltKey ==
  ASSUME NEW v, NEW W, NEW q \in DOMAIN v, Built(tree, v, W),
         tree' = [x \in DOMAIN tree \cup {q} |-> IF x \in DOMAIN tree THEN tree[x] ELSE Null],
         NEW X, X \subseteq W
  PROVE  Built(tree', v, X)
BY DEF Built

\* Where less is right.
LEMMA BuiltLess ==
  ASSUME NEW T, NEW v, NEW W, NEW X, Built(T, v, W), X \subseteq W
  PROVE  Built(T, v, X)
BY DEF Built

\* A text of a first token and what follows it.
StartsWith(rem, c, more) == rem # <<>> /\ Head(rem) = c /\ Tail(rem) = more

\* The next token, at each place.
ValueNext(v, d, S, A, p) ==
  /\ v[p].type # "object" => StartsWith(FromValue(d, A, p), v[p], A[p])
  /\ v[p].type = "object" => StartsWith(FromValue(d, A, p), Begin, FromMembers(S, A, p))
MembersNext(v, d, A, p, k, rem) ==
  \/ NoMore(v, p, k) /\ StartsWith(rem, Finish, A[p])
  \/ \E j : NextIs(v, p, k, j) /\ StartsWith(rem, Name(j), FromColon(d, A, MemberPath(p, Sorted[j])))
MoreNext(v, d, A, p, k) ==
  \/ NoMore(v, p, k) /\ StartsWith(A[MemberPath(p, Sorted[k])], Finish, A[p])
  \/ \E j : NextIs(v, p, k, j) /\ StartsWith(A[MemberPath(p, Sorted[k])], Comma, FromName(d, A, p, j))

\* Each of them: a colon,
LEMMA ColonAhead ==
  ASSUME NEW v, NEW d, NEW S, NEW A, Arranged(v, d, S, A), Written(v), NEW q \in DOMAIN v
  PROVE  StartsWith(FromColon(d, A, q), Colon, FromValue(d, A, q))
BY FromTypes, SignsAre, ConsIs DEF StartsWith, FromColon

\* a key,
LEMMA NameAhead ==
  ASSUME NEW v, NEW d, NEW S, NEW A, Arranged(v, d, S, A), Written(v), NEW p \in DOMAIN v,
         NEW j \in DOMAIN Sorted, MemberPath(p, Sorted[j]) \in DOMAIN v
  PROVE  StartsWith(FromName(d, A, p, j), Name(j), FromColon(d, A, MemberPath(p, Sorted[j])))
<1>1. FromColon(d, A, MemberPath(p, Sorted[j])) \in Texts
  BY FromTypes
<1>2. QED
  BY <1>1, SignsAre, ConsIs DEF StartsWith, FromName

\* a leaf or a brace,
LEMMA ValueAhead ==
  ASSUME NEW v, NEW d, NEW S, NEW A, Arranged(v, d, S, A), Written(v), NEW p \in DOMAIN v
  PROVE  ValueNext(v, d, S, A, p)
<1>1. CASE v[p].type # "object"
  <2>1. v[p] \in Token /\ A[p] \in Texts
    BY <1>1, WrittenIs, FromTypes
  <2>2. FromValue(d, A, p) = <<v[p]>> \o A[p]
    BY <1>1, LeafText
  <2>3. QED
    BY <1>1, <2>1, <2>2, ConsIs DEF ValueNext, StartsWith
<1>2. CASE v[p].type = "object"
  <2>1. Begin \in Token /\ FromMembers(S, A, p) \in Texts
    BY <1>2, SignsAre, FromTypes
  <2>2. FromValue(d, A, p) = <<Begin>> \o FromMembers(S, A, p)
    BY <1>2, ObjectText
  <2>3. QED
    BY <1>2, <2>1, <2>2, ConsIs DEF ValueNext, StartsWith
<1>3. QED
  BY <1>1, <1>2

\* the end of an object,
LEMMA EndAhead ==
  ASSUME NEW v, NEW d, NEW S, NEW A, Arranged(v, d, S, A), Written(v), NEW p \in DOMAIN v
  PROVE  StartsWith(FromEnd(A, p), Finish, A[p])
BY FromTypes, SignsAre, ConsIs DEF StartsWith, FromEnd

\* its end or its first member,
LEMMA MembersAhead ==
  ASSUME NEW v, NEW d, NEW S, NEW A, Arranged(v, d, S, A), Written(v), NEW p \in DOMAIN v,
         v[p].type = "object"
  PROVE  MembersNext(v, d, A, p, 0, FromMembers(S, A, p))
<1>1. CASE NoMore(v, p, 0) /\ FromMembers(S, A, p) = FromEnd(A, p)
  BY <1>1, EndAhead, Zenon DEF MembersNext
<1>2. ASSUME NEW j, NextIs(v, p, 0, j), FromMembers(S, A, p) = FromName(d, A, p, j)
      PROVE  MembersNext(v, d, A, p, 0, FromMembers(S, A, p))
  <2>1. j \in DOMAIN Sorted /\ MemberPath(p, Sorted[j]) \in DOMAIN v
    BY <1>2 DEF NextIs
  <2>2. StartsWith(FromName(d, A, p, j), Name(j), FromColon(d, A, MemberPath(p, Sorted[j])))
    BY <2>1, NameAhead
  <2>3. QED
    BY <1>2, <2>2, Zenon DEF MembersNext
<1>3. QED
  BY <1>1, <1>2, MembersText, Zenon

\* and its end or a comma.
LEMMA MoreAhead ==
  ASSUME NEW v, NEW d, NEW S, NEW A, Arranged(v, d, S, A), Written(v), NEW p \in DOMAIN v,
         NEW k \in DOMAIN Sorted, MemberPath(p, Sorted[k]) \in DOMAIN v
  PROVE  MoreNext(v, d, A, p, k)
<1>1. CASE NoMore(v, p, k) /\ A[MemberPath(p, Sorted[k])] = FromEnd(A, p)
  BY <1>1, EndAhead, Zenon DEF MoreNext
<1>2. ASSUME NEW j, NextIs(v, p, k, j), A[MemberPath(p, Sorted[k])] = <<Comma>> \o FromName(d, A, p, j)
      PROVE  MoreNext(v, d, A, p, k)
  <2>1. j \in DOMAIN Sorted /\ MemberPath(p, Sorted[j]) \in DOMAIN v
    BY <1>2 DEF NextIs
  <2>2. FromName(d, A, p, j) \in Texts
    BY <2>1, FromTypes
  <2>3. StartsWith(A[MemberPath(p, Sorted[k])], Comma, FromName(d, A, p, j))
    BY <1>2, <2>2, SignsAre, ConsIs DEF StartsWith
  <2>4. QED
    BY <1>2, <2>3, Zenon DEF MoreNext
<1>3. QED
  BY <1>1, <1>2, MoreText, Zenon

\* Behind the root nothing follows.
LEMMA NothingBehindRoot ==
  ASSUME NEW v, NEW d, NEW S, NEW A, Arranged(v, d, S, A), Written(v)
  PROVE  A[<<>>] = <<>>
<1>1. <<>> \in DOMAIN v
  BY WrittenIs
<1>2. A[<<>>] = Following(A, S, <<>>)
  BY <1>1 DEF Arranged
<1>3. QED
  BY <1>2, Zenon DEF Following

\* What is left is a text, and it is nothing only behind the root.
LEMMA Ahead ==
  ASSUME NEW v, NEW d, NEW S, NEW A, Arranged(v, d, S, A), Written(v), ReadInv, PtrInv,
         NEW rem, Along(v, d, S, A, rem), at # "accepted"
  PROVE  /\ rem \in Texts
         /\ rem = <<>> <=> at = "evaluate" /\ states = <<>>
         /\ rem # <<>> /\ Head(rem).type = "unsigned" => at = "value" /\ ref_stack # <<>>
<1> USE DEF StartsWith
<1>1. CASE at = "value"
  <2>1. PICK q \in DOMAIN v : Below(ref_stack, q) /\ rem = FromValue(d, A, q)
    BY <1>1 DEF Along, AtValue
  <2>2. rem \in Texts /\ ValueNext(v, d, S, A, q)
    BY <2>1, FromTypes, ValueAhead
  <2>3. rem # <<>>
    BY <2>1, <2>2 DEF ValueNext
  <2>4. ASSUME ref_stack = <<>>
        PROVE  Head(rem).type # "unsigned"
    <3>1. q = <<>> /\ v[q] = Tok("object") /\ Tok("object").type = "object"
      BY <2>1, <2>4, NodeIs DEF Below, Written
    <3>2. Head(rem) = Begin
      BY <2>1, <2>2, <3>1 DEF ValueNext
    <3>3. QED
      BY <3>2, SignsAre
  <2>5. QED
    BY <1>1, <2>2, <2>3, <2>4
<1>2. CASE at = "object"
  <2>1. PICK p \in DOMAIN v : v[p].type = "object" /\ rem = FromMembers(S, A, p)
    BY <1>2 DEF Along, AtObject
  <2>2. rem \in Texts /\ MembersNext(v, d, A, p, 0, rem)
    BY <2>1, FromTypes, MembersAhead
  <2>3. rem # <<>> /\ (Head(rem) = Finish \/ \E j \in DOMAIN Sorted : Head(rem) = Name(j))
    BY <2>2 DEF MembersNext, NextIs
  <2>4. QED
    BY <1>2, <2>2, <2>3, SignsAre
<1>3. CASE at \in {"first_separator", "separator"}
  <2>1. PICK q \in DOMAIN v : rem = FromColon(d, A, q)
    BY <1>3 DEF Along, AtColon
  <2>2. rem \in Texts /\ rem # <<>> /\ Head(rem) = Colon
    BY <2>1, FromTypes, ColonAhead
  <2>3. QED
    BY <1>3, <2>2, SignsAre
<1>4. CASE at = "key"
  <2>1. PICK p \in DOMAIN v, j \in DOMAIN Sorted : MemberPath(p, Sorted[j]) \in DOMAIN v /\ rem = FromName(d, A, p, j)
    BY <1>4 DEF Along, AtName
  <2>2. rem \in Texts /\ rem # <<>> /\ Head(rem) = Name(j)
    BY <2>1, FromTypes, NameAhead
  <2>3. QED
    BY <1>4, <2>2, SignsAre
<1>5. CASE at = "evaluate"
  <2>1. PICK q \in DOMAIN v : Below(ref_stack, q) /\ rem = A[q]
    BY <1>5 DEF Along, AtEvaluate
  <2>2. rem \in Texts
    BY <2>1, FromTypes
  <2>3. ref_stack = <<>> <=> states = <<>>
    <3>1. Entered = states /\ states \in Stacks
      BY <1>5 DEF Entered, ReadInv
    <3>2. QED
      BY <1>5, <3>1, BackIs DEF PtrInv
  <2>4. CASE q = <<>>
    <3>1. rem = <<>> /\ ref_stack = <<>>
      BY <2>1, <2>4, NothingBehindRoot DEF Below
    <3>2. QED
      BY <1>5, <2>2, <2>3, <3>1
  <2>5. CASE q # <<>>
    <3>1. ref_stack # <<>>
      BY <2>1, <2>5 DEF Below
    <3>2. PICK k \in DOMAIN Sorted : q = MemberPath(Front(q), Sorted[k])
      BY <2>5, WrittenIs
    <3>3. MoreNext(v, d, A, Front(q), k)
      BY <2>5, <3>2, MoreAhead, WrittenIs
    <3>4. rem # <<>> /\ (Head(rem) = Finish \/ Head(rem) = Comma)
      BY <2>1, <3>2, <3>3 DEF MoreNext
    <3>5. QED
      BY <1>5, <2>2, <2>3, <3>1, <3>4, SignsAre
  <2>6. QED
    BY <2>4, <2>5
<1>6. QED
  BY <1>1, <1>2, <1>3, <1>4, <1>5 DEF Along

\* A container on top of the others.
LEMMA PushIs ==
  ASSUME NEW S, NEW rs \in Seq(S), NEW q
  PROVE  Append(rs, q) # <<>> /\ Last(Append(rs, q)) = q
<1>1. /\ Append(rs, q) \in Seq(S \cup {q}) /\ Len(Append(rs, q)) = Len(rs) + 1 /\ Len(rs) \in Nat
      /\ Append(rs, q)[Len(rs) + 1] = q
  BY Extended
<1>2. Append(rs, q) # <<>>
  <2>1. rs \in Seq(S \cup {q}) /\ q \in S \cup {q}
    OBVIOUS
  <2>2. QED
    BY <2>1, AppendIs
<1>3. QED
  BY <1>1, <1>2 DEF Last

\* Each step takes the next token of the text, and is where it has to be behind it.
LEMMA AlongValue ==
  ASSUME NEW v, NEW d, NEW S, NEW A, Arranged(v, d, S, A), Written(v), ReadInv, PtrInv,
         NEW rem, Along(v, d, S, A, rem), Value, t = Head(rem)
  PROVE  Along(v, d, S, A, Tail(rem))'
<1>1. at = "value" /\ Switch /\ ref_stack \in Seq(DOMAIN tree)
  BY TookToken DEF Value, PtrInv, StackIn
<1>2. PICK q \in DOMAIN v : /\ Below(ref_stack, q) /\ rem = FromValue(d, A, q)
                            /\ q # <<>> => object_element = q
                            /\ Built(tree, v, Before(v, q))
  BY <1>1 DEF Along, AtValue
<1>3. ValueNext(v, d, S, A, q) /\ Slot = q
  BY <1>2, ValueAhead, SlotAlong
<1>4. CASE v[q].type = "object"
  <2>1. t = Begin /\ Tail(rem) = FromMembers(S, A, q)
    BY <1>2, <1>3, <1>4 DEF ValueNext, StartsWith
  <2>2. t.type = "begin_object"
    BY <2>1, SignsAre
  <2>3. start("object") /\ at' = "object"
    BY <1>1, <2>2 DEF Switch, Scalars, Overflows
  <2>4. tree' = Put(tree, q, v[q]) /\ ref_stack' = Append(ref_stack, q)
    <3>1. v[q] = Tok("object")
      BY <1>4, WrittenIs
    <3>2. QED
      BY <1>3, <2>3, <3>1, HandlePuts DEF start
  <2>5. Built(tree', v, Before(v, q) \cup {q})
    BY <1>2, <2>4, BuiltPut
  <2>6. ref_stack' # <<>> /\ Back' = q
    BY <1>1, <2>4, PushIs DEF Back
  <2>7. AtObject(v, S, A, Tail(rem))'
    BY <1>4, <2>1, <2>5, <2>6, Zenon DEF AtObject
  <2>8. QED
    BY <2>3, <2>7 DEF Along
<1>5. CASE v[q].type # "object"
  <2>1. t = v[q] /\ Tail(rem) = A[q]
    BY <1>2, <1>3, <1>5 DEF ValueNext, StartsWith
  <2>2. t \in Leaves
    BY <1>5, <2>1, WrittenIs
  <2>3. handle_value(t) /\ at' = "evaluate" /\ ref_stack' = ref_stack
    BY <1>1, <2>2 DEF Switch, Scalars, Leaves, Overflows
  <2>4. tree' = Put(tree, q, v[q])
    BY <1>3, <2>1, <2>3, HandlePuts
  <2>5. Built(tree', v, Before(v, q) \cup {q})
    BY <1>2, <2>4, BuiltPut
  <2>6. Under(v, q) = {q}
    BY <1>5, NothingIn
  <2>7. Built(tree', v, Before(v, q) \cup Under(v, q))
    BY <2>5, <2>6, Zenon
  <2>8. AtEvaluate(v, A, Tail(rem))'
    BY <1>2, <2>1, <2>3, <2>7, Zenon DEF AtEvaluate
  <2>9. QED
    BY <2>3, <2>8 DEF Along
<1>6. QED
  BY <1>4, <1>5

\* The object at p ends, the last on the stack.
LEMMA EndAlong ==
  ASSUME NEW v, NEW d, NEW S, NEW A, Written(v), PtrInv, NEW p \in DOMAIN v, ref_stack # <<>>, Back = p,
         end, at' = "evaluate", Built(tree, v, Before(v, p) \cup Under(v, p))
  PROVE  Along(v, d, S, A, A[p])'
<1>1. ref_stack' = Front(ref_stack) /\ tree' = tree
  BY DEF end
<1>2. Below(ref_stack', p)
  BY <1>1, PopBelow DEF PtrInv, Back
<1>3. Built(tree', v, Before(v, p) \cup Under(v, p))
  BY <1>1, Zenon
<1>4. AtEvaluate(v, A, A[p])'
  BY <1>2, <1>3, Zenon DEF AtEvaluate
<1>5. QED
  BY <1>4 DEF Along

\* A key of the object at p is read.
LEMMA KeyAlong ==
  ASSUME NEW v, NEW d, NEW S, NEW A, Written(v), NEW p \in DOMAIN v, ref_stack # <<>>, Back = p,
         NEW j \in DOMAIN Sorted, MemberPath(p, Sorted[j]) \in DOMAIN v, key(Sorted[j]),
         Built(tree, v, Before(v, MemberPath(p, Sorted[j]))), at' \in {"first_separator", "separator"}
  PROVE  Along(v, d, S, A, FromColon(d, A, MemberPath(p, Sorted[j])))'
<1> DEFINE q == MemberPath(p, Sorted[j])
<1>1. q # <<>> /\ Front(q) = p
  <2>1. p \in Path
    BY WrittenIs
  <2>2. QED
    BY <2>1, MemberIs
<1>2. Element(Sorted[j]) = q
  BY DEF Element
<1>3. object_element' = Element(Sorted[j]) /\ ref_stack' = ref_stack
  BY DEF key
<1>4. tree' = [x \in DOMAIN tree \cup {q} |-> IF x \in DOMAIN tree THEN tree[x] ELSE Null]
  BY <1>2 DEF key
<1> HIDE DEF q
<1>5. q \in DOMAIN v /\ Built(tree, v, Before(v, q))
  BY DEF q
<1>6. Built(tree', v, Before(v, q))
  BY <1>4, <1>5, BuiltKey
<1>7. Below(ref_stack', q)
  BY <1>1, <1>3 DEF Below, Back
<1>8. AtColon(v, d, A, FromColon(d, A, q))'
  BY <1>1, <1>2, <1>3, <1>5, <1>6, <1>7, Zenon DEF AtColon
<1>9. Along(v, d, S, A, FromColon(d, A, q))'
  BY <1>8 DEF Along
<1>10. QED
  BY <1>9 DEF q

\* The first key of an object, or its end.
LEMMA AlongObject ==
  ASSUME NEW v, NEW d, NEW S, NEW A, Arranged(v, d, S, A), Written(v), ReadInv, PtrInv,
         NEW rem, Along(v, d, S, A, rem), ObjectBegun, t = Head(rem)
  PROVE  Along(v, d, S, A, Tail(rem))'
<1>1. /\ at = "object"
      /\ \/ t.type = "end_object" /\ end /\ at' = "evaluate"
         \/ t.type = "string" /\ key(t.val) /\ at' = "first_separator"
         \/ t.type \notin {"end_object", "string"}
  BY TookToken DEF ObjectBegun
<1>2. PICK p \in DOMAIN v : /\ v[p].type = "object" /\ ref_stack # <<>> /\ Back = p
                            /\ rem = FromMembers(S, A, p)
                            /\ Built(tree, v, Before(v, p) \cup {p})
  BY <1>1 DEF Along, AtObject
<1>3. MembersNext(v, d, A, p, 0, rem)
  BY <1>2, MembersAhead
<1>4. CASE NoMore(v, p, 0) /\ StartsWith(rem, Finish, A[p])
  <2>1. t.type = "end_object" /\ Tail(rem) = A[p]
    BY <1>4, SignsAre DEF StartsWith
  <2>2. end /\ at' = "evaluate"
    BY <1>1, <2>1
  <2>3. Under(v, p) = {p}
    BY <1>4, NothingIn
  <2>4. Built(tree, v, Before(v, p) \cup Under(v, p))
    BY <1>2, <2>3, Zenon
  <2>5. Along(v, d, S, A, A[p])'
    BY <1>2, <2>2, <2>4, EndAlong
  <2>6. QED
    BY <2>1, <2>5, Zenon
<1>5. ASSUME NEW j, NextIs(v, p, 0, j), StartsWith(rem, Name(j), FromColon(d, A, MemberPath(p, Sorted[j])))
      PROVE  Along(v, d, S, A, Tail(rem))'
  <2>1. j \in DOMAIN Sorted /\ MemberPath(p, Sorted[j]) \in DOMAIN v
    BY <1>5 DEF NextIs
  <2>2. /\ t.type = "string" /\ t.val = Sorted[j]
        /\ Tail(rem) = FromColon(d, A, MemberPath(p, Sorted[j]))
    BY <1>5, <2>1, SignsAre DEF StartsWith
  <2>3. key(Sorted[j]) /\ at' \in {"first_separator", "separator"}
    BY <1>1, <2>2
  <2>4. Built(tree, v, Before(v, MemberPath(p, Sorted[j])))
    BY <1>2, <1>5, BeforeFirst, BuiltLess
  <2>5. Along(v, d, S, A, FromColon(d, A, MemberPath(p, Sorted[j])))'
    BY <1>2, <2>1, <2>3, <2>4, KeyAlong
  <2>6. QED
    BY <2>2, <2>5, Zenon
<1>6. QED
  BY <1>3, <1>4, <1>5, Zenon DEF MembersNext

\* The colon.
LEMMA AlongSeparator ==
  ASSUME NEW v, NEW d, NEW S, NEW A, Arranged(v, d, S, A), Written(v), ReadInv, PtrInv,
         NEW rem, Along(v, d, S, A, rem), Separator, t = Head(rem)
  PROVE  Along(v, d, S, A, Tail(rem))'
<1>1. /\ at \in {"first_separator", "separator"}
      /\ t.type = "name_separator" => at' = "value" /\ UNCHANGED domVars
  BY DEF Separator, GetToken
<1>2. PICK q \in DOMAIN v : /\ q # <<>> /\ Below(ref_stack, q) /\ rem = FromColon(d, A, q)
                            /\ object_element = q
                            /\ Built(tree, v, Before(v, q))
  BY <1>1 DEF Along, AtColon
<1>3. StartsWith(rem, Colon, FromValue(d, A, q))
  BY <1>2, ColonAhead
<1>4. t.type = "name_separator" /\ Tail(rem) = FromValue(d, A, q)
  BY <1>3, SignsAre DEF StartsWith
<1>5. at' = "value" /\ UNCHANGED <<tree, ref_stack, object_element>>
  BY <1>1, <1>4 DEF domVars
<1>6. Built(tree', v, Before(v, q)) /\ Below(ref_stack', q)
  BY <1>2, <1>5
<1>7. AtValue(v, d, A, Tail(rem))'
  BY <1>2, <1>4, <1>5, <1>6, Zenon DEF AtValue
<1>8. QED
  BY <1>5, <1>7 DEF Along

\* The next key.
LEMMA AlongKey ==
  ASSUME NEW v, NEW d, NEW S, NEW A, Arranged(v, d, S, A), Written(v), ReadInv, PtrInv,
         NEW rem, Along(v, d, S, A, rem), Key, t = Head(rem)
  PROVE  Along(v, d, S, A, Tail(rem))'
<1>1. at = "key" /\ (t.type = "string" => key(t.val) /\ at' = "separator")
  BY DEF Key, GetToken
<1>2. PICK p \in DOMAIN v, j \in DOMAIN Sorted :
        /\ MemberPath(p, Sorted[j]) \in DOMAIN v /\ ref_stack # <<>> /\ Back = p
        /\ rem = FromName(d, A, p, j)
        /\ Built(tree, v, Before(v, MemberPath(p, Sorted[j])))
  BY <1>1 DEF Along, AtName
<1>3. StartsWith(rem, Name(j), FromColon(d, A, MemberPath(p, Sorted[j])))
  BY <1>2, NameAhead
<1>4. /\ t.type = "string" /\ t.val = Sorted[j]
      /\ Tail(rem) = FromColon(d, A, MemberPath(p, Sorted[j]))
  BY <1>3, SignsAre DEF StartsWith
<1>5. key(Sorted[j]) /\ at' \in {"first_separator", "separator"}
  BY <1>1, <1>4
<1>6. Along(v, d, S, A, FromColon(d, A, MemberPath(p, Sorted[j])))'
  BY <1>2, <1>5, KeyAlong
<1>7. QED
  BY <1>4, <1>6, Zenon

\* A comma, or the end of an object.
LEMMA AlongEvaluate ==
  ASSUME NEW v, NEW d, NEW S, NEW A, Arranged(v, d, S, A), Written(v), ReadInv, PtrInv,
         NEW rem, Along(v, d, S, A, rem), Evaluate, t = Head(rem), states # <<>>
  PROVE  Along(v, d, S, A, Tail(rem))'
<1>1. /\ at = "evaluate" /\ states \in Stacks /\ Entered = states
      /\ \/ /\ t.type = "value_separator"
            /\ at' = (IF Last(states) = "array" THEN "value" ELSE "key")
            /\ UNCHANGED <<states, domVars>>
         \/ t.type \in Closer(Last(states)) /\ end /\ at' = "evaluate"
         \/ t.type \notin Closer(Last(states)) \cup {"value_separator"}
  BY DEF Evaluate, GetToken, ReadInv, Entered
<1>2. PICK q \in DOMAIN v : /\ Below(ref_stack, q) /\ rem = A[q]
                            /\ Built(tree, v, Before(v, q) \cup Under(v, q))
  BY <1>1 DEF Along, AtEvaluate
<1>3. ref_stack # <<>> /\ tree[Back].type = Last(states)
  BY <1>1, BackIs DEF PtrInv
<1>4. q # <<>> /\ Back = Front(q)
  BY <1>2, <1>3 DEF Below, Back
<1>5. PICK k \in DOMAIN Sorted : q = MemberPath(Front(q), Sorted[k])
  BY <1>4, WrittenIs
<1> DEFINE p == Front(q)
<1>6. /\ p \in DOMAIN v /\ p \in Path /\ v[p].type = "object" /\ p \in Before(v, q)
      /\ q = MemberPath(p, Sorted[k])
  BY <1>4, <1>5, FrontBefore, WrittenIs
<1> HIDE DEF p
<1>7. Last(states) = "object" /\ Back = p
  BY <1>2, <1>3, <1>4, <1>6 DEF Built, p
<1>8. Closer(Last(states)) = {"end_object"} /\ Last(states) # "array"
  BY <1>7 DEF Closer
<1>9. MoreNext(v, d, A, p, k)
  BY <1>6, MoreAhead
<1>10. CASE NoMore(v, p, k) /\ StartsWith(A[MemberPath(p, Sorted[k])], Finish, A[p])
  <2>1. t.type = "end_object" /\ Tail(rem) = A[p]
    BY <1>2, <1>6, <1>10, SignsAre DEF StartsWith
  <2>2. end /\ at' = "evaluate"
    BY <1>1, <1>8, <2>1
  <2>3. Before(v, p) \cup Under(v, p) \subseteq Before(v, q) \cup Under(v, q)
    BY <1>6, <1>10, BeforeEnd
  <2>4. Built(tree, v, Before(v, p) \cup Under(v, p))
    BY <1>2, <2>3, BuiltLess
  <2>5. Along(v, d, S, A, A[p])'
    BY <1>3, <1>6, <1>7, <2>2, <2>4, EndAlong
  <2>6. QED
    BY <2>1, <2>5, Zenon
<1>11. ASSUME NEW j, NextIs(v, p, k, j), StartsWith(A[MemberPath(p, Sorted[k])], Comma, FromName(d, A, p, j))
       PROVE  Along(v, d, S, A, Tail(rem))'
  <2>1. j \in DOMAIN Sorted /\ MemberPath(p, Sorted[j]) \in DOMAIN v
    BY <1>11 DEF NextIs
  <2>2. t.type = "value_separator" /\ Tail(rem) = FromName(d, A, p, j)
    BY <1>2, <1>6, <1>11, SignsAre DEF StartsWith
  <2>3. at' = "key" /\ UNCHANGED <<tree, ref_stack>>
    BY <1>1, <1>8, <2>2 DEF domVars
  <2>4. Before(v, MemberPath(p, Sorted[j])) \subseteq Before(v, q) \cup Under(v, q)
    BY <1>6, <1>11, BeforeNext
  <2>5. Built(tree', v, Before(v, MemberPath(p, Sorted[j])))
    BY <1>2, <2>3, <2>4, BuiltLess
  <2>6. Back' = p /\ ref_stack' # <<>>
    BY <1>3, <1>7, <2>3 DEF Back
  <2>7. AtName(v, d, A, Tail(rem))'
    BY <1>6, <2>1, <2>2, <2>5, <2>6, Zenon DEF AtName
  <2>8. QED
    BY <2>3, <2>7 DEF Along
<1>12. QED
  BY <1>9, <1>10, <1>11, Zenon DEF MoreNext

\* Every step takes a token but the one behind the value.
LEMMA StepReads ==
  ASSUME Parse
  PROVE  \/ at = "evaluate" /\ states = <<>> /\ at' = "accepted" /\ UNCHANGED <<textVars, domVars>>
         \/ /\ at = "evaluate" => states # <<>>
            /\ text' = IF text # <<>> THEN Tail(text) ELSE text
            /\ open' = open /\ at \notin {"accepted", "error"}
BY Zenon DEF Parse, Value, ObjectBegun, ArrayBegun, Separator, Key, Evaluate, GetToken

\* The parser goes on along the text, up to its end.
LEMMA AlongStep ==
  ASSUME NEW v, NEW d, NEW S, NEW A, Arranged(v, d, S, A), Written(v), ReadInv, PtrInv,
         NEW rem, Along(v, d, S, A, rem), Parse, rem # <<>> => t = Head(rem)
  PROVE  \/ rem # <<>> /\ Along(v, d, S, A, Tail(rem))'
         \/ rem = <<>> /\ Along(v, d, S, A, <<>>)' /\ UNCHANGED textVars /\ at' = "accepted"
<1>1. at # "accepted"
  <2>1. at = "accepted" => at # "evaluate"
    OBVIOUS
  <2>2. QED
    BY <2>1, StepReads, Zenon
<1>2. rem = <<>> <=> at = "evaluate" /\ states = <<>>
  BY <1>1, Ahead
<1>3. CASE rem # <<>>
  <2>1. CASE Value
    BY <1>3, <2>1, AlongValue
  <2>2. CASE ObjectBegun
    BY <1>3, <2>2, AlongObject
  <2>3. CASE ArrayBegun
    <3>1. at = "array"
      BY <2>3 DEF ArrayBegun, GetToken
    <3>2. QED
      BY <3>1 DEF Along
  <2>4. CASE Separator
    BY <1>3, <2>4, AlongSeparator
  <2>5. CASE Key
    BY <1>3, <2>5, AlongKey
  <2>6. CASE Evaluate
    <3>1. at = "evaluate"
      BY <2>6 DEF Evaluate, GetToken
    <3>2. states # <<>>
      BY <1>2, <1>3, <3>1
    <3>3. QED
      BY <1>3, <2>6, <3>2, AlongEvaluate
  <2>7. QED
    BY <2>1, <2>2, <2>3, <2>4, <2>5, <2>6 DEF Parse
<1>4. CASE rem = <<>>
  <2>1. at = "evaluate" /\ states = <<>>
    BY <1>2, <1>4
  <2>2. at' = "accepted" /\ UNCHANGED <<textVars, domVars>>
    BY <2>1, StepReads, Zenon
  <2>3. PICK q \in DOMAIN v : /\ Below(ref_stack, q)
                              /\ Built(tree, v, Before(v, q) \cup Under(v, q))
    BY <2>1 DEF Along, AtEvaluate
  <2>4. ref_stack = <<>>
    <3>1. Entered = states /\ states \in Stacks
      BY <2>1 DEF Entered, ReadInv
    <3>2. QED
      BY <2>1, <3>1, BackIs DEF PtrInv
  <2>5. q = <<>>
    BY <2>3, <2>4 DEF Below
  <2>6. Before(v, q) \cup Under(v, q) = DOMAIN v
    <3>1. Under(v, <<>>) = DOMAIN v /\ Before(v, <<>>) = {}
      BY AllInRoot
    <3>2. QED
      BY <2>5, <3>1
  <2>7. Built(tree', v, DOMAIN v)
    <3>1. tree' = tree
      BY <2>2 DEF domVars
    <3>2. QED
      BY <2>3, <2>6, <3>1, Zenon
  <2>8. Along(v, d, S, A, <<>>)'
    BY <2>2, <2>7 DEF Along
  <2>9. QED
    BY <1>4, <2>2, <2>8
<1>5. QED
  BY <1>3, <1>4

\* Where the text ends, or a token that is none, the parser is in error.
LEMMA EndIsError ==
  ASSUME Parse, at = "evaluate" => states # <<>>, states \in Stacks, t.type \in {"parse_error", "end_of_input"}
  PROVE  at' = "error"
<1>1. t.type \notin Scalars \cup {"begin_object", "begin_array", "end_object", "end_array", "string",
                                  "name_separator", "value_separator"}
  BY DEF Scalars
<1>2. ASSUME Switch
      PROVE  at' = "error"
  BY <1>1, <1>2, Zenon DEF Switch
<1>3. \A x : t.type \notin Closer(x)
  BY <1>1 DEF Closer
<1>4. CASE Value
  BY <1>2, <1>4 DEF Value
<1>5. CASE ObjectBegun
  BY <1>1, <1>5, Zenon DEF ObjectBegun, Error
<1>6. CASE ArrayBegun
  BY <1>1, <1>2, <1>6, Zenon DEF ArrayBegun
<1>7. CASE Separator
  BY <1>1, <1>7, Zenon DEF Separator, Error
<1>8. CASE Key
  BY <1>1, <1>8, Zenon DEF Key, Error
<1>9. CASE Evaluate
  BY <1>1, <1>3, <1>9, Zenon DEF Evaluate, Error
<1>10. QED
  BY <1>4, <1>5, <1>6, <1>7, <1>8, <1>9 DEF Parse

\* A number that is cut is a number, in an object that is not complete.
LEMMA CutNumber ==
  ASSUME ReadInv, PtrInv, Parse, at = "value", ref_stack # <<>>, t.type = "unsigned"
  PROVE  at' = "evaluate" /\ states' # <<>>
<1>1. Switch /\ states' = states
  BY Zenon DEF Parse, Value, ObjectBegun, ArrayBegun, Separator, Key, Evaluate, GetToken
<1>2. at' = "evaluate"
  BY <1>1 DEF Switch, Scalars, Overflows
<1>3. Entered = states /\ states \in Stacks
  BY DEF Entered, ReadInv
<1>4. states # <<>>
  BY <1>3, BackIs DEF PtrInv
<1>5. QED
  BY <1>1, <1>2, <1>4

-----------------------------------------------------------------------------
(****************************************************************************)
(* A status that was saved is loaded.                                        *)
(****************************************************************************)

\* The value that was written, read again: every field is there and has its type.
LEMMA FieldsBack ==
  ASSUME NEW s \in Statuses, tree = to_json(s)
  PROVE  /\ tree[<<>>].type = "object" /\ \A k \in StatusKeys : Has(<<>>, k)
         /\ \A k \in {"source_file", "destination_file", "checksum"} : tree[MemberPath(<<>>, k)].type = "string"
         /\ \A k \in {"total_size", "total_copied"} : tree[MemberPath(<<>>, k)].type = "unsigned"
         /\ tree[MemberPath(<<>>, "source_file")].val = s.source_file
         /\ tree[MemberPath(<<>>, "destination_file")].val = s.destination_file
         /\ tree[MemberPath(<<>>, "total_size")].val = s.total_size
         /\ tree[MemberPath(<<>>, "total_copied")].val = s.total_copied
         /\ tree[MemberPath(<<>>, "checksum")].val = s.checksum
         /\ tree[SegmentsPath].type = "object"
<1>1. /\ tree[<<>>] = Tok("object")
      /\ \A k \in StatusKeys : MemberPath(<<>>, k) \in DOMAIN tree /\ tree[MemberPath(<<>>, k)] = StatusJson(s)[k]
  BY ToJsonIs
<1>2. /\ StatusJson(s)["source_file"] = Leaf("string", s.source_file)
      /\ StatusJson(s)["destination_file"] = Leaf("string", s.destination_file)
      /\ StatusJson(s)["total_size"] = Leaf("unsigned", s.total_size)
      /\ StatusJson(s)["total_copied"] = Leaf("unsigned", s.total_copied)
      /\ StatusJson(s)["checksum"] = Leaf("string", s.checksum)
      /\ StatusJson(s)["segments"] = Tok("object")
  BY DEF StatusJson
<1>3. \A type, val : Leaf(type, val).type = type /\ Leaf(type, val).val = val
  BY DEF Leaf
<1>4. \A k \in StatusKeys : Has(<<>>, k)
  BY <1>1 DEF Has
<1>5. /\ tree[MemberPath(<<>>, "source_file")] = Leaf("string", s.source_file)
      /\ tree[MemberPath(<<>>, "destination_file")] = Leaf("string", s.destination_file)
      /\ tree[MemberPath(<<>>, "total_size")] = Leaf("unsigned", s.total_size)
      /\ tree[MemberPath(<<>>, "total_copied")] = Leaf("unsigned", s.total_copied)
      /\ tree[MemberPath(<<>>, "checksum")] = Leaf("string", s.checksum)
      /\ tree[SegmentsPath] = Tok("object")
  BY <1>1, <1>2 DEF StatusKeys, SegmentsPath
<1>6. QED
  BY <1>1, <1>3, <1>4, <1>5, NodeIs

\* So are the segments, and their fields.
LEMMA SegmentsBack ==
  ASSUME NEW s \in Statuses, tree = to_json(s)
  PROVE  /\ SegmentPaths = {SegmentPath(id) : id \in DOMAIN s.segments}
         /\ {Last(p)[2] : p \in SegmentPaths} = DOMAIN s.segments
         /\ \A id \in DOMAIN s.segments :
              LET p == SegmentPath(id) IN
              /\ tree[p].type = "object"
              /\ \A k \in {"start_byte", "end_byte", "last_copied_byte"} :
                   Has(p, k) /\ tree[MemberPath(p, k)].type = "unsigned"
              /\ Has(p, "completed") /\ tree[MemberPath(p, "completed")].type \in {"true", "false"}
              /\ SegmentOf(p) = s.segments[id]
<1>1. /\ \A p \in DOMAIN tree : \/ p = <<>>
                                \/ \E k \in StatusKeys : p = MemberPath(<<>>, k)
                                \/ \E id \in DOMAIN s.segments : p = SegmentPath(id)
                                \/ \E id \in DOMAIN s.segments : \E k \in SegmentKeys : p = MemberPath(SegmentPath(id), k)
      /\ \A id \in DOMAIN s.segments : SegmentPath(id) \in DOMAIN tree /\ tree[SegmentPath(id)] = Tok("object")
      /\ \A id \in DOMAIN s.segments : \A k \in SegmentKeys :
           /\ MemberPath(SegmentPath(id), k) \in DOMAIN tree
           /\ tree[MemberPath(SegmentPath(id), k)] = SegmentJson(s.segments[id])[k]
  BY ToJsonIs
<1>2. Len(<<>>) = 0 /\ \A k : Len(MemberPath(<<>>, k)) = 1
  BY PathsOf
<1>3. \A id : Len(SegmentPath(id)) = 2 /\ SegmentPath(id)[2] = <<"key", id>>
  BY PathsOf
<1>4. \A id, k : Len(MemberPath(SegmentPath(id), k)) = 3
  BY PathsOf
<1>5. SegmentPaths = {SegmentPath(id) : id \in DOMAIN s.segments}
  <2>1. SegmentPaths = Children(SegmentsPath)
    <3>1. Has(<<>>, "segments") /\ tree[SegmentsPath].type = "object"
      BY FieldsBack DEF StatusKeys
    <3>2. QED
      BY <3>1, Zenon DEF SegmentPaths
  <2>2. Len(SegmentsPath) + 1 = 2
    <3>1. Len(SegmentsPath) = 1
      BY <1>2, Zenon DEF SegmentsPath
    <3>2. QED
      BY <3>1
  <2>3. ASSUME NEW p \in DOMAIN tree, Len(p) = 2
        PROVE  \E id \in DOMAIN s.segments : p = SegmentPath(id)
    <3>1. p # <<>>
      BY <1>2, <2>3
    <3>2. \A k : p # MemberPath(<<>>, k)
      BY <1>2, <2>3
    <3>3. \A id, k : p # MemberPath(SegmentPath(id), k)
      <4>1. ASSUME NEW id, NEW k, p = MemberPath(SegmentPath(id), k)
            PROVE  Len(p) = 3
        BY <1>4, <4>1, Zenon
      <4>2. QED
        BY <2>3, <4>1
    <3>4. \/ p = <<>>
          \/ \E k \in StatusKeys : p = MemberPath(<<>>, k)
          \/ \E id \in DOMAIN s.segments : p = SegmentPath(id)
          \/ \E id \in DOMAIN s.segments : \E k \in SegmentKeys : p = MemberPath(SegmentPath(id), k)
      BY <1>1, Zenon
    <3>5. ~ \E k \in StatusKeys : p = MemberPath(<<>>, k)
      BY <3>2, Zenon
    <3>6. ~ \E id \in DOMAIN s.segments : \E k \in SegmentKeys : p = MemberPath(SegmentPath(id), k)
      BY <3>3, Zenon
    <3>7. QED
      BY <3>1, <3>4, <3>5, <3>6, Zenon
  <2>4. ASSUME NEW id \in DOMAIN s.segments
        PROVE  IsPrefix(SegmentsPath, SegmentPath(id))
    <3>1. PICK i \in DOMAIN Sorted : Sorted[i] = id
      BY FieldsAre, KeysSorted
    <3>2. SegmentsPath \in Path
      <4>1. PICK j \in DOMAIN Sorted : Sorted[j] = "segments"
        BY KeysSorted DEF StatusKeys
      <4>2. QED
        BY <4>1, PathIs, MemberIs DEF SegmentsPath
    <3>3. QED
      BY <3>1, <3>2, MemberIs DEF SegmentPath
  <2>5. ASSUME NEW p \in Children(SegmentsPath)
        PROVE  p \in {SegmentPath(id) : id \in DOMAIN s.segments}
    BY <2>2, <2>3 DEF Children
  <2>6. ASSUME NEW id \in DOMAIN s.segments
        PROVE  SegmentPath(id) \in Children(SegmentsPath)
    BY <1>1, <1>3, <2>2, <2>4 DEF Children
  <2>7. QED
    BY <2>1, <2>5, <2>6
<1>6. {Last(p)[2] : p \in SegmentPaths} = DOMAIN s.segments
  <2>1. \A id : Last(SegmentPath(id))[2] = id
    BY <1>3 DEF Last
  <2>2. QED
    BY <1>5, <2>1
<1>7. ASSUME NEW id \in DOMAIN s.segments
      PROVE  LET p == SegmentPath(id) IN
              /\ tree[p].type = "object"
              /\ \A k \in {"start_byte", "end_byte", "last_copied_byte"} :
                   Has(p, k) /\ tree[MemberPath(p, k)].type = "unsigned"
              /\ Has(p, "completed") /\ tree[MemberPath(p, "completed")].type \in {"true", "false"}
              /\ SegmentOf(p) = s.segments[id]
  <2> DEFINE p == SegmentPath(id)
             seg == s.segments[id]
  <2>1. /\ tree[p] = Tok("object")
        /\ \A k \in SegmentKeys : MemberPath(p, k) \in DOMAIN tree /\ tree[MemberPath(p, k)] = SegmentJson(seg)[k]
    BY <1>1
  <2>2. seg \in Segment
    BY StatusAssumption
  <2> HIDE DEF p, seg
  <2>3. /\ SegmentJson(seg)["start_byte"] = Leaf("unsigned", seg.start_byte)
        /\ SegmentJson(seg)["end_byte"] = Leaf("unsigned", seg.end_byte)
        /\ SegmentJson(seg)["last_copied_byte"] = Leaf("unsigned", seg.copied_offset_)
        /\ SegmentJson(seg)["completed"] = Tok(IF seg.completed_ THEN "true" ELSE "false")
    BY DEF SegmentJson
  <2>4. /\ \A k \in SegmentKeys : Has(p, k)
        /\ tree[MemberPath(p, "start_byte")] = Leaf("unsigned", seg.start_byte)
        /\ tree[MemberPath(p, "end_byte")] = Leaf("unsigned", seg.end_byte)
        /\ tree[MemberPath(p, "last_copied_byte")] = Leaf("unsigned", seg.copied_offset_)
        /\ tree[MemberPath(p, "completed")] = Tok(IF seg.completed_ THEN "true" ELSE "false")
    BY <2>1, <2>3 DEF SegmentKeys, Has
  <2>5. \A type, val : Leaf(type, val).type = type /\ Leaf(type, val).val = val
    BY DEF Leaf
  <2>6. \A k \in {"start_byte", "end_byte", "last_copied_byte"} :
           Has(p, k) /\ tree[MemberPath(p, k)].type = "unsigned"
    BY <2>4, <2>5 DEF SegmentKeys
  <2>7. /\ Has(p, "completed")
        /\ tree[MemberPath(p, "completed")].type = IF seg.completed_ THEN "true" ELSE "false"
    BY <2>4 DEF SegmentKeys, Tok
  <2>8. SegmentOf(p) = seg
    <3>1. \A k, default : Has(p, k) => value(p, k, default) = tree[MemberPath(p, k)].val
      BY Zenon DEF value
    <3>2. /\ value(p, "start_byte", "0") = seg.start_byte
          /\ value(p, "end_byte", "0") = seg.end_byte
          /\ value(p, "last_copied_byte", "0") = seg.copied_offset_
      BY <2>4, <2>5, <3>1 DEF SegmentKeys
    <3>3. (Has(p, "completed") /\ tree[MemberPath(p, "completed")].type = "true") = seg.completed_
      BY <2>2, <2>7 DEF Segment
    <3>4. SegmentOf(p) = [start_byte |-> seg.start_byte, end_byte |-> seg.end_byte,
                          copied_offset_ |-> seg.copied_offset_, completed_ |-> seg.completed_]
      BY <3>2, <3>3, Zenon DEF SegmentOf
    <3>5. seg = [start_byte |-> seg.start_byte, end_byte |-> seg.end_byte,
                 copied_offset_ |-> seg.copied_offset_, completed_ |-> seg.completed_]
      BY <2>2 DEF Segment
    <3>6. QED
      BY <3>4, <3>5, Zenon
  <2>9. QED
    BY <2>1, <2>6, <2>7, <2>8, NodeIs DEF p, seg
<1>8. QED
  BY <1>5, <1>6, <1>7

\* from_json gives back the status that to_json was given.
LEMMA ReadBack ==
  ASSUME NEW s \in Statuses, tree = to_json(s)
  PROVE  StatusConvertible /\ StatusOf = s
<1>1. /\ tree[<<>>].type = "object" /\ \A k \in StatusKeys : Has(<<>>, k)
      /\ \A k \in {"source_file", "destination_file", "checksum"} : tree[MemberPath(<<>>, k)].type = "string"
      /\ \A k \in {"total_size", "total_copied"} : tree[MemberPath(<<>>, k)].type = "unsigned"
      /\ tree[MemberPath(<<>>, "source_file")].val = s.source_file
      /\ tree[MemberPath(<<>>, "destination_file")].val = s.destination_file
      /\ tree[MemberPath(<<>>, "total_size")].val = s.total_size
      /\ tree[MemberPath(<<>>, "total_copied")].val = s.total_copied
      /\ tree[MemberPath(<<>>, "checksum")].val = s.checksum
  BY FieldsBack
<1>2. /\ SegmentPaths = {SegmentPath(id) : id \in DOMAIN s.segments}
      /\ {Last(p)[2] : p \in SegmentPaths} = DOMAIN s.segments
      /\ \A id \in DOMAIN s.segments :
              LET p == SegmentPath(id) IN
              /\ tree[p].type = "object"
              /\ \A k \in {"start_byte", "end_byte", "last_copied_byte"} :
                   Has(p, k) /\ tree[MemberPath(p, k)].type = "unsigned"
              /\ Has(p, "completed") /\ tree[MemberPath(p, "completed")].type \in {"true", "false"}
              /\ SegmentOf(p) = s.segments[id]
  BY SegmentsBack
<1>3. StatusConvertible
  <2>1. \A k \in {"source_file", "destination_file", "checksum"} : Convertible(<<>>, k, {"string"})
    BY <1>1 DEF Convertible
  <2>2. \A k \in {"total_size", "total_copied"} : Convertible(<<>>, k, Numeric)
    BY <1>1 DEF Convertible, Numeric
  <2>3. ASSUME NEW p \in SegmentPaths
        PROVE  /\ \A k \in {"start_byte", "end_byte", "last_copied_byte"} : Convertible(p, k, Numeric)
               /\ Convertible(p, "completed", {"true", "false"})
    BY <1>2 DEF Convertible, Numeric
  <2>4. QED
    BY <2>1, <2>2, <2>3, Zenon DEF StatusConvertible
<1>4. StatusOf = s
  <2>1. \A k, default : Has(<<>>, k) => value(<<>>, k, default) = tree[MemberPath(<<>>, k)].val
    BY Zenon DEF value
  <2>2. /\ Has(<<>>, "source_file") /\ Has(<<>>, "destination_file") /\ Has(<<>>, "checksum")
        /\ Has(<<>>, "total_size") /\ Has(<<>>, "total_copied")
    BY <1>1 DEF StatusKeys
  <2>3. /\ value(<<>>, "source_file", "") = s.source_file
        /\ value(<<>>, "destination_file", "") = s.destination_file
        /\ value(<<>>, "total_size", "0") = s.total_size
        /\ value(<<>>, "total_copied", "0") = s.total_copied
        /\ value(<<>>, "checksum", "") = s.checksum
    BY <1>1, <2>1, <2>2, Zenon
  <2>4. [id \in {Last(p)[2] : p \in SegmentPaths} |-> SegmentOf(SegmentPath(id))] = s.segments
    <3>1. s.segments = [id \in DOMAIN s.segments |-> s.segments[id]]
      BY StatusAssumption
    <3>2. [id \in DOMAIN s.segments |-> SegmentOf(SegmentPath(id))] = [id \in DOMAIN s.segments |-> s.segments[id]]
      BY <1>2
    <3>3. QED
      BY <1>2, <3>1, <3>2, Zenon
  <2>5. StatusOf = [source_file |-> s.source_file, destination_file |-> s.destination_file,
                    total_size |-> s.total_size, total_copied |-> s.total_copied,
                    checksum |-> s.checksum, segments |-> s.segments]
    BY <2>3, <2>4, Zenon DEF StatusOf
  <2>6. s = [source_file |-> s.source_file, destination_file |-> s.destination_file,
             total_size |-> s.total_size, total_copied |-> s.total_copied,
             checksum |-> s.checksum, segments |-> s.segments]
    BY StatusAssumption
  <2>7. QED
    BY <2>5, <2>6, Zenon
<1>5. QED
  BY <1>3, <1>4

\* Nothing is read of a file while it is written.
Writing(d) ==
  /\ open = TRUE /\ text = <<>> /\ loaded = <<>>
  /\ at = "value" /\ ref_stack = <<>> /\ object_element = <<>> /\ DOMAIN tree = {<<>>}
  /\ dumped \in Texts /\ rest \in Texts /\ dumped \o rest = d[<<>>]

\* A whole file is read along the text.  So is a cut one up to the token that is
\* cut; a number that is cut may be read as another one, and then the end is
\* missed.
Closed(v, d, S, A) ==
  /\ open = FALSE /\ rest \in Texts
  /\ \/ rest = <<>> /\ at # "error" /\ Along(v, d, S, A, text)
     \/ rest # <<>> /\ at = "error"
     \/ rest # <<>> /\ \E a \in Texts : \E torn \in Torn : text = a \o torn /\ Along(v, d, S, A, a \o rest)
     \/ rest # <<>> /\ text = <<>> /\ at = "evaluate" /\ states # <<>>

\* Where the file and the parser are.
FileIs ==
  \E s \in Statuses : \E d, S, A :
    /\ status = s /\ Arranged(to_json(s), d, S, A)
    /\ phase \in {"writing", "closed", "edited"}
    /\ phase = "writing" => Writing(d)
    /\ phase = "closed" => Closed(to_json(s), d, S, A)

\* A text that is not empty: its first token, and the others.
LEMMA HeadTailIs ==
  ASSUME NEW a \in Texts, a # <<>>
  PROVE  Head(a) \in Token /\ Tail(a) \in Texts /\ <<Head(a)>> \in Texts /\ a = <<Head(a)>> \o Tail(a)
<1>1. a \in Seq(Token)
  BY DEF Texts
<1>2. /\ Tail(a) \in Seq(Token) /\ Head(a) \in Token /\ Head(a) = a[1]
      /\ Len(Tail(a)) = Len(a) - 1 /\ Len(a) \in Nat /\ Len(a) # 0
      /\ \A i \in 1..Len(a) - 1 : Tail(a)[i] = a[i + 1]
  BY <1>1
<1> DEFINE u == <<Head(a)>> \o Tail(a)
<1>3. u \in Seq(Token) /\ Len(u) = Len(a) /\ u[1] = a[1] /\ \A i \in 2..Len(a) : u[i] = Tail(a)[i - 1]
  BY <1>2
<1> HIDE DEF u
<1>4. \A i \in 1..Len(a) : u[i] = a[i]
  BY <1>2, <1>3
<1>5. u = a
  BY <1>1, <1>3, <1>4
<1>6. QED
  BY <1>2, <1>5 DEF u, Texts

\* A text in two parts.
LEMMA TwoParts ==
  ASSUME NEW a \in Texts, NEW b \in Texts
  PROVE  /\ a \o b \in Texts
         /\ (a \o b = <<>>) = (a = <<>> /\ b = <<>>)
         /\ a # <<>> => Tail(a) \in Texts /\ Head(a \o b) = Head(a) /\ Tail(a \o b) = Tail(a) \o b
         /\ a = <<>> => a \o b = b
         /\ b = <<>> => a \o b = a
<1>1. a \in Seq(Token) /\ b \in Seq(Token)
  BY DEF Texts
<1>2. /\ a \o b \in Seq(Token) /\ Len(a \o b) = Len(a) + Len(b) /\ Len(a) \in Nat /\ Len(b) \in Nat
      /\ a = <<>> => a \o b = b
      /\ b = <<>> => a \o b = a
  BY <1>1
<1>3. a \o b = <<>> <=> a = <<>> /\ b = <<>>
  BY <1>1, <1>2
<1>4. ASSUME a # <<>>
      PROVE  Tail(a) \in Texts /\ Head(a \o b) = Head(a) /\ Tail(a \o b) = Tail(a) \o b
  <2>1. /\ Head(a) \in Token /\ Tail(a) \in Texts /\ <<Head(a)>> \in Texts
        /\ a = <<Head(a)>> \o Tail(a)
    BY <1>4, HeadTailIs
  <2>2. a \o b = <<Head(a)>> \o (Tail(a) \o b)
    <3>1. Regroup(<<Head(a)>>, Tail(a), b)
      BY <2>1, Assoc
    <3>2. QED
      BY <2>1, <3>1, Zenon DEF Regroup
  <2>3. Tail(a) \o b \in Texts
    BY <2>1, Concat
  <2>4. Head(a \o b) = Head(a) /\ Tail(a \o b) = Tail(a) \o b
    BY <2>1, <2>2, <2>3, ConsIs
  <2>5. QED
    BY <2>1, <2>4
<1>5. QED
  BY <1>2, <1>3, <1>4 DEF Texts

\* What is left of the token that is cut.
LEMMA TornIs ==
  ASSUME NEW torn \in Torn
  PROVE  \/ torn = <<>>
         \/ torn = <<Tok("parse_error")>>
         \/ torn = <<Leaf("unsigned", "cut")>> /\ Head(rest).type = "unsigned"
BY DEF Torn

\* It is a text.
LEMMA TornText ==
  ASSUME NEW torn \in Torn
  PROVE  torn \in Texts
<1>1. <<>> \in Texts /\ <<Tok("parse_error")>> \in Texts
  BY TokIs, ShortTexts DEF Structural, Texts
<1>2. <<Leaf("unsigned", "cut")>> \in Texts
  BY StatusAssumption, ShortTexts DEF Leaf, Token, Scalars
<1>3. QED
  BY <1>1, <1>2, TornIs, Zenon

\* The token that the parser gets.
LEMMA GotToken == text # <<>> => t = Head(text)
BY DEF t

\* Or the end of the file.
LEMMA EndIs == text = <<>> => t.type = "end_of_input"
<1>1. text = <<>> => t = EndOfInput
  BY DEF t
<1>2. EndOfInput.type = "end_of_input"
  BY TokIs DEF EndOfInput, Structural
<1>3. QED
  BY <1>1, <1>2

\* A file that is closed is read: a whole one to the end of its value, a cut one
\* to an error.
LEMMA ClosedStep ==
  ASSUME NEW v, NEW d, NEW S, NEW A, Arranged(v, d, S, A), Written(v), ReadInv, PtrInv,
         Closed(v, d, S, A), Parse, rest' = rest
  PROVE  Closed(v, d, S, A)'
<1>1. open' = FALSE /\ rest' \in Texts /\ states \in Stacks /\ rest \in Texts /\ text \in Texts
  BY StepReads DEF Closed, textVars, ReadInv
<1>2. \A torn : torn \in Torn => (torn \in Torn)'
  BY Zenon DEF Torn
<1>3. CASE rest = <<>> /\ at # "error" /\ Along(v, d, S, A, text)
  <2>1. PICK rem : rem = text
    OBVIOUS
  <2>2. Along(v, d, S, A, rem) /\ (rem # <<>> => t = Head(rem))
    BY <1>3, <2>1, GotToken
  <2>3. CASE rem # <<>> /\ Along(v, d, S, A, Tail(rem))'
    <3>1. at # "accepted"
      BY StepReads
    <3>2. ~(at = "evaluate" /\ states = <<>>)
      BY <2>2, <2>3, <3>1, Ahead
    <3>3. text' = Tail(rem)
      BY <2>1, <2>3, <3>2, StepReads
    <3>4. Along(v, d, S, A, text)'
      BY <2>3, <3>3
    <3>5. (at # "error")'
      BY <3>4, Zenon DEF Along
    <3>6. QED
      BY <1>1, <1>3, <3>4, <3>5 DEF Closed
  <2>4. CASE rem = <<>> /\ Along(v, d, S, A, <<>>)' /\ UNCHANGED textVars /\ at' = "accepted"
    <3>1. text' = <<>>
      BY <2>1, <2>4 DEF textVars
    <3>2. Along(v, d, S, A, text)'
      BY <2>4, <3>1
    <3>3. QED
      BY <1>1, <1>3, <2>4, <3>2 DEF Closed
  <2>5. QED
    BY <2>2, <2>3, <2>4, AlongStep
<1>4. CASE rest # <<>> /\ at = "error"
  BY <1>4, StepReads
<1>5. CASE rest # <<>> /\ \E a \in Texts : \E torn \in Torn : text = a \o torn /\ Along(v, d, S, A, a \o rest)
  <2>1. PICK a \in Texts, torn \in Torn : text = a \o torn /\ Along(v, d, S, A, a \o rest)
    BY <1>5, Zenon
  <2>2. PICK c : c = rest
    OBVIOUS
  <2>3. torn \in Texts
    BY TornText
  <2> DEFINE rem == a \o c
  <2>4. rem # <<>> /\ rem \in Texts
    BY <1>1, <1>5, <2>2, TwoParts, Zenon
  <2>5. at # "accepted"
    BY StepReads
  <2>6. /\ ~(at = "evaluate" /\ states = <<>>)
        /\ Head(rem).type = "unsigned" => at = "value" /\ ref_stack # <<>>
    <3> HIDE DEF rem
    <3>1. Along(v, d, S, A, rem)
      BY <2>1, <2>2 DEF rem
    <3>2. QED
      BY <2>4, <2>5, <3>1, Ahead
  <2>7. text' = IF text # <<>> THEN Tail(text) ELSE text
    BY <2>6, StepReads
  <2>8. CASE a # <<>>
    <3>1. text # <<>> /\ Head(text) = Head(a) /\ Tail(text) = Tail(a) \o torn /\ Tail(a) \in Texts
      BY <2>1, <2>3, <2>8, TwoParts, Zenon
    <3>2. Head(rem) = Head(a) /\ Tail(rem) = Tail(a) \o c
      BY <1>1, <2>8, <2>2, TwoParts, Zenon
    <3>3. t = Head(rem)
      BY <3>1, <3>2, GotToken
    <3>4. Along(v, d, S, A, Tail(rem))'
      <4> HIDE DEF rem
      <4>1. Along(v, d, S, A, rem)
        BY <2>1, <2>2 DEF rem
      <4>2. QED
        BY <2>4, <3>3, <4>1, AlongStep
    <3>5. Along(v, d, S, A, Tail(a) \o c)'
      BY <3>2, <3>4
    <3>6. text' = Tail(a) \o torn
      BY <2>7, <3>1
    <3>7. (\E b \in Texts : \E x \in Torn : text = b \o x /\ Along(v, d, S, A, b \o rest))'
      BY <1>2, <2>2, <3>1, <3>5, <3>6
    <3>8. QED
      BY <1>1, <1>5, <3>7 DEF Closed
  <2>9. CASE a = <<>>
    <3>1. text = torn /\ rem = rest
      BY <1>1, <2>1, <2>3, <2>9, <2>2, TwoParts, Zenon
    <3>2. ASSUME t.type \in {"parse_error", "end_of_input"}
          PROVE  Closed(v, d, S, A)'
      <4>1. at' = "error"
        BY <1>1, <2>6, <3>2, EndIsError
      <4>2. QED
        BY <1>1, <1>5, <4>1 DEF Closed
    <3>3. CASE torn = <<>>
      BY <3>1, <3>2, <3>3, EndIs
    <3>4. CASE torn = <<Tok("parse_error")>>
      <4>1. text # <<>> /\ Head(text) = Tok("parse_error")
        BY <3>1, <3>4
      <4>2. t.type = "parse_error"
        BY <4>1, GotToken DEF Tok
      <4>3. QED
        BY <3>2, <4>2
    <3>5. CASE torn = <<Leaf("unsigned", "cut")>> /\ Head(rest).type = "unsigned"
      <4>1. text # <<>> /\ Head(text) = Leaf("unsigned", "cut") /\ Tail(text) = <<>>
        BY <3>1, <3>5
      <4>2. t.type = "unsigned"
        BY <4>1, GotToken DEF Leaf
      <4>3. at = "value" /\ ref_stack # <<>>
        BY <2>6, <3>1, <3>5
      <4>4. at' = "evaluate" /\ states' # <<>>
        BY <4>2, <4>3, CutNumber
      <4>5. text' = <<>>
        BY <2>7, <4>1
      <4>6. QED
        BY <1>1, <1>5, <4>4, <4>5 DEF Closed
    <3>6. QED
      BY <3>3, <3>4, <3>5, TornIs
  <2>10. QED
    BY <2>8, <2>9
<1>6. CASE rest # <<>> /\ text = <<>> /\ at = "evaluate" /\ states # <<>>
  <2>1. at' = "error"
    BY <1>1, <1>6, EndIs, EndIsError
  <2>2. QED
    BY <1>1, <1>6, <2>1 DEF Closed
<1>7. QED
  BY <1>3, <1>4, <1>5, <1>6 DEF Closed

\* Nothing is written before the whole value.
LEMMA NothingBeforeRoot ==
  ASSUME NEW v, \A p \in DOMAIN v : p \in Path
  PROVE  Before(v, <<>>) = {}
<1>1. ASSUME NEW p \in Path, IsPrefix(p, <<>>)
      PROVE  p = <<>>
  <2>1. Len(p) <= Len(<<>>)
    BY <1>1 DEF IsPrefix
  <2>2. Len(<<>>) = 0 /\ \E X : p \in Seq(X)
    BY DEF Path
  <2>3. Len(p) = 0
    BY <2>1, <2>2
  <2>4. QED
    BY <2>2, <2>3
<1>2. ASSUME NEW x \in DOMAIN v, Above(x, <<>>)
      PROVE  FALSE
  BY <1>1, <1>2 DEF Above
<1>3. ASSUME NEW x \in DOMAIN v, Earlier(v, x, <<>>)
      PROVE  FALSE
  <2>1. PICK p \in DOMAIN v, i \in DOMAIN Sorted : IsPrefix(MemberPath(p, Sorted[i]), <<>>)
    BY <1>3 DEF Earlier
  <2>2. MemberPath(p, Sorted[i]) \in Path /\ MemberPath(p, Sorted[i]) # <<>>
    BY MemberIs
  <2>3. QED
    BY <1>1, <2>1, <2>2
<1>4. QED
  BY <1>2, <1>3 DEF Before

\* One token is written.
LEMMA MoveHead ==
  ASSUME NEW a \in Texts, NEW b \in Texts, b # <<>>
  PROVE  /\ Append(a, Head(b)) \in Texts /\ Tail(b) \in Texts
         /\ Append(a, Head(b)) \o Tail(b) = a \o b
<1>1. Head(b) \in Token /\ Tail(b) \in Texts /\ <<Head(b)>> \in Texts /\ b = <<Head(b)>> \o Tail(b)
  BY HeadTailIs
<1>2. Append(a, Head(b)) = a \o <<Head(b)>> /\ Append(a, Head(b)) \in Texts
  BY <1>1, ShortTexts
<1>3. Regroup(a, <<Head(b)>>, Tail(b))
  BY <1>1, Assoc
<1>4. QED
  BY <1>1, <1>2, <1>3, Zenon DEF Regroup

\* The value that is finished is the one that was written.
LEMMA BuiltAll ==
  ASSUME NEW s \in Statuses, PtrInv, Built(tree, to_json(s), DOMAIN to_json(s))
  PROVE  tree = to_json(s)
<1>1. DOMAIN tree = DOMAIN to_json(s) /\ \A x \in DOMAIN to_json(s) : tree[x] = to_json(s)[x]
  BY DEF Built
<1>2. tree = [x \in DOMAIN tree |-> tree[x]]
  BY DEF PtrInv, IsTree
<1>3. to_json(s) = [x \in DOMAIN to_json(s) |-> to_json(s)[x]]
  BY ToJsonIs
<1>4. QED
  BY <1>1, <1>2, <1>3

\* A file begins.
LEMMA InitFile == FileInit => FileIs
<1> SUFFICES ASSUME FileInit
             PROVE  FileIs
  OBVIOUS
<1>1. phase \in {"writing", "edited"} /\ status \in Statuses
  BY StatusAssumption DEF FileInit
<1>2. PICK s \in Statuses : s = status
  BY <1>1
<1>3. PICK d, S, A : Arranged(to_json(s), d, S, A) /\ Dump(to_json(s)) = d[<<>>]
  BY WrittenStatus, Arrangement
<1>4. /\ open = TRUE /\ text = <<>> /\ loaded = <<>>
      /\ at = "value" /\ ref_stack = <<>> /\ object_element = <<>> /\ DOMAIN tree = {<<>>}
      /\ dumped = <<>> /\ rest = d[<<>>]
  BY <1>2, <1>3 DEF FileInit, ParserInit
<1>5. <<>> \in DOMAIN to_json(s)
  BY WrittenStatus, WrittenIs
<1>6. d[<<>>] \in Texts
  BY <1>3, <1>5 DEF Arranged
<1>7. Writing(d)
  BY <1>4, <1>6 DEF Writing, Texts
<1>8. QED
  BY <1>1, <1>2, <1>3, <1>7 DEF FileIs

\* The parser is at the beginning of the text.
LEMMA Beginning ==
  ASSUME NEW v, NEW d, NEW S, NEW A, Arranged(v, d, S, A), Written(v), Writing(d)
  PROVE  Along(v, d, S, A, d[<<>>])
<1>1. <<>> \in DOMAIN v /\ \A p \in DOMAIN v : p \in Path
  BY WrittenIs
<1>2. A[<<>>] = <<>> /\ d[<<>>] \in Texts
  <2>1. A[<<>>] = <<>>
    BY NothingBehindRoot
  <2>2. d[<<>>] \in Texts
    BY <1>1, Zenon DEF Arranged
  <2>3. QED
    BY <2>1, <2>2
<1>3. FromValue(d, A, <<>>) = d[<<>>]
  BY <1>2, ShortTexts, Zenon DEF FromValue
<1>4. Before(v, <<>>) = {}
  BY <1>1, NothingBeforeRoot
<1>5. Built(tree, v, Before(v, <<>>))
  BY <1>1, <1>4 DEF Writing, Built
<1>6. AtValue(v, d, A, d[<<>>])
  BY <1>1, <1>3, <1>5 DEF AtValue, Below, Writing
<1>7. QED
  BY <1>6 DEF Along, Writing

\* A file that is closed can be read, up to where it ends.
LEMMA CloseFile ==
  ASSUME NEW v, NEW d, NEW S, NEW A, Arranged(v, d, S, A), Written(v), Writing(d), Close
  PROVE  Closed(v, d, S, A)'
<1>1. /\ open' = FALSE /\ UNCHANGED <<at, states, tree, ref_stack, object_element, dumped, rest>>
      /\ rest \in Texts /\ dumped \in Texts /\ at = "value"
  BY DEF Close, Writing, parserVars, domVars
<1>2. Along(v, d, S, A, d[<<>>])'
  <2>1. Along(v, d, S, A, d[<<>>])
    BY Beginning
  <2>2. QED
    BY <1>1, <2>1, Zenon DEF Along, AtValue, AtObject, AtColon, AtName, AtEvaluate, Back
<1>3. CASE rest = <<>> /\ text' = dumped
  <2>1. dumped = d[<<>>]
    BY <1>1, <1>3, TwoParts DEF Writing
  <2>2. Along(v, d, S, A, text)'
    BY <1>2, <1>3, <2>1
  <2>3. QED
    BY <1>1, <1>3, <2>2 DEF Closed
<1>4. CASE rest # <<>> /\ \E end_of_file \in Torn : text' = dumped \o end_of_file
  <2>1. PICK torn \in Torn : text' = dumped \o torn
    BY <1>4
  <2>2. (torn \in Torn)'
    BY <1>1, Zenon DEF Torn
  <2>3. Along(v, d, S, A, dumped \o rest)'
    <3>1. (dumped \o rest)' = d[<<>>]
      BY <1>1 DEF Writing
    <3>2. QED
      BY <1>2, <3>1
  <2>4. (\E a \in Texts : \E x \in Torn : text = a \o x /\ Along(v, d, S, A, a \o rest))'
    BY <1>1, <2>1, <2>2, <2>3
  <2>5. QED
    BY <1>1, <1>4, <2>4 DEF Closed
<1>5. QED
  BY <1>3, <1>4 DEF Close

\* What is left as it is.
LEMMA ClosedStays ==
  ASSUME NEW v, NEW d, NEW S, NEW A, Closed(v, d, S, A), UNCHANGED <<text, open, rest, parserVars>>
  PROVE  Closed(v, d, S, A)'
<1>1. /\ text' = text /\ open' = open /\ rest' = rest /\ at' = at /\ states' = states
      /\ tree' = tree /\ ref_stack' = ref_stack /\ object_element' = object_element
  BY DEF parserVars, domVars
<1>2. ASSUME NEW rem, Along(v, d, S, A, rem)
      PROVE  Along(v, d, S, A, rem)'
  BY <1>1, <1>2, Zenon DEF Along, AtValue, AtObject, AtColon, AtName, AtEvaluate, Back
<1>3. ASSUME Along(v, d, S, A, text)
      PROVE  Along(v, d, S, A, text)'
  <2>1. PICK rem : rem = text
    OBVIOUS
  <2>2. Along(v, d, S, A, rem)'
    BY <1>2, <1>3, <2>1
  <2>3. QED
    BY <1>1, <2>1, <2>2
<1>4. ASSUME NEW a \in Texts, NEW torn \in Torn, text = a \o torn, Along(v, d, S, A, a \o rest)
      PROVE  (\E b \in Texts : \E x \in Torn : text = b \o x /\ Along(v, d, S, A, b \o rest))'
  <2>1. PICK rem : rem = a \o rest
    OBVIOUS
  <2>2. Along(v, d, S, A, rem)'
    BY <1>2, <1>4, <2>1
  <2>3. Along(v, d, S, A, a \o rest)'
    BY <1>1, <2>1, <2>2
  <2>4. (torn \in Torn)'
    BY <1>1, Zenon DEF Torn
  <2>5. QED
    BY <1>1, <1>4, <2>3, <2>4
<1>5. QED
  BY <1>1, <1>3, <1>4, Zenon DEF Closed

\* Every step.
LEMMA StepFile == BuilderInv /\ FileIs /\ [FileNext]_allVars => FileIs'
<1> SUFFICES ASSUME BuilderInv, FileIs, [FileNext]_allVars
             PROVE  FileIs'
  OBVIOUS
<1>1. ReadInv /\ PtrInv
  BY DEF BuilderInv, GrammarInv
<1>2. PICK s \in Statuses : \E d, S, A :
        /\ status = s /\ Arranged(to_json(s), d, S, A)
        /\ phase \in {"writing", "closed", "edited"}
        /\ phase = "writing" => Writing(d)
        /\ phase = "closed" => Closed(to_json(s), d, S, A)
  BY DEF FileIs
<1>3. PICK d, S, A :
        /\ status = s /\ Arranged(to_json(s), d, S, A)
        /\ phase \in {"writing", "closed", "edited"}
        /\ phase = "writing" => Writing(d)
        /\ phase = "closed" => Closed(to_json(s), d, S, A)
  BY <1>2
<1> DEFINE v == to_json(s)
<1>4. Written(v)
  BY WrittenStatus
<1>5. Arranged(v, d, S, A) /\ (phase = "writing" => Writing(d)) /\ (phase = "closed" => Closed(v, d, S, A))
  BY <1>3
<1>6. ASSUME status' = status, phase' \in {"writing", "closed", "edited"},
             phase' = "writing" => Writing(d)', phase' = "closed" => Closed(v, d, S, A)'
      PROVE  FileIs'
  BY <1>3, <1>6 DEF FileIs
<1> HIDE DEF v
<1>7. CASE WriteToken
  <2>1. /\ status' = status /\ phase = "writing" /\ phase' = phase /\ rest # <<>>
        /\ UNCHANGED <<open, text, loaded, at, ref_stack, object_element, tree>>
        /\ dumped' = Append(dumped, Head(rest)) /\ rest' = Tail(rest)
    BY <1>7 DEF WriteToken, textVars, parserVars, domVars
  <2>2. dumped \in Texts /\ rest \in Texts /\ dumped \o rest = d[<<>>]
    BY <1>5, <2>1 DEF Writing
  <2>3. dumped' \in Texts /\ rest' \in Texts /\ dumped' \o rest' = dumped \o rest
    BY <2>1, <2>2, MoveHead, Zenon
  <2>4. Writing(d)'
    BY <1>5, <2>1, <2>2, <2>3 DEF Writing
  <2>5. QED
    BY <1>6, <2>1, <2>4
<1>8. CASE Close
  <2>1. phase = "writing" /\ phase' = "closed" /\ status' = status
    BY <1>8 DEF Close
  <2>2. Closed(v, d, S, A)'
    BY <1>4, <1>5, <1>8, <2>1, CloseFile
  <2>3. QED
    BY <1>6, <2>1, <2>2
<1>9. CASE Edited
  BY <1>6, <1>9 DEF Edited, fileVars
<1>10. CASE Read
  <2>1. Parse /\ rest' = rest /\ phase' = phase /\ status' = status
    BY <1>10 DEF Read, fileVars
  <2>2. phase # "writing"
    <3>1. ASSUME Writing(d)
          PROVE  FALSE
      <4>1. at = "value" /\ text = <<>> /\ open = TRUE
        BY <3>1 DEF Writing
      <4>2. \E where : GetToken(where)
        BY <2>1, <4>1, Zenon DEF Parse, Value, ObjectBegun, ArrayBegun, Separator, Key, Evaluate
      <4>3. QED
        BY <4>1, <4>2, Zenon DEF GetToken
    <3>2. QED
      BY <1>5, <3>1
  <2>3. phase = "closed" => Closed(v, d, S, A)'
    BY <1>1, <1>4, <1>5, <2>1, ClosedStep
  <2>4. QED
    BY <1>3, <1>6, <2>1, <2>2, <2>3
<1>11. ASSUME phase # "writing", UNCHANGED <<textVars, parserVars, fileVars>>
       PROVE  FileIs'
  <2>1. UNCHANGED <<text, open, rest, parserVars, phase, status>>
    BY <1>11 DEF textVars, fileVars
  <2>2. phase = "closed" => Closed(v, d, S, A)'
    BY <1>5, <2>1, ClosedStays
  <2>3. QED
    BY <1>3, <1>6, <1>11, <2>1, <2>2
<1>12. CASE Load
  BY <1>11, <1>12 DEF Load
<1>13. CASE Release
  <2>1. phase # "writing"
    BY <1>5, <1>13 DEF Release, Writing
  <2>2. QED
    BY <1>11, <1>13, <2>1 DEF Release
<1>14. CASE UNCHANGED allVars
  <2>1. CASE phase = "writing"
    <3>1. Writing(d)'
      BY <1>5, <1>14, <2>1 DEF Writing, allVars, textVars, parserVars, domVars, fileVars
    <3>2. QED
      BY <1>6, <1>14, <2>1, <3>1 DEF allVars, fileVars
  <2>2. CASE phase # "writing"
    BY <1>11, <1>14, <2>2 DEF allVars
  <2>3. QED
    BY <2>1, <2>2
<1>15. QED
  BY <1>7, <1>8, <1>9, <1>10, <1>12, <1>13, <1>14 DEF FileNext

\* The file of SavedStatus.
Stage ==
  CASE open -> "none"
    [] ~open /\ phase = "edited" -> "edited"
    [] ~open /\ phase # "edited" -> IF rest = <<>> THEN "whole" ELSE "cut"

\* Each of its values.
LEMMA StageIs ==
  ASSUME open \in BOOLEAN
  PROVE  /\ open => Stage = "none"
         /\ ~open /\ phase = "edited" => Stage = "edited"
         /\ ~open /\ phase # "edited" /\ rest = <<>> => Stage = "whole"
         /\ ~open /\ phase # "edited" /\ rest # <<>> => Stage = "cut"
BY DEF Stage

\* A file begins as one that is not there.
LEMMA InitSaved == FileInit => Saved!Init
<1> SUFFICES ASSUME FileInit
             PROVE  Saved!Init
  OBVIOUS
<1>1. open = TRUE /\ status \in Statuses /\ loaded = <<>>
  BY StatusAssumption DEF FileInit
<1>2. Stage = "none"
  BY <1>1, StageIs
<1>3. QED
  BY <1>1, <1>2, Zenon DEF Saved!Init, Stage

\* What a run that loads the file gets: of a whole file the status, of a cut
\* one an exception.
LEMMA LoadedIs ==
  ASSUME BuilderInv, FileIs, Load
  PROVE  /\ ~open /\ phase \in {"closed", "edited"} /\ loaded = <<>> /\ loaded' # <<>>
         /\ phase = "closed" /\ rest = <<>> => loaded' = <<status>>
         /\ phase = "closed" /\ rest # <<>> => loaded' = <<Refused>>
<1>1. /\ phase # "writing" /\ ~open /\ loaded = <<>> /\ at \in {"accepted", "error"}
      /\ loaded' = <<IF at \in Parsed /\ StatusConvertible THEN StatusOf ELSE Refused>>
  BY DEF Load
<1>2. PICK s \in Statuses : \E d, S, A :
        /\ status = s /\ Arranged(to_json(s), d, S, A)
        /\ phase \in {"writing", "closed", "edited"}
        /\ phase = "closed" => Closed(to_json(s), d, S, A)
  BY DEF FileIs
<1>3. PICK d, S, A :
        /\ status = s /\ Arranged(to_json(s), d, S, A)
        /\ phase \in {"writing", "closed", "edited"}
        /\ phase = "closed" => Closed(to_json(s), d, S, A)
  BY <1>2
<1>4. PtrInv
  BY DEF BuilderInv
<1>5. ASSUME phase = "closed", rest = <<>>
      PROVE  loaded' = <<status>>
  <2>1. at # "error" /\ Along(to_json(s), d, S, A, text)
    BY <1>3, <1>5, Zenon DEF Closed
  <2>2. at = "accepted"
    BY <1>1, <2>1
  <2>3. Built(tree, to_json(s), DOMAIN to_json(s))
    BY <2>1, <2>2, Zenon DEF Along
  <2>4. tree = to_json(s)
    BY <1>4, <2>3, BuiltAll
  <2>5. StatusConvertible /\ StatusOf = s
    BY <2>4, ReadBack
  <2>6. QED
    BY <1>1, <1>3, <2>2, <2>5, Zenon DEF Parsed
<1>6. ASSUME phase = "closed", rest # <<>>
      PROVE  loaded' = <<Refused>>
  <2>1. rest \in Texts
    BY <1>3, <1>6 DEF Closed
  <2>2. ~ \E a \in Texts : Along(to_json(s), d, S, A, a \o rest) /\ at = "accepted"
    <3>1. ASSUME NEW a \in Texts, Along(to_json(s), d, S, A, a \o rest), at = "accepted"
          PROVE  FALSE
      <4>1. a \o rest = <<>>
        BY <3>1, Zenon DEF Along
      <4>2. QED
        BY <1>6, <2>1, <4>1, TwoParts, Zenon
    <3>2. QED
      BY <3>1
  <2>3. at = "error"
    BY <1>1, <1>3, <1>6, <2>2 DEF Closed
  <2>4. QED
    BY <1>1, <2>3, Zenon DEF Parsed
<1>7. QED
  BY <1>1, <1>3, <1>5, <1>6, Zenon

\* Closing a file is Save, loading it is Load, and nothing else shows.
LEMMA StepSaved ==
  BuilderInv /\ FileIs /\ BuilderInv' /\ FileIs' /\ [FileNext]_allVars => [Saved!Save \/ Saved!Load]_(Saved!vars)
<1> SUFFICES ASSUME BuilderInv, FileIs, BuilderInv', FileIs', [FileNext]_allVars
             PROVE  [Saved!Save \/ Saved!Load]_(Saved!vars)
  OBVIOUS
<1>1. open \in BOOLEAN /\ open' \in BOOLEAN
  BY DEF BuilderInv
<1>2. /\ open => Stage = "none"
      /\ ~open /\ phase = "edited" => Stage = "edited"
      /\ ~open /\ phase # "edited" /\ rest = <<>> => Stage = "whole"
      /\ ~open /\ phase # "edited" /\ rest # <<>> => Stage = "cut"
  BY <1>1, StageIs
<1>3. open' => Stage' = "none"
  BY <1>1 DEF Stage
<1>4. ~open' => Stage' \in {"cut", "whole", "edited"}
  BY <1>1 DEF Stage
<1>5. ASSUME status' = status, loaded' = loaded, Stage' = Stage
      PROVE  UNCHANGED Saved!vars
  BY <1>5, Zenon DEF Saved!vars, Stage
<1>6. ASSUME status' = status, loaded' = loaded, open, ~open'
      PROVE  Saved!Save
  <2>1. Stage = "none" /\ Stage' \in {"cut", "whole", "edited"}
    BY <1>2, <1>4, <1>6
  <2>2. QED
    BY <1>6, <2>1, Zenon DEF Saved!Save, Stage
<1>7. ASSUME UNCHANGED <<status, loaded, open, phase, rest>>
      PROVE  UNCHANGED Saved!vars
  BY <1>5, <1>7 DEF Stage
<1>8. ASSUME UNCHANGED <<status, loaded, open>>, open
      PROVE  UNCHANGED Saved!vars
  BY <1>2, <1>3, <1>5, <1>8
<1>9. CASE WriteToken
  <2>1. PICK s \in Statuses : \E d, S, A : phase = "writing" => Writing(d)
    BY DEF FileIs
  <2>2. open
    BY <1>9, <2>1 DEF WriteToken, Writing
  <2>3. QED
    BY <1>8, <1>9, <2>2 DEF WriteToken, textVars
<1>10. CASE Close
  <2>1. PICK s \in Statuses : \E d, S, A : phase = "writing" => Writing(d)
    BY DEF FileIs
  <2>2. open
    BY <1>10, <2>1 DEF Close, Writing
  <2>3. QED
    BY <1>6, <1>10, <2>2 DEF Close
<1>11. CASE Edited
  <2>1. open /\ UNCHANGED <<status, loaded>>
    BY <1>11 DEF Edited, Edit, fileVars
  <2>2. CASE open'
    BY <1>1, <1>8, <2>1, <2>2
  <2>3. CASE ~open'
    BY <1>6, <2>1, <2>3
  <2>4. QED
    BY <2>2, <2>3
<1>12. CASE Read
  <2>1. UNCHANGED <<status, loaded, phase, rest>> /\ Parse
    BY <1>12 DEF Read, fileVars
  <2>2. open' = open
    BY <2>1, StepReads DEF textVars
  <2>3. QED
    BY <1>7, <2>1, <2>2
<1>13. CASE Load
  <2>1. UNCHANGED <<status, open, phase, rest>>
    BY <1>13 DEF Load, textVars, fileVars
  <2>2. /\ ~open /\ phase \in {"closed", "edited"} /\ loaded = <<>> /\ loaded' # <<>>
        /\ phase = "closed" /\ rest = <<>> => loaded' = <<status>>
        /\ phase = "closed" /\ rest # <<>> => loaded' = <<Refused>>
    BY <1>13, LoadedIs
  <2>3. Stage' = Stage
    BY <2>1 DEF Stage
  <2>4. /\ Stage # "none"
        /\ CASE Stage = "whole" -> loaded' = <<status>>
             [] Stage = "cut" -> loaded' = <<Refused>>
             [] Stage = "edited" -> loaded' # <<>>
    BY <1>2, <2>2
  <2>5. Saved!Load
    BY <2>1, <2>2, <2>3, <2>4, Zenon DEF Saved!Load, Stage
  <2>6. QED
    BY <2>5
<1>14. CASE Release
  BY <1>7, <1>14 DEF Release, textVars, fileVars
<1>15. CASE UNCHANGED allVars
  BY <1>7, <1>15 DEF allVars, textVars, fileVars
<1>16. QED
  BY <1>9, <1>10, <1>11, <1>12, <1>13, <1>14, <1>15 DEF FileNext

\* main (src/main.cpp:86-97) saves a status beside its destination and a later
\* run resumes from it.  For all statuses that may be saved, whatever their
\* segments: a file that was written to its end is read back as the very status
\* that was saved, and one that ends earlier, behind any token or inside it, is
\* refused.  A cut file is never taken for another status.
THEOREM SavedOrRefused == FileSpec => Saved!Safety
<1>1. FileInit => BuilderInv /\ FileIs
  BY InitBuilder, InitFile
<1>2. BuilderInv /\ FileIs /\ [FileNext]_allVars => BuilderInv' /\ FileIs'
  BY StepBuilder, StepFile
<1>3. QED
  BY <1>1, <1>2, InitSaved, StepSaved, PTL DEF FileSpec, Saved!Safety

=============================================================================
