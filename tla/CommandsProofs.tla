--------------------------- MODULE CommandsProofs ---------------------------
(***************************************************************************)
(* What parse returns and what help lists, for any registry, texts of any  *)
(* length and any calls on the visibility.                                 *)
(*                                                                         *)
(* Texts.  The lemmas say what trim, the first word and the arguments of a *)
(* text are, by the places of its white space.  From them follow what      *)
(* parse returns (ParseShape), that a command which is written out is      *)
(* parsed to itself (SpelledIsParsed), and what a text is made of          *)
(* (HeadWordArgs).  The invariant, ReceivedInv, is that a message is held  *)
(* with what the registry makes of its text.                               *)
(*                                                                         *)
(* Pages.  A page is a concatenation of sections: FlattenElements says     *)
(* what the elements of a concatenation are and when none is there twice,  *)
(* HelpTextElements what this means for a page, and MapFollows how the     *)
(* maps of a visibility follow the calls.  The invariant is PageInv.       *)
(*                                                                         *)
(* Where an induction would be, FirstOf takes the least number at which    *)
(* the statement fails.  Concatenations have names (Written, Spelled...),  *)
(* so that they are unfolded only where their parts matter.                *)
(***************************************************************************)
EXTENDS Commands, SequenceTheorems, WellFoundedInduction, TLAPS

-----------------------------------------------------------------------------
(* Texts *)

\* No white space at either end.
Trimmed(s) == s = <<>> \/ (s[1] # Space /\ s[Len(s)] # Space)

\* Trim keeps what is between the first and the last token that are not white
\* space.
LEMMA TrimIs ==
  ASSUME NEW s \in Seq(Tokens), NEW i \in 1..Len(s), NEW j \in 1..Len(s),
         s[i] # Space, s[j] # Space,
         \A k \in 1..Len(s) : s[k] # Space => i <= k /\ k <= j
  PROVE  Trim(s) = SubSeq(s, i, j)
<1> DEFINE I == {k \in 1..Len(s) : IsVisible(s[k])}
<1>1. i \in I /\ j \in I /\ \A k \in I : i <= k /\ k <= j /\ k \in Nat
  BY DEF IsVisible
<1>2. SelectInSeq(s, IsVisible) = Min(I) /\ SelectLastInSeq(s, IsVisible) = Max(I)
  BY <1>1 DEF SelectInSeq, SelectLastInSeq
<1>3. Min(I) = i /\ Max(I) = j
  BY <1>1 DEF Min, Max
<1>4. SelectInSeq(s, IsVisible) = i /\ SelectLastInSeq(s, IsVisible) = j /\ i # 0
  BY <1>2, <1>3
<1> QED
  BY <1>4 DEF Trim

\* Trim leaves nothing of white space, and leaves alone what has none at its ends.
LEMMA TrimOfBlank ==
  ASSUME NEW s \in Seq(Tokens), \A k \in 1..Len(s) : s[k] = Space
  PROVE  Trim(s) = <<>>
<1>1. {k \in 1..Len(s) : IsVisible(s[k])} = {}
  BY DEF IsVisible
<1>2. SelectInSeq(s, IsVisible) = 0
  BY <1>1 DEF SelectInSeq
<1> QED
  BY <1>2 DEF Trim

\* Trim leaves alone what is trimmed.
LEMMA TrimOfTrimmed ==
  ASSUME NEW s \in Seq(Tokens), Trimmed(s)
  PROVE  Trim(s) = s
<1>1. CASE s = <<>>
  <2>1. \A k \in 1..Len(s) : s[k] = Space
    BY <1>1
  <2>2. Trim(s) = <<>>
    BY <2>1, TrimOfBlank
  <2> QED
    BY <1>1, <2>2
<1>2. CASE s # <<>>
  <2>1. 1 \in 1..Len(s) /\ Len(s) \in 1..Len(s)
    BY <1>2
  <2>2. s[1] # Space /\ s[Len(s)] # Space
    BY <1>2 DEF Trimmed
  <2>3. \A k \in 1..Len(s) : 1 <= k /\ k <= Len(s)
    BY <2>1
  <2>4. Trim(s) = SubSeq(s, 1, Len(s))
    BY <2>1, <2>2, <2>3, TrimIs
  <2> QED
    BY <2>4, SubSeqFull
<1> QED
  BY <1>1, <1>2

\* A set of numbers has a first one, and one of numbers up to n a last one.
LEMMA FirstOf ==
  ASSUME NEW I \in SUBSET Nat, I # {}
  PROVE  \E i \in I : \A k \in I : i <= k
<1> DEFINE R == OpToRel(<, Nat)
<1>1. IsWellFoundedOn(R, Nat)
  BY NatLessThanWellFounded
<1>2. \A k, m \in Nat : k < m => <<k, m>> \in R
  BY DEF OpToRel
<1> HIDE DEF R
<1>3. PICK i \in I : \A k \in I : <<k, i>> \notin R
  BY <1>1, WFMin
<1>4. \A k \in I : ~(k < i)
  BY <1>2, <1>3
<1> QED
  BY <1>3, <1>4

\* Some of the first numbers have a least and a greatest among them.
LEMMA FirstAndLast ==
  ASSUME NEW n \in Nat, NEW I \in SUBSET (1..n), I # {}
  PROVE  \E i \in I, j \in I : \A k \in I : i <= k /\ k <= j
<1>1. PICK i \in I : \A k \in I : i <= k
  BY FirstOf
<1> DEFINE J == {n - k : k \in I}
<1>2. J \in SUBSET Nat /\ J # {}
  OBVIOUS
<1>3. PICK m \in J : \A k \in J : m <= k
  BY <1>2, FirstOf
<1>4. PICK j \in I : m = n - j
  BY <1>3
<1>5. ASSUME NEW k \in I PROVE k <= j
  <2>1. n - k \in J
    OBVIOUS
  <2>2. m <= n - k
    BY <1>3, <2>1
  <2> QED
    BY <1>4, <2>2
<1> QED
  BY <1>1, <1>4, <1>5

\* Every text is white space, or its trimmed form lies between two places in it.
LEMMA TrimShape ==
  ASSUME NEW s \in Seq(Tokens)
  PROVE  /\ Trim(s) \in Seq(Tokens)
         /\ Trimmed(Trim(s))
         /\ \/ Trim(s) = <<>> /\ \A k \in 1..Len(s) : s[k] = Space
            \/ \E i, j \in 1..Len(s) :
                 /\ i <= j /\ Trim(s) = SubSeq(s, i, j)
                 /\ s[i] # Space /\ s[j] # Space
                 /\ \A k \in 1..Len(s) : s[k] # Space => i <= k /\ k <= j
<1> DEFINE I == {k \in 1..Len(s) : s[k] # Space}
<1>1. CASE I = {}
  <2>1. \A k \in 1..Len(s) : s[k] = Space
    BY <1>1
  <2>2. Trim(s) = <<>>
    BY <2>1, TrimOfBlank
  <2> QED
    BY <2>1, <2>2 DEF Trimmed
<1>2. CASE I # {}
  <2>1. I \in SUBSET (1..Len(s)) /\ Len(s) \in Nat
    OBVIOUS
  <2>2. PICK i \in I, j \in I : \A k \in I : i <= k /\ k <= j
    BY <1>2, <2>1, FirstAndLast
  <2>3. /\ i \in 1..Len(s) /\ j \in 1..Len(s) /\ s[i] # Space /\ s[j] # Space
        /\ \A k \in 1..Len(s) : s[k] # Space => i <= k /\ k <= j
        /\ i <= j
    BY <2>2
  <2>4. Trim(s) = SubSeq(s, i, j)
    BY <2>3, TrimIs
  <2>5. /\ Trim(s) \in Seq(Tokens) /\ Len(Trim(s)) = j - i + 1
        /\ Trim(s)[1] = s[i] /\ Trim(s)[j - i + 1] = s[j]
    BY <2>3, <2>4, SubSeqProperties
  <2>6. Trimmed(Trim(s))
    BY <2>3, <2>5 DEF Trimmed
  <2> QED
    BY <2>3, <2>4, <2>5, <2>6
<1> QED
  BY <1>1, <1>2

LEMMA TokensAre == Space \in Tokens /\ Prefix \in Tokens /\ Prefix # Space
  BY DEF Tokens, Prefix, Space

\* One blank before or behind a trimmed text is trimmed.
LEMMA TrimBefore ==
  ASSUME NEW a \in Seq(Tokens), Trimmed(a)
  PROVE  Trim(<<Space>> \o a) = a
<1> DEFINE q == <<Space>> \o a
<1>1. <<Space>> \in Seq(Tokens) /\ Len(<<Space>>) = 1 /\ <<Space>>[1] = Space
  BY TokensAre
<1>2. /\ q \in Seq(Tokens) /\ Len(q) = Len(a) + 1 /\ Len(a) \in Nat
      /\ q[1] = Space /\ \A k \in 1..Len(a) : q[k + 1] = a[k]
  BY <1>1, ConcatProperties
<1> HIDE DEF q
<1>3. CASE a = <<>>
  <2>1. \A k \in 1..Len(q) : q[k] = Space
    BY <1>2, <1>3
  <2>2. Trim(q) = <<>>
    BY <1>2, <2>1, TrimOfBlank
  <2> QED
    BY <1>3, <2>2 DEF q
<1>4. CASE a # <<>>
  <2>1. a[1] # Space /\ a[Len(a)] # Space /\ 1 <= Len(a)
    BY <1>4 DEF Trimmed
  <2>2. q[2] # Space /\ q[Len(q)] # Space /\ 2 \in 1..Len(q) /\ Len(q) \in 1..Len(q)
    <3>1. q[1 + 1] = a[1] /\ q[Len(a) + 1] = a[Len(a)]
      BY <1>2, <2>1
    <3> QED
      BY <1>2, <2>1, <3>1
  <2>3. \A k \in 1..Len(q) : q[k] # Space => 2 <= k /\ k <= Len(q)
    BY <1>2
  <2>4. Trim(q) = SubSeq(q, 2, Len(q))
    BY <1>2, <2>2, <2>3, TrimIs
  <2>5. /\ SubSeq(q, 2, Len(q)) \in Seq(Tokens)
        /\ Len(SubSeq(q, 2, Len(q))) = Len(a)
        /\ \A k \in 1..Len(a) : SubSeq(q, 2, Len(q))[k] = q[k + 1]
    BY <1>2, <2>1
  <2>6. SubSeq(q, 2, Len(q)) = a
    BY <1>2, <2>5, SeqEqual
  <2> QED
    BY <2>4, <2>6 DEF q
<1> QED
  BY <1>3, <1>4

\* A blank behind a trimmed text is trimmed away.
LEMMA TrimAfter ==
  ASSUME NEW a \in Seq(Tokens), Trimmed(a)
  PROVE  Trim(a \o <<Space>>) = a
<1> DEFINE q == a \o <<Space>>
<1>1. <<Space>> \in Seq(Tokens) /\ Len(<<Space>>) = 1 /\ <<Space>>[1] = Space
  BY TokensAre
<1>2. /\ q \in Seq(Tokens) /\ Len(q) = Len(a) + 1 /\ Len(a) \in Nat
      /\ q[Len(a) + 1] = Space /\ \A k \in 1..Len(a) : q[k] = a[k]
  BY <1>1, ConcatProperties
<1> HIDE DEF q
<1>3. CASE a = <<>>
  <2>1. \A k \in 1..Len(q) : q[k] = Space
    BY <1>2, <1>3
  <2>2. Trim(q) = <<>>
    BY <1>2, <2>1, TrimOfBlank
  <2> QED
    BY <1>3, <2>2 DEF q
<1>4. CASE a # <<>>
  <2>1. a[1] # Space /\ a[Len(a)] # Space /\ 1 <= Len(a)
    BY <1>4 DEF Trimmed
  <2>2. q[1] # Space /\ q[Len(a)] # Space /\ 1 \in 1..Len(q) /\ Len(a) \in 1..Len(q)
    BY <1>2, <2>1
  <2>3. \A k \in 1..Len(q) : q[k] # Space => 1 <= k /\ k <= Len(a)
    BY <1>2
  <2>4. Trim(q) = SubSeq(q, 1, Len(a))
    BY <1>2, <2>2, <2>3, TrimIs
  <2>5. /\ SubSeq(q, 1, Len(a)) \in Seq(Tokens)
        /\ Len(SubSeq(q, 1, Len(a))) = Len(a)
        /\ \A k \in 1..Len(a) : SubSeq(q, 1, Len(a))[k] = q[k]
    BY <1>2, <2>1
  <2>6. SubSeq(q, 1, Len(a)) = a
    BY <1>2, <2>5, SeqEqual
  <2> QED
    BY <2>4, <2>6 DEF q
<1> QED
  BY <1>3, <1>4

\* One word, by its places.
LEMMA WordTokens ==
  ASSUME NEW w \in Seq(Tokens)
  PROVE  OneWord(w) <=> w # <<>> /\ \A k \in 1..Len(w) : w[k] # Space
  BY DEF OneWord, ToSet

\* A word is trimmed.
LEMMA WordIsTrimmed ==
  ASSUME NEW w \in Seq(Tokens), OneWord(w)
  PROVE  w # <<>> /\ Trimmed(w) /\ \A k \in 1..Len(w) : w[k] # Space
<1>1. w # <<>> /\ \A k \in 1..Len(w) : w[k] # Space
  BY WordTokens
<1>2. 1 \in 1..Len(w) /\ Len(w) \in 1..Len(w)
  BY <1>1
<1> QED
  BY <1>1, <1>2 DEF Trimmed

\* The first word of a trimmed text ends where its first white space is.
LEMMA FirstWordIs ==
  ASSUME NEW s \in Seq(Tokens), Trimmed(s), NEW e \in 1..Len(s), s[e] = Space,
         \A k \in 1..e-1 : s[k] # Space
  PROVE  FirstWord(s) = SubSeq(s, 1, e - 1)
<1> DEFINE I == {k \in 1..Len(s) : IsSpace(s[k])}
<1>1. e \in I /\ \A k \in I : e <= k /\ k \in Nat
  BY DEF IsSpace
<1>2. SelectInSeq(s, IsSpace) = Min(I)
  BY <1>1 DEF SelectInSeq
<1>3. Min(I) = e
  BY <1>1 DEF Min
<1>4. SelectInSeq(s, IsSpace) = e /\ e # 0
  BY <1>2, <1>3
<1>5. Trim(s) = s
  BY TrimOfTrimmed
<1> QED
  BY <1>4, <1>5 DEF FirstWord

\* A text without white space is its own first word.
LEMMA FirstWordOfWord ==
  ASSUME NEW s \in Seq(Tokens), \A k \in 1..Len(s) : s[k] # Space
  PROVE  FirstWord(s) = s
<1>1. {k \in 1..Len(s) : IsSpace(s[k])} = {}
  BY DEF IsSpace
<1>2. SelectInSeq(s, IsSpace) = 0
  BY <1>1 DEF SelectInSeq
<1>3. Trimmed(s)
  <2>1. s # <<>> => 1 \in 1..Len(s) /\ Len(s) \in 1..Len(s)
    OBVIOUS
  <2> QED
    BY <2>1 DEF Trimmed
<1>4. Trim(s) = s
  BY <1>3, TrimOfTrimmed
<1> QED
  BY <1>2, <1>4 DEF FirstWord

\* The first word has no white space: it is the trimmed text or ends before some.
LEMMA FirstWordShape ==
  ASSUME NEW s \in Seq(Tokens), NEW w, w = FirstWord(s), NEW t, t = Trim(s)
  PROVE  /\ w \in Seq(Tokens)
         /\ \A k \in 1..Len(w) : w[k] # Space
         /\ \/ w = t
            \/ \E e \in 1..Len(t) : t[e] = Space /\ w = SubSeq(t, 1, e - 1)
<1>1. t \in Seq(Tokens) /\ Trimmed(t)
  BY TrimShape
<1>2. Trim(t) = t
  BY <1>1, TrimOfTrimmed
<1>3. FirstWord(t) = w
  BY <1>2 DEF FirstWord
<1> DEFINE I == {k \in 1..Len(t) : t[k] = Space}
<1>4. CASE I = {}
  <2>1. \A k \in 1..Len(t) : t[k] # Space
    BY <1>4
  <2>2. w = t
    BY <1>1, <1>3, <2>1, FirstWordOfWord
  <2> QED
    BY <1>1, <2>1, <2>2
<1>5. CASE I # {}
  <2>1. I \in SUBSET Nat
    BY <1>1
  <2>2. PICK e \in I : \A k \in I : e <= k
    BY <1>5, <2>1, FirstOf
  <2>3. e \in 1..Len(t) /\ t[e] = Space
    BY <2>2
  <2>4. \A k \in 1..e-1 : t[k] # Space
    <3> SUFFICES ASSUME NEW k \in 1..e-1, t[k] = Space PROVE FALSE
      OBVIOUS
    <3>1. k \in I
      BY <1>1, <2>3
    <3> QED
      BY <2>2, <2>3, <3>1
  <2>5. w = SubSeq(t, 1, e - 1)
    BY <1>1, <1>3, <2>3, <2>4, FirstWordIs
  <2>6. w \in Seq(Tokens) /\ Len(w) = e - 1 /\ \A k \in 1..e-1 : w[k] = t[k]
    BY <1>1, <2>3, <2>5
  <2> QED
    BY <2>3, <2>4, <2>5, <2>6
<1> QED
  BY <1>4, <1>5

\* Arguments are trimmed.
LEMMA ArgsAreTrimmed ==
  ASSUME NEW s \in Seq(Tokens), NEW w \in Seq(Tokens)
  PROVE  Args(s, w) \in Seq(Tokens) /\ Trimmed(Args(s, w))
<1>1. CASE ~IsPrefix(w, s)
  BY <1>1 DEF Args, Trimmed
<1>2. CASE IsPrefix(w, s)
  <2>1. StripPrefix(s, w) \in Seq(Tokens)
    <3>1. \A k \in Len(w)+1..Len(s) : s[k] \in Tokens
      OBVIOUS
    <3> QED
      BY <3>1, SubSeqProperties DEF StripPrefix
  <2>2. Args(s, w) = Trim(StripPrefix(s, w))
    BY <1>2 DEF Args
  <2> QED
    BY <2>1, <2>2, TrimShape
<1> QED
  BY <1>1, <1>2

\* What comes before a suffix is a prefix, and stripping it leaves the suffix.
LEMMA StripConcat ==
  ASSUME NEW p \in Seq(Tokens), NEW s \in Seq(Tokens)
  PROVE  IsPrefix(p, p \o s) /\ StripPrefix(p \o s, p) = s
<1> DEFINE q == p \o s
<1>1. /\ q \in Seq(Tokens) /\ Len(q) = Len(p) + Len(s) /\ Len(p) \in Nat /\ Len(s) \in Nat
      /\ \A k \in 1..Len(p) : q[k] = p[k]
      /\ \A k \in 1..Len(s) : q[Len(p) + k] = s[k]
  BY ConcatProperties
<1> HIDE DEF q
<1>2. SubSeq(q, 1, Len(p)) = SubSeq(p, 1, Len(p))
  <2>1. /\ SubSeq(q, 1, Len(p)) \in Seq(Tokens) /\ Len(SubSeq(q, 1, Len(p))) = Len(p)
        /\ \A k \in 1..Len(p) : SubSeq(q, 1, Len(p))[k] = q[k]
    BY <1>1
  <2>2. SubSeq(q, 1, Len(p)) = p
    BY <1>1, <2>1, SeqEqual
  <2> QED
    BY <2>2, SubSeqFull
<1>3. SubSeq(q, Len(p) + 1, Len(q)) = s
  <2>1. /\ SubSeq(q, Len(p) + 1, Len(q)) \in Seq(Tokens)
        /\ Len(SubSeq(q, Len(p) + 1, Len(q))) = Len(s)
        /\ \A k \in 1..Len(s) : SubSeq(q, Len(p) + 1, Len(q))[k] = q[Len(p) + k]
    <3>1. \A k \in Len(p)+1..Len(q) : q[k] \in Tokens
      BY <1>1
    <3> QED
      BY <1>1, <3>1, SubSeqProperties
  <2> QED
    BY <1>1, <2>1, SeqEqual
<1>4. Len(p) <= Len(q)
  BY <1>1
<1> QED
  BY <1>2, <1>3, <1>4 DEF IsPrefix, StripPrefix, q

\* A name alone has no arguments.
LEMMA ArgsOfName ==
  ASSUME NEW w \in Seq(Tokens)
  PROVE  Args(w, w) = <<>>
<1>1. <<>> \in Seq(Tokens) /\ w \o <<>> = w
  BY ConcatEmptySeq
<1>2. IsPrefix(w, w) /\ StripPrefix(w, w) = <<>>
  BY <1>1, StripConcat
<1>3. Trim(<<>>) = <<>>
  BY <1>1, TrimOfTrimmed DEF Trimmed
<1> QED
  BY <1>2, <1>3 DEF Args

\* A word, one blank and trimmed arguments, as commands are written.
Written(w, a) == w \o <<Space>> \o a

\* The first word of what is written so is the word, and the rest its arguments.
LEMMA WrittenIsRead ==
  ASSUME NEW w \in Seq(Tokens), OneWord(w), NEW a \in Seq(Tokens), Trimmed(a), a # <<>>
  PROVE  /\ Written(w, a) \in Seq(Tokens) /\ Trimmed(Written(w, a))
         /\ FirstWord(Written(w, a)) = w
         /\ Args(Written(w, a), w) = a
<1> DEFINE t == <<Space>> \o a
           q == w \o t
<1>1. Written(w, a) = q /\ t \in Seq(Tokens) /\ t[1] = Space /\ t[Len(t)] = a[Len(a)]
        /\ Len(t) = Len(a) + 1
  <2>1. <<Space>> \in Seq(Tokens) /\ Len(<<Space>>) = 1
    BY TokensAre
  <2>2. Written(w, a) = q
    BY <2>1, ConcatAssociative DEF Written
  <2> QED
    BY <2>1, <2>2, ConcatProperties
<1>2. a[Len(a)] # Space /\ Len(a) \in Nat /\ Len(a) >= 1
  BY DEF Trimmed
<1>3. Len(w) \in Nat /\ 1 <= Len(w) /\ \A k \in 1..Len(w) : w[k] # Space
  BY WordTokens DEF OneWord
<1> HIDE DEF t
<1>4. /\ q \in Seq(Tokens) /\ Len(q) = Len(w) + Len(t)
      /\ \A k \in 1..Len(w) : q[k] = w[k]
      /\ q[Len(w) + 1] = Space /\ q[Len(q)] = a[Len(a)]
  <2>1. /\ q \in Seq(Tokens) /\ Len(q) = Len(w) + Len(t)
        /\ \A k \in 1..Len(w) + Len(t) : q[k] = IF k <= Len(w) THEN w[k] ELSE t[k - Len(w)]
    BY <1>1, ConcatProperties
  <2> HIDE DEF q
  <2> QED
    BY <1>1, <1>2, <1>3, <2>1
<1>5. IsPrefix(w, q) /\ StripPrefix(q, w) = t
  BY <1>1, StripConcat
<1> HIDE DEF q
<1>6. Trimmed(q)
  <2>1. q[1] # Space /\ q[Len(q)] # Space
    BY <1>2, <1>3, <1>4
  <2> QED
    BY <2>1 DEF Trimmed
<1>7. FirstWord(q) = w
  <2>1. PICK e \in 1..Len(q) : e = Len(w) + 1
    BY <1>1, <1>2, <1>3, <1>4
  <2>2. q[e] = Space /\ e - 1 = Len(w) /\ \A k \in 1..e-1 : q[k] # Space
    BY <1>3, <1>4, <2>1
  <2>3. FirstWord(q) = SubSeq(q, 1, e - 1)
    BY <1>4, <1>6, <2>2, FirstWordIs
  <2>4. SubSeq(q, 1, Len(w)) = SubSeq(w, 1, Len(w))
    BY <1>5 DEF IsPrefix
  <2>5. SubSeq(w, 1, Len(w)) = w
    BY SubSeqFull
  <2> QED
    BY <2>2, <2>3, <2>4, <2>5
<1>8. Args(q, w) = a
  BY <1>5, TrimBefore DEF Args, t
<1> QED
  BY <1>1, <1>4, <1>6, <1>7, <1>8

\* What stands in front of a command: nothing in word style, a slash otherwise.
Heads == {<<>>, <<Prefix>>}

LEMMA HeadsAre ==
  ASSUME NEW p \in Heads
  PROVE  /\ p \in Seq(Tokens) /\ \A k \in 1..Len(p) : p[k] # Space
         /\ Len(p) \in {0, 1} /\ (Len(p) = 0 => p = <<>>)
<1>1. CASE p = <<>>
  BY <1>1
<1>2. CASE p = <<Prefix>>
  <2>1. p \in Seq(Tokens) /\ Len(p) = 1 /\ p[1] = Prefix
    BY <1>2, TokensAre
  <2> QED
    BY <2>1, TokensAre
<1> QED
  BY <1>1, <1>2 DEF Heads

\* A prefix in front of a trimmed text, or of none, is trimmed with it.
LEMMA HeadIsTrimmed ==
  ASSUME NEW p \in Heads, NEW s \in Seq(Tokens), Trimmed(s), s # <<>>
  PROVE  p \o s \in Seq(Tokens) /\ Trimmed(p \o s)
<1> DEFINE q == p \o s
<1>1. /\ q \in Seq(Tokens) /\ Len(q) = Len(p) + Len(s) /\ Len(p) \in Nat /\ Len(s) \in Nat
      /\ \A k \in 1..Len(p) : q[k] = p[k]
      /\ \A k \in 1..Len(s) : q[Len(p) + k] = s[k]
  BY HeadsAre, ConcatProperties
<1> HIDE DEF q
<1>2. s[1] # Space /\ s[Len(s)] # Space /\ 1 \in 1..Len(s) /\ Len(s) \in 1..Len(s)
  BY DEF Trimmed
<1>3. q[Len(q)] # Space
  BY <1>1, <1>2
<1>4. q[1] # Space
  <2>1. CASE Len(p) = 0
    <3>1. q[0 + 1] = s[1]
      BY <1>1, <1>2, <2>1
    <3> QED
      BY <1>2, <3>1
  <2>2. CASE Len(p) = 1
    BY <1>1, <2>2, HeadsAre
  <2> QED
    BY <2>1, <2>2, HeadsAre
<1> QED
  BY <1>1, <1>3, <1>4 DEF Trimmed, q

\* A command as the bot quotes it.
Spelled(p, w, a) == (p \o w) \o <<Space>> \o a

\* A command that is written out, behind the prefix of its style, is read as it
\* was: its name is the first word and the rest are its arguments.
LEMMA SpelledIsRead ==
  ASSUME NEW p \in Heads, NEW w \in Seq(Tokens), OneWord(w),
         NEW a \in Seq(Tokens), Trimmed(a),
         NEW trimmed, trimmed = Trim(Spelled(p, w, a)), NEW rest, rest = StripPrefix(trimmed, p)
  PROVE  IsPrefix(p, trimmed) /\ FirstWord(rest) = w /\ Args(rest, w) = a
<1> DEFINE b == <<Space>>
           text == (p \o w) \o <<Space>> \o a
<1>1. p \in Seq(Tokens) /\ b \in Seq(Tokens)
  BY HeadsAre, TokensAre
<1>2. CASE a # <<>>
  <2>1. /\ Written(w, a) \in Seq(Tokens) /\ Trimmed(Written(w, a))
        /\ FirstWord(Written(w, a)) = w /\ Args(Written(w, a), w) = a
    BY <1>2, WrittenIsRead
  <2>2. Written(w, a) # <<>>
    BY <1>1, ConcatProperties DEF Written, OneWord
  <2>3. p \o Written(w, a) \in Seq(Tokens) /\ Trimmed(p \o Written(w, a))
    BY <2>1, <2>2, HeadIsTrimmed
  <2>4. (p \o w) \o b \o a = p \o Written(w, a)
    <3>1. p \o w \in Seq(Tokens) /\ w \o b \in Seq(Tokens)
      BY <1>1
    <3>2. (p \o w) \o b = p \o (w \o b)
      BY <1>1, ConcatAssociative, SMTT(30)
    <3>3. (p \o (w \o b)) \o a = p \o ((w \o b) \o a)
      BY <1>1, <3>1, ConcatAssociative, SMTT(30)
    <3> QED
      BY <3>2, <3>3 DEF Written
  <2>5. trimmed = p \o Written(w, a)
    BY <2>3, <2>4, TrimOfTrimmed DEF Spelled
  <2>6. IsPrefix(p, trimmed) /\ rest = Written(w, a)
    BY <1>1, <2>1, <2>5, StripConcat
  <2> QED
    BY <2>1, <2>6
<1>3. CASE a = <<>>
  <2>1. w # <<>> /\ Trimmed(w) /\ \A k \in 1..Len(w) : w[k] # Space
    BY WordIsTrimmed
  <2>2. p \o w \in Seq(Tokens) /\ Trimmed(p \o w)
    BY <2>1, HeadIsTrimmed
  <2>3. (p \o w) \o b \o a = (p \o w) \o b
    BY <1>1, <1>3, <2>2, ConcatEmptySeq
  <2>4. trimmed = p \o w
    BY <2>2, <2>3, TrimAfter DEF Spelled
  <2>5. IsPrefix(p, trimmed) /\ rest = w
    BY <1>1, <2>4, StripConcat
  <2>6. FirstWord(w) = w
    BY <2>1, FirstWordOfWord
  <2>7. Args(w, w) = a
    BY <1>3, ArgsOfName
  <2> QED
    BY <2>6, <2>7, <2>5
<1> QED
  BY <1>2, <1>3

\* A text with a prefix is the prefix and the rest.
LEMMA PrefixAndRest ==
  ASSUME NEW p \in Seq(Tokens), NEW s \in Seq(Tokens), IsPrefix(p, s)
  PROVE  StripPrefix(s, p) \in Seq(Tokens) /\ s = p \o StripPrefix(s, p)
<1> DEFINE r == StripPrefix(s, p)
<1>1. Len(p) \in Nat /\ Len(s) \in Nat /\ Len(p) <= Len(s)
  BY DEF IsPrefix
<1>2. SubSeq(p, 1, Len(p)) = SubSeq(s, 1, Len(p)) /\ SubSeq(p, 1, Len(p)) = p
  BY SubSeqFull DEF IsPrefix
<1>3. \A k \in 1..Len(p) : SubSeq(s, 1, Len(p))[k] = s[k]
  BY <1>1
<1>4. \A k \in 1..Len(p) : p[k] = s[k]
  BY <1>2, <1>3
<1>5. /\ r \in Seq(Tokens) /\ Len(r) = Len(s) - Len(p)
      /\ \A k \in 1..Len(r) : r[k] = s[Len(p) + k]
  <2>1. \A k \in Len(p)+1..Len(s) : s[k] \in Tokens
    BY <1>1
  <2> QED
    BY <1>1, <2>1, SubSeqProperties DEF StripPrefix
<1> HIDE DEF r
<1>6. /\ p \o r \in Seq(Tokens) /\ Len(p \o r) = Len(s)
      /\ \A k \in 1..Len(s) : (p \o r)[k] = IF k <= Len(p) THEN p[k] ELSE r[k - Len(p)]
  BY <1>1, <1>5, ConcatProperties
<1>7. \A k \in 1..Len(s) : (p \o r)[k] = s[k]
  BY <1>1, <1>4, <1>5, <1>6
<1>8. s = p \o r
  BY <1>6, <1>7, SeqEqual
<1> QED
  BY <1>5, <1>8 DEF r

\* The prefix of a style.
LEMMA HeadOfStyle ==
  ASSUME NEW c PROVE StylePrefix(c) \in Heads
  BY DEF StylePrefix, Heads

Joined(p, rest) == p \o rest

\* A text is plain, a call for help, or a command behind the prefix.
LEMMA ParseShape ==
  ASSUME NEW c, NEW text, NEW trimmed, trimmed = Trim(text), trimmed \in Seq(Tokens),
         NEW parsed, parsed = Parse(c, text)
  PROVE  \/ parsed = Plain(trimmed)
         \/ parsed = [kind |-> "Help"]
         \/ \E rest \in Seq(Tokens), name \in Seq(Tokens), kind \in {"Registered", "Unknown"} :
              /\ trimmed = Joined(StylePrefix(c), rest)
              /\ name = FirstWord(rest) /\ OneWord(name) /\ name # Help
              /\ kind = "Registered" <=> IsRegistered(c, name)
              /\ kind = "Unknown" => c.style = "Slash"
              /\ parsed = [kind |-> kind, name |-> name, args |-> Args(rest, name)]
<1> DEFINE p == StylePrefix(c)
           rest == StripPrefix(trimmed, p)
           name == FirstWord(rest)
           args == Args(rest, name)
<1>1. p \in Seq(Tokens)
  BY HeadOfStyle, HeadsAre
<1>2. CASE ~IsPrefix(p, trimmed)
  BY <1>2 DEF Parse
<1>3. CASE IsPrefix(p, trimmed)
  <2>1. parsed = Classify(c, trimmed, rest)
    BY <1>3 DEF Parse
  <2>2. rest \in Seq(Tokens) /\ trimmed = Joined(p, rest)
    BY <1>1, <1>3, PrefixAndRest DEF Joined
  <2>3. name \in Seq(Tokens) /\ \A k \in 1..Len(name) : name[k] # Space
    BY <2>2, FirstWordShape
  <2>4. CASE name = <<>>
    <3>1. <<>> # Help
      BY DEF Help
    <3>2. parsed = Plain(trimmed)
      BY <2>1, <2>4, <3>1 DEF Classify
    <3> QED
      BY <3>2
  <2>5. CASE name = Help
    <3>1. <<>> # Help
      BY DEF Help
    <3>2. parsed = [kind |-> "Help"]
      BY <2>1, <2>5, <3>1 DEF Classify
    <3> QED
      BY <3>2
  <2>6. CASE name # <<>> /\ name # Help
    <3>1. OneWord(name)
      BY <2>3, <2>6, WordTokens
    <3>2. CASE IsRegistered(c, name)
      <4>1. parsed = [kind |-> "Registered", name |-> name, args |-> args]
        BY <2>1, <2>6, <3>2 DEF Classify
      <4> QED
        BY <2>2, <2>3, <2>6, <3>1, <3>2, <4>1
    <3>3. CASE ~IsRegistered(c, name) /\ c.style = "Slash"
      <4>1. parsed = [kind |-> "Unknown", name |-> name, args |-> args]
        BY <2>1, <2>6, <3>3 DEF Classify
      <4> QED
        BY <2>2, <2>3, <2>6, <3>1, <3>3, <4>1
    <3>4. CASE ~IsRegistered(c, name) /\ c.style # "Slash"
      <4>1. parsed = Plain(trimmed)
        BY <2>1, <2>6, <3>4 DEF Classify
      <4> QED
        BY <4>1
    <3> QED
      BY <3>2, <3>3, <3>4
  <2> QED
    BY <2>4, <2>5, <2>6
<1> QED
  BY <1>2, <1>3

Line(c, w, a) == FormatCommand(c, w) \o <<Space>> \o a

\* A command that is spelled out, without or with arguments, is parsed to it.
LEMMA SpelledIsParsed ==
  ASSUME NEW c, NEW w \in Seq(Tokens), OneWord(w), w # Help,
         NEW a \in Seq(Tokens), Trimmed(a),
         NEW kind \in {"Registered", "Unknown"},
         kind = "Registered" <=> IsRegistered(c, w),
         kind = "Unknown" => c.style = "Slash"
  PROVE  Parse(c, Line(c, w, a)) = [kind |-> kind, name |-> w, args |-> a]
<1> DEFINE p == StylePrefix(c)
           text == Line(c, w, a)
           trimmed == Trim(text)
           rest == StripPrefix(trimmed, p)
<1>1. p \in Heads /\ text = Spelled(p, w, a)
  BY HeadOfStyle DEF FormatCommand, Spelled, Line
<1>2. IsPrefix(p, trimmed) /\ FirstWord(rest) = w /\ Args(rest, w) = a
  <2> HIDE DEF text, p
  <2> QED
    BY <1>1, SpelledIsRead
<1>3. Parse(c, text) = Classify(c, trimmed, rest)
  BY <1>2 DEF Parse
<1> HIDE DEF text, p, trimmed, rest
<1>4. w # <<>>
  BY DEF OneWord
<1>5. CASE kind = "Registered"
  <2>1. IsRegistered(c, w)
    BY <1>5
  <2>2. Classify(c, trimmed, rest) = [kind |-> "Registered", name |-> w, args |-> a]
    BY <1>2, <1>4, <2>1 DEF Classify
  <2> QED
    BY <1>3, <1>5, <2>2 DEF text
<1>6. CASE kind = "Unknown"
  <2>1. ~IsRegistered(c, w) /\ c.style = "Slash"
    BY <1>6
  <2>2. Classify(c, trimmed, rest) = [kind |-> "Unknown", name |-> w, args |-> a]
    BY <1>2, <1>4, <2>1 DEF Classify
  <2> QED
    BY <1>3, <1>6, <2>2 DEF text
<1> QED
  BY <1>5, <1>6

LEMMA BlanksAre ==
  ASSUME NEW n \in Nat
  PROVE  Blanks(n) \in Seq(Tokens) /\ Len(Blanks(n)) = n
         /\ \A k \in 1..n : Blanks(n)[k] = Space
<1>1. \A k \in 1..n : Blanks(n)[k] = Space
  BY DEF Blanks
<1>2. Blanks(n) \in Seq(Tokens) /\ Len(Blanks(n)) = n
  BY TokensAre DEF Blanks
<1> QED
  BY <1>1, <1>2

\* A text that does not end with white space is white space and its trimmed form.
LEMMA BlanksBefore ==
  ASSUME NEW u \in Seq(Tokens), u # <<>>, u[Len(u)] # Space
  PROVE  \E n \in 0..Len(u)-1 : u = Blanks(n) \o Trim(u) /\ (u[1] = Space => n # 0)
<1>1. Len(u) \in 1..Len(u) /\ Len(u) \in Nat
  OBVIOUS
<1>2. PICK i, j \in 1..Len(u) :
        /\ i <= j /\ Trim(u) = SubSeq(u, i, j) /\ u[i] # Space
        /\ \A k \in 1..Len(u) : u[k] # Space => i <= k /\ k <= j
  BY <1>1, TrimShape
<1>3. j = Len(u)
  BY <1>1, <1>2
<1> DEFINE t == Trim(u)
<1>4. /\ t \in Seq(Tokens) /\ Len(t) = Len(u) - i + 1
      /\ \A k \in 1..Len(t) : t[k] = u[i + k - 1]
  <2>1. \A k \in i..Len(u) : u[k] \in Tokens
    BY <1>2
  <2>2. t = SubSeq(u, i, Len(u))
    BY <1>2, <1>3
  <2> HIDE DEF t
  <2> QED
    BY <1>1, <1>2, <2>1, <2>2, SubSeqProperties
<1>5. PICK n \in 0..Len(u)-1 : n = i - 1
  BY <1>1, <1>2
<1> DEFINE b == Blanks(n)
<1>6. b \in Seq(Tokens) /\ Len(b) = n /\ \A k \in 1..n : b[k] = Space
  BY <1>5, BlanksAre
<1> HIDE DEF t, b
<1>7. /\ b \o t \in Seq(Tokens) /\ Len(b \o t) = Len(u)
      /\ \A k \in 1..Len(u) : (b \o t)[k] = IF k <= n THEN b[k] ELSE t[k - n]
  BY <1>1, <1>2, <1>4, <1>5, <1>6, ConcatProperties, SMTT(30)
<1>8. ASSUME NEW k \in 1..Len(u) PROVE (b \o t)[k] = u[k]
  <2>1. CASE k <= n
    BY <1>2, <1>5, <1>6, <1>7, <2>1
  <2>2. CASE n < k
    <3>1. (b \o t)[k] = t[k - n] /\ k - n \in 1..Len(t) /\ i + (k - n) - 1 = k
      BY <1>1, <1>2, <1>4, <1>5, <1>7, <2>2
    <3> QED
      BY <1>4, <3>1
  <2>3. k <= n \/ n < k
    BY <1>1, <1>5
  <2> QED
    BY <2>1, <2>2, <2>3
<1>9. u = b \o t
  BY <1>7, <1>8, SeqEqual
<1>10. u[1] = Space => n # 0
  BY <1>2, <1>5
<1> QED
  BY <1>5, <1>9, <1>10 DEF b, t

\* Behind a word at the start of a trimmed text come white space and the
\* arguments, or nothing.
Command(w, n, a) == w \o (Blanks(n) \o a)

\* A trimmed text is its first word, white space and the arguments behind it.
LEMMA ArgsBehindWord ==
  ASSUME NEW s \in Seq(Tokens), Trimmed(s), NEW w, w = FirstWord(s), NEW a, a = Args(s, w)
  PROVE  \E n \in 0..Len(s) :
           s = Command(w, n, a) /\ (n = 0 => a = <<>>)
<1>1. Trim(s) = s
  BY TrimOfTrimmed
<1>2. w \in Seq(Tokens) /\ (w = s \/ \E e \in 1..Len(s) : s[e] = Space /\ w = SubSeq(s, 1, e - 1))
  BY <1>1, FirstWordShape
<1>3. CASE w = s
  <2>1. s \o <<>> = s /\ <<>> \in Seq(Tokens)
    BY ConcatEmptySeq
  <2>2. a = <<>>
    BY <1>3, ArgsOfName
  <2>3. Blanks(0) = <<>>
    <3>1. Blanks(0) \in Seq(Tokens) /\ Len(Blanks(0)) = 0
      BY BlanksAre
    <3> QED
      BY <3>1
  <2>4. Blanks(0) \o a = <<>>
    BY <2>1, <2>2, <2>3, ConcatEmptySeq
  <2>5. 0 \in 0..Len(s)
    OBVIOUS
  <2> QED
    BY <1>3, <2>1, <2>2, <2>4, <2>5 DEF Command
<1>4. ASSUME NEW e \in 1..Len(s), s[e] = Space, w = SubSeq(s, 1, e - 1)
      PROVE  \E n \in 0..Len(s) : s = Command(w, n, a) /\ (n = 0 => a = <<>>)
  <2> DEFINE u == SubSeq(s, e, Len(s))
  <2>1. Len(w) = e - 1
    BY <1>4
  <2>2. IsPrefix(w, s) /\ StripPrefix(s, w) = u
    <3>1. SubSeq(w, 1, Len(w)) = w
      BY <1>2, SubSeqFull
    <3>2. SubSeq(s, 1, Len(w)) = w /\ Len(w) + 1 = e /\ Len(w) <= Len(s)
      BY <1>4, <2>1
    <3> QED
      BY <3>1, <3>2 DEF IsPrefix, StripPrefix
  <2>3. u \in Seq(Tokens) /\ s = w \o u
    BY <1>2, <2>2, PrefixAndRest
  <2>4. a = Trim(u)
    BY <2>2 DEF Args
  <2>5. /\ Len(u) = Len(s) - e + 1 /\ u[1] = s[e] /\ u[Len(s) - e + 1] = s[Len(s)]
        /\ Len(s) \in Nat
    <3>1. \A k \in e..Len(s) : s[k] \in Tokens
      OBVIOUS
    <3> QED
      BY <3>1, SubSeqProperties
  <2>6. s[Len(s)] # Space
    BY DEF Trimmed
  <2> HIDE DEF u
  <2>7. u # <<>> /\ u[Len(u)] # Space /\ u[1] = Space
    BY <1>4, <2>3, <2>5, <2>6
  <2>8. PICK n \in 0..Len(u)-1 : u = Blanks(n) \o Trim(u) /\ n # 0
    BY <2>3, <2>7, BlanksBefore
  <2>9. n \in 0..Len(s)
    BY <2>5
  <2>10. s = Command(w, n, a)
    BY <2>3, <2>4, <2>8 DEF Command
  <2> QED
    BY <2>8, <2>9, <2>10
<1> QED
  BY <1>2, <1>3, <1>4

\* A text, as NothingIsLost puts it together.
Whole(p, w, n, a) == p \o w \o Blanks(n) \o a

LEMMA WholeIs ==
  ASSUME NEW p \in Seq(Tokens), NEW w \in Seq(Tokens), NEW n \in Nat,
         NEW a \in Seq(Tokens), NEW t, t = Joined(p, Command(w, n, a))
  PROVE  t = Whole(p, w, n, a)
<1>1. PICK b : b \in Seq(Tokens) /\ b = Blanks(n)
  BY BlanksAre
<1>2. b \in Seq(Tokens)
  BY <1>1
<1>3. (p \o w) \o b = p \o (w \o b)
  BY <1>2, ConcatAssociative, SMTT(30)
<1>4. w \o b \in Seq(Tokens)
  BY <1>2
<1>5. PICK c : c \in Seq(Tokens) /\ c = w \o b
  BY <1>4
<1>6. c \in Seq(Tokens)
  BY <1>5
<1>7. (p \o c) \o a = p \o (c \o a)
  BY <1>6, ConcatAssociative, SMTT(30)
<1>8. (w \o b) \o a = w \o (b \o a)
  BY <1>2, ConcatAssociative, SMTT(30)
<1>9. p \o w \o b \o a = p \o (w \o (b \o a))
  BY <1>3, <1>5, <1>7, <1>8
<1> QED
  BY <1>1, <1>9 DEF Whole, Joined, Command

\* In a trimmed text that has no white space behind the prefix, the prefix, the
\* word, white space and the arguments are all there is.
Detached(p, t) == \E k \in 1..Len(t) : IsPrefix(p \o Blanks(k), t)

\* A text that is not detached is its head, its first word, white space and its arguments.
LEMMA HeadWordArgs ==
  ASSUME NEW p \in Heads, NEW rest \in Seq(Tokens),
         NEW t, t = Joined(p, rest), Trimmed(t), ~Detached(p, t),
         NEW w, w = FirstWord(rest), w # <<>>, NEW a, a = Args(rest, w)
  PROVE  \E k \in 0..Len(t) : t = Whole(p, w, k, a) /\ (k = 0 => a = <<>>)
<1>1. /\ p \in Seq(Tokens) /\ Len(p) \in {0, 1} /\ t \in Seq(Tokens)
      /\ Len(t) = Len(p) + Len(rest) /\ Len(rest) \in Nat
      /\ \A k \in 1..Len(rest) : t[Len(p) + k] = rest[k]
  BY HeadsAre, ConcatProperties DEF Joined
<1>2. rest # <<>>
  <2>1. CASE rest = <<>>
    <3>1. \A k \in 1..Len(rest) : rest[k] # Space
      BY <2>1
    <3>2. w = rest
      BY <3>1, FirstWordOfWord
    <3> QED
      BY <2>1, <3>2
  <2> QED
    BY <2>1
<1>3. 1 \in 1..Len(rest) /\ Len(rest) \in 1..Len(rest)
  BY <1>2
<1>4. rest[Len(rest)] # Space
  <2>1. t # <<>> /\ Len(t) = Len(p) + Len(rest)
    BY <1>1, <1>3
  <2>2. t[Len(p) + Len(rest)] # Space
    BY <2>1 DEF Trimmed
  <2> QED
    BY <1>1, <1>3, <2>2
<1>5. ASSUME rest[1] = Space PROVE FALSE
  <2>1. PICK one \in Nat : one = 1
    OBVIOUS
  <2> DEFINE b == Blanks(one)
             q == p \o b
  <2>2. b \in Seq(Tokens) /\ Len(b) = 1 /\ b[1] = Space
    <3>1. b \in Seq(Tokens) /\ Len(b) = one /\ \A k \in 1..one : b[k] = Space
      BY BlanksAre
    <3>2. 1 \in 1..one
      BY <2>1
    <3> HIDE DEF b
    <3> QED
      BY <2>1, <3>1, <3>2
  <2> HIDE DEF b
  <2>3. /\ q \in Seq(Tokens) /\ Len(q) = Len(p) + 1
        /\ \A k \in 1..Len(q) : q[k] = IF k <= Len(p) THEN p[k] ELSE b[k - Len(p)]
    <3>1. p \in Seq(Tokens) /\ b \in Seq(Tokens)
      BY <1>1, <2>2
    <3>2. /\ q \in Seq(Tokens) /\ Len(q) = Len(p) + Len(b)
          /\ \A k \in 1..Len(p) + Len(b) :
               q[k] = IF k <= Len(p) THEN p[k] ELSE b[k - Len(p)]
      BY <3>1, ConcatProperties
    <3> QED
      BY <2>2, <3>2
  <2>4. \A k \in 1..Len(t) : t[k] = IF k <= Len(p) THEN p[k] ELSE rest[k - Len(p)]
    BY <1>1, ConcatProperties DEF Joined
  <2> HIDE DEF q
  <2>5. Len(q) <= Len(t) /\ Len(q) \in Nat
    BY <1>1, <1>3, <2>3
  <2>6. \A k \in 1..Len(q) : q[k] = t[k]
    <3> SUFFICES ASSUME NEW k \in 1..Len(q) PROVE q[k] = t[k]
      OBVIOUS
    <3>1. k \in 1..Len(t) /\ (k <= Len(p) \/ k = Len(p) + 1)
      BY <1>1, <1>3, <2>3
    <3>2. CASE k <= Len(p)
      BY <2>3, <2>4, <3>1, <3>2
    <3>3. CASE k = Len(p) + 1
      <4>1. ~(k <= Len(p)) /\ k - Len(p) = 1
        BY <1>1, <3>3
      <4> QED
        BY <1>5, <2>2, <2>3, <2>4, <3>1, <4>1
    <3> QED
      BY <3>1, <3>2, <3>3
  <2>7. /\ SubSeq(t, 1, Len(q)) \in Seq(Tokens) /\ Len(SubSeq(t, 1, Len(q))) = Len(q)
        /\ \A k \in 1..Len(q) : SubSeq(t, 1, Len(q))[k] = t[k]
    BY <1>1, <2>5
  <2>8. SubSeq(t, 1, Len(q)) = q
    BY <2>3, <2>6, <2>7, SeqEqual
  <2>9. SubSeq(q, 1, Len(q)) = q
    BY <2>3, SubSeqFull
  <2>10. IsPrefix(q, t)
    BY <2>5, <2>8, <2>9 DEF IsPrefix
  <2>11. one \in 1..Len(t)
    BY <1>1, <1>3, <2>1
  <2> QED
    BY <2>10, <2>11 DEF q, b, Detached
<1>6. Trimmed(rest)
  BY <1>4, <1>5 DEF Trimmed
<1>7. PICK n \in 0..Len(rest) : rest = Command(w, n, a) /\ (n = 0 => a = <<>>)
  BY <1>6, ArgsBehindWord
<1>8. n \in 0..Len(t)
  BY <1>1
<1>9. w \in Seq(Tokens) /\ a \in Seq(Tokens) /\ Blanks(n) \in Seq(Tokens)
  BY FirstWordShape, ArgsAreTrimmed, BlanksAre
<1>10. t = Whole(p, w, n, a)
  <2>1. n \in Nat
    BY <1>7
  <2>2. t = Joined(p, Command(w, n, a))
    BY <1>7
  <2> QED
    BY <1>1, <1>9, <2>1, <2>2, WholeIs
<1> QED
  BY <1>7, <1>8, <1>10

LEMMA TextsAre ==
  ASSUME NEW text \in Texts PROVE text \in Seq(Tokens)
<1>1. MaxText \in Nat
  BY CommandsAssumption
<1>2. PICK m \in 0..MaxText : text \in [1..m -> Tokens]
  BY DEF Texts, BoundedSeq, SeqOf
<1>3. m \in Nat
  BY <1>1
<1> QED
  BY <1>2, <1>3

\* What the server holds of a message is its text and what the registry makes of
\* it; the registry does not change once there is a message.
ReceivedInv ==
  /\ status = "configuring" => received = Nothing
  /\ received # Nothing =>
       /\ received.text \in Seq(Tokens)
       /\ received.parsed = Parse(commands, received.text)

LEMMA InitReceivedInv == Init => ReceivedInv
  BY DEF Init, ReceivedInv

\* Receive stores both together, and the registry changes only while there is no message.
LEMMA NextReceivedInv == ReceivedInv /\ [Next]_vars => ReceivedInv'
<1> SUFFICES ASSUME ReceivedInv, [Next]_vars PROVE ReceivedInv'
  OBVIOUS
<1>1. ASSUME status = "configuring", UNCHANGED received
      PROVE  ReceivedInv'
  BY <1>1 DEF ReceivedInv
<1>2. ASSUME UNCHANGED <<commands, received>>, status' # "configuring"
      PROVE  ReceivedInv'
  BY <1>2 DEF ReceivedInv
<1>3. ASSUME received' = Nothing PROVE ReceivedInv'
  BY <1>3 DEF ReceivedInv
<1>4. CASE \/ \E style \in {"Slash", "Word"} : Style(style)
           \/ \E enabled \in BOOLEAN : HandleUnknown(enabled)
           \/ \E name \in Names : Register(name)
           \/ \E id \in GroupIds, names \in BoundedSeq(Names, MaxCommands) : Group(id, names)
           \/ New
  BY <1>1, <1>4 DEF Style, HandleUnknown, Register, Group, New, Idle
<1>5. ASSUME NEW text \in Texts, Receive(text) PROVE ReceivedInv'
  <2> DEFINE parsed == Parse(commands, text)
  <2>1. /\ received' = [text |-> text, parsed |-> parsed]
        /\ commands' = commands /\ status' # "configuring"
    BY <1>5 DEF Receive
  <2>2. text \in Seq(Tokens)
    BY TextsAre
  <2>3. received'.text = text /\ received'.parsed = parsed
    BY <2>1
  <2>4. parsed = Parse(commands', received'.text)
    BY <2>1, <2>3
  <2> HIDE DEF parsed
  <2> QED
    BY <2>1, <2>2, <2>3, <2>4 DEF ReceivedInv
<1>6. CASE HandlerReturns \/ \E visible \in BOOLEAN : ChooseBase(visible)
  BY <1>3, <1>6 DEF HandlerReturns, ChooseBase
<1>7. CASE HelpVisibilityFails
  BY <1>3, <1>7 DEF HelpVisibilityFails
<1>8. CASE (\E call \in Overrides : OverrideEntry(call)) \/ ShowHelp \/ Sent
  BY <1>2, <1>8 DEF OverrideEntry, ShowHelp, Sent
<1>9. CASE Rejected \/ UNCHANGED vars
  BY <1>9 DEF Rejected, vars, ReceivedInv
<1> QED
  BY <1>4, <1>5, <1>6, <1>7, <1>8, <1>9 DEF Next

LEMMA Received == Spec => []ReceivedInv
  BY InitReceivedInv, NextReceivedInv, PTL DEF Spec

\* A text that the bot quotes back, with the prefix and the arguments as parse
\* returned them, is parsed to what was quoted.
THEOREM CommandsQuotedIsTheSame == Spec => []QuotedIsTheSame
<1>1. ReceivedInv => QuotedIsTheSame
  <2> DEFINE parsed == received.parsed
  <2> SUFFICES ASSUME ReceivedInv, received # Nothing
               PROVE  /\ parsed.kind = "None" => Parse(commands, parsed.text) = parsed
                      /\ parsed.kind \in {"Registered", "Unknown"} =>
                           parsed = Parse(commands, Line(commands, parsed.name, parsed.args))
    BY DEF QuotedIsTheSame, Line
  <2>1. PICK text \in Seq(Tokens) : parsed = Parse(commands, text)
    BY DEF ReceivedInv
  <2>2. PICK trimmed : trimmed = Trim(text)
    OBVIOUS
  <2>3. trimmed \in Seq(Tokens) /\ Trimmed(trimmed)
    BY <2>2, TrimShape
  <2> HIDE DEF parsed
  <2>4. CASE parsed = Plain(trimmed)
    <3>1. parsed.kind = "None" /\ parsed.text = trimmed
      BY <2>4 DEF Plain
    <3>2. Trim(trimmed) = Trim(text)
      BY <2>2, <2>3, TrimOfTrimmed
    <3>3. Parse(commands, trimmed) = Parse(commands, text)
      BY <3>2 DEF Parse
    <3> QED
      BY <2>1, <3>1, <3>3
  <2>5. CASE parsed = [kind |-> "Help"]
    BY <2>5
  <2>6. ASSUME NEW rest \in Seq(Tokens), NEW name \in Seq(Tokens),
               NEW kind \in {"Registered", "Unknown"}, OneWord(name), name # Help,
               kind = "Registered" <=> IsRegistered(commands, name),
               kind = "Unknown" => commands.style = "Slash",
               parsed = [kind |-> kind, name |-> name, args |-> Args(rest, name)]
        PROVE  parsed.kind # "None"
                 /\ parsed = Parse(commands, Line(commands, parsed.name, parsed.args))
    <3>1. parsed.kind # "None" /\ parsed.name = name /\ parsed.args = Args(rest, name)
      BY <2>6
    <3>2. PICK a : a \in Seq(Tokens) /\ Trimmed(a) /\ a = Args(rest, name)
      BY ArgsAreTrimmed
    <3>3. Parse(commands, Line(commands, name, a)) = [kind |-> kind, name |-> name, args |-> a]
      BY <2>6, <3>2, SpelledIsParsed
    <3> QED
      BY <2>6, <3>1, <3>2, <3>3
  <2> QED
    BY <2>1, <2>2, <2>3, <2>4, <2>5, <2>6, ParseShape
<1> QED
  BY <1>1, Received, PTL

\* The arguments and the name that the bot's handler sees are all that the user
\* wrote behind the prefix.
THEOREM CommandsNothingIsLost == Spec => []NothingIsLost
<1>1. ReceivedInv => NothingIsLost
  <2> DEFINE parsed == received.parsed
             trimmed == Trim(received.text)
             head == StylePrefix(commands)
  <2> SUFFICES ASSUME ReceivedInv, received # Nothing
               PROVE  /\ parsed.kind = "None" => parsed.text = trimmed
                      /\ parsed.kind \in {"Registered", "Unknown"} /\ ~Detached(head, trimmed) =>
                           \E k \in 0..Len(trimmed) :
                             /\ trimmed = Whole(head, parsed.name, k, parsed.args)
                             /\ k = 0 => parsed.args = <<>>
    BY DEF NothingIsLost, Detached, Whole
  <2>1. PICK text \in Seq(Tokens) : parsed = Parse(commands, text) /\ trimmed = Trim(text)
    BY DEF ReceivedInv
  <2>2. trimmed \in Seq(Tokens) /\ Trimmed(trimmed)
    BY <2>1, TrimShape
  <2>3. head \in Heads
    BY HeadOfStyle
  <2> HIDE DEF parsed, trimmed
  <2>4. CASE parsed = Plain(trimmed)
    BY <2>4 DEF Plain
  <2>5. CASE parsed = [kind |-> "Help"]
    BY <2>5
  <2>6. ASSUME NEW rest \in Seq(Tokens), NEW name \in Seq(Tokens),
               NEW kind \in {"Registered", "Unknown"}, OneWord(name),
               trimmed = Joined(head, rest), name = FirstWord(rest),
               parsed = [kind |-> kind, name |-> name, args |-> Args(rest, name)]
        PROVE  /\ parsed.kind # "None"
               /\ ~Detached(head, trimmed) =>
                    \E k \in 0..Len(trimmed) :
                      /\ trimmed = Whole(head, parsed.name, k, parsed.args)
                      /\ k = 0 => parsed.args = <<>>
    <3>1. PICK a : a = Args(rest, name)
      OBVIOUS
    <3>2. parsed.kind # "None" /\ parsed.name = name /\ parsed.args = a
      BY <2>6, <3>1
    <3>3. name # <<>>
      BY <2>6 DEF OneWord
    <3> HIDE DEF head
    <3>4. ASSUME ~Detached(head, trimmed)
          PROVE  \E k \in 0..Len(trimmed) :
                   trimmed = Whole(head, name, k, a) /\ (k = 0 => a = <<>>)
      BY <2>2, <2>3, <2>6, <3>1, <3>3, <3>4, HeadWordArgs
    <3> QED
      BY <3>2, <3>4
  <2> QED
    BY <2>1, <2>2, <2>4, <2>5, <2>6, ParseShape
<1> QED
  BY <1>1, Received, PTL

-----------------------------------------------------------------------------
(* Pages of help *)

\* The first element of a concatenation.
LEMMA ConcatFirst ==
  ASSUME NEW T, NEW a \in Seq(T), NEW b \in Seq(T), Len(a) >= 1
  PROVE  Len(a \o b) >= 1 /\ (a \o b)[1] = a[1]
<1>1. /\ Len(a) \in Nat /\ Len(b) \in Nat /\ Len(a \o b) = Len(a) + Len(b)
      /\ \A k \in 1..Len(a) : (a \o b)[k] = a[k]
  BY ConcatProperties
<1>2. 1 \in 1..Len(a)
  BY <1>1
<1> QED
  BY <1>1, <1>2

\* Concatenation adds the elements, and repeats none if the two share none.
LEMMA ConcatElements ==
  ASSUME NEW T, NEW a \in Seq(T), NEW b \in Seq(T)
  PROVE  /\ a \o b \in Seq(T)
         /\ ToSet(a \o b) = ToSet(a) \cup ToSet(b)
         /\ IsInjective(a) /\ IsInjective(b) /\ ToSet(a) \cap ToSet(b) = {}
              => IsInjective(a \o b)
<1> DEFINE q == a \o b
<1>1. /\ q \in Seq(T) /\ Len(q) = Len(a) + Len(b) /\ Len(a) \in Nat /\ Len(b) \in Nat
      /\ \A k \in 1..Len(a) : q[k] = a[k]
      /\ \A k \in 1..Len(b) : q[Len(a) + k] = b[k]
      /\ \A k \in 1..Len(q) : q[k] = IF k <= Len(a) THEN a[k] ELSE b[k - Len(a)]
  BY ConcatProperties
<1>2. DOMAIN a = 1..Len(a) /\ DOMAIN b = 1..Len(b)
  OBVIOUS
<1> HIDE DEF q
<1>3. DOMAIN q = 1..Len(q)
  BY <1>1
<1>4. ASSUME NEW x \in ToSet(q) PROVE x \in ToSet(a) \cup ToSet(b)
  <2>1. PICK k \in 1..Len(q) : q[k] = x
    BY <1>3, <1>4 DEF ToSet
  <2>2. CASE k <= Len(a)
    <3>1. k \in 1..Len(a) /\ a[k] = x
      BY <1>1, <2>1, <2>2
    <3> QED
      BY <1>2, <3>1 DEF ToSet
  <2>3. CASE k > Len(a)
    <3>1. k - Len(a) \in 1..Len(b) /\ b[k - Len(a)] = x
      BY <1>1, <2>1, <2>3
    <3> QED
      BY <1>2, <3>1 DEF ToSet
  <2> QED
    BY <1>1, <2>1, <2>2, <2>3
<1>5. ASSUME NEW x \in ToSet(a) PROVE x \in ToSet(q)
  <2>1. PICK k \in 1..Len(a) : a[k] = x
    BY <1>2, <1>5 DEF ToSet
  <2>2. k \in 1..Len(q) /\ q[k] = x
    BY <1>1, <2>1
  <2> QED
    BY <1>3, <2>2 DEF ToSet
<1>6. ASSUME NEW x \in ToSet(b) PROVE x \in ToSet(q)
  <2>1. PICK k \in 1..Len(b) : b[k] = x
    BY <1>2, <1>6 DEF ToSet
  <2>2. Len(a) + k \in 1..Len(q) /\ q[Len(a) + k] = x
    BY <1>1, <2>1
  <2> QED
    BY <1>3, <2>2 DEF ToSet
<1>7. ASSUME IsInjective(a), IsInjective(b), ToSet(a) \cap ToSet(b) = {}
      PROVE  IsInjective(q)
  <2>1. ASSUME NEW k \in 1..Len(q), NEW m \in 1..Len(q), q[k] = q[m], k < m PROVE FALSE
    <3>1. CASE m <= Len(a)
      <4>1. k \in 1..Len(a) /\ m \in 1..Len(a) /\ a[k] = a[m]
        BY <1>1, <2>1, <3>1
      <4> QED
        BY <1>2, <1>7, <2>1, <4>1 DEF IsInjective
    <3>2. CASE k > Len(a)
      <4>1. k - Len(a) \in 1..Len(b) /\ m - Len(a) \in 1..Len(b)
            /\ b[k - Len(a)] = b[m - Len(a)]
        BY <1>1, <2>1, <3>2
      <4>2. k - Len(a) = m - Len(a)
        BY <1>2, <1>7, <4>1 DEF IsInjective
      <4> QED
        BY <1>1, <2>1, <4>2
    <3>3. CASE k <= Len(a) /\ m > Len(a)
      <4>1. k \in 1..Len(a) /\ m - Len(a) \in 1..Len(b) /\ a[k] = b[m - Len(a)]
        BY <1>1, <2>1, <3>3
      <4>2. a[k] \in ToSet(a) /\ a[k] \in ToSet(b)
        BY <1>2, <4>1 DEF ToSet
      <4> QED
        BY <1>7, <4>2
    <3> QED
      BY <1>1, <2>1, <3>1, <3>2, <3>3
  <2>2. \A k, m \in 1..Len(q) : q[k] = q[m] => k = m
    BY <1>1, <2>1
  <2> QED
    BY <1>3, <2>2 DEF IsInjective
<1> QED
  BY <1>1, <1>4, <1>5, <1>6, <1>7 DEF q

\* The sequences f[i] that flatten the first i of the sequences ss.
Flattens(f, ss, n) ==
  f = [i \in 1..n |-> IF i = 1 THEN ss[i] ELSE f[i - 1] \o ss[i]]

\* The recursion by which FlattenSeq is defined has a solution.
LEMMA FlattenDefined ==
  ASSUME NEW ss, Len(ss) \in Nat
  PROVE  \A n \in 1..Len(ss) : \E f : Flattens(f, ss, n)
<1> DEFINE I == {n \in 1..Len(ss) : ~\E f : Flattens(f, ss, n)}
<1>1. SUFFICES ASSUME I # {} PROVE FALSE
  OBVIOUS
<1>2. PICK n \in I : \A k \in I : n <= k
  <2>1. I \in SUBSET Nat
    OBVIOUS
  <2> HIDE DEF I
  <2> QED
    BY <1>1, <2>1, FirstOf
<1>3. n \in 1..Len(ss) /\ ~\E f : Flattens(f, ss, n)
  BY <1>2
<1>4. CASE n = 1
  <2> DEFINE f == [i \in 1..n |-> ss[1]]
  <2>1. f = [i \in 1..n |-> IF i = 1 THEN ss[i] ELSE f[i - 1] \o ss[i]]
    BY <1>4
  <2> QED
    BY <1>3, <2>1 DEF Flattens
<1>5. CASE n # 1
  <2>1. n - 1 \in 1..Len(ss) /\ n - 1 \notin I
    BY <1>2, <1>3, <1>5
  <2>2. PICK g : Flattens(g, ss, n - 1)
    BY <2>1
  <2> DEFINE f == [i \in 1..n |-> IF i = n THEN g[n - 1] \o ss[n] ELSE g[i]]
  <2>3. ASSUME NEW i \in 1..n
        PROVE  f[i] = IF i = 1 THEN ss[i] ELSE f[i - 1] \o ss[i]
    <3>1. CASE i = n
      <4>1. f[i] = g[n - 1] \o ss[n] /\ i # 1
        BY <1>3, <1>5, <3>1
      <4>2. n - 1 \in 1..n /\ n - 1 # n
        BY <1>3, <1>5
      <4>3. f[n - 1] = g[n - 1]
        BY <4>2
      <4> QED
        BY <3>1, <4>1, <4>3
    <3>2. CASE i # n
      <4>1. i \in 1..(n - 1)
        BY <1>3, <3>2
      <4>2. g[i] = IF i = 1 THEN ss[i] ELSE g[i - 1] \o ss[i]
        BY <2>2, <4>1 DEF Flattens
      <4>3. f[i] = g[i] /\ (i # 1 => f[i - 1] = g[i - 1])
        BY <1>3, <4>1
      <4> QED
        BY <4>2, <4>3
    <3> QED
      BY <3>1, <3>2
  <2>4. f = [i \in 1..n |-> IF i = 1 THEN ss[i] ELSE f[i - 1] \o ss[i]]
    BY <2>3
  <2> HIDE DEF f
  <2> QED
    BY <1>3, <2>4 DEF Flattens
<1> QED
  BY <1>4, <1>5

\* FlattenSeq is the last value of that recursion.
LEMMA FlattenIs ==
  ASSUME NEW ss, Len(ss) \in Nat, Len(ss) # 0
  PROVE  \E f : FlattenSeq(ss) = f[Len(ss)] /\ Flattens(f, ss, Len(ss))
<1> DEFINE n == Len(ss)
           g == CHOOSE f : Flattens(f, ss, n)
<1>1. n \in 1..Len(ss)
  OBVIOUS
<1>2. Flattens(g, ss, n)
  BY <1>1, FlattenDefined
<1>3. FlattenSeq(ss) = g[n]
  BY DEF FlattenSeq, Flattens
<1> QED
  BY <1>2, <1>3

\* Sequences none of which has an element twice, and no two of which share one.
Apart(ss) ==
  /\ \A i \in 1..Len(ss) : IsInjective(ss[i])
  /\ \A i, j \in 1..Len(ss) : i # j => ToSet(ss[i]) \cap ToSet(ss[j]) = {}

\* What q is when it flattens the first n of the sequences ss.
Gathers(q, T, ss, n) ==
  /\ q \in Seq(T)
  /\ \A x : x \in ToSet(q) <=> \E i \in 1..n : x \in ToSet(ss[i])
  /\ Apart(ss) => IsInjective(q)

\* Flattening keeps the elements, and repeats none that were not repeated.
LEMMA FlattenElements ==
  ASSUME NEW T, NEW ss \in Seq(Seq(T))
  PROVE  Gathers(FlattenSeq(ss), T, ss, Len(ss))
<1>1. CASE Len(ss) = 0
  <2>1. FlattenSeq(ss) = ss /\ ss = <<>>
    BY <1>1 DEF FlattenSeq
  <2>2. DOMAIN <<>> = {}
    OBVIOUS
  <2>3. ToSet(<<>>) = {} /\ IsInjective(<<>>)
    BY <2>2 DEF ToSet, IsInjective
  <2> QED
    BY <1>1, <2>1, <2>3 DEF Gathers
<1>2. CASE Len(ss) # 0
  <2>1. Len(ss) \in Nat
    OBVIOUS
  <2>2. PICK f : FlattenSeq(ss) = f[Len(ss)] /\ Flattens(f, ss, Len(ss))
    BY <1>2, <2>1, FlattenIs
  <2>3. \A i \in 1..Len(ss) : f[i] = IF i = 1 THEN ss[i] ELSE f[i - 1] \o ss[i]
    BY <2>2 DEF Flattens
  <2> DEFINE I == {i \in 1..Len(ss) : ~Gathers(f[i], T, ss, i)}
  <2>4. ASSUME I # {} PROVE FALSE
    <3>1. PICK n \in I : \A k \in I : n <= k
      <4>1. I \in SUBSET Nat
        OBVIOUS
      <4> HIDE DEF I
      <4> QED
        BY <2>4, <4>1, FirstOf
    <3>2. n \in 1..Len(ss) /\ ~Gathers(f[n], T, ss, n) /\ ss[n] \in Seq(T)
      BY <3>1
    <3>3. CASE n = 1
      <4>1. f[n] = ss[1]
        BY <2>3, <3>2, <3>3
      <4>2. \A x : x \in ToSet(ss[1]) <=> \E i \in 1..1 : x \in ToSet(ss[i])
        OBVIOUS
      <4>3. Apart(ss) => IsInjective(ss[1])
        BY <3>2, <3>3 DEF Apart
      <4> QED
        BY <3>2, <3>3, <4>1, <4>2, <4>3 DEF Gathers
    <3>4. CASE n # 1
      <4>1. n - 1 \in 1..Len(ss) /\ n - 1 \notin I
        BY <3>1, <3>2, <3>4
      <4>2. PICK a : a = f[n - 1] /\ Gathers(a, T, ss, n - 1)
        BY <4>1
      <4>3. a \in Seq(T) /\ f[n] = a \o ss[n]
        BY <2>3, <3>2, <3>4, <4>2 DEF Gathers
      <4>4. ASSUME NEW x
            PROVE  x \in ToSet(f[n]) <=> \E i \in 1..n : x \in ToSet(ss[i])
        <5>1. x \in ToSet(f[n]) <=> x \in ToSet(a) \/ x \in ToSet(ss[n])
          BY <3>2, <4>3, ConcatElements
        <5>2. x \in ToSet(a) <=> \E i \in 1..(n - 1) : x \in ToSet(ss[i])
          BY <4>2 DEF Gathers
        <5>3. \A i : i \in 1..n <=> i \in 1..(n - 1) \/ i = n
          BY <3>2
        <5> QED
          BY <5>1, <5>2, <5>3
      <4>5. ASSUME Apart(ss) PROVE IsInjective(f[n])
        <5>1. IsInjective(a) /\ IsInjective(ss[n])
          BY <3>2, <4>2, <4>5 DEF Gathers, Apart
        <5>2. ToSet(a) \cap ToSet(ss[n]) = {}
          <6> SUFFICES ASSUME NEW x \in ToSet(a), x \in ToSet(ss[n]) PROVE FALSE
            OBVIOUS
          <6>1. PICK i \in 1..(n - 1) : x \in ToSet(ss[i])
            BY <4>2 DEF Gathers
          <6>2. i \in 1..Len(ss) /\ i # n
            BY <3>2, <6>1
          <6> QED
            BY <3>2, <4>5, <6>1, <6>2 DEF Apart
        <5> QED
          BY <3>2, <4>3, <5>1, <5>2, ConcatElements
      <4>6. f[n] \in Seq(T)
        BY <3>2, <4>3, ConcatElements
      <4> QED
        BY <3>2, <4>4, <4>5, <4>6 DEF Gathers
    <3> QED
      BY <3>3, <3>4
  <2>5. Len(ss) \in 1..Len(ss)
    BY <1>2
  <2> QED
    BY <2>2, <2>4, <2>5
<1> QED
  BY <1>1, <1>2

Entries == [section : Sections, name : Names \cup {Help}]

LEMMA EntryParts ==
  ASSUME NEW e, NEW section, NEW name, e = Entry(section, name)
  PROVE  e.section = section /\ e.name = name
BY DEF Entry

LEMMA EntryIs ==
  ASSUME NEW section \in Sections, NEW name \in Names \cup {Help}
  PROVE  Entry(section, name) \in Entries
BY DEF Entry, Entries

LEMMA SingleIs ==
  ASSUME NEW T, NEW x \in T
  PROVE  /\ <<x>> \in Seq(T) /\ Len(<<x>>) = 1
         /\ <<x>>[1] = x /\ ToSet(<<x>>) = {x} /\ IsInjective(<<x>>)
<1>1. DOMAIN <<x>> = {1} /\ <<x>>[1] = x
  OBVIOUS
<1> QED
  BY <1>1 DEF ToSet, IsInjective

LEMMA EmptyIs ==
  ASSUME NEW T
  PROVE  <<>> \in Seq(T) /\ Len(<<>>) = 0 /\ ToSet(<<>>) = {} /\ IsInjective(<<>>)
<1>1. DOMAIN <<>> = {}
  OBVIOUS
<1> QED
  BY <1>1 DEF ToSet, IsInjective

\* The elements of a sequence, by its places.
LEMMA ElementsAre ==
  ASSUME NEW T, NEW s \in Seq(T)
  PROVE  /\ DOMAIN s = 1..Len(s) /\ Len(s) \in Nat
         /\ \A x : x \in ToSet(s) <=> \E i \in 1..Len(s) : s[i] = x
         /\ IsInjective(s) <=> \A i, j \in 1..Len(s) : s[i] = s[j] => i = j
BY DEF ToSet, IsInjective

\* The entry is one of those that the section shows.
Shown(v, section, names, e) ==
  \E i \in 1..Len(names) :
    IsCommandVisible(v, names[i], section) /\ e = Entry(section, names[i])

LEMMA ShownParts ==
  ASSUME NEW v, NEW section, NEW names, NEW e, Shown(v, section, names, e)
  PROVE  e.section = section /\ \E i \in 1..Len(names) : e.name = names[i]
BY EntryParts DEF Shown

\* A listing has the entries that its section shows, each as often as its name.
LEMMA ListingElements ==
  ASSUME NEW v, NEW section \in Sections, NEW names \in Seq(Names)
  PROVE  /\ Listing(v, section, names) \in Seq(Entries)
         /\ \A e : e \in ToSet(Listing(v, section, names)) <=> Shown(v, section, names, e)
         /\ IsInjective(names) => IsInjective(Listing(v, section, names))
<1> DEFINE ss == [i \in DOMAIN names |->
                    IF IsCommandVisible(v, names[i], section)
                    THEN <<Entry(section, names[i])>> ELSE <<>>]
<1>1. DOMAIN names = 1..Len(names) /\ Len(names) \in Nat
  OBVIOUS
<1>2. ASSUME NEW i \in 1..Len(names)
      PROVE  /\ ss[i] \in Seq(Entries)
             /\ \A e : e \in ToSet(ss[i])
                         <=> IsCommandVisible(v, names[i], section)
                               /\ e = Entry(section, names[i])
             /\ IsInjective(ss[i])
  <2>1. Entry(section, names[i]) \in Entries
    BY EntryIs
  <2>2. CASE IsCommandVisible(v, names[i], section)
    <3>1. ss[i] = <<Entry(section, names[i])>>
      BY <1>1, <2>2
    <3> QED
      BY <2>1, <2>2, <3>1, SingleIs
  <2>3. CASE ~IsCommandVisible(v, names[i], section)
    <3>1. ss[i] = <<>>
      BY <1>1, <2>3
    <3> QED
      BY <2>3, <3>1, EmptyIs
  <2> QED
    BY <2>2, <2>3
<1>3. ss \in Seq(Seq(Entries)) /\ Len(ss) = Len(names)
  <2>1. ss \in [1..Len(names) -> Seq(Entries)]
    <3>1. \A i \in 1..Len(names) : ss[i] \in Seq(Entries)
      BY <1>2
    <3> QED
      BY <1>1, <3>1
  <2> HIDE DEF ss
  <2> QED
    BY <1>1, <2>1
<1>4. Listing(v, section, names) = FlattenSeq(ss)
  BY DEF Listing
<1> HIDE DEF ss
<1>5. Gathers(FlattenSeq(ss), Entries, ss, Len(names))
  BY <1>3, FlattenElements
<1>6. ASSUME IsInjective(names) PROVE Apart(ss)
  <2>1. ASSUME NEW i \in 1..Len(names), NEW j \in 1..Len(names), i # j,
               NEW e \in ToSet(ss[i]), e \in ToSet(ss[j])
        PROVE  FALSE
    <3>1. e = Entry(section, names[i]) /\ e = Entry(section, names[j])
      BY <1>2, <2>1
    <3>2. e.name = names[i] /\ e.name = names[j]
      BY <3>1, EntryParts
    <3> QED
      BY <1>1, <1>6, <2>1, <3>2 DEF IsInjective
  <2> QED
    BY <1>2, <1>3, <2>1 DEF Apart
<1>7. \A e : e \in ToSet(FlattenSeq(ss)) <=> Shown(v, section, names, e)
  BY <1>2, <1>5 DEF Gathers, Shown
<1> QED
  BY <1>4, <1>5, <1>6, <1>7 DEF Gathers

\* The commands of a configuration, as TypeOK has them.
Registry(c) ==
  /\ c.registered \in Seq(Names)
  /\ c.groups \in Seq([id : GroupIds, commands : Seq(Names)])

\* The groups of a registry have names for commands, and none is the ungrouped section.
LEMMA GroupsAre ==
  ASSUME NEW c, Registry(c)
  PROVE  /\ DOMAIN c.groups = 1..Len(c.groups) /\ Len(c.groups) \in Nat
         /\ DOMAIN c.registered = 1..Len(c.registered)
         /\ \A i \in 1..Len(c.groups) :
              /\ c.groups[i].id \in GroupIds /\ c.groups[i].commands \in Seq(Names)
              /\ c.groups[i].id \in Sections /\ c.groups[i].id # Ungrouped
<1>1. DOMAIN c.groups = 1..Len(c.groups) /\ Len(c.groups) \in Nat
  BY DEF Registry
<1>2. DOMAIN c.registered = 1..Len(c.registered)
  BY DEF Registry
<1>3. ASSUME NEW i \in 1..Len(c.groups)
      PROVE  /\ c.groups[i].id \in GroupIds /\ c.groups[i].commands \in Seq(Names)
             /\ c.groups[i].id \in Sections /\ c.groups[i].id # Ungrouped
  <2> DEFINE G == [id : GroupIds, commands : Seq(Names)]
  <2>1. c.groups \in Seq(G)
    BY DEF Registry
  <2>2. c.groups[i] \in G
    <3> HIDE DEF G
    <3> QED
      BY <2>1
  <2>3. c.groups[i].id \in GroupIds /\ c.groups[i].commands \in Seq(Names)
    BY <2>2
  <2> QED
    BY <2>3, CommandsAssumption DEF Sections
<1> QED
  BY <1>1, <1>2, <1>3

\* What the parts of a page list, and that a page lists nothing else.
LEMMA HelpTextElements ==
  ASSUME NEW c, Registry(c), NEW v
  PROVE  /\ HelpText(c, v) \in Seq(Entries)
         /\ HelpText(c, v) # <<>> /\ HelpText(c, v)[1] = Entry(Ungrouped, Help)
         /\ \A e : e \in ToSet(HelpText(c, v)) <=>
              \/ e = Entry(Ungrouped, Help)
              \/ Shown(v, Ungrouped, c.registered, e)
              \/ \E i \in 1..Len(c.groups) :
                   Shown(v, c.groups[i].id, c.groups[i].commands, e)
         /\ Validate(c) => IsInjective(HelpText(c, v))
<1> DEFINE h == <<Entry(Ungrouped, Help)>>
           u == Listing(v, Ungrouped, c.registered)
           ss == [i \in DOMAIN c.groups |-> Listing(v, c.groups[i].id, c.groups[i].commands)]
           g == FlattenSeq(ss)
<1>1. /\ DOMAIN c.groups = 1..Len(c.groups) /\ Len(c.groups) \in Nat
      /\ Ungrouped \in Sections /\ c.registered \in Seq(Names)
  BY GroupsAre DEF Registry, Sections
<1>2. ASSUME NEW i \in 1..Len(c.groups)
      PROVE  /\ ss[i] \in Seq(Entries)
             /\ \A e : e \in ToSet(ss[i]) <=> Shown(v, c.groups[i].id, c.groups[i].commands, e)
             /\ IsInjective(c.groups[i].commands) => IsInjective(ss[i])
  <2>1. ss[i] = Listing(v, c.groups[i].id, c.groups[i].commands)
    BY <1>1
  <2>2. c.groups[i].id \in Sections /\ c.groups[i].commands \in Seq(Names)
    BY GroupsAre
  <2> HIDE DEF ss
  <2> QED
    BY <2>1, <2>2, ListingElements
<1>3. ss \in Seq(Seq(Entries)) /\ Len(ss) = Len(c.groups)
  <2>1. ss \in [1..Len(c.groups) -> Seq(Entries)]
    <3>1. \A i \in 1..Len(c.groups) : ss[i] \in Seq(Entries)
      BY <1>2
    <3> QED
      BY <1>1, <3>1
  <2> HIDE DEF ss
  <2> QED
    BY <1>1, <2>1
<1>4. /\ h \in Seq(Entries) /\ Len(h) = 1 /\ h[1] = Entry(Ungrouped, Help)
      /\ ToSet(h) = {Entry(Ungrouped, Help)} /\ IsInjective(h)
  <2>1. Entry(Ungrouped, Help) \in Entries
    BY <1>1, EntryIs
  <2> QED
    BY <2>1, SingleIs
<1>5. /\ u \in Seq(Entries)
      /\ \A e : e \in ToSet(u) <=> Shown(v, Ungrouped, c.registered, e)
      /\ IsInjective(c.registered) => IsInjective(u)
  BY <1>1, ListingElements
<1>6. HelpText(c, v) = (h \o u) \o g
  BY DEF HelpText
<1> HIDE DEF h, u, ss
<1>7. Gathers(g, Entries, ss, Len(c.groups))
  BY <1>3, FlattenElements
<1> HIDE DEF g
<1>8. /\ g \in Seq(Entries)
      /\ \A e : e \in ToSet(g) <=> \E i \in 1..Len(c.groups) :
                                     Shown(v, c.groups[i].id, c.groups[i].commands, e)
  BY <1>2, <1>7 DEF Gathers
<1> DEFINE hu == h \o u
<1>9. /\ hu \in Seq(Entries) /\ ToSet(hu) = ToSet(h) \cup ToSet(u)
      /\ IsInjective(h) /\ IsInjective(u) /\ ToSet(h) \cap ToSet(u) = {} => IsInjective(hu)
      /\ Len(hu) >= 1 /\ hu[1] = h[1]
  <2>1. Len(hu) >= 1 /\ hu[1] = h[1]
    <3>1. h \in Seq(Entries) /\ u \in Seq(Entries) /\ Len(h) >= 1
      BY <1>4, <1>5
    <3> QED
      BY <3>1, ConcatFirst
  <2>2. /\ hu \in Seq(Entries) /\ ToSet(hu) = ToSet(h) \cup ToSet(u)
        /\ IsInjective(h) /\ IsInjective(u) /\ ToSet(h) \cap ToSet(u) = {} => IsInjective(hu)
    BY <1>4, <1>5, ConcatElements
  <2> HIDE DEF hu
  <2> QED
    BY <1>4, <2>1, <2>2
<1> HIDE DEF hu
<1> DEFINE q == hu \o g
<1>10. /\ q \in Seq(Entries) /\ ToSet(q) = ToSet(hu) \cup ToSet(g)
       /\ IsInjective(hu) /\ IsInjective(g) /\ ToSet(hu) \cap ToSet(g) = {} => IsInjective(q)
       /\ Len(q) >= 1 /\ q[1] = hu[1]
  <2>1. Len(q) >= 1 /\ q[1] = hu[1]
    <3>1. hu \in Seq(Entries) /\ g \in Seq(Entries) /\ Len(hu) >= 1
      BY <1>8, <1>9
    <3> QED
      BY <3>1, ConcatFirst
  <2>2. /\ q \in Seq(Entries) /\ ToSet(q) = ToSet(hu) \cup ToSet(g)
        /\ IsInjective(hu) /\ IsInjective(g) /\ ToSet(hu) \cap ToSet(g) = {} => IsInjective(q)
    BY <1>8, <1>9, ConcatElements
  <2> HIDE DEF q
  <2> QED
    BY <1>9, <2>1, <2>2
<1>11. HelpText(c, v) = q
  BY <1>6 DEF hu
<1> HIDE DEF q
<1>12. ASSUME Validate(c) PROVE IsInjective(q)
  <2>1. IsInjective(c.registered) /\ Help \notin ToSet(c.registered)
    BY <1>12 DEF Validate, CheckSection
  <2>2. \A i \in 1..Len(c.groups) : IsInjective(c.groups[i].commands)
    BY <1>1, <1>12 DEF Validate, CheckSection
  <2>3. \A i, j \in 1..Len(c.groups) : c.groups[i].id = c.groups[j].id => i = j
    <3>1. IsInjective([i \in DOMAIN c.groups |-> c.groups[i].id])
      BY <1>12 DEF Validate
    <3> QED
      BY <1>1, <3>1 DEF IsInjective
  <2>4. ToSet(h) \cap ToSet(u) = {}
    <3> SUFFICES ASSUME Entry(Ungrouped, Help) \in ToSet(u) PROVE FALSE
      BY <1>4
    <3>1. PICK i \in 1..Len(c.registered) : Entry(Ungrouped, Help) = Entry(Ungrouped, c.registered[i])
      BY <1>5 DEF Shown
    <3>2. c.registered[i] = Help
      BY <3>1 DEF Entry
    <3> QED
      BY <1>1, <2>1, <3>2, ElementsAre
  <2>5. ASSUME NEW e \in ToSet(hu), e \in ToSet(g) PROVE FALSE
    <3>1. e.section = Ungrouped
      <4>1. e = Entry(Ungrouped, Help) \/ Shown(v, Ungrouped, c.registered, e)
        BY <1>4, <1>5, <1>9, <2>5
      <4> QED
        BY <4>1, EntryParts, ShownParts
    <3>2. PICK i \in 1..Len(c.groups) : Shown(v, c.groups[i].id, c.groups[i].commands, e)
      BY <1>8, <2>5
    <3>3. e.section = c.groups[i].id
      BY <3>2, ShownParts
    <3> QED
      BY <3>1, <3>2, <3>3, GroupsAre
  <2>6. Apart(ss)
    <3>1. ASSUME NEW i \in 1..Len(c.groups), NEW j \in 1..Len(c.groups), i # j,
                 NEW e \in ToSet(ss[i]), e \in ToSet(ss[j])
          PROVE  FALSE
      <4>1. /\ Shown(v, c.groups[i].id, c.groups[i].commands, e)
            /\ Shown(v, c.groups[j].id, c.groups[j].commands, e)
        BY <1>2, <3>1
      <4>2. e.section = c.groups[i].id /\ e.section = c.groups[j].id
        BY <4>1, ShownParts
      <4> QED
        BY <2>3, <3>1, <4>2
    <3> QED
      BY <1>2, <1>3, <2>2, <3>1 DEF Apart
  <2>7. IsInjective(g) /\ IsInjective(hu)
    BY <1>4, <1>5, <1>7, <1>9, <2>1, <2>4, <2>6 DEF Gathers
  <2> QED
    BY <1>10, <2>5, <2>7
<1>13. \A e : e \in ToSet(q) <=>
              \/ e = Entry(Ungrouped, Help)
              \/ Shown(v, Ungrouped, c.registered, e)
              \/ \E i \in 1..Len(c.groups) :
                   Shown(v, c.groups[i].id, c.groups[i].commands, e)
  BY <1>4, <1>5, <1>8, <1>9, <1>10
<1>14. q # <<>> /\ q[1] = Entry(Ungrouped, Help)
  BY <1>4, <1>9, <1>10
<1> QED
  BY <1>10, <1>11, <1>12, <1>13, <1>14

\* Insert makes a map of a map.
LEMMA InsertIs ==
  ASSUME NEW ids, NEW map \in Maps(ids), NEW id \in ids, NEW visible \in BOOLEAN
  PROVE  Insert(map, id, visible) \in Maps(ids)
<1>1. PICK keys \in SUBSET ids : map \in [keys -> BOOLEAN]
  BY DEF Maps
<1>2. Insert(map, id, visible) \in [keys \cup {id} -> BOOLEAN]
  BY <1>1 DEF Insert
<1>3. keys \cup {id} \in SUBSET ids
  OBVIOUS
<1> QED
  BY <1>2, <1>3 DEF Maps

\* The call is about the entry, and is the last one that is.
About(call, level, id) == call.level = level /\ call.id = id

IsLast(cs, level, id, k) ==
  /\ k \in 1..Len(cs) /\ About(cs[k], level, id)
  /\ \A m \in 1..Len(cs) : About(cs[m], level, id) => m <= k

\* The overrides of a level are what the last calls about its entries say.
MapFollows(map, cs, level) ==
  \A id :
    /\ id \in DOMAIN map =>
         \E k \in 1..Len(cs) : IsLast(cs, level, id, k) /\ map[id] = cs[k].visible
    /\ id \notin DOMAIN map => \A k \in 1..Len(cs) : ~About(cs[k], level, id)

LEMMA OverridesAre ==
  ASSUME NEW call \in Overrides
  PROVE  /\ \/ call.level = "groups" /\ call.id \in GroupIds
            \/ call.level = "commands" /\ call.id \in Names
         /\ call.visible \in BOOLEAN
BY DEF Overrides

\* Appending a call leaves the earlier ones in their places.
LEMMA AppendCall ==
  ASSUME NEW cs \in Seq(Overrides), NEW call \in Overrides
  PROVE  /\ Append(cs, call) \in Seq(Overrides)
         /\ Len(Append(cs, call)) = Len(cs) + 1 /\ Len(cs) \in Nat
         /\ Append(cs, call)[Len(cs) + 1] = call
         /\ \A k \in 1..Len(cs) : Append(cs, call)[k] = cs[k]
BY AppendProperties

\* One more call about another entry changes nothing for this one.
LEMMA LastStays ==
  ASSUME NEW cs \in Seq(Overrides), NEW call \in Overrides, NEW level, NEW id,
         ~About(call, level, id)
  PROVE  /\ \A k \in 1..Len(cs) : IsLast(cs, level, id, k) => IsLast(Append(cs, call), level, id, k)
         /\ (\A k \in 1..Len(cs) : ~About(cs[k], level, id))
              => \A k \in 1..Len(Append(cs, call)) : ~About(Append(cs, call)[k], level, id)
<1> DEFINE q == Append(cs, call)
<1>1. /\ Len(q) = Len(cs) + 1 /\ Len(cs) \in Nat /\ q[Len(cs) + 1] = call
      /\ \A k \in 1..Len(cs) : q[k] = cs[k]
  BY AppendCall
<1> HIDE DEF q
<1>2. \A k \in 1..Len(q) : k \in 1..Len(cs) \/ k = Len(cs) + 1
  BY <1>1
<1>3. \A k \in 1..Len(q) : About(q[k], level, id) => k \in 1..Len(cs) /\ About(cs[k], level, id)
  BY <1>1, <1>2
<1>4. ASSUME NEW k \in 1..Len(cs), IsLast(cs, level, id, k) PROVE IsLast(q, level, id, k)
  <2>1. k \in 1..Len(q) /\ About(q[k], level, id)
    BY <1>1, <1>4 DEF IsLast
  <2>2. \A m \in 1..Len(q) : About(q[m], level, id) => m <= k
    BY <1>3, <1>4 DEF IsLast
  <2> QED
    BY <2>1, <2>2 DEF IsLast
<1> QED
  BY <1>3, <1>4 DEF q

\* A call about one level leaves the maps of the others as they follow.
LEMMA OtherFollows ==
  ASSUME NEW map, NEW cs \in Seq(Overrides), NEW level, MapFollows(map, cs, level),
         NEW call \in Overrides, call.level # level
  PROVE  MapFollows(map, Append(cs, call), level)
<1> SUFFICES ASSUME NEW id
             PROVE  /\ id \in DOMAIN map =>
                         \E k \in 1..Len(Append(cs, call)) :
                           IsLast(Append(cs, call), level, id, k)
                             /\ map[id] = Append(cs, call)[k].visible
                    /\ id \notin DOMAIN map =>
                         \A k \in 1..Len(Append(cs, call)) : ~About(Append(cs, call)[k], level, id)
  BY DEF MapFollows
<1>1. ~About(call, level, id)
  BY DEF About
<1>2. CASE id \in DOMAIN map
  <2>1. PICK k \in 1..Len(cs) : IsLast(cs, level, id, k) /\ map[id] = cs[k].visible
    BY <1>2 DEF MapFollows
  <2>2. IsLast(Append(cs, call), level, id, k)
    BY <1>1, <2>1, LastStays
  <2>3. Append(cs, call)[k] = cs[k] /\ k \in 1..Len(Append(cs, call))
    BY AppendCall
  <2> QED
    BY <1>2, <2>1, <2>2, <2>3
<1>3. CASE id \notin DOMAIN map
  <2>1. \A k \in 1..Len(cs) : ~About(cs[k], level, id)
    BY <1>3 DEF MapFollows
  <2> QED
    BY <1>1, <1>3, <2>1, LastStays
<1> QED
  BY <1>2, <1>3

\* A call about a level is followed by the map it is inserted into.
LEMMA InsertFollows ==
  ASSUME NEW map, NEW cs \in Seq(Overrides), NEW level, MapFollows(map, cs, level),
         NEW call \in Overrides, call.level = level
  PROVE  MapFollows(Insert(map, call.id, call.visible), Append(cs, call), level)
<1> DEFINE q == Append(cs, call)
           new == Insert(map, call.id, call.visible)
<1>1. /\ Len(q) = Len(cs) + 1 /\ Len(cs) \in Nat /\ q[Len(cs) + 1] = call
      /\ \A k \in 1..Len(cs) : q[k] = cs[k]
  BY AppendCall
<1>2. /\ DOMAIN new = DOMAIN map \cup {call.id} /\ new[call.id] = call.visible
      /\ \A key \in DOMAIN map : key # call.id => new[key] = map[key]
  BY DEF Insert
<1> HIDE DEF q, new
<1>3. ASSUME NEW id, id = call.id
      PROVE  id \in DOMAIN new
               /\ \E k \in 1..Len(q) : IsLast(q, level, id, k) /\ new[id] = q[k].visible
  <2>1. Len(q) \in 1..Len(q) /\ q[Len(q)] = call
    BY <1>1
  <2>2. \A m \in 1..Len(q) : m <= Len(q)
    BY <1>1
  <2>3. IsLast(q, level, id, Len(q))
    BY <1>3, <2>1, <2>2 DEF IsLast, About
  <2> QED
    BY <1>2, <1>3, <2>1, <2>3
<1>4. ASSUME NEW id, id # call.id
      PROVE  /\ id \in DOMAIN new =>
                  \E k \in 1..Len(q) : IsLast(q, level, id, k) /\ new[id] = q[k].visible
             /\ id \notin DOMAIN new => \A k \in 1..Len(q) : ~About(q[k], level, id)
  <2>1. ~About(call, level, id)
    BY <1>4 DEF About
  <2>2. CASE id \in DOMAIN new
    <3>1. id \in DOMAIN map /\ new[id] = map[id]
      BY <1>2, <1>4, <2>2
    <3>2. PICK k \in 1..Len(cs) : IsLast(cs, level, id, k) /\ map[id] = cs[k].visible
      BY <3>1 DEF MapFollows
    <3>3. IsLast(q, level, id, k)
      BY <2>1, <3>2, LastStays DEF q
    <3>4. q[k] = cs[k] /\ k \in 1..Len(q)
      BY <1>1
    <3> QED
      BY <2>2, <3>1, <3>2, <3>3, <3>4
  <2>3. CASE id \notin DOMAIN new
    <3>1. id \notin DOMAIN map
      BY <1>2, <2>3
    <3>2. \A k \in 1..Len(cs) : ~About(cs[k], level, id)
      BY <3>1 DEF MapFollows
    <3> QED
      BY <2>1, <2>3, <3>2, LastStays DEF q
  <2> QED
    BY <2>2, <2>3
<1> QED
  BY <1>3, <1>4 DEF MapFollows, q, new

\* No override and no call.
LEMMA NothingFollows ==
  ASSUME NEW level
  PROVE  MapFollows(Nothing, <<>>, level) /\ \A ids : Nothing \in Maps(ids)
<1>1. DOMAIN Nothing = {} /\ Len(<<>>) = 0
  BY DEF Nothing
<1>2. \A ids : Nothing \in Maps(ids)
  <2>1. Nothing \in [{} -> BOOLEAN]
    BY DEF Nothing
  <2> QED
    BY <2>1 DEF Maps
<1>3. 1..0 = {}
  OBVIOUS
<1> QED
  BY <1>1, <1>2, <1>3 DEF MapFollows

Configurations ==
  [style : {"Slash", "Word"}, handle_unknown : BOOLEAN, registered : Seq(Names),
   groups : Seq([id : GroupIds, commands : Seq(Names)])]

LEMMA ConfigurationsAre ==
  ASSUME NEW c \in Configurations PROVE Registry(c)
BY DEF Configurations, Registry

LEMMA NamesAre ==
  ASSUME NEW names \in BoundedSeq(Names, MaxCommands) PROVE names \in Seq(Names)
<1>1. MaxCommands \in Nat
  BY CommandsAssumption
<1>2. PICK m \in 0..MaxCommands : names \in [1..m -> Names]
  BY DEF BoundedSeq, SeqOf
<1>3. m \in Nat
  BY <1>1
<1> QED
  BY <1>2, <1>3

\* A page lists what the registry and the visibility make of each other, and the
\* visibility is what the calls since its base say.  No name that is reserved or
\* repeated gets past New.
PageInv ==
  /\ TypeOK
  /\ status \notin {"configuring", "rejected"} => Validate(commands)
  /\ page # <<>> => status = "sending" /\ page = HelpText(commands, visibility)
  /\ status \notin {"visibility", "sending"} => calls = <<>>
  /\ status \in {"visibility", "sending"} =>
       /\ MapFollows(visibility.groups, calls, "groups")
       /\ MapFollows(visibility.commands, calls, "commands")

Visibilities == [base : BOOLEAN, groups : Maps(GroupIds), commands : Maps(Names)]

Statuses == {"configuring", "rejected", "serving", "handler", "help", "visibility", "sending"}

LEMMA TypeIs ==
  TypeOK <=>
    /\ commands \in Configurations /\ status \in Statuses
    /\ (received = Nothing \/ received.text \in Texts)
    /\ visibility \in Visibilities
    /\ calls \in Seq(Overrides) /\ page \in Seq(Entries)
BY DEF TypeOK, Configurations, Statuses, Visibilities, Entries

LEMMA TypeIsNext ==
  TypeOK' <=>
    /\ commands' \in Configurations /\ status' \in Statuses
    /\ (received' = Nothing \/ received'.text \in Texts)
    /\ visibility' \in Visibilities
    /\ calls' \in Seq(Overrides) /\ page' \in Seq(Entries)
BY DEF TypeOK, Configurations, Statuses, Visibilities, Entries

LEMMA BaseIs ==
  ASSUME NEW visible \in BOOLEAN
  PROVE  /\ Base(visible) \in Visibilities
         /\ Base(visible).groups = Nothing /\ Base(visible).commands = Nothing
BY NothingFollows DEF Base, Visibilities

LEMMA EmptyAre ==
  /\ <<>> \in Seq(Names) /\ <<>> \in Seq([id : GroupIds, commands : Seq(Names)])
  /\ <<>> \in Seq(Overrides) /\ <<>> \in Seq(Entries)
OBVIOUS

LEMMA InitPageInv == Init => PageInv
<1> SUFFICES ASSUME Init PROVE PageInv
  OBVIOUS
<1>1. /\ status = "configuring" /\ received = Nothing /\ visibility = Base(TRUE)
      /\ calls = <<>> /\ page = <<>>
      /\ commands = [style |-> "Slash", handle_unknown |-> FALSE,
                     registered |-> <<>>, groups |-> <<>>]
  BY DEF Init
<1>2. commands \in Configurations
  BY <1>1, EmptyAre DEF Configurations
<1>3. TypeOK
  BY <1>1, <1>2, EmptyAre, BaseIs, TypeIs DEF Statuses
<1> QED
  BY <1>1, <1>3 DEF PageInv

\* What the bot's author does before New.
LEMMA ConfiguringPageInv ==
  ASSUME PageInv, status = "configuring", commands' \in Configurations, Idle,
         status' = "configuring" \/ status' = "rejected"
           \/ (status' = "serving" /\ commands' = commands /\ Validate(commands))
  PROVE  PageInv'
<1>1. UNCHANGED <<received, visibility, calls, page>>
  BY DEF Idle
<1>2. calls' = <<>> /\ page' = <<>>
  BY <1>1 DEF PageInv
<1>3. TypeOK'
  BY <1>1, TypeIs, TypeIsNext DEF PageInv, Statuses
<1>4. Validate(commands)' \/ status' \in {"configuring", "rejected"}
  BY DEF Validate
<1> QED
  BY <1>2, <1>3, <1>4 DEF PageInv

\* The same, step by step.
LEMMA ConfigurePageInv ==
  ASSUME PageInv,
         \/ \E style \in {"Slash", "Word"} : Style(style)
         \/ \E enabled \in BOOLEAN : HandleUnknown(enabled)
         \/ \E name \in Names : Register(name)
         \/ \E id \in GroupIds, names \in BoundedSeq(Names, MaxCommands) : Group(id, names)
         \/ New
  PROVE  PageInv'
<1>1. commands \in Configurations
  BY TypeIs DEF PageInv
<1>2. ASSUME NEW style \in {"Slash", "Word"}, Style(style) PROVE PageInv'
  <2>1. commands' \in Configurations
    BY <1>1, <1>2 DEF Style, Configurations
  <2> QED
    BY <1>2, <2>1, ConfiguringPageInv DEF Style
<1>3. ASSUME NEW enabled \in BOOLEAN, HandleUnknown(enabled) PROVE PageInv'
  <2>1. commands' \in Configurations
    BY <1>1, <1>3 DEF HandleUnknown, Configurations
  <2> QED
    BY <1>3, <2>1, ConfiguringPageInv DEF HandleUnknown
<1>4. ASSUME NEW name \in Names, Register(name) PROVE PageInv'
  <2>1. commands.registered \in Seq(Names)
    BY <1>1 DEF Configurations
  <2>2. Append(commands.registered, name) \in Seq(Names)
    BY <2>1
  <2>3. commands' = [commands EXCEPT !.registered = Append(commands.registered, name)]
    BY <1>4 DEF Register
  <2>4. commands' \in Configurations
    BY <1>1, <2>2, <2>3 DEF Configurations
  <2> QED
    BY <1>4, <2>4, ConfiguringPageInv DEF Register
<1>5. ASSUME NEW id \in GroupIds, NEW names \in BoundedSeq(Names, MaxCommands), Group(id, names)
      PROVE  PageInv'
  <2> DEFINE G == [id : GroupIds, commands : Seq(Names)]
             new == [id |-> id, commands |-> names]
  <2>1. commands.groups \in Seq(G) /\ new \in G
    BY <1>1, NamesAre DEF Configurations
  <2>2. commands' = [commands EXCEPT !.groups = Append(commands.groups, new)]
    BY <1>5 DEF Group
  <2>3. Append(commands.groups, new) \in Seq(G)
    <3> HIDE DEF G, new
    <3> QED
      BY <2>1
  <2> DEFINE all == Append(commands.groups, new)
  <2> HIDE DEF all
  <2>4. commands' = [commands EXCEPT !.groups = all] /\ all \in Seq(G)
    BY <2>2, <2>3 DEF all
  <2>5. commands' \in Configurations
    BY <1>1, <2>4 DEF Configurations
  <2> QED
    BY <1>5, <2>5, ConfiguringPageInv DEF Group
<1>6. CASE New
  <2>1. UNCHANGED commands /\ Idle /\ status = "configuring"
        /\ status' = IF Validate(commands) THEN "serving" ELSE "rejected"
    BY <1>6 DEF New
  <2> QED
    BY <1>1, <2>1, ConfiguringPageInv
<1> QED
  BY <1>2, <1>3, <1>4, <1>5, <1>6

\* A step that neither builds a visibility nor renders a page.
LEMMA QuietPageInv ==
  ASSUME PageInv, UNCHANGED <<commands, calls, page>>,
         visibility' \in Visibilities,
         received' = Nothing \/ received'.text \in Texts,
         status \in {"serving", "handler", "help"},
         status' \in {"serving", "handler", "help"}
           \/ (status' = "visibility" /\ visibility' \in {Base(TRUE), Base(FALSE)})
  PROVE  PageInv'
<1>1. calls' = <<>> /\ page' = <<>>
  BY DEF PageInv
<1>2. TypeOK'
  BY TypeIs, TypeIsNext DEF PageInv, Statuses
<1>3. Validate(commands)'
  BY DEF PageInv, Validate
<1>4. status' = "visibility" => /\ MapFollows(visibility'.groups, calls', "groups")
                               /\ MapFollows(visibility'.commands, calls', "commands")
  BY <1>1, BaseIs, NothingFollows
<1>5. status' # "sending" /\ status' # "configuring" /\ status' # "rejected"
  OBVIOUS
<1> QED
  BY <1>1, <1>2, <1>3, <1>4, <1>5 DEF PageInv

\* One call on the visibility.
LEMMA OverridePageInv ==
  ASSUME PageInv, NEW call \in Overrides, OverrideEntry(call)
  PROVE  PageInv'
<1>1. /\ status = "visibility" /\ UNCHANGED <<commands, status, received, page>>
      /\ visibility' = [visibility EXCEPT ![call.level] = Insert(@, call.id, call.visible)]
      /\ calls' = Append(calls, call)
  BY DEF OverrideEntry
<1>2. /\ TypeOK /\ visibility \in Visibilities /\ calls \in Seq(Overrides)
      /\ visibility.groups \in Maps(GroupIds) /\ visibility.commands \in Maps(Names)
      /\ MapFollows(visibility.groups, calls, "groups")
      /\ MapFollows(visibility.commands, calls, "commands")
  BY <1>1, TypeIs DEF PageInv, Visibilities
<1>3. calls' \in Seq(Overrides)
  BY <1>1, <1>2, AppendCall
<1>4. /\ visibility' \in Visibilities
      /\ MapFollows(visibility'.groups, calls', "groups")
      /\ MapFollows(visibility'.commands, calls', "commands")
  <2>1. CASE call.level = "groups"
    <3> DEFINE new == Insert(visibility.groups, call.id, call.visible)
    <3>1. visibility' = [visibility EXCEPT !.groups = new]
      BY <1>1, <2>1
    <3>2. call.id \in GroupIds /\ call.visible \in BOOLEAN
      BY <2>1, OverridesAre
    <3>3. new \in Maps(GroupIds)
      BY <1>2, <3>2, InsertIs
    <3>4. MapFollows(new, calls', "groups")
      BY <1>1, <1>2, <2>1, InsertFollows
    <3>5. MapFollows(visibility.commands, calls', "commands")
      BY <1>1, <1>2, <2>1, OtherFollows
    <3> HIDE DEF new
    <3>6. /\ visibility' \in Visibilities
          /\ visibility'.groups = new /\ visibility'.commands = visibility.commands
      BY <1>2, <3>1, <3>3 DEF Visibilities
    <3> QED
      BY <3>4, <3>5, <3>6
  <2>2. CASE call.level = "commands"
    <3> DEFINE new == Insert(visibility.commands, call.id, call.visible)
    <3>1. visibility' = [visibility EXCEPT !.commands = new]
      BY <1>1, <2>2
    <3>2. call.id \in Names /\ call.visible \in BOOLEAN
      BY <2>2, OverridesAre
    <3>3. new \in Maps(Names)
      BY <1>2, <3>2, InsertIs
    <3>4. MapFollows(new, calls', "commands")
      BY <1>1, <1>2, <2>2, InsertFollows
    <3>5. MapFollows(visibility.groups, calls', "groups")
      BY <1>1, <1>2, <2>2, OtherFollows
    <3> HIDE DEF new
    <3>6. /\ visibility' \in Visibilities
          /\ visibility'.commands = new /\ visibility'.groups = visibility.groups
      BY <1>2, <3>1, <3>3 DEF Visibilities
    <3> QED
      BY <3>4, <3>5, <3>6
  <2> QED
    BY <2>1, <2>2, OverridesAre
<1>5. TypeOK'
  BY <1>1, <1>2, <1>3, <1>4, TypeIs, TypeIsNext
<1>6. Validate(commands)' /\ page' = <<>>
  BY <1>1 DEF PageInv, Validate
<1> QED
  BY <1>1, <1>4, <1>5, <1>6 DEF PageInv

\* One case per action.
LEMMA NextPageInv == PageInv /\ [Next]_vars => PageInv'
<1> SUFFICES ASSUME PageInv, [Next]_vars PROVE PageInv'
  OBVIOUS
<1>1. TypeOK /\ visibility \in Visibilities /\ Base(TRUE) \in Visibilities
  BY TypeIs, BaseIs DEF PageInv
<1>2. CASE \/ \E style \in {"Slash", "Word"} : Style(style)
           \/ \E enabled \in BOOLEAN : HandleUnknown(enabled)
           \/ \E name \in Names : Register(name)
           \/ \E id \in GroupIds, names \in BoundedSeq(Names, MaxCommands) : Group(id, names)
           \/ New
  BY <1>2, ConfigurePageInv
<1>3. ASSUME NEW text \in Texts, Receive(text) PROVE PageInv'
  <2>1. /\ UNCHANGED <<commands, visibility, calls, page>> /\ received'.text = text
        /\ status = "serving" /\ status' \in {"help", "handler"}
    BY <1>3 DEF Receive
  <2> QED
    BY <1>1, <2>1, QuietPageInv
<1>4. CASE HandlerReturns
  BY <1>1, <1>4, QuietPageInv DEF HandlerReturns
<1>5. ASSUME NEW visible \in BOOLEAN, ChooseBase(visible) PROVE PageInv'
  <2>1. visibility' \in {Base(TRUE), Base(FALSE)} /\ visibility' \in Visibilities
    BY <1>5, BaseIs DEF ChooseBase
  <2> QED
    BY <1>5, <2>1, QuietPageInv DEF ChooseBase
<1>6. ASSUME NEW call \in Overrides, OverrideEntry(call) PROVE PageInv'
  BY <1>6, OverridePageInv
<1>7. CASE HelpVisibilityFails \/ Sent
  <2>1. /\ status' = "serving" /\ visibility' = Base(TRUE) /\ calls' = <<>>
        /\ page' = <<>> /\ commands' = commands
        /\ received' = Nothing \/ received' = received
        /\ status \in {"help", "visibility", "sending"}
    BY <1>7 DEF HelpVisibilityFails, Sent, PageInv
  <2>2. TypeOK'
    BY <1>1, <2>1, EmptyAre, TypeIs, TypeIsNext DEF Statuses
  <2>3. Validate(commands)'
    BY <2>1 DEF PageInv, Validate
  <2> QED
    BY <2>1, <2>2, <2>3 DEF PageInv
<1>8. CASE ShowHelp
  <2>1. /\ status = "visibility" /\ status' = "sending"
        /\ page' = HelpText(commands, visibility)
        /\ UNCHANGED <<commands, received, visibility, calls>>
    BY <1>8 DEF ShowHelp
  <2>2. page' \in Seq(Entries)
    BY <1>1, <2>1, TypeIs, ConfigurationsAre, HelpTextElements
  <2>3. TypeOK'
    BY <1>1, <2>1, <2>2, TypeIs, TypeIsNext DEF Statuses
  <2>4. Validate(commands)'
    BY <2>1 DEF PageInv, Validate
  <2>5. page' = HelpText(commands', visibility')
    BY <2>1
  <2> QED
    BY <2>1, <2>3, <2>4, <2>5 DEF PageInv
<1>9. CASE Rejected \/ UNCHANGED vars
  <2>1. UNCHANGED vars
    BY <1>9 DEF Rejected
  <2>2. Validate(commands)' = Validate(commands)
    BY <2>1 DEF vars, Validate
  <2>3. TypeOK'
    BY <1>1, <2>1, TypeIs, TypeIsNext DEF vars
  <2> QED
    BY <2>1, <2>2, <2>3 DEF vars, PageInv
<1> QED
  BY <1>2, <1>3, <1>4, <1>5, <1>6, <1>7, <1>8, <1>9 DEF Next

LEMMA Paged == Spec => []PageInv
  BY InitPageInv, NextPageInv, PTL DEF Spec

\* The type invariant.
THEOREM CommandsTypeOK == Spec => []TypeOK
  BY Paged, PTL DEF PageInv

\* A page is free of repetitions, "help" included, whatever is visible: CheckSection
\* keeps them out of each section, and no two sections have an entry in common.
THEOREM CommandsListedOnce == Spec => []ListedOnce
<1>1. PageInv => ListedOnce
  <2> SUFFICES ASSUME PageInv PROVE IsInjective(page)
    BY DEF ListedOnce
  <2>1. CASE page = <<>>
    BY <2>1, EmptyIs
  <2>2. CASE page # <<>>
    <3>1. page = HelpText(commands, visibility) /\ Validate(commands)
      BY <2>2 DEF PageInv
    <3>2. Registry(commands)
      BY TypeIs, ConfigurationsAre DEF PageInv
    <3> QED
      BY <3>1, <3>2, HelpTextElements
  <2> QED
    BY <2>1, <2>2
<1> QED
  BY <1>1, Paged, PTL

\* The place of the last call about an entry.
LEMMA LastCallIs ==
  ASSUME calls \in Seq(Overrides), NEW level, NEW id
  PROVE  \/ /\ LastCall(level, id) = 0
            /\ \A k \in 1..Len(calls) : ~About(calls[k], level, id)
         \/ LastCall(level, id) # 0 /\ IsLast(calls, level, id, LastCall(level, id))
<1> DEFINE Asked(call) == call.level = level /\ call.id = id
           I == {k \in 1..Len(calls) : Asked(calls[k])}
<1>1. LastCall(level, id) = IF I # {} THEN Max(I) ELSE 0
  BY DEF LastCall, SelectLastInSeq
<1>2. CASE I = {}
  BY <1>1, <1>2 DEF About
<1>3. CASE I # {}
  <2>1. I \in SUBSET (1..Len(calls)) /\ Len(calls) \in Nat
    BY <1>3
  <2> HIDE DEF I
  <2>2. PICK j \in I : \A k \in I : k <= j
    BY <1>3, <2>1, FirstAndLast
  <2>3. \A k \in I : j >= k
    BY <2>1, <2>2
  <2>4. Max(I) \in I /\ \A k \in I : Max(I) >= k
    BY <2>3 DEF Max
  <2>5. PICK m : m = Max(I) /\ m \in I /\ \A k \in I : m >= k
    BY <2>4
  <2>6. m \in 1..Len(calls) /\ m # 0
    BY <2>1, <2>5
  <2>7. \A k \in I : k <= m
    BY <2>1, <2>5
  <2>8. IsLast(calls, level, id, m)
    BY <2>1, <2>4, <2>5, <2>6, <2>7 DEF IsLast, About, I
  <2> QED
    BY <1>1, <1>3, <2>5, <2>6, <2>8
<1> QED
  BY <1>2, <1>3

\* What the calls say of an entry, or what holds without any.
Said(call, default) == IF call = 0 THEN default ELSE calls[call].visible

SaidVisible(section, name) ==
  Said(LastCall("commands", name), Said(LastCall("groups", section), visibility.base))

\* A map that follows the calls holds what the last call about an entry says.
LEMMA SaidIs ==
  ASSUME calls \in Seq(Overrides), NEW map, NEW level, MapFollows(map, calls, level), NEW id
  PROVE  /\ id \in DOMAIN map <=> LastCall(level, id) # 0
         /\ id \in DOMAIN map => map[id] = calls[LastCall(level, id)].visible
<1>1. CASE id \in DOMAIN map
  <2>1. PICK k \in 1..Len(calls) : IsLast(calls, level, id, k) /\ map[id] = calls[k].visible
    BY <1>1 DEF MapFollows
  <2>2. PICK m : m = LastCall(level, id)
    OBVIOUS
  <2>3. m # 0 /\ IsLast(calls, level, id, m)
    BY <2>1, <2>2, LastCallIs DEF IsLast
  <2>4. k <= m /\ m <= k /\ k \in Nat /\ m \in Nat
    BY <2>1, <2>3 DEF IsLast
  <2>5. k = m
    BY <2>4
  <2> QED
    BY <1>1, <2>1, <2>2, <2>3, <2>5
<1>2. CASE id \notin DOMAIN map
  <2>1. \A k \in 1..Len(calls) : ~About(calls[k], level, id)
    BY <1>2 DEF MapFollows
  <2> QED
    BY <1>2, <2>1, LastCallIs DEF IsLast
<1> QED
  BY <1>1, <1>2

\* The visibility shows what the calls say.
LEMMA VisibleIsSaid ==
  ASSUME calls \in Seq(Overrides), NEW section, NEW name,
         MapFollows(visibility.groups, calls, "groups"),
         MapFollows(visibility.commands, calls, "commands")
  PROVE  IsCommandVisible(visibility, name, section) <=> SaidVisible(section, name)
<1>1. CASE name \in DOMAIN visibility.commands
  <2>1. /\ LastCall("commands", name) # 0
        /\ visibility.commands[name] = calls[LastCall("commands", name)].visible
    BY <1>1, SaidIs
  <2>2. IsCommandVisible(visibility, name, section) <=> visibility.commands[name]
    BY <1>1 DEF IsCommandVisible
  <2>3. SaidVisible(section, name) = calls[LastCall("commands", name)].visible
    BY <2>1 DEF SaidVisible, Said
  <2> QED
    BY <2>1, <2>2, <2>3
<1>2. CASE name \notin DOMAIN visibility.commands /\ section \in DOMAIN visibility.groups
  <2>1. /\ LastCall("commands", name) = 0 /\ LastCall("groups", section) # 0
        /\ visibility.groups[section] = calls[LastCall("groups", section)].visible
    BY <1>2, SaidIs
  <2>2. IsCommandVisible(visibility, name, section) <=> visibility.groups[section]
    BY <1>2 DEF IsCommandVisible
  <2>3. SaidVisible(section, name) = calls[LastCall("groups", section)].visible
    BY <2>1 DEF SaidVisible, Said
  <2> QED
    BY <2>1, <2>2, <2>3
<1>3. CASE name \notin DOMAIN visibility.commands /\ section \notin DOMAIN visibility.groups
  <2>1. LastCall("commands", name) = 0 /\ LastCall("groups", section) = 0
    BY <1>3, SaidIs
  <2>2. IsCommandVisible(visibility, name, section) <=> visibility.base
    BY <1>3 DEF IsCommandVisible
  <2>3. SaidVisible(section, name) = visibility.base
    BY <2>1 DEF SaidVisible, Said
  <2> QED
    BY <2>2, <2>3
<1> QED
  BY <1>1, <1>2, <1>3

\* On the page of a registry that is valid, an entry stands for one section.
LEMMA ListedIsVisible ==
  ASSUME NEW c, Registry(c), Validate(c), NEW v, NEW shown, shown = ToSet(HelpText(c, v))
  PROVE  /\ \A i \in 1..Len(c.registered) :
              Entry(Ungrouped, c.registered[i]) \in shown
                <=> IsCommandVisible(v, c.registered[i], Ungrouped)
         /\ \A i \in 1..Len(c.groups) : \A j \in 1..Len(c.groups[i].commands) :
              Entry(c.groups[i].id, c.groups[i].commands[j]) \in shown
                <=> IsCommandVisible(v, c.groups[i].commands[j], c.groups[i].id)
<1>1. \A e : e \in shown <=>
         \/ e = Entry(Ungrouped, Help)
         \/ Shown(v, Ungrouped, c.registered, e)
         \/ \E i \in 1..Len(c.groups) : Shown(v, c.groups[i].id, c.groups[i].commands, e)
  BY HelpTextElements
<1>2. ASSUME NEW section, NEW names, NEW i \in 1..Len(names)
      PROVE  Shown(v, section, names, Entry(section, names[i]))
               <=> IsCommandVisible(v, names[i], section)
  <2>1. ASSUME NEW j \in 1..Len(names), Entry(section, names[i]) = Entry(section, names[j])
        PROVE  names[i] = names[j]
    BY <2>1 DEF Entry
  <2> QED
    BY <2>1 DEF Shown
<1>3. ASSUME NEW i \in 1..Len(c.registered)
      PROVE  Entry(Ungrouped, c.registered[i]) \in shown
               <=> IsCommandVisible(v, c.registered[i], Ungrouped)
  <2> DEFINE e == Entry(Ungrouped, c.registered[i])
  <2>1. e.section = Ungrouped /\ e.name = c.registered[i]
    BY EntryParts
  <2>2. e # Entry(Ungrouped, Help)
    <3>1. Help \notin ToSet(c.registered)
      BY DEF Validate, CheckSection
    <3>2. c.registered[i] \in ToSet(c.registered)
      BY ElementsAre DEF Registry
    <3>3. Entry(Ungrouped, Help).name = Help
      BY EntryParts
    <3> QED
      BY <2>1, <3>1, <3>2, <3>3
  <2>3. \A k \in 1..Len(c.groups) : ~Shown(v, c.groups[k].id, c.groups[k].commands, e)
    <3> SUFFICES ASSUME NEW k \in 1..Len(c.groups),
                        Shown(v, c.groups[k].id, c.groups[k].commands, e)
                 PROVE  FALSE
      OBVIOUS
    <3>1. e.section = c.groups[k].id
      BY ShownParts
    <3> QED
      BY <2>1, <3>1, GroupsAre
  <2> QED
    BY <1>1, <1>2, <2>2, <2>3
<1>4. ASSUME NEW i \in 1..Len(c.groups), NEW j \in 1..Len(c.groups[i].commands)
      PROVE  Entry(c.groups[i].id, c.groups[i].commands[j]) \in shown
               <=> IsCommandVisible(v, c.groups[i].commands[j], c.groups[i].id)
  <2> DEFINE e == Entry(c.groups[i].id, c.groups[i].commands[j])
  <2>1. e.section = c.groups[i].id /\ e.section # Ungrouped
    BY EntryParts, GroupsAre
  <2>2. e # Entry(Ungrouped, Help) /\ ~Shown(v, Ungrouped, c.registered, e)
    BY <2>1, EntryParts, ShownParts
  <2>3. \A k \in 1..Len(c.groups) : Shown(v, c.groups[k].id, c.groups[k].commands, e) => k = i
    <3> SUFFICES ASSUME NEW k \in 1..Len(c.groups),
                        Shown(v, c.groups[k].id, c.groups[k].commands, e)
                 PROVE  k = i
      OBVIOUS
    <3>1. c.groups[k].id = c.groups[i].id
      BY <2>1, ShownParts
    <3>2. IsInjective([m \in DOMAIN c.groups |-> c.groups[m].id])
      BY DEF Validate
    <3>3. DOMAIN c.groups = 1..Len(c.groups)
      BY GroupsAre
    <3> QED
      BY <3>1, <3>2, <3>3 DEF IsInjective
  <2> QED
    BY <1>1, <1>2, <2>2, <2>3
<1> QED
  BY <1>3, <1>4

\* The bot's author finds on the page what the calls say, in every section, for any
\* number of calls in any order.
THEOREM CommandsPageFollowsCalls == Spec => []PageFollowsCalls
<1>1. PageInv => PageFollowsCalls
  <2> SUFFICES ASSUME PageInv, page # <<>>
               PROVE  /\ \A i \in DOMAIN commands.registered :
                           SaidVisible(Ungrouped, commands.registered[i])
                             <=> Entry(Ungrouped, commands.registered[i]) \in ToSet(page)
                      /\ \A i \in DOMAIN commands.groups :
                           \A j \in DOMAIN commands.groups[i].commands :
                             SaidVisible(commands.groups[i].id, commands.groups[i].commands[j])
                               <=> Entry(commands.groups[i].id, commands.groups[i].commands[j])
                                     \in ToSet(page)
    BY DEF PageFollowsCalls, SaidVisible, Said
  <2>1. /\ page = HelpText(commands, visibility) /\ status = "sending" /\ Validate(commands)
        /\ MapFollows(visibility.groups, calls, "groups")
        /\ MapFollows(visibility.commands, calls, "commands")
    BY DEF PageInv
  <2>2. Registry(commands) /\ calls \in Seq(Overrides)
    BY TypeIs, ConfigurationsAre DEF PageInv
  <2>3. \A section, name : IsCommandVisible(visibility, name, section)
                             <=> SaidVisible(section, name)
    BY <2>1, <2>2, VisibleIsSaid
  <2>4. /\ \A i \in 1..Len(commands.registered) :
             Entry(Ungrouped, commands.registered[i]) \in ToSet(page)
               <=> IsCommandVisible(visibility, commands.registered[i], Ungrouped)
        /\ \A i \in 1..Len(commands.groups) : \A j \in 1..Len(commands.groups[i].commands) :
             Entry(commands.groups[i].id, commands.groups[i].commands[j]) \in ToSet(page)
               <=> IsCommandVisible(visibility, commands.groups[i].commands[j],
                                    commands.groups[i].id)
    BY <2>1, <2>2, ListedIsVisible
  <2>5. /\ DOMAIN commands.registered = 1..Len(commands.registered)
        /\ DOMAIN commands.groups = 1..Len(commands.groups)
        /\ \A i \in 1..Len(commands.groups) :
             DOMAIN commands.groups[i].commands = 1..Len(commands.groups[i].commands)
    BY <2>2, GroupsAre, ElementsAre
  <2> QED
    BY <2>3, <2>4, <2>5
<1> QED
  BY <1>1, Paged, PTL

\* A name that is registered is in some section.
LEMMA RegisteredIs ==
  ASSUME NEW c, Registry(c), NEW name
  PROVE  IsRegistered(c, name) <=>
           \/ name \in ToSet(c.registered)
           \/ \E i \in 1..Len(c.groups) : name \in ToSet(c.groups[i].commands)
<1> DEFINE ss == [i \in DOMAIN c.groups |-> c.groups[i].commands]
<1>1. ss \in Seq(Seq(Names)) /\ Len(ss) = Len(c.groups)
      /\ \A i \in 1..Len(c.groups) : ss[i] = c.groups[i].commands
  <2>1. ss \in [1..Len(c.groups) -> Seq(Names)] /\ Len(c.groups) \in Nat
    BY GroupsAre
  <2>2. \A i \in 1..Len(c.groups) : ss[i] = c.groups[i].commands
    BY GroupsAre
  <2> HIDE DEF ss
  <2> QED
    BY <2>1, <2>2
<1>2. Grouped(c) = FlattenSeq(ss)
  BY DEF Grouped
<1> HIDE DEF ss
<1>3. Gathers(Grouped(c), Names, ss, Len(c.groups))
  BY <1>1, <1>2, FlattenElements
<1>4. c.registered \in Seq(Names) /\ Grouped(c) \in Seq(Names)
  BY <1>3 DEF Registry, Gathers
<1>5. ToSet(AllCommands(c)) = ToSet(c.registered) \cup ToSet(Grouped(c))
  BY <1>4, ConcatElements DEF AllCommands
<1> QED
  BY <1>1, <1>3, <1>5 DEF IsRegistered, Gathers

\* A command that is written without arguments is parsed to it.
LEMMA BareIsParsed ==
  ASSUME NEW c, NEW w \in Seq(Tokens), OneWord(w), NEW text, text = FormatCommand(c, w)
  PROVE  /\ w = Help => Parse(c, text).kind = "Help"
         /\ w # Help /\ IsRegistered(c, w) =>
              Parse(c, text) = [kind |-> "Registered", name |-> w, args |-> <<>>]
<1> DEFINE p == StylePrefix(c)
<1>1. p \in Heads /\ p \in Seq(Tokens) /\ text = p \o w
  BY HeadOfStyle, HeadsAre DEF FormatCommand
<1> HIDE DEF p
<1>2. w # <<>> /\ Trimmed(w) /\ \A k \in 1..Len(w) : w[k] # Space
  BY WordIsTrimmed
<1>3. Trim(text) = text
  <2>1. text \in Seq(Tokens) /\ Trimmed(text)
    BY <1>1, <1>2, HeadIsTrimmed
  <2> QED
    BY <2>1, TrimOfTrimmed
<1>4. IsPrefix(p, text) /\ StripPrefix(text, p) = w
  BY <1>1, StripConcat
<1>5. FirstWord(w) = w
  BY <1>2, FirstWordOfWord
<1>6. Args(w, w) = <<>>
  BY ArgsOfName
<1>7. Parse(c, text) = Classify(c, text, w)
  BY <1>3, <1>4 DEF Parse, p
<1>8. ASSUME w = Help PROVE Parse(c, text).kind = "Help"
  <2>1. Classify(c, text, w) = [kind |-> "Help"]
    BY <1>2, <1>5, <1>8 DEF Classify
  <2> QED
    BY <1>7, <2>1
<1>9. ASSUME w # Help, IsRegistered(c, w)
       PROVE  Parse(c, text) = [kind |-> "Registered", name |-> w, args |-> <<>>]
  <2>1. Classify(c, text, w) = [kind |-> "Registered", name |-> w, args |-> <<>>]
    BY <1>2, <1>5, <1>6, <1>9 DEF Classify
  <2> QED
    BY <1>7, <2>1
<1> QED
  BY <1>8, <1>9

\* Behind its first entry a page lists registered names only.
LEMMA ListedIsRegistered ==
  ASSUME NEW c, Registry(c), Validate(c), NEW v, NEW q, q = HelpText(c, v),
         NEW i \in 1..Len(q), i # 1
  PROVE  IsRegistered(c, q[i].name) /\ q[i].name \in Names /\ q[i].name # Help
<1> DEFINE e == q[i]
<1>1. /\ q \in Seq(Entries) /\ q[1] = Entry(Ungrouped, Help) /\ IsInjective(q)
      /\ \A x : x \in ToSet(q) <=>
           \/ x = Entry(Ungrouped, Help)
           \/ Shown(v, Ungrouped, c.registered, x)
           \/ \E k \in 1..Len(c.groups) : Shown(v, c.groups[k].id, c.groups[k].commands, x)
  BY HelpTextElements
<1>2. 1 \in 1..Len(q)
  BY <1>1
<1>3. e # Entry(Ungrouped, Help) /\ e \in ToSet(q)
  BY <1>1, <1>2, ElementsAre
<1> HIDE DEF e
<1>4. /\ c.registered \in Seq(Names) /\ Help \notin ToSet(c.registered)
      /\ \A k \in 1..Len(c.groups) :
           c.groups[k].commands \in Seq(Names) /\ Help \notin ToSet(c.groups[k].commands)
  BY GroupsAre DEF Registry, Validate, CheckSection
<1>5. CASE Shown(v, Ungrouped, c.registered, e)
  <2>1. PICK k \in 1..Len(c.registered) : e.name = c.registered[k]
    BY <1>5, ShownParts
  <2>2. e.name \in ToSet(c.registered) /\ e.name \in Names
    BY <1>4, <2>1, ElementsAre
  <2> QED
    BY <1>4, <2>2, RegisteredIs DEF e
<1>6. ASSUME NEW k \in 1..Len(c.groups), Shown(v, c.groups[k].id, c.groups[k].commands, e)
      PROVE  IsRegistered(c, q[i].name) /\ q[i].name \in Names /\ q[i].name # Help
  <2>1. PICK names \in Seq(Names) : names = c.groups[k].commands
    BY <1>4
  <2>2. PICK m \in 1..Len(names) : e.name = names[m]
    BY <1>6, <2>1, ShownParts
  <2>3. e.name \in ToSet(names) /\ e.name \in Names
    BY <2>2, ElementsAre
  <2> QED
    BY <1>4, <2>1, <2>3, RegisteredIs DEF e
<1> QED
  BY <1>1, <1>3, <1>5, <1>6

\* A user who types what a page lists reaches it, under any registry that New accepts.
THEOREM CommandsListedIsDispatched == Spec => []ListedIsDispatched
<1>1. PageInv => ListedIsDispatched
  <2> SUFFICES ASSUME PageInv, NEW i \in DOMAIN page, OneWord(page[i].name),
                      NEW parsed,
                      parsed = Parse(commands, FormatCommand(commands, page[i].name))
               PROVE  IF i = 1 THEN parsed.kind = "Help"
                      ELSE parsed = [kind |-> "Registered", name |-> page[i].name,
                                     args |-> <<>>]
    BY DEF ListedIsDispatched
  <2>1. page \in Seq(Entries) /\ Registry(commands)
    BY TypeIs, ConfigurationsAre DEF PageInv
  <2>2. i \in 1..Len(page) /\ page # <<>>
    BY <2>1
  <2>3. page = HelpText(commands, visibility) /\ Validate(commands)
    BY <2>2 DEF PageInv
  <2>4. CASE i = 1
    <3>1. page[i].name = Help
      BY <2>1, <2>3, <2>4, HelpTextElements, EntryParts
    <3>2. Help \in Seq(Tokens)
      BY DEF Help, Tokens
    <3> QED
      BY <2>4, <3>1, <3>2, BareIsParsed
  <2>5. CASE i # 1
    <3>1. /\ IsRegistered(commands, page[i].name) /\ page[i].name \in Names
          /\ page[i].name # Help
      BY <2>1, <2>2, <2>3, <2>5, ListedIsRegistered
    <3>2. page[i].name \in Seq(Tokens)
      BY <3>1, CommandsAssumption
    <3> QED
      BY <2>5, <3>1, <3>2, BareIsParsed
  <2> QED
    BY <2>4, <2>5
<1> QED
  BY <1>1, Paged, PTL

=============================================================================
