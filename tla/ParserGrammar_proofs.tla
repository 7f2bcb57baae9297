------------------------- MODULE ParserGrammar_proofs -------------------------
(***************************************************************************)
(* Proof that toProfile accepts exactly the designations of the grammar  *)
(* of spec 4.2 and sets hasColon exactly for two names, for designations  *)
(* of every length; ParserCheck checks the same up to MaxLen bytes, and   *)
(* the normalisation of the names besides.                                 *)
(***************************************************************************)
EXTENDS ParserGrammar, SequenceTheorems, TLAPS

\* The positions of the colons of a designation.
Colons(s) == {i \in 1..Len(s) : s[i] = ":"}

\* A piece of a designation is free of colons exactly when no colon lies
\* between its bounds.
LEMMA SubSeqColonFree ==
    ASSUME NEW s \in Seq(STRING), NEW a \in Int, NEW b \in Int,
           1 <= a, b <= Len(s)
    PROVE  /\ ColonFree(SubSeq(s, a, b)) <=> \A i \in a..b : s[i] # ":"
           /\ SubSeq(s, a, b) # << >> <=> a <= b
<1>1. \A i \in a..b : s[i] \in STRING
    OBVIOUS
<1>2. /\ SubSeq(s, a, b) \in Seq(STRING)
      /\ Len(SubSeq(s, a, b)) = IF a <= b THEN b - a + 1 ELSE 0
      /\ \A j \in 1..b - a + 1 : SubSeq(s, a, b)[j] = s[a + j - 1]
    BY <1>1, SubSeqProperties
<1>3. ColonFree(SubSeq(s, a, b)) <=> \A i \in a..b : s[i] # ":"
    <2>1. ASSUME ColonFree(SubSeq(s, a, b)), NEW i \in a..b
          PROVE  s[i] # ":"
        <3>1. i - a + 1 \in 1..Len(SubSeq(s, a, b))
            BY <1>2
        <3>2. SubSeq(s, a, b)[i - a + 1] = s[i]
            BY <1>2
        <3>3. QED
            BY <2>1, <3>1, <3>2 DEF ColonFree
    <2>2. ASSUME \A i \in a..b : s[i] # ":"
          PROVE  ColonFree(SubSeq(s, a, b))
        <3> SUFFICES ASSUME NEW j \in 1..Len(SubSeq(s, a, b))
                     PROVE  SubSeq(s, a, b)[j] # ":"
            BY DEF ColonFree
        <3>1. j \in 1..b - a + 1 /\ a + j - 1 \in a..b
            BY <1>2
        <3>2. QED
            BY <1>2, <2>2, <3>1
    <2>3. QED
        BY <2>1, <2>2
<1>4. SubSeq(s, a, b) # << >> <=> a <= b
    <2>1. Len(<< >>) = 0
        BY EmptySeq
    <2>2. QED
        BY <1>2, <2>1, EmptySeq
<1>5. QED
    BY <1>3, <1>4

\* The grammar's two tokens around a colon are the regex
\* ^([^:]+):([^:]+)$: exactly one colon, neither first nor last.
LEMMA TwoTokensIsOneInnerColon ==
    ASSUME NEW s \in Seq(STRING)
    PROVE  RefTwoTokens(s) <=>
               \E i \in Colons(s) : Colons(s) = {i} /\ 1 < i /\ i < Len(s)
<1>1. Len(s) \in Nat
    OBVIOUS
<1>2. ASSUME NEW k \in 1..Len(s)
      PROVE  SplitAt(s, k) <=> Colons(s) = {k} /\ 1 < k /\ k < Len(s)
    <2>0. /\ k - 1 \in Int /\ k - 1 <= Len(s)
          /\ k + 1 \in Int /\ 1 <= k + 1
          /\ Len(s) \in Int /\ Len(s) <= Len(s)
        BY <1>1
    <2>1. /\ ColonFree(SubSeq(s, 1, k - 1)) <=> \A i \in 1..k - 1 : s[i] # ":"
          /\ SubSeq(s, 1, k - 1) # << >> <=> 1 <= k - 1
        BY <1>1, <2>0, SubSeqColonFree
    <2>2. /\ ColonFree(SubSeq(s, k + 1, Len(s))) <=> \A i \in k + 1..Len(s) : s[i] # ":"
          /\ SubSeq(s, k + 1, Len(s)) # << >> <=> k + 1 <= Len(s)
        BY <1>1, <2>0, SubSeqColonFree
    <2>3. SplitAt(s, k) <=>
              /\ s[k] = ":"
              /\ 1 <= k - 1 /\ \A i \in 1..k - 1 : s[i] # ":"
              /\ k + 1 <= Len(s) /\ \A i \in k + 1..Len(s) : s[i] # ":"
        BY <2>1, <2>2 DEF SplitAt, Token
    <2>4. (/\ s[k] = ":"
           /\ \A i \in 1..k - 1 : s[i] # ":"
           /\ \A i \in k + 1..Len(s) : s[i] # ":")
          <=> Colons(s) = {k}
        BY <1>1 DEF Colons
    <2>5. QED
        BY <1>1, <2>3, <2>4
<1>3. QED
    BY <1>2 DEF RefTwoTokens, Colons

\* The grammar's single token is the regex ^[^:]+$.
LEMMA TokenIsNoColon ==
    ASSUME NEW s \in Seq(STRING)
    PROVE  Token(s) <=> s # << >> /\ Colons(s) = {}
BY DEF Token, ColonFree, Colons

\* toProfile reports an error exactly for the designations outside the
\* grammar, and sets hasColon exactly for two tokens around a colon,
\* whatever the capabilities and however long the designation.
LEMMA ToProfileGrammar ==
    ASSUME NEW caps, NEW s \in Seq(STRING)
    PROVE  /\ ToProfile(caps, s).hasError = ~RefValid(s)
           /\ ~ToProfile(caps, s).hasError => ToProfile(caps, s).hasColon = RefTwoTokens(s)
<1> DEFINE twoNames == \E i \in Colons(s) : Colons(s) = {i} /\ 1 < i /\ i < Len(s)
<1>1. RefTwoTokens(s) <=> twoNames
    BY TwoTokensIsOneInnerColon
<1>2. Token(s) <=> s # << >> /\ Colons(s) = {}
    BY TokenIsNoColon
<1>3. CASE s = << >>
    <2>1. Len(s) = 0
        BY <1>3, EmptySeq
    <2>2. ~RefTwoTokens(s) /\ ~Token(s)
        BY <1>2, <1>3, <2>1 DEF RefTwoTokens
    <2>3. ToProfile(caps, s).hasError = TRUE
        BY <1>3 DEF ToProfile, DefaultProfile
    <2>4. QED
        BY <2>2, <2>3, Zenon DEF RefValid
<1>4. CASE s # << >> /\ twoNames
    <2>1. ToProfile(caps, s).hasError = FALSE /\ ToProfile(caps, s).hasColon = TRUE
        BY <1>4 DEF ToProfile, DefaultProfile, Colons
    <2>2. RefTwoTokens(s)
        BY <1>1, <1>4
    <2>3. QED
        BY <2>1, <2>2, Zenon DEF RefValid
<1>5. CASE s # << >> /\ ~twoNames /\ Colons(s) = {}
    <2>1. ToProfile(caps, s).hasError = FALSE /\ ToProfile(caps, s).hasColon = FALSE
        BY <1>5 DEF ToProfile, DefaultProfile, Colons
    <2>2. Token(s) /\ ~RefTwoTokens(s)
        BY <1>1, <1>2, <1>5
    <2>3. RefValid(s)
        BY <2>2 DEF RefValid
    <2>4. ToProfile(caps, s).hasError = ~RefValid(s)
        BY <2>1, <2>3
    <2>5. ToProfile(caps, s).hasColon = RefTwoTokens(s)
        BY <2>1, <2>2, Zenon DEF RefTwoTokens
    <2>6. QED
        BY <2>4, <2>5
<1>6. CASE s # << >> /\ ~twoNames /\ Colons(s) # {}
    <2>1. ToProfile(caps, s).hasError = TRUE
        BY <1>6 DEF ToProfile, DefaultProfile, Colons
    <2>2. ~Token(s) /\ ~RefTwoTokens(s)
        BY <1>1, <1>2, <1>6
    <2>3. QED
        BY <2>1, <2>2, Zenon DEF RefValid
<1>7. QED
    BY <1>3, <1>4, <1>5, <1>6, Zenon

\* Every designation the enumeration reaches is a string.
LEMMA DesignationType == Spec => []( designation \in Seq(STRING) )
<1>1. Init => designation \in Seq(STRING)
    BY EmptySeq DEF Init
<1>2. designation \in Seq(STRING) /\ [Next]_designation => (designation \in Seq(STRING))'
    <2> SUFFICES ASSUME designation \in Seq(STRING), [Next]_designation
                 PROVE  designation' \in Seq(STRING)
        OBVIOUS
    <2>1. CASE Next
        <3>1. PICK c \in Alphabet : Extend(c)
            BY <2>1 DEF Next
        <3>2. c \in STRING
            BY ParserCheckAssumption
        <3>3. QED
            BY <3>1, <3>2, AppendProperties DEF Extend
    <2>2. CASE UNCHANGED designation
        BY <2>2
    <2>3. QED
        BY <2>1, <2>2
<1>3. QED
    BY <1>1, <1>2, PTL DEF Spec

\* Every designation the caller may pass is accepted by toProfile exactly
\* when the grammar of spec 4.2 accepts it, with hasColon exactly for two
\* names around a colon.
THEOREM ParserAcceptsGrammarHolds == Spec => []ParserAcceptsGrammar
<1>1. designation \in Seq(STRING) => ParserAcceptsGrammar
    BY ToProfileGrammar DEF ParserAcceptsGrammar, Profile
<1>2. QED
    BY <1>1, DesignationType, PTL

=============================================================================
