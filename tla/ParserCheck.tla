----------------------------- MODULE ParserCheck -----------------------------
(***************************************************************************)
(* toProfile (PortMatch) against the designation grammar of spec 4.2 and  *)
(* the profile invariant of spec 3, over every designation of at most     *)
(* MaxLen bytes of Alphabet.  The state is the designation of             *)
(* ParserGrammar; each step appends a byte, so the runs enumerate all of  *)
(* them.                                                                    *)
(*                                                                         *)
(* ParserGrammar restates which designations are valid: one colon-free   *)
(* token or two separated by a colon.  The definitions below normalise a  *)
(* token byte by byte with a fold.                                         *)
(***************************************************************************)
EXTENDS ParserGrammar, SequencesExt

-----------------------------------------------------------------------------
(***************************************************************************)
(* The normalisation of spec 4.2, as a fold over the bytes of a token.    *)
(***************************************************************************)
\* Strip whitespace, fold every other byte outside [A-Za-z0-9] to "_".
RefNormalize(t) ==
    FoldLeft(LAMBDA acc, c : IF c \in Blanks THEN acc
                             ELSE Append(acc, IF c \in Letters \cup Digits THEN c ELSE "_"),
             <<>>, t)

RefFirst(s) ==
    IF RefTwoTokens(s)
    THEN RefNormalize(SubSeq(s, 1, (CHOOSE k \in 1..Len(s) : SplitAt(s, k)) - 1))
    ELSE RefNormalize(s)

RefSecond(s) ==
    IF RefTwoTokens(s)
    THEN RefNormalize(SubSeq(s, (CHOOSE k \in 1..Len(s) : SplitAt(s, k)) + 1, Len(s)))
    ELSE <<>>

\* The pure-integer reading of a normalised token: its value when it is a
\* non-empty run of digits, NULL_ID otherwise.
RefInt(t) ==
    IF t # <<>> /\ \A i \in 1..Len(t) : t[i] \in Digits
    THEN FoldLeft(LAMBDA acc, c : 10 * acc + DigitValue(c), 0, t)
    ELSE NULL_ID

-----------------------------------------------------------------------------
(***************************************************************************)
(* Properties.                                                             *)
(***************************************************************************)

\* toProfile's two regexes accept exactly the designations of the grammar
\* (one token, or two around one colon; the empty string, a leading or
\* trailing colon and a second colon are errors), set hasColon exactly for
\* two tokens, and normalise each token as the spec says.
ParserAgreesWithGrammar ==
    /\ ParserAcceptsGrammar
    /\ ~Profile.hasError =>
          /\ Profile.hasColon = RefTwoTokens(designation)
          /\ Profile.firstName = RefFirst(designation)
          /\ Profile.secondName = RefSecond(designation)

\* Spec 3: a profile without error always has firstName populated.
ProfileNamePopulated ==
    ~Profile.hasError => Profile.firstName # <<>>

\* Spec 4.2: each normalised token's number is its pure-integer
\* interpretation; a token that is not a number maps to NULL_ID.
TokenIntIsPureInteger ==
    ~Profile.hasError =>
        /\ Profile.firstInt = RefInt(Profile.firstName)
        /\ Profile.hasColon => Profile.secondInt = RefInt(Profile.secondName)

=============================================================================
