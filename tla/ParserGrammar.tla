---------------------------- MODULE ParserGrammar ----------------------------
(***************************************************************************)
(* The enumeration of designations that ParserCheck runs, and the part of *)
(* the designation grammar of spec 4.2 that decides which designations    *)
(* are accepted and which have two names.  It uses no recursion, so that  *)
(* ParserGrammar_proofs can prove that toProfile accepts exactly the      *)
(* grammar for designations of every length.                             *)
(***************************************************************************)
EXTENDS PortMatch

CONSTANTS Alphabet, MaxLen

ASSUME ParserCheckAssumption ==
    /\ Alphabet \subseteq STRING
    /\ MaxLen \in Nat

VARIABLE designation

Init == designation = <<>>

Extend(c) ==
    /\ Len(designation) < MaxLen
    /\ designation' = Append(designation, c)

Next == \E c \in Alphabet : Extend(c)

Spec == Init /\ [][Next]_designation

-----------------------------------------------------------------------------
(***************************************************************************)
(* The reference, from spec 4.2.                                           *)
(***************************************************************************)
ColonFree(t) == \A i \in 1..Len(t) : t[i] # ":"
Token(t) == t # <<>> /\ ColonFree(t)

\* "<A>:<B>", split at position k.
SplitAt(s, k) ==
    /\ s[k] = ":"
    /\ Token(SubSeq(s, 1, k - 1))
    /\ Token(SubSeq(s, k + 1, Len(s)))

RefTwoTokens(s) == \E k \in 1..Len(s) : SplitAt(s, k)
RefValid(s) == Token(s) \/ RefTwoTokens(s)

Profile == ToProfile(SENDER_PORT, designation)

\* toProfile's two regexes accept exactly the designations of the grammar
\* (one token, or two around one colon; the empty string, a leading or
\* trailing colon and a second colon are errors), and set hasColon exactly
\* for two tokens.
ParserAcceptsGrammar ==
    /\ Profile.hasError = ~RefValid(designation)
    /\ ~Profile.hasError => Profile.hasColon = RefTwoTokens(designation)

=============================================================================
