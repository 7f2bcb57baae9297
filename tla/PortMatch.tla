----------------------------- MODULE PortMatch -----------------------------
(***************************************************************************)
(* The port-designation parser and the port matcher of alsa_client.cpp:   *)
(* normalizedIdentifier, identifierStrToInt, toProfile, match and         *)
(* findPort.  Strings are sequences of one-character strings (bytes), so  *)
(* that the conversions are modelled by what they do on every byte.       *)
(* Ports are records [client, port, clientName, portName, caps]; a        *)
(* capability bitmask is the set of its flags.                             *)
(***************************************************************************)
EXTENDS Integers, Sequences, FiniteSets

NULL_ID == -1

\* PortID: a (client, port) pair; NULL_PORT_ID denotes "not found".
PortID(c, p) == [client |-> c, port |-> p]
NULL_PORT_ID == PortID(NULL_ID, NULL_ID)
IdOf(p) == PortID(p.client, p.port)

\* The capability flags of ALSA that the client uses.
CapFlags == {"READ", "SUBS_READ", "WRITE", "SUBS_WRITE"}
\* SENDER_PORT (alsa_util.h): a port other clients can read from.
SENDER_PORT == {"READ", "SUBS_READ"}
\* The capabilities newReceiverPort gives our own port.
RECEIVER_CAPS == {"WRITE", "SUBS_WRITE"}

\* fulfills(caps, wanted) of alsa_util.h: every wanted bit is set.
Fulfills(caps, wanted) == wanted \subseteq caps

(***************************************************************************)
(* Characters.  The regex \s of normalizedIdentifier is the set Blanks.   *)
(***************************************************************************)
DigitChars == <<"0", "1", "2", "3", "4", "5", "6", "7", "8", "9">>
Digits == {DigitChars[i] : i \in 1..10}
Letters == {"a", "b", "c", "d", "e", "f", "g", "h", "i", "j", "k", "l", "m",
            "n", "o", "p", "q", "r", "s", "t", "u", "v", "w", "x", "y", "z",
            "A", "B", "C", "D", "E", "F", "G", "H", "I", "J", "K", "L", "M",
            "N", "O", "P", "Q", "R", "S", "T", "U", "V", "W", "X", "Y", "Z"}
\* \s of ECMAScript regexes: space, tab, newline, form feed, carriage
\* return (vertical tab has no TLA+ escape).
Blanks == {" ", "\t", "\n", "\f", "\r"}
DigitValue(c) == CHOOSE v \in 0..9 : DigitChars[v + 1] = c

\* INT_MAX of the 32-bit int std::stoi returns.
IntMax == 2147483647

(***************************************************************************)
(* normalizedIdentifier: drop every whitespace byte, then replace every   *)
(* byte outside [a-zA-Z0-9] by "_".                                        *)
(***************************************************************************)
\* Mutant: the whitespace is not removed first.
NormalizedIdentifierKeepsBlanks(s) ==
    [i \in 1..Len(s) |-> IF s[i] \in Letters \cup Digits THEN s[i] ELSE "_"]

NormalizedIdentifier(s) ==
    LET noBlanks == SelectSeq(s, LAMBDA c : c \notin Blanks)
    IN  [i \in 1..Len(noBlanks) |->
            IF noBlanks[i] \in Letters \cup Digits THEN noBlanks[i] ELSE "_"]

(***************************************************************************)
(* identifierStrToInt: std::stoi, which skips leading whitespace, reads   *)
(* the longest run of leading digits (it does not require the whole       *)
(* string to be a number), throws when there is no digit or the value     *)
(* exceeds INT_MAX; the catch turns both into NULL_ID.  A sign byte is    *)
(* accepted by stoi; the argument here is always normalized, so it has    *)
(* none.                                                                  *)
(***************************************************************************)
IdentifierStrToInt(s) ==
    LET start == CHOOSE i \in 0..Len(s) :
                    /\ \A j \in 1..i : s[j] \in Blanks
                    /\ i < Len(s) => s[i + 1] \notin Blanks
        digitRuns == {n \in 0..(Len(s) - start) :
                         \A j \in 1..n : s[start + j] \in Digits}
        n == CHOOSE k \in digitRuns : \A m \in digitRuns : m <= k
        val[i \in 0..n] == IF i = 0 THEN 0
                           ELSE 10 * val[i - 1] + DigitValue(s[start + i])
    IN  IF n = 0 \/ val[n] > IntMax THEN NULL_ID ELSE val[n]

(***************************************************************************)
(* PortProfile, and toProfile(caps, designation).  errorMessage is text   *)
(* and left out; the other fields of an error profile keep their          *)
(* default values.                                                        *)
(***************************************************************************)
DefaultProfile(caps) ==
    [hasError |-> FALSE, caps |-> caps, hasColon |-> FALSE,
     firstInt |-> NULL_ID, firstName |-> <<>>,
     secondInt |-> NULL_ID, secondName |-> <<>>]

\* Mutant: the two-name regex written with * instead of +, so that an
\* empty name before or after the colon is accepted.
ToProfileEmptyNames(caps, designation) ==
    LET result == DefaultProfile(caps)
        colons == {i \in 1..Len(designation) : designation[i] = ":"}
        twoNames == \E i \in colons : colons = {i}
        colonAt == CHOOSE i \in colons : TRUE
        first == NormalizedIdentifier(SubSeq(designation, 1, colonAt - 1))
        second == NormalizedIdentifier(SubSeq(designation, colonAt + 1, Len(designation)))
        one == NormalizedIdentifier(designation)
    IN  IF designation = <<>> THEN [result EXCEPT !.hasError = TRUE]
        ELSE CASE twoNames ->
                    [result EXCEPT !.hasColon = TRUE,
                                   !.firstName = first, !.secondName = second,
                                   !.firstInt = IdentifierStrToInt(first),
                                   !.secondInt = IdentifierStrToInt(second)]
               [] colons = {} ->
                    [result EXCEPT !.firstName = one,
                                   !.firstInt = IdentifierStrToInt(one)]
               [] OTHER -> [result EXCEPT !.hasError = TRUE]

ToProfile(caps, designation) ==
    LET result == DefaultProfile(caps)
        colons == {i \in 1..Len(designation) : designation[i] = ":"}
        \* the regex ^([^:]+):([^:]+)$
        twoNames == \E i \in colons : colons = {i} /\ 1 < i /\ i < Len(designation)
        colonAt == CHOOSE i \in colons : TRUE
        first == NormalizedIdentifier(SubSeq(designation, 1, colonAt - 1))
        second == NormalizedIdentifier(SubSeq(designation, colonAt + 1, Len(designation)))
        one == NormalizedIdentifier(designation)
    IN  IF designation = <<>> THEN [result EXCEPT !.hasError = TRUE]
        ELSE CASE twoNames ->
                    [result EXCEPT !.hasColon = TRUE,
                                   !.firstName = first, !.secondName = second,
                                   !.firstInt = IdentifierStrToInt(first),
                                   !.secondInt = IdentifierStrToInt(second)]
               \* the regex ^[^:]+$
               [] colons = {} ->
                    [result EXCEPT !.firstName = one,
                                   !.firstInt = IdentifierStrToInt(one)]
               [] OTHER -> [result EXCEPT !.hasError = TRUE]

(***************************************************************************)
(* match(caps, port, clientName, portName, requested): the capability     *)
(* filter, then the identity test.                                         *)
(***************************************************************************)
IdentityMatches(port, clientName, portName, requested) ==
    LET normalClientName == NormalizedIdentifier(clientName)
        normalPortName == NormalizedIdentifier(portName)
        firstMatches == NormalizedIdentifier(requested.firstName) = normalClientName
        secondMatches == NormalizedIdentifier(requested.secondName) = normalPortName
    IN  IF requested.hasColon
        THEN \/ /\ requested.firstInt = port.client
                /\ requested.secondInt = port.port \/ secondMatches
             \/ /\ firstMatches
                /\ secondMatches \/ requested.secondInt = port.port
        ELSE NormalizedIdentifier(requested.firstName) = normalPortName

\* Mutant: match without the capability filter.
MatchNoCaps(caps, port, clientName, portName, requested) ==
    IdentityMatches(port, clientName, portName, requested)

Match(caps, port, clientName, portName, requested) ==
    /\ Fulfills(caps, requested.caps)
    /\ IdentityMatches(port, clientName, portName, requested)

MatchesPort(p, requested) ==
    Match(p.caps, IdOf(p), p.clientName, p.portName, requested)

(***************************************************************************)
(* findPort(requested, match): the sequencer enumerates clients in         *)
(* ascending client number and the ports of a client in ascending port    *)
(* number (snd_seq_query_next_client / _next_port); the first port that   *)
(* matches is returned, NULL_PORT_ID when none does or the profile is in  *)
(* error.  The enumeration is taken as one snapshot of the port table.    *)
(***************************************************************************)
FindPort(requested, ports) ==
    LET found == {p \in ports : MatchesPort(p, requested)}
        \* the outer loop: the lowest client number with a matching port
        firstClient == CHOOSE c \in {p.client : p \in found} :
                          \A q \in found : c <= q.client
        \* the inner loop: that client's lowest matching port number
        inClient == {p \in found : p.client = firstClient}
        first == CHOOSE p \in inClient : \A q \in inClient : p.port <= q.port
    IN  IF requested.hasError \/ found = {} THEN NULL_PORT_ID ELSE IdOf(first)

=============================================================================
