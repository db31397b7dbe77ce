-------------------------------- MODULE Keys --------------------------------
(***************************************************************************)
(* The two conversions of keys in ocpp.charge_point: camelCase, as the     *)
(* schemas write them, and snake_case, as Python does.  Both go through    *)
(* the same rewriting as the code, since what matters is that they undo    *)
(* each other on the keys of OCPP.  TLC reads a string as a sequence.      *)
(***************************************************************************)
EXTENDS Naturals, Sequences

Upper == {"A", "B", "C", "D", "E", "F", "G", "H", "I", "J", "K", "L", "M",
          "N", "O", "P", "Q", "R", "S", "T", "U", "V", "W", "X", "Y", "Z"}
Lower == {"a", "b", "c", "d", "e", "f", "g", "h", "i", "j", "k", "l", "m",
          "n", "o", "p", "q", "r", "s", "t", "u", "v", "w", "x", "y", "z"}
Digit == {"0", "1", "2", "3", "4", "5", "6", "7", "8", "9"}
ToLower == [A |-> "a", B |-> "b", C |-> "c", D |-> "d", E |-> "e", F |-> "f",
  G |-> "g", H |-> "h", I |-> "i", J |-> "j", K |-> "k", L |-> "l",
  M |-> "m", N |-> "n", O |-> "o", P |-> "p", Q |-> "q", R |-> "r",
  S |-> "s", T |-> "t", U |-> "u", V |-> "v", W |-> "w", X |-> "x",
  Y |-> "y", Z |-> "z"]
ToUpper == [c \in Lower |-> CHOOSE u \in Upper : ToLower[u] = c]

At(s, i) == IF i \in 1..Len(s) THEN SubSeq(s, i, i) ELSE ""

\* str.replace(): every occurrence, from the left.
Replace(s, old, new) ==
  LET n == Len(old)
      f[i \in 1..Len(s) + n] ==
        IF i > Len(s) THEN ""
        ELSE IF i + n - 1 <= Len(s) /\ SubSeq(s, i, i + n - 1) = old
        THEN new \o f[i + n]
        ELSE At(s, i) \o f[i + 1]
  IN  f[1]

\* One replacement after another, each <<old, new>>.
ReplaceEach(s, pairs) ==
  LET f[i \in 0..Len(pairs)] ==
        IF i = 0 THEN s ELSE Replace(f[i - 1], pairs[i][1], pairs[i][2])
  IN  f[Len(pairs)]

LowerCase(s) ==
  LET f[i \in 1..Len(s) + 1] ==
        IF i > Len(s) THEN ""
        ELSE (IF At(s, i) \in Upper THEN ToLower[At(s, i)] ELSE At(s, i))
             \o f[i + 1]
  IN  f[1]

\* re.sub("(.)([A-Z][a-z]+)", r"\1_\2", s): a word that starts with a capital
\* is set off from what precedes it.
SplitWords(s) ==
  LET End(i) == CHOOSE e \in i..Len(s) :
                  /\ \A k \in i..e : At(s, k) \in Lower
                  /\ At(s, e + 1) \notin Lower
      f[i \in 1..Len(s) + 1] ==
        IF i > Len(s) THEN ""
        ELSE IF At(s, i + 1) \in Upper /\ At(s, i + 2) \in Lower
        THEN At(s, i) \o "_" \o SubSeq(s, i + 1, End(i + 2)) \o f[End(i + 2) + 1]
        ELSE At(s, i) \o f[i + 1]
  IN  f[1]

\* re.sub("([a-z0-9])([A-Z])(?=\S)", r"\1_\2", s): so is a capital that
\* follows a small letter, unless it is the last character.
SplitCapitals(s) ==
  LET f[i \in 1..Len(s) + 2] ==
        IF i > Len(s) THEN ""
        ELSE IF /\ At(s, i) \in Lower \union Digit
                /\ At(s, i + 1) \in Upper
                /\ At(s, i + 2) \notin {"", " "}
        THEN At(s, i) \o "_" \o At(s, i + 1) \o f[i + 2]
        ELSE At(s, i) \o f[i + 1]
  IN  f[1]

OnlyWords(k) == LowerCase(SplitWords(k)) \* mutant: the second pass is left out
CamelToSnake(k) ==
  LowerCase(SplitCapitals(SplitWords(ReplaceEach(k,
    <<<<"ocppCSMSURL", "ocpp_csms_url">>, <<"V2X", "_v2x">>, <<"V2G", "_v2g">>>>))))

\* components[0] and the others with a capital.
JoinWords(s) ==
  LET f[i \in 1..Len(s) + 2] ==
        IF i > Len(s) THEN ""
        ELSE IF At(s, i) # "_" THEN At(s, i) \o f[i + 1]
        ELSE IF At(s, i + 1) \in Lower THEN ToUpper[At(s, i + 1)] \o f[i + 2]
        ELSE f[i + 1]
  IN  f[1]

SnakeToCamel(k) ==
  JoinWords(ReplaceEach(k,
    <<<<"soc", "SoC">>, <<"_v2x", "V2X">>, <<"ocpp_csms_url", "ocppCsmsUrl">>,
      <<"csms", "CSMS">>, <<"_url", "URL">>, <<"soc", "SoC">>,
      <<"_SoCket", "Socket">>, <<"_v2x", "V2X">>,
      <<"soc_limit_reached", "SOCLimitReached">>,
      <<"_v2x", "V2X">>, <<"_v2g", "V2G">>>>))
=============================================================================
