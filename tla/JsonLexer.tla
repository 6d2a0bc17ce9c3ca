------------------------------- MODULE JsonLexer -------------------------------
(* The lexer of nlohmann json, one get() at a time: the byte order mark, white *)
(* space, literals, numbers and strings.  A character is its byte; an escape   *)
(* of a string, which takes two to six bytes, is one character of the model.   *)
(* The texts read are chosen by the environment, one character after another.  *)
EXTENDS Integers, Sequences, SequencesExt

CONSTANT MaxDigits    \* of an integer that fits 64 bits

ASSUME LexerAssumption == MaxDigits \in Nat

eof == -1
Quote == 34
Esc(letter) == 256 + letter       \* \n and its kind, by the letter
U(codepoint) == 1024 + codepoint  \* \uXXXX
BadU == 1023                      \* \u without four hexadecimal digits

VARIABLES text,    \* what get() has returned so far
          lexer    \* the scanner: where it is and what it keeps

lexerVars == <<text, lexer>>

Initial == [at |-> "bom", token_buffer |-> <<>>, number_type |-> "value_unsigned",
            ranges |-> <<>>, codepoint1 |-> 0]

Goes(s, at) == [s EXCEPT !.at = at]
Fails(s) == Goes(s, "parse_error")
Adds(s, bytes) == [s EXCEPT !.token_buffer = @ \o bytes]

(********************************* numbers **********************************)

Digits == 48 .. 57
IntegerArcs ==
    {<<"minus", {48}, "zero">>, <<"minus", 49 .. 57, "any1">>, <<"any1", Digits, "any1">>}
FractionArcs ==
    {<<"zero", {46}, "decimal1">>, <<"any1", {46}, "decimal1">>,
     <<"decimal1", Digits, "decimal2">>, <<"decimal2", Digits, "decimal2">>}
ExponentArcs ==
    {<<at, {69, 101}, "exponent">> : at \in {"zero", "any1", "decimal2"}}
        \cup {<<"exponent", {43, 45}, "sign">>}
        \cup {<<at, Digits, "any2">> : at \in {"exponent", "sign", "any2"}}
NumberArcs == IntegerArcs \cup FractionArcs \cup ExponentArcs
InNumber == {arc[1] : arc \in NumberArcs}
MayEndAtPoint == {"zero", "any1", "decimal1", "decimal2", "any2"}    \* a slip
MayEnd == {"zero", "any1", "decimal2", "any2"}

(* strtoull or strtoll where the text is an integer that fits, else strtof.     *)
(* Which of the integers as long as the limit fit (ERANGE) is left out.         *)
IntegerDigits(s) == IF s[1] = 45 THEN Len(s) - 1 ELSE Len(s)
Converted(s) ==
    IF s.number_type # "value_float" /\ IntegerDigits(s.token_buffer) > MaxDigits
    THEN "value_float" ELSE s.number_type

scan_number(s, c) ==
    LET arcs == {arc \in NumberArcs : arc[1] = s.at /\ c \in arc[2]}
    IN  IF arcs # {}
        THEN LET at == (CHOOSE arc \in arcs : TRUE)[3] IN
             [Adds(Goes(s, at), <<c>>) EXCEPT
                !.number_type = IF at \in {"decimal1", "exponent"} THEN "value_float" ELSE @]
        ELSE IF s.at \in MayEnd THEN Goes(s, Converted(s)) ELSE Fails(s)

(********************************* strings **********************************)

(* What may follow the first byte of a character.  After ED the bytes above 9F *)
(* would make a surrogate; taking them, as after any other lead, is a slip.    *)
Tail80 == <<128, 191>>
TailED == <<128, 159>>
Sequences ==
    {<<194 .. 223, <<Tail80>>>>,
     <<{224}, << <<160, 191>>, Tail80>>>>,
     <<(225 .. 236) \cup {238, 239}, <<Tail80, Tail80>>>>,
     <<{237}, <<TailED, Tail80>>>>,
     <<{240}, << <<144, 191>>, Tail80, Tail80>>>>,
     <<241 .. 243, <<Tail80, Tail80, Tail80>>>>,
     <<{244}, << <<128, 143>>, Tail80, Tail80>>>>}

next_byte_in_range(s, c) ==
    IF s.ranges[1][1] <= c /\ c <= s.ranges[1][2]
    THEN [Adds(s, <<c>>) EXCEPT !.ranges = Tail(@)] ELSE Fails(s)

Escaped ==
    [e \in {34, 92, 47, 98, 102, 110, 114, 116} |->
        CASE e = 98 -> 8 [] e = 102 -> 12 [] e = 110 -> 10 [] e = 114 -> 13 [] e = 116 -> 9
          [] OTHER -> e]

(* The bytes of a code point. *)
InBytes(cp) ==
    IF cp < 128 THEN <<cp>>
    ELSE IF cp <= 2047 THEN <<192 + cp \div 64, 128 + (cp % 64)>>
    ELSE IF cp <= 65535 THEN <<224 + cp \div 4096, 128 + ((cp \div 64) % 64), 128 + (cp % 64)>>
    ELSE <<240 + cp \div 262144, 128 + ((cp \div 4096) % 64),
           128 + ((cp \div 64) % 64), 128 + (cp % 64)>>

High == 55296 .. 56319
Low == 56320 .. 57343
Pair(high, low) == high * 1024 + low - 56613888

UnicodeEscape(s, cp) ==
    IF s.codepoint1 # 0
    THEN IF cp \in Low
         THEN Adds([s EXCEPT !.codepoint1 = 0], InBytes(Pair(s.codepoint1, cp)))
         ELSE Fails(s)
    ELSE IF cp \in High THEN [s EXCEPT !.codepoint1 = cp]
    ELSE IF cp \in Low THEN Fails(s) ELSE Adds(s, InBytes(cp))

Plain == 32 .. 127    \* without the quote and the backslash, which come before

scan_string(s, c) ==
    IF s.ranges # <<>> THEN next_byte_in_range(s, c)
    ELSE IF c >= U(0) THEN UnicodeEscape(s, c - U(0))
    ELSE IF s.codepoint1 # 0 THEN Fails(s)
    ELSE IF c = Quote THEN Goes(s, "value_string")
    ELSE IF c \in {Esc(e) : e \in DOMAIN Escaped} THEN Adds(s, <<Escaped[c - 256]>>)
    ELSE IF c \in Plain THEN Adds(s, <<c>>)
    ELSE IF \E q \in Sequences : c \in q[1]
         THEN [Adds(s, <<c>>) EXCEPT !.ranges = (CHOOSE q \in Sequences : c \in q[1])[2]]
    ELSE Fails(s)

(****************************** the other tokens ******************************)

Literals ==
    [c \in {116, 102, 110} |->
        CASE c = 116 -> <<114, 117, 101>> [] c = 102 -> <<97, 108, 115, 101>>
          [] c = 110 -> <<117, 108, 108>>]
LiteralTokens ==
    [c \in {116, 102, 110} |->
        CASE c = 116 -> "literal_true" [] c = 102 -> "literal_false" [] c = 110 -> "literal_null"]

scan_literal(s, c) ==
    LET left == s.ranges IN
    IF c # Head(left) THEN Fails(s)
    ELSE [s EXCEPT !.ranges = Tail(left), !.at = IF Len(left) = 1 THEN s.number_type ELSE @]

Structural ==
    [c \in {91, 93, 123, 125, 58, 44} |->
        CASE c = 91 -> "begin_array" [] c = 93 -> "end_array" [] c = 123 -> "begin_object"
          [] c = 125 -> "end_object" [] c = 58 -> "name_separator" [] c = 44 -> "value_separator"]

WhiteSpace == {32, 9, 10, 13}

(* What the first character of a token calls for. *)
scan(s, c) ==
    IF c \in WhiteSpace THEN Goes(s, "token")
    ELSE IF c \in DOMAIN Structural THEN Goes(s, Structural[c])
    ELSE IF c \in DOMAIN Literals
         THEN [s EXCEPT !.at = "literal", !.ranges = Literals[c], !.number_type = LiteralTokens[c]]
    ELSE IF c = Quote THEN Goes(s, "string")
    ELSE IF c = 45 THEN [Adds(Goes(s, "minus"), <<c>>) EXCEPT !.number_type = "value_integer"]
    ELSE IF c \in Digits THEN Adds(Goes(s, IF c = 48 THEN "zero" ELSE "any1"), <<c>>)
    ELSE IF c \in {0, eof} THEN Goes(s, "end_of_input")
    ELSE Fails(s)

skip_bom(s, c) ==
    IF s.at = "bom" THEN IF c = 239 THEN Goes(s, "bom1") ELSE scan(s, c)
    ELSE IF s.at = "bom1" THEN IF c = 187 THEN Goes(s, "bom2") ELSE Fails(s)
    ELSE IF c = 191 THEN Goes(s, "token") ELSE Fails(s)

get(s, c) ==
    IF s.at \in {"bom", "bom1", "bom2"} THEN skip_bom(s, c)
    ELSE IF s.at = "token" THEN scan(s, c)
    ELSE IF s.at = "string" THEN scan_string(s, c)
    ELSE IF s.at = "literal" THEN scan_literal(s, c)
    ELSE scan_number(s, c)

Scanning(s) == s.at \in {"bom", "bom1", "bom2", "token", "string", "literal"} \cup InNumber
LexerInit == text = <<>> /\ lexer = Initial

(* The next character: nothing new is begun once a bound is reached, but what   *)
(* was begun may be finished.                                                  *)
ReadCharacter(c, bound) ==
    /\ Scanning(lexer)
    /\ \/ Len(text) < bound
       \/ lexer.ranges # <<>>
       \/ lexer.at = "string" /\ c \in {Quote, eof}
    /\ text' = Append(text, c)
    /\ lexer' = get(lexer, c)

(* The string a text with nothing else in it stands for. *)
Scanned(s) == FoldLeft(get, [Initial EXCEPT !.at = "string"], s)

--------------------------------------------------------------------------------

(* JSON's numbers, by where their parts end: a minus, an integer without       *)
(* leading zeros, a fraction, an exponent, each where the grammar has it.      *)
IsInteger(s, from, to) ==
    from <= to /\ (\A k \in from .. to : s[k] \in Digits) /\ (s[from] = 48 => from = to)
IsFraction(s, from, to) ==
    from <= to => s[from] = 46 /\ from < to /\ \A k \in from + 1 .. to : s[k] \in Digits
SignAt(s, k) == k <= Len(s) /\ s[k] \in {43, 45}
IsExponent(s, from, to) ==
    from <= to =>
        /\ s[from] \in {69, 101}
        /\ LET digits == IF SignAt(s, from + 1) THEN from + 2 ELSE from + 1
           IN  digits <= to /\ \A k \in digits .. to : s[k] \in Digits
IsNumber(s) ==
    \E minus \in 0 .. 1, i, j \in 1 .. Len(s) :
        /\ i <= j /\ (minus = 1 => s[1] = 45)
        /\ IsInteger(s, minus + 1, i) /\ IsFraction(s, i + 1, j)
        /\ IsExponent(s, j + 1, Len(s))

(* Behind the first k characters, a byte order mark and white space at most, a *)
(* number begins.                                                              *)
Precede(k) ==
    \E mark \in {0, 3} :
        /\ mark <= k /\ (mark = 3 => text[1] = 239 /\ text[2] = 187 /\ text[3] = 191)
        /\ \A i \in mark + 1 .. k : text[i] \in WhiteSpace
NumberFrom(k) == Precede(k) /\ text[k + 1] \in Digits \cup {45}

KindOf(s) ==
    IF (\E k \in DOMAIN s : s[k] \in {46, 69, 101}) \/ IntegerDigits(s) > MaxDigits
    THEN "value_float" ELSE IF s[1] = 45 THEN "value_integer" ELSE "value_unsigned"

(* A number token is the longest text that the grammar allows, with the kind   *)
(* its characters give it, and an error means that nothing could have made a   *)
(* number of what was read: scan_number's states and their look-ahead.         *)
NumbersAsInGrammar ==
    ~Scanning(lexer) =>
      \A k \in 0 .. Len(text) - 1 :
        LET taken == SubSeq(text, k + 1, Len(text) - 1)
            read  == SubSeq(text, k + 1, Len(text))
        IN  NumberFrom(k) =>
              /\ ~IsNumber(read) /\ ~IsNumber(Append(read, 48))
              /\ IF lexer.at = "parse_error" THEN ~IsNumber(taken)
                 ELSE IsNumber(taken) /\ lexer.token_buffer = taken /\ lexer.at = KindOf(taken)

================================================================================
