-------------------------------- MODULE JsonDump --------------------------------
(* The serializer of nlohmann json: dump_escaped with its UTF-8 decoder, one   *)
(* byte at a time, for any bytes and every error handler.  The strings are     *)
(* those that the lexer has scanned, and any that come from elsewhere (a ROS   *)
(* string).                                                                    *)
EXTENDS JsonLexer

CONSTANT MaxRaw    \* bytes of a string from elsewhere

ASSUME DumpAssumption == MaxRaw \in Nat

VARIABLES raw,      \* the string
          dumper    \* dump_escaped: its arguments, its locals and where it is

dumpVars == <<raw, dumper>>

Min2(m, n) == IF m < n THEN m ELSE n

(* The decoder's classes of bytes and its automaton: state 0 accepts, 1 rejects.*)
ByteType(b) ==
    CASE b <= 127 -> 0 [] b \in 128 .. 143 -> 1 [] b \in 144 .. 159 -> 9
      [] b \in 160 .. 191 -> 7 [] b \in 194 .. 223 -> 2 [] b = 224 -> 10
      [] b = 237 -> 4 [] b \in 225 .. 239 \ {237} -> 3 [] b = 240 -> 11
      [] b \in 241 .. 243 -> 6 [] b = 244 -> 5 [] OTHER -> 8
First ==
    [type \in {0, 2, 3, 4, 5, 6, 10, 11} |->
        CASE type = 0 -> 0 [] type = 2 -> 2 [] type = 3 -> 3 [] type = 4 -> 5 [] type = 5 -> 8
          [] type = 6 -> 7 [] type = 10 -> 4 [] type = 11 -> 6]
Further ==
    [state \in 2 .. 8 |->
        CASE state = 2 -> <<{1, 7, 9}, 0>> [] state = 3 -> <<{1, 7, 9}, 2>>
          [] state = 4 -> <<{7}, 2>> [] state = 5 -> <<{1, 9}, 2>> [] state = 6 -> <<{7, 9}, 3>>
          [] state = 7 -> <<{1, 7, 9}, 3>> [] state = 8 -> <<{1}, 3>>]

decode(state, b) ==
    LET type == ByteType(b) IN
    IF state = 0 THEN IF type \in DOMAIN First THEN First[type] ELSE 1
    ELSE IF type \in Further[state][1] THEN Further[state][2] ELSE 1

Codepoint(state, cp, b) ==
    IF state # 0 THEN cp * 64 + (b % 64) ELSE b % (2 ^ (8 - Min2(ByteType(b), 8)))

Letter(cp) == CHOOSE e \in DOMAIN Escaped : Escaped[e] = cp
Written(cp, b, ensure_ascii) ==
    IF cp \in {8, 9, 10, 12, 13, 34, 92} THEN <<Esc(Letter(cp))>>
    ELSE IF cp <= 31 \/ (ensure_ascii /\ cp >= 127)
         THEN IF cp <= 65535 THEN <<U(cp)>>
              ELSE <<U(55232 + cp \div 1024), U(56320 + (cp % 1024))>>
    ELSE <<b>>

Replacement(handler, ensure_ascii) ==
    IF handler # "replace" THEN <<>> ELSE IF ensure_ascii THEN <<U(65533)>> ELSE <<239, 191, 189>>

(* A byte that breaks a character is read again, for itself; a slip skips it.  *)
SkipsIt(i, undumped) == i + 1
AfterReject(i, undumped) == IF undumped > 0 THEN i ELSE i + 1

(* The locals of dump_escaped: the next byte i, the decoder's state and code   *)
(* point, what is written, how much of it was there after the last whole code  *)
(* point, and the bytes since.                                                 *)
Handlers == {"strict", "ignore", "replace"}
Idle == [at |-> "idle", ensure_ascii |-> FALSE, handler |-> "strict", i |-> 1, state |-> 0,
         cp |-> 0, out |-> <<>>, accepted |-> 0, undumped |-> 0]

DumpInit == raw = <<>> /\ dumper = Idle

RawByte(b) ==
    /\ dumper.at = "idle" /\ Len(raw) < MaxRaw
    /\ raw' = Append(raw, b)
    /\ UNCHANGED dumper

dump_escaped(s, ensure_ascii, handler) ==
    /\ dumper.at = "idle"
    /\ raw' = s
    /\ dumper' = [Idle EXCEPT !.at = "loop", !.ensure_ascii = ensure_ascii, !.handler = handler]

Throws == [dumper EXCEPT !.at = "thrown"]    \* type_error.316

(* What is left of a character that breaks off. *)
Rejected ==
    SubSeq(dumper.out, 1, dumper.accepted) \o Replacement(dumper.handler, dumper.ensure_ascii)

Accepts(b, cp) ==
    LET out == dumper.out \o Written(cp, b, dumper.ensure_ascii)
    IN  [dumper EXCEPT !.i = @ + 1, !.state = 0, !.cp = cp, !.out = out,
                       !.accepted = Len(out), !.undumped = 0]
Rejects(cp) ==
    IF dumper.handler = "strict" THEN Throws
    ELSE [dumper EXCEPT !.i = AfterReject(@, dumper.undumped), !.state = 0, !.cp = cp,
                        !.out = Rejected, !.accepted = Len(Rejected), !.undumped = 0]
GoesOn(b, state, cp) ==
    [dumper EXCEPT !.i = @ + 1, !.state = state, !.cp = cp,
                   !.out = IF dumper.ensure_ascii THEN @ ELSE Append(@, b), !.undumped = @ + 1]

DumpByte ==
    /\ dumper.at = "loop" /\ dumper.i <= Len(raw)
    /\ LET b == raw[dumper.i]
           state == decode(dumper.state, b)
           cp == Codepoint(dumper.state, dumper.cp, b)
       IN  dumper' = IF state = 0 THEN Accepts(b, cp)
                     ELSE IF state = 1 THEN Rejects(cp) ELSE GoesOn(b, state, cp)
    /\ UNCHANGED raw

DumpEnds ==
    /\ dumper.at = "loop" /\ dumper.i > Len(raw)
    /\ dumper' = IF dumper.state = 0 THEN [dumper EXCEPT !.at = "written"]
                 ELSE IF dumper.handler = "strict" THEN Throws
                 ELSE [dumper EXCEPT !.at = "written", !.out = Rejected]
    /\ UNCHANGED raw

--------------------------------------------------------------------------------

(* Text in UTF-8, by the value of its bytes: the shortest form of a code point *)
(* that is no surrogate and not beyond the last, each behind the other.        *)
BasicMax == 65535
MaxCodepoint == 1114111
OfThree == (2048 .. BasicMax) \ (High \cup Low)
OfFour == 65536 .. MaxCodepoint
Single == 0 .. 127
LeadOfTwo == 192 .. 223
LeadOfThree == 224 .. 239
LeadOfFour == 240 .. 247
Length(b) == IF b <= 127 THEN 1 ELSE IF b <= 223 THEN 2 ELSE IF b <= 239 THEN 3 ELSE 4
IsTrail(b) == b \in 128 .. 191
Trails(s, from, to) == to <= Len(s) /\ \A i \in from .. to : IsTrail(s[i])
ValueOfTwo(a, b) == (a - 192) * 64 + b - 128
ValueOfThree(a, b, c) == (a - 224) * 4096 + (b - 128) * 64 + c - 128
ValueOfFour(a, b, c, d) == (a - 240) * 262144 + (b - 128) * 4096 + (c - 128) * 64 + d - 128
IsCharacter(s, k) ==
    \/ s[k] \in Single
    \/ s[k] \in LeadOfTwo /\ Trails(s, k + 1, k + 1) /\ ValueOfTwo(s[k], s[k + 1]) >= 128
    \/ /\ s[k] \in LeadOfThree /\ Trails(s, k + 1, k + 2)
       /\ ValueOfThree(s[k], s[k + 1], s[k + 2]) \in OfThree
    \/ /\ s[k] \in LeadOfFour /\ Trails(s, k + 1, k + 3)
       /\ ValueOfFour(s[k], s[k + 1], s[k + 2], s[k + 3]) \in OfFour
Starts(s, k) == k = Len(s) + 1 \/ ~IsTrail(s[k])
IsUtf8(s) ==
    /\ Starts(s, 1)
    /\ \A k \in 1 .. Len(s) :
          Starts(s, k) => IsCharacter(s, k) /\ Starts(s, k + Length(s[k]))

(* Of any bytes, a strict dump throws exactly on those that are not text, no   *)
(* other dump throws, and none does on what the lexer has scanned: io_reeman   *)
(* publishes the dump of what it parsed, outside any try.                      *)
OnlyBadBytesThrow ==
    /\ dumper.at = "thrown" =>
          dumper.handler = "strict" /\ ~IsUtf8(raw) /\ lexer.at # "value_string"
    /\ dumper.at = "written" /\ dumper.handler = "strict" => IsUtf8(raw)

KeepsAscii(kept, b) == IF b < 128 THEN Append(kept, b) ELSE kept
Ascii(s) == FoldLeft(KeepsAscii, <<>>, s)

(* What dump writes can always be read: text as it is, with "ignore" and       *)
(* "replace" nothing of a broken character, and each letter beside one.  The   *)
(* index that steps back, the decoder and the count of accepted bytes go       *)
(* together.                                                                   *)
StringsSurvive ==
    dumper.at = "written" =>
        LET again == Scanned(Append(dumper.out, Quote))
        IN  /\ again.at = "value_string" /\ IsUtf8(again.token_buffer)
            /\ Ascii(again.token_buffer) = Ascii(raw)
            /\ IsUtf8(raw) => again.token_buffer = raw

================================================================================
