---------------------------------- MODULE Json ----------------------------------
(* nlohmann json as io_reeman uses it (parse of each answer, dump of the       *)
(* navigation status and of each body): its lexer, parser and serializer,      *)
(* checked side by side.  Each behaviour is about one of them.                 *)
EXTENDS JsonDump, JsonParser

CONSTANTS MaxString,   \* characters of a string, with its opening quote
          MaxToken     \* characters of any other token, with what precedes it

VARIABLE subject

vars == <<subject, lexerVars, dumpVars, parserVars>>

(* The characters that each subject is fed: those on the two sides of every    *)
(* boundary in the code.                                                       *)
NumberCharacters == {32, 43, 45, 46, 48, 49, 101, eof}
Codepoints == {0, 34, 127, 128, 2047, 2048, 55295, 55296, 56319, 56320, 57343, 57344, 65535}
StringCharacters ==
    {eof, 31, 32, Quote, 127, 128, 143, 144, 159, 160, 191, 193, 194, 223, 224, 225, 236, 237,
     238, 239, 240, 241, 243, 244, 245, Esc(110), Esc(47), Esc(120), BadU}
        \cup {U(cp) : cp \in Codepoints}
OtherCharacters ==
    {239, 187, 191, 32, 0, eof, 91, 44, 116, 114, 117, 101, 110, 108}
RawBytes == {65, 128, 144, 160, 194, 224, 237, 240, 241, 244, 245}

Init ==
    /\ subject \in {"number", "string", "token", "raw", "text"}
    /\ LexerInit /\ DumpInit /\ ParserInit

Reads1(kind, characters, bound) ==
    /\ subject = kind
    /\ \E c \in characters : ReadCharacter(c, bound)
    /\ UNCHANGED <<subject, dumpVars, parserVars>>

ReadNumber == Reads1("number", NumberCharacters, MaxToken)
ReadString == Reads1("string", IF text = <<>> THEN {Quote} ELSE StringCharacters, MaxString)
ReadToken == Reads1("token", OtherCharacters, MaxToken)

TakeByte ==
    /\ subject = "raw"
    /\ \E b \in RawBytes : RawByte(b)
    /\ UNCHANGED <<subject, lexerVars, parserVars>>

(* A string to dump: one that was parsed, or one from elsewhere.               *)
BeginDump ==
    /\ subject = "raw" \/ lexer.at = "value_string"
    /\ \E ensure_ascii \in BOOLEAN, handler \in Handlers :
         dump_escaped(IF subject = "raw" THEN raw ELSE lexer.token_buffer, ensure_ascii, handler)
    /\ UNCHANGED <<subject, lexerVars, parserVars>>

Dump == (DumpByte \/ DumpEnds) /\ UNCHANGED <<subject, lexerVars, parserVars>>

ParseToken ==
    /\ subject = "text"
    /\ \E t \in Tokens : get_token(t)
    /\ UNCHANGED <<subject, lexerVars, dumpVars>>

Next == ReadNumber \/ ReadString \/ ReadToken \/ TakeByte \/ BeginDump \/ Dump \/ ParseToken

Spec == Init /\ [][Next]_vars
================================================================================
