------------------------------- MODULE JsonParser -------------------------------
(* The parser of nlohmann json with the builder of values behind it, one       *)
(* get_token() at a time, and the serializer that writes a value back.  The    *)
(* tokens are those of a text without the white space; a scalar is its value.  *)
EXTENDS Integers, Sequences, FiniteSets, SequencesExt

CONSTANTS Keys,       \* the strings
          MaxTokens   \* of a text

ASSUME ParserAssumption == MaxTokens \in Nat

Str(k) == [is |-> "string", v |-> k]
One == [is |-> "number", v |-> "1"]
Overflow == [is |-> "number", v |-> "1e999"]
Null == [is |-> "null"]
Punct(c) == [is |-> c]
BeginArray == Punct("begin_array")
EndArray == Punct("end_array")
BeginObject == Punct("begin_object")
EndObject == Punct("end_object")
Comma == Punct("value_separator")
Colon == Punct("name_separator")
Eof == Punct("end_of_input")
Open == {BeginObject, BeginArray}
Close == {EndObject, EndArray}
Strings == {Str(k) : k \in Keys}
Scalars == Strings \cup {One, Null}
Tokens == Open \cup Close \cup {Comma, Colon, Eof, Punct("parse_error")} \cup Strings \cup {One, Overflow}

VARIABLES tokens,          \* what get_token() has returned
          expect,          \* where sax_parse_internal is
          states,          \* its stack: "array" or "object", the innermost last
          root,            \* the value being built
          ref_stack,       \* the containers being filled, as paths in root
          object_element   \* where the key at hand has its value, as a path

parserVars == <<tokens, expect, states, root, ref_stack, object_element>>

(* A value, by the paths of what is in it: the path of an element goes on with *)
(* its index or its key, and each has a scalar, "array" or "object" there.     *)
Container(bracket) == [is |-> IF bracket = BeginArray THEN "array" ELSE "object"]
Put(v, path, node) ==
    [p \in {p \in DOMAIN v : ~IsPrefix(path, p)} \cup {path} |-> IF p = path THEN node ELSE v[p]]
Elements(path) == {p \in DOMAIN root : Len(p) = Len(path) + 1 /\ IsPrefix(path, p)}

(* Where the next value goes: it is the root, the new last element of an array *)
(* (emplace_back), or the value of the key in hand.                            *)
Place ==
    IF ref_stack = <<>> THEN <<>>
    ELSE IF root[Last(ref_stack)].is = "array"
    THEN Append(Last(ref_stack), Cardinality(Elements(Last(ref_stack))) + 1)
    ELSE object_element

handle_value(node) == root' = Put(root, Place, node) /\ UNCHANGED object_element

start_container(bracket) ==
    handle_value(Container(bracket)) /\ ref_stack' = Append(ref_stack, Place)
end_container ==
    ref_stack' = Front(ref_stack) /\ UNCHANGED <<root, object_element>>

(* The key is added with null; one that is there already keeps its value until *)
(* the new one is written over it.                                             *)
key(k) ==
    /\ object_element' = Append(Last(ref_stack), k)
    /\ root' = IF object_element' \in DOMAIN root THEN root ELSE Put(root, object_element', Null)
    /\ UNCHANGED ref_stack

ParserInit ==
    /\ tokens = <<>> /\ expect = "value" /\ states = <<>>
    /\ root = [p \in {<<>>} |-> Null] /\ ref_stack = <<>> /\ object_element = <<>>

Silent == UNCHANGED <<root, ref_stack, object_element>>
Refuses(stack) == expect' = "failed" /\ states' = stack /\ Silent

(* Behind a value, inside the containers of stack. *)
After(stack) == IF stack = <<>> THEN "end" ELSE "next"

(* The switch over the token that begins a value. *)
ParseValue(t, stack) ==
    IF t \in Open
    THEN /\ start_container(t) /\ states' = stack
         /\ expect' = IF t = BeginObject THEN "first_key" ELSE "first_element"
    ELSE IF t \in Scalars
    THEN handle_value(t) /\ expect' = After(stack) /\ states' = stack /\ UNCHANGED ref_stack
    ELSE Refuses(stack)

(* Behind [: it closes at once, or the array is remembered and t is evaluated. *)
FirstElement(t) ==
    IF t = EndArray THEN end_container /\ expect' = After(states) /\ UNCHANGED states
    ELSE ParseValue(t, Append(states, "array"))

ParseKey(t) ==
    IF t \in Strings
    THEN key(t.v) /\ expect' = (IF expect = "key" THEN "colon" ELSE "first_colon")
                  /\ UNCHANGED states
    ELSE Refuses(states)

(* Behind {: it closes at once, or a key and its colon follow, and the object  *)
(* is remembered.                                                              *)
FirstKey(t) ==
    IF t = EndObject THEN end_container /\ expect' = After(states) /\ UNCHANGED states
    ELSE ParseKey(t)

ParseColon(t) ==
    IF t = Colon
    THEN /\ expect' = "value" /\ Silent
         /\ states' = IF expect = "first_colon" THEN Append(states, "object") ELSE states
    ELSE Refuses(states)

(* What closes the innermost container; a slip lets any bracket do so. *)
AnyCloses(t) == t \in Close
Closes(t) == t = (IF Last(states) = "array" THEN EndArray ELSE EndObject)

(* The evaluation of the state after a value. *)
CommaOrEnd(t) ==
    IF t = Comma
    THEN expect' = (IF Last(states) = "array" THEN "value" ELSE "key") /\ Silent /\ UNCHANGED states
    ELSE IF Closes(t) THEN end_container /\ states' = Front(states) /\ expect' = After(states')
    ELSE Refuses(states)

(* parse() is strict: nothing but the end of the input may follow. *)
StrictEnd(t) ==
    IF t = Eof THEN expect' = "done" /\ Silent /\ UNCHANGED states ELSE Refuses(states)

get_token(t) ==
    /\ expect \notin {"done", "failed"}
    /\ Len(tokens) < MaxTokens
    /\ tokens' = Append(tokens, t)
    /\ CASE expect = "value" -> ParseValue(t, states)
         [] expect = "first_element" -> FirstElement(t)
         [] expect = "first_key" -> FirstKey(t)
         [] expect = "key" -> ParseKey(t)
         [] expect \in {"colon", "first_colon"} -> ParseColon(t)
         [] expect = "next" -> CommaOrEnd(t)
         [] expect = "end" -> StrictEnd(t)

(* dump: a comma behind each element but the last, the keys in their order.    *)
WithCommas(parts) ==
    FlattenSeq([i \in DOMAIN parts |->
                  IF i < Len(parts) THEN Append(parts[i], Comma) ELSE parts[i]])

dump(v) ==
    LET from[p \in DOMAIN v] ==
          LET keys == {Last(q) : q \in {q \in DOMAIN v : Len(q) = Len(p) + 1 /\ IsPrefix(p, q)}}
              Members == LET in_order == SetToSeq(keys) IN
                  [i \in DOMAIN in_order |->
                     <<Str(in_order[i]), Colon>> \o from[Append(p, in_order[i])]]
          IN  CASE v[p].is = "array" ->
                     <<BeginArray>> \o WithCommas([i \in 1 .. Cardinality(keys) |-> from[Append(p, i)]])
                         \o <<EndArray>>
                [] v[p].is = "object" -> <<BeginObject>> \o WithCommas(Members) \o <<EndObject>>
                [] OTHER -> <<v[p]>>
    IN  from[<<>>]

--------------------------------------------------------------------------------

(* The parser's stack of brackets and the builder's stack of references go     *)
(* together, though the one is pushed behind the first element or key of a     *)
(* container and the other before it: no bracket is without its container, of  *)
(* its kind, and what a key awaits has its place.                              *)
KindAt(i) ==
    IF i <= Len(states) THEN states[i]
    ELSE IF expect = "first_element" THEN "array" ELSE "object"
StacksAgree ==
    expect # "failed" =>
        /\ Len(ref_stack) = IF expect \in {"first_element", "first_key", "first_colon"}
                            THEN Len(states) + 1 ELSE Len(states)
        /\ \A i \in DOMAIN ref_stack :
             ref_stack[i] \in DOMAIN root /\ root[ref_stack[i]].is = KindAt(i)
        /\ expect \in {"colon", "first_colon"} => object_element \in DOMAIN root

(* What a sequence of tokens means by JSON's grammar: a scalar, or brackets    *)
(* around parts that the commas outside all inner brackets separate.  Of two   *)
(* members with one key the later counts.                                      *)
NotJson == [p \in {} |-> Null]
Depth(s, i) ==
    Cardinality({j \in 1 .. i - 1 : s[j] \in Open}) - Cardinality({j \in 1 .. i - 1 : s[j] \in Close})
Parts(s) ==
    LET cuts == {i \in DOMAIN s : s[i] = Comma /\ Depth(s, i) = 0}
        ends == SetToSortSeq(cuts \cup {Len(s) + 1}, <)
    IN  IF s = <<>> THEN <<>>
        ELSE [i \in DOMAIN ends |-> SubSeq(s, IF i = 1 THEN 1 ELSE ends[i - 1] + 1, ends[i] - 1)]
Holding(bracket, values) ==
    LET paths == {<<>>} \cup UNION {{<<x>> \o q : q \in DOMAIN values[x]} : x \in DOMAIN values}
    IN  [p \in paths |-> IF p = <<>> THEN Container(bracket) ELSE values[Head(p)][Tail(p)]]

Meaning[s \in Seq(Tokens \cup {Null})] ==
    LET parts == Parts(SubSeq(s, 2, Len(s) - 1))
        InBrackets(open, close) == Len(s) > 1 /\ s[1] = open /\ Last(s) = close
        elements == [i \in DOMAIN parts |-> Meaning[parts[i]]]
        IsMember(m) == Len(m) > 2 /\ m[1] \in Strings /\ m[2] = Colon
        members == [i \in DOMAIN parts |->
                      IF IsMember(parts[i]) THEN Meaning[SubSeq(parts[i], 3, Len(parts[i]))]
                      ELSE NotJson]
        latest == {i \in DOMAIN parts : \A j \in i + 1 .. Len(parts) : parts[j][1] # parts[i][1]}
        Member(k) == members[CHOOSE i \in latest : parts[i][1] = Str(k)]
    IN  IF Len(s) = 1 /\ s[1] \in Scalars THEN [p \in {<<>>} |-> s[1]]
        ELSE IF InBrackets(BeginArray, EndArray) /\ NotJson \notin Range(elements)
        THEN Holding(BeginArray, elements)
        ELSE IF InBrackets(BeginObject, EndObject) /\ NotJson \notin Range(members)
        THEN Holding(BeginObject, [k \in {parts[i][1].v : i \in latest} |-> Member(k)])
        ELSE NotJson

(* Can s be the beginning of a text?  If so, one of these continues it.        *)
Unclosed(s) ==
    FoldLeft(LAMBDA open, t :
               IF t \in Open THEN <<IF t = BeginArray THEN EndArray ELSE EndObject>> \o open
               ELSE IF t \in Close /\ open # <<>> THEN Tail(open) ELSE open, <<>>, s)
Begins(s) ==
    \E more \in {<<>>, <<One>>, <<Colon, One>>} \cup {<<Str(k), Colon, One>> : k \in Keys} :
        Meaning[s \o more \o Unclosed(s)] # NotJson

(* parse gives each text the value that the grammar gives it, and refuses one  *)
(* exactly when the token just read can continue no text it has a value for:   *)
(* none of JSON, or one with a number too large for a float, which the code    *)
(* refuses as out of range (406) where JSON's grammar does not.  And what dump *)
(* writes of a value that was read is read as the same value.                  *)
ReadsJson ==
    CASE expect = "done" -> root = Meaning[Front(tokens)] /\ Meaning[dump(root)] = root
      [] expect = "failed" ->
           /\ ~Begins(tokens)
           /\ Last(tokens) = Eof => Meaning[Front(tokens)] = NotJson
      [] OTHER -> tokens = <<>> \/ Begins(tokens)

================================================================================
