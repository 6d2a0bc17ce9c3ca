------------------------------- MODULE Json_proofs ------------------------------
(* Theorems about the lexer, the serializer and the parser of nlohmann json,   *)
(* for texts and strings of any length.                                        *)
EXTENDS Json, TLAPS, SequenceTheorems, FiniteSetTheorems, WellFoundedInduction

-------------------------------------------------------------------------------
(* The parser: its stack of brackets and the builder's stack of references.    *)

Places ==
    {"value", "first_element", "first_key", "key", "colon", "first_colon", "next", "end",
     "done", "failed"}

(* The value of a key is awaited, and object_element is where it goes.         *)
KeyInHand ==
    expect \in {"colon", "first_colon"} \/ (expect = "value" /\ states # <<>> /\ Last(states) = "object")

Steps == Keys \cup Nat
Paths == Seq(Steps)

ParserInv ==
    /\ expect \in Places /\ states \in Seq({"array", "object"})
    /\ ref_stack \in Seq(Paths) /\ object_element \in Paths
    /\ IsFiniteSet(DOMAIN root)
    /\ StacksAgree
    /\ expect # "failed" =>
         /\ \A i \in DOMAIN ref_stack : Len(ref_stack[i]) = i - 1
         /\ expect \in {"next", "key", "colon"} => states # <<>>
         /\ expect \in {"key", "colon"} => Last(states) = "object"
         /\ expect \in {"end", "done"} => states = <<>>
         /\ KeyInHand => Len(object_element) = Len(ref_stack)


(* The containers on ref_stack are those of the brackets in stack.             *)
Matches(stack) ==
    /\ stack \in Seq({"array", "object"}) /\ Len(ref_stack) = Len(stack)
    /\ \A i \in DOMAIN ref_stack :
         /\ ref_stack[i] \in DOMAIN root /\ Len(ref_stack[i]) = i - 1
         /\ root[ref_stack[i]].is = stack[i]

LEMMA LastOf ==
    ASSUME NEW S, NEW s \in Seq(S), s # <<>>
    PROVE  /\ Last(s) = s[Len(s)] /\ Last(s) \in S /\ Len(s) \in Nat \ {0}
           /\ Front(s) \in Seq(S) /\ Len(Front(s)) = Len(s) - 1
           /\ \A i \in 1 .. Len(s) - 1 : Front(s)[i] = s[i]
<1>1. Len(s) \in Nat \ {0} /\ DOMAIN s = 1 .. Len(s) /\ s \in [1 .. Len(s) -> S]
    BY EmptySeq, LenProperties
<1>2. Last(s) = s[Len(s)] /\ Last(s) \in S
    BY <1>1 DEF Last
<1>3. /\ Front(s) \in Seq(S) /\ Len(Front(s)) = Len(s) - 1
      /\ \A i \in 1 .. Len(s) - 1 : Front(s)[i] = s[i]
    BY <1>1, SubSeqProperties DEF Front
<1> QED
    BY <1>1, <1>2, <1>3

LEMMA OneStepOn ==
    ASSUME NEW p \in Paths, NEW step \in Steps
    PROVE  Append(p, step) \in Paths /\ Len(Append(p, step)) = Len(p) + 1
BY AppendProperties DEF Paths

(* Put leaves what is not below its path.                                      *)
LEMMA PutProperties ==
    ASSUME NEW v, NEW node, NEW path \in Paths, IsFiniteSet(DOMAIN v)
    PROVE  /\ IsFiniteSet(DOMAIN Put(v, path, node))
           /\ path \in DOMAIN Put(v, path, node) /\ Put(v, path, node)[path] = node
           /\ \A p \in DOMAIN v : p \in Paths /\ Len(p) < Len(path) =>
                p \in DOMAIN Put(v, path, node) /\ Put(v, path, node)[p] = v[p]
<1>1. DOMAIN Put(v, path, node) = {p \in DOMAIN v : ~IsPrefix(path, p)} \cup {path}
    BY DEF Put
<1>2. IsFiniteSet({p \in DOMAIN v : ~IsPrefix(path, p)})
    BY FS_Subset
<1>3. IsFiniteSet(DOMAIN Put(v, path, node))
    BY <1>1, <1>2, FS_AddElement
<1>4. \A p \in Paths : Len(p) < Len(path) => ~IsPrefix(path, p) /\ p # path
    BY DEF IsPrefix, Paths
<1> QED
    BY <1>1, <1>3, <1>4 DEF Put

(* A new value goes one step below the innermost container.                    *)
LEMMA PlaceProperties ==
    ASSUME ref_stack \in Seq(Paths), object_element \in Paths, IsFiniteSet(DOMAIN root),
           NEW stack, Matches(stack),
           stack # <<>> /\ Last(stack) = "object" => Len(object_element) = Len(ref_stack)
    PROVE  Place \in Paths /\ Len(Place) = Len(ref_stack)
<1>1. CASE ref_stack = <<>>
  <2>1. Place = <<>> /\ <<>> \in Paths /\ Len(<<>>) = 0
    BY <1>1, EmptySeq DEF Place, Paths
  <2> QED
    BY <1>1, <2>1
<1>2. CASE ref_stack # <<>>
  <2> DEFINE top == Last(ref_stack)
  <2>1. /\ top \in Paths /\ Len(top) = Len(ref_stack) - 1 /\ Len(ref_stack) \in Nat \ {0}
        /\ stack # <<>> /\ Last(stack) \in {"array", "object"}
        /\ root[top].is = Last(stack)
    <3>1. /\ top = ref_stack[Len(ref_stack)] /\ top \in Paths
          /\ Len(ref_stack) \in Nat \ {0} /\ Len(ref_stack) \in DOMAIN ref_stack
      <4>1. top = ref_stack[Len(ref_stack)] /\ top \in Paths /\ Len(ref_stack) \in Nat \ {0}
        BY <1>2, LastOf
      <4>2. DOMAIN ref_stack = 1 .. Len(ref_stack)
        BY LenProperties
      <4> QED
        BY <4>1, <4>2
    <3>2. stack # <<>>
      BY <3>1, EmptySeq DEF Matches
    <3>3. Last(stack) = stack[Len(stack)] /\ Last(stack) \in {"array", "object"}
      BY <3>2, LastOf DEF Matches
    <3> QED
      BY <3>1, <3>2, <3>3 DEF Matches
  <2>2. Cardinality(Elements(top)) \in Nat
    <3>1. IsFiniteSet(Elements(top))
      BY FS_Subset DEF Elements
    <3> QED
      BY <3>1, FS_CardinalityType
  <2>3. CASE root[top].is = "array"
    <3>1. Place = Append(top, Cardinality(Elements(top)) + 1)
      BY <1>2, <2>3 DEF Place
    <3>2. Cardinality(Elements(top)) + 1 \in Steps
      BY <2>2 DEF Steps
    <3>3. Append(top, Cardinality(Elements(top)) + 1) \in Paths
          /\ Len(Append(top, Cardinality(Elements(top)) + 1)) = Len(top) + 1
      BY <2>1, <3>2, OneStepOn
    <3> QED
      BY <2>1, <3>1, <3>3, LenProperties DEF Paths
  <2>4. CASE root[top].is # "array"
    <3>1. Place = object_element
      BY <1>2, <2>4 DEF Place
    <3>2. Last(stack) = "object"
      BY <2>1, <2>4
    <3> QED
      BY <2>1, <3>1, <3>2
  <2> QED
    BY <2>3, <2>4
<1> QED
    BY <1>1, <1>2

ParserTypes ==
    /\ ref_stack \in Seq(Paths) /\ object_element \in Paths /\ IsFiniteSet(DOMAIN root)

LEMMA ParseValueKeeps ==
    ASSUME ParserTypes, NEW stack, Matches(stack), NEW t, ParseValue(t, stack),
           stack # <<>> /\ Last(stack) = "object" => Len(object_element) = Len(ref_stack)
    PROVE  ParserInv'
<1> USE DEF ParserTypes
<1>1. Place \in Paths /\ Len(Place) = Len(ref_stack) /\ Len(ref_stack) \in Nat
    BY PlaceProperties, LenProperties
<1>2. /\ DOMAIN ref_stack = 1 .. Len(ref_stack)
      /\ \A i \in DOMAIN ref_stack : ref_stack[i] \in Paths /\ Len(ref_stack[i]) < Len(Place)
  <2>1. DOMAIN ref_stack = 1 .. Len(ref_stack)
    BY LenProperties
  <2>2. \A i \in DOMAIN ref_stack : ref_stack[i] \in Paths
    BY <2>1, ElementOfSeq
  <2> QED
    BY <1>1, <2>1, <2>2 DEF Matches
<1>3. ASSUME NEW node, root' = Put(root, Place, node)
      PROVE  /\ IsFiniteSet(DOMAIN root') /\ Place \in DOMAIN root' /\ root'[Place] = node
             /\ \A i \in DOMAIN ref_stack :
                  ref_stack[i] \in DOMAIN root' /\ root'[ref_stack[i]].is = stack[i]
    BY <1>1, <1>2, <1>3, PutProperties DEF Matches
<1>4. CASE t \in Open
  <2>1. /\ root' = Put(root, Place, Container(t)) /\ object_element' = object_element
        /\ ref_stack' = Append(ref_stack, Place) /\ states' = stack
        /\ expect' = IF t = BeginObject THEN "first_key" ELSE "first_element"
    BY <1>4 DEF ParseValue, start_container, handle_value
  <2>2. /\ IsFiniteSet(DOMAIN root') /\ Place \in DOMAIN root' /\ root'[Place] = Container(t)
        /\ \A i \in DOMAIN ref_stack :
             ref_stack[i] \in DOMAIN root' /\ root'[ref_stack[i]].is = stack[i]
    BY <1>3, <2>1
  <2>3. /\ ref_stack' \in Seq(Paths) /\ Len(ref_stack') = Len(ref_stack) + 1
        /\ DOMAIN ref_stack' = 1 .. Len(ref_stack) + 1
        /\ ref_stack'[Len(ref_stack) + 1] = Place
        /\ \A i \in DOMAIN ref_stack : ref_stack'[i] = ref_stack[i]
    BY <1>1, <1>2, <2>1, AppendProperties, LenProperties
  <2>4. Container(t).is = IF expect' = "first_element" THEN "array" ELSE "object"
    BY <1>4, <2>1 DEF Container, Open, BeginArray, BeginObject, Punct
  <2>5. ASSUME NEW i \in DOMAIN ref_stack'
        PROVE  /\ ref_stack'[i] \in DOMAIN root' /\ root'[ref_stack'[i]].is = KindAt(i)'
               /\ Len(ref_stack'[i]) = i - 1
    <3>1. CASE i \in DOMAIN ref_stack
      BY <1>1, <1>2, <2>1, <2>2, <2>3, <3>1 DEF KindAt, Matches
    <3>2. CASE i = Len(ref_stack) + 1
      BY <1>1, <1>2, <2>1, <2>2, <2>3, <2>4, <3>2 DEF KindAt, Matches
    <3> QED
      BY <1>1, <1>2, <2>3, <3>1, <3>2
  <2> QED
    BY <1>1, <2>1, <2>2, <2>3, <2>5 DEF ParserInv, StacksAgree, Places, KeyInHand, Matches
<1>5. CASE t \notin Open /\ t \in Scalars
  <2>1. /\ root' = Put(root, Place, t) /\ object_element' = object_element
        /\ ref_stack' = ref_stack /\ states' = stack /\ expect' = After(stack)
    BY <1>5 DEF ParseValue, handle_value
  <2>2. /\ IsFiniteSet(DOMAIN root')
        /\ \A i \in DOMAIN ref_stack :
             ref_stack[i] \in DOMAIN root' /\ root'[ref_stack[i]].is = stack[i]
    BY <1>3, <2>1
  <2>3. \A i \in DOMAIN ref_stack : KindAt(i)' = stack[i]
    BY <1>2, <2>1 DEF KindAt, Matches
  <2> QED
    BY <1>1, <1>2, <2>1, <2>2, <2>3 DEF ParserInv, StacksAgree, Places, KeyInHand, Matches, After
<1>6. CASE t \notin Open /\ t \notin Scalars
  <2>1. /\ expect' = "failed" /\ states' = stack
        /\ UNCHANGED <<root, ref_stack, object_element>>
    BY <1>6 DEF ParseValue, Refuses, Silent
  <2> QED
    BY <2>1 DEF ParserInv, StacksAgree, Places, Matches
<1> QED
    BY <1>4, <1>5, <1>6

LEMMA StackLengths ==
    ASSUME ParserInv
    PROVE  /\ Len(ref_stack) \in Nat /\ DOMAIN ref_stack = 1 .. Len(ref_stack)
           /\ Len(states) \in Nat /\ DOMAIN states = 1 .. Len(states)
           /\ \A i \in DOMAIN ref_stack : ref_stack[i] \in Paths
<1>1. ref_stack \in Seq(Paths) /\ states \in Seq({"array", "object"})
    BY DEF ParserInv
<1>2. Len(ref_stack) \in Nat /\ DOMAIN ref_stack = 1 .. Len(ref_stack)
    BY <1>1, LenProperties
<1>3. Len(states) \in Nat /\ DOMAIN states = 1 .. Len(states)
    BY <1>1, LenProperties
<1> QED
    BY <1>1, <1>2, <1>3, ElementOfSeq

(* A bracket or a state that ends a container leaves the others as they were.  *)
LEMMA EndKeeps ==
    ASSUME ParserInv, expect # "failed", ref_stack # <<>>, end_container,
           Len(states') = Len(ref_stack) - 1, states' \in Seq({"array", "object"}),
           \A i \in 1 .. Len(ref_stack) - 1 : states'[i] = states[i] /\ KindAt(i) = states[i],
           expect' = After(states')
    PROVE  ParserInv'
<1>1. /\ ref_stack' = Front(ref_stack) /\ root' = root /\ object_element' = object_element
    BY DEF end_container
<1>2. /\ ref_stack' \in Seq(Paths) /\ Len(ref_stack') = Len(ref_stack) - 1
      /\ DOMAIN ref_stack' = 1 .. Len(ref_stack) - 1 /\ DOMAIN ref_stack = 1 .. Len(ref_stack)
      /\ Len(ref_stack) \in Nat
      /\ \A i \in 1 .. Len(ref_stack) - 1 : ref_stack'[i] = ref_stack[i]
  <2>1. ref_stack \in Seq(Paths)
    BY DEF ParserInv
  <2>2. /\ ref_stack' \in Seq(Paths) /\ Len(ref_stack') = Len(ref_stack) - 1
        /\ \A i \in 1 .. Len(ref_stack) - 1 : ref_stack'[i] = ref_stack[i]
    BY <1>1, <2>1, LastOf
  <2>3. DOMAIN ref_stack' = 1 .. Len(ref_stack')
    BY <2>2, LenProperties
  <2> QED
    BY <2>2, <2>3, StackLengths
<1>3. \A i \in DOMAIN ref_stack' : KindAt(i)' = KindAt(i)
    BY <1>2 DEF KindAt
<1>4. expect' \in {"end", "next"} /\ (expect' = "end" <=> states' = <<>>)
    BY DEF After
<1>5. StacksAgree'
  <2>1. Len(ref_stack') = Len(states')
    BY <1>2
  <2>2. \A i \in DOMAIN ref_stack' : ref_stack'[i] \in DOMAIN root' /\ root'[ref_stack'[i]].is = KindAt(i)'
    BY <1>1, <1>2, <1>3 DEF ParserInv, StacksAgree
  <2> QED
    BY <1>4, <2>1, <2>2 DEF StacksAgree
<1>6. \A i \in DOMAIN ref_stack' : Len(ref_stack'[i]) = i - 1
    BY <1>2 DEF ParserInv
<1>7. IsFiniteSet(DOMAIN root') /\ object_element' \in Paths
    BY <1>1 DEF ParserInv
<1> QED
    BY <1>2, <1>4, <1>5, <1>6, <1>7 DEF ParserInv, Places, KeyInHand

LEMMA FirstElementKeeps ==
    ASSUME ParserInv, expect = "first_element", NEW t, FirstElement(t)
    PROVE  ParserInv'
<1>1. /\ Len(ref_stack) = Len(states) + 1 /\ Len(states) \in Nat
      /\ DOMAIN ref_stack = 1 .. Len(ref_stack)
    BY LenProperties DEF ParserInv, StacksAgree
<1>2. CASE t = EndArray
    BY <1>1, <1>2, EndKeeps, EmptySeq DEF FirstElement, ParserInv, KindAt
<1>3. CASE t # EndArray
  <2> DEFINE stack == Append(states, "array")
  <2>1. /\ stack \in Seq({"array", "object"}) /\ Len(stack) = Len(states) + 1
        /\ \A i \in 1 .. Len(states) : stack[i] = states[i]
        /\ stack[Len(states) + 1] = "array"
    BY AppendProperties DEF ParserInv
  <2>2. Matches(stack)
    <3>1. \A i \in DOMAIN ref_stack : stack[i] = KindAt(i)
      BY <1>1, <2>1 DEF KindAt
    <3> QED
      BY <1>1, <2>1, <3>1 DEF Matches, ParserInv, StacksAgree
  <2>3. Last(stack) # "object"
    BY <2>1 DEF Last
  <2>4. ParseValue(t, stack)
    BY <1>3 DEF FirstElement
  <2> QED
    BY <2>2, <2>3, <2>4, ParseValueKeeps DEF ParserInv, ParserTypes
<1> QED
    BY <1>2, <1>3

LEMMA ParseKeyKeeps ==
    ASSUME ParserInv, expect \in {"first_key", "key"}, NEW t, ParseKey(t)
    PROVE  ParserInv'
<1>1. CASE t \in Strings
  <2> DEFINE element == Append(Last(ref_stack), t.v)
  <2>1. /\ object_element' = element /\ UNCHANGED <<ref_stack, states>>
        /\ root' = IF element \in DOMAIN root THEN root ELSE Put(root, element, Null)
        /\ expect' = IF expect = "key" THEN "colon" ELSE "first_colon"
    BY <1>1 DEF ParseKey, key
  <2>2. t.v \in Steps
    BY <1>1 DEF Strings, Str, Steps
  <2>3. Len(ref_stack) \in Nat /\ Len(states) \in Nat /\ ref_stack # <<>>
    BY LenProperties, EmptySeq DEF ParserInv, StacksAgree
  <2>4. /\ Last(ref_stack) \in Paths /\ Last(ref_stack) = ref_stack[Len(ref_stack)]
        /\ DOMAIN ref_stack = 1 .. Len(ref_stack)
    BY <2>3, LastOf, LenProperties DEF ParserInv
  <2>5. Len(ref_stack) \in DOMAIN ref_stack
    BY <2>3, <2>4, LastOf DEF ParserInv
  <2>6. Len(Last(ref_stack)) = Len(ref_stack) - 1
    BY <2>4, <2>5 DEF ParserInv
  <2>7. element \in Paths /\ Len(element) = Len(ref_stack)
    <3>1. element \in Paths /\ Len(element) = Len(Last(ref_stack)) + 1
      BY <2>2, <2>4, OneStepOn
    <3> QED
      BY <2>3, <2>6, <3>1
  <2>8. /\ IsFiniteSet(DOMAIN root') /\ element \in DOMAIN root'
        /\ \A i \in DOMAIN ref_stack :
             ref_stack[i] \in DOMAIN root' /\ root'[ref_stack[i]].is = root[ref_stack[i]].is
    <3>1. CASE element \in DOMAIN root
      BY <2>1, <3>1 DEF ParserInv, StacksAgree
    <3>2. CASE element \notin DOMAIN root
      <4>1. \A i \in DOMAIN ref_stack : ref_stack[i] \in Paths /\ Len(ref_stack[i]) < Len(element)
        <5>1. \A i \in DOMAIN ref_stack : Len(ref_stack[i]) = i - 1
          BY DEF ParserInv
        <5> HIDE DEF element
        <5> QED
          BY <2>3, <2>4, <2>7, <5>1, StackLengths
      <4>2. IsFiniteSet(DOMAIN root) /\ \A i \in DOMAIN ref_stack : ref_stack[i] \in DOMAIN root
        BY DEF ParserInv, StacksAgree
      <4>3. root' = Put(root, element, Null)
        BY <2>1, <3>2
      <4> HIDE DEF element
      <4> QED
        BY <2>7, <4>1, <4>2, <4>3, PutProperties
    <3> QED
      BY <3>1, <3>2
  <2>9. \A i \in DOMAIN ref_stack : KindAt(i)' = KindAt(i)
    BY <2>1 DEF KindAt
  <2> HIDE DEF element
  <2> QED
    BY <2>1, <2>7, <2>8, <2>9 DEF ParserInv, StacksAgree, Places, KeyInHand
<1>2. CASE t \notin Strings
    BY <1>2 DEF ParseKey, Refuses, Silent, ParserInv, StacksAgree, Places
<1> QED
    BY <1>1, <1>2

LEMMA ParseColonKeeps ==
    ASSUME ParserInv, expect \in {"first_colon", "colon"}, NEW t, ParseColon(t)
    PROVE  ParserInv'
<1>1. CASE t = Colon
  <2>1. /\ expect' = "value" /\ UNCHANGED <<root, ref_stack, object_element>>
        /\ states' = IF expect = "first_colon" THEN Append(states, "object") ELSE states
    BY <1>1 DEF ParseColon, Silent
  <2>2. CASE expect = "first_colon"
    <3>1. /\ states' \in Seq({"array", "object"}) /\ Len(states') = Len(states) + 1
          /\ \A i \in 1 .. Len(states) : states'[i] = states[i]
          /\ states'[Len(states) + 1] = "object" /\ Len(states) \in Nat
      BY <2>1, <2>2, AppendProperties, LenProperties DEF ParserInv
    <3>2. \A i \in DOMAIN ref_stack : KindAt(i)' = KindAt(i)
      <4>1. DOMAIN ref_stack = 1 .. Len(states) + 1
        BY <2>2, LenProperties DEF ParserInv, StacksAgree
      <4> QED
        BY <2>1, <2>2, <3>1, <4>1 DEF KindAt
    <3> QED
      BY <2>1, <2>2, <3>1, <3>2 DEF ParserInv, StacksAgree, Places, KeyInHand
  <2>3. CASE expect # "first_colon"
    <3>1. \A i \in DOMAIN ref_stack : KindAt(i)' = KindAt(i)
      BY <2>1, <2>3, LenProperties DEF KindAt, ParserInv, StacksAgree
    <3> QED
      BY <2>1, <2>3, <3>1 DEF ParserInv, StacksAgree, Places, KeyInHand
  <2> QED
    BY <2>2, <2>3
<1>2. CASE t # Colon
    BY <1>2 DEF ParseColon, Refuses, Silent, ParserInv, StacksAgree, Places
<1> QED
    BY <1>1, <1>2

LEMMA CommaOrEndKeeps ==
    ASSUME ParserInv, expect = "next", NEW t, CommaOrEnd(t)
    PROVE  ParserInv'
<1>1. /\ Len(ref_stack) = Len(states) /\ Len(states) \in Nat \ {0}
      /\ DOMAIN ref_stack = 1 .. Len(states) /\ Last(states) \in {"array", "object"}
      /\ Front(states) \in Seq({"array", "object"}) /\ Len(Front(states)) = Len(states) - 1
      /\ \A i \in 1 .. Len(states) - 1 : Front(states)[i] = states[i]
  <2>1. states \in Seq({"array", "object"}) /\ states # <<>> /\ Len(ref_stack) = Len(states)
    BY DEF ParserInv, StacksAgree
  <2>2. /\ Len(states) \in Nat \ {0} /\ Last(states) \in {"array", "object"}
        /\ Front(states) \in Seq({"array", "object"}) /\ Len(Front(states)) = Len(states) - 1
        /\ \A i \in 1 .. Len(states) - 1 : Front(states)[i] = states[i]
    BY <2>1, LastOf
  <2> QED
    BY <2>1, <2>2, StackLengths
<1>2. CASE t = Comma
  <2>1. /\ expect' = IF Last(states) = "array" THEN "value" ELSE "key"
        /\ UNCHANGED <<root, ref_stack, object_element, states>>
    BY <1>2 DEF CommaOrEnd, Silent
  <2>2. \A i \in DOMAIN ref_stack : KindAt(i)' = KindAt(i)
    BY <1>1, <2>1 DEF KindAt
  <2> QED
    BY <1>1, <2>1, <2>2 DEF ParserInv, StacksAgree, Places, KeyInHand
<1>3. CASE t # Comma /\ Closes(t)
  <2>1. end_container /\ states' = Front(states) /\ expect' = After(states')
    BY <1>3 DEF CommaOrEnd
  <2>2. ref_stack # <<>>
    BY <1>1, EmptySeq
  <2>3. \A i \in 1 .. Len(states) - 1 : KindAt(i) = states[i]
    BY <1>1 DEF KindAt
  <2> QED
    BY <1>1, <2>1, <2>2, <2>3, EndKeeps
<1>4. CASE t # Comma /\ ~Closes(t)
    BY <1>4 DEF CommaOrEnd, Refuses, Silent, ParserInv, StacksAgree, Places
<1> QED
    BY <1>2, <1>3, <1>4

LEMMA ParserStep ==
    ASSUME ParserInv, NEW t, get_token(t)
    PROVE  ParserInv'
<1>1. CASE expect = "value"
  <2>1. Matches(states)
    <3>1. \A i \in DOMAIN ref_stack : KindAt(i) = states[i]
      BY <1>1, LenProperties DEF KindAt, ParserInv, StacksAgree
    <3> QED
      BY <1>1, <3>1 DEF Matches, ParserInv, StacksAgree
  <2> QED
    BY <1>1, <2>1, ParseValueKeeps DEF get_token, ParserInv, ParserTypes, KeyInHand
<1>2. CASE expect = "first_element"
    BY <1>2, FirstElementKeeps DEF get_token
<1>3. CASE expect = "first_key"
  <2>1. CASE t = EndObject
    <3>1. /\ Len(ref_stack) = Len(states) + 1 /\ Len(states) \in Nat
      BY <1>3, LenProperties DEF ParserInv, StacksAgree
    <3> QED
      BY <1>3, <2>1, <3>1, EndKeeps, EmptySeq DEF get_token, FirstKey, ParserInv, KindAt
  <2>2. CASE t # EndObject
    BY <1>3, <2>2, ParseKeyKeeps DEF get_token, FirstKey
  <2> QED
    BY <2>1, <2>2
<1>4. CASE expect = "key"
    BY <1>4, ParseKeyKeeps DEF get_token
<1>5. CASE expect \in {"colon", "first_colon"}
    BY <1>5, ParseColonKeeps DEF get_token
<1>6. CASE expect = "next"
    BY <1>6, CommaOrEndKeeps DEF get_token
<1>7. CASE expect = "end"
  <2>1. StrictEnd(t)
    BY <1>7 DEF get_token
  <2>2. /\ expect' \in {"done", "failed"}
        /\ UNCHANGED <<root, ref_stack, object_element, states>>
    BY <2>1 DEF StrictEnd, Refuses, Silent
  <2>3. \A i \in DOMAIN ref_stack : expect' = "done" => KindAt(i)' = KindAt(i)
    BY <1>7, <2>2 DEF KindAt
  <2> QED
    BY <1>7, <2>2, <2>3 DEF ParserInv, StacksAgree, Places, KeyInHand
<1> QED
    BY <1>1, <1>2, <1>3, <1>4, <1>5, <1>6, <1>7 DEF get_token, ParserInv, Places

(* Over any nesting each bracket on the parser's stack has its container on    *)
(* the builder's (nlohmann_json.hpp:13099-13401 against 8931-9152).            *)
THEOREM BracketsMatchContainers == Spec => []StacksAgree
<1>1. Init => ParserInv
  <2> SUFFICES ASSUME Init PROVE ParserInv
    OBVIOUS
  <2>1. /\ expect = "value" /\ states = <<>> /\ ref_stack = <<>> /\ object_element = <<>>
        /\ DOMAIN root = {<<>>}
    BY DEF Init, ParserInit
  <2>2. IsFiniteSet({<<>>})
    BY FS_Singleton
  <2>3. <<>> \in Paths /\ <<>> \in Seq(Paths) /\ <<>> \in Seq({"array", "object"})
        /\ Len(<<>>) = 0 /\ DOMAIN <<>> = {}
    BY EmptySeq DEF Paths
  <2> QED
    BY <2>1, <2>2, <2>3 DEF ParserInv, StacksAgree, Places, KeyInHand
<1>2. ParserInv /\ [Next]_vars => ParserInv'
  <2> SUFFICES ASSUME ParserInv, [Next]_vars PROVE ParserInv'
    OBVIOUS
  <2>1. CASE ParseToken
    BY <2>1, ParserStep DEF ParseToken
  <2>2. CASE UNCHANGED parserVars
    BY <2>2 DEF parserVars, ParserInv, StacksAgree, KindAt, KeyInHand
  <2> QED
    BY <2>1, <2>2 DEF Next, vars, ReadNumber, ReadString, ReadToken, Reads1, TakeByte, BeginDump,
       Dump
<1>3. ParserInv => StacksAgree
    BY DEF ParserInv
<1> QED
    BY <1>1, <1>2, <1>3, PTL DEF Spec

-------------------------------------------------------------------------------
(* Strings.  The lexer's ranges and the decoder's states are two forms of one  *)
(* automaton; both are set against the value of a character's bytes.           *)

Bytes == 0 .. 255
States == {0} \cup 2 .. 8
NoLead == 128 .. 191 \cup 248 .. 255
ShortOfTwo == 194 .. 223
ShortOfFour == 240 .. 244
Leads == ShortOfTwo \cup LeadOfThree \cup ShortOfFour

(* After a lead byte, what the decoder expects; for each of its states, the    *)
(* bytes it takes, where it goes with them, and the lexer's ranges.            *)
AfterLead(b) ==
    IF b <= 223 THEN 2 ELSE IF b = 224 THEN 4 ELSE IF b = 237 THEN 5 ELSE IF b <= 239 THEN 3
    ELSE IF b = 240 THEN 6 ELSE IF b <= 243 THEN 7 ELSE 8
Least(state) == IF state = 4 THEN 160 ELSE IF state = 6 THEN 144 ELSE 128
Greatest(state) == IF state = 5 THEN 159 ELSE IF state = 8 THEN 143 ELSE 191
Takes(state) == Least(state) .. Greatest(state)
Fewer(state) == IF state = 2 THEN 0 ELSE IF state <= 5 THEN 2 ELSE 3
Lacks(state) ==
    IF state = 0 THEN <<>>
    ELSE IF state = 2 THEN <<Tail80>>
    ELSE IF state <= 5 THEN << <<Least(state), Greatest(state)>>, Tail80>>
    ELSE << <<Least(state), Greatest(state)>>, Tail80, Tail80>>

LEMMA FirstIs ==
    /\ DOMAIN First = {0, 2, 3, 4, 5, 6, 10, 11}
    /\ First[0] = 0 /\ First[2] = 2 /\ First[3] = 3 /\ First[4] = 5
    /\ First[5] = 8 /\ First[6] = 7 /\ First[10] = 4 /\ First[11] = 6
BY DEF First

LEMMA FurtherIs ==
    /\ Further[2] = <<{1, 7, 9}, 0>> /\ Further[3] = <<{1, 7, 9}, 2>> /\ Further[4] = <<{7}, 2>>
    /\ Further[5] = <<{1, 9}, 2>> /\ Further[6] = <<{7, 9}, 3>> /\ Further[7] = <<{1, 7, 9}, 3>>
    /\ Further[8] = <<{1}, 3>>
BY DEF Further

LEMMA DecodeIs ==
    ASSUME NEW b \in Bytes
    PROVE  /\ decode(0, b) = IF b \in Single THEN 0 ELSE IF b \in Leads THEN AfterLead(b) ELSE 1
           /\ \A state \in 2 .. 8 :
                decode(state, b) =
                    IF b \in Takes(state) THEN Fewer(state) ELSE 1
<1>1. ByteType(b) = IF b <= 127 THEN 0 ELSE IF b <= 143 THEN 1 ELSE IF b <= 159 THEN 9
                    ELSE IF b <= 191 THEN 7 ELSE IF b <= 193 THEN 8 ELSE IF b <= 223 THEN 2
                    ELSE IF b = 224 THEN 10 ELSE IF b = 237 THEN 4 ELSE IF b <= 239 THEN 3
                    ELSE IF b = 240 THEN 11 ELSE IF b <= 243 THEN 6 ELSE IF b = 244 THEN 5 ELSE 8
    BY DEF ByteType, Bytes
<1>2. b \in Int /\ 0 <= b /\ b <= 255
    BY DEF Bytes
<1>3. decode(0, b) = IF b <= 127 THEN 0 ELSE IF b \in 194 .. 244 THEN AfterLead(b) ELSE 1
  <2>1. decode(0, b) = IF ByteType(b) \in DOMAIN First THEN First[ByteType(b)] ELSE 1
    BY DEF decode
  <2> QED
    BY <1>1, <1>2, <2>1, FirstIs DEF AfterLead
<1>4. ASSUME NEW state \in 2 .. 8
      PROVE  decode(state, b) =
                 IF b \in Takes(state) THEN Fewer(state) ELSE 1
  <2>1. /\ Further[state][1] = IF state = 4 THEN {7} ELSE IF state = 5 THEN {1, 9}
                              ELSE IF state = 6 THEN {7, 9} ELSE IF state = 8 THEN {1} ELSE {1, 7, 9}
        /\ Further[state][2] = Fewer(state)
    <3>1. state = 2 \/ state = 3 \/ state = 4 \/ state = 5 \/ state = 6 \/ state = 7 \/ state = 8
        OBVIOUS
    <3>2. Fewer(2) = 0 /\ Fewer(3) = 2 /\ Fewer(4) = 2 /\ Fewer(5) = 2 /\ Fewer(6) = 3
          /\ Fewer(7) = 3 /\ Fewer(8) = 3
        BY DEF Fewer
    <3>3. CASE state = 2
        BY <3>3, <3>2, FurtherIs
    <3>4. CASE state = 3
        BY <3>4, <3>2, FurtherIs
    <3>5. CASE state = 4
        BY <3>5, <3>2, FurtherIs
    <3>6. CASE state = 5
        BY <3>6, <3>2, FurtherIs
    <3>7. CASE state = 6
        BY <3>7, <3>2, FurtherIs
    <3>8. CASE state = 7
        BY <3>8, <3>2, FurtherIs
    <3>9. CASE state = 8
        BY <3>9, <3>2, FurtherIs
    <3> QED
        BY <3>1, <3>3, <3>4, <3>5, <3>6, <3>7, <3>8, <3>9
  <2>2. decode(state, b) =
            IF ByteType(b) \in Further[state][1] THEN Further[state][2] ELSE 1
    BY DEF decode
  <2>3. ByteType(b) \in Further[state][1] <=> b \in Takes(state)
    BY <1>1, <1>2, <2>1 DEF Takes, Least, Greatest
  <2> QED
    BY <2>1, <2>2, <2>3
<1>5. (b <= 127 <=> b \in Single) /\ (b \in 194 .. 244 <=> b \in Leads)
    BY <1>2 DEF Single, Leads, ShortOfTwo, LeadOfThree, ShortOfFour
<1> QED
    BY <1>3, <1>4, <1>5

LEMMA TwoBytes ==
    ASSUME NEW a \in LeadOfTwo, NEW b \in 128 .. 191
    PROVE  ValueOfTwo(a, b) >= 128 <=> a \in ShortOfTwo
BY SMT DEF ValueOfTwo, LeadOfTwo, ShortOfTwo

LEMMA SurrogateIs ==
    ASSUME NEW v \in Int
    PROVE  v \in High \cup Low <=> 55296 <= v /\ v <= 57343
BY SMT DEF High, Low

LEMMA CodepointsIn ==
    ASSUME NEW v \in Int
    PROVE  /\ v \in OfThree <=> 2048 <= v /\ v <= 65535 /\ ~(55296 <= v /\ v <= 57343)
           /\ v \in OfFour <=> 65536 <= v /\ v <= 1114111
<1>1. /\ BasicMax \in Int /\ (v <= BasicMax <=> v <= 65535)
      /\ MaxCodepoint \in Int /\ (v <= MaxCodepoint <=> v <= 1114111)
    BY SMT DEF BasicMax, MaxCodepoint
<1>2. v \in OfFour <=> 65536 <= v /\ v <= MaxCodepoint
    BY <1>1, SMT DEF OfFour
<1>3. v \in High \cup Low <=> 55296 <= v /\ v <= 57343
    BY SurrogateIs, SMT
<1>4. v \in OfThree <=> 2048 <= v /\ v <= BasicMax /\ v \notin High \cup Low
    BY <1>1, SMT DEF OfThree
<1> QED
    BY <1>1, <1>2, <1>3, <1>4

LEMMA ThreeBytes ==
    ASSUME NEW a \in LeadOfThree, NEW b \in 128 .. 191, NEW c \in 128 .. 191
    PROVE  ValueOfThree(a, b, c) \in OfThree
             <=> b \in Takes(AfterLead(a))
<1> DEFINE v == ValueOfThree(a, b, c)
<1>1. a \in Int /\ b \in Int /\ c \in Int /\ v \in Int
    BY SMT DEF ValueOfThree, LeadOfThree
<1>2. 224 <= a /\ a <= 239 /\ 128 <= b /\ b <= 191 /\ 128 <= c /\ c <= 191
    BY SMT DEF LeadOfThree
<1>3. 0 <= v /\ v <= 65535
    BY <1>1, <1>2, SMT DEF ValueOfThree
<1>4. 2048 <= v <=> a > 224 \/ b >= 160
    BY <1>1, <1>2, SMT DEF ValueOfThree
<1>5. 55296 <= v /\ v <= 57343 <=> a = 237 /\ b >= 160
    BY <1>1, <1>2, SMT DEF ValueOfThree
<1>6. b \in Takes(AfterLead(a)) <=>
        (a = 224 => b >= 160) /\ (a = 237 => b < 160)
    BY <1>1, <1>2, SMT DEF Takes, Least, Greatest, AfterLead
<1> HIDE DEF v
<1>7. (2048 <= v /\ v <= 65535 /\ ~(55296 <= v /\ v <= 57343)) <=>
        b \in Takes(AfterLead(a))
    BY <1>1, <1>2, <1>3, <1>4, <1>5, <1>6, SMT
<1>8. v \in OfThree <=> b \in Takes(AfterLead(a))
    BY <1>1, <1>7, CodepointsIn, SMT
<1> QED
    BY <1>8 DEF v

LEMMA FourBytes ==
    ASSUME NEW a \in LeadOfFour, NEW b \in 128 .. 191, NEW c \in 128 .. 191, NEW d \in 128 .. 191
    PROVE  ValueOfFour(a, b, c, d) \in OfFour
             <=> a \in ShortOfFour /\ b \in Takes(AfterLead(a))
<1> DEFINE v == ValueOfFour(a, b, c, d)
<1>1. a \in Int /\ b \in Int /\ c \in Int /\ d \in Int /\ v \in Int
    BY SMT DEF ValueOfFour, LeadOfFour
<1>2. /\ 240 <= a /\ a <= 247 /\ 128 <= b /\ b <= 191 /\ 128 <= c /\ c <= 191
      /\ 128 <= d /\ d <= 191
    BY SMT DEF LeadOfFour
<1>3. 65536 <= v <=> a > 240 \/ b >= 144
    BY <1>1, <1>2, SMT DEF ValueOfFour
<1>4. v <= 1114111 <=> a < 244 \/ (a = 244 /\ b < 144)
    BY <1>1, <1>2, SMT DEF ValueOfFour
<1>5. a <= 244 => (b \in Takes(AfterLead(a)) <=>
        (a = 240 => b >= 144) /\ (a = 244 => b < 144))
    BY <1>1, <1>2, SMT DEF Takes, Least, Greatest, AfterLead
<1> HIDE DEF v
<1>6. 65536 <= v /\ v <= 1114111 <=>
        a <= 244 /\ b \in Takes(AfterLead(a))
    BY <1>1, <1>2, <1>3, <1>4, <1>5, SMT
<1>7. a \in ShortOfFour <=> a <= 244
    BY <1>1, <1>2, SMT DEF ShortOfFour
<1>8. v \in OfFour <=>
        a \in ShortOfFour /\ b \in Takes(AfterLead(a))
    BY <1>1, <1>6, <1>7, CodepointsIn, SMT
<1> QED
    BY <1>8 DEF v

(* The leads of two, three and four bytes, and the bytes that are none.        *)
LEMMA BytesApart ==
    ASSUME NEW b \in Bytes
    PROVE  /\ b \in Single => b \notin LeadOfTwo \cup LeadOfThree \cup LeadOfFour \cup NoLead
           /\ b \in LeadOfTwo => b \notin LeadOfThree \cup LeadOfFour \cup NoLead
           /\ b \in LeadOfThree => b \notin LeadOfFour \cup NoLead
           /\ b \in LeadOfFour => b \notin NoLead
           /\ b \in Single \cup LeadOfTwo \cup LeadOfThree \cup LeadOfFour \cup NoLead
           /\ b \in ShortOfTwo => b \in LeadOfTwo
           /\ b \in ShortOfFour => b \in LeadOfFour
BY SMT DEF Bytes, Single, LeadOfTwo, LeadOfThree, LeadOfFour, NoLead, ShortOfTwo, ShortOfFour

LEMMA TrailAt ==
    ASSUME NEW s, NEW from \in Int, NEW to \in Int, Trails(s, from, to), NEW j \in from .. to
    PROVE  s[j] \in 128 .. 191
BY DEF Trails, IsTrail

LEMMA ByteAt ==
    ASSUME NEW s \in Seq(Bytes), NEW k \in 1 .. Len(s)
    PROVE  /\ Len(s) \in Nat /\ k \in Nat \ {0} /\ k <= Len(s)
           /\ s[k] \in Bytes /\ s[k] \in Int /\ 0 <= s[k] /\ s[k] <= 255
<1>1. s[k] \in Bytes
    BY ElementOfSeq
<1>2. Len(s) \in Nat /\ k \in Nat \ {0} /\ k <= Len(s)
    BY LenProperties
<1>3. \A b \in Bytes : b \in Int /\ 0 <= b /\ b <= 255
    BY DEF Bytes
<1> QED
    BY <1>1, <1>2, <1>3

(* A character by the ranges of its bytes.                                     *)
SecondIn(s, k) == s[k + 1] \in Takes(AfterLead(s[k]))

LEMMA CharacterIs ==
    ASSUME NEW s \in Seq(Bytes), NEW k \in 1 .. Len(s)
    PROVE  IsCharacter(s, k) <=>
             \/ s[k] \in Single
             \/ s[k] \in ShortOfTwo /\ Trails(s, k + 1, k + 1)
             \/ s[k] \in LeadOfThree /\ Trails(s, k + 1, k + 2) /\ SecondIn(s, k)
             \/ s[k] \in ShortOfFour /\ Trails(s, k + 1, k + 3) /\ SecondIn(s, k)
<1>1. k \in Int /\ s[k] \in Bytes
    BY ByteAt
<1>2. /\ Trails(s, k + 1, k + 1) => s[k + 1] \in 128 .. 191
      /\ Trails(s, k + 1, k + 2) => s[k + 1] \in 128 .. 191 /\ s[k + 2] \in 128 .. 191
      /\ Trails(s, k + 1, k + 3) =>
           s[k + 1] \in 128 .. 191 /\ s[k + 2] \in 128 .. 191 /\ s[k + 3] \in 128 .. 191
  <2>1. /\ k + 1 \in Int /\ k + 2 \in Int /\ k + 3 \in Int
        /\ k + 1 \in k + 1 .. k + 1 /\ {k + 1, k + 2} \subseteq k + 1 .. k + 2
        /\ {k + 1, k + 2, k + 3} \subseteq k + 1 .. k + 3
    BY <1>1, SMT
  <2> QED
    BY <2>1, TrailAt
<1>3. Trails(s, k + 1, k + 1) /\ s[k] \in LeadOfTwo =>
        (ValueOfTwo(s[k], s[k + 1]) >= 128 <=> s[k] \in ShortOfTwo)
    BY <1>2, TwoBytes
<1>4. Trails(s, k + 1, k + 2) /\ s[k] \in LeadOfThree =>
        (ValueOfThree(s[k], s[k + 1], s[k + 2]) \in OfThree <=> SecondIn(s, k))
  <2> HAVE Trails(s, k + 1, k + 2) /\ s[k] \in LeadOfThree
  <2>1. s[k + 1] \in 128 .. 191 /\ s[k + 2] \in 128 .. 191
    BY <1>2
  <2> QED
    BY <2>1, ThreeBytes, Zenon DEF SecondIn
<1>5. Trails(s, k + 1, k + 3) /\ s[k] \in LeadOfFour =>
        (ValueOfFour(s[k], s[k + 1], s[k + 2], s[k + 3]) \in OfFour <=>
            s[k] \in ShortOfFour /\ SecondIn(s, k))
  <2> HAVE Trails(s, k + 1, k + 3) /\ s[k] \in LeadOfFour
  <2>1. s[k + 1] \in 128 .. 191 /\ s[k + 2] \in 128 .. 191 /\ s[k + 3] \in 128 .. 191
    BY <1>2
  <2> QED
    BY <2>1, FourBytes, Zenon DEF SecondIn
<1>6. /\ s[k] \in Single => /\ s[k] \notin LeadOfTwo /\ s[k] \notin LeadOfThree
                            /\ s[k] \notin LeadOfFour
      /\ s[k] \in LeadOfTwo => s[k] \notin LeadOfThree /\ s[k] \notin LeadOfFour
      /\ s[k] \in LeadOfThree => s[k] \notin LeadOfFour
      /\ s[k] \in ShortOfTwo => s[k] \in LeadOfTwo
      /\ s[k] \in ShortOfFour => s[k] \in LeadOfFour
    BY <1>1, BytesApart, Zenon
<1> QED
    BY <1>3, <1>4, <1>5, <1>6, Zenon DEF IsCharacter

LEMMA LengthIs ==
    ASSUME NEW b \in Bytes
    PROVE  /\ b \in Single => Length(b) = 1
           /\ b \in ShortOfTwo => Length(b) = 2
           /\ b \in LeadOfThree => Length(b) = 3
           /\ b \in ShortOfFour => Length(b) = 4
BY DEF Length, Bytes, Single, ShortOfTwo, LeadOfThree, ShortOfFour

LEMMA TrailIs ==
    ASSUME NEW b \in Bytes
    PROVE  /\ \A state \in 2 .. 8 : b \in Takes(state) => IsTrail(b)
           /\ \A state \in {2, 3} : b \in Takes(state) <=> IsTrail(b)
           /\ IsTrail(b) => b \notin Single \cup Leads
           /\ b \notin Single \cup Leads =>
                b \notin Single /\ b \notin ShortOfTwo /\ b \notin LeadOfThree /\ b \notin ShortOfFour
<1>1. b \in Int
    BY DEF Bytes
<1>2. /\ \A state \in 2 .. 8 : b \in Takes(state) => IsTrail(b)
      /\ \A state \in {2, 3} : b \in Takes(state) <=> IsTrail(b)
    BY <1>1, SMT DEF Takes, Least, Greatest, IsTrail
<1>3. IsTrail(b) => b \notin Single \cup Leads
    BY <1>1, SMT DEF IsTrail, Single, Leads, ShortOfTwo, LeadOfThree, ShortOfFour
<1> QED
    BY <1>2, <1>3, Zenon DEF Leads

LEMMA LeadIs ==
    ASSUME NEW b \in Bytes
    PROVE  /\ b \in ShortOfTwo => AfterLead(b) = 2 /\ b \notin LeadOfThree /\ b \notin ShortOfFour
           /\ b \in LeadOfThree => AfterLead(b) \in 3 .. 5 /\ b \notin ShortOfFour
           /\ b \in ShortOfFour => AfterLead(b) \in 6 .. 8
           /\ AfterLead(b) \in 2 .. 8
           /\ b \in Leads => b \notin Single /\ ~IsTrail(b)
BY DEF Bytes, AfterLead, Leads, Single, IsTrail, ShortOfTwo, LeadOfThree, ShortOfFour

(* From the k-th byte to the one before i, a character is in the making, and   *)
(* state is where the decoder has come with it.                                *)
Begun(s, k, i, state) ==
    /\ k \in Nat \ {0} /\ i \in k .. k + 3 /\ i <= Len(s) + 1
    /\ \A j \in k + 1 .. i - 1 : IsTrail(s[j])
    /\ i > k => s[k] \in Leads
    /\ i > k + 1 => SecondIn(s, k)
    /\ i = k => state = 0
    /\ i = k + 1 => state = AfterLead(s[k])
    /\ i = k + 2 => (s[k] \in LeadOfThree /\ state = 2) \/ (s[k] \in ShortOfFour /\ state = 3)
    /\ i = k + 3 => s[k] \in ShortOfFour /\ state = 2

LEMMA CharacterStep ==
    ASSUME NEW s \in Seq(Bytes), NEW k, NEW i, NEW state, Begun(s, k, i, state), i <= Len(s),
           NEW d, d = decode(state, s[i])
    PROVE  /\ d = 0 => /\ IsCharacter(s, k) /\ k + Length(s[k]) = i + 1 /\ ~IsTrail(s[k])
                       /\ \A j \in k + 1 .. i : IsTrail(s[j])
           /\ d = 1 => IsTrail(s[k]) \/ ~IsCharacter(s, k)
           /\ d \notin {0, 1} => Begun(s, k, i + 1, d)
<1>1. /\ k \in Nat \ {0} /\ i \in Nat /\ k <= i /\ i <= k + 3 /\ Len(s) \in Nat
      /\ k \in 1 .. Len(s) /\ i \in 1 .. Len(s)
    BY LenProperties DEF Begun
<1>2. s[k] \in Bytes /\ s[i] \in Bytes
    BY <1>1, ByteAt
<1>3. CASE i = k
  <2>1. state = 0
    BY <1>3 DEF Begun
  <2>2. d = IF s[k] \in Single THEN 0 ELSE IF s[k] \in Leads THEN AfterLead(s[k]) ELSE 1
    BY <1>2, <1>3, <2>1, DecodeIs
  <2>3. AfterLead(s[k]) \in 2 .. 8
    BY <1>2, LeadIs
  <2>4. CASE s[k] \in Single
    <3>1. IsCharacter(s, k) /\ Length(s[k]) = 1 /\ ~IsTrail(s[k])
        BY <1>1, <1>2, <2>4, CharacterIs, LengthIs, TrailIs
    <3> QED
        BY <1>1, <1>3, <2>2, <2>4, <3>1
  <2>5. CASE s[k] \notin Single /\ s[k] \in Leads
    BY <1>1, <1>3, <2>2, <2>3, <2>5 DEF Begun
  <2>6. CASE s[k] \notin Single /\ s[k] \notin Leads
    <3>1. ~IsCharacter(s, k)
        BY <1>1, <1>2, <2>6, CharacterIs, TrailIs
    <3> QED
        BY <2>2, <2>6, <3>1
  <2> QED
    BY <2>4, <2>5, <2>6
<1>4. CASE i = k + 1
  <2>1. state = AfterLead(s[k]) /\ s[k] \in Leads
    BY <1>1, <1>4 DEF Begun
  <2>2. d = IF SecondIn(s, k) THEN Fewer(AfterLead(s[k])) ELSE 1
    BY <1>2, <1>4, <2>1, DecodeIs, LeadIs DEF SecondIn
  <2>3. SecondIn(s, k) => IsTrail(s[i])
    BY <1>2, <1>4, <2>1, LeadIs, TrailIs DEF SecondIn
  <2>4. s[k] \notin Single /\ ~IsTrail(s[k])
    BY <1>2, <2>1, LeadIs
  <2>5. CASE s[k] \in ShortOfTwo
    <3>1. SecondIn(s, k) <=> Trails(s, k + 1, k + 1)
        BY <1>1, <1>2, <1>4, <2>5, LeadIs, TrailIs DEF SecondIn, Trails
    <3>2. IsCharacter(s, k) <=> SecondIn(s, k)
        BY <1>1, <1>2, <2>4, <2>5, <3>1, CharacterIs, LeadIs
    <3>3. Fewer(AfterLead(s[k])) = 0 /\ k + Length(s[k]) = i + 1
        BY <1>1, <1>2, <1>4, <2>5, LeadIs, LengthIs DEF Fewer
    <3> QED
        BY <1>1, <1>4, <2>2, <2>3, <2>4, <3>2, <3>3
  <2>6. CASE s[k] \in LeadOfThree \/ s[k] \in ShortOfFour
    <3>1. s[k] \notin ShortOfTwo
        BY <1>2, <2>6, LeadIs
    <3>2. IsCharacter(s, k) => SecondIn(s, k)
        BY <1>1, <2>4, <3>1, CharacterIs
    <3>3. \/ s[k] \in LeadOfThree /\ Fewer(AfterLead(s[k])) = 2
          \/ s[k] \in ShortOfFour /\ Fewer(AfterLead(s[k])) = 3
        BY <1>2, <2>6, LeadIs DEF Fewer
    <3>4. d # 0
        BY <2>2, <3>3
    <3>5. d = 1 => ~IsCharacter(s, k)
        BY <2>2, <3>2, <3>3
    <3>6. d # 1 => SecondIn(s, k) /\ d = Fewer(AfterLead(s[k]))
        BY <2>2
    <3>7. d # 1 => Begun(s, k, i + 1, d)
        BY <1>1, <1>4, <2>1, <2>3, <3>3, <3>6 DEF Begun
    <3> QED
        BY <3>4, <3>5, <3>7
  <2> QED
    BY <2>1, <2>5, <2>6 DEF Leads
<1>5. CASE i = k + 2
  <2>1. /\ SecondIn(s, k) /\ s[k] \in Leads /\ IsTrail(s[k + 1])
        /\ \/ s[k] \in LeadOfThree /\ state = 2
           \/ s[k] \in ShortOfFour /\ state = 3
    BY <1>1, <1>5 DEF Begun
  <2>2. d = IF IsTrail(s[i]) THEN Fewer(state) ELSE 1
    BY <1>2, <2>1, DecodeIs, TrailIs
  <2>3. s[k] \notin Single /\ ~IsTrail(s[k]) /\ s[k] \notin ShortOfTwo
    BY <1>2, <2>1, LeadIs DEF Leads
  <2>4. CASE s[k] \in LeadOfThree
    <3>1. IsTrail(s[i]) <=> Trails(s, k + 1, k + 2)
        BY <1>1, <1>5, <2>1 DEF Trails
    <3>2. IsCharacter(s, k) <=> IsTrail(s[i])
        BY <1>1, <1>2, <2>1, <2>3, <2>4, <3>1, CharacterIs, LeadIs
    <3>3. Fewer(state) = 0 /\ k + Length(s[k]) = i + 1
        BY <1>1, <1>2, <1>5, <2>1, <2>4, LeadIs, LengthIs DEF Fewer
    <3> QED
        BY <1>1, <1>5, <2>1, <2>2, <2>3, <3>2, <3>3
  <2>5. CASE s[k] \in ShortOfFour
    <3>1. s[k] \notin LeadOfThree /\ Fewer(state) = 2
        BY <1>2, <2>1, <2>5, LeadIs DEF Fewer
    <3>2. IsCharacter(s, k) => IsTrail(s[i])
        BY <1>1, <1>5, <2>3, <3>1, CharacterIs DEF Trails
    <3> QED
        BY <1>1, <1>5, <2>1, <2>2, <2>5, <3>1, <3>2 DEF Begun
  <2> QED
    BY <2>1, <2>4, <2>5
<1>6. CASE i = k + 3
  <2>1. /\ SecondIn(s, k) /\ s[k] \in Leads /\ IsTrail(s[k + 1]) /\ IsTrail(s[k + 2])
        /\ s[k] \in ShortOfFour /\ state = 2
    BY <1>1, <1>6 DEF Begun
  <2>2. d = IF IsTrail(s[i]) THEN 0 ELSE 1
    BY <1>2, <2>1, DecodeIs, TrailIs DEF Fewer
  <2>3. /\ s[k] \notin Single /\ ~IsTrail(s[k]) /\ s[k] \notin ShortOfTwo
        /\ s[k] \notin LeadOfThree
    BY <1>2, <2>1, LeadIs DEF Leads
  <2>4. IsTrail(s[i]) <=> Trails(s, k + 1, k + 3)
    BY <1>1, <1>6, <2>1 DEF Trails
  <2>5. IsCharacter(s, k) <=> IsTrail(s[i])
    BY <1>1, <1>2, <2>1, <2>3, <2>4, CharacterIs
  <2>6. k + Length(s[k]) = i + 1
    BY <1>1, <1>2, <1>6, <2>1, LengthIs
  <2> QED
    BY <1>1, <1>6, <2>1, <2>2, <2>3, <2>5, <2>6
<1> QED
    BY <1>1, <1>3, <1>4, <1>5, <1>6

(* Up to the k-th byte, one whole character stands behind the other.           *)
WholeTo(s, k) ==
    /\ k \in 1 .. Len(s) + 1
    /\ k > 1 => ~IsTrail(s[1])
    /\ \A j \in 1 .. k - 1 : ~IsTrail(s[j]) =>
         /\ IsCharacter(s, j)
         /\ \/ j + Length(s[j]) = k
            \/ j + Length(s[j]) < k /\ ~IsTrail(s[j + Length(s[j])])

LEMMA LengthsAre == \A b : Length(b) \in 1 .. 4
BY DEF Length

(* A whole character more.                                                     *)
LEMMA OneMore ==
    ASSUME NEW s \in Seq(Bytes), NEW k, NEW i, WholeTo(s, k), i \in Nat, k <= i, i <= Len(s),
           IsCharacter(s, k), k + Length(s[k]) = i + 1, ~IsTrail(s[k]),
           \A j \in k + 1 .. i : IsTrail(s[j])
    PROVE  WholeTo(s, i + 1)
<1>1. k \in Nat \ {0} /\ Len(s) \in Nat
    BY LenProperties DEF WholeTo
<1>2. ~IsTrail(s[1])
    BY <1>1 DEF WholeTo
<1>3. ASSUME NEW j \in 1 .. i, ~IsTrail(s[j])
      PROVE  /\ IsCharacter(s, j)
             /\ \/ j + Length(s[j]) = i + 1
                \/ j + Length(s[j]) < i + 1 /\ ~IsTrail(s[j + Length(s[j])])
  <2>1. Length(s[j]) \in Nat
    BY LengthsAre
  <2>2. j <= k
    BY <1>1, <1>3
  <2>3. CASE j = k
    BY <2>3
  <2>4. CASE j < k
    <3>1. j \in 1 .. k - 1
        BY <1>1, <2>4
    <3>2. /\ IsCharacter(s, j)
          /\ \/ j + Length(s[j]) = k
             \/ j + Length(s[j]) < k /\ ~IsTrail(s[j + Length(s[j])])
        BY <1>3, <3>1 DEF WholeTo
    <3> QED
        BY <1>1, <2>1, <3>2
  <2> QED
    BY <1>1, <2>2, <2>3, <2>4
<1> QED
    BY <1>1, <1>2, <1>3 DEF WholeTo

LEMMA WholeIsText ==
    ASSUME NEW s \in Seq(Bytes), WholeTo(s, Len(s) + 1)
    PROVE  IsUtf8(s)
<1>1. Len(s) \in Nat
    BY LenProperties
<1>2. \A j \in 1 .. Len(s) : Length(s[j]) \in Nat
    BY LengthsAre
<1> QED
    BY <1>1, <1>2 DEF WholeTo, IsUtf8, Starts

(* What breaks off is no character.                                            *)
LEMMA BreaksOff ==
    ASSUME NEW s \in Seq(Bytes), NEW k, NEW state, Begun(s, k, Len(s) + 1, state), state # 0
    PROVE  k \in 1 .. Len(s) /\ ~IsTrail(s[k]) /\ ~IsCharacter(s, k)
<1>1. k \in 1 .. Len(s) /\ Len(s) \in Nat /\ s[k] \in Leads
    BY LenProperties DEF Begun
<1>2. s[k] \in Bytes
    BY <1>1, ByteAt
<1>3. s[k] \notin Single /\ ~IsTrail(s[k])
    BY <1>1, <1>2, LeadIs
<1>4. CASE s[k] \in ShortOfTwo
    BY <1>1, <1>2, <1>3, <1>4, CharacterIs, LeadIs DEF Begun, Trails
<1>5. CASE s[k] \in LeadOfThree
    BY <1>1, <1>2, <1>3, <1>5, CharacterIs, LeadIs DEF Begun, Trails
<1>6. CASE s[k] \in ShortOfFour
    BY <1>1, <1>2, <1>3, <1>6, CharacterIs, LeadIs DEF Begun, Trails
<1> QED
    BY <1>1, <1>3, <1>4, <1>5, <1>6 DEF Leads

(* A strict dump in the middle of raw: whole characters up to some k, one in   *)
(* the making behind them.  If raw is text, a character does begin at k.       *)
DecodedTo(k) ==
    /\ WholeTo(raw, k) /\ Begun(raw, k, dumper.i, dumper.state)
    /\ IsUtf8(raw) => Starts(raw, k)

DumpInv ==
    /\ raw \in Seq(Bytes) /\ DOMAIN dumper = DOMAIN Idle
    /\ dumper.at \in {"idle", "loop", "thrown", "written"}
    /\ dumper.at = "loop" /\ dumper.handler = "strict" => \E k \in Nat : DecodedTo(k)
    /\ dumper.at = "thrown" => dumper.handler = "strict" /\ ~IsUtf8(raw)
    /\ dumper.at = "written" /\ dumper.handler = "strict" => IsUtf8(raw)

LEMMA DumpByteKeeps == DumpInv /\ DumpByte => DumpInv'
<1> SUFFICES ASSUME DumpInv, DumpByte PROVE DumpInv'
    OBVIOUS
<1> DEFINE b == raw[dumper.i]
           state == decode(dumper.state, b)
           cp == Codepoint(dumper.state, dumper.cp, b)
<1>1. /\ raw' = raw /\ raw \in Seq(Bytes) /\ DOMAIN dumper = DOMAIN Idle /\ dumper.at = "loop"
      /\ dumper.i <= Len(raw)
      /\ dumper' = IF state = 0 THEN Accepts(b, cp)
                   ELSE IF state = 1 THEN Rejects(cp) ELSE GoesOn(b, state, cp)
    BY DEF DumpInv, DumpByte
<1>2. DOMAIN Idle = {"at", "ensure_ascii", "handler", "i", "state", "cp", "out", "accepted", "undumped"}
    BY DEF Idle
<1> HIDE DEF cp
<1>3. CASE state = 0
  <2>1. /\ DOMAIN dumper' = DOMAIN Idle /\ dumper'.at = "loop" /\ dumper'.handler = dumper.handler
        /\ dumper'.i = dumper.i + 1 /\ dumper'.state = 0
    BY <1>1, <1>2, <1>3 DEF Accepts
  <2>2. ASSUME dumper.handler = "strict"
        PROVE  \E k \in Nat : DecodedTo(k)'
    <3>1. PICK k \in Nat : DecodedTo(k)
        BY <1>1, <2>2 DEF DumpInv
    <3>2. /\ WholeTo(raw, k) /\ Begun(raw, k, dumper.i, dumper.state)
          /\ dumper.i \in Nat /\ k <= dumper.i
        BY <3>1 DEF DecodedTo, Begun
    <3>3. /\ IsCharacter(raw, k) /\ k + Length(raw[k]) = dumper.i + 1 /\ ~IsTrail(raw[k])
          /\ \A j \in k + 1 .. dumper.i : IsTrail(raw[j])
        BY <1>1, <1>3, <3>2, CharacterStep, SMTT(20)
    <3>4. WholeTo(raw, dumper.i + 1)
        BY <1>1, <3>2, <3>3, OneMore
    <3>5. Begun(raw, dumper.i + 1, dumper.i + 1, 0)
        BY <1>1, <3>2, LenProperties DEF Begun
    <3>6. IsUtf8(raw) => Starts(raw, dumper.i + 1)
      <4>1. k \in 1 .. Len(raw)
        BY <1>1, <3>2, LenProperties DEF Begun
      <4> QED
        BY <3>3, <4>1 DEF IsUtf8, Starts
    <3>7. PICK m \in Nat : m = dumper.i + 1
        BY <3>2
    <3>8. DecodedTo(m)'
        BY <1>1, <2>1, <3>4, <3>5, <3>6, <3>7 DEF DecodedTo
    <3> QED
        BY <3>8
  <2> QED
    BY <1>1, <2>1, <2>2 DEF DumpInv
<1>4. CASE state = 1
  <2>1. CASE dumper.handler = "strict"
    <3>1. PICK k \in Nat : DecodedTo(k)
        BY <1>1, <2>1 DEF DumpInv
    <3>2. Begun(raw, k, dumper.i, dumper.state) /\ (IsUtf8(raw) => Starts(raw, k))
        BY <3>1 DEF DecodedTo
    <3>3. IsTrail(raw[k]) \/ ~IsCharacter(raw, k)
        BY <1>1, <1>4, <3>2, CharacterStep
    <3>4. k \in 1 .. Len(raw)
        BY <1>1, <3>2, LenProperties DEF Begun
    <3>5. ~IsUtf8(raw)
        BY <1>1, <3>2, <3>3, <3>4, LenProperties DEF IsUtf8, Starts
    <3>6. /\ DOMAIN dumper' = DOMAIN Idle /\ dumper'.at = "thrown"
          /\ dumper'.handler = "strict"
        BY <1>1, <1>2, <1>4, <2>1 DEF Rejects, Throws
    <3> QED
        BY <1>1, <3>5, <3>6 DEF DumpInv
  <2>2. CASE dumper.handler # "strict"
    <3>1. /\ DOMAIN dumper' = DOMAIN Idle /\ dumper'.at = "loop"
          /\ dumper'.handler = dumper.handler
        BY <1>1, <1>2, <1>4, <2>2 DEF Rejects
    <3> QED
        BY <1>1, <2>2, <3>1 DEF DumpInv
  <2> QED
    BY <2>1, <2>2
<1>5. CASE state \notin {0, 1}
  <2>1. /\ DOMAIN dumper' = DOMAIN Idle /\ dumper'.at = "loop" /\ dumper'.handler = dumper.handler
        /\ dumper'.i = dumper.i + 1 /\ dumper'.state = state
    BY <1>1, <1>2, <1>5 DEF GoesOn
  <2>2. ASSUME dumper.handler = "strict"
        PROVE  \E k \in Nat : DecodedTo(k)'
    <3>1. PICK k \in Nat : DecodedTo(k)
        BY <1>1, <2>2 DEF DumpInv
    <3>2. Begun(raw, k, dumper.i + 1, state)
        BY <1>1, <1>5, <3>1, CharacterStep DEF DecodedTo
    <3>3. DecodedTo(k)'
        BY <1>1, <2>1, <3>1, <3>2 DEF DecodedTo
    <3> QED
        BY <3>3
  <2> QED
    BY <1>1, <2>1, <2>2 DEF DumpInv
<1> QED
    BY <1>3, <1>4, <1>5

LEMMA DumpEndsKeeps == DumpInv /\ DumpEnds => DumpInv'
<1> SUFFICES ASSUME DumpInv, DumpEnds PROVE DumpInv'
    OBVIOUS
<1>1. /\ raw' = raw /\ raw \in Seq(Bytes) /\ DOMAIN dumper = DOMAIN Idle /\ dumper.at = "loop"
      /\ dumper.i > Len(raw)
      /\ dumper' = IF dumper.state = 0 THEN [dumper EXCEPT !.at = "written"]
                   ELSE IF dumper.handler = "strict" THEN Throws
                   ELSE [dumper EXCEPT !.at = "written", !.out = Rejected]
    BY DEF DumpInv, DumpEnds
<1>2. DOMAIN Idle = {"at", "ensure_ascii", "handler", "i", "state", "cp", "out", "accepted", "undumped"}
    BY DEF Idle
<1>3. /\ DOMAIN dumper' = DOMAIN Idle /\ dumper'.handler = dumper.handler
      /\ dumper'.at = IF dumper.state # 0 /\ dumper.handler = "strict" THEN "thrown" ELSE "written"
    BY <1>1, <1>2 DEF Throws
<1>4. ASSUME dumper.handler = "strict"
      PROVE  IsUtf8(raw) <=> dumper.state = 0
  <2>1. PICK k \in Nat : DecodedTo(k)
    BY <1>1, <1>4 DEF DumpInv
  <2>2. /\ WholeTo(raw, k) /\ Begun(raw, k, Len(raw) + 1, dumper.state)
        /\ IsUtf8(raw) => Starts(raw, k)
    BY <1>1, <2>1, LenProperties DEF DecodedTo, Begun
  <2>3. CASE dumper.state = 0
    <3>1. k = Len(raw) + 1
      <4>1. CASE k < Len(raw) + 1
        <5>1. k \in 1 .. Len(raw) /\ raw[k] \in Bytes
            BY <1>1, <2>2, <4>1, LenProperties, ElementOfSeq DEF Begun
        <5> QED
            BY <1>1, <2>2, <2>3, <5>1, LeadIs DEF Begun
      <4> QED
        BY <1>1, <2>2, <4>1, LenProperties DEF Begun
    <3> QED
        BY <1>1, <2>2, <2>3, <3>1, WholeIsText
  <2>4. CASE dumper.state # 0
    <3>1. k \in 1 .. Len(raw) /\ ~IsTrail(raw[k]) /\ ~IsCharacter(raw, k)
        BY <1>1, <2>2, <2>4, BreaksOff
    <3> QED
        BY <2>4, <3>1 DEF IsUtf8, Starts
  <2> QED
    BY <2>3, <2>4
<1> QED
    BY <1>1, <1>3, <1>4 DEF DumpInv

LEMMA DumpBegins ==
    ASSUME NEW s \in Seq(Bytes), NEW ensure_ascii, NEW handler \in Handlers,
           dump_escaped(s, ensure_ascii, handler)
    PROVE  DumpInv'
<1>1. /\ raw' = s /\ DOMAIN dumper' = DOMAIN Idle /\ dumper'.at = "loop"
      /\ dumper'.i = 1 /\ dumper'.state = 0
    BY DEF dump_escaped, Idle
<1>2. WholeTo(s, 1) /\ Begun(s, 1, 1, 0)
    BY LenProperties DEF WholeTo, Begun
<1>3. IsUtf8(s) => Starts(s, 1)
    BY DEF IsUtf8
<1>4. DecodedTo(1)'
    BY <1>1, <1>2, <1>3 DEF DecodedTo
<1> QED
    BY <1>1, <1>4 DEF DumpInv

-------------------------------------------------------------------------------
(* What the lexer keeps of a string, under what is added to it.                *)

LEMMA Added ==
    ASSUME NEW s \in Seq(Bytes), NEW t \in Seq(Bytes)
    PROVE  /\ s \o t \in Seq(Bytes) /\ Len(s \o t) = Len(s) + Len(t)
           /\ \A j \in 1 .. Len(s) : (s \o t)[j] = s[j]
           /\ \A j \in 1 .. Len(t) : (s \o t)[Len(s) + j] = t[j]
           /\ Len(s) \in Nat /\ Len(t) \in Nat
BY ConcatProperties, LenProperties

LEMMA CharacterStays ==
    ASSUME NEW s \in Seq(Bytes), NEW t \in Seq(Bytes), NEW j \in 1 .. Len(s), IsCharacter(s, j)
    PROVE  IsCharacter(s \o t, j)
<1>1. /\ s \o t \in Seq(Bytes) /\ j \in 1 .. Len(s \o t) /\ (s \o t)[j] = s[j]
      /\ Len(s) \in Nat /\ j \in Nat /\ Len(s) <= Len(s \o t) /\ Len(s \o t) \in Nat
      /\ \A i \in 1 .. Len(s) : (s \o t)[i] = s[i]
    BY Added
<1>2. \A n \in 1 .. 3 : Trails(s, j + 1, j + n) => Trails(s \o t, j + 1, j + n)
    BY <1>1 DEF Trails
<1>3. \A n \in 1 .. 3 : Trails(s, j + 1, j + n) => (SecondIn(s, j) => SecondIn(s \o t, j))
    BY <1>1 DEF Trails, SecondIn
<1>4. /\ Trails(s, j + 1, j + 1) => Trails(s \o t, j + 1, j + 1)
      /\ Trails(s, j + 1, j + 2) /\ SecondIn(s, j) =>
           Trails(s \o t, j + 1, j + 2) /\ SecondIn(s \o t, j)
      /\ Trails(s, j + 1, j + 3) /\ SecondIn(s, j) =>
           Trails(s \o t, j + 1, j + 3) /\ SecondIn(s \o t, j)
    BY <1>2, <1>3
<1>5. \/ s[j] \in Single
      \/ s[j] \in ShortOfTwo /\ Trails(s, j + 1, j + 1)
      \/ s[j] \in LeadOfThree /\ Trails(s, j + 1, j + 2) /\ SecondIn(s, j)
      \/ s[j] \in ShortOfFour /\ Trails(s, j + 1, j + 3) /\ SecondIn(s, j)
    BY CharacterIs
<1>6. \/ (s \o t)[j] \in Single
      \/ (s \o t)[j] \in ShortOfTwo /\ Trails(s \o t, j + 1, j + 1)
      \/ (s \o t)[j] \in LeadOfThree /\ Trails(s \o t, j + 1, j + 2) /\ SecondIn(s \o t, j)
      \/ (s \o t)[j] \in ShortOfFour /\ Trails(s \o t, j + 1, j + 3) /\ SecondIn(s \o t, j)
    BY <1>1, <1>4, <1>5, Zenon
<1> QED
    BY <1>1, <1>6, CharacterIs

LEMMA WholeStays ==
    ASSUME NEW s \in Seq(Bytes), NEW t \in Seq(Bytes), NEW k, WholeTo(s, k)
    PROVE  WholeTo(s \o t, k)
<1>1. /\ s \o t \in Seq(Bytes) /\ Len(s) \in Nat /\ Len(s) <= Len(s \o t) /\ Len(s \o t) \in Nat
      /\ \A i \in 1 .. Len(s) : (s \o t)[i] = s[i]
      /\ k \in Nat \ {0} /\ k <= Len(s) + 1
    BY Added DEF WholeTo
<1>2. ASSUME NEW j \in 1 .. k - 1, ~IsTrail((s \o t)[j])
      PROVE  /\ IsCharacter(s \o t, j)
             /\ \/ j + Length((s \o t)[j]) = k
                \/ /\ j + Length((s \o t)[j]) < k
                   /\ ~IsTrail((s \o t)[j + Length((s \o t)[j])])
  <2>1. j \in 1 .. Len(s) /\ (s \o t)[j] = s[j] /\ j \in Nat
    BY <1>1
  <2>2. /\ IsCharacter(s, j)
        /\ \/ j + Length(s[j]) = k
           \/ j + Length(s[j]) < k /\ ~IsTrail(s[j + Length(s[j])])
    BY <1>2, <2>1 DEF WholeTo
  <2>3. Length(s[j]) \in 1 .. 4
    BY LengthsAre
  <2>4. j + Length(s[j]) < k =>
          (s \o t)[j + Length(s[j])] = s[j + Length(s[j])]
    BY <1>1, <2>1, <2>3
  <2> QED
    BY <2>1, <2>2, <2>4, CharacterStays
<1>3. k > 1 => ~IsTrail((s \o t)[1])
    BY <1>1 DEF WholeTo
<1>4. k \in 1 .. Len(s \o t) + 1
    BY <1>1
<1> QED
    BY <1>2, <1>3, <1>4, Zenon DEF WholeTo

LEMMA BegunStays ==
    ASSUME NEW s \in Seq(Bytes), NEW t \in Seq(Bytes), NEW k, NEW i, NEW state,
           Begun(s, k, i, state)
    PROVE  Begun(s \o t, k, i, state)
<1>1. /\ Len(s) \in Nat /\ Len(s) <= Len(s \o t) /\ Len(s \o t) \in Nat
      /\ \A j \in 1 .. Len(s) : (s \o t)[j] = s[j]
      /\ k \in Nat \ {0} /\ i \in Nat /\ i <= Len(s) + 1 /\ k <= i
    BY Added DEF Begun
<1>2. i > k => (s \o t)[k] = s[k]
    BY <1>1
<1>3. i > k + 1 => (SecondIn(s, k) => SecondIn(s \o t, k))
    BY <1>1, <1>2 DEF SecondIn
<1>4. \A j \in k + 1 .. i - 1 : (s \o t)[j] = s[j]
    BY <1>1
<1> QED
    BY <1>1, <1>2, <1>3, <1>4 DEF Begun

LEMMA CharacterAdded ==
    ASSUME NEW s \in Seq(Bytes), NEW t \in Seq(Bytes), WholeTo(s, Len(s) + 1), t # <<>>,
           IsCharacter(t, 1), Length(t[1]) = Len(t)
    PROVE  WholeTo(s \o t, Len(s \o t) + 1)
<1>1. /\ s \o t \in Seq(Bytes) /\ Len(s \o t) = Len(s) + Len(t) /\ Len(s) \in Nat
      /\ Len(t) \in Nat \ {0}
      /\ \A j \in 1 .. Len(t) : (s \o t)[Len(s) + j] = t[j]
    BY Added, EmptySeq, LenProperties
<1> DEFINE k == Len(s) + 1
<1>2. (s \o t)[k] = t[1] /\ k \in 1 .. Len(s \o t) /\ t[1] \in Bytes
    BY <1>1, ElementOfSeq
<1>3. \A n \in 1 .. 3 : Trails(t, 2, 1 + n) => Trails(s \o t, k + 1, k + n)
  <2> TAKE n \in 1 .. 3
  <2> HAVE Trails(t, 2, 1 + n)
  <2>1. 1 + n <= Len(t) /\ \A j \in 2 .. 1 + n : IsTrail(t[j])
    BY DEF Trails
  <2>2. ASSUME NEW i \in k + 1 .. k + n PROVE IsTrail((s \o t)[i])
    <3>1. i - Len(s) \in 2 .. 1 + n /\ i - Len(s) \in 1 .. Len(t) /\ Len(s) + (i - Len(s)) = i
        BY <1>1, <2>1
    <3> QED
        BY <1>1, <2>1, <3>1
  <2> QED
    BY <1>1, <2>1, <2>2 DEF Trails
<1>4. \A n \in 1 .. 3 : Trails(t, 2, 1 + n) => (SecondIn(t, 1) => SecondIn(s \o t, k))
  <2> TAKE n \in 1 .. 3
  <2> HAVE Trails(t, 2, 1 + n)
  <2>1. 2 <= Len(t)
    BY <1>1 DEF Trails
  <2>2. (s \o t)[k + 1] = t[2]
    <3>1. k + 1 = Len(s) + 2 /\ 2 \in 1 .. Len(t)
        BY <1>1, <2>1
    <3> QED
        BY <1>1, <3>1
  <2> QED
    BY <1>2, <2>2 DEF SecondIn
<1>5. /\ t[1] \in Single \/ t[1] \in Leads
      /\ IsCharacter(s \o t, k)
      /\ Trails(t, 2, Len(t)) \/ Len(t) = 1
  <2>1. \/ t[1] \in Single
        \/ t[1] \in ShortOfTwo /\ Trails(t, 2, 2)
        \/ t[1] \in LeadOfThree /\ Trails(t, 2, 3) /\ SecondIn(t, 1)
        \/ t[1] \in ShortOfFour /\ Trails(t, 2, 4) /\ SecondIn(t, 1)
    BY <1>1, CharacterIs
  <2>2. /\ t[1] \in Single => Len(t) = 1
        /\ t[1] \in ShortOfTwo => Len(t) = 2
        /\ t[1] \in LeadOfThree => Len(t) = 3
        /\ t[1] \in ShortOfFour => Len(t) = 4
    BY <1>2, LengthIs
  <2>3. /\ Trails(t, 2, 2) => Trails(s \o t, k + 1, k + 1)
        /\ Trails(t, 2, 3) /\ SecondIn(t, 1) => Trails(s \o t, k + 1, k + 2) /\ SecondIn(s \o t, k)
        /\ Trails(t, 2, 4) /\ SecondIn(t, 1) => Trails(s \o t, k + 1, k + 3) /\ SecondIn(s \o t, k)
    <3>1. /\ Trails(t, 2, 1 + 1) => Trails(s \o t, k + 1, k + 1)
          /\ Trails(t, 2, 1 + 2) /\ SecondIn(t, 1) =>
               Trails(s \o t, k + 1, k + 2) /\ SecondIn(s \o t, k)
          /\ Trails(t, 2, 1 + 3) /\ SecondIn(t, 1) =>
               Trails(s \o t, k + 1, k + 3) /\ SecondIn(s \o t, k)
        BY <1>3, <1>4
    <3> QED
        BY <3>1
  <2> HIDE DEF k
  <2>4. \/ (s \o t)[k] \in Single
        \/ (s \o t)[k] \in ShortOfTwo /\ Trails(s \o t, k + 1, k + 1)
        \/ (s \o t)[k] \in LeadOfThree /\ Trails(s \o t, k + 1, k + 2) /\ SecondIn(s \o t, k)
        \/ (s \o t)[k] \in ShortOfFour /\ Trails(s \o t, k + 1, k + 3) /\ SecondIn(s \o t, k)
    BY <1>2, <2>1, <2>3, Zenon
  <2>5. IsCharacter(s \o t, k)
    BY <1>1, <1>2, <2>4, CharacterIs
  <2> QED
    BY <2>1, <2>2, <2>5 DEF Leads
<1>6. ~IsTrail((s \o t)[k])
    BY <1>2, <1>5, TrailIs
<1>7. \A j \in k + 1 .. Len(s \o t) : IsTrail((s \o t)[j])
  <2> TAKE j \in k + 1 .. Len(s \o t)
  <2>1. j - Len(s) \in 2 .. Len(t) /\ j - Len(s) \in 1 .. Len(t) /\ Len(s) + (j - Len(s)) = j
    BY <1>1
  <2> QED
    BY <1>1, <1>5, <2>1 DEF Trails
<1>8. WholeTo(s \o t, k)
    BY WholeStays
<1>9. /\ Len(s \o t) \in Nat /\ k <= Len(s \o t) /\ Len(s \o t) <= Len(s \o t)
      /\ k + Length((s \o t)[k]) = Len(s \o t) + 1
  <2>1. Length((s \o t)[k]) = Len(t)
    BY <1>2, Zenon
  <2> QED
    BY <1>1, <2>1, SMT
<1> HIDE DEF k
<1> QED
    BY <1>1, <1>5, <1>6, <1>7, <1>8, <1>9, OneMore

(* Code points in bytes.                                                       *)
Whole(t) == t \in Seq(Bytes) /\ t # <<>> /\ IsCharacter(t, 1) /\ Length(t[1]) = Len(t)

LEMMA SixBits ==
    ASSUME NEW n \in Nat
    PROVE  /\ n = 64 * (n \div 64) + (n % 64)
           /\ n = 4096 * (n \div 4096) + 64 * ((n \div 64) % 64) + (n % 64)
           /\ n = 262144 * (n \div 262144) + 4096 * ((n \div 4096) % 64)
                   + 64 * ((n \div 64) % 64) + (n % 64)
           /\ n \div 64 \in Nat /\ n \div 4096 \in Nat /\ n \div 262144 \in Nat
           /\ n % 64 \in 0 .. 63 /\ (n \div 64) % 64 \in 0 .. 63 /\ (n \div 4096) % 64 \in 0 .. 63
BY SMT

LEMMA SingleWhole ==
    ASSUME NEW b \in Single
    PROVE  Whole(<<b>>)
<1>1. b \in Bytes
    BY SMT DEF Single, Bytes
<1>2. <<b>> \in Seq(Bytes) /\ Len(<<b>>) = 1 /\ <<b>>[1] = b
    BY <1>1
<1> QED
    BY <1>1, <1>2, LengthIs, EmptySeq DEF Whole, IsCharacter

LEMMA InBytesOfTwo ==
    ASSUME NEW cp \in Nat, 128 <= cp, cp <= 2047
    PROVE  Whole(<<192 + cp \div 64, 128 + (cp % 64)>>)
<1> DEFINE a == 192 + cp \div 64
           b == 128 + (cp % 64)
<1>1. a \in Int /\ b \in Int /\ 194 <= a /\ a <= 223 /\ 128 <= b /\ b <= 191
    BY SixBits, SMT
<1> HIDE DEF a, b
<1>2. a \in ShortOfTwo /\ a \in Bytes /\ b \in Bytes /\ IsTrail(b)
    BY <1>1, SMT DEF ShortOfTwo, Bytes, IsTrail
<1> DEFINE t == <<a, b>>
<1>3. /\ t \in Seq(Bytes) /\ Len(t) = 2 /\ t[1] = a /\ t[2] = b /\ t # <<>>
      /\ 1 \in 1 .. Len(t)
    BY <1>2
<1> HIDE DEF t
<1>4. Trails(t, 1 + 1, 1 + 1)
    BY <1>2, <1>3 DEF Trails
<1>5. IsCharacter(t, 1)
    BY <1>2, <1>3, <1>4, CharacterIs
<1>6. Whole(t)
    BY <1>2, <1>3, <1>5, LengthIs DEF Whole
<1> QED
    BY <1>6 DEF t, a, b

LEMMA InBytesOfThree ==
    ASSUME NEW cp \in Nat, cp \in OfThree
    PROVE  Whole(<<224 + cp \div 4096, 128 + ((cp \div 64) % 64), 128 + (cp % 64)>>)
<1> DEFINE a == 224 + cp \div 4096
           b == 128 + ((cp \div 64) % 64)
           c == 128 + (cp % 64)
<1>1. cp \in Int /\ 2048 <= cp /\ cp <= 65535
    BY CodepointsIn, SMT
<1>2. /\ a \in Int /\ b \in Int /\ c \in Int /\ 224 <= a /\ a <= 239
      /\ 128 <= b /\ b <= 191 /\ 128 <= c /\ c <= 191
    BY <1>1, SixBits, SMT
<1>3. ValueOfThree(a, b, c) = cp
    BY <1>1, SixBits, SMT DEF ValueOfThree
<1> HIDE DEF a, b, c
<1>4. /\ a \in LeadOfThree /\ a \in Bytes /\ b \in Bytes /\ IsTrail(b) /\ c \in Bytes /\ IsTrail(c)
      /\ b \in 128 .. 191 /\ c \in 128 .. 191
    BY <1>2, SMT DEF LeadOfThree, Bytes, IsTrail
<1>5. b \in Takes(AfterLead(a))
    BY <1>3, <1>4, ThreeBytes
<1>6. /\ <<a, b, c>> \in Seq(Bytes) /\ Len(<<a, b, c>>) = 3 /\ <<a, b, c>>[1] = a
      /\ <<a, b, c>>[2] = b /\ <<a, b, c>>[3] = c /\ <<a, b, c>> # <<>>
      /\ 1 \in 1 .. Len(<<a, b, c>>)
    BY <1>4
<1>7. Trails(<<a, b, c>>, 1 + 1, 1 + 2) /\ SecondIn(<<a, b, c>>, 1)
    BY <1>4, <1>5, <1>6 DEF Trails, SecondIn
<1>8. IsCharacter(<<a, b, c>>, 1)
    BY <1>4, <1>6, <1>7, CharacterIs
<1>9. Whole(<<a, b, c>>)
    BY <1>4, <1>6, <1>8, LengthIs DEF Whole
<1> QED
    BY <1>9 DEF a, b, c

LEMMA InBytesOfFour ==
    ASSUME NEW cp \in Nat, cp \in OfFour
    PROVE  Whole(<<240 + cp \div 262144, 128 + ((cp \div 4096) % 64),
                   128 + ((cp \div 64) % 64), 128 + (cp % 64)>>)
<1> DEFINE a == 240 + cp \div 262144
           b == 128 + ((cp \div 4096) % 64)
           c == 128 + ((cp \div 64) % 64)
           d == 128 + (cp % 64)
<1>1. cp \in Int /\ 65536 <= cp /\ cp <= 1114111
    BY CodepointsIn, SMT
<1>2. /\ a \in Int /\ b \in Int /\ c \in Int /\ d \in Int /\ 240 <= a /\ a <= 247
      /\ 128 <= b /\ b <= 191 /\ 128 <= c /\ c <= 191 /\ 128 <= d /\ d <= 191
    BY <1>1, SixBits, SMT
<1>3. ValueOfFour(a, b, c, d) = cp
    BY <1>1, SixBits, SMT DEF ValueOfFour
<1> HIDE DEF a, b, c, d
<1>4. /\ a \in LeadOfFour /\ a \in Bytes /\ b \in Bytes /\ IsTrail(b) /\ c \in Bytes /\ IsTrail(c)
      /\ d \in Bytes /\ IsTrail(d) /\ b \in 128 .. 191 /\ c \in 128 .. 191 /\ d \in 128 .. 191
    BY <1>2, SMT DEF LeadOfFour, Bytes, IsTrail
<1>5. b \in Takes(AfterLead(a)) /\ a \in ShortOfFour
  <2>1. ValueOfFour(a, b, c, d) \in OfFour
    BY <1>3
  <2>2. ValueOfFour(a, b, c, d) \in OfFour <=> a \in ShortOfFour /\ b \in Takes(AfterLead(a))
    BY <1>4, FourBytes, Zenon
  <2> QED
    BY <2>1, <2>2, Zenon
<1> DEFINE t == <<a, b, c, d>>
<1>6. /\ t \in Seq(Bytes) /\ Len(t) = 4 /\ t[1] = a /\ t[2] = b /\ t[3] = c /\ t[4] = d
      /\ t # <<>> /\ 1 \in 1 .. Len(t)
    BY <1>4
<1> HIDE DEF t
<1>7. Trails(t, 1 + 1, 1 + 3) /\ SecondIn(t, 1)
    BY <1>4, <1>5, <1>6 DEF Trails, SecondIn
<1>8. IsCharacter(t, 1)
    BY <1>5, <1>6, <1>7, CharacterIs
<1>9. Whole(t)
    BY <1>4, <1>5, <1>6, <1>8, LengthIs DEF Whole
<1> QED
    BY <1>9 DEF t, a, b, c, d

(* A code point that is no surrogate makes one whole character.                *)
Units == {n \in Nat : n <= 65535}
ScalarValues == {n \in Nat : n <= 1114111 /\ n \notin High \cup Low}

LEMMA PairIs ==
    ASSUME NEW high \in High, NEW low \in Low
    PROVE  Pair(high, low) \in ScalarValues
<1>1. high \in Int /\ 55296 <= high /\ high <= 56319 /\ low \in Int /\ 56320 <= low /\ low <= 57343
    BY SMT DEF High, Low
<1> DEFINE v == Pair(high, low)
<1>2. v \in Int /\ 65536 <= v /\ v <= 1114111
    BY <1>1, SMT DEF Pair
<1> HIDE DEF v
<1>3. v \in Nat
    BY <1>2, SMT
<1>4. v \notin High \cup Low
    BY <1>2, SurrogateIs, SMT
<1>5. v \in ScalarValues
    BY <1>2, <1>3, <1>4, SMT DEF ScalarValues
<1> QED
    BY <1>5, Zenon DEF v

LEMMA UnitIs ==
    ASSUME NEW cp \in Units, cp \notin High, cp \notin Low
    PROVE  cp \in ScalarValues
BY SMT DEF Units, ScalarValues

LEMMA InBytesWhole ==
    ASSUME NEW cp \in ScalarValues
    PROVE  Whole(InBytes(cp))
<1>0. cp \in Nat /\ cp <= 1114111 /\ cp \notin High \cup Low
    BY SMT DEF ScalarValues
<1>1. CASE cp < 128
  <2>1. cp \in Single
    BY <1>0, <1>1, SMT DEF Single
  <2> QED
    BY <1>0, <1>1, <2>1, SingleWhole, SMT DEF InBytes
<1>2. CASE 128 <= cp /\ cp <= 2047
  <2>1. InBytes(cp) = <<192 + cp \div 64, 128 + (cp % 64)>>
    BY <1>0, <1>2, SMT DEF InBytes
  <2> QED
    BY <1>0, <1>2, <2>1, InBytesOfTwo, SMT
<1>3. CASE 2047 < cp /\ cp <= 65535
  <2>1. cp \in OfThree
    BY <1>0, <1>3, SMT DEF OfThree, BasicMax
  <2>2. InBytes(cp) = <<224 + cp \div 4096, 128 + ((cp \div 64) % 64), 128 + (cp % 64)>>
    BY <1>0, <1>3, SMTT(20) DEF InBytes
  <2> QED
    BY <1>0, <2>1, <2>2, InBytesOfThree, SMTT(20)
<1>4. CASE 65535 < cp
  <2>1. cp \in OfFour
    BY <1>0, <1>4, CodepointsIn, SMT
  <2>2. InBytes(cp) = <<240 + cp \div 262144, 128 + ((cp \div 4096) % 64),
                        128 + ((cp \div 64) % 64), 128 + (cp % 64)>>
    BY <1>0, <1>4, SMT DEF InBytes
  <2> QED
    BY <1>0, <2>1, <2>2, InBytesOfFour, SMT
<1> QED
    BY <1>0, <1>1, <1>2, <1>3, <1>4, SMT

(* The lexer's ranges are the states of the decoder.                           *)
LEMMA LacksIs ==
    ASSUME NEW state \in 2 .. 8
    PROVE  /\ Lacks(state) # <<>> /\ Lacks(state)[1] = <<Least(state), Greatest(state)>>
           /\ Tail(Lacks(state)) = Lacks(Fewer(state)) /\ Fewer(state) \in {0, 2, 3}
<1> DEFINE r == <<Least(state), Greatest(state)>>
<1>1. r # <<>> /\ <<r>> # <<>> /\ <<r, Tail80>> # <<>> /\ <<r, Tail80, Tail80>> # <<>>
    OBVIOUS
<1>2. Tail(<<r>>) = <<>> /\ Tail(<<r, Tail80>>) = <<Tail80>>
      /\ Tail(<<r, Tail80, Tail80>>) = <<Tail80, Tail80>>
    OBVIOUS
<1>3. CASE state = 2
  <2>1. r = Tail80 /\ Lacks(state) = <<r>> /\ Fewer(state) = 0 /\ Lacks(0) = <<>>
    BY <1>3 DEF Least, Greatest, Tail80, Lacks, Fewer
  <2> QED
    BY <1>1, <1>2, <2>1
<1>4. CASE state \in 3 .. 5
  <2>1. Lacks(state) = <<r, Tail80>> /\ Fewer(state) = 2 /\ Lacks(2) = <<Tail80>>
    BY <1>4 DEF Lacks, Fewer
  <2> QED
    BY <1>1, <1>2, <2>1
<1>5. CASE state \in 6 .. 8
  <2>1. Lacks(state) = <<r, Tail80, Tail80>> /\ Fewer(state) = 3 /\ Lacks(3) = <<Tail80, Tail80>>
    BY <1>5 DEF Lacks, Fewer, Least, Greatest, Tail80
  <2> QED
    BY <1>1, <1>2, <2>1
<1> QED
    BY <1>3, <1>4, <1>5

LEMMA LeadsIn ==
    ASSUME NEW c \in Int, \E q \in Sequences : c \in q[1]
    PROVE  c \in Leads /\ (CHOOSE q \in Sequences : c \in q[1])[2] = Lacks(AfterLead(c))
<1> DEFINE p == CHOOSE q \in Sequences : c \in q[1]
<1>1. p \in Sequences /\ c \in p[1]
    OBVIOUS
<1> HIDE DEF p
<1>2. \/ p = <<194 .. 223, <<Tail80>>>>
      \/ p = <<{224}, << <<160, 191>>, Tail80>>>>
      \/ p = <<(225 .. 236) \cup {238, 239}, <<Tail80, Tail80>>>>
      \/ p = <<{237}, <<TailED, Tail80>>>>
      \/ p = <<{240}, << <<144, 191>>, Tail80, Tail80>>>>
      \/ p = <<241 .. 243, <<Tail80, Tail80, Tail80>>>>
      \/ p = <<{244}, << <<128, 143>>, Tail80, Tail80>>>>
    BY <1>1 DEF Sequences
<1>3. CASE p = <<194 .. 223, <<Tail80>>>>
  <2>1. c \in 194 .. 223 /\ p[2] = <<Tail80>>
    BY <1>1, <1>3
  <2>2. c \in Leads /\ AfterLead(c) = 2
    BY <2>1 DEF Leads, ShortOfTwo, AfterLead
  <2> QED
    BY <2>1, <2>2 DEF Lacks, p
<1>4. CASE p = <<{224}, << <<160, 191>>, Tail80>>>>
  <2>1. c = 224 /\ p[2] = << <<160, 191>>, Tail80>>
    BY <1>1, <1>4
  <2>2. c \in Leads /\ AfterLead(c) = 4 /\ Least(4) = 160 /\ Greatest(4) = 191
    BY <2>1 DEF Leads, LeadOfThree, AfterLead, Least, Greatest
  <2> QED
    BY <2>1, <2>2 DEF Lacks, p
<1>5. CASE p = <<(225 .. 236) \cup {238, 239}, <<Tail80, Tail80>>>>
  <2>1. c \in (225 .. 236) \cup {238, 239} /\ p[2] = <<Tail80, Tail80>>
    BY <1>1, <1>5
  <2>2. c \in Leads /\ AfterLead(c) = 3 /\ Least(3) = 128 /\ Greatest(3) = 191
    BY <2>1 DEF Leads, LeadOfThree, AfterLead, Least, Greatest
  <2> QED
    BY <2>1, <2>2 DEF Lacks, p, Tail80
<1>6. CASE p = <<{237}, <<TailED, Tail80>>>>
  <2>1. c = 237 /\ p[2] = <<TailED, Tail80>>
    BY <1>1, <1>6
  <2>2. c \in Leads /\ AfterLead(c) = 5 /\ Least(5) = 128 /\ Greatest(5) = 159
    BY <2>1 DEF Leads, LeadOfThree, AfterLead, Least, Greatest
  <2> QED
    BY <2>1, <2>2 DEF Lacks, p, TailED
<1>7. CASE p = <<{240}, << <<144, 191>>, Tail80, Tail80>>>>
  <2>1. c = 240 /\ p[2] = << <<144, 191>>, Tail80, Tail80>>
    BY <1>1, <1>7
  <2>2. c \in Leads /\ AfterLead(c) = 6 /\ Least(6) = 144 /\ Greatest(6) = 191
    BY <2>1 DEF Leads, ShortOfFour, AfterLead, Least, Greatest
  <2> QED
    BY <2>1, <2>2 DEF Lacks, p
<1>8. CASE p = <<241 .. 243, <<Tail80, Tail80, Tail80>>>>
  <2>1. c \in 241 .. 243 /\ p[2] = <<Tail80, Tail80, Tail80>>
    BY <1>1, <1>8
  <2>2. c \in Leads /\ AfterLead(c) = 7 /\ Least(7) = 128 /\ Greatest(7) = 191
    BY <2>1 DEF Leads, ShortOfFour, AfterLead, Least, Greatest
  <2> QED
    BY <2>1, <2>2 DEF Lacks, p, Tail80
<1>9. CASE p = <<{244}, << <<128, 143>>, Tail80, Tail80>>>>
  <2>1. c = 244 /\ p[2] = << <<128, 143>>, Tail80, Tail80>>
    BY <1>1, <1>9
  <2>2. c \in Leads /\ AfterLead(c) = 8 /\ Least(8) = 128 /\ Greatest(8) = 143
    BY <2>1 DEF Leads, ShortOfFour, AfterLead, Least, Greatest
  <2> QED
    BY <2>1, <2>2 DEF Lacks, p
<1> QED
    BY <1>2, <1>3, <1>4, <1>5, <1>6, <1>7, <1>8, <1>9

Codes == {c \in Int : eof <= c /\ c <= U(65535)}

(* A string being scanned: whole characters, and one in the making whose       *)
(* remaining bytes are in ranges.                                              *)
ScannedTo(s, k, state) ==
    /\ WholeTo(s.token_buffer, k)
    /\ Begun(s.token_buffer, k, Len(s.token_buffer) + 1, state)
    /\ s.ranges = Lacks(state)
Fields(s) == DOMAIN s = DOMAIN Initial /\ s.token_buffer \in Seq(Bytes)
StringOk(s) ==
    /\ Fields(s) /\ s.codepoint1 \in {0} \cup High
    /\ \E k \in Nat, state \in States : ScannedTo(s, k, state)

LEMMA InitialIs ==
    DOMAIN Initial = {"at", "token_buffer", "number_type", "ranges", "codepoint1"}
BY DEF Initial

LEMMA AtRest ==
    ASSUME NEW s, StringOk(s), s.ranges = <<>>
    PROVE  WholeTo(s.token_buffer, Len(s.token_buffer) + 1)
<1>1. PICK k \in Nat, state \in States : ScannedTo(s, k, state)
    BY DEF StringOk
<1>2. state = 0
    BY <1>1, LacksIs DEF ScannedTo, States
<1> DEFINE t == s.token_buffer
<1>3. t \in Seq(Bytes) /\ WholeTo(t, k) /\ Begun(t, k, Len(t) + 1, 0) /\ Len(t) \in Nat
    BY <1>1, <1>2, LenProperties DEF ScannedTo, StringOk, Fields
<1> HIDE DEF t
<1>4. k = Len(t) + 1
  <2>1. CASE k < Len(t) + 1
    <3>1. k \in 1 .. Len(t)
        BY <1>3, <2>1 DEF Begun
    <3>2. t[k] \in Bytes
        BY <1>3, <3>1, ElementOfSeq
    <3>3. AfterLead(t[k]) # 0
        BY <3>2, LeadIs
    <3>4. k + 1 # Len(t) + 1 /\ k + 2 # Len(t) + 1 /\ k + 3 # Len(t) + 1
        BY <1>3, <3>3 DEF Begun
    <3> QED
        BY <1>3, <2>1, <3>4 DEF Begun
  <2> QED
    BY <1>3, <2>1 DEF Begun
<1> QED
    BY <1>3, <1>4 DEF t

LEMMA AddsWhole ==
    ASSUME NEW s, StringOk(s), s.ranges = <<>>, NEW t, Whole(t), NEW n, DOMAIN n = DOMAIN Initial,
           n.ranges = <<>>, n.codepoint1 \in {0} \cup High, n.token_buffer = s.token_buffer \o t
    PROVE  StringOk(n)
<1> DEFINE u == s.token_buffer \o t
<1>1. s.token_buffer \in Seq(Bytes)
    BY DEF StringOk, Fields
<1>2. u \in Seq(Bytes) /\ WholeTo(u, Len(u) + 1)
    BY <1>1, AtRest, CharacterAdded, Added DEF Whole
<1> HIDE DEF u
<1>3. Begun(u, Len(u) + 1, Len(u) + 1, 0) /\ Lacks(0) = <<>> /\ 0 \in States /\ Len(u) + 1 \in Nat
    BY <1>2, LenProperties DEF Begun, Lacks, States
<1>4. n.token_buffer = u
    BY DEF u
<1>5. ScannedTo(n, Len(u) + 1, 0)
    BY <1>2, <1>3, <1>4 DEF ScannedTo
<1> QED
    BY <1>2, <1>3, <1>4, <1>5 DEF StringOk, Fields

(* What scan_string may come to.                                               *)
Goal(n) ==
    /\ Fields(n)
    /\ \/ n.at = "parse_error"
       \/ n.at = "value_string" /\ IsUtf8(n.token_buffer)
       \/ n.at = "string" /\ StringOk(n)

LEMMA FailsIs ==
    ASSUME NEW s, Fields(s)
    PROVE  Fields(Fails(s)) /\ Fails(s).at = "parse_error"
BY InitialIs DEF Fields, Fails, Goes

(* One byte more of a character, which is then whole or not.                   *)
LEMMA NextByte ==
    ASSUME NEW s, Fields(s), NEW k \in Nat, NEW state \in States, ScannedTo(s, k, state),
           NEW c \in Bytes, NEW d \in States, d = decode(state, c),
           NEW n, DOMAIN n = DOMAIN Initial, n.ranges = Lacks(d),
           n.codepoint1 \in {0} \cup High, n.token_buffer = s.token_buffer \o <<c>>
    PROVE  StringOk(n)
<1> DEFINE t == s.token_buffer
           u == t \o <<c>>
<1>1. t \in Seq(Bytes) /\ <<c>> \in Seq(Bytes)
    BY DEF Fields
<1>2. n.token_buffer = u
    OBVIOUS
<1>3. u \in Seq(Bytes) /\ Len(u) = Len(t) + 1 /\ u[Len(t) + 1] = c /\ Len(t) \in Nat
    BY <1>1, Added
<1>4. WholeTo(u, k) /\ Begun(u, k, Len(t) + 1, state)
    BY <1>1, WholeStays, BegunStays DEF ScannedTo
<1> HIDE DEF t, u
<1>5. CASE d = 0
  <2> DEFINE i == Len(t) + 1
  <2>1. i \in Nat /\ i <= Len(u) /\ u[i] = c /\ Begun(u, k, i, state) /\ k <= i
    BY <1>3, <1>4 DEF Begun
  <2> HIDE DEF i
  <2>2. /\ IsCharacter(u, k) /\ k + Length(u[k]) = i + 1 /\ ~IsTrail(u[k])
        /\ \A j \in k + 1 .. i : IsTrail(u[j])
    BY <1>3, <1>5, <2>1, CharacterStep
  <2>3. WholeTo(u, i + 1)
    BY <1>3, <1>4, <2>1, <2>2, OneMore
  <2> USE DEF i
  <2>4. Begun(u, Len(u) + 1, Len(u) + 1, 0) /\ WholeTo(u, Len(u) + 1)
    BY <1>3, <2>3 DEF Begun
  <2>5. ScannedTo(n, Len(u) + 1, 0)
    BY <1>2, <1>3, <1>5, <2>4 DEF ScannedTo
  <2> QED
    BY <1>2, <1>3, <1>5, <2>5 DEF StringOk, Fields
<1>6. CASE d # 0
  <2>1. d # 1
    BY DEF States
  <2>2. Begun(u, k, Len(t) + 1 + 1, d)
    BY <1>3, <1>4, <1>6, <2>1, CharacterStep
  <2>3. ScannedTo(n, k, d)
    BY <1>2, <1>3, <1>4, <2>2 DEF ScannedTo
  <2> QED
    BY <1>2, <1>3, <2>3 DEF StringOk, Fields
<1> QED
    BY <1>5, <1>6

LEMMA UnicodeStep ==
    ASSUME NEW s, StringOk(s), s.at = "string", s.ranges = <<>>,
           NEW cp \in Units
    PROVE  Goal(UnicodeEscape(s, cp))
<1>1. /\ Fields(s) /\ s.codepoint1 \in {0} \cup High
    BY DEF StringOk
<1>2. Goal(Fails(s))
    BY <1>1, FailsIs DEF Goal
<1>3. CASE s.codepoint1 # 0 /\ cp \in Low
  <2>1. UnicodeEscape(s, cp) = Adds([s EXCEPT !.codepoint1 = 0], InBytes(Pair(s.codepoint1, cp)))
    BY <1>3 DEF UnicodeEscape
  <2>2. s.codepoint1 \in High
    BY <1>1, <1>3
  <2>3. Whole(InBytes(Pair(s.codepoint1, cp)))
    BY <1>3, <2>2, PairIs, InBytesWhole
  <2> DEFINE t == InBytes(Pair(s.codepoint1, cp))
             n == Adds([s EXCEPT !.codepoint1 = 0], t)
  <2> HIDE DEF t
  <2>4. Whole(t) /\ 0 \in {0} \cup High
    BY <2>3 DEF t
  <2>5. UnicodeEscape(s, cp) = n
    BY <2>1 DEF t
  <2>6. /\ DOMAIN n = DOMAIN Initial /\ n.at = "string" /\ n.ranges = <<>> /\ n.codepoint1 = 0
        /\ n.token_buffer = s.token_buffer \o t
    BY <1>1, InitialIs DEF Fields, Adds
  <2> HIDE DEF n
  <2> QED
    BY <2>4, <2>5, <2>6, AddsWhole DEF Goal, StringOk
<1>4. CASE s.codepoint1 # 0 /\ cp \notin Low
    BY <1>2, <1>4 DEF UnicodeEscape
<1>5. CASE s.codepoint1 = 0 /\ cp \in High
  <2> DEFINE n == [s EXCEPT !.codepoint1 = cp]
  <2>1. UnicodeEscape(s, cp) = n
    BY <1>5 DEF UnicodeEscape
  <2>2. /\ DOMAIN n = DOMAIN Initial /\ n.at = "string" /\ n.ranges = s.ranges
        /\ n.codepoint1 = cp /\ n.token_buffer = s.token_buffer
    BY <1>1, InitialIs DEF Fields
  <2> HIDE DEF n
  <2>3. Fields(n) /\ StringOk(n)
    BY <1>1, <1>5, <2>2 DEF StringOk, Fields, ScannedTo
  <2> QED
    BY <2>1, <2>2, <2>3 DEF Goal
<1>6. CASE s.codepoint1 = 0 /\ cp \notin High /\ cp \in Low
    BY <1>2, <1>6 DEF UnicodeEscape
<1>7. CASE s.codepoint1 = 0 /\ cp \notin High /\ cp \notin Low
  <2>1. UnicodeEscape(s, cp) = Adds(s, InBytes(cp))
    BY <1>7 DEF UnicodeEscape
  <2>2. Whole(InBytes(cp))
    BY <1>7, UnitIs, InBytesWhole
  <2> DEFINE t == InBytes(cp)
             n == Adds(s, t)
  <2> HIDE DEF t
  <2>3. UnicodeEscape(s, cp) = n /\ Whole(t) /\ 0 \in {0} \cup High
    BY <2>1, <2>2 DEF t
  <2>4. /\ DOMAIN n = DOMAIN Initial /\ n.at = "string" /\ n.ranges = <<>> /\ n.codepoint1 = 0
        /\ n.token_buffer = s.token_buffer \o t
    BY <1>1, <1>7, InitialIs DEF Fields, Adds
  <2> HIDE DEF n
  <2> QED
    BY <2>3, <2>4, AddsWhole DEF Goal, StringOk
<1> QED
    BY <1>3, <1>4, <1>5, <1>6, <1>7

LEMMA EscapedIs ==
    ASSUME NEW c \in {Esc(e) : e \in DOMAIN Escaped}
    PROVE  Escaped[c - 256] \in Single
<1>1. DOMAIN Escaped = {34, 92, 47, 98, 102, 110, 114, 116}
    BY DEF Escaped
<1>2. \A e \in {34, 92, 47, 98, 102, 110, 114, 116} : Escaped[e] \in 0 .. 127
    BY DEF Escaped
<1>3. c - 256 \in DOMAIN Escaped
    BY <1>1 DEF Esc
<1> QED
    BY <1>1, <1>2, <1>3 DEF Single

LEMMA StringStep ==
    ASSUME NEW s, StringOk(s), s.at = "string", NEW c \in Codes
    PROVE  Goal(scan_string(s, c))
<1>1. Fields(s) /\ s.codepoint1 \in {0} \cup High /\ DOMAIN s = DOMAIN Initial
    BY DEF StringOk, Fields
<1>2. Goal(Fails(s))
    BY <1>1, FailsIs DEF Goal
<1>3. PICK k \in Nat, state \in States : ScannedTo(s, k, state)
    BY DEF StringOk
<1>4. c \in Int /\ (c >= U(0) => c - U(0) \in Units)
    BY SMT DEF Codes, U, Units
<1>5. CASE s.ranges # <<>>
  <2>1. state \in 2 .. 8 /\ s.ranges = Lacks(state)
    BY <1>3, <1>5 DEF ScannedTo, States, Lacks
  <2>2. s.ranges[1] = <<Least(state), Greatest(state)>> /\ Tail(s.ranges) = Lacks(Fewer(state))
    BY <2>1, LacksIs
  <2> DEFINE n == [Adds(s, <<c>>) EXCEPT !.ranges = Tail(@)]
  <2>3. scan_string(s, c) = IF Least(state) <= c /\ c <= Greatest(state) THEN n ELSE Fails(s)
    BY <1>5, <2>2 DEF scan_string, next_byte_in_range
  <2>4. /\ DOMAIN n = DOMAIN Initial /\ n.ranges = Lacks(Fewer(state)) /\ n.at = "string"
        /\ n.codepoint1 \in {0} \cup High /\ n.token_buffer = s.token_buffer \o <<c>>
    BY <1>1, <2>2, InitialIs DEF Adds
  <2> HIDE DEF n
  <2>5. CASE Least(state) <= c /\ c <= Greatest(state)
    <3>1. c \in Takes(state)
        BY <1>4, <2>5 DEF Takes, Least, Greatest
    <3>2. c \in Bytes
        BY <1>4, <2>5 DEF Least, Greatest, Bytes
    <3>3. Fewer(state) = decode(state, c) /\ Fewer(state) \in States
        BY <2>1, <3>1, <3>2, DecodeIs, LacksIs DEF States
    <3>4. StringOk(n)
        BY <1>1, <1>3, <2>4, <3>2, <3>3, NextByte
    <3> QED
        BY <2>3, <2>4, <2>5, <3>4 DEF Goal, StringOk
  <2> QED
    BY <1>2, <2>3, <2>5
<1>6. CASE s.ranges = <<>> /\ c >= U(0)
    BY <1>4, <1>6, UnicodeStep DEF scan_string
<1> DEFINE Rest == s.ranges = <<>> /\ ~(c >= U(0)) /\ ~(s.codepoint1 # 0)
<1>7. CASE s.ranges = <<>> /\ ~(c >= U(0)) /\ s.codepoint1 # 0
    BY <1>2, <1>7 DEF scan_string
<1>8. CASE Rest /\ c = Quote
  <2>1. scan_string(s, c) = Goes(s, "value_string")
    BY <1>8 DEF scan_string
  <2>2. IsUtf8(s.token_buffer)
    BY <1>1, <1>8, AtRest, WholeIsText DEF Fields
  <2>3. Fields(Goes(s, "value_string")) /\ Goes(s, "value_string").at = "value_string"
        /\ Goes(s, "value_string").token_buffer = s.token_buffer
    BY <1>1, InitialIs DEF Goes, Fields
  <2> QED
    BY <2>1, <2>2, <2>3 DEF Goal
<1>9. ASSUME s.ranges = <<>>, NEW b \in Single
      PROVE  Goal(Adds(s, <<b>>))
  <2> DEFINE n == Adds(s, <<b>>)
  <2>1. /\ DOMAIN n = DOMAIN Initial /\ n.ranges = <<>> /\ n.at = "string"
        /\ n.codepoint1 \in {0} \cup High /\ n.token_buffer = s.token_buffer \o <<b>>
    BY <1>1, <1>9, InitialIs DEF Adds
  <2>2. Whole(<<b>>)
    BY SingleWhole
  <2> HIDE DEF n
  <2>3. StringOk(n)
    BY <1>9, <2>1, <2>2, AddsWhole
  <2> QED
    BY <2>1, <2>3 DEF Goal, StringOk, n
<1>10. CASE Rest /\ c # Quote /\ c \in {Esc(e) : e \in DOMAIN Escaped}
  <2>1. scan_string(s, c) = Adds(s, <<Escaped[c - 256]>>)
    BY <1>10 DEF scan_string
  <2> QED
    BY <1>9, <1>10, <2>1, EscapedIs
<1>11. CASE Rest /\ c # Quote /\ c \notin {Esc(e) : e \in DOMAIN Escaped} /\ c \in Plain
  <2>1. scan_string(s, c) = Adds(s, <<c>>)
    BY <1>11 DEF scan_string
  <2>2. c \in Single
    BY <1>11 DEF Plain, Single
  <2> QED
    BY <1>9, <1>11, <2>1, <2>2
<1>12. CASE /\ Rest /\ c # Quote /\ c \notin {Esc(e) : e \in DOMAIN Escaped} /\ c \notin Plain
            /\ \E q \in Sequences : c \in q[1]
  <2> DEFINE r == (CHOOSE q \in Sequences : c \in q[1])[2]
             n == [Adds(s, <<c>>) EXCEPT !.ranges = r]
  <2>1. scan_string(s, c) = n
    BY <1>12 DEF scan_string
  <2>2. c \in Leads /\ r = Lacks(AfterLead(c))
    BY <1>4, <1>12, LeadsIn
  <2> HIDE DEF r
  <2>3. /\ DOMAIN n = DOMAIN Initial /\ n.ranges = r /\ n.at = "string"
        /\ n.codepoint1 \in {0} \cup High /\ n.token_buffer = s.token_buffer \o <<c>>
    BY <1>1, InitialIs DEF Adds
  <2> HIDE DEF n
  <2>4. c \in Bytes
    BY <2>2, SMT DEF Leads, ShortOfTwo, LeadOfThree, ShortOfFour, Bytes
  <2>5. state = 0
    BY <1>3, <1>12, LacksIs DEF ScannedTo, States
  <2>6. AfterLead(c) = decode(0, c) /\ AfterLead(c) \in States
    BY <2>2, <2>4, DecodeIs, LeadIs DEF States
  <2>7. StringOk(n)
    BY <1>1, <1>3, <2>2, <2>3, <2>4, <2>5, <2>6, NextByte
  <2> QED
    BY <2>1, <2>3, <2>7 DEF Goal, StringOk
<1>13. CASE /\ Rest /\ c # Quote /\ c \notin {Esc(e) : e \in DOMAIN Escaped} /\ c \notin Plain
            /\ ~(\E q \in Sequences : c \in q[1])
    BY <1>2, <1>13 DEF scan_string
<1> QED
    BY <1>5, <1>6, <1>7, <1>8, <1>10, <1>11, <1>12, <1>13

-------------------------------------------------------------------------------
(* Numbers.                                                                    *)

(* Where a character leads: the arcs, as a function.                           *)
To(at, c) ==
    IF at = "minus" /\ c = 48 THEN "zero"
    ELSE IF at = "minus" /\ c \in 49 .. 57 THEN "any1"
    ELSE IF at = "any1" /\ c \in Digits THEN "any1"
    ELSE IF at \in {"zero", "any1"} /\ c = 46 THEN "decimal1"
    ELSE IF at \in {"decimal1", "decimal2"} /\ c \in Digits THEN "decimal2"
    ELSE IF at \in {"zero", "any1", "decimal2"} /\ c \in {69, 101} THEN "exponent"
    ELSE IF at = "exponent" /\ c \in {43, 45} THEN "sign"
    ELSE IF at \in {"exponent", "sign", "any2"} /\ c \in Digits THEN "any2"
    ELSE "none"

NumberPlaces == {"minus", "zero", "any1", "decimal1", "decimal2", "exponent", "sign", "any2"}

LEMMA ArcsAre ==
    /\ <<"minus", {48}, "zero">> \in NumberArcs /\ <<"minus", 49 .. 57, "any1">> \in NumberArcs
    /\ <<"any1", Digits, "any1">> \in NumberArcs
    /\ <<"zero", {46}, "decimal1">> \in NumberArcs /\ <<"any1", {46}, "decimal1">> \in NumberArcs
    /\ <<"decimal1", Digits, "decimal2">> \in NumberArcs
    /\ <<"decimal2", Digits, "decimal2">> \in NumberArcs
    /\ \A at \in {"zero", "any1", "decimal2"} : <<at, {69, 101}, "exponent">> \in NumberArcs
    /\ <<"exponent", {43, 45}, "sign">> \in NumberArcs
    /\ \A at \in {"exponent", "sign", "any2"} : <<at, Digits, "any2">> \in NumberArcs
<1>1. /\ <<"minus", {48}, "zero">> \in IntegerArcs /\ <<"minus", 49 .. 57, "any1">> \in IntegerArcs
      /\ <<"any1", Digits, "any1">> \in IntegerArcs
    BY DEF IntegerArcs
<1>2. /\ <<"zero", {46}, "decimal1">> \in FractionArcs /\ <<"any1", {46}, "decimal1">> \in FractionArcs
      /\ <<"decimal1", Digits, "decimal2">> \in FractionArcs
      /\ <<"decimal2", Digits, "decimal2">> \in FractionArcs
    BY DEF FractionArcs
<1>3. /\ \A at \in {"zero", "any1", "decimal2"} : <<at, {69, 101}, "exponent">> \in ExponentArcs
      /\ <<"exponent", {43, 45}, "sign">> \in ExponentArcs
      /\ \A at \in {"exponent", "sign", "any2"} : <<at, Digits, "any2">> \in ExponentArcs
    BY DEF ExponentArcs
<1> QED
    BY <1>1, <1>2, <1>3 DEF NumberArcs

LEMMA ArcsLead ==
    ASSUME NEW arc \in NumberArcs, NEW c \in arc[2]
    PROVE  /\ arc[3] = To(arc[1], c) /\ arc[3] \in NumberPlaces /\ c \in Bytes
           /\ arc[1] \in NumberPlaces
BY DEF NumberArcs, IntegerArcs, FractionArcs, ExponentArcs, To, Digits, NumberPlaces, Bytes

LEMMA ArcsExist ==
    ASSUME NEW at, NEW c \in Int, To(at, c) # "none"
    PROVE  \E arc \in NumberArcs : arc[1] = at /\ c \in arc[2]
<1>1. \/ at = "minus" /\ c \in {48}
      \/ at = "minus" /\ c \in 49 .. 57
      \/ at = "any1" /\ c \in Digits
      \/ at = "zero" /\ c \in {46}
      \/ at = "any1" /\ c \in {46}
      \/ at = "decimal1" /\ c \in Digits
      \/ at = "decimal2" /\ c \in Digits
      \/ at \in {"zero", "any1", "decimal2"} /\ c \in {69, 101}
      \/ at = "exponent" /\ c \in {43, 45}
      \/ at \in {"exponent", "sign", "any2"} /\ c \in Digits
    BY DEF To
<1>2. ASSUME NEW chars, NEW to, <<at, chars, to>> \in NumberArcs, c \in chars
      PROVE  \E arc \in NumberArcs : arc[1] = at /\ c \in arc[2]
  <2>1. <<at, chars, to>>[1] = at /\ <<at, chars, to>>[2] = chars
    OBVIOUS
  <2> QED
    BY <1>2, <2>1
<1>3. CASE at = "minus" /\ c \in {48}
    BY <1>2, <1>3, ArcsAre
<1>4. CASE at = "minus" /\ c \in 49 .. 57
    BY <1>2, <1>4, ArcsAre
<1>5. CASE at = "any1" /\ c \in Digits
    BY <1>2, <1>5, ArcsAre
<1>6. CASE at = "zero" /\ c \in {46}
    BY <1>2, <1>6, ArcsAre
<1>7. CASE at = "any1" /\ c \in {46}
    BY <1>2, <1>7, ArcsAre
<1>8. CASE at = "decimal1" /\ c \in Digits
    BY <1>2, <1>8, ArcsAre
<1>9. CASE at = "decimal2" /\ c \in Digits
    BY <1>2, <1>9, ArcsAre
<1>10. CASE at \in {"zero", "any1", "decimal2"} /\ c \in {69, 101}
    BY <1>2, <1>10, ArcsAre
<1>11. CASE at = "exponent" /\ c \in {43, 45}
    BY <1>2, <1>11, ArcsAre
<1>12. CASE at \in {"exponent", "sign", "any2"} /\ c \in Digits
    BY <1>2, <1>12, ArcsAre
<1> QED
    BY <1>1, <1>3, <1>4, <1>5, <1>6, <1>7, <1>8, <1>9, <1>10, <1>11, <1>12

LEMMA InNumberIs == InNumber = NumberPlaces
<1>1. ASSUME NEW at, at \in InNumber
      PROVE  at \in NumberPlaces
    BY <1>1 DEF InNumber, NumberPlaces, NumberArcs, IntegerArcs, FractionArcs, ExponentArcs
<1>2. ASSUME NEW at \in NumberPlaces
      PROVE  at \in InNumber
  <2>1. \E c \in {43, 46, 48} : To(at, c) # "none"
    BY DEF To, NumberPlaces, Digits
  <2>2. PICK c \in {43, 46, 48} : To(at, c) # "none"
    BY <2>1
  <2>3. \E arc \in NumberArcs : arc[1] = at /\ c \in arc[2]
    BY <2>2, ArcsExist
  <2> QED
    BY <2>3 DEF InNumber
<1> QED
    BY <1>1, <1>2

(* One step of the scanner, from the field it looks at.                        *)
LEMMA NumberGoes ==
    ASSUME NEW s, NEW c \in Int
    PROVE  scan_number(s, c) =
             IF To(s.at, c) # "none"
             THEN [Adds(Goes(s, To(s.at, c)), <<c>>) EXCEPT
                     !.number_type = IF To(s.at, c) \in {"decimal1", "exponent"}
                                     THEN "value_float" ELSE @]
             ELSE IF s.at \in MayEnd THEN Goes(s, Converted(s)) ELSE Fails(s)
<1> DEFINE arcs == {arc \in NumberArcs : arc[1] = s.at /\ c \in arc[2]}
<1>1. CASE To(s.at, c) # "none"
  <2>1. arcs # {}
    BY <1>1, ArcsExist
  <2>2. \A arc \in arcs : arc[3] = To(s.at, c)
    BY ArcsLead
  <2>3. (CHOOSE arc \in arcs : TRUE)[3] = To(s.at, c)
    BY <2>1, <2>2
  <2> QED
    BY <1>1, <2>1, <2>3 DEF scan_number
<1>2. CASE To(s.at, c) = "none"
  <2>1. arcs = {}
    BY <1>2, ArcsLead DEF NumberPlaces
  <2> QED
    BY <1>2, <2>1 DEF scan_number
<1> QED
    BY <1>1, <1>2

LEMMA ToIs ==
    ASSUME NEW at, NEW c \in Int, To(at, c) # "none"
    PROVE  To(at, c) \in NumberPlaces /\ c \in Bytes /\ at \in NumberPlaces
BY DEF To, NumberPlaces, Bytes, Digits

(* The lexer: its string is text, whatever it is given.                        *)
Kinds ==
    {"value_unsigned", "value_integer", "value_float", "literal_true", "literal_false",
     "literal_null"}
Starting == {"bom", "bom1", "bom2", "token"}
Fresh(s) == s.token_buffer = <<>> /\ s.ranges = <<>> /\ s.codepoint1 = 0
LexerOk(s) ==
    /\ Fields(s) /\ s.number_type \in Kinds
    /\ s.at \in Starting => Fresh(s)
    /\ s.at = "string" => StringOk(s)
    /\ s.at = "value_string" => IsUtf8(s.token_buffer)

(* A scanner that is elsewhere needs its fields only. *)
LEMMA Elsewhere ==
    ASSUME NEW s, Fields(s), s.number_type \in Kinds,
           s.at \notin Starting \cup {"string", "value_string"}
    PROVE  LexerOk(s)
BY DEF LexerOk, Starting

LEMMA GoesIs ==
    ASSUME NEW s, Fields(s), NEW at
    PROVE  /\ Fields(Goes(s, at)) /\ Goes(s, at).at = at
           /\ Goes(s, at).token_buffer = s.token_buffer /\ Goes(s, at).ranges = s.ranges
           /\ Goes(s, at).codepoint1 = s.codepoint1 /\ Goes(s, at).number_type = s.number_type
BY InitialIs DEF Fields, Goes

LEMMA GoesOk ==
    ASSUME NEW s, LexerOk(s), NEW at, at \notin Starting \cup {"string", "value_string"}
    PROVE  LexerOk(Goes(s, at))
BY GoesIs, Elsewhere DEF LexerOk

LEMMA StringBegins ==
    ASSUME NEW s, LexerOk(s), Fresh(s)
    PROVE  LexerOk(Goes(s, "string"))
<1> DEFINE n == Goes(s, "string")
<1>1. /\ Fields(n) /\ n.at = "string" /\ n.token_buffer = <<>> /\ n.ranges = <<>>
      /\ n.codepoint1 = 0 /\ n.number_type \in Kinds
    BY GoesIs DEF LexerOk, Fresh
<1>2. WholeTo(<<>>, 1) /\ Begun(<<>>, 1, 1, 0) /\ Lacks(0) = <<>> /\ 0 \in States /\ 1 \in Nat
      /\ Len(<<>>) = 0
    BY EmptySeq DEF WholeTo, Begun, Lacks, States
<1> HIDE DEF n
<1>3. ScannedTo(n, 1, 0)
    BY <1>1, <1>2 DEF ScannedTo
<1>4. StringOk(n)
    BY <1>1, <1>2, <1>3 DEF StringOk
<1> QED
    BY <1>1, <1>4 DEF LexerOk, Starting, n

LEMMA BeginsOk ==
    ASSUME NEW s, LexerOk(s), Fresh(s), NEW c \in Codes
    PROVE  LexerOk(scan(s, c))
<1>1. Fields(s) /\ s.number_type \in Kinds /\ c \in Int
    BY DEF LexerOk, Codes
<1>2. CASE c \in WhiteSpace
  <2>1. LexerOk(Goes(s, "token"))
    BY <1>1, GoesIs DEF LexerOk, Fresh
  <2> QED
    BY <1>2, <2>1 DEF scan
<1>3. CASE c \notin WhiteSpace /\ c \in DOMAIN Structural
  <2>1. c \in {91, 93, 123, 125, 58, 44} /\ scan(s, c) = Goes(s, Structural[c])
    BY <1>3 DEF scan, Structural
  <2>2. Structural[c] \notin Starting \cup {"string", "value_string"}
    BY <2>1 DEF Structural, Starting
  <2> QED
    BY <2>1, <2>2, GoesOk
<1>4. CASE c \notin WhiteSpace /\ c \notin DOMAIN Structural /\ c \in DOMAIN Literals
  <2> DEFINE n == [s EXCEPT !.at = "literal", !.ranges = Literals[c], !.number_type = LiteralTokens[c]]
  <2>1. c \in {116, 102, 110} /\ scan(s, c) = n
    BY <1>4 DEF scan, Literals
  <2>2. LiteralTokens[c] \in Kinds
    BY <2>1 DEF LiteralTokens, Kinds
  <2>3. /\ Fields(n) /\ n.at = "literal" /\ n.number_type = LiteralTokens[c]
    BY <1>1, InitialIs DEF Fields
  <2> HIDE DEF n
  <2>4. LexerOk(n)
    BY <2>2, <2>3, Elsewhere DEF Starting
  <2> QED
    BY <2>1, <2>4
<1> DEFINE Rest == c \notin WhiteSpace /\ c \notin DOMAIN Structural /\ c \notin DOMAIN Literals
<1>5. CASE Rest /\ c = Quote
    BY <1>5, StringBegins DEF scan
<1>6. CASE Rest /\ c # Quote /\ c = 45
  <2> DEFINE n == [Adds(Goes(s, "minus"), <<c>>) EXCEPT !.number_type = "value_integer"]
  <2>1. scan(s, c) = n
    BY <1>6 DEF scan
  <2>2. s.token_buffer \o <<c>> \in Seq(Bytes)
    BY <1>1, <1>6, Added DEF Fields, Bytes
  <2>3. Fields(n) /\ n.at = "minus" /\ n.number_type \in Kinds
    BY <1>1, <2>2, InitialIs DEF Fields, Adds, Goes, Kinds
  <2> HIDE DEF n
  <2> QED
    BY <2>1, <2>3, Elsewhere DEF Starting
<1>7. CASE Rest /\ c # Quote /\ c # 45 /\ c \in Digits
  <2> DEFINE n == Adds(Goes(s, IF c = 48 THEN "zero" ELSE "any1"), <<c>>)
  <2>1. scan(s, c) = n
    BY <1>7 DEF scan
  <2>2. s.token_buffer \o <<c>> \in Seq(Bytes)
    BY <1>1, <1>7, Added DEF Fields, Bytes, Digits
  <2>3. Fields(n) /\ n.at \in {"zero", "any1"} /\ n.number_type \in Kinds
    BY <1>1, <2>2, InitialIs DEF Fields, Adds, Goes
  <2> HIDE DEF n
  <2> QED
    BY <2>1, <2>3, Elsewhere DEF Starting
<1>8. CASE Rest /\ c # Quote /\ c # 45 /\ c \notin Digits
  <2>1. scan(s, c) = Goes(s, "end_of_input") \/ scan(s, c) = Fails(s)
    BY <1>8 DEF scan
  <2> QED
    BY <2>1, GoesOk DEF Fails, Starting
<1> QED
    BY <1>2, <1>3, <1>4, <1>5, <1>6, <1>7, <1>8

LEMMA NumberOk ==
    ASSUME NEW s, LexerOk(s), s.at \notin Starting \cup {"string", "value_string"}, NEW c \in Codes
    PROVE  LexerOk(scan_number(s, c))
<1>1. Fields(s) /\ s.number_type \in Kinds /\ c \in Int
    BY DEF LexerOk, Codes
<1> DEFINE to == To(s.at, c)
<1>2. CASE to # "none"
  <2> DEFINE n == [Adds(Goes(s, to), <<c>>) EXCEPT
                     !.number_type = IF to \in {"decimal1", "exponent"} THEN "value_float" ELSE @]
  <2>1. scan_number(s, c) = n
    BY <1>1, <1>2, NumberGoes
  <2>2. to \in NumberPlaces /\ c \in Bytes
    BY <1>1, <1>2, ToIs
  <2> HIDE DEF to
  <2>3. s.token_buffer \o <<c>> \in Seq(Bytes)
    BY <1>1, <2>2, Added DEF Fields
  <2>4. Fields(n) /\ n.at = to /\ n.number_type \in Kinds
    BY <1>1, <2>3, InitialIs DEF Fields, Adds, Goes, Kinds
  <2> HIDE DEF n
  <2> QED
    BY <2>1, <2>2, <2>4, Elsewhere DEF Starting, NumberPlaces
<1>3. CASE to = "none"
  <2>1. scan_number(s, c) \in {Goes(s, Converted(s)), Fails(s)}
    BY <1>1, <1>3, NumberGoes
  <2>2. Converted(s) \in Kinds
    BY <1>1 DEF Converted, Kinds
  <2>3. Kinds \cap (Starting \cup {"string", "value_string"}) = {}
    BY DEF Kinds, Starting
  <2> QED
    BY <2>1, <2>2, <2>3, GoesOk DEF Fails, Starting
<1> QED
    BY <1>2, <1>3

LEMMA LiteralOk ==
    ASSUME NEW s, LexerOk(s), s.at = "literal", NEW c
    PROVE  LexerOk(scan_literal(s, c))
<1>1. Fields(s) /\ s.number_type \in Kinds
    BY DEF LexerOk
<1> DEFINE n == [s EXCEPT !.ranges = Tail(s.ranges), !.at = IF Len(s.ranges) = 1 THEN s.number_type ELSE @]
<1>2. scan_literal(s, c) = Fails(s) \/ scan_literal(s, c) = n
    BY DEF scan_literal
<1>3. Fields(n) /\ n.at \in {"literal"} \cup Kinds /\ n.number_type = s.number_type
    BY <1>1, InitialIs DEF Fields
<1>4. ({"literal"} \cup Kinds) \cap (Starting \cup {"string", "value_string"}) = {}
    BY DEF Kinds, Starting
<1> HIDE DEF n
<1>5. LexerOk(n)
    BY <1>1, <1>3, <1>4, Elsewhere
<1> QED
    BY <1>2, <1>5, GoesOk DEF Fails, Starting

LEMMA ScanKeeps ==
    ASSUME NEW s, NEW c, Fields(s)
    PROVE  scan_string(s, c).number_type = s.number_type
<1>1. \A bytes : Adds(s, bytes).number_type = s.number_type
    BY InitialIs DEF Adds, Fields
<1> QED
    BY <1>1, InitialIs DEF scan_string, next_byte_in_range, UnicodeEscape, Adds, Goes, Fails, Fields

LEMMA LexerStep ==
    ASSUME NEW s, LexerOk(s), Scanning(s), NEW c \in Codes
    PROVE  LexerOk(get(s, c))
<1>1. CASE s.at \in {"bom", "bom1", "bom2"}
  <2>1. Fresh(s)
    BY <1>1 DEF LexerOk, Starting
  <2>2. ASSUME NEW at \in {"bom1", "bom2", "token", "parse_error"}
        PROVE  LexerOk(Goes(s, at))
    BY <2>1, GoesIs DEF LexerOk, Fresh
  <2>3. get(s, c) = skip_bom(s, c)
    BY <1>1 DEF get
  <2>4. \/ skip_bom(s, c) = scan(s, c)
        \/ \E at \in {"bom1", "bom2", "token", "parse_error"} : skip_bom(s, c) = Goes(s, at)
    BY DEF skip_bom, Fails
  <2> QED
    BY <2>1, <2>2, <2>3, <2>4, BeginsOk
<1>2. CASE s.at = "token"
    BY <1>2, BeginsOk DEF get, LexerOk, Starting
<1>3. CASE s.at = "string"
  <2>1. Goal(scan_string(s, c)) /\ get(s, c) = scan_string(s, c) /\ Fields(s)
    BY <1>3, StringStep DEF LexerOk, get
  <2> QED
    BY <2>1, ScanKeeps DEF Goal, LexerOk, Starting
<1>4. CASE s.at = "literal"
    BY <1>4, LiteralOk DEF get
<1>5. CASE s.at \in InNumber
    BY <1>5, InNumberIs, NumberOk DEF get, NumberPlaces, Starting
<1> QED
    BY <1>1, <1>2, <1>3, <1>4, <1>5 DEF Scanning

(* The dumper is given what it says it is given.                               *)
TextInv ==
    /\ LexerOk(lexer) /\ DumpInv
    /\ subject = "raw" => lexer = Initial
    /\ dumper.at # "idle" => subject = "raw" \/ lexer.at = "value_string"
    /\ dumper.at # "idle" /\ lexer.at = "value_string" => raw = lexer.token_buffer

LEMMA CharactersIn ==
    NumberCharacters \cup StringCharacters \cup OtherCharacters \cup {Quote} \subseteq Codes
BY SMT DEF NumberCharacters, StringCharacters, OtherCharacters, Codepoints, Quote, U, Esc, BadU, eof, Codes

LEMMA ReadKeeps ==
    ASSUME TextInv, NEW kind, kind # "raw", NEW characters, characters \subseteq Codes, NEW bound,
           Reads1(kind, characters, bound)
    PROVE  TextInv'
<1>1. PICK c \in characters : ReadCharacter(c, bound)
    BY DEF Reads1
<1>2. subject = kind /\ UNCHANGED <<subject, raw, dumper>>
    BY DEF Reads1, dumpVars
<1>3. Scanning(lexer) /\ lexer' = get(lexer, c) /\ c \in Codes
    BY <1>1 DEF ReadCharacter
<1>4. LexerOk(lexer')
    BY <1>3, LexerStep DEF TextInv
<1>5. lexer.at # "value_string"
    BY <1>3, InNumberIs DEF Scanning, NumberPlaces
<1>6. dumper.at = "idle"
    BY <1>2, <1>5 DEF TextInv
<1>7. DumpInv'
    BY <1>2 DEF TextInv, DumpInv, DecodedTo
<1> QED
    BY <1>2, <1>4, <1>6, <1>7 DEF TextInv

LEMMA TextStep == TextInv /\ [Next]_vars => TextInv'
<1> SUFFICES ASSUME TextInv, [Next]_vars PROVE TextInv'
    OBVIOUS
<1>1. CASE ReadNumber
    BY <1>1, ReadKeeps, CharactersIn DEF ReadNumber
<1>2. CASE ReadString
    BY <1>2, ReadKeeps, CharactersIn DEF ReadString
<1>3. CASE ReadToken
    BY <1>3, ReadKeeps, CharactersIn DEF ReadToken
<1>4. CASE TakeByte
  <2>1. PICK b \in RawBytes : RawByte(b)
    BY <1>4 DEF TakeByte
  <2>2. b \in Bytes
    BY DEF RawBytes, Bytes
  <2>3. dumper.at = "idle" /\ raw' = Append(raw, b) /\ UNCHANGED <<dumper, subject, lexer>>
    BY <1>4, <2>1 DEF RawByte, TakeByte, lexerVars
  <2>4. raw' \in Seq(Bytes)
    BY <2>2, <2>3, AppendProperties DEF TextInv, DumpInv
  <2> QED
    BY <2>3, <2>4 DEF TextInv, DumpInv
<1>5. CASE BeginDump
  <2> DEFINE s == IF subject = "raw" THEN raw ELSE lexer.token_buffer
  <2>1. /\ subject = "raw" \/ lexer.at = "value_string"
        /\ \E ensure_ascii \in BOOLEAN, handler \in Handlers : dump_escaped(s, ensure_ascii, handler)
        /\ UNCHANGED <<subject, lexer>>
    BY <1>5 DEF BeginDump, lexerVars
  <2>2. s \in Seq(Bytes)
    BY DEF TextInv, DumpInv, LexerOk, Fields
  <2> HIDE DEF s
  <2>3. PICK ensure_ascii \in BOOLEAN, handler \in Handlers :
             dump_escaped(s, ensure_ascii, handler)
    BY <2>1
  <2>4. raw' = s
    BY <2>3 DEF dump_escaped
  <2>5. DumpInv'
    BY <2>2, <2>3, DumpBegins
  <2>6. subject = "raw" => lexer.at = "bom"
    BY DEF TextInv, Initial
  <2>7. lexer.at = "value_string" => raw' = lexer.token_buffer
    BY <2>4, <2>6 DEF s
  <2> QED
    BY <2>1, <2>5, <2>6, <2>7 DEF TextInv
<1>6. CASE Dump
  <2>1. (DumpByte \/ DumpEnds) /\ UNCHANGED <<subject, lexer>>
    BY <1>6 DEF Dump, lexerVars
  <2>2. DumpInv' /\ raw' = raw /\ dumper.at = "loop"
    BY <2>1, DumpByteKeeps, DumpEndsKeeps DEF TextInv, DumpByte, DumpEnds
  <2> QED
    BY <2>1, <2>2 DEF TextInv
<1>7. CASE ParseToken \/ UNCHANGED vars
  <2>1. UNCHANGED <<subject, lexer, raw, dumper>>
    BY <1>7 DEF ParseToken, vars, lexerVars, dumpVars
  <2> QED
    BY <2>1 DEF TextInv, DumpInv, DecodedTo
<1> QED
    BY <1>1, <1>2, <1>3, <1>4, <1>5, <1>6, <1>7 DEF Next

LEMMA TextInit == Init => TextInv
<1> SUFFICES ASSUME Init PROVE TextInv
    OBVIOUS
<1>1. lexer = Initial /\ raw = <<>> /\ dumper = Idle
    BY DEF Init, LexerInit, DumpInit
<1>2. LexerOk(Initial)
    BY EmptySeq DEF LexerOk, Fields, Initial, Fresh, Kinds
<1>3. DumpInv
    BY <1>1, EmptySeq DEF DumpInv, Idle
<1>4. dumper.at = "idle"
    BY <1>1 DEF Idle
<1> QED
    BY <1>1, <1>2, <1>3, <1>4 DEF TextInv

(* Every string that the lexer accepts is text in UTF-8, whatever bytes and    *)
(* escapes it was given (scan_string with its ranges and surrogates, lines     *)
(* 6846-7371).                                                                 *)
AcceptedText == lexer.at = "value_string" => IsUtf8(lexer.token_buffer)
THEOREM AcceptedIsText == Spec => []AcceptedText
<1>1. TextInv => AcceptedText
    BY DEF TextInv, LexerOk, AcceptedText
<1> QED
    BY <1>1, TextInit, TextStep, PTL DEF Spec

(* A strict dump throws exactly on bytes that are no text, no other dump       *)
(* throws, and none does on what the lexer has accepted: the decoder's states  *)
(* and the lexer's ranges are the same automaton.                              *)
THEOREM DumpThrowsOnBadBytes == Spec => []OnlyBadBytesThrow
<1>1. TextInv => OnlyBadBytesThrow
    BY DEF TextInv, LexerOk, DumpInv, OnlyBadBytesThrow
<1> QED
    BY <1>1, TextInit, TextStep, PTL DEF Spec

(* Where the parts of a number in u end: its integer at i, its fraction at j.  *)
Minus(u) == IF u[1] = 45 THEN 1 ELSE 0
Exponents == {69, 101}
Signs == {43, 45}
Mantissa(u, i, j) ==
    /\ i \in Nat /\ j \in Nat /\ i <= j
    /\ IsInteger(u, Minus(u) + 1, i) /\ IsFraction(u, i + 1, j)
Split(u, i, j) == Mantissa(u, i, j) /\ j <= Len(u) /\ IsExponent(u, j + 1, Len(u))

LEMMA NumberSplits ==
    ASSUME NEW u, Len(u) \in Nat
    PROVE  IsNumber(u) <=> \E i, j \in 1 .. Len(u) : Split(u, i, j)
<1>1. ASSUME NEW minus \in 0 .. 1, NEW i \in 1 .. Len(u), minus = 1 => u[1] = 45,
             IsInteger(u, minus + 1, i)
      PROVE  minus = Minus(u)
    BY <1>1 DEF Minus, IsInteger, Digits
<1>2. Minus(u) \in 0 .. 1 /\ (Minus(u) = 1 => u[1] = 45)
    BY DEF Minus
<1> QED
    BY <1>1, <1>2 DEF IsNumber, Split, Mantissa

(* A run of digits ends where there is none, whatever stands behind.           *)
LEMMA IntegerEnds ==
    ASSUME NEW u, Len(u) \in Nat, NEW i, NEW j, Split(u, i, j), NEW n \in Nat,
           IsInteger(u, Minus(u) + 1, n), n < Len(u), u[n + 1] \notin Digits
    PROVE  i = n
<1>1. i \in Nat /\ j \in Nat /\ i <= j /\ j <= Len(u) /\ Minus(u) \in Nat
      /\ Minus(u) + 1 <= i /\ Minus(u) + 1 <= n
    BY DEF Split, Mantissa, IsInteger, Minus
<1>2. ~(n < i)
    BY <1>1 DEF Split, Mantissa, IsInteger
<1>3. ASSUME i < n
      PROVE  FALSE
  <2>1. u[i + 1] \in Digits
    BY <1>1, <1>3 DEF IsInteger
  <2>2. i < j => u[i + 1] = 46
    BY <1>1 DEF Split, Mantissa, IsFraction
  <2>3. i = j => u[i + 1] \in Exponents
    BY <1>1, <1>3 DEF Split, IsExponent, Exponents
  <2>4. 46 \notin Digits /\ Digits \cap Exponents = {}
    BY DEF Digits, Exponents
  <2> QED
    BY <1>1, <2>1, <2>2, <2>3, <2>4
<1> QED
    BY <1>1, <1>2, <1>3

LEMMA FractionEnds ==
    ASSUME NEW u, Len(u) \in Nat, NEW i, NEW j, Split(u, i, j), NEW n \in Nat,
           i <= n, IsFraction(u, i + 1, n), n < Len(u), u[n + 1] \notin Digits \cup {46}
    PROVE  j = n
<1>1. i \in Nat /\ j \in Nat /\ i <= j /\ j <= Len(u)
    BY DEF Split, Mantissa
<1>2. ASSUME n < j
      PROVE  FALSE
    BY <1>1, <1>2 DEF Split, Mantissa, IsFraction
<1>3. ASSUME j < n
      PROVE  FALSE
  <2>1. u[j + 1] \in Exponents
    BY <1>1, <1>3 DEF Split, IsExponent, Exponents
  <2>2. u[i + 1] = 46 /\ \A k \in i + 2 .. n : u[k] \in Digits
    BY <1>1, <1>3 DEF IsFraction
  <2>3. j = i \/ u[j + 1] \in Digits
    BY <1>1, <1>3, <2>2
  <2>4. 46 \notin Exponents /\ Digits \cap Exponents = {}
    BY DEF Digits, Exponents
  <2> QED
    BY <2>1, <2>2, <2>3, <2>4
<1> QED
    BY <1>1, <1>2, <1>3

(* What scan_number knows of the first n characters of u, in each of its       *)
(* states.                                                                     *)
HasExponent(u, i, j) == Mantissa(u, i, j) /\ u[j + 1] \in Exponents
DigitsFrom(u, j) == IF u[j + 2] \in Signs THEN j + 3 ELSE j + 2
Shape(at, u, n) ==
    /\ n \in Nat
    /\ at = "minus" => n = 1 /\ u[1] = 45
    /\ at = "zero" => n = Minus(u) + 1 /\ u[n] = 48
    /\ at = "any1" => IsInteger(u, Minus(u) + 1, n) /\ u[Minus(u) + 1] # 48
    /\ at = "decimal1" => n - 1 \in Nat /\ IsInteger(u, Minus(u) + 1, n - 1) /\ u[n] = 46
    /\ at = "decimal2" => \E i \in Nat : i < n /\ Mantissa(u, i, n)
    /\ at = "exponent" => \E i, j \in Nat : HasExponent(u, i, j) /\ n = j + 1
    /\ at = "sign" => \E i, j \in Nat : HasExponent(u, i, j) /\ n = j + 2 /\ u[n] \in Signs
    /\ at = "any2" =>
         \E i, j \in Nat :
            /\ HasExponent(u, i, j) /\ DigitsFrom(u, j) <= n
            /\ \A k \in DigitsFrom(u, j) .. n : u[k] \in Digits

(* Every shape is at least one character long.                                 *)
LEMMA ShapeLength ==
    ASSUME NEW at \in NumberPlaces, NEW u, NEW n, Shape(at, u, n)
    PROVE  n \in Nat \ {0}
BY DEF Shape, NumberPlaces, Minus, IsInteger, HasExponent, DigitsFrom, Mantissa

LEMMA ZeroIs ==
    ASSUME NEW u, NEW n, Shape("zero", u, n)
    PROVE  IsInteger(u, Minus(u) + 1, n)
BY DEF Shape, IsInteger, Digits, Minus

(* Each arc leads from shape to shape.                                         *)
LEMMA ShapeGrows ==
    ASSUME NEW at \in NumberPlaces, NEW u, NEW n, Shape(at, u, n), To(at, u[n + 1]) # "none"
    PROVE  Shape(To(at, u[n + 1]), u, n + 1)
<1> DEFINE c == u[n + 1]
           to == To(at, c)
<1>1. n \in Nat \ {0} /\ n + 1 \in Nat /\ (n + 1) - 1 = n
    BY ShapeLength
<1>2. CASE at = "minus"
  <2>1. n = 1 /\ u[1] = 45 /\ Minus(u) = 1
    BY <1>2 DEF Shape, Minus
  <2>2. \/ to = "zero" /\ c = 48
        \/ to = "any1" /\ c \in 49 .. 57
    BY <1>2 DEF To
  <2> QED
    BY <1>1, <2>1, <2>2 DEF Shape, IsInteger, Digits
<1>3. CASE at \in {"zero", "any1"}
  <2>1. IsInteger(u, Minus(u) + 1, n)
    BY <1>3, ZeroIs DEF Shape
  <2>2. Mantissa(u, n, n)
    BY <1>1, <2>1 DEF Mantissa, IsFraction
  <2>3. \/ to = "any1" /\ at = "any1" /\ c \in Digits
        \/ to = "decimal1" /\ c = 46
        \/ to = "exponent" /\ c \in Exponents
    BY <1>3 DEF To, Exponents
  <2>4. CASE to = "any1" /\ at = "any1" /\ c \in Digits
    <3>1. u[Minus(u) + 1] # 48 /\ Minus(u) \in 0 .. 1
      BY <2>4 DEF Shape, Minus
    <3>2. IsInteger(u, Minus(u) + 1, n + 1)
      BY <1>1, <2>1, <2>4, <3>1 DEF IsInteger
    <3> QED
      BY <1>1, <2>4, <3>1, <3>2 DEF Shape
  <2>5. CASE to = "decimal1" /\ c = 46
    BY <1>1, <2>1, <2>5 DEF Shape
  <2>6. CASE to = "exponent" /\ c \in Exponents
    BY <1>1, <2>2, <2>6 DEF Shape, HasExponent
  <2> QED
    BY <2>3, <2>4, <2>5, <2>6
<1>4. CASE at \in {"decimal1", "decimal2"}
  <2>1. ASSUME c \in Digits
        PROVE  \E i \in Nat : i < n + 1 /\ Mantissa(u, i, n + 1)
    <3>1. CASE at = "decimal1"
      <4>1. n - 1 \in Nat /\ IsInteger(u, Minus(u) + 1, n - 1) /\ u[n] = 46
        BY <3>1 DEF Shape
      <4>2. (n - 1) + 1 = n /\ n - 1 <= n + 1 /\ n - 1 < n + 1
        BY <1>1
      <4>3. IsFraction(u, (n - 1) + 1, n + 1)
        BY <1>1, <2>1, <4>1, <4>2 DEF IsFraction
      <4>4. Mantissa(u, n - 1, n + 1)
        BY <1>1, <4>1, <4>2, <4>3 DEF Mantissa
      <4> QED
        BY <4>1, <4>2, <4>4
    <3>2. CASE at = "decimal2"
      <4>1. PICK i \in Nat : i < n /\ Mantissa(u, i, n)
        BY <3>2 DEF Shape
      <4>2. IsFraction(u, i + 1, n + 1)
        BY <1>1, <2>1, <4>1 DEF Mantissa, IsFraction
      <4> QED
        BY <1>1, <4>1, <4>2 DEF Mantissa
    <3> QED
      BY <1>4, <3>1, <3>2
  <2>2. \/ to = "decimal2" /\ c \in Digits
        \/ to = "exponent" /\ at = "decimal2" /\ c \in Exponents
    BY <1>4 DEF To, Exponents
  <2>3. CASE to = "decimal2" /\ c \in Digits
    BY <1>1, <2>1, <2>3 DEF Shape
  <2>4. CASE to = "exponent" /\ at = "decimal2" /\ c \in Exponents
    <3>1. PICK i \in Nat : i < n /\ Mantissa(u, i, n)
      BY <2>4 DEF Shape
    <3>2. HasExponent(u, i, n)
      BY <2>4, <3>1 DEF HasExponent
    <3> QED
      BY <1>1, <2>4, <3>2 DEF Shape
  <2> QED
    BY <2>2, <2>3, <2>4
<1>5. CASE at = "exponent"
  <2>1. PICK i \in Nat, j \in Nat : HasExponent(u, i, j) /\ n = j + 1
    BY <1>5 DEF Shape
  <2>2. \/ to = "sign" /\ c \in Signs
        \/ to = "any2" /\ c \in Digits
    BY <1>5 DEF To, Signs
  <2>3. c = u[j + 2] /\ n + 1 = j + 2
    BY <2>1
  <2>4. CASE to = "sign" /\ c \in Signs
    BY <1>1, <2>1, <2>3, <2>4 DEF Shape
  <2>5. CASE to = "any2" /\ c \in Digits
    <3>1. DigitsFrom(u, j) = n + 1
      BY <2>3, <2>5 DEF DigitsFrom, Signs, Digits
    <3> QED
      BY <1>1, <2>1, <2>5, <3>1 DEF Shape
  <2> QED
    BY <2>2, <2>4, <2>5
<1>6. CASE at = "sign"
  <2>1. PICK i \in Nat, j \in Nat : HasExponent(u, i, j) /\ n = j + 2 /\ u[n] \in Signs
    BY <1>6 DEF Shape
  <2>2. to = "any2" /\ c \in Digits
    BY <1>6 DEF To
  <2>3. DigitsFrom(u, j) = n + 1
    BY <2>1 DEF DigitsFrom
  <2> QED
    BY <1>1, <2>1, <2>2, <2>3 DEF Shape
<1>7. CASE at = "any2"
  <2>1. PICK i \in Nat, j \in Nat :
           /\ HasExponent(u, i, j) /\ DigitsFrom(u, j) <= n
           /\ \A k \in DigitsFrom(u, j) .. n : u[k] \in Digits
    BY <1>7 DEF Shape
  <2>2. to = "any2" /\ c \in Digits /\ DigitsFrom(u, j) \in Nat
    BY <1>7 DEF To, DigitsFrom
  <2>3. \A k \in DigitsFrom(u, j) .. n + 1 : u[k] \in Digits
    BY <1>1, <2>1, <2>2
  <2> QED
    BY <1>1, <2>1, <2>2, <2>3 DEF Shape
<1> QED
    BY <1>2, <1>3, <1>4, <1>5, <1>6, <1>7 DEF NumberPlaces

(* What has no arc makes a number of no text that goes on with it.             *)
LEMMA ShapeBlocks ==
    ASSUME NEW at \in NumberPlaces, NEW u, Len(u) \in Nat, NEW n, Shape(at, u, n), n < Len(u),
           To(at, u[n + 1]) = "none"
    PROVE  ~IsNumber(u)
<1> SUFFICES ASSUME NEW i \in 1 .. Len(u), NEW j \in 1 .. Len(u), Split(u, i, j)
             PROVE  FALSE
    BY NumberSplits
<1> DEFINE c == u[n + 1]
<1>1. /\ n \in Nat \ {0} /\ i <= j /\ j <= Len(u) /\ Minus(u) + 1 <= i /\ Minus(u) \in Nat
      /\ \A k \in Minus(u) + 1 .. i : u[k] \in Digits
      /\ u[Minus(u) + 1] = 48 => i = Minus(u) + 1
      /\ i < j => u[i + 1] = 46 /\ i + 2 <= j /\ \A k \in i + 2 .. j : u[k] \in Digits
    BY ShapeLength DEF Split, Mantissa, IsInteger, IsFraction, Minus
<1>2. j < Len(u) =>
        /\ u[j + 1] \in Exponents
        /\ DigitsFrom(u, j) <= Len(u) /\ \A k \in DigitsFrom(u, j) .. Len(u) : u[k] \in Digits
    BY <1>1 DEF Split, IsExponent, Exponents, DigitsFrom, SignAt, Signs
<1>3. 46 \notin Digits \cup Exponents /\ Digits \cap Exponents = {} /\ Digits \cap Signs = {}
    BY DEF Digits, Exponents, Signs
<1>4. CASE at = "minus"
    BY <1>1, <1>4 DEF Shape, Minus, To, Digits
<1>5. CASE at = "zero"
  <2>1. i = n
    BY <1>1, <1>5 DEF Shape
  <2>2. c # 46 /\ c \notin Exponents
    BY <1>5 DEF To, Exponents
  <2> QED
    BY <1>1, <1>2, <2>1, <2>2
<1>6. CASE at = "any1"
  <2>1. c # 46 /\ c \notin Exponents /\ c \notin Digits
    BY <1>6 DEF To, Exponents
  <2>2. i = n
    BY <1>1, <1>6, <2>1, IntegerEnds DEF Shape
  <2> QED
    BY <1>1, <1>2, <2>1, <2>2
<1>7. CASE at = "decimal1"
  <2>1. c \notin Digits /\ n - 1 \in Nat /\ u[n] = 46 /\ IsInteger(u, Minus(u) + 1, n - 1)
    BY <1>7 DEF To, Shape
  <2>2. (n - 1) + 1 = n /\ n - 1 < Len(u)
    BY <1>1
  <2>3. i = n - 1
    BY <1>1, <1>3, <2>1, <2>2, IntegerEnds
  <2>4. i + 1 = n /\ i + 2 = n + 1
    BY <1>1, <2>3
  <2> QED
    BY <1>1, <1>2, <1>3, <2>1, <2>4
<1>8. CASE at = "decimal2"
  <2>1. c \notin Digits /\ c \notin Exponents
    BY <1>8 DEF To, Exponents
  <2>2. PICK m \in Nat : m < n /\ Mantissa(u, m, n)
    BY <1>8 DEF Shape
  <2>3. u[m + 1] = 46 /\ m + 1 < n /\ \A k \in m + 2 .. n : u[k] \in Digits
    BY <1>1, <2>2 DEF Mantissa, IsFraction
  <2>4. i = m
    <3>1. IsInteger(u, Minus(u) + 1, m) /\ u[m + 1] \notin Digits /\ m < Len(u)
      BY <1>1, <1>3, <2>2, <2>3 DEF Mantissa
    <3> QED
      BY <3>1, IntegerEnds
  <2>5. j <= n
    BY <1>1, <2>1, <2>3, <2>4
  <2>6. j = n
    <3>1. j < n => u[j + 1] \in Digits \cup {46}
      BY <1>1, <2>3, <2>4, <2>5
    <3> QED
      BY <1>1, <1>2, <1>3, <2>5, <3>1
  <2> QED
    BY <1>1, <1>2, <2>1, <2>6
<1>9. ASSUME NEW p \in Nat, NEW q \in Nat, HasExponent(u, p, q), q < n
      PROVE  i = p /\ j = q
  <2>1. Mantissa(u, p, q) /\ u[q + 1] \in Exponents /\ q < Len(u)
    BY <1>1, <1>9 DEF HasExponent
  <2>2. p <= q /\ (p < q => u[p + 1] = 46)
    BY <2>1 DEF Mantissa, IsFraction
  <2>3. u[p + 1] \notin Digits
    BY <1>3, <2>1, <2>2
  <2>4. i = p
    BY <1>1, <2>1, <2>2, <2>3, IntegerEnds DEF Mantissa
  <2>5. u[q + 1] \notin Digits \cup {46}
    BY <1>3, <2>1
  <2>6. j = q
    BY <2>1, <2>2, <2>4, <2>5, FractionEnds DEF Mantissa
  <2> QED
    BY <2>4, <2>6
<1>10. CASE at = "exponent"
  <2>1. PICK p \in Nat, q \in Nat : HasExponent(u, p, q) /\ n = q + 1
    BY <1>10 DEF Shape
  <2>2. c \notin Signs /\ c \notin Digits /\ c = u[q + 2] /\ n + 1 = q + 2
    BY <1>10, <2>1 DEF To, Signs
  <2>3. j = q
    BY <1>9, <2>1
  <2> QED
    BY <1>1, <1>2, <2>1, <2>2, <2>3 DEF DigitsFrom
<1>11. CASE at = "sign"
  <2>1. PICK p \in Nat, q \in Nat : HasExponent(u, p, q) /\ n = q + 2 /\ u[n] \in Signs
    BY <1>11 DEF Shape
  <2>2. c \notin Digits
    BY <1>11 DEF To
  <2>3. j = q
    BY <1>9, <2>1
  <2> QED
    BY <1>1, <1>2, <2>1, <2>2, <2>3 DEF DigitsFrom
<1>12. CASE at = "any2"
  <2>1. PICK p \in Nat, q \in Nat : HasExponent(u, p, q) /\ DigitsFrom(u, q) <= n
    BY <1>12 DEF Shape
  <2>2. c \notin Digits
    BY <1>12 DEF To
  <2>3. DigitsFrom(u, q) \in Nat /\ q < n
    BY <1>1, <2>1 DEF DigitsFrom
  <2>4. j = q
    BY <1>9, <2>1, <2>3
  <2> QED
    BY <1>1, <1>2, <2>1, <2>2, <2>3, <2>4
<1> QED
    BY <1>4, <1>5, <1>6, <1>7, <1>8, <1>10, <1>11, <1>12 DEF NumberPlaces

(* A number may end in four of the states, and in no other.                    *)
LEMMA ShapeWhole ==
    ASSUME NEW at \in NumberPlaces, NEW u, Len(u) \in Nat, Shape(at, u, Len(u))
    PROVE  IsNumber(u) <=> at \in MayEnd
<1> DEFINE n == Len(u)
<1>0. n \in Nat \ {0}
    BY ShapeLength
<1>1. 46 \notin Digits \cup Exponents /\ Digits \cap Exponents = {} /\ Digits \cap Signs = {}
    BY DEF Digits, Exponents, Signs
<1>2. CASE at \in {"zero", "any1"}
  <2>1. IsInteger(u, Minus(u) + 1, n)
    BY <1>2, ZeroIs DEF Shape
  <2>2. Split(u, n, n)
    BY <1>0, <2>1 DEF Split, Mantissa, IsFraction, IsExponent
  <2> QED
    BY <1>0, <1>2, <2>2, NumberSplits DEF MayEnd
<1>3. CASE at = "decimal2"
  <2>1. PICK i \in Nat : i < n /\ Mantissa(u, i, n)
    BY <1>3 DEF Shape
  <2>2. Split(u, i, n) /\ i \in 1 .. n
    BY <1>0, <2>1 DEF Split, Mantissa, IsExponent, IsInteger, Minus
  <2> QED
    BY <1>0, <1>3, <2>2, NumberSplits DEF MayEnd
<1>4. CASE at = "any2"
  <2>1. PICK i \in Nat, j \in Nat :
           /\ HasExponent(u, i, j) /\ DigitsFrom(u, j) <= n
           /\ \A k \in DigitsFrom(u, j) .. n : u[k] \in Digits
    BY <1>4 DEF Shape
  <2>2. Mantissa(u, i, j) /\ u[j + 1] \in Exponents /\ i \in 1 .. n /\ j \in 1 .. n /\ j + 2 <= n
    BY <1>0, <2>1 DEF HasExponent, Mantissa, IsInteger, Minus, DigitsFrom
  <2>3. IsExponent(u, j + 1, n)
    BY <1>0, <2>1, <2>2 DEF IsExponent, DigitsFrom, SignAt, Exponents, Signs
  <2>4. Split(u, i, j)
    BY <2>2, <2>3 DEF Split
  <2> QED
    BY <1>4, <2>2, <2>4, NumberSplits DEF MayEnd
<1>5. ASSUME at \notin MayEnd, NEW i \in 1 .. n, NEW j \in 1 .. n, Split(u, i, j)
      PROVE  FALSE
  <2>1. /\ i <= j /\ Minus(u) + 1 <= i /\ Minus(u) \in Nat
        /\ \A k \in Minus(u) + 1 .. i : u[k] \in Digits
        /\ i < j => u[i + 1] = 46 /\ i + 2 <= j /\ \A k \in i + 2 .. j : u[k] \in Digits
    BY <1>5 DEF Split, Mantissa, IsInteger, IsFraction, Minus
  <2>2. j < n =>
          /\ u[j + 1] \in Exponents
          /\ DigitsFrom(u, j) <= n /\ \A k \in DigitsFrom(u, j) .. n : u[k] \in Digits
    BY <1>5, <2>1 DEF Split, IsExponent, Exponents, DigitsFrom, SignAt, Signs
  <2>3. CASE at = "minus"
    <3>1. n = 1 /\ Minus(u) = 1
      BY <2>3 DEF Shape, Minus
    <3>2. i \in 1 .. n
      BY <1>5
    <3> QED
      BY <2>1, <3>1, <3>2
  <2>4. CASE at = "decimal1"
    <3>1. n - 1 \in Nat /\ u[n] = 46 /\ IsInteger(u, Minus(u) + 1, n - 1)
      BY <2>4 DEF Shape
    <3>2. i = n - 1
      BY <1>0, <1>1, <1>5, <3>1, IntegerEnds
    <3> QED
      BY <1>0, <1>1, <2>1, <2>2, <3>1, <3>2
  <2>5. CASE at \in {"exponent", "sign"}
    <3>1. PICK p \in Nat, q \in Nat :
             HasExponent(u, p, q) /\ (n = q + 1 \/ (n = q + 2 /\ u[n] \in Signs))
      BY <2>5 DEF Shape
    <3>2. Mantissa(u, p, q) /\ u[q + 1] \in Exponents /\ q < n
      BY <1>0, <3>1 DEF HasExponent
    <3>3. p <= q /\ (p < q => u[p + 1] = 46)
      BY <3>2 DEF Mantissa, IsFraction
    <3>4. u[p + 1] \notin Digits /\ u[q + 1] \notin Digits \cup {46}
      BY <1>1, <3>2, <3>3
    <3>5. i = p
      BY <1>0, <1>5, <3>2, <3>3, <3>4, IntegerEnds DEF Mantissa
    <3>6. j = q
      BY <1>5, <3>2, <3>3, <3>4, <3>5, FractionEnds DEF Mantissa
    <3> QED
      BY <1>0, <1>1, <2>2, <3>1, <3>2, <3>6 DEF DigitsFrom
  <2> QED
    BY <1>5, <2>3, <2>4, <2>5 DEF MayEnd, NumberPlaces
<1> QED
    BY <1>0, <1>2, <1>3, <1>4, <1>5, NumberSplits DEF NumberPlaces, MayEnd

(* What is behind its characters does not change a shape.                      *)
LEMMA ShapeStays ==
    ASSUME NEW at \in NumberPlaces, NEW s, NEW u, NEW n, Shape(at, s, n),
           \A k \in 1 .. n : u[k] = s[k]
    PROVE  Shape(at, u, n)
<1>1. n \in Nat \ {0} /\ u[1] = s[1] /\ u[n] = s[n]
    BY ShapeLength
<1>2. Minus(u) = Minus(s) /\ Minus(s) \in 0 .. 1
    BY <1>1 DEF Minus
<1>3. ASSUME NEW i \in Nat, i <= n, IsInteger(s, Minus(s) + 1, i)
      PROVE  IsInteger(u, Minus(u) + 1, i) /\ u[Minus(u) + 1] = s[Minus(s) + 1]
    BY <1>1, <1>2, <1>3 DEF IsInteger
<1>4. ASSUME NEW i \in Nat, NEW j \in Nat, j <= n, Mantissa(s, i, j)
      PROVE  Mantissa(u, i, j)
  <2>1. i <= j /\ IsInteger(s, Minus(s) + 1, i) /\ IsFraction(s, i + 1, j)
    BY <1>4 DEF Mantissa
  <2>2. IsInteger(u, Minus(u) + 1, i)
    BY <1>1, <1>3, <1>4, <2>1
  <2>3. IsFraction(u, i + 1, j)
    BY <1>1, <1>4, <2>1 DEF IsFraction
  <2> QED
    BY <2>1, <2>2, <2>3 DEF Mantissa
<1>5. CASE at \in {"minus", "zero"}
    BY <1>1, <1>2, <1>5 DEF Shape
<1>6. CASE at = "any1"
    BY <1>1, <1>3, <1>6 DEF Shape
<1>7. CASE at = "decimal1"
    BY <1>1, <1>3, <1>7 DEF Shape
<1>8. CASE at = "decimal2"
    BY <1>1, <1>4, <1>8 DEF Shape
<1>9. ASSUME NEW i \in Nat, NEW j \in Nat, j < n, HasExponent(s, i, j)
      PROVE  HasExponent(u, i, j) /\ (j + 1 < n => DigitsFrom(u, j) = DigitsFrom(s, j))
    BY <1>1, <1>4, <1>9 DEF HasExponent, DigitsFrom
<1>10. CASE at \in {"exponent", "sign"}
    BY <1>1, <1>9, <1>10 DEF Shape
<1>11. CASE at = "any2"
  <2>1. PICK i \in Nat, j \in Nat :
           /\ HasExponent(s, i, j) /\ DigitsFrom(s, j) <= n
           /\ \A k \in DigitsFrom(s, j) .. n : s[k] \in Digits
    BY <1>11 DEF Shape
  <2>2. DigitsFrom(s, j) \in Nat /\ j + 1 < DigitsFrom(s, j)
    BY DEF DigitsFrom
  <2>3. HasExponent(u, i, j) /\ DigitsFrom(u, j) = DigitsFrom(s, j)
    BY <1>1, <1>9, <2>1, <2>2
  <2> QED
    BY <1>1, <1>11, <2>1, <2>2, <2>3 DEF Shape
<1> QED
    BY <1>5, <1>6, <1>7, <1>8, <1>10, <1>11 DEF NumberPlaces

(* The texts: what may stand before a token, and where the token begins.       *)
PrefixOf(t, k) ==
    \E mark \in {0, 3} :
        /\ mark <= k /\ (mark = 3 => t[1] = 239 /\ t[2] = 187 /\ t[3] = 191)
        /\ \A i \in mark + 1 .. k : t[i] \in WhiteSpace
NumberStarts == Digits \cup {45}
BeginsAt(t, k) ==
    /\ k \in Nat /\ k < Len(t) /\ PrefixOf(t, k) /\ t[k + 1] \notin WhiteSpace
    /\ ~(k = 0 /\ t[1] = 239)

Result(t, s) ==
    \A k \in 0 .. Len(t) - 1 :
      LET taken == SubSeq(t, k + 1, Len(t) - 1)
          read  == SubSeq(t, k + 1, Len(t))
      IN  PrefixOf(t, k) /\ t[k + 1] \in NumberStarts =>
            /\ ~IsNumber(read) /\ ~IsNumber(Append(read, 48))
            /\ IF s.at = "parse_error" THEN ~IsNumber(taken)
               ELSE IsNumber(taken) /\ s.token_buffer = taken /\ s.at = KindOf(taken)

TypeOf(s) ==
    IF s.at \in {"minus", "zero", "any1"}
    THEN IF s.token_buffer[1] = 45 THEN "value_integer" ELSE "value_unsigned"
    ELSE "value_float"
InNumberFrom(t, s, k) ==
    /\ BeginsAt(t, k) /\ t[k + 1] \in NumberStarts /\ s.token_buffer = SubSeq(t, k + 1, Len(t))
    /\ Shape(s.at, s.token_buffer, Len(s.token_buffer)) /\ s.number_type = TypeOf(s)

(* How far the text t has taken the scanner s.                                 *)
Phase(t, s) ==
    /\ t \in Seq(Codes)
    /\ s.at = "bom" => t = <<>>
    /\ s.at = "bom1" => Len(t) = 1 /\ t[1] = 239
    /\ s.at = "bom2" => Len(t) = 2 /\ t[1] = 239 /\ t[2] = 187
    /\ s.at = "token" => Len(t) > 0 /\ PrefixOf(t, Len(t))
    /\ s.at \in Starting => s.number_type = "value_unsigned"
    /\ s.at \in {"string", "literal"} =>
         \E k \in Nat : BeginsAt(t, k) /\ t[k + 1] \notin NumberStarts
    /\ s.at \in NumberPlaces => \E k \in Nat : InNumberFrom(t, s, k)
    /\ ~Scanning(s) => Result(t, s)

(* There is one place where a token can begin.                                 *)
LEMMA BeginsAlone ==
    ASSUME NEW t, Len(t) \in Nat, NEW k, BeginsAt(t, k), NEW m \in Nat, m < Len(t), PrefixOf(t, m),
           t[m + 1] \in NumberStarts
    PROVE  m = k
<1>1. k \in Nat /\ t[k + 1] \notin WhiteSpace /\ (k = 0 => t[1] # 239)
    BY DEF BeginsAt
<1>2. PICK a \in {0, 3} : /\ a <= k /\ (a = 3 => t[1] = 239 /\ t[2] = 187 /\ t[3] = 191)
                          /\ \A i \in a + 1 .. k : t[i] \in WhiteSpace
    BY DEF BeginsAt, PrefixOf
<1>3. PICK b \in {0, 3} : /\ b <= m /\ (b = 3 => t[1] = 239 /\ t[2] = 187 /\ t[3] = 191)
                          /\ \A i \in b + 1 .. m : t[i] \in WhiteSpace
    BY DEF PrefixOf
<1>4. NumberStarts \cap (WhiteSpace \cup {239, 187, 191}) = {} /\ 239 \notin WhiteSpace
    BY DEF NumberStarts, Digits, WhiteSpace
<1>5. ASSUME m < k
      PROVE  FALSE
    BY <1>1, <1>2, <1>4, <1>5
<1>6. ASSUME k < m
      PROVE  FALSE
  <2>1. b = 3 /\ k < 3
    BY <1>1, <1>3, <1>6
  <2>2. a \in {0, 3} /\ a <= k /\ (b = 3 => t[1] = 239)
    BY <1>2, <1>3
  <2>3. a = 0 /\ t[1] = 239
    BY <1>1, <2>1, <2>2
  <2>4. k = 0
    BY <1>1, <1>2, <1>4, <2>3
  <2> QED
    BY <1>1, <2>3, <2>4
<1> QED
    BY <1>1, <1>5, <1>6

LEMMA OneMoreRead ==
    ASSUME NEW t \in Seq(Codes), NEW c \in Codes
    PROVE  /\ Append(t, c) \in Seq(Codes) /\ Len(Append(t, c)) = Len(t) + 1 /\ Len(t) \in Nat
           /\ Append(t, c)[Len(t) + 1] = c
           /\ \A i \in 1 .. Len(t) : Append(t, c)[i] = t[i]
BY AppendProperties, LenProperties

LEMMA PrefixStays ==
    ASSUME NEW t \in Seq(Codes), NEW c \in Codes, NEW k \in Nat, k <= Len(t), PrefixOf(t, k)
    PROVE  PrefixOf(Append(t, c), k)
<1> DEFINE u == Append(t, c)
<1>1. Len(t) \in Nat /\ \A i \in 1 .. Len(t) : u[i] = t[i]
    BY OneMoreRead
<1> HIDE DEF u
<1>2. PICK a \in {0, 3} : /\ a <= k /\ (a = 3 => t[1] = 239 /\ t[2] = 187 /\ t[3] = 191)
                          /\ \A i \in a + 1 .. k : t[i] \in WhiteSpace
    BY DEF PrefixOf
<1>3. /\ a = 3 => u[1] = 239 /\ u[2] = 187 /\ u[3] = 191
      /\ \A i \in a + 1 .. k : u[i] \in WhiteSpace
    BY <1>1, <1>2
<1> QED
    BY <1>2, <1>3 DEF PrefixOf, u

LEMMA BeginsStays ==
    ASSUME NEW t \in Seq(Codes), NEW c \in Codes, NEW k \in Nat, BeginsAt(t, k)
    PROVE  BeginsAt(Append(t, c), k) /\ Append(t, c)[k + 1] = t[k + 1]
<1> DEFINE u == Append(t, c)
<1>1. Len(t) \in Nat /\ Len(u) = Len(t) + 1 /\ \A i \in 1 .. Len(t) : u[i] = t[i]
    BY OneMoreRead
<1>2. k < Len(t) /\ PrefixOf(u, k)
    BY <1>1, PrefixStays DEF BeginsAt
<1> HIDE DEF u
<1>3. u[k + 1] = t[k + 1] /\ u[1] = t[1]
    BY <1>1, <1>2
<1>4. BeginsAt(u, k)
    BY <1>1, <1>2, <1>3 DEF BeginsAt
<1> QED
    BY <1>3, <1>4 DEF u

LEMMA NoNumber ==
    ASSUME NEW t, Len(t) \in Nat, NEW k \in Nat, BeginsAt(t, k), t[k + 1] \notin NumberStarts, NEW s
    PROVE  Result(t, s)
BY BeginsAlone DEF Result

Resting(s) == s.at \notin Starting \cup {"string", "literal"} \cup NumberPlaces

LEMMA PhaseEnds ==
    ASSUME NEW t \in Seq(Codes), NEW s, Resting(s), Result(t, s)
    PROVE  Phase(t, s)
BY DEF Phase, Resting, Starting

LEMMA PhaseGoesOn ==
    ASSUME NEW t \in Seq(Codes), NEW k \in Nat, BeginsAt(t, k), t[k + 1] \notin NumberStarts, NEW s,
           s.at \in {"string", "literal"} \/ Resting(s)
    PROVE  Phase(t, s)
<1>1. CASE s.at \in {"string", "literal"}
  <2>1. Scanning(s) /\ s.at \notin Starting \cup NumberPlaces
    BY <1>1 DEF Scanning, Starting, NumberPlaces
  <2> QED
    BY <1>1, <2>1 DEF Phase, Starting
<1>2. CASE Resting(s)
    BY <1>2, NoNumber, PhaseEnds, LenProperties
<1> QED
    BY <1>1, <1>2

(* The first characters of a token.                                            *)
LEMMA PhaseNumber ==
    ASSUME NEW t \in Seq(Codes), NEW s, s.at \in NumberPlaces, NEW k \in Nat, InNumberFrom(t, s, k)
    PROVE  Phase(t, s)
<1>1. Scanning(s) /\ s.at \notin Starting \cup {"string", "literal"}
    BY InNumberIs DEF Scanning, NumberPlaces, Starting
<1> QED
    BY <1>1 DEF Phase, Starting

LEMMA NumberBegins ==
    ASSUME NEW t \in Seq(Codes), NEW c \in NumberStarts, NEW s, s.token_buffer = <<c>>,
           BeginsAt(Append(t, c), Len(t)), s.number_type = TypeOf(s),
           s.at = IF c = 45 THEN "minus" ELSE IF c = 48 THEN "zero" ELSE "any1"
    PROVE  Phase(Append(t, c), s)
<1> DEFINE u == Append(t, c)
<1>1. c \in Codes
    BY SMT DEF NumberStarts, Digits, Codes, eof, U
<1>2. u \in Seq(Codes) /\ Len(u) = Len(t) + 1 /\ Len(t) \in Nat /\ u[Len(t) + 1] = c
    BY <1>1, OneMoreRead
<1>3. SubSeq(u, Len(t) + 1, Len(u)) = <<c>>
  <2>1. SubSeq(u, Len(t) + 1, Len(u)) = SubSeq(u, Len(t) + 1, Len(t)) \o <<c>>
    BY <1>2, SubSeqRecursiveSecond
  <2>2. SubSeq(u, Len(t) + 1, Len(t)) = <<>>
    BY <1>2, SubSeqEmpty
  <2>3. <<>> \o <<c>> = <<c>>
    BY EmptySeq, ConcatEmptySeq, <1>1
  <2> QED
    BY <2>1, <2>2, <2>3
<1>4. Shape(s.at, <<c>>, 1)
  <2>1. <<c>>[1] = c
    OBVIOUS
  <2> QED
    BY <2>1 DEF Shape, Minus, IsInteger, NumberStarts, Digits
<1>5. s.at \in NumberPlaces /\ Len(<<c>>) = 1
    BY DEF NumberPlaces
<1>6. InNumberFrom(u, s, Len(t))
    BY <1>2, <1>3, <1>4, <1>5 DEF InNumberFrom
<1> HIDE DEF u
<1>7. Phase(u, s)
    BY <1>2, <1>5, <1>6, PhaseNumber
<1> QED
    BY <1>7 DEF u

LEMMA ScanPhase ==
    ASSUME NEW t \in Seq(Codes), PrefixOf(t, Len(t)), NEW c \in Codes, t = <<>> => c # 239,
           NEW s, LexerOk(s), Fresh(s), s.number_type = "value_unsigned"
    PROVE  Phase(Append(t, c), scan(s, c))
<1> DEFINE u == Append(t, c)
           n == scan(s, c)
<1>1. /\ u \in Seq(Codes) /\ Len(u) = Len(t) + 1 /\ Len(t) \in Nat /\ u[Len(t) + 1] = c
      /\ Fields(s) /\ s.token_buffer = <<>> /\ c \in Int
    BY OneMoreRead DEF LexerOk, Codes, Fresh
<1>2. PrefixOf(u, Len(t))
    BY <1>1, PrefixStays
<1>3. CASE c \in WhiteSpace
  <2>1. n = Goes(s, "token")
    BY <1>3 DEF scan
  <2>2. n.at = "token" /\ n.number_type = "value_unsigned"
    BY <1>1, <2>1, GoesIs
  <2>3. PrefixOf(u, Len(u))
    <3>1. PICK a \in {0, 3} : /\ a <= Len(t) /\ (a = 3 => u[1] = 239 /\ u[2] = 187 /\ u[3] = 191)
                              /\ \A i \in a + 1 .. Len(t) : u[i] \in WhiteSpace
      BY <1>2 DEF PrefixOf
    <3>2. \A i \in a + 1 .. Len(u) : u[i] \in WhiteSpace
      BY <1>1, <1>3, <3>1
    <3>3. a <= Len(u)
      BY <1>1, <3>1
    <3> HIDE DEF u
    <3> QED
      BY <3>1, <3>2, <3>3 DEF PrefixOf
  <2> HIDE DEF u, n
  <2>4. Scanning(n)
    BY <2>2 DEF Scanning
  <2> USE DEF u, n
  <2> QED
    BY <1>1, <2>2, <2>3, <2>4 DEF Phase, NumberPlaces
<1>4. CASE c \notin WhiteSpace
  <2>1. BeginsAt(u, Len(t))
    <3>1. ~(Len(t) = 0 /\ u[1] = 239)
      BY <1>1, EmptySeq
    <3> HIDE DEF u
    <3> QED
      BY <1>1, <1>2, <1>4, <3>1 DEF BeginsAt
  <2>2. CASE c \in DOMAIN Structural
    <3>1. c \in {91, 93, 123, 125, 58, 44} /\ n = Goes(s, Structural[c])
      BY <1>4, <2>2 DEF scan, Structural
    <3>2. Structural[c] \notin Starting \cup {"string", "literal"} \cup NumberPlaces
      BY <3>1 DEF Structural, Starting, NumberPlaces
    <3>3. Resting(n) /\ c \notin NumberStarts
      BY <1>1, <3>1, <3>2, GoesIs DEF Resting, NumberStarts, Digits
    <3> HIDE DEF u, n
    <3>4. Phase(u, n)
      BY <1>1, <2>1, <3>3, PhaseGoesOn
    <3> QED
      BY <3>4 DEF u, n
  <2>3. CASE c \notin DOMAIN Structural /\ c \in DOMAIN Literals
    <3>1. /\ c \in {116, 102, 110}
          /\ n = [s EXCEPT !.at = "literal", !.ranges = Literals[c], !.number_type = LiteralTokens[c]]
      BY <1>4, <2>3 DEF scan, Literals
    <3>2. n.at = "literal" /\ c \notin NumberStarts
      BY <1>1, <3>1, InitialIs DEF Fields, NumberStarts, Digits
    <3> HIDE DEF u, n
    <3>3. Phase(u, n)
      BY <1>1, <2>1, <3>2, PhaseGoesOn
    <3> QED
      BY <3>3 DEF u, n
  <2> DEFINE Rest == c \notin DOMAIN Structural /\ c \notin DOMAIN Literals
  <2>4. CASE Rest /\ c \notin NumberStarts
    <3>1. \E at \in {"string", "end_of_input", "parse_error"} : n = Goes(s, at)
      BY <1>4, <2>4 DEF scan, NumberStarts, Fails
    <3>2. n.at \in {"string", "end_of_input", "parse_error"}
      BY <1>1, <3>1, GoesIs
    <3> HIDE DEF u, n
    <3>3. n.at = "string" \/ Resting(n)
      BY <3>2 DEF Resting, Starting, NumberPlaces
    <3>4. Phase(u, n)
      BY <1>1, <2>1, <2>4, <3>3, PhaseGoesOn
    <3> QED
      BY <3>4 DEF u, n
  <2>5. CASE Rest /\ c \in NumberStarts
    <3>1. c # Quote /\ (c = 45 \/ c \in Digits)
      BY <2>5 DEF Quote, NumberStarts, Digits
    <3>2. /\ n.at = IF c = 45 THEN "minus" ELSE IF c = 48 THEN "zero" ELSE "any1"
          /\ n.token_buffer = s.token_buffer \o <<c>>
          /\ n.number_type = IF c = 45 THEN "value_integer" ELSE "value_unsigned"
      <4>1. CASE c = 45
        <5>1. n = [Adds(Goes(s, "minus"), <<c>>) EXCEPT !.number_type = "value_integer"]
          BY <1>4, <2>5, <3>1, <4>1 DEF scan
        <5> DEFINE m == Goes(s, "minus")
        <5>2. Fields(m) /\ m.at = "minus" /\ m.token_buffer = s.token_buffer
          BY <1>1, GoesIs
        <5> HIDE DEF m
        <5>3. n = [Adds(m, <<c>>) EXCEPT !.number_type = "value_integer"]
          BY <5>1 DEF m
        <5> QED
          <6> HIDE DEF n
          <6>1. /\ n.at = m.at /\ n.token_buffer = m.token_buffer \o <<c>>
                /\ n.number_type = "value_integer"
            BY <5>2, <5>3, InitialIs DEF Adds, Fields
          <6> QED
            BY <4>1, <5>2, <6>1
      <4>2. CASE c # 45
        <5> DEFINE at == IF c = 48 THEN "zero" ELSE "any1"
                   m == Goes(s, at)
        <5>1. n = Adds(m, <<c>>)
          BY <1>4, <2>5, <3>1, <4>2 DEF scan
        <5> HIDE DEF at
        <5>2. /\ Fields(m) /\ m.at = at /\ m.token_buffer = s.token_buffer
              /\ m.number_type = s.number_type
          BY <1>1, GoesIs
        <5> HIDE DEF m, n
        <5>3. /\ n.at = m.at /\ n.token_buffer = m.token_buffer \o <<c>>
              /\ n.number_type = m.number_type
          BY <5>1, <5>2, InitialIs DEF Adds, Fields
        <5> QED
          BY <4>2, <5>2, <5>3 DEF at
      <4> QED
        BY <4>1, <4>2
    <3>3. <<>> \o <<c>> = <<c>> /\ <<c>>[1] = c
      BY EmptySeq, ConcatEmptySeq, <1>1
    <3>4. n.token_buffer = <<c>>
      BY <1>1, <3>2, <3>3
    <3> HIDE DEF n
    <3>5. n.number_type = TypeOf(n)
      BY <3>2, <3>3, <3>4 DEF TypeOf
    <3>6. Phase(u, n)
      BY <2>1, <2>5, <3>2, <3>4, <3>5, NumberBegins
    <3> QED
      BY <3>6 DEF n
  <2> QED
    BY <2>2, <2>3, <2>4, <2>5
<1> QED
    BY <1>3, <1>4

(* The byte order mark. *)
LEMMA MarkPhase ==
    ASSUME NEW t, NEW s, Phase(t, s), LexerOk(s), s.at \in {"bom", "bom1", "bom2"}, NEW c \in Codes
    PROVE  Phase(Append(t, c), get(s, c))
<1> DEFINE u == Append(t, c)
<1>1. /\ t \in Seq(Codes) /\ Fields(s) /\ Fresh(s) /\ s.number_type = "value_unsigned"
    BY DEF Phase, LexerOk, Starting
<1>2. u \in Seq(Codes) /\ Len(u) = Len(t) + 1 /\ Len(t) \in Nat /\ u[Len(t) + 1] = c
      /\ \A i \in 1 .. Len(t) : u[i] = t[i]
    BY <1>1, OneMoreRead
<1> HIDE DEF u
<1>3. 239 \notin WhiteSpace /\ 187 \notin WhiteSpace
      /\ {239, 187} \cap NumberStarts = {}
    BY DEF WhiteSpace, NumberStarts, Digits
<1>4. CASE s.at = "bom"
  <2>1. t = <<>> /\ Len(t) = 0 /\ get(s, c) = IF c = 239 THEN Goes(s, "bom1") ELSE scan(s, c)
    BY <1>4, EmptySeq DEF Phase, get, skip_bom
  <2>2. PrefixOf(t, Len(t))
    BY <2>1 DEF PrefixOf
  <2>3. c = 239 => Phase(u, Goes(s, "bom1"))
    <3>1. Goes(s, "bom1").at = "bom1" /\ Goes(s, "bom1").number_type = "value_unsigned"
      BY <1>1, GoesIs
    <3> QED
      BY <1>2, <2>1, <3>1 DEF Phase, Scanning, NumberPlaces
  <2>4. c # 239 => Phase(Append(t, c), scan(s, c))
    BY <1>1, <2>2, ScanPhase
  <2> QED
    BY <2>1, <2>3, <2>4 DEF u
<1>5. ASSUME s.at \in {"bom1", "bom2"}, c # (IF s.at = "bom1" THEN 187 ELSE 191)
      PROVE  Phase(u, get(s, c))
  <2>1. get(s, c) = Fails(s)
    BY <1>5 DEF get, skip_bom
  <2>2. Resting(Fails(s))
    BY <1>1, FailsIs DEF Resting, Starting, NumberPlaces
  <2>3. u[1] = 239 /\ (Len(u) = 2 \/ (Len(u) = 3 /\ u[2] = 187 /\ u[3] # 191))
        /\ (Len(u) = 2 => u[2] # 187)
    BY <1>2, <1>5 DEF Phase
  <2>4. ASSUME NEW k \in 0 .. Len(u) - 1, PrefixOf(u, k), u[k + 1] \in NumberStarts
        PROVE  FALSE
    <3>1. PICK a \in {0, 3} : a <= k /\ \A i \in a + 1 .. k : u[i] \in WhiteSpace
      BY <2>4 DEF PrefixOf
    <3>2. a = 0 /\ k \in 0 .. 2
      BY <1>2, <2>3, <2>4, <3>1
    <3>3. k = 0
      BY <1>3, <2>3, <3>1, <3>2
    <3> QED
      BY <1>3, <2>3, <2>4, <3>3
  <2>5. Result(u, Fails(s))
    BY <2>4, Zenon DEF Result
  <2> QED
    BY <1>2, <2>1, <2>2, <2>5, PhaseEnds
<1>6. CASE s.at = "bom1" /\ c = 187
  <2>1. get(s, c) = Goes(s, "bom2")
    BY <1>6 DEF get, skip_bom
  <2>2. Goes(s, "bom2").at = "bom2" /\ Goes(s, "bom2").number_type = "value_unsigned"
    BY <1>1, GoesIs
  <2>3. Len(t) = 1 /\ t[1] = 239
    BY <1>6 DEF Phase
  <2>4. Len(u) = 2 /\ u[1] = 239 /\ u[2] = 187
    BY <1>2, <1>6, <2>3
  <2> QED
    BY <1>2, <2>1, <2>2, <2>4 DEF Phase, Scanning, NumberPlaces, u
<1>7. CASE s.at = "bom2" /\ c = 191
  <2>1. get(s, c) = Goes(s, "token")
    BY <1>7 DEF get, skip_bom
  <2>2. Goes(s, "token").at = "token" /\ Goes(s, "token").number_type = "value_unsigned"
    BY <1>1, GoesIs
  <2>3. Len(t) = 2 /\ t[1] = 239 /\ t[2] = 187
    BY <1>7 DEF Phase
  <2>4. Len(u) = 3 /\ u[1] = 239 /\ u[2] = 187 /\ u[3] = 191
    BY <1>2, <1>7, <2>3
  <2>5. PrefixOf(u, Len(u))
    BY <2>4 DEF PrefixOf
  <2> QED
    BY <1>2, <2>1, <2>2, <2>4, <2>5 DEF Phase, Scanning, NumberPlaces, u
<1> QED
    BY <1>4, <1>5, <1>6, <1>7 DEF u

(* Slices of two sequences that agree there; bytes as integers.                *)
LEMMA SameSlice ==
    ASSUME NEW t \in Seq(Codes), NEW u, NEW m \in Nat \ {0}, NEW n \in Nat, n <= Len(t),
           \A i \in 1 .. Len(t) : u[i] = t[i]
    PROVE  SubSeq(u, m, n) = SubSeq(t, m, n)
<1>1. Len(t) \in Nat /\ t \in [1 .. Len(t) -> Codes]
    BY LenProperties
<1>2. \A i \in m .. n : u[i] = t[i] /\ t[i] \in Codes /\ u[i] \in Codes
    BY <1>1
<1>3. /\ SubSeq(t, m, n) \in Seq(Codes) /\ SubSeq(u, m, n) \in Seq(Codes)
      /\ Len(SubSeq(t, m, n)) = IF m <= n THEN n - m + 1 ELSE 0
      /\ Len(SubSeq(u, m, n)) = IF m <= n THEN n - m + 1 ELSE 0
      /\ \A i \in 1 .. n - m + 1 : SubSeq(t, m, n)[i] = t[m + i - 1]
      /\ \A i \in 1 .. n - m + 1 : SubSeq(u, m, n)[i] = u[m + i - 1]
  <2>1. \A i \in m .. n : u[i] \in Codes
    BY <1>2
  <2>2. \A i \in m .. n : t[i] \in Codes
    BY <1>2
  <2>3. /\ SubSeq(t, m, n) \in Seq(Codes)
        /\ Len(SubSeq(t, m, n)) = IF m <= n THEN n - m + 1 ELSE 0
        /\ \A i \in 1 .. n - m + 1 : SubSeq(t, m, n)[i] = t[m + i - 1]
    BY <2>2, SubSeqProperties
  <2>4. /\ SubSeq(u, m, n) \in Seq(Codes)
        /\ Len(SubSeq(u, m, n)) = IF m <= n THEN n - m + 1 ELSE 0
        /\ \A i \in 1 .. n - m + 1 : SubSeq(u, m, n)[i] = u[m + i - 1]
    BY <2>1, SubSeqProperties
  <2> QED
    BY <2>3, <2>4
<1> DEFINE a == SubSeq(u, m, n)
           b == SubSeq(t, m, n)
<1>4. Len(a) = Len(b) /\ \A i \in 1 .. Len(a) : a[i] = b[i]
  <2>1. ASSUME NEW i \in 1 .. Len(a)
        PROVE  a[i] = b[i]
    <3>1. m + i - 1 \in m .. n /\ i \in 1 .. n - m + 1
      BY <1>3
    <3> QED
      BY <1>2, <1>3, <3>1
  <2> QED
    BY <1>3, <2>1
<1> HIDE DEF a, b
<1>5. a = b
    BY <1>3, <1>4, SeqEqual DEF a, b
<1> QED
    BY <1>5 DEF a, b

LEMMA SliceGrows ==
    ASSUME NEW t \in Seq(Codes), NEW c \in Codes, NEW k \in Nat, k < Len(t)
    PROVE  /\ SubSeq(Append(t, c), k + 1, Len(t)) = SubSeq(t, k + 1, Len(t))
           /\ SubSeq(Append(t, c), k + 1, Len(t) + 1) = SubSeq(t, k + 1, Len(t)) \o <<c>>
<1> DEFINE u == Append(t, c)
           n == Len(t) + 1
<1>1. u \in Seq(Codes) /\ Len(u) = n /\ Len(t) \in Nat /\ u[n] = c
      /\ \A i \in 1 .. Len(t) : u[i] = t[i]
    BY OneMoreRead
<1>2. k + 1 \in 1 .. Len(u) /\ n \in k + 1 .. Len(u) /\ n - 1 = Len(t) /\ k + 1 \in Nat \ {0}
    BY <1>1
<1> HIDE DEF u
<1>3. SubSeq(u, k + 1, n) = SubSeq(u, k + 1, n - 1) \o <<u[n]>>
  <2> HIDE DEF n
  <2> QED
    BY <1>1, <1>2, SubSeqRecursiveSecond
<1>4. SubSeq(u, k + 1, Len(t)) = SubSeq(t, k + 1, Len(t))
    BY <1>1, <1>2, SameSlice
<1> QED
    BY <1>1, <1>2, <1>3, <1>4 DEF u

LEMMA OneMoreByte ==
    ASSUME NEW d \in Seq(Bytes), NEW c \in Bytes
    PROVE  /\ d \o <<c>> \in Seq(Bytes) /\ Len(d \o <<c>>) = Len(d) + 1
           /\ (d \o <<c>>)[Len(d) + 1] = c
           /\ \A i \in 1 .. Len(d) : (d \o <<c>>)[i] = d[i]
<1>1. <<c>> \in Seq(Bytes) /\ Len(<<c>>) = 1 /\ <<c>>[1] = c
    OBVIOUS
<1> QED
    BY <1>1, Added

(* Of a byte and the code behind it.                                           *)
LEMMA OneMoreCode ==
    ASSUME NEW d \in Seq(Bytes), NEW c \in Int
    PROVE  /\ d \in Seq(Int) /\ Append(d, c) \in Seq(Int) /\ Len(d) \in Nat
           /\ Append(d, c) = d \o <<c>> /\ Len(Append(d, c)) = Len(d) + 1
           /\ Append(d, c)[Len(d) + 1] = c
           /\ \A i \in 1 .. Len(d) : Append(d, c)[i] = d[i]
<1>1. Bytes \subseteq Int
    BY DEF Bytes
<1> HIDE DEF Bytes
<1>2. d \in Seq(Int)
    BY <1>1, SeqMonotonic
<1>3. Append(d, c) = d \o <<c>>
    BY <1>2, AppendIsConcat
<1> QED
    BY <1>2, <1>3, AppendProperties, LenProperties

(* The kind that the scanner has kept is that of the characters.               *)
LEMMA KindIs ==
    ASSUME NEW s, NEW d \in Seq(Bytes), s.token_buffer = d, s.at \in MayEnd,
           Shape(s.at, d, Len(d)), s.number_type = TypeOf(s)
    PROVE  Converted(s) = KindOf(d)
<1> DEFINE n == Len(d)
<1>1. n \in Nat \ {0} /\ DOMAIN d = 1 .. n /\ s.at \in NumberPlaces
    BY ShapeLength, LenProperties DEF MayEnd, NumberPlaces
<1>2. CASE s.at \in {"zero", "any1"}
  <2>1. IsInteger(d, Minus(d) + 1, n)
    BY <1>2, ZeroIs DEF Shape
  <2>2. ASSUME NEW k \in 1 .. n
        PROVE  d[k] \notin {46, 69, 101}
    <3>1. d[k] = 45 \/ d[k] \in Digits
      BY <1>1, <2>1, <2>2 DEF IsInteger, Minus
    <3>2. Digits \cap {46, 69, 101} = {}
      BY DEF Digits
    <3> QED
      BY <3>1, <3>2
  <2>3. s.number_type = IF d[1] = 45 THEN "value_integer" ELSE "value_unsigned"
    BY <1>2 DEF TypeOf
  <2>4. ~\E k \in DOMAIN d : d[k] \in {46, 69, 101}
    BY <1>1, <2>2
  <2> QED
    BY <2>3, <2>4 DEF Converted, KindOf
<1>3. CASE s.at \in {"decimal2", "any2"}
  <2>1. s.number_type = "value_float"
    BY <1>3 DEF TypeOf
  <2>2. \E k \in 1 .. n : d[k] \in {46, 69, 101}
    <3>1. CASE s.at = "decimal2"
      <4>1. PICK i \in Nat : i < n /\ Mantissa(d, i, n)
        BY <3>1 DEF Shape
      <4>2. i + 1 \in 1 .. n /\ d[i + 1] = 46
        BY <1>1, <4>1 DEF Mantissa, IsFraction
      <4> QED
        BY <4>2
    <3>2. CASE s.at = "any2"
      <4>1. PICK i \in Nat, j \in Nat : HasExponent(d, i, j) /\ DigitsFrom(d, j) <= n
        BY <3>2 DEF Shape
      <4>2. j + 1 \in 1 .. n /\ d[j + 1] \in {69, 101}
        BY <1>1, <4>1 DEF HasExponent, DigitsFrom, Exponents
      <4> QED
        BY <4>2
    <3> QED
      BY <1>3, <3>1, <3>2
  <2> QED
    BY <1>1, <2>1, <2>2 DEF Converted, KindOf
<1> QED
    BY <1>2, <1>3 DEF MayEnd

LEMMA NumberGrows ==
    ASSUME NEW t \in Seq(Codes), NEW c \in Codes, NEW s, LexerOk(s), s.at \in NumberPlaces,
           NEW k \in Nat, InNumberFrom(t, s, k), To(s.at, c) # "none"
    PROVE  Phase(Append(t, c), scan_number(s, c))
<1> DEFINE u == Append(t, c)
           to == To(s.at, c)
           n == scan_number(s, c)
           d == s.token_buffer
           e == d \o <<c>>
<1>1. /\ u \in Seq(Codes) /\ Len(u) = Len(t) + 1 /\ Len(t) \in Nat /\ u[Len(t) + 1] = c
      /\ \A i \in 1 .. Len(t) : u[i] = t[i]
      /\ c \in Int /\ c \in Bytes /\ to \in NumberPlaces
    BY OneMoreRead, ToIs DEF Codes
<1>2. /\ Fields(s) /\ d \in Seq(Bytes) /\ BeginsAt(t, k) /\ t[k + 1] \in NumberStarts
      /\ d = SubSeq(t, k + 1, Len(t)) /\ Shape(s.at, d, Len(d)) /\ s.number_type = TypeOf(s)
      /\ k < Len(t)
    BY DEF LexerOk, Fields, InNumberFrom, BeginsAt
<1>3. BeginsAt(u, k) /\ u[k + 1] \in NumberStarts
    BY <1>2, BeginsStays
<1>4. /\ n.at = to /\ n.token_buffer = e
      /\ n.number_type = IF to \in {"decimal1", "exponent"} THEN "value_float" ELSE s.number_type
  <2> DEFINE r == Goes(s, to)
             kind == IF to \in {"decimal1", "exponent"} THEN "value_float" ELSE s.number_type
  <2>1. /\ Fields(r) /\ r.at = to /\ r.token_buffer = d /\ r.number_type = s.number_type
    BY <1>2, GoesIs
  <2>2. Adds(r, <<c>>).number_type = s.number_type
    BY <2>1, InitialIs DEF Adds, Fields
  <2>3. n = [Adds(r, <<c>>) EXCEPT !.number_type =
               IF to \in {"decimal1", "exponent"} THEN "value_float" ELSE @]
    BY <1>1, NumberGoes
  <2> HIDE DEF r, n, to
  <2>4. n = [Adds(r, <<c>>) EXCEPT !.number_type = kind]
    BY <2>1, <2>2, <2>3, InitialIs DEF Adds, Fields
  <2> HIDE DEF kind, d, e
  <2>5. PICK m : m = <<c>>
    OBVIOUS
  <2>6. n = [Adds(r, m) EXCEPT !.number_type = kind]
    BY <2>4, <2>5
  <2>7. n.at = r.at /\ n.token_buffer = r.token_buffer \o m /\ n.number_type = kind
    BY <2>1, <2>6, InitialIs DEF Adds, Fields
  <2> QED
    BY <2>1, <2>5, <2>7 DEF kind, e
<1>5. e \in Seq(Bytes) /\ Len(e) = Len(d) + 1 /\ e[Len(d) + 1] = c
      /\ \A i \in 1 .. Len(d) : e[i] = d[i]
  <2>1. d \in Seq(Bytes) /\ c \in Bytes
    BY <1>1, <1>2
  <2> HIDE DEF d
  <2> QED
    BY <2>1, OneMoreByte
<1>6. e = SubSeq(u, k + 1, Len(u))
  <2>1. SubSeq(u, k + 1, Len(t) + 1) = SubSeq(t, k + 1, Len(t)) \o <<c>>
    BY <1>2, SliceGrows
  <2> QED
    BY <1>1, <1>2, <2>1
<1>7. Shape(to, e, Len(e))
  <2>1. Shape(s.at, e, Len(d))
    BY <1>2, <1>5, ShapeStays
  <2> HIDE DEF e, d
  <2> QED
    BY <1>1, <1>5, <2>1, ShapeGrows, ToIs
<1>8. e[1] = d[1]
    BY <1>2, <1>5, ShapeLength
<1> HIDE DEF u, n, d, e
<1>9. n.number_type = TypeOf(n)
  <2>1. CASE to \in {"minus", "zero", "any1"}
    <3>1. s.at \in {"minus", "any1"}
      BY <2>1 DEF To
    <3> HIDE DEF to
    <3> QED
      BY <1>2, <1>4, <1>8, <2>1, <3>1 DEF TypeOf, d
  <2>2. CASE to \in {"decimal1", "exponent"}
    <3> HIDE DEF to
    <3> QED
      BY <1>4, <2>2 DEF TypeOf
  <2>3. CASE to \in {"decimal2", "sign", "any2"}
    <3>1. s.at \in {"decimal1", "decimal2", "exponent", "sign", "any2"}
      BY <2>3 DEF To
    <3> HIDE DEF to
    <3> QED
      BY <1>2, <1>4, <2>3, <3>1 DEF TypeOf
  <2> QED
    BY <1>1, <2>1, <2>2, <2>3 DEF NumberPlaces
<1> HIDE DEF to
<1>10. InNumberFrom(u, n, k)
    BY <1>3, <1>4, <1>6, <1>7, <1>9 DEF InNumberFrom
<1>11. Phase(u, n)
    BY <1>1, <1>4, <1>10, PhaseNumber
<1> QED
    BY <1>11 DEF u, n

LEMMA NumberEnds ==
    ASSUME NEW t \in Seq(Codes), NEW c \in Codes, NEW s, LexerOk(s), s.at \in NumberPlaces,
           NEW k \in Nat, InNumberFrom(t, s, k), To(s.at, c) = "none"
    PROVE  Phase(Append(t, c), scan_number(s, c))
<1> DEFINE u == Append(t, c)
           n == scan_number(s, c)
           d == s.token_buffer
           e == Append(d, c)
<1>1. /\ u \in Seq(Codes) /\ Len(u) = Len(t) + 1 /\ Len(t) \in Nat /\ u[Len(t) + 1] = c
      /\ \A i \in 1 .. Len(t) : u[i] = t[i]
      /\ c \in Int
    BY OneMoreRead DEF Codes
<1>2. /\ Fields(s) /\ d \in Seq(Bytes) /\ BeginsAt(t, k) /\ t[k + 1] \in NumberStarts
      /\ d = SubSeq(t, k + 1, Len(t)) /\ Shape(s.at, d, Len(d)) /\ s.number_type = TypeOf(s)
      /\ k < Len(t) /\ s.number_type \in Kinds
    BY DEF LexerOk, Fields, InNumberFrom, BeginsAt
<1>3. BeginsAt(u, k)
    BY <1>2, BeginsStays
<1>4. /\ SubSeq(u, k + 1, Len(u) - 1) = d /\ SubSeq(u, k + 1, Len(u)) = e
  <2>1. /\ SubSeq(u, k + 1, Len(t)) = SubSeq(t, k + 1, Len(t))
        /\ SubSeq(u, k + 1, Len(t) + 1) = SubSeq(t, k + 1, Len(t)) \o <<c>>
    BY <1>2, SliceGrows
  <2>2. e = d \o <<c>>
    BY <1>1, <1>2, OneMoreCode
  <2>3. Len(u) - 1 = Len(t)
    BY <1>1
  <2> HIDE DEF d, e, u
  <2> QED
    BY <1>1, <1>2, <2>1, <2>2, <2>3
<1>5. d \in Seq(Int) /\ e \in Seq(Int) /\ Len(e) = Len(d) + 1 /\ e[Len(d) + 1] = c
      /\ \A i \in 1 .. Len(d) : e[i] = d[i]
    BY <1>1, <1>2, OneMoreCode
<1>6. ~IsNumber(e)
  <2> HIDE DEF e, d
  <2>1. Len(d) \in Nat /\ Len(e) \in Nat /\ Len(d) < Len(e) /\ e[Len(d) + 1] = c
    BY <1>5, LenProperties
  <2>2. Shape(s.at, e, Len(d))
    BY <1>2, <1>5, ShapeStays
  <2> QED
    BY <2>1, <2>2, ShapeBlocks
<1>7. ~IsNumber(Append(e, 48))
  <2> DEFINE f == Append(e, 48)
  <2>1. Len(f) = Len(e) + 1 /\ \A i \in 1 .. Len(e) : f[i] = e[i]
    BY <1>5, AppendProperties
  <2>2. Len(d) \in Nat /\ Len(f) \in Nat /\ Len(d) < Len(f) /\ f[Len(d) + 1] = c
        /\ \A i \in 1 .. Len(d) : f[i] = d[i]
    BY <1>5, <2>1, LenProperties
  <2>3. Shape(s.at, f, Len(d))
    BY <1>2, <2>2, ShapeStays
  <2> HIDE DEF f, d
  <2>4. ~IsNumber(f)
    BY <2>2, <2>3, ShapeBlocks
  <2> QED
    BY <2>4 DEF f
<1>8. IsNumber(d) <=> s.at \in MayEnd
    BY <1>2, <1>5, ShapeWhole, LenProperties
<1>9. n = IF s.at \in MayEnd THEN Goes(s, Converted(s)) ELSE Fails(s)
    BY <1>1, NumberGoes
<1>10. /\ n.token_buffer = d
       /\ n.at = IF s.at \in MayEnd THEN Converted(s) ELSE "parse_error"
    BY <1>2, <1>9, GoesIs DEF Fails
<1>11. Converted(s) \in Kinds
    BY <1>2 DEF Converted, Kinds
<1>12. s.at \in MayEnd => Converted(s) = KindOf(d)
    BY <1>2, KindIs
<1> HIDE DEF u, n, d, e
<1>13. Resting(n)
    BY <1>10, <1>11 DEF Resting, Starting, Kinds, NumberPlaces
<1>14. \A m \in 0 .. Len(u) - 1 : PrefixOf(u, m) /\ u[m + 1] \in NumberStarts => m = k
    BY <1>1, <1>3, BeginsAlone
<1>15. Kinds \cap {"parse_error"} = {}
    BY DEF Kinds
<1>16. Result(u, n)
  <2> SUFFICES ASSUME NEW m \in 0 .. Len(u) - 1, PrefixOf(u, m), u[m + 1] \in NumberStarts
               PROVE  LET taken == SubSeq(u, m + 1, Len(u) - 1)
                          read  == SubSeq(u, m + 1, Len(u))
                      IN  /\ ~IsNumber(read) /\ ~IsNumber(Append(read, 48))
                          /\ IF n.at = "parse_error" THEN ~IsNumber(taken)
                             ELSE /\ IsNumber(taken) /\ n.token_buffer = taken
                                  /\ n.at = KindOf(taken)
    BY DEF Result
  <2>1. m = k
    BY <1>14
  <2>2. CASE s.at \in MayEnd
    BY <1>4, <1>6, <1>7, <1>8, <1>10, <1>11, <1>12, <1>15, <2>1, <2>2
  <2>3. CASE s.at \notin MayEnd
    BY <1>4, <1>6, <1>7, <1>8, <1>10, <2>1, <2>3
  <2> QED
    BY <2>2, <2>3
<1>17. Phase(u, n)
    BY <1>1, <1>13, <1>16, PhaseEnds
<1> QED
    BY <1>17 DEF u, n

LEMMA PhaseStep ==
    ASSUME NEW t, NEW s, Phase(t, s), LexerOk(s), Scanning(s), NEW c \in Codes
    PROVE  Phase(Append(t, c), get(s, c))
<1>1. t \in Seq(Codes) /\ Fields(s) /\ Append(t, c) \in Seq(Codes)
    BY OneMoreRead DEF Phase, LexerOk
<1>2. CASE s.at \in {"bom", "bom1", "bom2"}
    BY <1>2, MarkPhase
<1>3. CASE s.at = "token"
  <2>1. Len(t) > 0 /\ PrefixOf(t, Len(t)) /\ s.number_type = "value_unsigned"
    BY <1>3 DEF Phase, Starting
  <2>2. t # <<>>
    BY <2>1, EmptySeq
  <2>3. Fresh(s) /\ get(s, c) = scan(s, c)
    BY <1>3 DEF LexerOk, Starting, get
  <2> QED
    BY <1>1, <2>1, <2>2, <2>3, ScanPhase
<1>4. CASE s.at \in {"string", "literal"}
  <2>1. PICK k \in Nat : BeginsAt(t, k) /\ t[k + 1] \notin NumberStarts
    BY <1>4 DEF Phase
  <2>2. BeginsAt(Append(t, c), k) /\ Append(t, c)[k + 1] \notin NumberStarts
    BY <1>1, <2>1, BeginsStays
  <2>3. get(s, c).at \in {"string", "literal", "parse_error", "value_string"} \cup Kinds
    <3>1. CASE s.at = "string"
      <4>1. Goal(scan_string(s, c)) /\ get(s, c) = scan_string(s, c)
        BY <3>1, StringStep DEF LexerOk, get
      <4> QED
        BY <4>1 DEF Goal
    <3>2. CASE s.at = "literal"
      <4> DEFINE n == [s EXCEPT !.ranges = Tail(s.ranges),
                                !.at = IF Len(s.ranges) = 1 THEN s.number_type ELSE @]
      <4>1. get(s, c) = Fails(s) \/ get(s, c) = n
        BY <3>2 DEF get, scan_literal
      <4>2. n.at \in {"literal"} \cup Kinds
        BY <1>1, <3>2, InitialIs DEF Fields, LexerOk
      <4>3. Fails(s).at = "parse_error"
        BY <1>1, FailsIs
      <4> HIDE DEF n
      <4> QED
        BY <4>1, <4>2, <4>3
    <3> QED
      BY <1>4, <3>1, <3>2
  <2>4. get(s, c).at \in {"string", "literal"} \/ Resting(get(s, c))
    BY <2>3 DEF Resting, Kinds, Starting, NumberPlaces
  <2> QED
    BY <1>1, <2>2, <2>4, PhaseGoesOn
<1>5. CASE s.at \in NumberPlaces
  <2>1. PICK k \in Nat : InNumberFrom(t, s, k)
    BY <1>5 DEF Phase
  <2>2. get(s, c) = scan_number(s, c)
    BY <1>5 DEF get, NumberPlaces
  <2> QED
    BY <1>1, <1>5, <2>1, <2>2, NumberGrows, NumberEnds
<1> QED
    BY <1>2, <1>3, <1>4, <1>5, InNumberIs DEF Scanning

NumberInv == TextInv /\ Phase(text, lexer)

LEMMA ReadPhase ==
    ASSUME NumberInv, NEW kind, NEW characters, characters \subseteq Codes, NEW bound,
           Reads1(kind, characters, bound)
    PROVE  Phase(text, lexer)'
<1>1. PICK c \in characters : ReadCharacter(c, bound)
    BY DEF Reads1
<1>2. Scanning(lexer) /\ text' = Append(text, c) /\ lexer' = get(lexer, c) /\ c \in Codes
    BY <1>1 DEF ReadCharacter
<1>3. Phase(Append(text, c), get(lexer, c))
    BY <1>2, PhaseStep DEF NumberInv, TextInv
<1> QED
    BY <1>2, <1>3

(* A number is read exactly where the grammar has one and as far as it goes,   *)
(* with the kind its characters give it (scan_number, lines 7486-7802).        *)
THEOREM NumbersAreGrammatical == Spec => []NumbersAsInGrammar
<1>1. Init => NumberInv
  <2> SUFFICES ASSUME Init PROVE Phase(text, lexer)
    BY TextInit DEF NumberInv
  <2>1. text = <<>> /\ lexer.at = "bom" /\ lexer.number_type = "value_unsigned"
    BY DEF Init, LexerInit, Initial
  <2>2. text \in Seq(Codes) /\ Scanning(lexer)
    BY <2>1, EmptySeq DEF Scanning
  <2> QED
    BY <2>1, <2>2 DEF Phase, NumberPlaces
<1>2. NumberInv /\ [Next]_vars => NumberInv'
  <2> SUFFICES ASSUME NumberInv, [Next]_vars PROVE Phase(text, lexer)'
    BY TextStep DEF NumberInv
  <2>1. CASE ReadNumber
    BY <2>1, ReadPhase, CharactersIn DEF ReadNumber
  <2>2. CASE ReadString
    BY <2>2, ReadPhase, CharactersIn DEF ReadString
  <2>3. CASE ReadToken
    BY <2>3, ReadPhase, CharactersIn DEF ReadToken
  <2>4. CASE TakeByte \/ BeginDump \/ Dump \/ ParseToken \/ UNCHANGED vars
    <3>1. UNCHANGED <<text, lexer>>
      BY <2>4 DEF TakeByte, BeginDump, Dump, ParseToken, vars, lexerVars
    <3> QED
      BY <3>1 DEF NumberInv
  <2> QED
    BY <2>1, <2>2, <2>3, <2>4 DEF Next
<1>3. NumberInv => NumbersAsInGrammar
  <2>1. \A k : PrefixOf(text, k) <=> Precede(k)
    BY DEF PrefixOf, Precede
  <2> QED
    BY <2>1 DEF NumberInv, Phase, Result, NumbersAsInGrammar, NumberFrom, NumberStarts
<1> QED
    BY <1>1, <1>2, <1>3, PTL DEF Spec

-------------------------------------------------------------------------------
(* Folds, by induction in the form of a least counterexample.                  *)

NatLess == {rs \in Nat \X Nat : rs[1] < rs[2]}

LEMMA LeastNatural ==
    ASSUME NEW T, T \subseteq Nat, T # {}
    PROVE  \E m \in T : \A n \in T : m <= n
<1>1. IsWellFoundedOn(NatLess, Nat)
    BY NatLessThanWellFounded DEF OpToRel, NatLess
<1>2. \E m \in T : \A n \in T : <<n, m>> \notin NatLess
    BY <1>1, WFMin
<1>3. \E m \in T : \A n \in T : ~(n < m)
    BY <1>2 DEF NatLess
<1> QED
    BY <1>3

LEMMA GreatestOf ==
    ASSUME NEW n \in Nat, NEW S, S \subseteq 1 .. n, S # {}
    PROVE  Max(S) \in S /\ \A k \in S : k <= Max(S)
<1> DEFINE T == {m \in Nat : \A k \in S : k <= m}
<1>1. n \in T
    OBVIOUS
<1>2. PICK m \in T : \A k \in T : m <= k
    BY <1>1, LeastNatural
<1>3. m \in S
  <2>0. m \in Nat /\ \A k \in S : k <= m /\ k \in 1 .. n
    BY <1>2
  <2>1. m # 0
    <3>1. PICK k \in S : TRUE
      OBVIOUS
    <3> QED
      BY <2>0, <3>1
  <2>2. ASSUME m \notin S PROVE FALSE
    <3>1. m - 1 \in Nat /\ \A k \in S : k <= m - 1
        BY <2>0, <2>1, <2>2
    <3>2. m - 1 \in T
        BY <3>1
    <3> QED
        BY <2>0, <3>2, <1>2
  <2> QED
    BY <2>2
<1>4. m \in S /\ \A k \in S : m >= k
    BY <1>2, <1>3
<1>5. Max(S) \in S /\ \A k \in S : Max(S) >= k
    BY <1>4 DEF Max
<1> QED
    BY <1>5

LEMMA GreatestOfAll ==
    ASSUME NEW n \in Nat
    PROVE  Max(1 .. n + 1) = n + 1 /\ (1 .. n + 1) \ {n + 1} = 1 .. n /\ 1 .. n + 1 # {}
<1>1. 1 .. n + 1 # {} /\ n + 1 \in Nat /\ n + 1 \in 1 .. n + 1
    OBVIOUS
<1>2. Max(1 .. n + 1) \in 1 .. n + 1 /\ \A k \in 1 .. n + 1 : k <= Max(1 .. n + 1)
    BY <1>1, GreatestOf
<1> QED
    BY <1>1, <1>2

ScanStart == [Initial EXCEPT !.at = "string"]
ScanSteps(f, s) ==
    f = [S \in SUBSET DOMAIN s |->
            IF S = {} THEN ScanStart ELSE get(f[S \ {Max(S)}], s[Max(S)])]

LEMMA ScanRuns ==
    ASSUME NEW s, NEW n \in Nat, DOMAIN s = 1 .. n
    PROVE  \E f : ScanSteps(f, s)
<1> DEFINE Value(f, S) == IF S = {} THEN ScanStart ELSE get(f[S \ {Max(S)}], s[Max(S)])
           UpTo(f, m) == \A S \in SUBSET (1 .. m) : S \subseteq 1 .. n => f[S] = Value(f, S)
           T == {m \in Nat : \A f : ~UpTo(f, m)}
<1>1. 0 \notin T
  <2> DEFINE f == [S \in SUBSET (1 .. n) |-> ScanStart]
  <2>1. UpTo(f, 0)
    OBVIOUS
  <2> QED
    BY <2>1
<1>2. ASSUME NEW m \in Nat, m \notin T
      PROVE  m + 1 \notin T
  <2>1. PICK f : UpTo(f, m)
    BY <1>2
  <2> DEFINE g == [S \in SUBSET (1 .. n) |-> Value(f, S)]
  <2>2. ASSUME NEW S \in SUBSET (1 .. m + 1), S \subseteq 1 .. n
        PROVE  g[S] = Value(g, S)
    <3>1. CASE S = {}
      BY <3>1
    <3>2. CASE S # {}
      <4>1. Max(S) \in S /\ \A k \in S : k <= Max(S)
        BY <2>2, <3>2, GreatestOf
      <4> DEFINE R == S \ {Max(S)}
      <4>2. ASSUME NEW k \in R
            PROVE  k \in 1 .. m /\ k \in 1 .. n
        <5>1. k \in S /\ k # Max(S) /\ k <= Max(S) /\ Max(S) \in S
          BY <4>1
        <5> HIDE DEF R
        <5>2. k \in 1 .. m + 1 /\ Max(S) \in 1 .. m + 1 /\ k \in 1 .. n
          BY <2>2, <5>1
        <5> QED
          BY <5>1, <5>2
      <4>3. g[R] = f[R]
        BY <2>1, <4>2
      <4> HIDE DEF R
      <4>4. Value(g, S) = get(g[R], s[Max(S)]) /\ Value(f, S) = get(f[R], s[Max(S)])
        BY <3>2 DEF R
      <4> QED
        BY <2>2, <4>3, <4>4
    <3> QED
      BY <3>1, <3>2
  <2>3. UpTo(g, m + 1)
    BY <2>2
  <2> QED
    BY <2>3
<1>3. T = {}
  <2> SUFFICES ASSUME T # {} PROVE FALSE
    OBVIOUS
  <2>1. PICK m \in T : \A k \in T : m <= k
    <3>1. T \subseteq Nat
      OBVIOUS
    <3> HIDE DEF T
    <3> QED
      BY <3>1, LeastNatural
  <2> HIDE DEF T
  <2>2. m \in Nat /\ m # 0
    BY <1>1, <2>1 DEF T
  <2>3. m - 1 \in Nat /\ m - 1 \notin T /\ (m - 1) + 1 = m
    BY <2>1, <2>2
  <2> QED
    BY <1>2, <2>1, <2>3
<1>4. PICK f : UpTo(f, n)
    BY <1>3
<1> DEFINE g == [S \in SUBSET (1 .. n) |-> f[S]]
<1>5. ASSUME NEW S \in SUBSET (1 .. n)
      PROVE  g[S] = Value(g, S)
    BY <1>4
<1>6. g = [S \in SUBSET (1 .. n) |-> Value(g, S)]
    BY <1>5
<1> QED
    BY <1>6 DEF ScanSteps

LEMMA ScannedIs ==
    ASSUME NEW s, NEW n \in Nat, DOMAIN s = 1 .. n
    PROVE  \E f : ScanSteps(f, s) /\ Scanned(s) = f[DOMAIN s]
<1> DEFINE f == CHOOSE f : ScanSteps(f, s)
<1>1. ScanSteps(f, s)
    BY ScanRuns
<1>2. Scanned(s) = f[DOMAIN s]
    BY DEF Scanned, FoldLeft, MapThenFoldSet, ScanSteps, ScanStart
<1> QED
    BY <1>1, <1>2

LEMMA ScanStepAt ==
    ASSUME NEW s, NEW n \in Nat, DOMAIN s = 1 .. n, NEW f, ScanSteps(f, s), NEW k \in 0 .. n - 1
    PROVE  f[1 .. k + 1] = get(f[1 .. k], s[k + 1])
<1> DEFINE S == 1 .. k + 1
<1>0. k \in Nat /\ S \in SUBSET (1 .. n)
    OBVIOUS
<1>1. S \in SUBSET (1 .. n) /\ S # {} /\ Max(S) = k + 1 /\ S \ {Max(S)} = 1 .. k
    BY <1>0, GreatestOfAll
<1> HIDE DEF S
<1>2. f[S] = get(f[S \ {Max(S)}], s[Max(S)])
    BY <1>1 DEF ScanSteps
<1>3. f[S] = get(f[1 .. k], s[k + 1])
    BY <1>1, <1>2
<1> QED
    BY <1>3 DEF S

(* What has been scanned, scanned one character further.                       *)
LEMMA ScannedFurther ==
    ASSUME NEW Chars, NEW s \in Seq(Chars), NEW c \in Chars
    PROVE  Scanned(Append(s, c)) = get(Scanned(s), c)
<1> DEFINE n == Len(s)
           t == Append(s, c)
<1>1. /\ n \in Nat /\ DOMAIN s = 1 .. n /\ DOMAIN t = 1 .. n + 1 /\ t[n + 1] = c
      /\ \A k \in 1 .. n : t[k] = s[k]
    BY AppendProperties, LenProperties
<1> HIDE DEF n, t
<1>2. PICK f : ScanSteps(f, s) /\ Scanned(s) = f[1 .. n]
    BY <1>1, ScannedIs
<1>3. PICK g : ScanSteps(g, t) /\ Scanned(t) = g[1 .. n + 1]
    BY <1>1, ScannedIs
<1>4. ASSUME NEW k \in Nat, k < n
      PROVE  f[1 .. k + 1] = get(f[1 .. k], s[k + 1])
    BY <1>1, <1>2, <1>4, ScanStepAt
<1>5. ASSUME NEW k \in Nat, k <= n
      PROVE  g[1 .. k + 1] = get(g[1 .. k], t[k + 1])
    BY <1>1, <1>3, <1>5, ScanStepAt
<1>6. f[1 .. 0] = ScanStart /\ g[1 .. 0] = ScanStart
  <2>1. 1 .. 0 = {} /\ {} \in SUBSET (1 .. n) /\ {} \in SUBSET (1 .. n + 1)
    OBVIOUS
  <2> QED
    BY <1>1, <1>2, <1>3, <2>1 DEF ScanSteps
<1>7. \A k \in 0 .. n : f[1 .. k] = g[1 .. k]
  <2> DEFINE T == {k \in 0 .. n : f[1 .. k] # g[1 .. k]}
  <2> SUFFICES ASSUME T # {} PROVE FALSE
    OBVIOUS
  <2>1. PICK m \in T : \A k \in T : m <= k
    <3>1. T \subseteq Nat
      BY <1>1
    <3> HIDE DEF T
    <3> QED
      BY <3>1, LeastNatural
  <2>2. m \in 0 .. n /\ f[1 .. m] # g[1 .. m]
    BY <2>1
  <2>3. m # 0
    BY <1>6, <2>2
  <2>4. PICK k \in Nat : m = k + 1 /\ k < n
    <3>1. m - 1 \in Nat /\ m = (m - 1) + 1 /\ m - 1 < n
      BY <1>1, <2>2, <2>3
    <3> QED
      BY <3>1
  <2>5. k \notin T
    BY <2>1, <2>4
  <2>6. f[1 .. k] = g[1 .. k]
    BY <1>1, <2>4, <2>5
  <2> QED
    BY <1>1, <1>4, <1>5, <2>2, <2>4, <2>6
<1>8. g[1 .. n + 1] = get(f[1 .. n], c)
    BY <1>1, <1>5, <1>7
<1> QED
    BY <1>2, <1>3, <1>8 DEF t

LEMMA ScannedNothing == Scanned(<<>>) = ScanStart
<1>1. DOMAIN <<>> = 1 .. 0 /\ 1 .. 0 = {}
    OBVIOUS
<1>2. PICK f : ScanSteps(f, <<>>) /\ Scanned(<<>>) = f[{}]
    BY <1>1, ScannedIs
<1> QED
    BY <1>1, <1>2 DEF ScanSteps

AsciiSteps(f, s) ==
    f = [S \in SUBSET DOMAIN s |->
            IF S = {} THEN <<>> ELSE KeepsAscii(f[S \ {Max(S)}], s[Max(S)])]

LEMMA AsciiRuns ==
    ASSUME NEW s, NEW n \in Nat, DOMAIN s = 1 .. n
    PROVE  \E f : AsciiSteps(f, s)
<1> DEFINE Value(f, S) == IF S = {} THEN <<>> ELSE KeepsAscii(f[S \ {Max(S)}], s[Max(S)])
           UpTo(f, m) == \A S \in SUBSET (1 .. m) : S \subseteq 1 .. n => f[S] = Value(f, S)
           T == {m \in Nat : \A f : ~UpTo(f, m)}
<1>1. 0 \notin T
  <2> DEFINE f == [S \in SUBSET (1 .. n) |-> <<>>]
  <2>1. UpTo(f, 0)
    OBVIOUS
  <2> QED
    BY <2>1
<1>2. ASSUME NEW m \in Nat, m \notin T
      PROVE  m + 1 \notin T
  <2>1. PICK f : UpTo(f, m)
    BY <1>2
  <2> DEFINE g == [S \in SUBSET (1 .. n) |-> Value(f, S)]
  <2>2. ASSUME NEW S \in SUBSET (1 .. m + 1), S \subseteq 1 .. n
        PROVE  g[S] = Value(g, S)
    <3>1. CASE S = {}
      BY <3>1
    <3>2. CASE S # {}
      <4>1. Max(S) \in S /\ \A k \in S : k <= Max(S)
        BY <2>2, <3>2, GreatestOf
      <4> DEFINE R == S \ {Max(S)}
      <4>2. ASSUME NEW k \in R
            PROVE  k \in 1 .. m /\ k \in 1 .. n
        <5>1. k \in S /\ k # Max(S) /\ k <= Max(S) /\ Max(S) \in S
          BY <4>1
        <5> HIDE DEF R
        <5>2. k \in 1 .. m + 1 /\ Max(S) \in 1 .. m + 1 /\ k \in 1 .. n
          BY <2>2, <5>1
        <5> QED
          BY <5>1, <5>2
      <4>3. g[R] = f[R]
        BY <2>1, <4>2
      <4> HIDE DEF R
      <4>4. Value(g, S) = KeepsAscii(g[R], s[Max(S)]) /\ Value(f, S) = KeepsAscii(f[R], s[Max(S)])
        BY <3>2 DEF R
      <4> QED
        BY <2>2, <4>3, <4>4
    <3> QED
      BY <3>1, <3>2
  <2>3. UpTo(g, m + 1)
    BY <2>2
  <2> QED
    BY <2>3
<1>3. T = {}
  <2> SUFFICES ASSUME T # {} PROVE FALSE
    OBVIOUS
  <2>1. PICK m \in T : \A k \in T : m <= k
    <3>1. T \subseteq Nat
      OBVIOUS
    <3> HIDE DEF T
    <3> QED
      BY <3>1, LeastNatural
  <2> HIDE DEF T
  <2>2. m \in Nat /\ m # 0
    BY <1>1, <2>1 DEF T
  <2>3. m - 1 \in Nat /\ m - 1 \notin T /\ (m - 1) + 1 = m
    BY <2>1, <2>2
  <2> QED
    BY <1>2, <2>1, <2>3
<1>4. PICK f : UpTo(f, n)
    BY <1>3
<1> DEFINE g == [S \in SUBSET (1 .. n) |-> f[S]]
<1>5. ASSUME NEW S \in SUBSET (1 .. n)
      PROVE  g[S] = Value(g, S)
    BY <1>4
<1>6. g = [S \in SUBSET (1 .. n) |-> Value(g, S)]
    BY <1>5
<1> QED
    BY <1>6 DEF AsciiSteps

LEMMA AsciiIs ==
    ASSUME NEW s, NEW n \in Nat, DOMAIN s = 1 .. n
    PROVE  \E f : AsciiSteps(f, s) /\ Ascii(s) = f[DOMAIN s]
<1> DEFINE f == CHOOSE f : AsciiSteps(f, s)
<1>1. AsciiSteps(f, s)
    BY AsciiRuns
<1>2. Ascii(s) = f[DOMAIN s]
    BY DEF Ascii, FoldLeft, MapThenFoldSet, AsciiSteps
<1> QED
    BY <1>1, <1>2

LEMMA AsciiStepAt ==
    ASSUME NEW s, NEW n \in Nat, DOMAIN s = 1 .. n, NEW f, AsciiSteps(f, s), NEW k \in 0 .. n - 1
    PROVE  f[1 .. k + 1] = KeepsAscii(f[1 .. k], s[k + 1])
<1> DEFINE S == 1 .. k + 1
<1>0. k \in Nat /\ S \in SUBSET (1 .. n)
    OBVIOUS
<1>1. S \in SUBSET (1 .. n) /\ S # {} /\ Max(S) = k + 1 /\ S \ {Max(S)} = 1 .. k
    BY <1>0, GreatestOfAll
<1> HIDE DEF S
<1>2. f[S] = KeepsAscii(f[S \ {Max(S)}], s[Max(S)])
    BY <1>1 DEF AsciiSteps
<1>3. f[S] = KeepsAscii(f[1 .. k], s[k + 1])
    BY <1>1, <1>2
<1> QED
    BY <1>3 DEF S

(* The same for the letters of a string.                                       *)
LEMMA AsciiFurther ==
    ASSUME NEW Chars, NEW s \in Seq(Chars), NEW c \in Chars
    PROVE  Ascii(Append(s, c)) = KeepsAscii(Ascii(s), c)
<1> DEFINE n == Len(s)
           t == Append(s, c)
<1>1. /\ n \in Nat /\ DOMAIN s = 1 .. n /\ DOMAIN t = 1 .. n + 1 /\ t[n + 1] = c
      /\ \A k \in 1 .. n : t[k] = s[k]
    BY AppendProperties, LenProperties
<1> HIDE DEF n, t
<1>2. PICK f : AsciiSteps(f, s) /\ Ascii(s) = f[1 .. n]
    BY <1>1, AsciiIs
<1>3. PICK g : AsciiSteps(g, t) /\ Ascii(t) = g[1 .. n + 1]
    BY <1>1, AsciiIs
<1>4. ASSUME NEW k \in Nat, k < n
      PROVE  f[1 .. k + 1] = KeepsAscii(f[1 .. k], s[k + 1])
    BY <1>1, <1>2, <1>4, AsciiStepAt
<1>5. ASSUME NEW k \in Nat, k <= n
      PROVE  g[1 .. k + 1] = KeepsAscii(g[1 .. k], t[k + 1])
    BY <1>1, <1>3, <1>5, AsciiStepAt
<1>6. f[1 .. 0] = <<>> /\ g[1 .. 0] = <<>>
  <2>1. 1 .. 0 = {} /\ {} \in SUBSET (1 .. n) /\ {} \in SUBSET (1 .. n + 1)
    OBVIOUS
  <2> QED
    BY <1>1, <1>2, <1>3, <2>1 DEF AsciiSteps
<1>7. \A k \in 0 .. n : f[1 .. k] = g[1 .. k]
  <2> DEFINE T == {k \in 0 .. n : f[1 .. k] # g[1 .. k]}
  <2> SUFFICES ASSUME T # {} PROVE FALSE
    OBVIOUS
  <2>1. PICK m \in T : \A k \in T : m <= k
    <3>1. T \subseteq Nat
      BY <1>1
    <3> HIDE DEF T
    <3> QED
      BY <3>1, LeastNatural
  <2>2. m \in 0 .. n /\ f[1 .. m] # g[1 .. m]
    BY <2>1
  <2>3. m # 0
    BY <1>6, <2>2
  <2>4. PICK k \in Nat : m = k + 1 /\ k < n
    <3>1. m - 1 \in Nat /\ m = (m - 1) + 1 /\ m - 1 < n
      BY <1>1, <2>2, <2>3
    <3> QED
      BY <3>1
  <2>5. k \notin T
    BY <2>1, <2>4
  <2>6. f[1 .. k] = g[1 .. k]
    BY <1>1, <2>4, <2>5
  <2> QED
    BY <1>1, <1>4, <1>5, <2>2, <2>4, <2>6
<1>8. g[1 .. n + 1] = KeepsAscii(f[1 .. n], c)
    BY <1>1, <1>5, <1>7
<1> QED
    BY <1>2, <1>3, <1>8 DEF t

LEMMA AsciiNothing == Ascii(<<>>) = <<>>
<1>1. DOMAIN <<>> = 1 .. 0 /\ 1 .. 0 = {}
    OBVIOUS
<1>2. PICK f : AsciiSteps(f, <<>>) /\ Ascii(<<>>) = f[{}]
    BY <1>1, AsciiIs
<1> QED
    BY <1>1, <1>2 DEF AsciiSteps

-------------------------------------------------------------------------------
(* The code points that the decoder puts together.                             *)

LeadBits(b) == IF b <= 223 THEN b - 192 ELSE IF b <= 239 THEN b - 224 ELSE b - 240

LEMMA CodepointIs ==
    ASSUME NEW b \in Bytes, NEW cp
    PROVE  /\ b \in Single => Codepoint(0, cp, b) = b
           /\ b \in Leads => Codepoint(0, cp, b) = LeadBits(b)
           /\ \A state : state # 0 /\ IsTrail(b) /\ cp \in Nat => Codepoint(state, cp, b) = cp * 64 + b - 128
<1>1. b \in Int /\ 0 <= b /\ b <= 255
    BY DEF Bytes
<1>2. Codepoint(0, cp, b) = b % (2 ^ (8 - Min2(ByteType(b), 8)))
    BY DEF Codepoint
<1>3. CASE b \in Single
  <2>1. ByteType(b) = 0
    BY <1>1, <1>3 DEF ByteType, Single
  <2>2. 2 ^ (8 - Min2(ByteType(b), 8)) = 256
    BY <2>1 DEF Min2
  <2>3. b % 256 = b
    BY <1>1
  <2>4. b \notin Leads /\ ~IsTrail(b)
    BY <1>1, <1>3 DEF Single, Leads, ShortOfTwo, LeadOfThree, ShortOfFour, IsTrail
  <2> QED
    BY <1>2, <2>2, <2>3, <2>4
<1>4. CASE b \in Leads
  <2>1. 194 <= b /\ b <= 244 /\ b \notin Single /\ ~IsTrail(b)
    BY <1>1, <1>4 DEF Single, Leads, ShortOfTwo, LeadOfThree, ShortOfFour, IsTrail
  <2>2. ByteType(b) = IF b <= 223 THEN 2 ELSE IF b = 224 THEN 10 ELSE IF b = 237 THEN 4
                      ELSE IF b <= 239 THEN 3 ELSE IF b = 240 THEN 11 ELSE IF b <= 243 THEN 6
                      ELSE 5
    BY <1>1, <2>1 DEF ByteType
  <2> DEFINE m == 2 ^ (8 - Min2(ByteType(b), 8))
  <2>30. ByteType(b) = 2 => m = 64
    BY DEF Min2
  <2>31. ByteType(b) = 10 => m = 1
    BY DEF Min2
  <2>32. ByteType(b) = 4 => m = 16
    BY DEF Min2
  <2>33. ByteType(b) = 3 => m = 32
    BY DEF Min2
  <2>34. ByteType(b) = 11 => m = 1
    BY DEF Min2
  <2>35. ByteType(b) = 6 => m = 4
    BY DEF Min2
  <2>36. ByteType(b) = 5 => m = 8
    BY DEF Min2
  <2>5. m = IF b <= 223 THEN 64 ELSE IF b = 224 THEN 1
            ELSE IF b = 237 THEN 16 ELSE IF b <= 239 THEN 32 ELSE IF b = 240 THEN 1
            ELSE IF b <= 243 THEN 4 ELSE 8
    <3> HIDE DEF m
    <3> QED
        BY <2>2, <2>30, <2>31, <2>32, <2>33, <2>34, <2>35, <2>36
  <2> HIDE DEF m
  <2>6. b % m = LeadBits(b)
    <3>1. CASE b <= 223
      BY <1>1, <2>1, <2>5, <3>1 DEF LeadBits
    <3>2. CASE b = 224 \/ b = 240 \/ b = 237
      BY <2>5, <3>2 DEF LeadBits
    <3>3. CASE b > 224 /\ b <= 239 /\ b # 237
      BY <1>1, <2>5, <3>3 DEF LeadBits
    <3>4. CASE b > 240
      BY <1>1, <2>1, <2>5, <3>4 DEF LeadBits
    <3> QED
      BY <1>1, <3>1, <3>2, <3>3, <3>4
  <2> QED
    BY <1>2, <2>1, <2>6 DEF m
<1>5. ASSUME NEW state, state # 0, IsTrail(b), cp \in Nat
      PROVE  Codepoint(state, cp, b) = cp * 64 + b - 128
  <2>1. Codepoint(state, cp, b) = cp * 64 + (b % 64)
    BY <1>5 DEF Codepoint
  <2>2. b % 64 = b - 128 /\ cp * 64 \in Int
    BY <1>1, <1>5 DEF IsTrail
  <2> QED
    BY <1>1, <2>1, <2>2
<1> QED
    BY <1>3, <1>4, <1>5

(* The bytes of a character, from the number that they stand for.              *)
LEMMA TwoBack ==
    ASSUME NEW a \in ShortOfTwo, NEW b \in 128 .. 191
    PROVE  /\ ValueOfTwo(a, b) \in ScalarValues /\ ValueOfTwo(a, b) >= 128
           /\ InBytes(ValueOfTwo(a, b)) = <<a, b>>
<1> DEFINE v == ValueOfTwo(a, b)
<1>1. v \in Nat /\ 128 <= v /\ v <= 2047 /\ v = (a - 192) * 64 + (b - 128)
    BY SMT DEF ValueOfTwo, ShortOfTwo
<1>2. v \div 64 = a - 192 /\ v % 64 = b - 128
    BY <1>1, SMT DEF ShortOfTwo
<1> HIDE DEF v
<1>3. v \in ScalarValues
    BY <1>1, SurrogateIs, SMT DEF ScalarValues
<1>4. InBytes(v) = <<192 + v \div 64, 128 + (v % 64)>>
    BY <1>1, SMT DEF InBytes
<1>5. 192 + v \div 64 = a /\ 128 + (v % 64) = b
    BY <1>2, SMT DEF ShortOfTwo
<1> QED
    BY <1>1, <1>3, <1>4, <1>5 DEF v

LEMMA ThreeBack ==
    ASSUME NEW a \in LeadOfThree, NEW b \in 128 .. 191, NEW c \in 128 .. 191,
           b \in Takes(AfterLead(a))
    PROVE  /\ ValueOfThree(a, b, c) \in ScalarValues /\ ValueOfThree(a, b, c) >= 128
           /\ InBytes(ValueOfThree(a, b, c)) = <<a, b, c>>
<1> DEFINE v == ValueOfThree(a, b, c)
<1>1. v \in Int /\ v = (a - 224) * 4096 + (b - 128) * 64 + (c - 128)
    BY SMT DEF ValueOfThree, LeadOfThree
<1>2. v \in OfThree
    BY ThreeBytes
<1>3. v \div 4096 = a - 224 /\ (v \div 64) % 64 = b - 128 /\ v % 64 = c - 128
    BY <1>1, SMT DEF LeadOfThree
<1> HIDE DEF v
<1>4. v \in Nat /\ 2048 <= v /\ v <= 65535 /\ v \notin High \cup Low
    BY <1>1, <1>2, CodepointsIn, SurrogateIs, SMT
<1>5. v \in ScalarValues
    BY <1>4, SMT DEF ScalarValues
<1>6. InBytes(v) = <<224 + v \div 4096, 128 + ((v \div 64) % 64), 128 + (v % 64)>>
    BY <1>4, SMTT(20) DEF InBytes
<1>7. 224 + v \div 4096 = a /\ 128 + ((v \div 64) % 64) = b /\ 128 + (v % 64) = c
    BY <1>3, SMT DEF LeadOfThree
<1> QED
    BY <1>4, <1>5, <1>6, <1>7 DEF v

LEMMA FourBack ==
    ASSUME NEW a \in ShortOfFour, NEW b, NEW c, NEW d, IsTrail(b), IsTrail(c), IsTrail(d),
           b \in Takes(AfterLead(a))
    PROVE  /\ ValueOfFour(a, b, c, d) \in ScalarValues /\ ValueOfFour(a, b, c, d) >= 128
           /\ InBytes(ValueOfFour(a, b, c, d)) = <<a, b, c, d>>
<1>0. b \in 128 .. 191 /\ c \in 128 .. 191 /\ d \in 128 .. 191
    BY DEF IsTrail
<1> DEFINE v == ValueOfFour(a, b, c, d)
<1>1. v \in Int /\ v = (a - 240) * 262144 + (b - 128) * 4096 + (c - 128) * 64 + (d - 128)
    BY <1>0, SMT DEF ValueOfFour, ShortOfFour
<1>2. v \in OfFour
  <2>1. a \in LeadOfFour
    BY SMT DEF ShortOfFour, LeadOfFour
  <2>2. ValueOfFour(a, b, c, d) \in OfFour <=> a \in ShortOfFour /\ b \in Takes(AfterLead(a))
    BY <1>0, <2>1, FourBytes, Zenon
  <2> QED
    BY <2>2
<1>3. /\ v \div 262144 = a - 240 /\ (v \div 4096) % 64 = b - 128
      /\ (v \div 64) % 64 = c - 128 /\ v % 64 = d - 128
  <2>1. /\ a - 240 \in Nat /\ b - 128 \in 0 .. 63 /\ c - 128 \in 0 .. 63 /\ d - 128 \in 0 .. 63
        /\ v = (a - 240) * 262144 + (b - 128) * 4096 + (c - 128) * 64 + (d - 128)
    BY <1>0, <1>1, SMT DEF ShortOfFour
  <2> HIDE DEF v
  <2> DEFINE p == a - 240
             q == b - 128
             r == c - 128
             t == d - 128
  <2>3. p \in Nat /\ q \in 0 .. 63 /\ r \in 0 .. 63 /\ t \in 0 .. 63
        /\ v = p * 262144 + q * 4096 + r * 64 + t
    BY <2>1
  <2> HIDE DEF p, q, r, t
  <2>4. v % 64 = t /\ v \div 64 = p * 4096 + q * 64 + r
    BY <2>3, SMT
  <2>5. v \div 4096 = p * 64 + q
    BY <2>3, SMT
  <2>6. v \div 262144 = p
    BY <2>3, SMT
  <2>7. (p * 4096 + q * 64 + r) % 64 = r /\ (p * 64 + q) % 64 = q
    BY <2>3, SMT
  <2> QED
    BY <2>4, <2>5, <2>6, <2>7 DEF p, q, r, t
<1> HIDE DEF v
<1>4. v \in Nat /\ 65536 <= v /\ v <= 1114111 /\ v \notin High \cup Low
    BY <1>1, <1>2, CodepointsIn, SurrogateIs, SMT
<1>5. v \in ScalarValues
    BY <1>4, SMT DEF ScalarValues
<1>6. InBytes(v) = <<240 + v \div 262144, 128 + ((v \div 4096) % 64),
                     128 + ((v \div 64) % 64), 128 + (v % 64)>>
    BY <1>4, SMTT(20) DEF InBytes
<1>7. /\ 240 + v \div 262144 = a /\ 128 + ((v \div 4096) % 64) = b
      /\ 128 + ((v \div 64) % 64) = c /\ 128 + (v % 64) = d
    BY <1>0, <1>3, SMT DEF ShortOfFour
<1> QED
    BY <1>4, <1>5, <1>6, <1>7 DEF v

LEMMA SlicesAre ==
    ASSUME NEW s \in Seq(Bytes), NEW k \in 1 .. Len(s)
    PROVE  /\ SubSeq(s, k, k) = <<s[k]>>
           /\ k + 1 <= Len(s) => SubSeq(s, k, k + 1) = <<s[k], s[k + 1]>>
           /\ k + 2 <= Len(s) => SubSeq(s, k, k + 2) = <<s[k], s[k + 1], s[k + 2]>>
           /\ k + 3 <= Len(s) => SubSeq(s, k, k + 3) = <<s[k], s[k + 1], s[k + 2], s[k + 3]>>
<1>1. Len(s) \in Nat /\ k \in Nat \ {0} /\ k <= Len(s)
    BY LenProperties
<1>2. ASSUME NEW n \in 0 .. 3, k + n <= Len(s)
      PROVE  /\ SubSeq(s, k, k + n) \in Seq(Bytes) /\ Len(SubSeq(s, k, k + n)) = n + 1
             /\ \A j \in 1 .. n + 1 : SubSeq(s, k, k + n)[j] = s[k + j - 1]
  <2>1. \A j \in k .. k + n : s[j] \in Bytes
    BY <1>1, <1>2, ElementOfSeq
  <2> QED
    BY <1>1, <1>2, <2>1, SubSeqProperties
<1>3. \A t \in Seq(Bytes) :
        /\ Len(t) = 1 => t = <<t[1]>>
        /\ Len(t) = 2 => t = <<t[1], t[2]>>
        /\ Len(t) = 3 => t = <<t[1], t[2], t[3]>>
        /\ Len(t) = 4 => t = <<t[1], t[2], t[3], t[4]>>
    OBVIOUS
<1>4. SubSeq(s, k, k) = <<s[k]>>
  <2> DEFINE t == SubSeq(s, k, k + 0)
  <2>1. t \in Seq(Bytes) /\ Len(t) = 1 /\ t[1] = s[k] /\ k + 0 = k
    BY <1>1, <1>2
  <2> HIDE DEF t
  <2>2. t = <<s[k]>>
    BY <1>3, <2>1
  <2> QED
    BY <2>1, <2>2 DEF t
<1>5. ASSUME k + 1 <= Len(s)
      PROVE  SubSeq(s, k, k + 1) = <<s[k], s[k + 1]>>
  <2> DEFINE t == SubSeq(s, k, k + 1)
  <2>1. t \in Seq(Bytes) /\ Len(t) = 2 /\ t[1] = s[k] /\ t[2] = s[k + 1]
    BY <1>1, <1>2, <1>5
  <2> HIDE DEF t
  <2>2. t = <<s[k], s[k + 1]>>
    BY <1>3, <2>1
  <2> QED
    BY <2>2 DEF t
<1>6. ASSUME k + 2 <= Len(s)
      PROVE  SubSeq(s, k, k + 2) = <<s[k], s[k + 1], s[k + 2]>>
  <2> DEFINE t == SubSeq(s, k, k + 2)
  <2>1. t \in Seq(Bytes) /\ Len(t) = 3 /\ t[1] = s[k] /\ t[2] = s[k + 1] /\ t[3] = s[k + 2]
    BY <1>1, <1>2, <1>6
  <2> HIDE DEF t
  <2>2. t = <<s[k], s[k + 1], s[k + 2]>>
    BY <1>3, <2>1
  <2> QED
    BY <2>2 DEF t
<1>7. ASSUME k + 3 <= Len(s)
      PROVE  SubSeq(s, k, k + 3) = <<s[k], s[k + 1], s[k + 2], s[k + 3]>>
  <2> DEFINE t == SubSeq(s, k, k + 3)
  <2>1. /\ t \in Seq(Bytes) /\ Len(t) = 4
        /\ t[1] = s[k] /\ t[2] = s[k + 1] /\ t[3] = s[k + 2] /\ t[4] = s[k + 3]
    BY <1>1, <1>2, <1>7
  <2> HIDE DEF t
  <2>2. t = <<s[k], s[k + 1], s[k + 2], s[k + 3]>>
    BY <1>3, <2>1
  <2> QED
    BY <2>2 DEF t
<1> QED
    BY <1>4, <1>5, <1>6, <1>7

(* What the decoder has put together of a character, before its last byte.     *)
Partial(s, k, i) ==
    IF i = k + 1 THEN LeadBits(s[k])
    ELSE IF i = k + 2 THEN LeadBits(s[k]) * 64 + s[k + 1] - 128
    ELSE (LeadBits(s[k]) * 64 + s[k + 1] - 128) * 64 + s[k + 2] - 128

LEMMA LeadBitsIs ==
    ASSUME NEW b \in Leads
    PROVE  /\ LeadBits(b) \in Nat
           /\ b \in ShortOfTwo => LeadBits(b) = b - 192
           /\ b \in LeadOfThree => LeadBits(b) = b - 224
           /\ b \in ShortOfFour => LeadBits(b) = b - 240
<1>1. b \in 194 .. 223 \/ b \in 224 .. 239 \/ b \in 240 .. 247
    BY DEF Leads, ShortOfTwo, LeadOfThree, ShortOfFour
<1> QED
    BY <1>1 DEF LeadBits, ShortOfTwo, LeadOfThree, ShortOfFour

LEMMA PartialIs ==
    ASSUME NEW s \in Seq(Bytes), NEW k, NEW i, NEW state, Begun(s, k, i, state), i > k
    PROVE  Partial(s, k, i) \in Nat /\ state # 0 /\ LeadBits(s[k]) \in Nat
<1>1. /\ k \in Nat \ {0} /\ i \in Nat /\ i <= k + 3 /\ i <= Len(s) + 1 /\ Len(s) \in Nat
      /\ s[k] \in Leads /\ k \in 1 .. Len(s)
    BY LenProperties DEF Begun
<1>2. s[k] \in Bytes
    BY <1>1, ByteAt
<1>3. LeadBits(s[k]) \in Nat
    BY <1>1, LeadBitsIs
<1>4. state # 0
    BY <1>1, <1>2, LeadIs DEF Begun
<1>5. /\ i > k + 1 => s[k + 1] \in Int /\ 128 <= s[k + 1]
      /\ i > k + 2 => s[k + 2] \in Int /\ 128 <= s[k + 2]
  <2>1. \A j \in k + 1 .. i - 1 : s[j] \in 128 .. 191
    BY DEF Begun, IsTrail
  <2>2. /\ i > k + 1 => k + 1 \in k + 1 .. i - 1
        /\ i > k + 2 => k + 2 \in k + 1 .. i - 1
    BY <1>1
  <2>3. (i > k + 1 => s[k + 1] \in 128 .. 191) /\ (i > k + 2 => s[k + 2] \in 128 .. 191)
    BY <2>1, <2>2, Zenon
  <2>4. \A j : j \in 128 .. 191 => j \in Int /\ 128 <= j
    OBVIOUS
  <2> QED
    BY <2>3, <2>4, Zenon
<1> DEFINE a == LeadBits(s[k])
           b == s[k + 1]
           c == s[k + 2]
<1> HIDE DEF a, b, c
<1>6. Partial(s, k, i) = IF i = k + 1 THEN a ELSE IF i = k + 2 THEN a * 64 + b - 128
                         ELSE (a * 64 + b - 128) * 64 + c - 128
    BY DEF Partial, a, b, c
<1>7. a \in Nat /\ (i > k + 1 => b \in Int /\ 128 <= b) /\ (i > k + 2 => c \in Int /\ 128 <= c)
    BY <1>3, <1>5 DEF a, b, c
<1>8. Partial(s, k, i) \in Nat
    BY <1>1, <1>6, <1>7, SMT
<1> QED
    BY <1>3, <1>4, <1>8

LEMMA PartialStep ==
    ASSUME NEW s \in Seq(Bytes), NEW k, NEW i, NEW state, Begun(s, k, i, state), i <= Len(s),
           NEW cp, i > k => cp = Partial(s, k, i), decode(state, s[i]) \notin {0, 1}
    PROVE  Codepoint(state, cp, s[i]) = Partial(s, k, i + 1)
<1>1. Begun(s, k, i + 1, decode(state, s[i]))
    BY CharacterStep
<1>2. /\ k \in Nat \ {0} /\ i \in Nat /\ k <= i /\ i <= k + 3 /\ Len(s) \in Nat
      /\ i \in 1 .. Len(s) /\ i + 1 <= k + 3
    BY <1>1, LenProperties DEF Begun
<1>3. s[i] \in Bytes
    BY <1>2, ByteAt
<1>4. CASE i = k
  <2>1. s[k] \in Leads /\ state = 0
    BY <1>1, <1>2, <1>4 DEF Begun
  <2> QED
    BY <1>2, <1>3, <1>4, <2>1, CodepointIs DEF Partial
<1>5. CASE i > k
  <2>1. IsTrail(s[i])
    BY <1>1, <1>2, <1>5 DEF Begun
  <2>2. cp = Partial(s, k, i) /\ cp \in Nat /\ state # 0
    BY <1>5, PartialIs
  <2>3. Codepoint(state, cp, s[i]) = cp * 64 + s[i] - 128
    BY <1>3, <2>1, <2>2, CodepointIs
  <2>4. i = k + 1 \/ i = k + 2
    BY <1>2, <1>5
  <2> QED
    BY <1>2, <2>2, <2>3, <2>4 DEF Partial
<1> QED
    BY <1>2, <1>4, <1>5

LEMMA ByPlaces ==
    ASSUME NEW a \in Int, NEW b \in Int, NEW c \in Int, NEW d \in Int
    PROVE  /\ ValueOfThree(a, b, c) = ((a - 224) * 64 + b - 128) * 64 + c - 128
           /\ ValueOfFour(a, b, c, d) = (((a - 240) * 64 + b - 128) * 64 + c - 128) * 64 + d - 128
BY SMT DEF ValueOfThree, ValueOfFour

LEMMA SmallIs ==
    ASSUME NEW n \in 0 .. 127
    PROVE  n \in ScalarValues /\ InBytes(n) = <<n>> /\ n < 128
<1>1. n \in Nat /\ n \in Int /\ n <= 127 /\ n < 128
    OBVIOUS
<1>2. n \notin High \cup Low
    BY <1>1, SurrogateIs, SMT
<1> QED
    BY <1>1, <1>2, SMT DEF ScalarValues, InBytes

LEMMA BackAgain ==
    ASSUME NEW a, NEW b, NEW c, NEW d, IsTrail(b)
    PROVE  /\ a \in ShortOfTwo =>
                /\ ValueOfTwo(a, b) \in ScalarValues /\ ValueOfTwo(a, b) >= 128
                /\ InBytes(ValueOfTwo(a, b)) = <<a, b>>
           /\ a \in LeadOfThree /\ b \in Takes(AfterLead(a)) /\ IsTrail(c) =>
                /\ ValueOfThree(a, b, c) \in ScalarValues /\ ValueOfThree(a, b, c) >= 128
                /\ InBytes(ValueOfThree(a, b, c)) = <<a, b, c>>
           /\ a \in ShortOfFour /\ b \in Takes(AfterLead(a)) /\ IsTrail(c) /\ IsTrail(d) =>
                /\ ValueOfFour(a, b, c, d) \in ScalarValues /\ ValueOfFour(a, b, c, d) >= 128
                /\ InBytes(ValueOfFour(a, b, c, d)) = <<a, b, c, d>>
<1>1. b \in 128 .. 191
    BY DEF IsTrail
<1>2. ASSUME a \in ShortOfTwo
      PROVE  /\ ValueOfTwo(a, b) \in ScalarValues /\ ValueOfTwo(a, b) >= 128
             /\ InBytes(ValueOfTwo(a, b)) = <<a, b>>
    BY <1>1, <1>2, TwoBack
<1>3. ASSUME a \in LeadOfThree, b \in Takes(AfterLead(a)), IsTrail(c)
      PROVE  /\ ValueOfThree(a, b, c) \in ScalarValues /\ ValueOfThree(a, b, c) >= 128
             /\ InBytes(ValueOfThree(a, b, c)) = <<a, b, c>>
  <2>1. c \in 128 .. 191
    BY <1>3 DEF IsTrail
  <2> QED
    BY <1>1, <1>3, <2>1, ThreeBack
<1>4. ASSUME a \in ShortOfFour, b \in Takes(AfterLead(a)), IsTrail(c), IsTrail(d)
      PROVE  /\ ValueOfFour(a, b, c, d) \in ScalarValues /\ ValueOfFour(a, b, c, d) >= 128
             /\ InBytes(ValueOfFour(a, b, c, d)) = <<a, b, c, d>>
    BY <1>4, FourBack, Zenon
<1> QED
    BY <1>2, <1>3, <1>4

(* The number of a whole character is the one its bytes stand for.             *)
Making(s, k, i, state, cp) ==
    Begun(s, k, i, state) /\ i <= Len(s) /\ (i > k => cp = Partial(s, k, i))
ValueOf(s, k, i, n) ==
    /\ n \in ScalarValues /\ InBytes(n) = SubSeq(s, k, i)
    /\ i = k => n = s[i] /\ n < 128
    /\ i > k => n >= 128 /\ IsTrail(s[i])

LEMMA AcceptedValue ==
    ASSUME NEW s \in Seq(Bytes), NEW k, NEW i, NEW state, NEW cp, Making(s, k, i, state, cp),
           decode(state, s[i]) = 0
    PROVE  ValueOf(s, k, i, Codepoint(state, cp, s[i]))
<1> DEFINE n == Codepoint(state, cp, s[i])
<1> SUFFICES ValueOf(s, k, i, n)
    OBVIOUS
<1>9. Begun(s, k, i, state) /\ i <= Len(s) /\ (i > k => cp = Partial(s, k, i))
    BY DEF Making
<1>1. /\ k \in Nat \ {0} /\ i \in Nat /\ k <= i /\ i <= k + 3 /\ Len(s) \in Nat
      /\ k \in 1 .. Len(s) /\ i \in 1 .. Len(s)
    BY <1>9, LenProperties DEF Begun
<1>2. s[k] \in Bytes /\ s[i] \in Bytes
    BY <1>1, ByteAt
<1>3. /\ IsCharacter(s, k) /\ k + Length(s[k]) = i + 1 /\ ~IsTrail(s[k])
      /\ \A j \in k + 1 .. i : IsTrail(s[j])
    BY <1>9, CharacterStep
<1>4. \A j \in 1 .. Len(s) : s[j] \in Int
    BY ByteAt
<1>0. n = Codepoint(state, cp, s[i])
    OBVIOUS
<1> HIDE DEF n
<1>5. CASE i = k
  <2>1. s[k] \in Single /\ state = 0
    <3>1. state = 0
      BY <1>9, <1>1, <1>5 DEF Begun
    <3>2. AfterLead(s[k]) # 0
      BY <1>2, LeadIs
    <3> QED
      BY <1>2, <1>5, <3>1, <3>2, DecodeIs
  <2>2. n = s[k] /\ n \in 0 .. 127
    BY <1>0, <1>2, <1>5, <2>1, CodepointIs DEF Single
  <2>3. n \in ScalarValues /\ InBytes(n) = <<n>> /\ n < 128
    BY <2>2, SmallIs, Zenon
  <2>4. SubSeq(s, k, i) = <<s[k]>> /\ ~(i > k)
    BY <1>1, <1>5, SlicesAre
  <2> QED
    BY <1>5, <2>2, <2>3, <2>4, Zenon DEF ValueOf
<1>6. CASE i > k
  <2>0. s[k] \in Leads /\ cp = Partial(s, k, i) /\ cp \in Nat /\ state # 0 /\ IsTrail(s[i])
    <3>1. cp = Partial(s, k, i) /\ Partial(s, k, i) \in Nat /\ state # 0
      BY <1>9, <1>6, PartialIs
    <3>2. i \in k + 1 .. i
      BY <1>1, <1>6
    <3> QED
      BY <1>9, <1>3, <1>6, <3>1, <3>2 DEF Begun
  <2>1. n = cp * 64 + s[i] - 128
    BY <1>0, <1>2, <2>0, CodepointIs
  <2>2. s[k] \notin Single /\ Length(s[k]) = i + 1 - k
    BY <1>1, <1>2, <1>3, <2>0, LeadIs, LengthsAre
  <2>3. CASE i = k + 1
    <3>1. s[k] \in ShortOfTwo
      BY <1>1, <1>2, <2>0, <2>2, <2>3, LengthIs DEF Leads
    <3> DEFINE a == s[k]
               b == s[k + 1]
    <3>2. k + 1 \in k + 1 .. i
      BY <1>1, <2>3
    <3>3. k + 1 \in 1 .. Len(s)
      BY <1>1, <2>3
    <3>4. a \in ShortOfTwo /\ IsTrail(b)
      BY <1>3, <3>1, <3>2, Zenon
    <3>5. a \in Int /\ b \in Int
      BY <1>1, <1>4, <3>3, Zenon
    <3>6. s[i] = b /\ i = k + 1
      BY <2>3
    <3>7. SubSeq(s, k, i) = <<a, b>> /\ i # k
      BY <1>1, <2>3, SlicesAre
    <3>8. LeadBits(a) = a - 192
      BY <2>0, <3>4, LeadBitsIs
    <3>9. cp = LeadBits(a)
      BY <1>1, <2>0, <2>3 DEF Partial
    <3>10. n = cp * 64 + b - 128
      BY <2>1, <2>3
    <3> HIDE DEF a, b
    <3>11. n = ValueOfTwo(a, b)
      BY <3>5, <3>8, <3>9, <3>10, Zenon DEF ValueOfTwo
    <3>12. ValueOfTwo(a, b) \in ScalarValues /\ ValueOfTwo(a, b) >= 128 /\ InBytes(ValueOfTwo(a, b)) = <<a, b>>
      BY <3>4, BackAgain, Zenon
    <3> QED
      BY <2>0, <3>7, <3>11, <3>12, Zenon DEF ValueOf
  <2>4. CASE i = k + 2
    <3>1. s[k] \in LeadOfThree
      BY <1>1, <1>2, <2>0, <2>2, <2>4, LengthIs DEF Leads
    <3> DEFINE a == s[k]
               b == s[k + 1]
               c == s[k + 2]
    <3>2. k + 1 \in k + 1 .. i /\ k + 2 \in k + 1 .. i
      BY <1>1, <2>4
    <3>3. k + 1 \in 1 .. Len(s) /\ k + 2 \in 1 .. Len(s)
      BY <1>1, <2>4
    <3>4. a \in LeadOfThree /\ IsTrail(b) /\ IsTrail(c)
      BY <1>3, <3>1, <3>2, Zenon
    <3>5. a \in Int /\ b \in Int /\ c \in Int
      BY <1>1, <1>4, <3>3, Zenon
    <3>6. b \in Takes(AfterLead(a))
      BY <1>9, <1>1, <2>4 DEF Begun, SecondIn
    <3>7. SubSeq(s, k, i) = <<a, b, c>> /\ i # k
      BY <1>1, <2>4, SlicesAre
    <3>8. LeadBits(a) = a - 224
      BY <2>0, <3>4, LeadBitsIs
    <3>9. cp = LeadBits(a) * 64 + b - 128
      BY <1>1, <2>0, <2>4 DEF Partial
    <3>10. n = cp * 64 + c - 128
      BY <2>1, <2>4
    <3> HIDE DEF a, b, c
    <3>11. n = ValueOfThree(a, b, c)
      BY <3>5, <3>8, <3>9, <3>10, ByPlaces
    <3>12. ValueOfThree(a, b, c) \in ScalarValues /\ ValueOfThree(a, b, c) >= 128 /\ InBytes(ValueOfThree(a, b, c)) = <<a, b, c>>
      BY <3>4, <3>6, BackAgain, Zenon
    <3> QED
      BY <2>0, <3>7, <3>11, <3>12, Zenon DEF ValueOf
  <2>5. CASE i = k + 3
    <3>1. s[k] \in ShortOfFour
      BY <1>9, <1>1, <2>5 DEF Begun
    <3> DEFINE a == s[k]
               b == s[k + 1]
               c == s[k + 2]
               d == s[k + 3]
    <3>2. k + 1 \in k + 1 .. i /\ k + 2 \in k + 1 .. i /\ k + 3 \in k + 1 .. i
      BY <1>1, <2>5
    <3>3. k + 1 \in 1 .. Len(s) /\ k + 2 \in 1 .. Len(s) /\ k + 3 \in 1 .. Len(s)
      BY <1>1, <2>5
    <3>4. a \in ShortOfFour /\ IsTrail(b) /\ IsTrail(c) /\ IsTrail(d)
      BY <1>3, <3>1, <3>2, Zenon
    <3>5. a \in Int /\ b \in Int /\ c \in Int /\ d \in Int
      BY <1>1, <1>4, <3>3, Zenon
    <3>6. b \in Takes(AfterLead(a))
      BY <1>9, <1>1, <2>5 DEF Begun, SecondIn
    <3>7. SubSeq(s, k, i) = <<a, b, c, d>> /\ i # k
      BY <1>1, <2>5, SlicesAre
    <3>8. LeadBits(a) = a - 240
      BY <2>0, <3>4, LeadBitsIs
    <3>9. cp = (LeadBits(a) * 64 + b - 128) * 64 + c - 128
      BY <1>1, <2>0, <2>5 DEF Partial
    <3>10. n = cp * 64 + d - 128
      BY <2>1, <2>5
    <3> HIDE DEF a, b, c, d
    <3>11. n = ValueOfFour(a, b, c, d)
      BY <3>5, <3>8, <3>9, <3>10, ByPlaces
    <3>12. ValueOfFour(a, b, c, d) \in ScalarValues /\ ValueOfFour(a, b, c, d) >= 128 /\ InBytes(ValueOfFour(a, b, c, d)) = <<a, b, c, d>>
      BY <3>4, <3>6, BackAgain, Zenon
    <3> QED
      BY <2>0, <3>7, <3>11, <3>12, Zenon DEF ValueOf
  <2> QED
    BY <1>1, <1>6, <2>3, <2>4, <2>5
<1> QED
    BY <1>1, <1>5, <1>6

(* The letters of what is put together of two parts.                           *)
LEMMA ByteOfPart ==
    ASSUME NEW u \in Seq(Bytes), NEW t \in Seq(Bytes), NEW n \in Nat, n < Len(t)
    PROVE  /\ u \o SubSeq(t, 1, n) \in Seq(Bytes) /\ t[n + 1] \in Bytes
           /\ u \o SubSeq(t, 1, n + 1) = Append(u \o SubSeq(t, 1, n), t[n + 1])
<1>1. /\ Len(t) \in Nat /\ n + 1 \in 1 .. Len(t) /\ 1 \in 1 .. Len(t) /\ n + 1 \in 1 .. Len(t)
      /\ (n + 1) - 1 = n
    BY LenProperties
<1>2. SubSeq(t, 1, n + 1) = SubSeq(t, 1, (n + 1) - 1) \o <<t[n + 1]>>
    BY <1>1, SubSeqRecursiveSecond
<1>3. t[n + 1] \in Bytes
    BY <1>1, ElementOfSeq
<1>4. \A j \in 1 .. n : t[j] \in Bytes
    BY <1>1, ElementOfSeq
<1>5. SubSeq(t, 1, n) \in Seq(Bytes)
    BY <1>4, SubSeqProperties
<1>6. <<t[n + 1]>> \in Seq(Bytes)
    BY <1>3
<1>7. u \o SubSeq(t, 1, n + 1) = (u \o SubSeq(t, 1, n)) \o <<t[n + 1]>>
    BY <1>1, <1>2, <1>5, <1>6, ConcatAssociative
<1>8. u \o SubSeq(t, 1, n) \in Seq(Bytes)
    BY <1>5, ConcatProperties
<1> QED
    BY <1>3, <1>7, <1>8, AppendIsConcat

LEMMA WholeOfPart ==
    ASSUME NEW u \in Seq(Bytes), NEW t \in Seq(Bytes)
    PROVE  u \o SubSeq(t, 1, 0) = u /\ u \o SubSeq(t, 1, Len(t)) = u \o t
BY SubSeqEmpty, SubSeqFull, ConcatEmptySeq, LenProperties

LEMMA AsciiAlike ==
    ASSUME NEW u \in Seq(Bytes), NEW v \in Seq(Bytes), NEW t \in Seq(Bytes), Ascii(u) = Ascii(v)
    PROVE  Ascii(u \o t) = Ascii(v \o t)
<1> DEFINE T == {n \in 0 .. Len(t) : Ascii(u \o SubSeq(t, 1, n)) # Ascii(v \o SubSeq(t, 1, n))}
<1>1. Len(t) \in Nat
    BY LenProperties
<1>2. T = {}
  <2> SUFFICES ASSUME T # {} PROVE FALSE
    OBVIOUS
  <2>1. PICK m \in T : \A k \in T : m <= k
    <3>1. T \subseteq Nat
      BY <1>1
    <3> HIDE DEF T
    <3> QED
      BY <3>1, LeastNatural
  <2>2. m \in 0 .. Len(t) /\ Ascii(u \o SubSeq(t, 1, m)) # Ascii(v \o SubSeq(t, 1, m))
    BY <2>1
  <2>3. m # 0
    BY <2>2, WholeOfPart
  <2>4. PICK k \in Nat : m = k + 1 /\ k < Len(t)
    <3>1. m - 1 \in Nat /\ m = (m - 1) + 1 /\ m - 1 < Len(t)
      BY <1>1, <2>2, <2>3
    <3> QED
      BY <3>1
  <2>5. k \notin T /\ k \in 0 .. Len(t)
    BY <1>1, <2>1, <2>4
  <2>6. Ascii(u \o SubSeq(t, 1, k)) = Ascii(v \o SubSeq(t, 1, k))
    BY <2>5
  <2> HIDE DEF T
  <2>7. /\ u \o SubSeq(t, 1, k) \in Seq(Bytes) /\ v \o SubSeq(t, 1, k) \in Seq(Bytes)
        /\ t[k + 1] \in Bytes
        /\ u \o SubSeq(t, 1, m) = Append(u \o SubSeq(t, 1, k), t[k + 1])
        /\ v \o SubSeq(t, 1, m) = Append(v \o SubSeq(t, 1, k), t[k + 1])
    BY <2>4, ByteOfPart
  <2>8. /\ Ascii(u \o SubSeq(t, 1, m)) = KeepsAscii(Ascii(u \o SubSeq(t, 1, k)), t[k + 1])
        /\ Ascii(v \o SubSeq(t, 1, m)) = KeepsAscii(Ascii(v \o SubSeq(t, 1, k)), t[k + 1])
    BY <2>7, AsciiFurther
  <2> QED
    BY <2>2, <2>6, <2>8
<1>3. Ascii(u \o SubSeq(t, 1, Len(t))) = Ascii(v \o SubSeq(t, 1, Len(t)))
    BY <1>1, <1>2
<1> QED
    BY <1>3, WholeOfPart

NoLetter(t) == \A j \in 1 .. Len(t) : t[j] >= 128

LEMMA AsciiSkips ==
    ASSUME NEW u \in Seq(Bytes), NEW t \in Seq(Bytes), NoLetter(t)
    PROVE  Ascii(u \o t) = Ascii(u)
<1> DEFINE T == {n \in 0 .. Len(t) : Ascii(u \o SubSeq(t, 1, n)) # Ascii(u)}
<1>1. Len(t) \in Nat
    BY LenProperties
<1>2. T = {}
  <2> SUFFICES ASSUME T # {} PROVE FALSE
    OBVIOUS
  <2>1. PICK m \in T : \A k \in T : m <= k
    <3>1. T \subseteq Nat
      BY <1>1
    <3> HIDE DEF T
    <3> QED
      BY <3>1, LeastNatural
  <2>2. m \in 0 .. Len(t) /\ Ascii(u \o SubSeq(t, 1, m)) # Ascii(u)
    BY <2>1
  <2>3. m # 0
    BY <2>2, WholeOfPart
  <2>4. PICK k \in Nat : m = k + 1 /\ k < Len(t)
    <3>1. m - 1 \in Nat /\ m = (m - 1) + 1 /\ m - 1 < Len(t)
      BY <1>1, <2>2, <2>3
    <3> QED
      BY <3>1
  <2>5. k \notin T /\ k \in 0 .. Len(t)
    BY <1>1, <2>1, <2>4
  <2>6. Ascii(u \o SubSeq(t, 1, k)) = Ascii(u)
    BY <2>5
  <2> HIDE DEF T
  <2>7. /\ u \o SubSeq(t, 1, k) \in Seq(Bytes) /\ t[k + 1] \in Bytes
        /\ u \o SubSeq(t, 1, m) = Append(u \o SubSeq(t, 1, k), t[k + 1])
    BY <2>4, ByteOfPart
  <2>8. Ascii(u \o SubSeq(t, 1, m)) = KeepsAscii(Ascii(u \o SubSeq(t, 1, k)), t[k + 1])
    BY <2>7, AsciiFurther
  <2>9. ~(t[k + 1] < 128)
    <3>1. k + 1 \in 1 .. Len(t) /\ t[k + 1] \in Int
      BY <1>1, <2>4, ByteAt
    <3>2. t[k + 1] >= 128
      BY <3>1 DEF NoLetter
    <3> QED
      BY <3>1, <3>2
  <2> QED
    BY <2>2, <2>6, <2>8, <2>9 DEF KeepsAscii
<1>3. Ascii(u \o SubSeq(t, 1, Len(t))) = Ascii(u)
    BY <1>1, <1>2
<1> QED
    BY <1>3, WholeOfPart

(* What the lexer has made of o: the bytes w, with the decoder's state for the *)
(* character in the making.                                                    *)
ReadAs(s, w, state) ==
    /\ StringOk(s) /\ s.at = "string" /\ s.codepoint1 = 0
    /\ s.token_buffer = w /\ s.ranges = Lacks(state)
Reads(o, w, state) == o \in Seq(Codes) /\ ReadAs(Scanned(o), w, state)

LEMMA CodesOf ==
    /\ Bytes \subseteq Codes /\ \A n \in Units : U(n) \in Codes
    /\ \A e \in 0 .. 255 : Esc(e) \in Codes
BY SMT DEF Bytes, Codes, Units, U, Esc, eof

(* Some more codes, and where they take the scanner.                           *)
LEMMA ReadsOn ==
    ASSUME NEW o, NEW w, NEW state, Reads(o, w, state), NEW c \in Codes
    PROVE  /\ Append(o, c) \in Seq(Codes)
           /\ Scanned(Append(o, c)) = scan_string(Scanned(o), c)
           /\ Goal(scan_string(Scanned(o), c))
<1>1. /\ o \in Seq(Codes) /\ StringOk(Scanned(o)) /\ Scanned(o).at = "string"
    BY DEF Reads, ReadAs
<1>2. Append(o, c) \in Seq(Codes)
    BY <1>1, AppendProperties
<1>3. Scanned(Append(o, c)) = get(Scanned(o), c)
    BY <1>1, ScannedFurther
<1>4. get(Scanned(o), c) = scan_string(Scanned(o), c)
    BY <1>1 DEF get
<1> QED
    BY <1>1, <1>2, <1>3, <1>4, StringStep

LEMMA ReadsByOne ==
    ASSUME NEW o, NEW w, NEW state, Reads(o, w, state), NEW c \in Codes, NEW t, NEW next,
           LET n == scan_string(Scanned(o), c)
           IN  n.at = "string" /\ n.codepoint1 = 0 /\ n.token_buffer = w \o t /\ n.ranges = Lacks(next)
    PROVE  Reads(Append(o, c), w \o t, next)
<1> DEFINE n == scan_string(Scanned(o), c)
<1>1. Append(o, c) \in Seq(Codes) /\ Scanned(Append(o, c)) = n /\ Goal(n)
    BY ReadsOn
<1>2. n.at = "string" /\ n.codepoint1 = 0 /\ n.token_buffer = w \o t /\ n.ranges = Lacks(next)
    OBVIOUS
<1> HIDE DEF n
<1>3. StringOk(n)
    BY <1>1, <1>2 DEF Goal
<1> QED
    BY <1>1, <1>2, <1>3 DEF Reads, ReadAs

LEMMA ReadsNothing == Reads(<<>>, <<>>, 0)
<1>1. <<>> \in Seq(Codes) /\ <<>> \in Seq(Bytes) /\ Scanned(<<>>) = ScanStart
    BY EmptySeq, ScannedNothing
<1> DEFINE s == ScanStart
<1>2. /\ DOMAIN s = DOMAIN Initial /\ s.at = "string" /\ s.codepoint1 = 0
      /\ s.token_buffer = <<>> /\ s.ranges = <<>>
    BY DEF ScanStart, Initial
<1> HIDE DEF s
<1>3. WholeTo(<<>>, 1) /\ Begun(<<>>, 1, 1, 0) /\ Lacks(0) = <<>> /\ Len(<<>>) = 0
    BY EmptySeq DEF WholeTo, Begun, Lacks
<1>4. ScannedTo(s, 1, 0)
    BY <1>2, <1>3 DEF ScannedTo
<1>5. StringOk(s)
    BY <1>1, <1>2, <1>4 DEF StringOk, Fields, States
<1>6. ReadAs(s, <<>>, 0)
    BY <1>2, <1>3, <1>5 DEF ReadAs
<1> QED
    BY <1>1, <1>6 DEF Reads, s

(* Of the scanner at rest, what each kind of code adds.                        *)
LEMMA AddsTo ==
    ASSUME NEW s, NEW w, ReadAs(s, w, 0), NEW t
    PROVE  LET n == Adds(s, t)
           IN  n.at = "string" /\ n.codepoint1 = 0 /\ n.token_buffer = w \o t /\ n.ranges = Lacks(0)
BY InitialIs DEF ReadAs, StringOk, Fields, Adds

LEMMA NoUnit == \A c \in Bytes : ~(c >= U(0))
BY SMT DEF Bytes, U

LEMMA NoEscape == \A c \in Bytes : c \notin {Esc(e) : e \in DOMAIN Escaped}
<1>1. DOMAIN Escaped = {34, 92, 47, 98, 102, 110, 114, 116}
    BY DEF Escaped
<1> QED
    BY <1>1, SMT DEF Bytes, Esc

LEMMA ReadsPlain ==
    ASSUME NEW o, NEW w, Reads(o, w, 0), NEW c \in Plain, c # Quote
    PROVE  Reads(Append(o, c), w \o <<c>>, 0)
<1>1. c \in Bytes
    BY DEF Plain, Bytes
<1>2. c \in Codes /\ ~(c >= U(0)) /\ c \notin {Esc(e) : e \in DOMAIN Escaped}
    BY <1>1, CodesOf, NoUnit, NoEscape
<1> DEFINE s == Scanned(o)
<1>3. ReadAs(s, w, 0)
    BY DEF Reads
<1> HIDE DEF s
<1>4. s.ranges = <<>> /\ s.codepoint1 = 0
    BY <1>3 DEF ReadAs, Lacks
<1>5. scan_string(s, c) = Adds(s, <<c>>)
    BY <1>2, <1>4 DEF scan_string
<1> QED
    BY <1>2, <1>3, <1>5, AddsTo, ReadsByOne DEF s

LEMMA LettersAre ==
    \A v \in {8, 9, 10, 12, 13, 34, 92} :
        Letter(v) \in DOMAIN Escaped /\ Escaped[Letter(v)] = v
<1>1. DOMAIN Escaped = {34, 92, 47, 98, 102, 110, 114, 116}
    BY DEF Escaped
<1>2. /\ Escaped[98] = 8 /\ Escaped[116] = 9 /\ Escaped[110] = 10 /\ Escaped[102] = 12
      /\ Escaped[114] = 13 /\ Escaped[34] = 34 /\ Escaped[92] = 92
    BY DEF Escaped
<1>3. \A v \in {8, 9, 10, 12, 13, 34, 92} : \E e \in DOMAIN Escaped : Escaped[e] = v
    BY <1>1, <1>2
<1> QED
    BY <1>3 DEF Letter

LEMMA ReadsEscape ==
    ASSUME NEW o, NEW w, Reads(o, w, 0), NEW v \in {8, 9, 10, 12, 13, 34, 92}
    PROVE  Reads(Append(o, Esc(Letter(v))), w \o <<v>>, 0)
<1> DEFINE e == Letter(v)
           c == Esc(e)
           s == Scanned(o)
<1>1. e \in DOMAIN Escaped /\ Escaped[e] = v
    BY LettersAre
<1>2. DOMAIN Escaped = {34, 92, 47, 98, 102, 110, 114, 116}
    BY DEF Escaped
<1>3. ReadAs(s, w, 0)
    BY DEF Reads
<1> HIDE DEF e, s
<1>4. s.ranges = <<>> /\ s.codepoint1 = 0
    BY <1>3 DEF ReadAs, Lacks
<1>5. e \in Int /\ 34 <= e /\ e <= 116 /\ e \in 0 .. 255
    BY <1>1, <1>2
<1>6. c - 256 = e /\ ~(c >= U(0)) /\ c # Quote
    BY <1>5 DEF Esc, U, Quote
<1>7. c \in {Esc(x) : x \in DOMAIN Escaped} /\ c \in Codes
    BY <1>1, <1>5, CodesOf
<1> HIDE DEF c
<1>8. scan_string(s, c) = Adds(s, <<v>>)
    BY <1>1, <1>4, <1>6, <1>7 DEF scan_string
<1> DEFINE t == <<v>>
<1> HIDE DEF t
<1>9. Reads(Append(o, c), w \o t, 0)
  <2> DEFINE n == scan_string(s, c)
  <2>1. n = Adds(s, t)
    BY <1>8 DEF t
  <2> HIDE DEF n
  <2>2. n.at = "string" /\ n.codepoint1 = 0 /\ n.token_buffer = w \o t /\ n.ranges = Lacks(0)
    <3>1. /\ Adds(s, t).at = "string" /\ Adds(s, t).codepoint1 = 0
          /\ Adds(s, t).token_buffer = w \o t /\ Adds(s, t).ranges = Lacks(0)
      BY ONLY <1>3, AddsTo
    <3> QED
      BY ONLY <2>1, <3>1
  <2> QED
    BY <1>7, <2>2, ReadsByOne DEF s, n
<1> QED
    BY <1>9 DEF c, e, t

LEMMA UnitCode ==
    ASSUME NEW cp \in Units
    PROVE  U(cp) \in Codes /\ U(cp) >= U(0) /\ U(cp) - U(0) = cp
BY SMT DEF Units, U, Codes, eof

LEMMA ReadsUnit ==
    ASSUME NEW o, NEW w, Reads(o, w, 0), NEW cp \in Units, cp \notin High, cp \notin Low
    PROVE  Reads(Append(o, U(cp)), w \o InBytes(cp), 0)
<1> DEFINE s == Scanned(o)
           c == U(cp)
<1>1. c \in Codes /\ c >= U(0) /\ c - U(0) = cp
    BY UnitCode
<1>2. ReadAs(s, w, 0)
    BY DEF Reads
<1> HIDE DEF s, c
<1>3. s.ranges = <<>> /\ s.codepoint1 = 0
    BY <1>2 DEF ReadAs, Lacks
<1>4. scan_string(s, c) = Adds(s, InBytes(cp))
    BY <1>1, <1>3 DEF scan_string, UnicodeEscape
<1> QED
    BY <1>1, <1>2, <1>4, AddsTo, ReadsByOne DEF s, c

(* A surrogate pair: between its two units the scanner keeps the first.        *)
LEMMA ReadsPair ==
    ASSUME NEW o, NEW w, Reads(o, w, 0), NEW high \in High, NEW low \in Low
    PROVE  Reads(Append(Append(o, U(high)), U(low)), w \o InBytes(Pair(high, low)), 0)
<1> DEFINE s == Scanned(o)
           c == U(high)
           d == U(low)
           m == scan_string(s, c)
<1>0. high \in Units /\ low \in Units /\ high # 0
    BY SMT DEF Units, High, Low
<1>1. /\ c \in Codes /\ c >= U(0) /\ c - U(0) = high
      /\ d \in Codes /\ d >= U(0) /\ d - U(0) = low
    BY <1>0, UnitCode
<1>2. ReadAs(s, w, 0)
    BY DEF Reads
<1>3. Append(o, c) \in Seq(Codes) /\ Scanned(Append(o, c)) = m /\ Goal(m)
    BY <1>1, ReadsOn
<1> HIDE DEF s, c, d
<1>4. s.ranges = <<>> /\ s.codepoint1 = 0 /\ s.at = "string" /\ s.token_buffer = w
      /\ DOMAIN s = DOMAIN Initial
    BY <1>2 DEF ReadAs, Lacks, StringOk, Fields
<1>5. m = [s EXCEPT !.codepoint1 = high]
    BY <1>1, <1>4 DEF scan_string, UnicodeEscape
<1>6. /\ DOMAIN m = DOMAIN Initial /\ m.ranges = <<>> /\ m.codepoint1 = high
      /\ m.at = "string" /\ m.token_buffer = w
    BY <1>4, <1>5, InitialIs
<1> HIDE DEF m
<1>7. StringOk(m)
    BY <1>3, <1>6 DEF Goal
<1> DEFINE n == scan_string(m, d)
           p == Append(Append(o, c), d)
<1>8. p \in Seq(Codes)
    BY <1>1, <1>3, AppendProperties
<1>9. Scanned(p) = n
  <2>1. Scanned(p) = get(Scanned(Append(o, c)), d)
    BY <1>1, <1>3, ScannedFurther
  <2> QED
    BY <1>3, <1>6, <2>1 DEF get
<1>10. Goal(n)
    BY <1>1, <1>6, <1>7, StringStep
<1>11. n = Adds([m EXCEPT !.codepoint1 = 0], InBytes(Pair(high, low)))
    BY <1>0, <1>1, <1>6 DEF scan_string, UnicodeEscape
<1> DEFINE t == InBytes(Pair(high, low))
<1> HIDE DEF t
<1>12. /\ n.ranges = <<>> /\ n.codepoint1 = 0 /\ n.at = "string" /\ n.token_buffer = w \o t
    BY <1>6, <1>11, InitialIs DEF Adds, t
<1> HIDE DEF n, p
<1>13. ReadAs(n, w \o t, 0)
    BY <1>10, <1>12 DEF Goal, ReadAs, Lacks
<1>14. Reads(p, w \o t, 0)
    BY <1>8, <1>9, <1>13 DEF Reads
<1> QED
    BY <1>14 DEF p, c, d, t

(* The bytes of a character as they are: the first, and the others.            *)
LEMMA LeadsHave ==
    ASSUME NEW c \in Leads
    PROVE  /\ \E q \in Sequences : c \in q[1]
           /\ c \in Bytes /\ c \in Int /\ c \notin Plain /\ c # Quote
<1>1. c \in 194 .. 223 \/ c \in 224 .. 239 \/ c \in 240 .. 244
    BY DEF Leads, ShortOfTwo, LeadOfThree, ShortOfFour
<1>2. c \in Bytes /\ c \in Int /\ c \notin Plain /\ c # Quote
    BY <1>1 DEF Bytes, Plain, Quote
<1>3. \/ c \in 194 .. 223 \/ c \in {224} \/ c \in (225 .. 236) \cup {238, 239}
      \/ c \in {237} \/ c \in {240} \/ c \in 241 .. 243 \/ c \in {244}
    BY <1>1
<1>4. /\ <<194 .. 223, <<Tail80>>>> \in Sequences
      /\ <<{224}, << <<160, 191>>, Tail80>>>> \in Sequences
      /\ <<(225 .. 236) \cup {238, 239}, <<Tail80, Tail80>>>> \in Sequences
      /\ <<{237}, <<TailED, Tail80>>>> \in Sequences
      /\ <<{240}, << <<144, 191>>, Tail80, Tail80>>>> \in Sequences
      /\ <<241 .. 243, <<Tail80, Tail80, Tail80>>>> \in Sequences
      /\ <<{244}, << <<128, 143>>, Tail80, Tail80>>>> \in Sequences
    BY DEF Sequences
<1>5. \A a, b : <<a, b>>[1] = a
    OBVIOUS
<1>6. \A a, b : <<a, b>> \in Sequences /\ c \in a => \E q \in Sequences : c \in q[1]
    BY <1>5
<1>7. \E q \in Sequences : c \in q[1]
    BY <1>3, <1>4, <1>6
<1> QED
    BY <1>2, <1>7

LEMMA ReadsLead ==
    ASSUME NEW o, NEW w, Reads(o, w, 0), NEW c \in Leads
    PROVE  Reads(Append(o, c), w \o <<c>>, AfterLead(c))
<1>1. /\ \E q \in Sequences : c \in q[1]
      /\ c \in Bytes /\ c \in Int /\ c \notin Plain /\ c # Quote
    BY LeadsHave
<1>2. c \in Codes /\ ~(c >= U(0)) /\ c \notin {Esc(e) : e \in DOMAIN Escaped}
    BY <1>1, CodesOf, NoUnit, NoEscape
<1> DEFINE s == Scanned(o)
           r == (CHOOSE q \in Sequences : c \in q[1])[2]
           n == [Adds(s, <<c>>) EXCEPT !.ranges = r]
<1>3. ReadAs(s, w, 0)
    BY DEF Reads
<1> HIDE DEF s
<1>4. s.ranges = <<>> /\ s.codepoint1 = 0
    BY <1>3 DEF ReadAs, Lacks
<1>5. scan_string(s, c) = n
    BY <1>1, <1>2, <1>4 DEF scan_string
<1>6. r = Lacks(AfterLead(c))
    BY <1>1, LeadsIn
<1> HIDE DEF r
<1>7. n.at = "string" /\ n.codepoint1 = 0 /\ n.token_buffer = w \o <<c>> /\ n.ranges = r
    BY <1>3, InitialIs DEF ReadAs, StringOk, Fields, Adds
<1> HIDE DEF n
<1> QED
    BY <1>2, <1>5, <1>6, <1>7, ReadsByOne DEF s

LEMMA ReadsTrail ==
    ASSUME NEW o, NEW w, NEW state \in 2 .. 8, Reads(o, w, state), NEW c \in Takes(state)
    PROVE  Reads(Append(o, c), w \o <<c>>, Fewer(state))
<1>1. c \in Int /\ Least(state) <= c /\ c <= Greatest(state)
    BY DEF Takes, Least, Greatest
<1>2. c \in Bytes
    BY <1>1 DEF Bytes, Least, Greatest
<1>3. c \in Codes
    BY <1>2, CodesOf
<1> DEFINE s == Scanned(o)
           n == [Adds(s, <<c>>) EXCEPT !.ranges = Tail(@)]
<1>4. ReadAs(s, w, state)
    BY DEF Reads
<1> HIDE DEF s
<1>5. /\ s.ranges # <<>> /\ s.ranges[1] = <<Least(state), Greatest(state)>>
      /\ Tail(s.ranges) = Lacks(Fewer(state))
    BY <1>4, LacksIs DEF ReadAs
<1>6. scan_string(s, c) = n
    BY <1>1, <1>5 DEF scan_string, next_byte_in_range
<1>7. /\ n.at = "string" /\ n.codepoint1 = 0 /\ n.token_buffer = w \o <<c>>
      /\ n.ranges = Lacks(Fewer(state))
    BY <1>4, <1>5, InitialIs DEF ReadAs, StringOk, Fields, Adds
<1> HIDE DEF n
<1> QED
    BY <1>3, <1>6, <1>7, ReadsByOne DEF s

(* A slice of bytes, one byte longer and behind what precedes it.              *)
LEMMA Slice ==
    ASSUME NEW s \in Seq(Bytes), NEW k \in Nat \ {0}, NEW i \in Nat, k <= i + 1, i <= Len(s)
    PROVE  /\ SubSeq(s, k, i) \in Seq(Bytes) /\ SubSeq(s, 1, k - 1) \in Seq(Bytes)
           /\ Len(SubSeq(s, k, i)) = i + 1 - k
           /\ \A j \in 1 .. i + 1 - k : SubSeq(s, k, i)[j] = s[k + j - 1]
           /\ SubSeq(s, 1, i) = SubSeq(s, 1, k - 1) \o SubSeq(s, k, i)
<1>1. Len(s) \in Nat
    BY LenProperties
<1>2. (\A j \in k .. i : s[j] \in Bytes) /\ (\A j \in 1 .. k - 1 : s[j] \in Bytes)
    BY <1>1, ElementOfSeq
<1>3. /\ SubSeq(s, k, i) \in Seq(Bytes)
      /\ Len(SubSeq(s, k, i)) = IF k <= i THEN i - k + 1 ELSE 0
      /\ \A j \in 1 .. i - k + 1 : SubSeq(s, k, i)[j] = s[k + j - 1]
    BY <1>2, SubSeqProperties
<1>4. SubSeq(s, 1, k - 1) \in Seq(Bytes)
    BY <1>2, SubSeqProperties
<1>5. SubSeq(s, 1, i) = SubSeq(s, 1, k - 1) \o SubSeq(s, k, i)
  <2>1. /\ 1 \in 1 .. Len(s) + 1 /\ k - 1 \in 1 - 1 .. Len(s) /\ i \in k - 1 .. Len(s)
        /\ (k - 1) + 1 = k
    BY <1>1
  <2>2. SubSeq(s, 1, k - 1) \o SubSeq(s, (k - 1) + 1, i) = SubSeq(s, 1, i)
    BY <2>1, ConcatAdjacentSubSeq
  <2> QED
    BY <2>1, <2>2
<1>6. i - k + 1 = i + 1 - k /\ (k <= i \/ i + 1 - k = 0)
    OBVIOUS
<1> QED
    BY <1>3, <1>4, <1>5, <1>6

LEMMA SliceOn ==
    ASSUME NEW s \in Seq(Bytes), NEW k \in Nat \ {0}, NEW i \in Nat, k <= i, i <= Len(s)
    PROVE  /\ SubSeq(s, k, i - 1) \in Seq(Bytes) /\ s[i] \in Bytes
           /\ SubSeq(s, k, i) = SubSeq(s, k, i - 1) \o <<s[i]>>
           /\ i = k => SubSeq(s, k, i - 1) = <<>>
<1>1. Len(s) \in Nat /\ i \in 1 .. Len(s) /\ k \in 1 .. Len(s) /\ i \in k .. Len(s)
    BY LenProperties
<1>2. s[i] \in Bytes
    BY <1>1, ElementOfSeq
<1>3. SubSeq(s, k, i - 1) \in Seq(Bytes)
  <2>1. i - 1 \in Nat /\ k <= (i - 1) + 1 /\ i - 1 <= Len(s)
    BY <1>1
  <2> QED
    BY <2>1, Slice
<1>4. SubSeq(s, k, i) = SubSeq(s, k, i - 1) \o <<s[i]>>
    BY <1>1, SubSeqRecursiveSecond
<1>5. i = k => SubSeq(s, k, i - 1) = <<>>
    BY <1>1, SubSeqEmpty
<1> QED
    BY <1>2, <1>3, <1>4, <1>5

(* A byte of a longer character, read as the decoder reads it.                 *)
LEMMA ReadsByte ==
    ASSUME NEW o, NEW w \in Seq(Bytes), NEW state \in States, Reads(o, w, state), NEW c \in Bytes,
           NEW d, d = decode(state, c), d # 1, state = 0 => c \notin Single
    PROVE  Reads(Append(o, c), w \o <<c>>, d)
<1>1. CASE state = 0
  <2>1. c \in Leads /\ d = AfterLead(c)
    BY <1>1, DecodeIs
  <2> QED
    BY <1>1, <2>1, ReadsLead
<1>2. CASE state # 0
  <2>1. state \in 2 .. 8
    BY <1>2 DEF States
  <2>2. c \in Takes(state) /\ d = Fewer(state)
    BY <2>1, DecodeIs
  <2> QED
    BY <2>1, <2>2, ReadsTrail
<1> QED
    BY <1>1, <1>2

LEMMA PairBack ==
    ASSUME NEW n \in ScalarValues, n > 65535
    PROVE  /\ 55232 + n \div 1024 \in High /\ 56320 + (n % 1024) \in Low
           /\ Pair(55232 + n \div 1024, 56320 + (n % 1024)) = n
<1>1. n \in Nat /\ n <= 1114111
    BY SMT DEF ScalarValues
<1>2. /\ n = 1024 * (n \div 1024) + (n % 1024) /\ n \div 1024 \in Nat
      /\ n % 1024 \in Nat /\ n % 1024 <= 1023
    BY <1>1, SMT
<1> DEFINE q == n \div 1024
           r == n % 1024
<1>3. q \in Nat /\ r \in Nat /\ r <= 1023 /\ n = 1024 * q + r
    BY <1>2
<1> HIDE DEF q, r
<1>4. 64 <= q /\ q <= 1087
    BY <1>1, <1>3, SMT
<1>5. 55232 + q \in High /\ 56320 + r \in Low
    BY <1>3, <1>4, SMT DEF High, Low
<1>6. Pair(55232 + q, 56320 + r) = n
    BY <1>3, SMT DEF Pair
<1> QED
    BY <1>5, <1>6 DEF q, r

LEMMA BytesAreCodes ==
    ASSUME NEW t \in Seq(Bytes)
    PROVE  t \in Seq(Codes)
BY CodesOf, SeqMonotonic

LEMMA OneOrTwo ==
    ASSUME NEW o \in Seq(Codes), NEW c \in Codes, NEW d \in Codes
    PROVE  o \o <<c>> = Append(o, c) /\ o \o <<c, d>> = Append(Append(o, c), d)
<1>1. o \o <<c>> = Append(o, c)
    BY AppendIsConcat
<1>2. Append(o, c) \in Seq(Codes)
    BY AppendProperties
<1>3. Append(Append(o, c), d) = (o \o <<c>>) \o <<d>>
    BY <1>1, <1>2, AppendIsConcat
<1>4. <<c>> \in Seq(Codes) /\ <<d>> \in Seq(Codes) /\ <<c>> \o <<d>> = <<c, d>>
  <2>0. <<c>> \in Seq(Codes) /\ <<d>> \in Seq(Codes) /\ Len(<<c>>) = 1 /\ <<c>>[1] = c
    OBVIOUS
  <2> DEFINE t == Append(<<c>>, d)
  <2>3. t \in Seq(Codes) /\ Len(t) = 2 /\ t[1] = c /\ t[2] = d
    BY <2>0, AppendProperties
  <2> HIDE DEF t
  <2>4. t = <<c, d>>
    BY <2>3
  <2>1. <<c>> \in Seq(Codes) /\ <<d>> \in Seq(Codes) /\ Append(<<c>>, d) = <<c, d>>
    BY <2>0, <2>4 DEF t
  <2>2. Append(<<c>>, d) = <<c>> \o <<d>>
    BY <2>1, AppendIsConcat
  <2> QED
    BY <2>1, <2>2
<1> QED
    BY <1>1, <1>3, <1>4, ConcatAssociative

SmallEscapes == {8, 9, 10, 12, 13, 34, 92}

LEMMA BytesEscaped ==
    \A n \in 0 .. 127 : n > 31 /\ n \notin SmallEscapes => n \in Plain /\ n # Quote
BY DEF SmallEscapes, Plain, Quote

(* What the dump writes of a character is read as its bytes.                   *)
LEMMA WrittenReads ==
    ASSUME NEW s \in Seq(Bytes), NEW k, NEW i, NEW state \in States, Begun(s, k, i, state),
           i <= Len(s), NEW cp, i > k => cp = Partial(s, k, i), decode(state, s[i]) = 0,
           NEW ensure_ascii \in BOOLEAN, NEW o, NEW w \in Seq(Bytes), Reads(o, w, 0),
           NEW out, out = IF ensure_ascii THEN o ELSE o \o SubSeq(s, k, i - 1),
           ~ensure_ascii => Reads(out, w \o SubSeq(s, k, i - 1), state)
    PROVE  Reads(out \o Written(Codepoint(state, cp, s[i]), s[i], ensure_ascii),
                 w \o SubSeq(s, k, i), 0)
<1> DEFINE n == Codepoint(state, cp, s[i])
           b == s[i]
           t == SubSeq(s, k, i)
<1>1. /\ n \in ScalarValues /\ InBytes(n) = t
      /\ i = k => n = b /\ n < 128
      /\ i > k => n >= 128 /\ IsTrail(b)
  <2>1. Making(s, k, i, state, cp)
    BY DEF Making
  <2>2. ValueOf(s, k, i, n)
    BY <2>1, AcceptedValue, Zenon
  <2> HIDE DEF n
  <2> QED
    BY <2>2, Zenon DEF ValueOf
<1>2. /\ k \in Nat \ {0} /\ i \in Nat /\ k <= i /\ Len(s) \in Nat
    BY LenProperties DEF Begun
<1>3. /\ SubSeq(s, k, i - 1) \in Seq(Bytes) /\ b \in Bytes /\ t = SubSeq(s, k, i - 1) \o <<b>>
      /\ i = k => SubSeq(s, k, i - 1) = <<>>
    BY <1>2, SliceOn
<1>4. t \in Seq(Bytes)
    BY <1>2, Slice
<1>5. o \in Seq(Codes) /\ o \o <<>> = o
    BY ConcatEmptySeq DEF Reads
<1>6. i = k => out = o /\ t = <<b>>
  <2>1. <<b>> \in Seq(Bytes)
    BY <1>3
  <2>2. <<>> \o <<b>> = <<b>>
    BY <2>1, ConcatEmptySeq
  <2> QED
    BY <1>3, <1>5, <2>2, Zenon
<1> DEFINE r == SubSeq(s, k, i - 1)
<1> HIDE DEF n, b, t, r
<1>7. n \in Nat /\ (n < 128 => n \in 0 .. 127)
    BY <1>1, SMT DEF ScalarValues
<1>8. i = k \/ i > k
    BY <1>2
<1>9. CASE n \in SmallEscapes
  <2>1. n < 128
    BY <1>9 DEF SmallEscapes
  <2>2. i = k
    BY <1>1, <1>7, <1>8, <2>1
  <2>3. Written(n, b, ensure_ascii) = <<Esc(Letter(n))>>
    BY <1>9 DEF Written, SmallEscapes
  <2>4. Reads(Append(o, Esc(Letter(n))), w \o <<n>>, 0)
    <3>1. Reads(o, w, 0)
      OBVIOUS
    <3> QED
      BY ONLY <1>9, <3>1, ReadsEscape, Zenon DEF SmallEscapes
  <2>5. Append(o, Esc(Letter(n))) = o \o <<Esc(Letter(n))>>
    <3>1. Letter(n) \in DOMAIN Escaped
      BY <1>9, LettersAre DEF SmallEscapes
    <3>2. Esc(Letter(n)) \in Codes
      <4>1. DOMAIN Escaped = {34, 92, 47, 98, 102, 110, 114, 116}
        BY DEF Escaped
      <4>2. Letter(n) \in 0 .. 255
        BY <3>1, <4>1
      <4> QED
        BY <4>2, CodesOf
    <3> QED
      BY <1>5, <3>2, OneOrTwo
  <2> QED
    BY <1>1, <1>6, <2>2, <2>3, <2>4, <2>5 DEF n, b, t
<1>10. CASE n \notin SmallEscapes /\ (n <= 31 \/ (ensure_ascii /\ n >= 127))
  <2>1. out = o
    <3>1. CASE ensure_ascii
      BY <3>1
    <3>2. CASE ~ensure_ascii
      <4>1. n < 128
        BY <1>7, <1>10, <3>2
      <4>2. i = k
        BY <1>1, <1>7, <1>8, <4>1
      <4> QED
        BY <1>6, <4>2
    <3> QED
      BY <3>1, <3>2
  <2>2. CASE n <= 65535
    <3>1. Written(n, b, ensure_ascii) = <<U(n)>>
      BY <1>10, <2>2 DEF Written, SmallEscapes
    <3>2. n \in Units /\ n \notin High /\ n \notin Low
      BY <1>1, <1>7, <2>2, SMT DEF ScalarValues, Units
    <3>3. Reads(Append(o, U(n)), w \o InBytes(n), 0)
      BY <3>2, ReadsUnit
    <3>4. U(n) \in Codes
      BY <3>2, UnitCode
    <3>5. Append(o, U(n)) = o \o <<U(n)>>
      BY <1>5, <3>4, OneOrTwo
    <3> QED
      BY <1>1, <2>1, <3>1, <3>3, <3>5 DEF n, b, t
  <2>3. CASE n > 65535
    <3> DEFINE high == 55232 + n \div 1024
               low == 56320 + (n % 1024)
    <3>1. Written(n, b, ensure_ascii) = <<U(high), U(low)>>
      <4>1. ~(n <= 65535)
        BY <1>7, <2>3
      <4> QED
        BY <1>10, <4>1 DEF Written, SmallEscapes
    <3>2. high \in High /\ low \in Low /\ Pair(high, low) = n
      BY <1>1, <2>3, PairBack
    <3> HIDE DEF high, low
    <3>3. Reads(Append(Append(o, U(high)), U(low)), w \o InBytes(n), 0)
      BY <3>2, ReadsPair
    <3>4. high \in Units /\ low \in Units
      BY <3>2, SMT DEF High, Low, Units
    <3>5. U(high) \in Codes /\ U(low) \in Codes
      BY <3>4, UnitCode
    <3>6. Append(Append(o, U(high)), U(low)) = o \o <<U(high), U(low)>>
      BY <1>5, <3>5, OneOrTwo
    <3> QED
      BY <1>1, <2>1, <3>1, <3>3, <3>6 DEF n, b, t
  <2> QED
    BY <1>7, <2>2, <2>3
<1>11. CASE n \notin SmallEscapes /\ ~(n <= 31 \/ (ensure_ascii /\ n >= 127))
  <2>1. Written(n, b, ensure_ascii) = <<b>>
    BY <1>11 DEF Written, SmallEscapes
  <2>2. b \in Codes
    BY <1>3, CodesOf
  <2>3. CASE i = k
    <3>1. n \in 0 .. 127 /\ n > 31 /\ n = b
      BY <1>1, <1>7, <1>11, <2>3
    <3>2. b \in Plain /\ b # Quote
      BY <1>11, <3>1, BytesEscaped, Zenon
    <3>3. Reads(Append(o, b), w \o <<b>>, 0)
      BY <3>2, ReadsPlain
    <3>4. Append(o, b) = o \o <<b>>
      BY <1>5, <2>2, OneOrTwo
    <3> QED
      BY <1>6, <2>1, <2>3, <3>3, <3>4 DEF n, b, t
  <2>4. CASE i > k
    <3>1. ~ensure_ascii
      BY <1>1, <1>7, <1>11, <2>4
    <3>2. Reads(out, w \o r, state) /\ w \o r \in Seq(Bytes) /\ out \in Seq(Codes)
      BY <1>3, <3>1, ConcatProperties DEF Reads, r
    <3>3. b \notin Single
      BY <1>1, <1>3, <2>4, TrailIs
    <3>4. decode(state, b) = 0
      BY DEF b
    <3>5. Reads(Append(out, b), (w \o r) \o <<b>>, 0)
      <4>1. 0 # 1 /\ (state = 0 => b \notin Single)
        BY <3>3
      <4> QED
        BY <1>3, <3>2, <3>4, <4>1, ReadsByte, Zenon
    <3>6. Append(out, b) = out \o <<b>>
      BY <2>2, <3>2, OneOrTwo
    <3>7. (w \o r) \o <<b>> = w \o t
      <4>1. <<b>> \in Seq(Bytes) /\ r \in Seq(Bytes) /\ t = r \o <<b>>
        BY <1>3 DEF r
      <4> QED
        BY <4>1, ConcatAssociative
    <3> QED
      BY <2>1, <3>5, <3>6, <3>7 DEF n, b, t
  <2> QED
    BY <1>8, <2>3, <2>4
<1> QED
    BY <1>9, <1>10, <1>11

(* In the middle of a dump of s: o is what it has written of the bytes before  *)
(* the k-th, which the lexer reads as w; behind them a character is in the     *)
(* making, whose bytes are already in out unless all is to be ASCII.           *)
Dumped(s, k, i, state, cp, ensure_ascii, out, o, w) ==
    /\ Begun(s, k, i, state)
    /\ i > k => cp = Partial(s, k, i)
    /\ out = IF ensure_ascii THEN o ELSE o \o SubSeq(s, k, i - 1)
    /\ w \in Seq(Bytes) /\ Reads(o, w, 0)
    /\ ~ensure_ascii => Reads(out, w \o SubSeq(s, k, i - 1), state)
    /\ Ascii(w) = Ascii(SubSeq(s, 1, k - 1))
    /\ IsUtf8(s) => w = SubSeq(s, 1, k - 1) /\ Starts(s, k)

LEMMA BegunStates ==
    ASSUME NEW s \in Seq(Bytes), NEW k, NEW i, NEW state, Begun(s, k, i, state)
    PROVE  state \in States /\ k \in Nat \ {0} /\ i \in Nat /\ k <= i /\ i <= Len(s) + 1
<1>1. k \in Nat \ {0} /\ i \in Nat /\ k <= i /\ i <= k + 3 /\ i <= Len(s) + 1 /\ Len(s) \in Nat
    BY LenProperties DEF Begun
<1>2. i = k + 1 => s[k] \in Bytes
  <2> HAVE i = k + 1
  <2>1. k \in 1 .. Len(s)
    BY <1>1
  <2> QED
    BY <2>1, ElementOfSeq
<1>3. i = k + 1 => AfterLead(s[k]) \in 2 .. 8
    BY <1>2, LeadIs
<1>4. i = k \/ i = k + 1 \/ i = k + 2 \/ i = k + 3
    BY <1>1
<1> QED
    BY <1>1, <1>3, <1>4 DEF Begun, States

(* At the start of a character nothing is in the making.                       *)
LEMMA DumpedAtStart ==
    ASSUME NEW s \in Seq(Bytes), NEW j \in Nat, j <= Len(s), NEW cp, NEW ensure_ascii, NEW o,
           NEW w \in Seq(Bytes), Reads(o, w, 0), Ascii(w) = Ascii(SubSeq(s, 1, j)),
           IsUtf8(s) => w = SubSeq(s, 1, j) /\ Starts(s, j + 1)
    PROVE  Dumped(s, j + 1, j + 1, 0, cp, ensure_ascii, o, o, w)
<1>1. Len(s) \in Nat /\ o \in Seq(Codes)
    BY LenProperties DEF Reads
<1> DEFINE k == j + 1
<1>2. k \in Nat \ {0} /\ k <= Len(s) + 1 /\ k - 1 = j /\ ~(k > k) /\ k \in Nat
    BY <1>1
<1> HIDE DEF k
<1>3. Begun(s, k, k, 0)
    BY <1>1, <1>2 DEF Begun
<1>4. SubSeq(s, k, k - 1) = <<>>
    BY <1>2, SubSeqEmpty
<1>5. o \o <<>> = o /\ w \o <<>> = w
    BY <1>1, ConcatEmptySeq
<1>6. IsUtf8(s) => w = SubSeq(s, 1, k - 1) /\ Starts(s, k)
    BY <1>2 DEF k
<1>7. Dumped(s, k, k, 0, cp, ensure_ascii, o, o, w)
    BY <1>2, <1>3, <1>4, <1>5, <1>6, Zenon DEF Dumped
<1> QED
    BY <1>7 DEF k

LEMMA DumpedAccepting ==
    ASSUME NEW s \in Seq(Bytes), NEW k, NEW i, NEW state, NEW cp, NEW ensure_ascii \in BOOLEAN,
           NEW out, NEW o, NEW w, Dumped(s, k, i, state, cp, ensure_ascii, out, o, w),
           i <= Len(s), decode(state, s[i]) = 0, NEW next,
           NEW new, new = out \o Written(Codepoint(state, cp, s[i]), s[i], ensure_ascii)
    PROVE  Dumped(s, i + 1, i + 1, 0, next, ensure_ascii, new, new, w \o SubSeq(s, k, i))
<1>1. /\ Begun(s, k, i, state) /\ (i > k => cp = Partial(s, k, i))
      /\ out = IF ensure_ascii THEN o ELSE o \o SubSeq(s, k, i - 1)
      /\ w \in Seq(Bytes) /\ Reads(o, w, 0)
      /\ ~ensure_ascii => Reads(out, w \o SubSeq(s, k, i - 1), state)
      /\ Ascii(w) = Ascii(SubSeq(s, 1, k - 1))
      /\ IsUtf8(s) => w = SubSeq(s, 1, k - 1) /\ Starts(s, k)
    BY DEF Dumped
<1>2. /\ state \in States /\ k \in Nat \ {0} /\ i \in Nat /\ k <= i /\ i <= Len(s)
      /\ k <= i + 1 /\ Len(s) \in Nat
    BY <1>1, BegunStates, LenProperties
<1> DEFINE t == SubSeq(s, k, i)
           v == w \o t
<1>3. Reads(new, v, 0)
  <2>1. Reads(out \o Written(Codepoint(state, cp, s[i]), s[i], ensure_ascii), w \o SubSeq(s, k, i), 0)
    BY <1>1, <1>2, WrittenReads, Zenon
  <2> QED
    BY <2>1, Zenon
<1>4. /\ t \in Seq(Bytes) /\ SubSeq(s, 1, k - 1) \in Seq(Bytes)
      /\ SubSeq(s, 1, i) = SubSeq(s, 1, k - 1) \o t
    BY <1>2, Slice, Zenon
<1>5. v \in Seq(Bytes) /\ Ascii(v) = Ascii(SubSeq(s, 1, i))
  <2>1. v \in Seq(Bytes)
    BY <1>1, <1>4, ConcatProperties
  <2>2. Ascii(v) = Ascii(SubSeq(s, 1, k - 1) \o t)
    BY <1>1, <1>4, AsciiAlike, Zenon
  <2> QED
    BY <1>4, <2>1, <2>2, Zenon
<1>6. /\ IsCharacter(s, k) /\ k + Length(s[k]) = i + 1 /\ ~IsTrail(s[k])
    BY <1>1, <1>2, CharacterStep, Zenon
<1>7. IsUtf8(s) => v = SubSeq(s, 1, i) /\ Starts(s, i + 1)
  <2> HAVE IsUtf8(s)
  <2>1. k \in 1 .. Len(s)
    BY <1>2
  <2>2. Starts(s, k + Length(s[k]))
    BY <1>6, <2>1 DEF IsUtf8, Starts
  <2> QED
    BY <1>1, <1>4, <1>6, <2>2
<1> HIDE DEF v
<1>8. Dumped(s, i + 1, i + 1, 0, next, ensure_ascii, new, new, v)
    BY <1>2, <1>3, <1>5, <1>7, DumpedAtStart, Zenon
<1> QED
    BY <1>8 DEF v

LEMMA DumpedGoingOn ==
    ASSUME NEW s \in Seq(Bytes), NEW k, NEW i, NEW state, NEW cp, NEW ensure_ascii \in BOOLEAN,
           NEW out, NEW o, NEW w, Dumped(s, k, i, state, cp, ensure_ascii, out, o, w),
           i <= Len(s), NEW d, d = decode(state, s[i]), d \notin {0, 1}
    PROVE  Dumped(s, k, i + 1, d, Codepoint(state, cp, s[i]), ensure_ascii,
                  IF ensure_ascii THEN out ELSE Append(out, s[i]), o, w)
<1> DEFINE r == SubSeq(s, k, i - 1)
           new == IF ensure_ascii THEN out ELSE Append(out, s[i])
<1>1. /\ Begun(s, k, i, state) /\ (i > k => cp = Partial(s, k, i))
      /\ out = IF ensure_ascii THEN o ELSE o \o r
      /\ w \in Seq(Bytes) /\ Reads(o, w, 0)
      /\ ~ensure_ascii => Reads(out, w \o r, state)
      /\ Ascii(w) = Ascii(SubSeq(s, 1, k - 1))
      /\ IsUtf8(s) => w = SubSeq(s, 1, k - 1) /\ Starts(s, k)
    BY DEF Dumped
<1>2. state \in States /\ k \in Nat \ {0} /\ i \in Nat /\ k <= i /\ i <= Len(s) /\ Len(s) \in Nat
    BY <1>1, BegunStates, LenProperties
<1>3. Begun(s, k, i + 1, d)
    BY <1>1, <1>2, CharacterStep, Zenon
<1>4. Codepoint(state, cp, s[i]) = Partial(s, k, i + 1)
    BY <1>1, <1>2, PartialStep, Zenon
<1>5. /\ r \in Seq(Bytes) /\ s[i] \in Bytes /\ SubSeq(s, k, i) = r \o <<s[i]>>
    BY <1>2, SliceOn, Zenon
<1> DEFINE b == s[i]
           t == SubSeq(s, k, i)
<1>6. d = decode(state, b) /\ b \in Bytes /\ t = r \o <<b>>
    BY <1>5
<1> HIDE DEF r, b, t
<1>7. ASSUME ~ensure_ascii
      PROVE  new = o \o t /\ Reads(new, w \o t, d)
  <2>1. o \in Seq(Codes) /\ r \in Seq(Codes) /\ b \in Codes /\ out \in Seq(Codes)
        /\ out = o \o r /\ new = Append(out, b)
    BY <1>1, <1>5, <1>6, <1>7, BytesAreCodes, CodesOf DEF Reads, b
  <2>2. <<b>> \in Seq(Codes) /\ <<b>> \in Seq(Bytes)
    BY <1>6, <2>1
  <2>3. new = (o \o r) \o <<b>>
    BY <2>1, AppendIsConcat
  <2>4. new = o \o t
    <3>1. o \in Seq(Codes) /\ r \in Seq(Codes) /\ <<b>> \in Seq(Codes)
      BY <2>1, <2>2
    <3>2. (o \o r) \o <<b>> = o \o (r \o <<b>>)
      BY ONLY <3>1, ConcatAssociative
    <3> QED
      BY <1>6, <2>3, <3>2
  <2>5. state = 0 => b \notin Single
    BY <1>6, DecodeIs
  <2>6. w \o r \in Seq(Bytes)
    BY <1>1, <1>5, ConcatProperties
  <2>7. Reads(Append(out, b), (w \o r) \o <<b>>, d)
    <3>1. d # 1
      OBVIOUS
    <3> QED
      BY <1>1, <1>2, <1>6, <1>7, <2>5, <2>6, <3>1, ReadsByte, Zenon
  <2>8. (w \o r) \o <<b>> = w \o t
    <3>1. w \in Seq(Bytes) /\ r \in Seq(Bytes) /\ <<b>> \in Seq(Bytes)
      BY <1>1, <1>5, <2>2
    <3>2. (w \o r) \o <<b>> = w \o (r \o <<b>>)
      BY ONLY <3>1, ConcatAssociative
    <3> QED
      BY <1>6, <3>2
  <2> QED
    BY <2>1, <2>4, <2>7, <2>8
<1> HIDE DEF new
<1>8. (i + 1) - 1 = i
    BY <1>2
<1>9. new = IF ensure_ascii THEN o ELSE o \o t
    BY <1>1, <1>7 DEF new
<1>10. Dumped(s, k, i + 1, d, Codepoint(state, cp, b), ensure_ascii, new, o, w)
    BY <1>1, <1>3, <1>4, <1>7, <1>8, <1>9, Zenon DEF Dumped, t, b
<1> QED
    BY <1>10 DEF new, b

(* What is written of the whole characters is what the dump goes back to.      *)
LEMMA DumpedKept ==
    ASSUME NEW s \in Seq(Bytes), NEW k, NEW i, NEW state, NEW cp, NEW ensure_ascii,
           NEW out, NEW o, NEW w, Dumped(s, k, i, state, cp, ensure_ascii, out, o, w)
    PROVE  SubSeq(out, 1, Len(o)) = o
<1> DEFINE r == SubSeq(s, k, i - 1)
<1>1. Begun(s, k, i, state) /\ Reads(o, w, 0) /\ out = IF ensure_ascii THEN o ELSE o \o r
    BY DEF Dumped
<1>2. k \in Nat \ {0} /\ i \in Nat /\ k <= i /\ i <= Len(s) + 1 /\ Len(s) \in Nat
    BY <1>1, BegunStates, LenProperties
<1>3. i - 1 \in Nat /\ k <= (i - 1) + 1 /\ i - 1 <= Len(s)
    BY <1>2
<1>4. r \in Seq(Bytes)
    BY <1>2, <1>3, Slice, Zenon
<1>5. r \in Seq(Codes) /\ o \in Seq(Codes)
    BY <1>1, <1>4, BytesAreCodes DEF Reads
<1> HIDE DEF r
<1>6. SubSeq(o, 1, Len(o)) = o
    BY <1>5, SubSeqFull
<1>7. SubSeq(o \o r, 1, Len(o)) = o
    BY <1>5, SubSeqOfConcat1
<1> QED
    BY <1>1, <1>6, <1>7

LEMMA ThreeAppended ==
    ASSUME NEW S, NEW u \in Seq(S), NEW a \in S, NEW b \in S, NEW c \in S
    PROVE  /\ u \o <<a, b, c>> = Append(Append(Append(u, a), b), c)
           /\ ((u \o <<a>>) \o <<b>>) \o <<c>> = u \o <<a, b, c>>
<1> DEFINE t == <<a, b, c>>
           p == Append(u, a)
           q == Append(p, b)
           r == Append(q, c)
           n == Len(u)
           v == u \o t
<1>1. t \in Seq(S) /\ Len(t) = 3 /\ t[1] = a /\ t[2] = b /\ t[3] = c
    OBVIOUS
<1>2. n \in Nat
    BY LenProperties
<1> HIDE DEF t
<1>3. p \in Seq(S) /\ Len(p) = n + 1 /\ p[n + 1] = a /\ \A j \in 1 .. n : p[j] = u[j]
    BY AppendProperties
<1> HIDE DEF p
<1>4. q \in Seq(S) /\ Len(q) = n + 2 /\ q[n + 2] = b /\ \A j \in 1 .. n + 1 : q[j] = p[j]
    BY <1>2, <1>3, AppendProperties
<1> HIDE DEF q
<1>5. r \in Seq(S) /\ Len(r) = n + 3 /\ r[n + 3] = c /\ \A j \in 1 .. n + 2 : r[j] = q[j]
    BY <1>2, <1>4, AppendProperties
<1>6. v \in Seq(S) /\ Len(v) = n + 3 /\ (\A j \in 1 .. n : v[j] = u[j])
      /\ v[n + 1] = t[1] /\ v[n + 2] = t[2] /\ v[n + 3] = t[3]
  <2>1. /\ v \in Seq(S) /\ Len(v) = n + 3
        /\ \A j \in 1 .. n + 3 : v[j] = IF j <= n THEN u[j] ELSE t[j - n]
    <3>1. /\ v \in Seq(S) /\ Len(v) = Len(u) + Len(t)
          /\ \A j \in 1 .. Len(u) + Len(t) :
                v[j] = IF j <= Len(u) THEN u[j] ELSE t[j - Len(u)]
      BY <1>1, ConcatProperties, Zenon
    <3> QED
      BY <1>1, <3>1
  <2>2. /\ n + 1 \in 1 .. n + 3 /\ n + 2 \in 1 .. n + 3 /\ n + 3 \in 1 .. n + 3
        /\ ~(n + 1 <= n) /\ ~(n + 2 <= n) /\ ~(n + 3 <= n)
        /\ (n + 1) - n = 1 /\ (n + 2) - n = 2 /\ (n + 3) - n = 3
        /\ \A j \in 1 .. n : j \in 1 .. n + 3 /\ j <= n
    BY <1>2
  <2> HIDE DEF v, n
  <2> QED
    BY <2>1, <2>2
<1> HIDE DEF r, v, n
<1>7. \A j \in 1 .. n + 3 : v[j] = r[j]
  <2> TAKE j \in 1 .. n + 3
  <2>1. j \in 1 .. n \/ j = n + 1 \/ j = n + 2 \/ j = n + 3
    BY <1>2
  <2> QED
    BY <1>1, <1>2, <1>3, <1>4, <1>5, <1>6, <2>1
<1>8. v = r
    BY <1>5, <1>6, <1>7, SeqEqual
<1>9. p = u \o <<a>> /\ q = p \o <<b>> /\ r = q \o <<c>>
    BY <1>3, <1>4, AppendIsConcat DEF p, q, r
<1> QED
    BY <1>8, <1>9 DEF v, t, r, q, p

(* The replacement character, which the lexer reads as its three bytes.        *)
LEMMA ReplacementReads ==
    ASSUME NEW o, NEW w \in Seq(Bytes), Reads(o, w, 0), NEW handler \in Handlers,
           NEW ensure_ascii \in BOOLEAN
    PROVE  \E t \in Seq(Bytes) :
              NoLetter(t) /\ Reads(o \o Replacement(handler, ensure_ascii), w \o t, 0)
<1>1. o \in Seq(Codes)
    BY DEF Reads
<1>2. CASE handler # "replace"
  <2>1. Replacement(handler, ensure_ascii) = <<>>
    BY <1>2 DEF Replacement
  <2>2. <<>> \in Seq(Bytes) /\ NoLetter(<<>>)
    BY DEF NoLetter
  <2>3. o \o <<>> = o /\ w \o <<>> = w
    BY <1>1, ConcatEmptySeq
  <2> QED
    BY <2>1, <2>2, <2>3
<1> DEFINE t == <<239, 191, 189>>
<1>3. 239 \in Bytes /\ 191 \in Bytes /\ 189 \in Bytes
    BY DEF Bytes
<1>4. t \in Seq(Bytes) /\ NoLetter(t)
  <2>1. t \in Seq(Bytes) /\ Len(t) = 3 /\ t[1] = 239 /\ t[2] = 191 /\ t[3] = 189
    BY <1>3
  <2> HIDE DEF t
  <2> QED
    BY <2>1 DEF NoLetter
<1>5. CASE handler = "replace" /\ ensure_ascii
  <2>1. Replacement(handler, ensure_ascii) = <<U(65533)>>
    BY <1>5 DEF Replacement
  <2> DEFINE n == 65533
  <2>2. n \in Units /\ n \notin High /\ n \notin Low
    BY SMT DEF Units, High, Low
  <2>3. InBytes(n) = t
    BY SMT DEF InBytes
  <2> HIDE DEF n, t
  <2>4. Reads(Append(o, U(n)), w \o InBytes(n), 0)
    BY <2>2, ReadsUnit
  <2>5. U(n) \in Codes
    BY <2>2, UnitCode
  <2>6. Append(o, U(n)) = o \o <<U(n)>>
    BY <1>1, <2>5, OneOrTwo
  <2>7. Replacement(handler, ensure_ascii) = <<U(n)>>
    BY <2>1 DEF n
  <2> QED
    BY <1>4, <2>3, <2>4, <2>6, <2>7
<1>6. CASE handler = "replace" /\ ~ensure_ascii
  <2>1. Replacement(handler, ensure_ascii) = t
    BY <1>6 DEF Replacement
  <2>2. 239 \in Leads /\ AfterLead(239) = 3
    BY DEF Leads, LeadOfThree, AfterLead
  <2>3. 191 \in Takes(3) /\ Fewer(3) = 2 /\ 189 \in Takes(2) /\ Fewer(2) = 0
        /\ 2 \in 2 .. 8 /\ 3 \in 2 .. 8
    BY DEF Takes, Least, Greatest, Fewer
  <2>4. Reads(Append(o, 239), w \o <<239>>, 3)
    BY <2>2, ReadsLead
  <2>5. Reads(Append(Append(o, 239), 191), (w \o <<239>>) \o <<191>>, 2)
    BY <2>3, <2>4, ReadsTrail
  <2>6. Reads(Append(Append(Append(o, 239), 191), 189), ((w \o <<239>>) \o <<191>>) \o <<189>>, 0)
    BY <2>3, <2>5, ReadsTrail
  <2>7. 239 \in Codes /\ 191 \in Codes /\ 189 \in Codes
    BY <1>3, CodesOf
  <2>8. o \o t = Append(Append(Append(o, 239), 191), 189)
    BY <1>1, <2>7, ThreeAppended
  <2>9. ((w \o <<239>>) \o <<191>>) \o <<189>> = w \o t
    BY <1>3, ThreeAppended
  <2> HIDE DEF t
  <2> QED
    BY <1>4, <2>1, <2>6, <2>8, <2>9
<1> QED
    BY <1>2, <1>5, <1>6

LEMMA NotLetters ==
    \A b \in Bytes : b \in Leads \/ IsTrail(b) \/ b \notin Single => b >= 128
BY SMT DEF Bytes, Leads, ShortOfTwo, LeadOfThree, ShortOfFour, IsTrail, Single

(* The bytes of a character in the making are no letters.                      *)
LEMMA NoLetterMade ==
    ASSUME NEW s \in Seq(Bytes), NEW k, NEW i, NEW state, Begun(s, k, i, state), i > k
    PROVE  NoLetter(SubSeq(s, k, i - 1))
<1>1. k \in Nat \ {0} /\ i \in Nat /\ k <= i /\ i <= Len(s) + 1 /\ Len(s) \in Nat
    BY BegunStates, LenProperties
<1> DEFINE e == i - 1
           q == SubSeq(s, k, e)
<1>2. e \in Nat /\ k <= e + 1 /\ e <= Len(s)
    BY <1>1
<1>3. Len(q) = e + 1 - k /\ \A n \in 1 .. e + 1 - k : q[n] = s[k + n - 1]
    BY <1>1, <1>2, Slice, Zenon
<1>4. \A n \in 1 .. e + 1 - k : s[k + n - 1] >= 128
  <2> TAKE n \in 1 .. e + 1 - k
  <2> DEFINE m == k + n - 1
  <2>1. m \in 1 .. Len(s) /\ (m = k \/ m \in k + 1 .. i - 1)
    BY <1>1, <1>2
  <2>2. s[m] \in Bytes
    BY <2>1, ElementOfSeq
  <2> HIDE DEF m
  <2>3. s[m] \in Leads \/ IsTrail(s[m])
    BY <2>1 DEF Begun
  <2> QED
    BY <2>2, <2>3, NotLetters, Zenon DEF m
<1> HIDE DEF q
<1>5. NoLetter(q)
    BY <1>3, <1>4 DEF NoLetter
<1> QED
    BY <1>5 DEF q

(* A byte that breaks a character: what is in the making is left out, and the  *)
(* byte is read again unless it is all there is.                               *)
BreaksTo(s, k, i, state, ensure_ascii, o, handler, new, j) ==
    /\ i <= Len(s) /\ decode(state, s[i]) = 1 /\ handler \in Handlers
    /\ new = o \o Replacement(handler, ensure_ascii)
    /\ j = IF i > k THEN i ELSE i + 1

LEMMA DumpedRejecting ==
    ASSUME NEW s \in Seq(Bytes), NEW k, NEW i, NEW state, NEW cp, NEW ensure_ascii \in BOOLEAN,
           NEW out, NEW o, NEW w, Dumped(s, k, i, state, cp, ensure_ascii, out, o, w),
           NEW handler, NEW new, NEW j, BreaksTo(s, k, i, state, ensure_ascii, o, handler, new, j),
           NEW next
    PROVE  \E v : Dumped(s, j, j, 0, next, ensure_ascii, new, new, v)
<1>0. /\ i <= Len(s) /\ decode(state, s[i]) = 1 /\ handler \in Handlers
      /\ new = o \o Replacement(handler, ensure_ascii) /\ j = IF i > k THEN i ELSE i + 1
    BY DEF BreaksTo
<1>1. /\ Begun(s, k, i, state) /\ w \in Seq(Bytes) /\ Reads(o, w, 0)
      /\ Ascii(w) = Ascii(SubSeq(s, 1, k - 1))
      /\ IsUtf8(s) => w = SubSeq(s, 1, k - 1) /\ Starts(s, k)
    BY DEF Dumped
<1>2. state \in States /\ k \in Nat \ {0} /\ i \in Nat /\ k <= i /\ i <= Len(s) /\ Len(s) \in Nat
    BY <1>0, <1>1, BegunStates, LenProperties
<1>3. PICK t \in Seq(Bytes) : NoLetter(t) /\ Reads(new, w \o t, 0)
    BY <1>0, <1>1, ReplacementReads
<1> DEFINE e == j - 1
           q == SubSeq(s, k, e)
           p == SubSeq(s, 1, k - 1)
           v == w \o t
<1>4. e \in Nat /\ k <= e + 1 /\ e <= Len(s) /\ j = e + 1 /\ e = IF i > k THEN i - 1 ELSE i
    BY <1>0, <1>2
<1> HIDE DEF e
<1>5. /\ q \in Seq(Bytes) /\ p \in Seq(Bytes) /\ Len(q) = e + 1 - k
      /\ \A n \in 1 .. e + 1 - k : q[n] = s[k + n - 1]
      /\ SubSeq(s, 1, e) = p \o q
    BY <1>2, <1>4, Slice, Zenon
<1> HIDE DEF q, p
<1>6. NoLetter(q)
  <2>1. CASE i > k
    <3>1. e = i - 1
      BY <1>4, <2>1
    <3> QED
      BY <1>1, <1>2, <2>1, <3>1, NoLetterMade DEF q
  <2>2. CASE ~(i > k)
    <3>1. e = k /\ i = k /\ state = 0 /\ Len(q) = 1 /\ q[1] = s[k + 1 - 1] /\ k + 1 - 1 = k
      <4>1. e = k /\ i = k /\ e + 1 - k = 1 /\ k + 1 - 1 = k /\ 1 \in 1 .. 1
        BY <1>2, <1>4, <2>2
      <4>2. state = 0
        BY <1>1, <4>1 DEF Begun
      <4> QED
        BY <1>5, <4>1, <4>2
    <3>2. s[k] \in Bytes
      BY <1>2, <3>1, ElementOfSeq
    <3>3. s[k] \notin Single
      BY <1>0, <3>1, <3>2, DecodeIs
    <3>4. s[k] >= 128
      BY <3>2, <3>3, NotLetters, Zenon
    <3> QED
      BY <3>1, <3>4 DEF NoLetter
  <2> QED
    BY <2>1, <2>2
<1>7. v \in Seq(Bytes) /\ Ascii(v) = Ascii(w) /\ Ascii(p \o q) = Ascii(p)
  <2>1. v \in Seq(Bytes)
    BY <1>1, <1>3, ConcatProperties
  <2> QED
    BY <1>1, <1>3, <1>5, <1>6, <2>1, AsciiSkips, Zenon
<1>8. ~IsUtf8(s)
  <2> SUFFICES ASSUME IsUtf8(s) PROVE FALSE
    OBVIOUS
  <2>1. Starts(s, k) /\ k \in 1 .. Len(s) /\ k # Len(s) + 1
    BY <1>1, <1>2
  <2>2. IsCharacter(s, k) /\ ~IsTrail(s[k])
    BY <2>1 DEF IsUtf8, Starts
  <2> QED
    BY <1>0, <1>1, <1>2, <2>2, CharacterStep, Zenon
<1>9. Ascii(v) = Ascii(SubSeq(s, 1, e))
    BY <1>1, <1>5, <1>7 DEF p
<1> HIDE DEF v
<1>10. Reads(new, v, 0)
    BY <1>3 DEF v
<1>11. Dumped(s, e + 1, e + 1, 0, next, ensure_ascii, new, new, v)
    BY <1>4, <1>7, <1>8, <1>9, <1>10, DumpedAtStart, Zenon
<1> QED
    BY <1>4, <1>11

(* What StringsSurvive says of the written string out of s.                    *)
Survives(s, out) ==
    /\ Scanned(Append(out, Quote)).at = "value_string"
    /\ IsUtf8(Scanned(Append(out, Quote)).token_buffer)
    /\ Ascii(Scanned(Append(out, Quote)).token_buffer) = Ascii(s)
    /\ IsUtf8(s) => Scanned(Append(out, Quote)).token_buffer = s

LEMMA ReadsEnd ==
    ASSUME NEW s, NEW o, NEW w, Reads(o, w, 0), Ascii(w) = Ascii(s), IsUtf8(s) => w = s
    PROVE  Survives(s, o)
<1> DEFINE m == Scanned(o)
           n == Scanned(Append(o, Quote))
<1>1. /\ o \in Seq(Codes) /\ StringOk(m) /\ m.at = "string" /\ m.codepoint1 = 0
      /\ m.token_buffer = w /\ m.ranges = <<>>
    BY DEF Reads, ReadAs, Lacks
<1>2. Quote \in Codes /\ ~(Quote >= U(0))
    BY SMT DEF Quote, Codes, U, eof
<1>3. n = get(m, Quote)
    BY <1>1, <1>2, ScannedFurther
<1> HIDE DEF m, n
<1>4. get(m, Quote) = Goes(m, "value_string")
    BY <1>1, <1>2 DEF get, scan_string
<1>5. n.at = "value_string" /\ n.token_buffer = w
    BY <1>1, <1>3, <1>4, InitialIs DEF Goes, StringOk, Fields
<1>6. WholeTo(w, Len(w) + 1) /\ w \in Seq(Bytes)
    BY <1>1, AtRest DEF StringOk, Fields
<1>7. IsUtf8(w)
    BY <1>6, WholeIsText
<1> QED
    BY <1>5, <1>7 DEF Survives, n

LEMMA DumpedToEnd ==
    ASSUME NEW s \in Seq(Bytes), NEW k, NEW i, NEW state, NEW cp, NEW ensure_ascii \in BOOLEAN,
           NEW out, NEW o, NEW w, Dumped(s, k, i, state, cp, ensure_ascii, out, o, w),
           i = Len(s) + 1
    PROVE  /\ state = 0 => Survives(s, out)
           /\ \A handler \in Handlers :
                 state # 0 => Survives(s, o \o Replacement(handler, ensure_ascii))
<1>1. /\ Begun(s, k, i, state) /\ w \in Seq(Bytes) /\ Reads(o, w, 0)
      /\ out = IF ensure_ascii THEN o ELSE o \o SubSeq(s, k, i - 1)
      /\ Ascii(w) = Ascii(SubSeq(s, 1, k - 1))
      /\ IsUtf8(s) => w = SubSeq(s, 1, k - 1) /\ Starts(s, k)
    BY DEF Dumped
<1>2. /\ k \in Nat \ {0} /\ i \in Nat /\ k <= i /\ Len(s) \in Nat /\ i - 1 = Len(s)
      /\ o \in Seq(Codes)
    BY <1>1, BegunStates, LenProperties DEF Reads
<1>3. SubSeq(s, 1, Len(s)) = s
    BY SubSeqFull
<1>4. ASSUME state = 0 PROVE Survives(s, out)
  <2>1. k = i
    BY <1>1, <1>2, <1>4, PartialIs
  <2>2. SubSeq(s, k, i - 1) = <<>> /\ k - 1 = Len(s)
    BY <1>2, <2>1, SubSeqEmpty
  <2>3. out = o
    BY <1>1, <1>2, <2>2, ConcatEmptySeq
  <2> QED
    BY <1>1, <1>3, <2>2, <2>3, ReadsEnd
<1>5. ASSUME state # 0, NEW handler \in Handlers
      PROVE  Survives(s, o \o Replacement(handler, ensure_ascii))
  <2>1. i > k
    BY <1>1, <1>2, <1>5 DEF Begun
  <2>2. PICK t \in Seq(Bytes) : NoLetter(t) /\ Reads(o \o Replacement(handler, ensure_ascii), w \o t, 0)
    BY <1>1, <1>5, ReplacementReads
  <2> DEFINE q == SubSeq(s, k, i - 1)
             p == SubSeq(s, 1, k - 1)
  <2>3. i - 1 \in Nat /\ k <= (i - 1) + 1 /\ i - 1 <= Len(s)
    BY <1>2
  <2>4. q \in Seq(Bytes) /\ p \in Seq(Bytes) /\ SubSeq(s, 1, i - 1) = p \o q
    BY <1>2, <2>3, Slice, Zenon
  <2>5. NoLetter(q)
    BY <1>1, <2>1, NoLetterMade
  <2>6. Ascii(p \o q) = Ascii(p) /\ Ascii(w \o t) = Ascii(w)
    BY <1>1, <2>2, <2>4, <2>5, AsciiSkips, Zenon
  <2>7. Ascii(w \o t) = Ascii(s)
    BY <1>1, <1>2, <1>3, <2>4, <2>6
  <2>8. ~IsUtf8(s)
    <3> SUFFICES ASSUME IsUtf8(s) PROVE FALSE
      OBVIOUS
    <3>1. k \in 1 .. Len(s) /\ ~IsTrail(s[k]) /\ ~IsCharacter(s, k)
      BY <1>1, <1>5, BreaksOff
    <3>2. Starts(s, k)
      BY <1>1
    <3> QED
      BY <3>1, <3>2 DEF IsUtf8
  <2> HIDE DEF p, q
  <2> QED
    BY <2>2, <2>7, <2>8, ReadsEnd
<1> QED
    BY <1>4, <1>5

SurvivesTo(s, m, k, o, w) ==
    /\ Dumped(s, k, m.i, m.state, m.cp, m.ensure_ascii, m.out, o, w)
    /\ m.accepted = Len(o) /\ m.undumped = m.i - k

Surviving(s, m) ==
    /\ DOMAIN m = DOMAIN Idle
    /\ m.at = "loop" =>
          /\ m.ensure_ascii \in BOOLEAN /\ m.handler \in Handlers
          /\ \E k, o, w : SurvivesTo(s, m, k, o, w)
    /\ m.at = "written" => Survives(s, m.out)

SurviveInv == TextInv /\ Surviving(raw, dumper)

LEMMA IdleIs ==
    DOMAIN Idle = {"at", "ensure_ascii", "handler", "i", "state", "cp", "out", "accepted", "undumped"}
BY DEF Idle

LEMMA SurvivesThrows ==
    ASSUME NEW s, DOMAIN dumper = DOMAIN Idle
    PROVE  Surviving(s, Throws)
BY IdleIs DEF Throws, Surviving

LEMMA SurvivesBegin ==
    ASSUME NEW s \in Seq(Bytes), NEW ensure_ascii \in BOOLEAN, NEW handler \in Handlers
    PROVE  Surviving(s, [Idle EXCEPT !.at = "loop", !.ensure_ascii = ensure_ascii, !.handler = handler])
<1> DEFINE m == [Idle EXCEPT !.at = "loop", !.ensure_ascii = ensure_ascii, !.handler = handler]
<1>1. /\ DOMAIN m = DOMAIN Idle /\ m.at = "loop" /\ m.ensure_ascii = ensure_ascii
      /\ m.handler = handler /\ m.i = 1 /\ m.state = 0 /\ m.out = <<>> /\ m.accepted = 0
      /\ m.undumped = 0
    BY DEF Idle
<1> HIDE DEF m
<1>2. /\ <<>> \in Seq(Bytes) /\ Reads(<<>>, <<>>, 0) /\ Len(s) \in Nat /\ 0 <= Len(s)
      /\ SubSeq(s, 1, 0) = <<>> /\ 0 + 1 = 1 /\ Len(<<>>) = 0
    BY ReadsNothing, LenProperties, SubSeqEmpty
<1>3. IsUtf8(s) => Starts(s, 0 + 1)
    BY DEF IsUtf8
<1>4. Dumped(s, 0 + 1, 0 + 1, 0, m.cp, ensure_ascii, <<>>, <<>>, <<>>)
  <2>1. 0 \in Nat /\ (IsUtf8(s) => <<>> = SubSeq(s, 1, 0) /\ Starts(s, 0 + 1))
        /\ Ascii(<<>>) = Ascii(SubSeq(s, 1, 0))
    BY <1>2, <1>3
  <2> QED
    BY <1>2, <2>1, DumpedAtStart, Zenon
<1>5. SurvivesTo(s, m, 1, <<>>, <<>>)
    BY <1>1, <1>2, <1>4 DEF SurvivesTo
<1> QED
    BY <1>1, <1>5 DEF Surviving, m

LEMMA SurvivesByte == Surviving(raw, dumper) /\ raw \in Seq(Bytes) /\ DumpByte => Surviving(raw, dumper)'
<1> SUFFICES ASSUME Surviving(raw, dumper), raw \in Seq(Bytes), DumpByte
             PROVE  Surviving(raw, dumper')
    BY DEF DumpByte
<1> DEFINE i == dumper.i
           state == dumper.state
           ascii == dumper.ensure_ascii
           out == dumper.out
           b == raw[i]
           d == decode(state, b)
           cp == Codepoint(state, dumper.cp, b)
           m == dumper'
<1>1. /\ dumper.at = "loop" /\ i <= Len(raw) /\ DOMAIN dumper = DOMAIN Idle
      /\ ascii \in BOOLEAN /\ dumper.handler \in Handlers
      /\ m = IF d = 0 THEN Accepts(b, cp) ELSE IF d = 1 THEN Rejects(cp) ELSE GoesOn(b, d, cp)
    BY DEF DumpByte, Surviving
<1>2. PICK k, o, w : SurvivesTo(raw, dumper, k, o, w)
    BY <1>1 DEF Surviving
<1>3. /\ Dumped(raw, k, i, state, dumper.cp, ascii, out, o, w)
      /\ dumper.accepted = Len(o) /\ dumper.undumped = i - k
    BY <1>2 DEF SurvivesTo
<1>4. k \in Nat \ {0} /\ i \in Nat /\ k <= i
  <2>1. Begun(raw, k, i, state)
    BY <1>3 DEF Dumped
  <2> QED
    BY <2>1, BegunStates
<1>5. CASE d = 0
  <2> DEFINE new == out \o Written(cp, b, ascii)
             v == w \o SubSeq(raw, k, i)
  <2>1. m = Accepts(b, cp)
    BY <1>1, <1>5
  <2>2. /\ DOMAIN m = DOMAIN Idle /\ m.at = "loop" /\ m.ensure_ascii = ascii
        /\ m.handler = dumper.handler /\ m.i = i + 1 /\ m.state = 0 /\ m.cp = cp /\ m.out = new
        /\ m.accepted = Len(new) /\ m.undumped = 0
    BY <1>1, <2>1, IdleIs DEF Accepts
  <2>3. Dumped(raw, i + 1, i + 1, 0, cp, ascii, new, new, v)
    BY <1>1, <1>3, <1>5, DumpedAccepting, Zenon
  <2> HIDE DEF i, state, ascii, out, b, d, cp, m, new, v
  <2>4. SurvivesTo(raw, m, i + 1, new, v)
    <3>1. (i + 1) - (i + 1) = 0
      BY <1>4
    <3> QED
      BY <2>2, <2>3, <3>1 DEF SurvivesTo
  <2>5. Surviving(raw, m)
    BY <1>1, <2>2, <2>4 DEF Surviving
  <2> QED
    BY <2>5 DEF m
<1>6. CASE d = 1 /\ dumper.handler = "strict"
  <2>1. m = Throws
    BY <1>1, <1>6 DEF Rejects
  <2> QED
    BY <1>1, <2>1, SurvivesThrows
<1>7. CASE d = 1 /\ dumper.handler # "strict"
  <2> DEFINE new == o \o Replacement(dumper.handler, ascii)
             j == IF i > k THEN i ELSE i + 1
  <2>1. m = [dumper EXCEPT !.i = AfterReject(@, dumper.undumped), !.state = 0, !.cp = cp,
                           !.out = Rejected, !.accepted = Len(Rejected), !.undumped = 0]
    BY <1>1, <1>7 DEF Rejects
  <2>2. Rejected = new
    BY <1>3, DumpedKept DEF Rejected
  <2>3. AfterReject(i, dumper.undumped) = j
    BY <1>3, <1>4 DEF AfterReject
  <2>4. /\ DOMAIN m = DOMAIN Idle /\ m.at = "loop" /\ m.ensure_ascii = ascii
        /\ m.handler = dumper.handler /\ m.i = j /\ m.state = 0 /\ m.cp = cp /\ m.out = new
        /\ m.accepted = Len(new) /\ m.undumped = 0
    BY <1>1, <2>1, <2>2, <2>3, IdleIs
  <2>5. PICK v : Dumped(raw, j, j, 0, cp, ascii, new, new, v)
    <3>1. BreaksTo(raw, k, i, state, ascii, o, dumper.handler, new, j)
      BY <1>1, <1>7 DEF BreaksTo
    <3> HIDE DEF j, new, i, state, ascii, out, b, d, cp, m
    <3> QED
      BY <1>1, <1>3, <3>1, DumpedRejecting, Zenon
  <2> HIDE DEF i, state, ascii, out, b, d, cp, m, new
  <2>6. j - j = 0
    BY <1>4
  <2> HIDE DEF j
  <2>7. SurvivesTo(raw, m, j, new, v)
    BY <2>4, <2>5, <2>6 DEF SurvivesTo
  <2>8. Surviving(raw, m)
    BY <1>1, <2>4, <2>7 DEF Surviving
  <2> QED
    BY <2>8 DEF m
<1>8. CASE d \notin {0, 1}
  <2> DEFINE new == IF ascii THEN out ELSE Append(out, b)
  <2>1. m = GoesOn(b, d, cp)
    BY <1>1, <1>8
  <2>2. /\ DOMAIN m = DOMAIN Idle /\ m.at = "loop" /\ m.ensure_ascii = ascii
        /\ m.handler = dumper.handler /\ m.i = i + 1 /\ m.state = d /\ m.cp = cp /\ m.out = new
        /\ m.accepted = dumper.accepted /\ m.undumped = dumper.undumped + 1
    BY <1>1, <2>1, IdleIs DEF GoesOn
  <2>3. Dumped(raw, k, i + 1, d, cp, ascii, new, o, w)
    BY <1>1, <1>3, <1>8, DumpedGoingOn, Zenon
  <2>4. dumper.undumped + 1 = (i + 1) - k
    BY <1>3, <1>4
  <2> HIDE DEF i, state, ascii, out, b, d, cp, m, new
  <2>5. SurvivesTo(raw, m, k, o, w)
    BY <1>3, <2>2, <2>3, <2>4 DEF SurvivesTo
  <2>6. Surviving(raw, m)
    BY <1>1, <2>2, <2>5 DEF Surviving
  <2> QED
    BY <2>6 DEF m
<1> QED
    BY <1>5, <1>6, <1>7, <1>8

LEMMA SurvivesEnds == Surviving(raw, dumper) /\ raw \in Seq(Bytes) /\ DumpEnds => Surviving(raw, dumper)'
<1> SUFFICES ASSUME Surviving(raw, dumper), raw \in Seq(Bytes), DumpEnds
             PROVE  Surviving(raw, dumper')
    BY DEF DumpEnds
<1>1. /\ dumper.at = "loop" /\ dumper.i > Len(raw) /\ DOMAIN dumper = DOMAIN Idle
      /\ dumper.ensure_ascii \in BOOLEAN /\ dumper.handler \in Handlers
      /\ dumper' = IF dumper.state = 0 THEN [dumper EXCEPT !.at = "written"]
                   ELSE IF dumper.handler = "strict" THEN Throws
                   ELSE [dumper EXCEPT !.at = "written", !.out = Rejected]
    BY DEF DumpEnds, Surviving
<1>2. PICK k, o, w : SurvivesTo(raw, dumper, k, o, w)
    BY <1>1 DEF Surviving
<1>3. Dumped(raw, k, dumper.i, dumper.state, dumper.cp, dumper.ensure_ascii, dumper.out, o, w)
      /\ dumper.accepted = Len(o)
    BY <1>2 DEF SurvivesTo
<1>4. dumper.i = Len(raw) + 1
  <2>1. Begun(raw, k, dumper.i, dumper.state)
    BY <1>3 DEF Dumped
  <2>2. dumper.i \in Nat /\ dumper.i <= Len(raw) + 1 /\ Len(raw) \in Nat
    BY <2>1, BegunStates, LenProperties
  <2> QED
    BY <1>1, <2>2
<1>5. /\ dumper.state = 0 => Survives(raw, dumper.out)
      /\ dumper.state # 0 => Survives(raw, o \o Replacement(dumper.handler, dumper.ensure_ascii))
    BY <1>1, <1>3, <1>4, DumpedToEnd, Zenon
<1>6. Rejected = o \o Replacement(dumper.handler, dumper.ensure_ascii)
    BY <1>3, DumpedKept DEF Rejected
<1>7. CASE dumper.state = 0
  <2>1. DOMAIN dumper' = DOMAIN Idle /\ dumper'.at = "written" /\ dumper'.out = dumper.out
    BY <1>1, <1>7, IdleIs
  <2> QED
    BY <1>5, <1>7, <2>1 DEF Surviving
<1>8. CASE dumper.state # 0 /\ dumper.handler = "strict"
    BY <1>1, <1>8, SurvivesThrows
<1>9. CASE dumper.state # 0 /\ dumper.handler # "strict"
  <2>1. DOMAIN dumper' = DOMAIN Idle /\ dumper'.at = "written" /\ dumper'.out = Rejected
    BY <1>1, <1>9, IdleIs
  <2> QED
    BY <1>5, <1>6, <1>9, <2>1 DEF Surviving
<1> QED
    BY <1>7, <1>8, <1>9

LEMMA SurviveInit == Init => SurviveInv
<1> SUFFICES ASSUME Init PROVE SurviveInv
    OBVIOUS
<1>1. dumper = Idle
    BY DEF Init, DumpInit
<1>2. Idle.at = "idle"
    BY DEF Idle
<1> QED
    BY <1>1, <1>2, TextInit DEF SurviveInv, Surviving

LEMMA SurviveStep == SurviveInv /\ [Next]_vars => SurviveInv'
<1> SUFFICES ASSUME SurviveInv, [Next]_vars PROVE SurviveInv'
    OBVIOUS
<1>1. TextInv'
    BY TextStep DEF SurviveInv
<1>2. raw \in Seq(Bytes) /\ Surviving(raw, dumper) /\ LexerOk(lexer)
    BY DEF SurviveInv, TextInv, DumpInv
<1>3. CASE UNCHANGED <<raw, dumper>>
    BY <1>1, <1>2, <1>3 DEF SurviveInv
<1>4. CASE TakeByte
  <2>1. dumper.at = "idle" /\ dumper' = dumper
    BY <1>4 DEF TakeByte, RawByte
  <2>2. Surviving(raw', dumper')
    BY <1>2, <2>1 DEF Surviving
  <2> QED
    BY <1>1, <2>2 DEF SurviveInv
<1>5. CASE BeginDump
  <2>1. PICK ensure_ascii \in BOOLEAN, handler \in Handlers :
            dump_escaped(IF subject = "raw" THEN raw ELSE lexer.token_buffer, ensure_ascii, handler)
    BY <1>5 DEF BeginDump
  <2>2. dumper' = [Idle EXCEPT !.at = "loop", !.ensure_ascii = ensure_ascii, !.handler = handler]
    BY <2>1 DEF dump_escaped
  <2>3. raw' \in Seq(Bytes)
    BY <1>1 DEF TextInv, DumpInv
  <2>4. Surviving(raw', dumper')
    BY <2>2, <2>3, SurvivesBegin
  <2> QED
    BY <1>1, <2>4 DEF SurviveInv
<1>6. CASE Dump
    BY <1>1, <1>2, <1>6, SurvivesByte, SurvivesEnds DEF Dump, SurviveInv
<1>7. CASE ReadNumber \/ ReadString \/ ReadToken \/ ParseToken \/ UNCHANGED vars
  <2>1. UNCHANGED <<raw, dumper>>
    BY <1>7 DEF ReadNumber, ReadString, ReadToken, Reads1, ParseToken, vars, dumpVars
  <2> QED
    BY <1>3, <2>1
<1> QED
    BY <1>4, <1>5, <1>6, <1>7 DEF Next

(* Of any bytes at all, and with every handler, what dump has written is a     *)
(* string that the lexer accepts as text in UTF-8: the same text where it was  *)
(* text, and with the same letters in the same order where it was not          *)
(* (dump_escaped, and scan_string of what it wrote).                           *)
THEOREM DumpedStringsSurvive == Spec => []StringsSurvive
<1>1. SurviveInv => StringsSurvive
    BY DEF SurviveInv, Surviving, Survives, StringsSurvive
<1> QED
    BY <1>1, SurviveInit, SurviveStep, PTL DEF Spec
================================================================================
