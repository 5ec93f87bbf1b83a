-------------------------------- MODULE Deep ---------------------------------
(***************************************************************************)
(* The comparison of go-test/deep, on the values of Resources.  It goes as *)
(* deep as MaxDepth = 10, so that its recursion is written out: one        *)
(* operator for each level, and one for what is beyond.                    *)
(***************************************************************************)
EXTENDS Resources

\* What a value that may be a pointer points to.
Elem(v) == IF "ptr" \in DOMAIN v THEN v.ptr ELSE Zero

\* Whether two values are of one kind, as far as that is looked at where they are
\* compared: of a pointer it is looked at one level further down.
Alike(a, b) ==
  LET Both(tag) == tag \in DOMAIN a /\ tag \in DOMAIN b IN
  \/ "ptr" \in DOMAIN a \/ "ptr" \in DOMAIN b
  \/ Both("object")
  \/ Both("map") /\ DOMAIN a.map = DOMAIN b.map
  \/ Both("array") /\ Len(a.array) = Len(b.array)
  \/ Both("quantity")

\* What is compared of them there, in pairs.  Of a Quantity only the Format is
\* exported.
Pairs(a, b) ==
  CASE "ptr" \in DOMAIN a \/ "ptr" \in DOMAIN b -> {<<Elem(a), Elem(b)>>}
    [] "object" \in DOMAIN a ->
         {<<Field(a, f), Field(b, f)>> : f \in DOMAIN a.object \cup DOMAIN b.object}
    [] "map" \in DOMAIN a -> {<<a.map[k], b.map[k]>> : k \in DOMAIN a.map}
    [] "array" \in DOMAIN a -> {<<a.array[i], b.array[i]>> : i \in DOMAIN a.array}
    [] "quantity" \in DOMAIN a -> {<<Str(a.format), Str(b.format)>>}

\* Whether no difference is found between two values; Inside says it of what is
\* in them, one level further down.
Compare(a, b, Inside(_, _)) ==
  \/ a = b
  \/ /\ Alike(a, b)
     /\ \A pair \in Pairs(a, b) : Inside(pair[1], pair[2])

BeyondMaxDepth(a, b) == TRUE

EqualAt10(a, b) == Compare(a, b, BeyondMaxDepth)
EqualAt9(a, b) == Compare(a, b, EqualAt10)
EqualAt8(a, b) == Compare(a, b, EqualAt9)
EqualAt7(a, b) == Compare(a, b, EqualAt8)
EqualAt6(a, b) == Compare(a, b, EqualAt7)
EqualAt5(a, b) == Compare(a, b, EqualAt6)
EqualAt4(a, b) == Compare(a, b, EqualAt5)
EqualAt3(a, b) == Compare(a, b, EqualAt4)
EqualAt2(a, b) == Compare(a, b, EqualAt3)
EqualAt1(a, b) == Compare(a, b, EqualAt2)
EqualAt0(a, b) == Compare(a, b, EqualAt1)

\* Equal is nil if no difference is found.
DeeplyEqual(a, b) == EqualAt0(a, b)
=============================================================================
