------------------------------ MODULE XaceCodec ------------------------------
(***************************************************************************)
(* The serialisation of xace (src/xace/codec): what EncodeArgs writes for  *)
(* a Go value and what DecodeArgs makes of it in a receiver of another     *)
(* type, without an action of its own.                                     *)
(*                                                                         *)
(* A byte is a number below 2 * Half, Half being the continuation bit of a *)
(* varint.  A Go type is a record with its kind in k, and a Go value is    *)
(* a number (also a bool), a sequence of bytes (string, []byte), of values *)
(* (slice, struct) or of pairs (map, in the order MapRange visits it).  A  *)
(* pointer is << >> or a sequence of one; a receiver's pointers are not    *)
(* told from what they point to, since the decoder allocates them.         *)
(*                                                                         *)
(* The decoder reads a slice: n bytes that count, and after them whatever  *)
(* else the array holds, which slicing (not indexing) reaches.             *)
(***************************************************************************)
EXTENDS Integers, Sequences, FiniteSetsExt, SequencesExt

CONSTANTS
  Half,      \* the continuation bit (128)
  Word,      \* 2^64
  Word32     \* 2^32

ASSUME WidthAssumption ==
  /\ {Half, Word, Word32} \subseteq Nat \ {0}
  /\ Half >= 12 /\ Word32 <= Word

\* FIELDTYPE
FT_CHAR == 1
FT_NUMBER == 2
FT_STRING == 3
FT_ARRAY == 4
FT_MAP == 5
FT_STRUCT == 6
FT_FLOAT == 7
FT_BYTES == 8

Ints == {"int", "int32"}
Uints == {"uint", "uint32", "uint8"}
Numbers == {"int", "int32", "uint", "uint32"}

Width(k) == CASE k \in {"int", "uint"}     -> Word
              [] k \in {"int32", "uint32"} -> Word32
              [] k = "uint8"               -> 2 * Half

Signed(n, w) == IF n % w >= w \div 2 THEN (n % w) - w ELSE n % w

\* reflect.Value.SetInt and SetUint keep the low bits.
Fit(n, k) == IF k \in Ints THEN Signed(n, Width(k)) ELSE n % Width(k)

Truth(n) == IF n = 0 THEN 0 ELSE 1

-----------------------------------------------------------------------------
(* strconv: the decimal digit d is the byte d, the sign the byte after them *)

Minus == 10

RECURSIVE Decimal(_)
Decimal(n) == IF n < 10 THEN <<n>> ELSE Append(Decimal(n \div 10), n % 10)

Itoa(n) == IF n < 0 THEN <<Minus>> \o Decimal(-n) ELSE Decimal(n)

\* ParseInt without its error: 0 for what is no number, the nearest bound out of range.
ParseInt(s) ==
  LET negative == s # << >> /\ s[1] = Minus
      digits   == IF negative THEN Tail(s) ELSE s
      size     == FoldLeft(LAMBDA n, d : 10 * n + d, 0, digits)
  IN CASE digits = << >> \/ \E i \in DOMAIN digits : digits[i] > 9 -> 0
       [] OTHER -> IF negative THEN -Min({size, Word \div 2})
                               ELSE Min({size, Word \div 2 - 1})

-----------------------------------------------------------------------------
(* Encoding: encode.go *)

RECURSIVE PackUint(_)

\* Mutant: the loop ends one value too late, with the continuation bit in the last byte.
PackUintPlain(n) == IF n <= Half THEN <<n>>
                    ELSE <<Half + (n % Half)>> \o PackUint(n \div Half)

PackUint(n) == IF n < Half THEN <<n>>
               ELSE <<Half + (n % Half)>> \o PackUint(n \div Half)

PackBytes(s) == PackUint(Len(s)) \o s

\* Only one pointer is followed.
Indirect(t) == IF t.k = "ptr" THEN t.e ELSE t

\* The kinds without a case of their own: nothing is written, neither type nor value.
\* (complex64, func, chan and uintptr are like them.)
Uncoded(t) == Indirect(t).k \in {"int8", "interface", "ptr"}

\* getValFieldType has no answer, and panics, for other elements of slices and maps.
ElementKinds == Numbers \cup {"string", "float", "struct"}

\* What EncodeValue does not panic at: a nil pointer, a uint8, an element of another kind.
\* It asks for a nil pointer before it looks at the kind, and only for the first one.
RECURSIVE Encodable(_, _)
Encodable(t, v) ==
  CASE t.k = "ptr"    -> v # << >> /\ (Uncoded(t) \/ Encodable(t.e, v[1]))
    [] t.k = "uint8"  -> FALSE
    [] t.k = "slice"  -> /\ Indirect(t.e).k \in ElementKinds
                         /\ \A i \in DOMAIN v : Encodable(t.e, v[i])
    [] t.k = "map"    -> /\ {Indirect(t.key).k, Indirect(t.e).k} \subseteq ElementKinds
                         /\ \A i \in DOMAIN v : /\ Encodable(t.key, v[i][1])
                                                /\ Encodable(t.e, v[i][2])
    [] t.k = "struct" -> \A i \in DOMAIN v : Encodable(t.f[i], v[i])
    [] OTHER          -> TRUE

RECURSIVE TypeCode(_)
TypeCode(t) ==
  CASE t.k = "ptr"      -> TypeCode(t.e)
    [] t.k = "bool"     -> <<FT_CHAR>>
    [] t.k \in Numbers  -> <<FT_NUMBER>>
    [] t.k = "float"    -> <<FT_FLOAT>>
    [] t.k = "string"   -> <<FT_STRING>>
    [] t.k = "bytes"    -> <<FT_BYTES>>
    [] t.k = "slice"    -> <<FT_ARRAY>> \o TypeCode(t.e)
    [] t.k = "map"      -> <<FT_MAP>> \o TypeCode(t.key) \o TypeCode(t.e)
    [] t.k = "struct"   -> <<FT_STRUCT>>

\* encodeValueNoType, and the part of EncodeValue after the type.
RECURSIVE Body(_, _)
EncodeValue(t, v) == IF Uncoded(t) THEN << >> ELSE TypeCode(t) \o Body(t, v)
Body(t, v) ==
  CASE t.k = "ptr"    -> Body(t.e, v[1])
    [] t.k = "bool"   -> <<v>>
    [] t.k = "string" -> PackBytes(v)
    [] t.k = "bytes"  -> PackBytes(v)
    [] t.k = "struct" -> <<Len(v)>> \o FlattenSeq([i \in DOMAIN v |-> EncodeValue(t.f[i], v[i])])
    [] t.k = "slice"  -> PackUint(Len(v)) \o FlattenSeq([i \in DOMAIN v |-> Body(t.e, v[i])])
    [] t.k = "map"    -> PackUint(Len(v)) \o
         FlattenSeq([i \in DOMAIN v |-> Body(t.key, v[i][1]) \o Body(t.e, v[i][2])])
    [] OTHER          -> PackUint(v % Word)

\* EncodeArgs of a list of arguments; one argument that is no list is a list of one.
EncodeArgs(items) ==
  <<Len(items)>> \o FlattenSeq([i \in DOMAIN items |-> EncodeValue(items[i].t, items[i].v)])

ArgsEncodable(items) == \A i \in DOMAIN items : Encodable(items[i].t, items[i].v)

-----------------------------------------------------------------------------
(* Decoding: decode.go.  A step reads d from p on and gives the next position. *)

\* A slice of bytes: the array from its start to its capacity, and the length.
Data(bytes) == [b |-> bytes, n |-> Len(bytes)]
Window(array, from, to) == [b |-> SubSeq(array, from, Len(array)), n |-> to - from + 1]

Panic == [ok |-> FALSE, pos |-> 0, val |-> 0]
Got(p, v) == [ok |-> TRUE, pos |-> p, val |-> v]

\* What follows a step; and n steps one after the other, with what they give so far.
Then(r, Next(_)) == IF r.ok THEN Next(r) ELSE Panic
Joined(acc, r) == IF r.ok THEN Got(r.pos, Append(acc.val, r.val)) ELSE [acc EXCEPT !.ok = FALSE]
Steps(Step(_, _), n, p) ==
  FoldLeft(LAMBDA acc, i : IF acc.ok THEN Joined(acc, Step(i, acc.pos)) ELSE acc,
           Got(p, << >>), [i \in 1..n |-> i])

\* A varint is what its last byte ends; 0 when the data ends first, with all of it read.
Varint(d, p, lasts) ==
  IF lasts = {} THEN Got(Max({p, d.n + 1}), 0)
  ELSE Got(Min(lasts) + 1,
           MapThenSumSet(LAMBDA i : (d.b[i] % Half) * Half^(i - p), p..Min(lasts)) % Word)
UnpackUint(d, p) == Varint(d, p, {i \in p..d.n : d.b[i] < Half})

\* data[curpos : curpos+n] is bounded by the capacity: past the length it gives what an
\* earlier message left in the array.
Cut(d, p, n) == IF n < 0 \/ p + n > Len(d.b) + 1 THEN Panic
                ELSE Got(p + n, SubSeq(d.b, p, p + n - 1))
UnpackBytes(d, p) == Then(UnpackUint(d, p), LAMBDA n : Cut(d, n.pos, Signed(n.val, Word)))

SubTypes(code) == CASE code = FT_ARRAY -> 1 [] code = FT_MAP -> 2 [] OTHER -> 0

RECURSIVE UnpackField(_, _)
UnpackField(d, p) ==
  IF p > d.n THEN Panic
  ELSE Then(Steps(LAMBDA i, q : UnpackField(d, q), SubTypes(d.b[p]), p + 1),
            LAMBDA subs : Got(subs.pos, [base |-> d.b[p], sub |-> subs.val]))

RECURSIVE Zero(_)
Zero(t) == CASE t.k = "struct" -> [i \in DOMAIN t.f |-> Zero(t.f[i])]
             [] t.k \in {"string", "bytes", "slice"} -> << >>
             [] t.k = "map" -> {}
             [] OTHER -> 0

\* SetMapIndex for every pair in turn.
Stored(pairs) == FoldLeft(LAMBDA m, p : {q \in m : q[1] # p[1]} \cup {p}, {}, pairs)

ElementType(t) == IF t.k = "bytes" THEN [k |-> "uint8"] ELSE t.e

DecodeChar(t, d, p) ==
  CASE p > d.n                   -> Panic
    [] t.k = "bool"              -> Got(p + 1, Truth(d.b[p]))
    [] t.k \in Ints \cup Uints   -> Got(p + 1, Fit(d.b[p], t.k))
    [] OTHER                     -> Panic

DecodeNumber(t, u) ==
  CASE t.k = "bool"              -> Got(u.pos, Truth(u.val))
    [] t.k \in Ints \cup Uints   -> Got(u.pos, Fit(u.val, t.k))
    [] t.k = "string"            -> Got(u.pos, Itoa(Signed(u.val, Word)))
    [] OTHER                     -> Panic

\* SetInt on an unsigned receiver panics, as on any other kind.
DecodeString(t, s) ==
  CASE t.k = "string" -> s
    [] t.k \in Ints   -> Got(s.pos, Fit(ParseInt(s.val), t.k))
    [] OTHER          -> Panic

\* Fields the receiver lacks lose their type, not their value; those it has and that
\* were not sent keep what they had.
Fields(t, known, extra) ==
  [ok  |-> known.ok /\ extra.ok,
   pos |-> extra.pos,
   val |-> [i \in DOMAIN t.f |-> IF i \in DOMAIN known.val THEN known.val[i] ELSE Zero(t.f[i])]]

DecodeStruct(t, d, p, Field(_, _)) ==
  IF p > d.n \/ t.k # "struct" THEN Panic
  ELSE LET Filled(known) ==
             Fields(t, known, Steps(LAMBDA i, q : UnpackField(d, q), d.b[p] - Len(t.f), known.pos))
       IN Filled(Steps(Field, Min({d.b[p], Len(t.f)}), p + 1))

\* The rest, FT_FLOAT among it, reads nothing and leaves the receiver alone.
RECURSIVE DecodeByField(_, _, _, _)
DecodeValue(t, d, p) ==
  Then(UnpackField(d, p), LAMBDA field : DecodeByField(field.val, t, d, field.pos))
DecodeByField(field, t, d, p) ==
  CASE field.base = FT_CHAR   -> DecodeChar(t, d, p)
    [] field.base = FT_NUMBER -> DecodeNumber(t, UnpackUint(d, p))
    [] field.base = FT_STRING -> Then(UnpackBytes(d, p), LAMBDA s : DecodeString(t, s))
    [] field.base = FT_BYTES  -> IF t.k = "bytes" THEN UnpackBytes(d, p) ELSE Panic
    [] field.base = FT_STRUCT -> DecodeStruct(t, d, p, LAMBDA i, q : DecodeValue(t.f[i], d, q))
    [] field.base = FT_ARRAY  ->
         Then(UnpackUint(d, p), LAMBDA u :
           IF t.k \notin {"slice", "bytes"} \/ Signed(u.val, Word32) < 0 THEN Panic
           ELSE Steps(LAMBDA i, q : DecodeByField(field.sub[1], ElementType(t), d, q),
                      Signed(u.val, Word32), u.pos))
    [] field.base = FT_MAP    ->
         LET Value(key) == Then(DecodeByField(field.sub[2], t.e, d, key.pos),
                                LAMBDA v : Got(v.pos, <<key.val, v.val>>))
             Entry(i, q) == Then(DecodeByField(field.sub[1], t.key, d, q), Value)
         IN IF t.k # "map" THEN Panic
            ELSE Then(UnpackUint(d, p), LAMBDA u :
                   Then(Steps(Entry, Signed(u.val, Word32), u.pos),
                        LAMBDA m : Got(m.pos, Stored(m.val))))
    [] OTHER                  -> Got(p, Zero(t))

\* DecodeArgs into a list of pointers; too few values leave the last ones alone.
DecodeList(ts, d) ==
  IF d.n = 0 THEN [Panic EXCEPT !.val = << >>]
  ELSE Steps(LAMBDA i, q : DecodeValue(ts[i], d, q), Min({Len(ts), d.b[1]}), 2)

\* DecodeArgs into anything else, which has to be a struct: the list is its fields.
DecodeArgs(ts, d) ==
  DecodeStruct([k |-> "struct", f |-> ts], d, 1, LAMBDA i, q : DecodeValue(ts[i], d, q))

-----------------------------------------------------------------------------
(* What a value of type t becomes in a receiver of type r, without any bytes *)

Refused == [ok |-> FALSE, val |-> 0]
As(v) == [ok |-> TRUE, val |-> v]

All(items) == [ok  |-> \A i \in DOMAIN items : items[i].ok,
               val |-> [i \in DOMAIN items |-> items[i].val]]
Each(vs, Item(_)) == All([i \in DOMAIN vs |-> Item(i)])
Zipped(keys, values) ==
  IF keys.ok /\ values.ok
  THEN As(Stored([i \in DOMAIN keys.val |-> <<keys.val[i], values.val[i]>>])) ELSE Refused

RECURSIVE Convert(_, _, _)
Convert(t, v, r) ==
  CASE t.k = "ptr" -> Convert(t.e, v[1], r)
    [] t.k = "bool" /\ r.k \in {"bool"} \cup Ints \cup Uints -> As(v)
    [] t.k \in Numbers /\ r.k = "bool" -> As(Truth(v))
    [] t.k \in Numbers /\ r.k \in Ints \cup Uints -> As(Fit(v, r.k))
    [] t.k \in Numbers /\ r.k = "string" -> As(Itoa(Signed(v, Word)))
    [] t.k = "string" /\ r.k = "string" -> As(v)
    [] t.k = "string" /\ r.k \in Ints -> As(Fit(ParseInt(v), r.k))
    [] t.k = "bytes" /\ r.k = "bytes" -> As(v)
    [] t.k = "slice" /\ r.k \in {"slice", "bytes"} ->
         Each(v, LAMBDA i : Convert(t.e, v[i], ElementType(r)))
    [] t.k = "map" /\ r.k = "map" ->
         Zipped(Each(v, LAMBDA i : Convert(t.key, v[i][1], r.key)),
                Each(v, LAMBDA i : Convert(t.e, v[i][2], r.e)))
    [] t.k = "struct" /\ r.k = "struct" ->
         Each(r.f, LAMBDA i : IF i \in DOMAIN v THEN Convert(t.f[i], v[i], r.f[i])
                                                ELSE As(Zero(r.f[i])))
    [] OTHER -> Refused

\* What the decoder cannot read past: a value that was not written at all, a float, and
\* a struct with fields the receiver does not have.  Whatever follows such a value is read
\* from the wrong place; what follows one that was not written is read in its place.
RECURSIVE Skews(_, _)
Skews(t, r) ==
  CASE Uncoded(t)    -> TRUE
    [] t.k = "ptr"   -> Skews(t.e, r)
    [] t.k = "float" -> TRUE
    [] t.k = "slice" /\ r.k = "slice" -> Skews(t.e, r.e)
    [] t.k = "map" /\ r.k = "map" -> Skews(t.key, r.key) \/ Skews(t.e, r.e)
    [] t.k = "struct" /\ r.k = "struct" ->
         \/ Len(t.f) > Len(r.f)
         \/ \E i \in DOMAIN t.f : Skews(t.f[i], r.f[i])
    [] OTHER -> FALSE

\* The items up to the first that skews the rest or cannot be converted are what they
\* have to be, and without one of the former decoding fails exactly if one of the latter.
Agrees(result, items, ts) ==
  LET both == 1..Min({Len(items), Len(ts)})
      Holds(skewed, converted) ==
        /\ \A i \in both : (\A j \in 1..i : j \notin skewed /\ converted[j].ok)
             => result.val[i] = converted[i].val
        /\ skewed = {} /\ Len(items) <= Len(ts)
             => (result.ok <=> \A i \in both : converted[i].ok)
  IN Holds({i \in both : Skews(items[i].t, ts[i])},
           [i \in both |-> Convert(items[i].t, items[i].v, ts[i])])
=============================================================================
