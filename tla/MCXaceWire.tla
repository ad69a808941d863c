----------------------------- MODULE MCXaceWire -----------------------------
(* Instances of XaceWire: values of every kind into receivers of every kind, one call *)
(* each, and two concurrent calls whose messages differ in length.            *)
EXTENDS XaceWire

CONSTANTS call1, call2

T(k) == [k |-> k]
Slice(e) == [k |-> "slice", e |-> e]
Map(key, e) == [k |-> "map", key |-> key, e |-> e]
Struct(f) == [k |-> "struct", f |-> f]
Ptr(e) == [k |-> "ptr", e |-> e]
Item(t, v) == [t |-> t, v |-> v]

\* Letters are bytes from 11 on; 4, 2 is the text "42" and 10, 7 the text "-7".
Items ==
  << Item(T("bool"), 1), Item(T("int"), -3), Item(T("int"), 16), Item(T("int"), 1000),
     Item(T("int32"), -128), Item(T("uint"), 2047), Item(T("uint32"), 130),
     Item(T("string"), <<4, 2>>), Item(T("string"), <<10, 7>>),
     Item(T("string"), <<9, 9, 9, 9>>), Item(T("string"), <<11>>), Item(T("string"), << >>),
     Item(T("bytes"), <<31, 4>>), Item(T("float"), 5), Item(T("uint8"), 3),
     Item(Slice(T("int")), <<1, 300>>), Item(Slice(T("string")), << <<5>>, <<12>> >>),
     Item(Slice(T("bool")), << >>), Item(Slice(Ptr(T("int"))), << <<2>>, << >> >>),
     Item(Map(T("int"), T("string")), << <<7, <<11>> >>, <<263, <<12>> >> >>),
     Item(Struct(<<T("int"), T("string")>>), <<17, <<6>> >>),
     Item(Struct(<<T("int"), Ptr(T("int")), T("bool")>>), <<1, <<2>>, 1>>),
     Item(Slice(Struct(<<T("uint32")>>)), << <<200>>, <<3>> >>),
     Item(T("int8"), 5), Item(Ptr(Ptr(T("int"))), << << 4>> >>),
     Item(Struct(<<T("interface"), T("int")>>), <<1, 2>>) >>

Receivers ==
  << T("bool"), T("int"), T("int32"), T("uint"), T("uint8"), T("string"), T("bytes"),
     Slice(T("int32")), Slice(Struct(<<T("int"), T("int")>>)),
     Map(T("int32"), T("string")), Struct(<<T("int32"), T("string")>>),
     Struct(<<T("string"), T("uint"), T("bool"), T("int")>>) >>

Plain(ret) ==
  [oneway |-> FALSE, path |-> <<11>>, method |-> <<12>>, meta |-> {}, args |-> << >>,
   recv |-> << >>, style |-> "retcode", ret |-> ret, reply |-> Item(T("int"), 6),
   target |-> T("int")]

\* One call, with a number after the value; the reply has the same types.
Conversion(item, r) ==
  [c \in {call1} |->
    [Plain(-2) EXCEPT !.args = <<item, Item(T("int"), 77)>>, !.recv = <<r, T("int")>>,
                      !.reply = item, !.target = r]]

Conversions ==
  [n \in 1..(Len(Items) * Len(Receivers)) |->
    Conversion(Items[1 + ((n - 1) \div Len(Receivers))],
               Receivers[1 + ((n - 1) % Len(Receivers))])]

Named(w, m) == [w EXCEPT !.method = <<m>>]
Sends(w, args, recv) == [w EXCEPT !.args = args, !.recv = recv]

Short == Sends(Plain(0), <<Item(T("bool"), 1)>>, <<T("bool")>>)
Long == Sends(Plain(-1), <<Item(T("string"), <<11, 12, 13, 14, 15, 16, 17, 18>>)>>, <<T("string")>>)
Longest ==
  Sends([Plain(1) EXCEPT !.meta = {<< <<20>>, <<21>> >>, << <<22>>, << >> >>}],
        <<Item(T("bytes"), [i \in 1..16 |-> i])>>, <<T("bytes")>>)

\* The shortest message to a service that has a name: eight bytes, as many as are read
\* before the length is known.
Bare == [Plain(3) EXCEPT !.method = << >>, !.oneway = TRUE]

\* Short messages into the arrays and buffers of long ones; one-way calls, the first of
\* them without a number; a missing service, arguments it cannot take, a reply that cannot
\* be encoded, one that is not written at all, and methods that return errors.
Meetings ==
  << (call1 :> Named(Short, 12) @@ call2 :> Named(Long, 13)),
     (call1 :> Bare @@ call2 :> Named(Short, 13)),
     (call1 :> Named([Short EXCEPT !.oneway = TRUE], 12) @@ call2 :> Named(Longest, 13)),
     (call1 :> Named([Long EXCEPT !.style = "missing"], 12)
        @@ call2 :> Named([Short EXCEPT !.recv = <<Slice(T("int"))>>], 13)),
     (call1 :> Named([Long EXCEPT !.reply = Item(T("uint8"), 1)], 12)
        @@ call2 :> Named(Short, 13)),
     (call1 :> Named([Short EXCEPT !.reply = Item(T("int8"), 1)], 12)
        @@ call2 :> Named(Long, 13)),
     (call1 :> Named([Short EXCEPT !.style = "error"], 12)
        @@ call2 :> Named([Long EXCEPT !.style = "error", !.ret = 0], 13)) >>

NoCode == -99
ErrorPair == << <<23>>, <<24>> >>

Scripts == Conversions \o Meetings
=============================================================================
