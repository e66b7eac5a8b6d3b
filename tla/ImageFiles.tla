----------------------------- MODULE ImageFiles -----------------------------
(***************************************************************************)
(* The two file formats of an image, pexport text and bicimage, as writers *)
(* and readers: polyml-image/src/pexport.rs and bicimage.rs.               *)
(*                                                                         *)
(* A text is a sequence of characters, each a string.  Names and bytes are *)
(* sequences of numbers below Byte; the code's decimal digits, two hex     *)
(* digits of a byte and 7-bit groups of a varint keep their number in      *)
(* Decimal, Hex and Group.                                                 *)
(***************************************************************************)
EXTENDS Words

CONSTANTS Decimal, Hex, Group

ASSUME FileRadices == {Decimal, Hex, Group} \subseteq 2 .. 16 /\ Hex * Hex = Byte

Tagged(n) == [tag |-> "tagged", n |-> n]
Ref(id) == [tag |-> "ref", n |-> id]

\* Image::objects: a closure's code address is the first of its values.
Node(flags, body, values, bytes) ==
  [flags |-> flags, body |-> body, values |-> values, bytes |-> bytes]
Image(root, word_size, objects) == [root |-> root, word_size |-> word_size, objects |-> objects]
Failed == [root |-> 0, word_size |-> 0, objects |-> <<>>]

Flags == <<"M", "N", "V", "W">>
Bodies == <<"O", "C", "L", "S", "B", "F", "E", "K">>
HasBytes == {"S", "B", "F", "E"}

-----------------------------------------------------------------------------
(* Numerals, most significant digit first *)

Places(n, base) == 1 + Cardinality({k \in 1 .. 7 : base^k <= n})
Numeral(n, base) ==
  LET len == Places(n, base) IN [i \in 1 .. len |-> (n \div base^(len - i)) % base]
ValueOf(digits, base) == FoldLeft(LAMBDA v, d : base * v + d, 0, digits)

Characters == <<"0", "1", "2", "3", "4", "5", "6", "7", "8", "9", "a", "b", "c", "d", "e", "f">>
Char(d) == Characters[d + 1]
Chars(digits) == [i \in DOMAIN digits |-> Char(digits[i])]
DigitOf(char) == SelectInSeq(Characters, LAMBDA c : c = char) - 1
Digits(base) == {Characters[i] : i \in 1 .. base}

-----------------------------------------------------------------------------
(* pexport: the writer *)

Number(n) == Chars(Numeral(n, Decimal))
TextOf(v) ==
  CASE v.tag = "ref" -> <<"@">> \o Number(v.n)
    [] v.n < 0 -> <<"-">> \o Number(-v.n)
    [] OTHER -> Number(v.n)
Join(parts) ==
  FoldLeft(LAMBDA text, part : IF text = <<>> THEN part ELSE text \o <<",">> \o part, <<>>, parts)
List(values) == Join([i \in DOMAIN values |-> TextOf(values[i])])
HexDigits(bytes) == FlattenSeq([i \in DOMAIN bytes |->
  <<Char(bytes[i] \div Hex), Char(bytes[i] % Hex)>>])

\* Mutant of Counted: a closure counts its captured values only.
Counted_Captured(node) ==
  CASE node.body = "C" -> Len(node.values) - 1
    [] node.body = "F" -> Len(node.values)
    [] node.body \in HasBytes -> Len(node.bytes)
    [] OTHER -> Len(node.values)

\* The first count of an object line.
Counted(node) ==
  CASE node.body \in {"O", "C", "L", "F"} -> Len(node.values)
    [] OTHER -> Len(node.bytes)

Payload(node) ==
  CASE node.body \in {"O", "C", "L"} -> List(node.values)
    [] node.body \in {"S", "B"} -> HexDigits(node.bytes)
    [] node.body = "F" -> HexDigits(node.bytes) \o <<"|">> \o List(node.values) \o <<"|">>
    [] node.body = "E" -> Chars(node.bytes)
write_object(id, node) ==
  Number(id) \o <<":">> \o SelectSeq(Flags, LAMBDA f : f \in node.flags) \o <<node.body>>
    \o (CASE node.body = "K" -> <<>>
          [] node.body = "F" -> Number(Counted(node)) \o <<",">> \o Number(Len(node.bytes)) \o <<"|">> \o Payload(node)
          [] OTHER -> Number(Counted(node)) \o <<"|">> \o Payload(node))
    \o <<"\n">>

WriteText(image) ==
  <<"Objects", "\t">> \o Number(Len(image.objects))
    \o <<"\n", "Root", "\t">> \o Number(image.root) \o <<" ", "I", " ">> \o Number(image.word_size) \o <<"\n">>
    \o FlattenSeq([i \in DOMAIN image.objects |-> write_object(i - 1, image.objects[i])])

-----------------------------------------------------------------------------
(* pexport: the reader.  A position of 0 is the error, which every further *)
(* step passes on; behind the end there is no character.                   *)

At(f, p) == IF p \in DOMAIN f THEN f[p] ELSE ""
Got(v, p) == [v |-> v, p |-> p]
expect(f, p, char) == IF At(f, p) = char THEN p + 1 ELSE 0
Behind(f, p, run) ==
  IF p = 0 THEN 0 ELSE Min({q \in p .. Len(f) + 1 : q > Len(f) \/ f[q] \notin run} \cup {Max({p, Len(f) + 1})})
Blank == {" ", "\t"}
LineEnd == {"\n", "\r"}

read_u64(f, p) ==
  LET q == Behind(f, p, Digits(Decimal))
  IN IF p = 0 \/ q = p THEN Got(0, 0)
     ELSE Got(ValueOf([i \in 1 .. q - p |-> DigitOf(f[p + i - 1])], Decimal), q)
read_i64(f, p) ==
  IF At(f, p) = "-" THEN LET n == read_u64(f, p + 1) IN Got(-n.v, n.p) ELSE read_u64(f, p)
read_hex_bytes(f, p, n) ==
  LET digit(q) == DigitOf(At(f, q))
      good == p # 0 /\ \A q \in p .. p + 2 * n - 1 : At(f, q) \in Digits(Hex)
  IN IF good THEN Got([i \in 1 .. n |-> Hex * digit(p + 2 * i - 2) + digit(p + 2 * i - 1)], p + 2 * n)
     ELSE Got(<<>>, 0)

parse_value(f, p, n_objects) ==
  IF At(f, p) = "@"
  THEN LET n == read_u64(f, p + 1) IN Got(Ref(n.v), IF n.v < n_objects THEN n.p ELSE 0)
  ELSE LET n == read_i64(f, p) IN Got(Tagged(n.v), n.p)
parse_value_list(f, p, n, n_objects) ==
  FoldLeft(LAMBDA got, i :
             LET v == parse_value(f, IF i = 1 THEN got.p ELSE expect(f, got.p, ","), n_objects)
             IN Got(Append(got.v, v.v), v.p),
           Got(<<>>, p), [i \in 1 .. n |-> i])

parse_body(f, p, flags, n_objects) ==
  LET body == At(f, p)
      n == read_u64(f, IF body \in Range(Bodies) THEN p + 1 ELSE 0)
      open == expect(f, n.p, "|")
      values == parse_value_list(f, IF body = "C" /\ At(f, open) # "@" THEN 0 ELSE open, n.v, n_objects)
      hex == read_hex_bytes(f, open, n.v)
      n_bytes == read_u64(f, expect(f, n.p, ","))
      code == read_hex_bytes(f, expect(f, n_bytes.p, "|"), n_bytes.v)
      consts == parse_value_list(f, expect(f, code.p, "|"), n.v, n_objects)
      relocs == expect(f, consts.p, "|")
  IN CASE body = "K" -> Got(Node(flags, body, <<>>, <<>>), p + 1)
       [] body \in {"O", "C", "L"} -> Got(Node(flags, body, values.v, <<>>), values.p)
       [] body \in {"S", "B"} -> Got(Node(flags, body, <<>>, hex.v), hex.p)
       [] body = "F" -> Got(Node(flags, body, consts.v, code.v), IF At(f, relocs) = "\n" THEN relocs ELSE 0)
       [] body = "E" ->
            IF open # 0 /\ open + n.v - 1 <= Len(f)
            THEN Got(Node(flags, body, <<>>, [i \in 1 .. n.v |-> DigitOf(f[open + i - 1])]), open + n.v)
            ELSE Got(Node(flags, body, <<>>, <<>>), 0)
       [] OTHER -> Got(Node(flags, "O", <<>>, <<>>), 0)

\* One line: the objects read so far, with the new one, and how many lines.
EndOfLine(f, got, id, node, rest) ==
  IF node.p = 0 \/ ~(At(f, rest) \in {""} \cup LineEnd) THEN [got EXCEPT !.p = 0]
  ELSE [objects |-> (id + 1 :> node.v) @@ got.objects, observed |-> got.observed + 1, p |-> rest]
WholeLine(f, got, id, node) == EndOfLine(f, got, id, node, Behind(f, node.p, Blank))
parse_object_line(f, got, n_objects) ==
  LET id == read_u64(f, got.p)
      colon == expect(f, id.p, ":")
      type == Behind(f, colon, Range(Flags))
      flags == {f[q] : q \in colon .. type - 1} \cap Range(Flags)
  IN IF id.p = 0 \/ id.v >= n_objects THEN [got EXCEPT !.p = 0]
     ELSE WholeLine(f, got, id.v, parse_body(f, type, flags, n_objects))

parse_root(f, count) ==
  read_u64(f, Behind(f, expect(f, Behind(f, count.p, LineEnd), "Root"), Blank))
parse_word_size(f, arch) ==
  IF At(f, arch) \in LineEnd THEN Got(8, arch)
  ELSE read_u64(f, IF At(f, arch) = "" THEN 0 ELSE Behind(f, arch + 1, Blank))
NextLine(f, got, p, n_objects) ==
  IF p = 0 \/ p > Len(f) THEN [got EXCEPT !.p = p]
  ELSE parse_object_line(f, [got EXCEPT !.p = p], n_objects)
parse_objects(f, n_objects, start) ==
  FoldLeft(LAMBDA got, i : NextLine(f, got, Behind(f, got.p, LineEnd), n_objects),
           [objects |-> <<>>, observed |-> 0, p |-> start],
           [i \in 1 .. Min({n_objects + 1, Len(f)}) |-> i])
Parsed(f, count, root, word, start, all) ==
  IF \/ start = 0 \/ all.p = 0 \/ count.v > Len(f) - start + 1
     \/ all.observed # count.v \/ DOMAIN all.objects # 1 .. count.v \/ word.v \notin {4, 8}
  THEN Failed ELSE Image(root.v, word.v, all.objects)

ReadText(f) ==
  LET count == read_u64(f, Behind(f, expect(f, 1, "Objects"), Blank))
      root == parse_root(f, count)
      word == parse_word_size(f, Behind(f, root.p, Blank))
      start == Behind(f, word.p, LineEnd)
  IN Parsed(f, count, root, word, start, parse_objects(f, count.v, start))

-----------------------------------------------------------------------------
(* bicimage: a sequence of numbers behind the magic, seven bytes of code. *)

Magic == "BICIMG"
BitsOf(flags) == FoldLeft(LAMBDA n, f : 2 * n + (IF f \in flags THEN 1 ELSE 0), 0, Flags)
FlagsOf(bits) == {Flags[i] : i \in {i \in 1 .. 4 : (bits \div 2^(4 - i)) % 2 = 1}}
TypeOf(body) == SelectInSeq(Bodies, LAMBDA b : b = body) - 1

\* Mutant of uvarint: the groups are written most significant first.
uvarint_BigEndian(n) ==
  LET digits == Numeral(n, Group)
  IN [i \in DOMAIN digits |-> digits[i] + (IF i < Len(digits) THEN Group ELSE 0)]

\* Groups of bits, the least significant first, all but the last one marked.
uvarint(n) ==
  LET digits == Reverse(Numeral(n, Group))
  IN [i \in DOMAIN digits |-> digits[i] + (IF i < Len(digits) THEN Group ELSE 0)]

zigzag(n) == IF n >= 0 THEN 2 * n ELSE -2 * n - 1
unzigzag(n) == IF n % 2 = 0 THEN n \div 2 ELSE -((n + 1) \div 2)

write_value(v) == IF v.tag = "ref" THEN <<1>> \o uvarint(v.n) ELSE <<0>> \o uvarint(zigzag(v.n))
write_values(vs) == uvarint(Len(vs)) \o FlattenSeq([i \in DOMAIN vs |-> write_value(vs[i])])
write_bytes(bytes) == uvarint(Len(bytes)) \o bytes
write_body(node) ==
  <<TypeOf(node.body)>> \o
    CASE node.body \in {"O", "L"} -> write_values(node.values)
      [] node.body = "C" -> uvarint(node.values[1].n) \o write_values(Tail(node.values))
      [] node.body \in {"S", "B", "E"} -> write_bytes(node.bytes)
      [] node.body = "F" -> write_bytes(node.bytes) \o write_values(node.values) \o uvarint(0)
      [] node.body = "K" -> <<>>

WriteBic(image) ==
  <<Magic, image.word_size>> \o uvarint(image.root) \o uvarint(Len(image.objects))
    \o FlattenSeq([i \in DOMAIN image.objects |->
         <<BitsOf(image.objects[i].flags)>> \o write_body(image.objects[i])])

u8(f, p) == IF p \in DOMAIN f THEN Got(f[p], p + 1) ELSE Got(0, 0)
read_uvarint(f, p) ==
  LET last == IF p = 0 THEN 0 ELSE Behind(f, p, Group .. 2 * Group - 1)
  IN IF last \notin DOMAIN f THEN Got(0, 0)
     ELSE Got(ValueOf(Reverse([i \in 1 .. last - p + 1 |-> f[p + i - 1] % Group]), Group), last + 1)
read_value(f, p) ==
  LET tag == u8(f, p)
      n == read_uvarint(f, tag.p)
  IN IF tag.v = 0 THEN Got(Tagged(unzigzag(n.v)), n.p)
     ELSE Got(Ref(n.v), IF tag.v = 1 THEN n.p ELSE 0)
read_values(f, p) ==
  LET n == read_uvarint(f, p)
  IN FoldLeft(LAMBDA got, i : LET v == read_value(f, got.p) IN Got(Append(got.v, v.v), v.p),
              Got(<<>>, n.p), [i \in 1 .. n.v |-> i])
read_bytes(f, p) ==
  LET n == read_uvarint(f, p)
  IN IF n.p = 0 \/ n.p + n.v - 1 > Len(f) THEN Got(<<>>, 0)
     ELSE Got(SubSeq(f, n.p, n.p + n.v - 1), n.p + n.v)
read_object(f, p) ==
  LET flags == u8(f, p)
      type == u8(f, flags.p)
      body == IF type.v \in 0 .. 7 THEN Bodies[type.v + 1] ELSE ""
      code_addr == read_uvarint(f, type.p)
      values == read_values(f, IF body = "C" THEN code_addr.p ELSE type.p)
      bytes == read_bytes(f, type.p)
      consts == read_values(f, bytes.p)
      relocs == read_uvarint(f, consts.p)
      node(vs, bs) == Node(FlagsOf(flags.v), body, vs, bs)
  IN CASE body \in {"O", "L"} -> Got(node(values.v, <<>>), values.p)
       [] body = "C" -> Got(node(<<Ref(code_addr.v)>> \o values.v, <<>>), values.p)
       [] body \in {"S", "B", "E"} -> Got(node(<<>>, bytes.v), bytes.p)
       [] body = "F" -> Got(node(consts.v, bytes.v), relocs.p)
       [] OTHER -> Got(node(<<>>, <<>>), IF body = "K" THEN type.p ELSE 0)

ReadBic(f) ==
  LET root == read_uvarint(f, 3)
      count == read_uvarint(f, root.p)
      all == FoldLeft(LAMBDA got, i : LET o == read_object(f, got.p) IN Got(Append(got.v, o.v), o.p),
                      Got(<<>>, count.p), [i \in 1 .. count.v |-> i])
  IN IF all.p = 0 THEN Failed ELSE Image(root.v, IF f[2] = 4 THEN 4 ELSE 8, all.v)

parse_auto(f) == IF f = <<>> THEN Failed ELSE IF f[1] = Magic THEN ReadBic(f) ELSE ReadText(f)
=============================================================================
