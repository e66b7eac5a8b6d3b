------------------------------- MODULE Images -------------------------------
(***************************************************************************)
(* From an image to a heap and back: a compiler's image is written in one  *)
(* of the two formats (ImageFiles), read, loaded (loader.rs), its entry    *)
(* points are patched, the program runs and stores into its objects, and   *)
(* PolyExport snapshots what its root reaches (export.rs) and writes it.   *)
(*                                                                         *)
(* A heap is a memory of words: a number, or minus the address of a body.  *)
(* The word below a body is its length word.                               *)
(***************************************************************************)
EXTENDS ImageFiles

CONSTANTS
  Sources,    \* the images that other compilers wrote
  Table,      \* the names of the RTS table, in the order of registration
  MaxExports  \* bound: how often a heap is exported

ASSUME ImagesAssumption == MaxExports \in Nat

VARIABLES
  host,     \* who loads: its word_size, and POLYML_ALLOW_WORD_SIZE_MISMATCH
  phase,    \* of the file's life; the reader rejects, loader or session refuse
  image,    \* the image to write, or the one that was read
  file,     \* the file
  heap,     \* the heap that was loaded
  exports,  \* how many exports there were
  written   \* history: the image that the file is of

vars == <<host, phase, image, file, heap, exports, written>>

-----------------------------------------------------------------------------
(* Words of memory *)

F_CODE_OBJ == 2
FlagBits(flags) == 4 * BitsOf(flags)
length_word(n, flags) == 64 * n + flags

WordsFor(n) == (n + WordBytes - 1) \div WordBytes
Packed(bytes) ==
  [i \in 1 .. WordsFor(Len(bytes)) |->
     FoldSet(LAMBDA j, w : w + Byte^j * bytes[(i - 1) * WordBytes + j + 1], 0,
             {j \in 0 .. WordBytes - 1 : (i - 1) * WordBytes + j < Len(bytes)})]
Unpacked(words) == [j \in 1 .. Len(words) * WordBytes |-> (words[(j - 1) \div WordBytes + 1] \div Byte^((j - 1) % WordBytes)) % Byte]

Flagged(h, a) == h.mem[a - 1] % 64
Length(h, a) == h.mem[a - 1] \div 64
IsType(h, a, type) == Flagged(h, a) % 4 = type
Body(h, a) == [i \in 1 .. Length(h, a) |-> h.mem[a + i - 1]]

\* The constants of a code object: their first address and their count.
const_segment_for_code(h, a) ==
  LET last == a + Length(h, a) - 1
      cp == last + 1 + Quotient(signed(h.mem[last]), WordBytes)
  IN [cp |-> cp, count |-> h.mem[cp - 1]]

\* The words of an object that hold values, in the order the exporter reads them.
Slots(h, a) ==
  IF IsType(h, a, F_BYTE_OBJ) THEN <<>>
  ELSE IF IsType(h, a, F_CODE_OBJ)
  THEN LET seg == const_segment_for_code(h, a) IN SubSeq(Body(h, a), seg.cp - a + 1, seg.cp - a + seg.count)
  ELSE Body(h, a)
Pointers(words) == [i \in DOMAIN SelectSeq(words, is_data_ptr) |-> -SelectSeq(words, is_data_ptr)[i]]

-----------------------------------------------------------------------------
(* Loading *)

Type(body) ==
  CASE body \in {"S", "B", "E", "K"} -> F_BYTE_OBJ
    [] body = "F" -> F_CODE_OBJ
    [] body \in {"C", "L"} -> F_CLOSURE_OBJ
    [] body = "O" -> 0
Space(node) ==
  CASE "M" \in node.flags -> "mutable"
    [] node.body = "F" -> "code"
    [] OTHER -> "immutable"
Base(space) == CASE space = "immutable" -> 100 [] space = "mutable" -> 200 [] space = "code" -> 300

body_word_count(node) ==
  CASE node.body \in {"O", "C", "L"} -> Len(node.values)
    [] node.body = "S" -> 1 + WordsFor(Len(node.bytes))
    [] node.body = "B" -> WordsFor(Len(node.bytes))
    [] node.body = "F" -> WordsFor(Len(node.bytes)) + Len(node.values) + 2
    [] node.body = "E" -> (Len(node.bytes) + 2 * WordBytes) \div WordBytes
    [] node.body = "K" -> 1

tagged_fits_host(n) == n \in MIN_TAGGED .. MAX_TAGGED

\* The integers of an image for longer words that have to be boxed.
Oversized(img, on) ==
  IF img.word_size = on.word_size THEN <<>>
  ELSE SetToSeq({v.n : v \in {v \in UNION {Range(node.values) : node \in Range(img.objects)} :
                                v.tag = "tagged" /\ ~tagged_fits_host(v.n)}})

\* Mutant of box_long_int: the box of a negative number is not flagged.
box_long_int_Unsigned(n) ==
  [flags |-> F_BYTE_OBJ, words |-> Packed(Reverse(Numeral(IF n < 0 THEN -n ELSE n, Byte)))]

\* A box is a byte object: the magnitude, and the sign as a flag.
box_long_int(n) ==
  [flags |-> F_BYTE_OBJ + FlagBits(IF n < 0 THEN {"N"} ELSE {}),
   words |-> Packed(Reverse(Numeral(IF n < 0 THEN -n ELSE n, Byte)))]

\* Pass 1: in each space one object behind the other, the boxes first.
Sizes(img, on) ==
  LET boxes == Oversized(img, on)
  IN [i \in DOMAIN boxes |-> [space |-> "immutable", words |-> Len(box_long_int(boxes[i]).words)]]
       \o [i \in DOMAIN img.objects |-> [space |-> Space(img.objects[i]), words |-> body_word_count(img.objects[i])]]
Address(sizes, i) ==
  Base(sizes[i].space) + 1 +
    FoldSet(LAMBDA j, sum : sum + 1 + sizes[j].words, 0, {j \in 1 .. i - 1 : sizes[j].space = sizes[i].space})

\* The signed distance, in bytes, from the end back to the constants.
CodeTrailer(constants) == (-(constants + 1) * WordBytes) % Modulus

\* Pass 2.
write_words(node, values) ==
     CASE node.body \in {"O", "L", "C"} -> values
       [] node.body = "S" -> <<Len(node.bytes)>> \o Packed(node.bytes)
       [] node.body = "B" -> Packed(node.bytes)
       [] node.body = "F" -> Packed(node.bytes) \o <<Len(values)>> \o values \o <<CodeTrailer(Len(values))>>
       [] node.body = "E" -> <<0>> \o Packed(Append(node.bytes, 0))
       [] node.body = "K" -> <<0>>

\* The run path takes word 0 of the root for a code address.
Runnable(img) ==
  LET root == img.objects[img.root + 1]
  IN /\ root.body \in {"C", "L"}
     /\ root.values # <<>> /\ root.values[1].tag = "ref"
     /\ img.objects[root.values[1].n + 1].body = "F"

NoHeap == [mem |-> <<>>, root |-> 0, entries |-> {}, runnable |-> FALSE]

\* Without boxes, an integer out of range is an error.
Loadable(img, on) ==
  /\ img.root < Len(img.objects)
  /\ \/ on.allow /\ img.word_size # on.word_size
     \/ /\ img.word_size = on.word_size
        /\ \A node \in Range(img.objects) : \A v \in Range(node.values) :
             v.tag = "ref" \/ tagged_fits_host(v.n)

load_image(img, on) ==
  LET boxes == Oversized(img, on)
      sizes == Sizes(img, on)
      at == [i \in DOMAIN sizes |-> Address(sizes, i)]
      pointer(id) == at[Len(boxes) + id + 1]
      resolved(v) ==
        CASE v.tag = "ref" -> -pointer(v.n)
          [] tagged_fits_host(v.n) -> tagged(v.n)
          [] OTHER -> -at[SelectInSeq(boxes, LAMBDA n : n = v.n)]
      contents(i) ==
        IF i <= Len(boxes) THEN box_long_int(boxes[i])
        ELSE LET node == img.objects[i - Len(boxes)]
             IN [flags |-> Type(node.body) + FlagBits(node.flags), words |-> write_words(node, [v \in DOMAIN node.values |-> resolved(node.values[v])])]
      cells(i) ==
        LET c == contents(i)
        IN [x \in at[i] - 1 .. at[i] + Len(c.words) - 1 |->
              IF x < at[i] THEN length_word(sizes[i].words, c.flags) ELSE c.words[x - at[i] + 1]]
  IN [mem |-> FoldLeft(LAMBDA mem, i : mem @@ cells(i), <<>>, [i \in DOMAIN sizes |-> i]),
      root |-> pointer(img.root),
      entries |-> {<<img.objects[i].bytes, at[Len(boxes) + i]>> : i \in {i \in DOMAIN img.objects : img.objects[i].body = "E"}},
      runnable |-> Runnable(img)]

\* The names that the RTS knows get its tokens, which count from 1.
patch_entry_points(h) ==
  LET token(name) == SelectInSeq(Table, LAMBDA known : known = name)
      known == {entry \in h.entries : token(entry[1]) # 0}
  IN [h EXCEPT !.mem = [a \in {entry[2] : entry \in known} |->
                          token((CHOOSE entry \in known : entry[2] = a)[1])] @@ @]

-----------------------------------------------------------------------------
(* Exporting *)

\* One object off the stack of pending ones: the objects it points to that
\* have no id yet get the next ids, in the order of its words.
interned(h, b) ==
  LET ids == FoldLeft(LAMBDA seen, a : IF a \in Range(seen) THEN seen ELSE Append(seen, a),
                      b.ids, Pointers(Slots(h, Last(b.pending))))
  IN [ids |-> ids, pending |-> Front(b.pending) \o SubSeq(ids, Len(b.ids) + 1, Len(ids))]

build_code(h, a, flags, values) ==
  LET seg == const_segment_for_code(h, a)
      count == Min({seg.count, a + Length(h, a) - 1 - seg.cp})
  IN Node(flags, "F", SubSeq(values, seg.cp - a + 1, seg.cp - a + count),
          Unpacked(SubSeq(Body(h, a), 1, seg.cp - a - 1)))

build_object(h, a, ids) ==
  LET value_for(w) == IF is_data_ptr(w) THEN Ref(SelectInSeq(ids, LAMBDA x : x = -w) - 1) ELSE Tagged(untag(w))
      flags == FlagsOf(Flagged(h, a) \div 4)
      values == [i \in 1 .. Length(h, a) |-> value_for(h.mem[a + i - 1])]
  IN CASE IsType(h, a, F_BYTE_OBJ) -> Node(flags, "B", <<>>, Unpacked(Body(h, a)))
       [] IsType(h, a, F_CODE_OBJ) -> build_code(h, a, flags, values)
       [] IsType(h, a, F_CLOSURE_OBJ) ->
            Node(flags, "C", IF is_data_ptr(h.mem[a]) THEN values ELSE <<Ref(0)>> \o Tail(values), <<>>)
       [] OTHER -> Node(flags, "O", values, <<>>)

snapshot(h) ==
  LET drained == FoldLeft(LAMBDA b, i : IF b.pending = <<>> THEN b ELSE interned(h, b),
                          [ids |-> <<h.root>>, pending |-> <<h.root>>],
                          [i \in 1 .. Cardinality(DOMAIN h.mem) |-> i])
  IN Image(0, 8, [i \in DOMAIN drained.ids |-> build_object(h, drained.ids[i], drained.ids)])

-----------------------------------------------------------------------------

Init ==
  /\ host = [word_size |-> 8, allow |-> FALSE]
  /\ image \in Sources /\ written = image
  /\ phase = "image" /\ file = <<>> /\ heap = NoHeap /\ exports = 0

Written(text) == IF text THEN WriteText(image) ELSE WriteBic(image)

\* The writer ends, or stops anywhere: the disk is full, the process killed.
\* A program's export is text.
Write ==
  /\ phase = "image"
  /\ \E text \in BOOLEAN :
       /\ exports > 0 => text
       /\ \E n \in 0 .. Len(Written(text)) : file' = SubSeq(Written(text), 1, n)
  /\ phase' = "file" /\ written' = image /\ heap' = NoHeap
  /\ UNCHANGED <<host, image, exports>>

Parse ==
  /\ phase = "file"
  /\ image' = parse_auto(file)
  /\ phase' = IF image' = Failed THEN "rejected" ELSE "parsed"
  /\ UNCHANGED <<host, file, heap, exports, written>>

Load ==
  /\ phase = "parsed" /\ file' = <<>>
  /\ host' \in [word_size : {4, 8}, allow : BOOLEAN]
  /\ IF Loadable(image, host')
     THEN heap' = load_image(image, host') /\ phase' = "loaded"
     ELSE heap' = heap /\ phase' = "refused"
  /\ UNCHANGED <<image, exports, written>>

\* The session refuses a root that is no closure of code, patches, and runs.
Start ==
  /\ phase = "loaded"
  /\ IF heap.runnable THEN heap' = patch_entry_points(heap) /\ phase' = "running"
     ELSE heap' = heap /\ phase' = "refused"
  /\ UNCHANGED <<host, image, file, exports, written>>

\* The program stores into a mutable object: a number, or another object.
Store ==
  /\ phase = "running" /\ exports < MaxExports
  /\ \E a \in {-w : w \in {w \in Range(heap.mem) : is_data_ptr(w)}} :
       /\ IsType(heap, a, 0) /\ "M" \in FlagsOf(Flagged(heap, a) \div 4)
       /\ \E i \in 1 .. Length(heap, a), w \in {tagged(MIN_TAGGED), -a, -heap.root} :
            heap' = [heap EXCEPT !.mem[a + i - 1] = w]
  /\ phase' = "stored"
  /\ UNCHANGED <<host, image, file, exports, written>>

poly_export ==
  /\ phase \in {"running", "stored"} /\ exports < MaxExports
  /\ image' = snapshot(heap) /\ written' = image'
  /\ exports' = exports + 1 /\ phase' = "image"
  /\ UNCHANGED <<host, file, heap>>

Next == Write \/ Parse \/ Load \/ Start \/ Store \/ poly_export

Spec == Init /\ [][Next]_vars

-----------------------------------------------------------------------------
(* Properties *)

TypeOK ==
  /\ phase \in {"image", "file", "parsed", "loaded", "running", "stored", "rejected", "refused"}
  /\ exports \in 0 .. MaxExports
  /\ phase \in {"loaded", "running", "stored"} => heap.root \in DOMAIN heap.mem

\* Two images that differ in the last value of the last object only.
LastNumberCut(short, long) ==
  /\ Len(short.objects) = Len(long.objects)
  /\ \E v \in {Tagged(n) : n \in -99 .. 99} \cup {Ref(n) : n \in 0 .. 9} :
       short = [long EXCEPT !.objects[Len(long.objects)].values =
                  IF @ = <<>> THEN @ ELSE Append(Front(@), v)]

\* A file that was written to its end is read as the image it is of, in either
\* format, and what a program exported a 64-bit host reloads; of a file that
\* was not, the reader accepts nothing but the whole image, except that the
\* last number of a text may have lost digits.
FilesReadBack ==
  /\ phase \in {"parsed", "rejected"} /\ file \in {WriteText(written), WriteBic(written)}
       => image = written
  /\ phase = "parsed" =>
       \/ image = written
       \/ file[1] # Magic /\ LastNumberCut(image, written)
  /\ phase = "refused" /\ exports > 0 /\ host.word_size = 8 => image # written

\* Where the objects are that are reached from the root in lock-step.
Reached(img, h) ==
  LET Walk(pairs) ==
        pairs \cup UNION {LET values == img.objects[pair[1] + 1].values
                              slots == Slots(h, pair[2])
                          IN {<<values[i].n, -slots[i]>> : i \in {i \in DOMAIN values \cap DOMAIN slots :
                                values[i].tag = "ref" /\ is_data_ptr(slots[i])}} : pair \in pairs}
  IN FoldLeft(LAMBDA pairs, i : Walk(pairs), {<<img.root, h.root>>}, [i \in DOMAIN img.objects |-> i])

\* The bytes that an object begins with, as the program sees them.
Content(node, h, a) ==
  CASE node.body = "S" -> SubSeq(Unpacked(Tail(Body(h, a))), 1, h.mem[a])
    [] node.body = "B" -> SubSeq(Unpacked(Body(h, a)), 1, Len(node.bytes))
    [] node.body = "E" -> LET name == Unpacked(Tail(Body(h, a))) IN SubSeq(name, 1, SelectInSeq(name, LAMBDA b : b = 0) - 1)
    [] node.body = "F" -> SubSeq(Unpacked(SubSeq(Body(h, a), 1, const_segment_for_code(h, a).cp - a - 1)), 1, Len(node.bytes))
    [] OTHER -> <<>>

\* A word stands for a value: an integer too long for it stands in a box.
StandsFor(v, w, h) ==
  CASE v.tag = "ref" -> is_data_ptr(w)
    [] tagged_fits_host(v.n) -> w = tagged(v.n)
    [] OTHER -> /\ is_data_ptr(w) /\ IsType(h, -w, F_BYTE_OBJ)
                /\ v.n = (IF "N" \in FlagsOf(Flagged(h, -w) \div 4) THEN -1 ELSE 1)
                           * ValueOf(Reverse(Unpacked(Body(h, -w))), Byte)

\* A heap denotes an image: from the root on, in lock-step, one object is at
\* one place, has its kind, its flags and its bytes, and each of its words
\* stands for the value of the image.
Denotes(img, h) ==
  LET pairs == Reached(img, h)
  IN /\ \A p, q \in pairs : (p[1] = q[1]) = (p[2] = q[2])
     /\ \A p \in pairs :
          LET node == img.objects[p[1] + 1]
              slots == Slots(h, p[2])
          IN /\ IsType(h, p[2], Type(node.body))
             /\ FlagsOf(Flagged(h, p[2]) \div 4) = node.flags
             /\ Content(node, h, p[2]) = node.bytes
             /\ Len(slots) = Len(node.values)
             /\ \A i \in DOMAIN slots : StandsFor(node.values[i], slots[i], h)

\* What load_image builds denotes the image it was given, boxes and constants
\* of code included, with a code object behind a root the session may run;
\* and the image that PolyExport takes denotes the heap the program left.
ImagesDenoteHeaps ==
  /\ phase = "loaded" => Denotes(image, heap)
  /\ phase \in {"running", "stored"} => IsType(heap, -heap.mem[heap.root], F_CODE_OBJ)
  /\ phase = "image" /\ exports > 0 => Denotes(image, heap)
=============================================================================
