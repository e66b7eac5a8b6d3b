------------------------------ MODULE MCImages ------------------------------
EXTENDS Images

Bytes3 == <<15, 0, 9>>

\* A root closure, its code, a mutable object, and one more.
Others ==
  {Node(flags, "S", <<>>, bytes) : flags \in {{}}, bytes \in {<<>>, Bytes3}}
  \cup {Node({"M", "W"}, "O", <<Tagged(0), Ref(1)>>, <<>>), Node({}, "O", <<>>, <<>>),
        Node({"N", "V"}, "B", <<>>, Bytes3), Node({}, "K", <<>>, <<>>),
        Node({}, "E", <<>>, <<1, 2>>), Node({}, "E", <<>>, <<3, 1, 2>>)}
MCSources ==
  {Image(root, word_size,
     <<Node({}, body, <<Ref(1), Ref(2)>>, <<>>),
       Node({}, "F", <<n, Ref(3)>>, Bytes3),
       Node({"M"}, "O", <<Ref(3), m>>, <<>>),
       other>>) :
     root \in {0}, word_size \in {4, 8}, body \in {"C", "L"},
     n \in {Tagged(-1)}, m \in {Tagged(-70), Tagged(12), Ref(0)}, other \in Others}
  \cup {Image(root, 8,
     <<other, Node({}, "F", <<Tagged(100), Tagged(100)>>, <<>>), Node({}, "L", <<Ref(1)>>, <<>>)>>) :
     root \in {0, 2}, other \in Others}
MCTable == <<<<7, 7>>, <<1, 2>>>>
=============================================================================
