------------------------------ MODULE MCNip44 ------------------------------
(* Nip44 with texts at, below and above every size the codec decides by:   *)
(* a padding chunk, a power of two, the two prefixes, the ceiling and the  *)
(* largest rumour, of one byte a code unit, of two or three, or not UTF-8. *)
EXTENDS Nip44

Boundaries == {32, 64, 224, 256, 320, 65535, 65536, 163840, 196608, 261756, 262144, 294912}

Lengths == {0, 1} \cup UNION {{n - 1, n, n + 1} : n \in Boundaries}

Text(units, bytes, utf8) == [units |-> units, bytes |-> bytes, utf8 |-> utf8, inner |-> Null]

TheTexts == {Text(n, n, TRUE) : n \in Lengths}
            \cup {Text((n + 1) \div 2, n, TRUE) : n \in Lengths} \cup {Text((n + 2) \div 3, n, TRUE) : n \in Lengths}
            \cup {Text(2, 2, FALSE)}

TheCeilings == {1, 32, 33, 256, 257, 65535, 65536, 65537, 163840, 262143, 262144, 262145, 300000, 1073741823}
=============================================================================
