------------------------------- MODULE Cipher -------------------------------
(***************************************************************************)
(* EncXOR and DecXOR of common/utils.go, byte by byte.  A text is the      *)
(* sequence of its runes, a key and a cipher are sequences of bytes (the   *)
(* hex form is the identity on them).  Indices start at 1 here and at 0    *)
(* there.                                                                  *)
(***************************************************************************)
EXTENDS Naturals, Sequences, SequencesExt

CONSTANT Salt    \* bound: the one byte that RandomString puts in every place

ASSUME SaltAssumption == Salt \in 65 .. 89

MaxEncPass == 48      \* hex digits, two to a byte
RuneError == 65533

Bits == {1, 2, 4, 8, 16, 32, 64, 128}
Bit(x, v) == (x \div v) % 2
Differ(x, y, v) == IF Bit(x, v) = Bit(y, v) THEN 0 ELSE v
Xor(x, y) == MapThenSumSet(LAMBDA v : Differ(x, y, v), Bits)

Total(s) == FoldSeq(+, 0, s)

(* Bytes of a rune in a string (the runes of these texts are below 2048).  *)
Width(rune) == IF rune < 128 THEN 1 ELSE 2
Size(t) == Total([i \in DOMAIN t |-> Width(t[i])])
Utf8(rune) ==
  IF rune < 128 THEN <<rune>> ELSE <<192 + (rune \div 64), 128 + (rune % 64)>>

(* What "range" finds at each byte: a rune, or nothing at the second byte  *)
(* of one, RuneError where a slice has cut one in two.                     *)
Lead(s, i) == i \in DOMAIN s /\ s[i] >= 192
Rest(s, i) == i \in DOMAIN s /\ s[i] \in 128 .. 191
RuneAt(s, i) ==
  CASE s[i] < 128                    -> <<s[i]>>
    [] Lead(s, i) /\ Rest(s, i + 1)  -> <<(s[i] - 192) * 64 + s[i + 1] - 128>>
    [] Rest(s, i) /\ Lead(s, i - 1)  -> <<>>
    [] OTHER                         -> <<RuneError>>
Runes(s) == FlattenSeq([i \in DOMAIN s |-> RuneAt(s, i)])

controlNum(t) == Total(t) % 100

(* The length goes before the text as a rune.  "i" is the index of a       *)
(* rune's first byte, so the key skips after a rune of two; one byte is    *)
(* kept of each rune.  The control number is not encrypted.                *)
LengthOnly(t) == controlNum(<<Size(t)>> \o t)   \* mutant: summed too late
Control(t) == controlNum(t)
EncXOR(t, key) ==
  LET str1 == <<Size(t)>> \o t
      Index(i) == Size(SubSeq(str1, 1, i - 1))
      body == [i \in DOMAIN str1 |-> Xor(str1[i] % 256, key[(Index(i) % Len(key)) + 1])]
      result == Append(body, Control(t))
      missing == IF 2 * Len(result) < MaxEncPass THEN MaxEncPass - 2 * Len(result) ELSE 0
  IN  result \o [i \in 1 .. missing |-> Salt]

(* The control number is there to be read: not so when the text ends where *)
(* the cipher ends.                                                        *)
HasControlShort(n, cipher) == n + 1 < Len(cipher)   \* mutant: padding expected
HasControl(n, cipher) == n < Len(cipher)

(* Each decrypted byte becomes a rune, of two bytes from 128 on.  The      *)
(* length is compared with the number of bytes, not with the last index:   *)
(* when they are equal the control number is read past the end.            *)
DecXOR(cipher, key) ==
  LET result == FlattenSeq([i \in DOMAIN cipher |->
                              Utf8(Xor(cipher[i], key[((i - 1) % Len(key)) + 1]))])
      n == result[1] + 1
      text == Runes(SubSeq(result, 2, n))
      Says(what, t) == [outcome |-> what, text |-> t]
  IN  CASE n = Len(cipher) -> Says("panics", <<>>)
        [] HasControl(n, cipher) /\ controlNum(text) = cipher[n + 1] -> Says("opens", text)
        [] OTHER -> Says("fails", <<>>)
=============================================================================
