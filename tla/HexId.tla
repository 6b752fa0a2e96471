------------------------------- MODULE HexId --------------------------------
(***************************************************************************)
(* How the key of an asynchronous request travels: hex_encode_id() writes  *)
(* it into the answer to the launch, numeric_id_match() and                *)
(* hex_decode_id() read it from the target of the retrieval                *)
(* (include/wrapper/handlers/async/async_handler.hpp).                     *)
(*                                                                         *)
(* A 32-bit key is the function of its eight nibbles, key[0] the lowest.   *)
(* A behaviour encodes one key, hands it to a client, which may write it   *)
(* another way, and decodes what the client sends.                         *)
(***************************************************************************)
EXTENDS Integers, Sequences, Functions

CONSTANT Nibbles  \* the values a nibble of a key takes

ASSUME NibblesAssumption == Nibbles \subseteq 0 .. 15 /\ 0 \in Nibbles

Width == 8 \* nibbles in a std::uint32_t, characters in its encoded form
Places == 0 .. Width - 1
Ids    == [Places -> Nibbles]
Zero   == [p \in Places |-> 0]

lower == <<"0", "1", "2", "3", "4", "5", "6", "7", "8", "9", "a", "b", "c", "d", "e", "f">>
upper == <<"0", "1", "2", "3", "4", "5", "6", "7", "8", "9", "A", "B", "C", "D", "E", "F">>

\* numeric_id_match(): [0-9A-Fa-f]{1,8}
Matches(s) == Len(s) \in 1 .. Width /\ Range(s) \subseteq Range(lower) \cup Range(upper)

\* key >>= 4 * n, and (key << 4) + d
ShiftRight(key, n) == [p \in Places |-> IF p + n < Width THEN key[p + n] ELSE 0]
ShiftIn(key, d)    == [p \in Places |-> IF p = 0 THEN d ELSE key[p - 1]]

\* The three ranges that hex_decode_id() tells apart; any other character
\* would only shift.
DigitValue(c) ==
  CASE \E d \in 0 .. 9 : c = lower[d + 1]    -> CHOOSE d \in 0 .. 9 : c = lower[d + 1]
    [] \E d \in 10 .. 15 : c = upper[d + 1]  -> CHOOSE d \in 10 .. 15 : c = upper[d + 1]
    [] \E d \in 10 .. 15 : c = lower[d + 1]  -> CHOOSE d \in 10 .. 15 : c = lower[d + 1]
    [] OTHER -> 0

VARIABLES pc,    \* "encoding" or "decoding"
          id,    \* the key
          rest,  \* hex_encode_id()'s copy of it, shifted as it goes
          text,  \* the characters written; then what the client sends
          next,  \* the position hex_decode_id() has reached in it
          ret    \* the value decoded so far

vars == <<pc, id, rest, text, next, ret>>

Init ==
  /\ pc = "encoding"
  /\ id \in Ids /\ rest = id
  /\ text = <<>> /\ next = 1 /\ ret = Zero

\* Slip: the array is filled from the front.
EncodeDigit_Reversed ==
  /\ pc = "encoding" /\ Len(text) < Width
  /\ text' = Append(text, lower[rest[0] + 1])
  /\ rest' = ShiftRight(rest, 4)
  /\ UNCHANGED <<pc, id, next, ret>>

\* One round of the loop of hex_encode_id(), which fills the array from the
\* back.  `id >>= 16u' drops four nibbles.
EncodeDigit ==
  /\ pc = "encoding" /\ Len(text) < Width
  /\ text' = <<lower[rest[0] + 1]>> \o text
  /\ rest' = ShiftRight(rest, 4)
  /\ UNCHANGED <<pc, id, next, ret>>

\* The client has the eight characters.  It may send them back as they are, in
\* capitals, or without leading zeros; handle_async_retrieve() only decodes
\* what numeric_id_match() lets through.
Capitals(s) == [n \in DOMAIN s |-> upper[DigitValue(s[n]) + 1]]
Shortened(s) ==
  {SubSeq(s, n, Width) : n \in {m \in 1 .. Width : \A z \in 1 .. m - 1 : s[z] = "0"}}

Ask ==
  /\ pc = "encoding" /\ Len(text) = Width
  /\ \E s \in Shortened(text) : text' \in {s, Capitals(s)}
  /\ Matches(text')
  /\ pc' = "decoding"
  /\ UNCHANGED <<id, rest, next, ret>>

\* One round of the loop of hex_decode_id().
DecodeDigit ==
  /\ pc = "decoding" /\ next <= Len(text)
  /\ ret' = ShiftIn(ret, DigitValue(text[next]))
  /\ next' = next + 1
  /\ UNCHANGED <<pc, id, rest, text>>

Next == EncodeDigit \/ Ask \/ DecodeDigit
Spec == Init /\ [][Next]_vars

Decoded == pc = "decoding" /\ next > Len(text)

\* Decoding reads the text as a hexadecimal number, the last character the
\* lowest digit, in capitals or not, with leading zeros or not.
DecodesPositionally ==
  Decoded => \A p \in Places :
    ret[p] = IF p < Len(text)
             THEN CHOOSE d \in 0 .. 15 : text[Len(text) - p] \in {lower[d + 1], upper[d + 1]}
             ELSE 0

\* A key below 16 comes back as itself.
SmallIdsComeBack ==
  Decoded /\ (\A p \in Places \ {0} : id[p] = 0) => ret = id

\* What encoder and decoder agree on.
KeysTravel == DecodesPositionally /\ SmallIdsComeBack

\* Every key comes back as itself: "Encodes an AsyncStore key into its string
\* form" and "Decodes an AsyncStore key from its string form" undo each other.
IdsComeBack == Decoded => ret = id
=============================================================================
