------------------------------- MODULE MCCoding -------------------------------
(* Instances of Coding for TLC: a part of the Huffman code, with codes of     *)
(* five to thirteen bits, and integers about the boundaries of the prefixes. *)
EXTENDS Coding

\* hpack_huffman_data.txt: 'a', ':', '&', '?', and the character 0.
MCCode ==
     97 :> <<0, 0, 0, 1, 1>>
  @@ 58 :> <<1, 0, 1, 1, 1, 0, 0>>
  @@ 38 :> <<1, 1, 1, 1, 1, 0, 0, 0>>
  @@ 63 :> <<1, 1, 1, 1, 1, 1, 1, 1, 0, 0>>
  @@ 0 :> <<1, 1, 1, 1, 1, 1, 1, 1, 1, 1, 0, 0, 0>>

\* Huffman-coded they end at different bits of a byte, with and without padding.
MCStrings ==
  {<<>>, <<97>>, <<38>>, <<0, 58>>}

\* 2^n - 1 for prefixes of 4 to 7 bits, and the same plus 127.
MCIndices == {0, 14, 15, 31, 62, 63, 127, 255, 16511}

\* A block of 0, 1, 2 or 3 bytes, of a length that is a prefix, codes and padding.
MCBytes == {0, 1, 3, 127, 128, 129, 130, 248, 255}
=============================================================================
