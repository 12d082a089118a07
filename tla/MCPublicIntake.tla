--------------------------- MODULE MCPublicIntake ---------------------------
(* Small instances of PublicIntake.                                        *)
EXTENDS PublicIntake, TLC

CONSTANTS ana, bea          \* two addresses
CONSTANTS first, second     \* two texts
CONSTANTS key               \* an Idempotency-Key
CONSTANTS Ana, Anna         \* two spellings of a name

Symmetry == Permutations(Workers)

(* Submissions of one address through both doors, with and without a key.  *)
Doors(texts, keys, names, agents) ==
  [email: {ana}, text: texts, key: keys, name: names, agent: agents]

BothDoors ==
  Doors({first}, {None, key}, {Ana}, {FALSE})
  \cup Doors({second}, {key}, {Anna}, {FALSE})
  \cup Doors({first}, {None, key}, {Anna}, {TRUE})

(* Two different requests of one address, and one of another.              *)
PublicDoor ==
  Doors({first, second}, {None}, {Ana}, {FALSE})
  \cup [email: {bea}, text: {first}, key: {None}, name: {Anna}, agent: {FALSE}]
=============================================================================
