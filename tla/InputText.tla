----------------------------- MODULE InputText -----------------------------
(***************************************************************************)
(* The bytes a compiled Gazprea program reads from standard input, and     *)
(* what the scanners of runtime/src/runtime.c can tell apart about them.   *)
(* A token is a sequence of bytes; which tokens strtol and sscanf accept   *)
(* is data, so the accepted integer and real tokens are parameters.        *)
(***************************************************************************)
EXTENDS Integers, Sequences

CONSTANTS
  Byte,        \* the bytes of the input
  Space,       \* the bytes isspace() accepts
  HighByte,    \* 0xFF: narrowed to char it compares equal to EOF
  NUL,         \* 0x00: ends the string that sscanf and strtol see
  TrueCh,      \* 'T'
  FalseCh,     \* 'F'
  IntTokens,   \* tokens strtol reads to their end, in INT_MIN .. INT_MAX
  RealTokens,  \* tokens "%f" reads to their end
  EOF          \* what getchar() returns past the end

ASSUME ByteAssumption ==
  /\ Space \subseteq Byte
  /\ {HighByte, NUL, TrueCh, FalseCh} \subseteq Byte \ Space
  /\ HighByte # NUL
  /\ EOF \notin Byte

Kinds == {"bool", "int", "real"}

Char == (Byte \ {HighByte}) \union {EOF}

IsSpace(c) == c \in Space
InToken(c) == c # EOF /\ c \notin Space

(* (char) getchar(): the byte 0xFF cannot be told from the end of input.   *)
Narrow(b) == IF b = HighByte THEN EOF ELSE b

(* The character getchar() delivers on its call number k, counted from 0.  *)
CharAt(input, k) == IF k < Len(input) THEN Narrow(input[k + 1]) ELSE EOF

(***************************************************************************)
(* What a scanner makes of the token it finds.  A token that starts with   *)
(* NUL leaves sscanf without a conversion: "consumed" (and for booleans    *)
(* "bool") are read uninitialised, and any outcome is possible.            *)
(***************************************************************************)
Accepts(kind, token) ==
  CASE kind = "bool" -> token \in {<<TrueCh>>, <<FalseCh>>}
    [] kind = "int"  -> token \in IntTokens
    [] kind = "real" -> token \in RealTokens

Undetermined(kind, token) == kind # "int" /\ token[1] = NUL

Outcomes(kind, token) ==
  IF Undetermined(kind, token) THEN {"ok", "bad"}
  ELSE IF Accepts(kind, token) THEN {"ok"} ELSE {"bad"}
=============================================================================
