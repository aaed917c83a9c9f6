---------------------------- MODULE HashEncoding ----------------------------
(***************************************************************************)
(* The textual encodings of hashes in src/src/libutil/hash.cc: printing in  *)
(* base 16 and Nix's base 32, the `type:` prefix of to_string, and parsing *)
(* back (Hash::Hash(string_view, type, isSRI), parseAny).                  *)
(*                                                                         *)
(* A hash is its type and its bytes; a string is a sequence of one-        *)
(* character strings.  The base-32 code works bit by bit on the bytes; it  *)
(* is checked against a reference that reads the bytes as one little-     *)
(* endian number and writes it in base 32, most significant digit first.  *)
(* SRI and base 64 use base64Encode/Decode, which are not in src/; their   *)
(* parse branch is kept as an opaque outcome.                              *)
(***************************************************************************)
EXTENDS Integers, Sequences, Bitwise

CONSTANTS HashSize,    \* regularHashSize: hash type -> size in bytes
          Types,       \* the hash types hashes are made of
          ByteValues,  \* the byte values hashes are made of
          EditChars,   \* characters a printed hash may be corrupted with
          None

\* printHashType / parseHashTypeOpt: the names of the hash types.
TypeName(t) == CASE t = "md5"    -> <<"m", "d", "5">>
                 [] t = "sha1"   -> <<"s", "h", "a", "1">>
                 [] t = "sha256" -> <<"s", "h", "a", "2", "5", "6">>
                 [] t = "sha512" -> <<"s", "h", "a", "5", "1", "2">>

Base16Chars == <<"0","1","2","3","4","5","6","7","8","9","a","b","c","d","e","f">>
\* omitted: E O U T
Base32Chars == <<"0","1","2","3","4","5","6","7","8","9","a","b","c","d","f","g",
                 "h","i","j","k","l","m","n","p","q","r","s","v","w","x","y","z">>

\* The lengths of the encodings of a hash of n bytes (Hash::base16Len, ...).
base16Len(n) == 2 * n
base32Len(n) == (n * 8 - 1) \div 5 + 1
base64Len(n) == (((4 * n) \div 3 + 3) \div 4) * 4

\* Error outcomes of parsing, and the outcome of the base-64 branch.
BadHash(why) == [bad |-> why]
Base64Branch == [bad |-> "base64"]

-----------------------------------------------------------------------------
\* printHash16: two lower-case hex digits per byte, first byte first.
printHash16(h) ==
  LET b == h.bytes
  IN [k \in 1..2 * Len(b) |->
        LET byte == b[(k + 1) \div 2]
        IN Base16Chars[(IF k % 2 = 1 THEN shiftR(byte, 4) ELSE byte & 15) + 1]]

\* Seeded fault: the least significant digit printed first.
printHash32Reversed(h) ==
  LET b   == h.bytes
      len == base32Len(Len(b))
      Digit(n) ==
        LET i == (n * 5) \div 8
            j == (n * 5) % 8
            c == (shiftR(b[i + 1], j)
                  | (IF i >= Len(b) - 1 THEN 0 ELSE (b[i + 2] * 2^(8 - j)) % 256)) % 256
        IN Base32Chars[(c & 31) + 1]
  IN [k \in 1..len |-> Digit(k - 1)]

\* printHash32: digit n (from the most significant, n = len-1, down to 0)
\* takes five bits starting at bit n*5 of the little-endian byte string.
printHash32(h) ==
  LET b   == h.bytes
      len == base32Len(Len(b))
      Digit(n) ==
        LET i == (n * 5) \div 8
            j == (n * 5) % 8
            c == (shiftR(b[i + 1], j)
                  | (IF i >= Len(b) - 1 THEN 0 ELSE (b[i + 2] * 2^(8 - j)) % 256)) % 256
        IN Base32Chars[(c & 31) + 1]
  IN [k \in 1..len |-> Digit(len - k)]

\* Hash::to_string for Base16 and Base32, with the type prefix when asked.
to_string(h, base, includeType) ==
  (IF includeType THEN TypeName(h.type) \o <<":">> ELSE <<>>)
  \o (IF base = "base16" THEN printHash16(h) ELSE printHash32(h))

-----------------------------------------------------------------------------
\* The index of character c in the alphabet A, or Len(A) if it is not in it
\* (the `for (digit = 0; ...)` search).
RECURSIVE IndexIn(_, _, _)
IndexIn(A, c, d) == IF d >= Len(A) \/ A[d + 1] = c THEN d ELSE IndexIn(A, c, d + 1)

\* The base-16 branch of Hash::Hash(rest, type, isSRI): upper- or lower-case
\* hex digits; any other character is an error.
HexDigit(c) ==
  LET lower == IndexIn(Base16Chars, c, 0)
      upper == IndexIn(<<"A","B","C","D","E","F">>, c, 0)
  IN IF lower < 16 THEN lower ELSE IF upper < 6 THEN upper + 10 ELSE -1

\* Seeded fault: the high nibble shifted by 8.
Parse16Shift8(rest, type) ==
  LET n == HashSize[type]
      D == [k \in 1..Len(rest) |-> HexDigit(rest[k])]
  IN IF \E k \in 1..Len(rest) : D[k] < 0 THEN BadHash("invalid base-16")
     ELSE [type |-> type, bytes |-> [i \in 1..n |-> D[2 * i - 1] * 256 + D[2 * i]]]

Parse16(rest, type) ==
  LET n == HashSize[type]
      D == [k \in 1..Len(rest) |-> HexDigit(rest[k])]
  IN IF \E k \in 1..Len(rest) : D[k] < 0 THEN BadHash("invalid base-16")
     ELSE [type |-> type, bytes |-> [i \in 1..n |-> D[2 * i - 1] * 16 + D[2 * i]]]

\* The base-32 branch: characters from the last one on; digit n ORs its bits
\* into byte i at bit j and the overflow into byte i+1, and bits beyond the
\* last byte are an error.  `acc` is the byte array so far.
\* Seeded fault: bits beyond the last byte are dropped, not refused.
RECURSIVE Parse32LoopLax(_, _, _)
Parse32LoopLax(rest, n, acc) ==
  IF n = Len(rest) THEN [bytes |-> acc]
  ELSE
    LET size  == Len(acc)
        digit == IndexIn(Base32Chars, rest[Len(rest) - n], 0)
        i == (n * 5) \div 8
        j == (n * 5) % 8
        lo == [acc EXCEPT ![i + 1] = (@ | (digit * 2^j)) % 256]
    IN IF digit >= 32 THEN BadHash("invalid base-32")
       ELSE IF i < size - 1
         THEN Parse32LoopLax(rest, n + 1, [lo EXCEPT ![i + 2] = @ | shiftR(digit, 8 - j)])
       ELSE Parse32LoopLax(rest, n + 1, lo)

RECURSIVE Parse32Loop(_, _, _)
Parse32Loop(rest, n, acc) ==
  IF n = Len(rest) THEN [bytes |-> acc]
  ELSE
    LET size  == Len(acc)
        digit == IndexIn(Base32Chars, rest[Len(rest) - n], 0)
        i == (n * 5) \div 8
        j == (n * 5) % 8
        lo == [acc EXCEPT ![i + 1] = (@ | (digit * 2^j)) % 256]
    IN IF digit >= 32 THEN BadHash("invalid base-32")
       ELSE IF i < size - 1
         THEN Parse32Loop(rest, n + 1, [lo EXCEPT ![i + 2] = @ | shiftR(digit, 8 - j)])
       ELSE IF shiftR(digit, 8 - j) # 0 THEN BadHash("invalid base-32")
       ELSE Parse32Loop(rest, n + 1, lo)

Parse32(rest, type) ==
  LET r == Parse32Loop(rest, 0, [i \in 1..HashSize[type] |-> 0])
  IN IF "bad" \in DOMAIN r THEN r ELSE [type |-> type, bytes |-> r.bytes]

\* Hash::Hash(string_view rest, HashType type, bool isSRI): the branch is
\* chosen by the length of rest; MD5 and SHA1 are refused in SRI form.
ParseHash(rest, type, isSRI) ==
  LET n == HashSize[type]
  IN IF isSRI /\ type \in {"md5", "sha1"} THEN BadHash("weak SRI")
     ELSE IF ~isSRI /\ Len(rest) = base16Len(n) THEN Parse16(rest, type)
     ELSE IF ~isSRI /\ Len(rest) = base32Len(n) THEN Parse32(rest, type)
     ELSE IF isSRI \/ Len(rest) = base64Len(n) THEN Base64Branch
     ELSE BadHash("wrong length")

\* splitPrefixTo(rest, sep): the text before the first sep, and after it.
FirstIndex(s, c) == IF \E k \in 1..Len(s) : s[k] = c
                    THEN CHOOSE k \in 1..Len(s) : s[k] = c /\ \A l \in 1..k - 1 : s[l] # c
                    ELSE 0
SplitPrefix(s, sep) ==
  LET k == FirstIndex(s, sep)
  IN IF k = 0 THEN [found |-> FALSE, rest |-> s]
     ELSE [found |-> TRUE, prefix |-> SubSeq(s, 1, k - 1), rest |-> SubSeq(s, k + 1, Len(s))]

\* parseHashTypeOpt on a name, "none" if it names no type.
ParseHashTypeOpt(name) ==
  IF \E t \in {"md5", "sha1", "sha256", "sha512"} : TypeName(t) = name
  THEN CHOOSE t \in {"md5", "sha1", "sha256", "sha512"} : TypeName(t) = name
  ELSE "none"

\* Seeded fault: a `type:` prefix taken for SRI and `type-` not.
GetParsedTypeAndSRISwapped(s) ==
  LET colon == SplitPrefix(s, ":")
      dash  == SplitPrefix(s, "-")
      sp    == IF colon.found THEN colon ELSE dash
  IN IF ~sp.found THEN [type |-> "none", sri |-> FALSE, rest |-> s, known |-> TRUE]
     ELSE LET t == ParseHashTypeOpt(sp.prefix)
          IN [type |-> t, sri |-> colon.found, rest |-> sp.rest, known |-> t # "none"]

\* getParsedTypeAndSRI: a `type:` prefix, else a `type-` (SRI) prefix.
GetParsedTypeAndSRI(s) ==
  LET colon == SplitPrefix(s, ":")
      dash  == SplitPrefix(s, "-")
      sp    == IF colon.found THEN colon ELSE dash
  IN IF ~sp.found THEN [type |-> "none", sri |-> FALSE, rest |-> s, known |-> TRUE]
     ELSE LET t == ParseHashTypeOpt(sp.prefix)
          IN [type |-> t, sri |-> ~colon.found, rest |-> sp.rest, known |-> t # "none"]

\* Hash::parseAny(original, optType): the string or the caller gives the
\* type, and if both do they must agree; an unknown type name is a usage
\* error.
parseAny(s, optType) ==
  LET p == GetParsedTypeAndSRI(s)
  IN IF ~p.known THEN BadHash("unknown type")
     ELSE IF p.type = "none" /\ optType = "none" THEN BadHash("no type")
     ELSE IF p.type # "none" /\ optType # "none" /\ p.type # optType
          THEN BadHash("type mismatch")
     ELSE ParseHash(p.rest, IF p.type # "none" THEN p.type ELSE optType, p.sri)

-----------------------------------------------------------------------------
\* Reference: the bytes as one little-endian number, and that number in
\* base 32, most significant digit first, in base32Len digits.
RECURSIVE LENum(_)
LENum(b) == IF b = <<>> THEN 0 ELSE b[1] + 256 * LENum(Tail(b))

Print32Ref(h) ==
  LET len == base32Len(Len(h.bytes))
      N   == LENum(h.bytes)
  IN [k \in 1..len |-> Base32Chars[((N \div 32^(len - k)) % 32) + 1]]

-----------------------------------------------------------------------------
\* A hash is printed, the text may be corrupted in one character, and it is
\* parsed back with or without a type from the context.
Hashes == UNION {{[type |-> t, bytes |-> b] : b \in [1..HashSize[t] -> ByteValues]} : t \in Types}

VARIABLES hash, text, edited, opt, parsed
vars == <<hash, text, edited, opt, parsed>>

Init ==
  /\ hash \in Hashes
  /\ text = None
  /\ edited = FALSE
  /\ opt = None
  /\ parsed = None

\* Hash::to_string(Base16 or Base32, includeType).
PrintHash ==
  /\ text = None
  /\ \E base \in {"base16", "base32"}, includeType \in BOOLEAN :
       text' = to_string(hash, base, includeType)
  /\ UNCHANGED <<hash, edited, opt, parsed>>

Edit ==
  /\ text # None /\ parsed = None /\ ~edited
  /\ \E k \in 1..Len(text), c \in EditChars :
       /\ c # text[k]
       /\ text' = [text EXCEPT ![k] = c]
  /\ edited' = TRUE
  /\ UNCHANGED <<hash, opt, parsed>>

\* Hash::parseAny(text, optType).
ParseText ==
  /\ text # None /\ parsed = None
  /\ \E o \in {"none"} \cup Types :
       /\ opt' = o
       /\ parsed' = parseAny(text, o)
  /\ UNCHANGED <<hash, text, edited>>

Done == parsed # None /\ UNCHANGED vars

Next == PrintHash \/ Edit \/ ParseText \/ Done

Spec == Init /\ [][Next]_vars

-----------------------------------------------------------------------------
IsHash(x) == DOMAIN x = {"type", "bytes"}

TypeOK ==
  /\ hash \in Hashes
  /\ text \in {None} \cup Seq(STRING)
  /\ edited \in BOOLEAN
  /\ opt \in {None, "none"} \cup Types
  /\ parsed = None \/ parsed \in [bad : STRING]
     \/ parsed \in [type : Types, bytes : Seq(0..255)]

\* printHash32's bit arithmetic writes the little-endian value of the bytes
\* in base 32, most significant digit first.
Print32Correct == printHash32(hash) = Print32Ref(hash)

\* Printing then parsing with parseAny gives the hash back whenever a type
\* is known and does not contradict the text's prefix.
RoundTrip ==
  (parsed # None /\ ~edited /\ opt \in {"none", hash.type}
     /\ (opt # "none" \/ GetParsedTypeAndSRI(text).type # "none"))
    => parsed = hash

\* A base-32 text is accepted only in the form printHash32 gives: no two
\* texts parse to the same hash (the check on bits beyond the last byte).
Base32Canonical ==
  LET rest == GetParsedTypeAndSRI(text).rest
  IN (parsed # None /\ IsHash(parsed) /\ Len(rest) = base32Len(HashSize[parsed.type]))
       => printHash32(parsed) = rest
====
