----------------------------- MODULE BitString -----------------------------
(***************************************************************************)
(* The bit strings of src/util/bitstring.cxx and include/util/bitstring.hpp, *)
(* as bytes and a size.  Bits of the last byte behind the end (here: spare *)
(* bits) are kept, combined and compared like all others, so the state is  *)
(* the bytes, and the question is when they show.  Indices are from 0 and  *)
(* the bytes of a string are written as one function from bits.            *)
(***************************************************************************)
EXTENDS Integers, FiniteSets, Functions

CONSTANTS
  Byte,     \* bits of a byte (8 in the code)
  MaxBits,  \* longest string of the model
  Objects   \* objects that a program holds

ASSUME BitStringAssumption == Byte \in Nat \ {0} /\ MaxBits \in Nat

VARIABLES
  string,  \* string[o]: [size, bytes]
  neat     \* neat[o]: o was made without leaving anything in the spare bits

bitStringVars == <<string, neat>>

-----------------------------------------------------------------------------
Below(n) == 0..(n - 1)
nBytes(size) == (size + Byte - 1) \div Byte
Room(size) == Below(nBytes(size) * Byte)  \* the bits of the bytes of a string

\* Bit i of a number.
BitOf(v, i) == (v \div 2^i) % 2
Number(b, places) == SumFunction([i \in Below(places) |-> b[i] * 2^i])

\* A new string, of which each bit is set in turn.
Set(size, b(_)) ==
  [size |-> size, bytes |-> [i \in Room(size) |-> IF i < size THEN b(i) ELSE 0]]

Empty == Set(0, LAMBDA i : 0)

\* The bytes of the value are kept whole, with what `width` does not ask for.
fromUInt(v, width) == [size |-> width, bytes |-> [i \in Room(width) |-> BitOf(v, i)]]

toUInt(x) == Number(x.bytes, x.size)

\* The string cut into numbers of so many bits each, which must divide its size.
toUInts(x, width) ==
  [c \in Below(x.size \div width) |-> Number([i \in Below(width) |-> x.bytes[c * width + i]], width)]

\* operator[] of a range
SliceThrows(x, from, to) == from >= x.size \/ to > x.size \/ from > to

Slice(x, from, to) == Set(to - from, LAMBDA i : x.bytes[from + i])

\* New bytes are zero, those that stay are as they were.
Resized(x, size) ==
  [size |-> size,
   bytes |-> [i \in Room(size) |-> IF i \in DOMAIN x.bytes THEN x.bytes[i] ELSE 0]]

\* operator+= : the string grows, and each new bit is written.  (x += x would read
\* bits that it has not written yet; nobody calls it so.)
FaultyAppended(x, y) ==
  LET r == Resized(x, x.size + y.size) IN
  [r EXCEPT !.bytes = [i \in DOMAIN @ |->
     IF i - x.size \in Below(y.size) THEN (@[i] + y.bytes[i - x.size]) % 2 ELSE @[i]]]

Appended(x, y) ==
  LET r == Resized(x, x.size + y.size) IN
  [r EXCEPT !.bytes = [i \in DOMAIN @ |->
     IF i - x.size \in Below(y.size) THEN y.bytes[i - x.size] ELSE @[i]]]

\* operator+= of one bit
AppendedBit(x, b) ==
  LET r == Resized(x, x.size + 1) IN [r EXCEPT !.bytes[x.size] = b]

\* operator^=, &= and |= work on whole bytes, and throw for strings of two sizes.
Bytewise(op(_, _), x, y) == [x EXCEPT !.bytes = [i \in DOMAIN @ |-> op(@[i], y.bytes[i])]]
xor(a, b) == (a + b) % 2
and(a, b) == a * b
or(a, b) == a + b - a * b

Xored(x, y) == Bytewise(xor, x, y)
Anded(x, y) == Bytewise(and, x, y)
Ored(x, y) == Bytewise(or, x, y)

Not(x) == [x EXCEPT !.bytes = [i \in DOMAIN @ |-> 1 - @[i]]]

Reversed(x) == Set(x.size, LAMBDA i : x.bytes[x.size - 1 - i])

\* operator* : the weight counts bits below the size only.
InnerProduct(x, y) == SumFunction([i \in Below(x.size) |-> and(x.bytes[i], y.bytes[i])]) % 2

\* operator== compares bits, operator< whole bytes from the last one down.
Equal(x, y) == x.size = y.size /\ \A i \in Below(x.size) : x.bytes[i] = y.bytes[i]

ByteAt(x, c) == Number([i \in Below(Byte) |-> x.bytes[c * Byte + i]], Byte)

Less(x, y) ==
  \E c \in Below(nBytes(x.size)) :
    /\ ByteAt(x, c) < ByteAt(y, c)
    /\ \A m \in Below(nBytes(x.size)) : m > c => ByteAt(x, m) = ByteAt(y, m)

\* sample: a number below 2^size as bytes, the most significant first and none in
\* front that are zero, into zeros.
Sampled(v, size) ==
  LET used == CHOOSE u \in 0..nBytes(size) : 2^(u * Byte) > v /\ (u = 0 \/ 2^((u - 1) * Byte) <= v)
  IN  [size |-> size,
       bytes |-> [i \in Room(size) |->
         IF i < used * Byte THEN BitOf(v, ((used - 1 - (i \div Byte)) * Byte) + (i % Byte)) ELSE 0]]

\* aes: pseudorandom bytes, the bits of the last one masked with 0xFF >> spare.
\* An empty string has no last byte.
FaultyAes(v, size) == fromUInt(v, size)

Aes(v, size) ==
  LET drawn == fromUInt(v, size)  last == (nBytes(size) - 1) * Byte
      mask == (2^Byte - 1) \div 2^(nBytes(size) * Byte - size)
  IN  [drawn EXCEPT !.bytes = [i \in DOMAIN @ |-> IF i < last THEN @[i] ELSE and(@[i], BitOf(mask, i - last))]]

-----------------------------------------------------------------------------
(* ECC::encode and ECC::decode, for a string b of n bits: codewords of four *)
(* bits, three times the even bit and the odd one.                          *)
CODEWORD_SIZE(n) == IF n % 2 = 1 THEN 2 * (n + 1) ELSE 2 * n

Encode(b, n) ==
  [p \in Below(CODEWORD_SIZE(n)) |->
     LET i == 2 * (p \div 4) + (IF p % 4 = 3 THEN 1 ELSE 0) IN IF i < n THEN b[i] ELSE 0]

\* The even bit is that of two of three; when all three agree, the one error that
\* each codeword has is in the fourth bit.
FaultyDecode(w, size) ==
  [i \in Below(size \div 2) |->
     LET o == 4 * (i \div 2)  ones == w[o] + w[o + 1] + w[o + 2]
     IN  IF i % 2 = 0 THEN (IF ones >= 2 THEN 1 ELSE 0) ELSE w[o + 3]]

Decode(w, size) ==
  [i \in Below(size \div 2) |->
     LET o == 4 * (i \div 2)  ones == w[o] + w[o + 1] + w[o + 2]
     IN  IF i % 2 = 0 THEN (IF ones >= 2 THEN 1 ELSE 0)
         ELSE IF ones \in {0, 3} THEN 1 - w[o + 3] ELSE w[o + 3]]

-----------------------------------------------------------------------------
BitStringInit ==
  /\ string = [o \in Objects |-> Empty]
  /\ neat = [o \in Objects |-> TRUE]

Becomes(o, x, isPlain) ==
  /\ string' = [string EXCEPT ![o] = x]
  /\ neat' = [neat EXCEPT ![o] = isPlain]

\* A string from a number, which may have more bits than are asked for, as that
\* of PPRF::receive, fromUInt(~x, depth), has; or from bytes read or drawn.
FromUInt(o) == \E n \in 0..MaxBits, v \in Below(2^(nBytes(MaxBits) * Byte)) :
  Becomes(o, fromUInt(v, n), v < 2^n)

Sample(o) == \E n \in 0..MaxBits, v \in Below(2^MaxBits) :
  /\ v < 2^n
  /\ Becomes(o, Sampled(v, n), n % Byte = 0 \/ n < Byte)

Expand(o) == \E n \in 1..MaxBits, v \in Below(2^(nBytes(MaxBits) * Byte)) : Becomes(o, Aes(v, n), TRUE)

Cut(o, p) == \E from, to \in 0..MaxBits :
  ~SliceThrows(string[p], from, to) /\ Becomes(o, Slice(string[p], from, to), TRUE)

\* A shorter string keeps the bits it lost in its last byte.
Resize(o) == \E n \in 0..MaxBits :
  Becomes(o, Resized(string[o], n), neat[o] /\ (n >= string[o].size \/ n % Byte = 0))

AppendTo(o, p) ==
  /\ o # p /\ string[o].size + string[p].size <= MaxBits
  /\ Becomes(o, Appended(string[o], string[p]), neat[o])

AppendBit(o) == \E b \in {0, 1} :
  string[o].size < MaxBits /\ Becomes(o, AppendedBit(string[o], b), neat[o])

Combine(o, p) ==
  /\ string[o].size = string[p].size
  /\ \/ Becomes(o, Xored(string[o], string[p]), neat[o] /\ neat[p])
     \/ Becomes(o, Anded(string[o], string[p]), neat[o] \/ neat[p])
     \/ Becomes(o, Ored(string[o], string[p]), neat[o] /\ neat[p])

Complement(o) == Becomes(o, Not(string[o]), neat[o] /\ string[o].size % Byte = 0)
Mirror(o, p) == Becomes(o, Reversed(string[p]), TRUE)
SetBit(o) == \E i \in Below(string[o].size), b \in {0, 1} :
  Becomes(o, [string[o] EXCEPT !.bytes[i] = b], neat[o])
Clear(o) == Becomes(o, Empty, TRUE)
Assign(o, p) == Becomes(o, string[p], neat[p])

BitStringNext ==
  \E o, p \in Objects :
    \/ FromUInt(o) \/ Sample(o) \/ Expand(o) \/ Cut(o, p) \/ Resize(o) \/ AppendTo(o, p)
    \/ AppendBit(o) \/ Combine(o, p) \/ Complement(o) \/ Mirror(o, p) \/ SetBit(o) \/ Clear(o) \/ Assign(o, p)

BitStringSpec == BitStringInit /\ [][BitStringNext]_bitStringVars

-----------------------------------------------------------------------------
\* The bits of a string, for a reader.
Bits(x) == [i \in Below(x.size) |-> x.bytes[i]]

\* Whatever calls have left in the spare bits, every operation on two strings
\* gives the bits that it should give of their bits alone: nothing that is in the
\* spare bits of an operand ever becomes a bit of a result.  (The exception is
\* resize to more bits, which promises nothing of the new ones.)
SpareBitsHidden ==
  \A o, p \in Objects :
    LET x == string[o]  y == string[p] IN
    /\ Bits(Appended(x, y)) = [i \in Below(x.size + y.size) |->
         IF i < x.size THEN x.bytes[i] ELSE y.bytes[i - x.size]]
    /\ Bits(Reversed(Reversed(x))) = Bits(x) /\ Equal(fromUInt(toUInt(x), x.size), x)
    /\ \A from, to \in 0..MaxBits : ~SliceThrows(x, from, to) =>
         toUInt(Slice(x, from, to)) = (toUInt(x) \div 2^from) % 2^(to - from)
    /\ \A width \in 1..MaxBits : x.size % width = 0 =>
         \A c \in DOMAIN toUInts(x, width) :
           toUInts(x, width)[c] = toUInt(Slice(x, c * width, (c + 1) * width))
    /\ x.size = y.size =>
         /\ Bits(Xored(Xored(x, y), y)) = Bits(x)
         /\ InnerProduct(x, y) = Cardinality({i \in Below(x.size) : x.bytes[i] = 1 /\ y.bytes[i] = 1}) % 2
         /\ Equal(x, y) <=> toUInt(x) = toUInt(y)

\* Strings that no call has left spare bits in are in the order of their numbers,
\* which the Gaussian sampler compares a slice of random bits and a table with;
\* with spare bits two strings can be equal and one be less than the other.
OrderAgrees ==
  \A o, p \in Objects :
    /\ neat[o] => \A i \in DOMAIN string[o].bytes : i >= string[o].size => string[o].bytes[i] = 0
    /\ neat[o] /\ neat[p] /\ string[o].size = string[p].size =>
         (Less(string[o], string[p]) <=> toUInt(string[o]) < toUInt(string[p]))

\* The sum of two encoded strings, with one error in every codeword, is decoded to
\* the sum of the strings; an odd number of bits gets a zero behind it.
OneErrorCorrected ==
  \A o, p \in Objects :
    LET x == string[o]  y == string[p]  n == x.size  size == CODEWORD_SIZE(n) IN
    x.size = y.size =>
      \A error \in [Below(size \div 4) -> 0..3] :
        Decode([d \in Below(size) |->
                  xor(xor(Encode(x.bytes, n)[d], Encode(y.bytes, n)[d]),
                      IF error[d \div 4] = d % 4 THEN 1 ELSE 0)], size)
          = [i \in Below(size \div 2) |-> IF i < n THEN xor(x.bytes[i], y.bytes[i]) ELSE 0]
=============================================================================
